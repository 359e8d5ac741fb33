--------------------------- MODULE TableIntrospection --------------------------
(******************************************************************************)
(* How introspection reads a table back (DatabaseIntrospection in             *)
(* src/django_pyturso/introspection.py): the pragmas do not tell the CHECK    *)
(* and UNIQUE constraints, collations, lengths and JSON columns, so they are  *)
(* read from the tokens of the CREATE TABLE statement.                        *)
(*                                                                            *)
(* The readers of columns make one pass over the tokens each and are          *)
(* operators.  Constraints are read by a scanner that keeps a dozen locals;   *)
(* here a step is one turn of its loop over the tokens.                       *)
(******************************************************************************)
EXTENDS TableText, FiniteSets, TLC

CONSTANTS Tables     \* the tables to read: [definitions, key, indexes, foreign]

VARIABLES
  table,             \* the one that is read; it never changes
  sql,               \* _get_schema_sql(): the tokens of its CREATE TABLE
  phase,             \* "describe" | "scan" | "indexes" | "keys" | "done"
  tokens,            \* the tokens that are still to be read
  scan,              \* the locals of _parse_column_or_constraint_definition()
  unnamed_index,
  constraints,
  description

vars == <<table, sql, phase, tokens, scan, unnamed_index, constraints, description>>
--------------------------------------------------------------------------------
(* Tokens and names.                                                          *)

\* What stands behind the first parenthesis, comments aside.
Body ==
  LET code == SelectSeq(sql, LAMBDA t : t.ttype # "Comment")
  IN  SubSeq(code, 1 + SelectInSeq(code, LAMBDA t : t = Open), Len(code))

\* ASCII letters are compared without their case, others as they are.
identifier_key(word) ==
  CASE word = "A" -> "a" [] word = "B" -> "b" [] word = "END" -> "end" [] word = "LIKE" -> "like"
    [] word = "GLOB" -> "glob" [] word = "NULL" -> "null" [] word = "JSON_VALID" -> "json_valid"
    [] OTHER -> word

Columns == {d.says.column : d \in {e \in ToSet(table.definitions) : e.says.column # None}}

\* columns_by_name.get(): the declared column that a word refers to.
ColumnNamed(word) ==
  IF \E c \in Columns : identifier_key(c) = identifier_key(word)
  THEN CHOOSE c \in Columns : identifier_key(c) = identifier_key(word)
  ELSE None

ColumnOrWord(word) == IF ColumnNamed(word) = None THEN word ELSE ColumnNamed(word)

IsKeyword(t, words) == t.ttype = "Keyword" /\ t.value \in words

TableConstraintKeywords == {"CHECK", "CONSTRAINT", "FOREIGN KEY", "PRIMARY KEY", "UNIQUE"}
--------------------------------------------------------------------------------
(* Collations, lengths and JSON columns.                                      *)

StartOfBody == [depth |-> 0, start |-> TRUE, column |-> None, needs |-> FALSE, ended |-> FALSE,
                found |-> [c \in {} |-> None]]

\* Mutant: COLLATE counts inside parentheses, too.
ReadsAnywhere(acc) == TRUE

\* Only what stands outside parentheses belongs to the column itself.
ReadsHere(acc) == acc.depth = 0

ReadCollation(acc, t) ==
  IF acc.ended THEN acc
  ELSE CASE t = Open  -> [acc EXCEPT !.depth = @ + 1]
    [] t = Close -> IF acc.depth = 0 THEN [acc EXCEPT !.ended = TRUE]
                                     ELSE [acc EXCEPT !.depth = @ - 1]
    [] t = Comma /\ acc.depth = 0 -> [acc EXCEPT !.start = TRUE, !.column = None, !.needs = FALSE]
    [] OTHER ->
         IF ~ReadsHere(acc) THEN acc
         ELSE IF acc.start
         THEN IF IsKeyword(t, TableConstraintKeywords) THEN [acc EXCEPT !.start = FALSE]
              ELSE [acc EXCEPT !.start = FALSE, !.column = t.value, !.found = (t.value :> None) @@ @]
         ELSE IF acc.column = None THEN acc
         ELSE IF acc.needs
         THEN [acc EXCEPT !.needs = FALSE, !.found[acc.column] = t.value]
         ELSE [acc EXCEPT !.needs = IsKeyword(t, {"COLLATE"})]

get_column_collations == FoldLeft(ReadCollation, StartOfBody, Body).found

\* The parentheses that are open in front of a token of the body.
DepthBefore(i) == Len(SelectSeq(SubSeq(Body, 1, i - 1), LAMBDA t : t = Open))
                  - Len(SelectSeq(SubSeq(Body, 1, i - 1), LAMBDA t : t = Close))

\* A definition ends at a comma or, the last one, at the parenthesis.
Ends == {i \in DOMAIN Body : Body[i] \in {Comma, Close} /\ DepthBefore(i) = 0}
DefinitionBefore(i) ==
  LET earlier == {j \in Ends : j < i}
      start   == IF earlier = {} THEN 1 ELSE 1 + CHOOSE j \in earlier : \A k \in earlier : k <= j
  IN  SubSeq(Body, start, i - 1)

\* The type of a column is the word behind its name, which may be quoted, and what stands
\* in parentheses behind that.
DeclaredType(d) ==
  IF Len(d) > 2 /\ d[3] = Open THEN SubSeq(d, 2, Min({5, Len(d)})) ELSE SubSeq(d, 2, Min({2, Len(d)}))

\* The length that a char(n) or varchar(n) has.
get_field_size(type) ==
  CASE Len(type) = 1 /\ type[1].value \in DOMAIN QuotedTypes -> QuotedTypes[type[1].value].length
    [] /\ Len(type) = 4 /\ type[1].value \in {"char", "varchar"}
       /\ type[2] = Open /\ type[3].ttype = "Number" /\ type[4] = Close -> type[3].value
    [] OTHER -> None

get_column_sizes ==
  LET sized == {d \in {DefinitionBefore(i) : i \in Ends} :
                  /\ ~IsKeyword(d[1], TableConstraintKeywords)
                  /\ get_field_size(DeclaredType(d)) # None}
  IN  [c \in {d[1].value : d \in sized} |->
         get_field_size(DeclaredType(CHOOSE d \in sized : d[1].value = c))]

\* Comments are not left out here; the identifier has to stand alone in the call.
get_json_columns ==
  LET Calls(i) == /\ identifier_key(sql[i].value) = "json_valid"
                  /\ sql[i + 1] = Open /\ sql[i + 3] = Close
                  /\ sql[i + 2].ttype \in {"Name", "Keyword", "Symbol"}
  IN  {ColumnNamed(sql[i + 2].value) : i \in {j \in 1 .. Len(sql) - 3 : Calls(j)}} \ {None}

\* The types that columns of Django's fields are declared with (data_types in base.py).
data_types ==
  <<"integer">> :> {"AutoField", "BigAutoField", "SmallAutoField", "IntegerField"}
  @@ <<"bool">> :> {"BooleanField"} @@ <<"BLOB">> :> {"BinaryField"}
  @@ <<"varchar">> :> {"CharField", "FileField", "FilePathField", "SlugField"}
  @@ <<"char">> :> {"CharField", "IPAddressField", "GenericIPAddressField", "UUIDField"}
  @@ <<"bigint">> :> {"BigIntegerField", "DurationField"} @@ <<"smallint">> :> {"SmallIntegerField"}
  @@ <<"integer", "unsigned">> :> {"PositiveIntegerField"}
  @@ <<"bigint", "unsigned">> :> {"PositiveBigIntegerField"}
  @@ <<"smallint", "unsigned">> :> {"PositiveSmallIntegerField"}
  @@ <<"decimal">> :> {"DecimalField"} @@ <<"real">> :> {"FloatField"}
  @@ <<"text">> :> {"TextField", "JSONField"} @@ <<"date">> :> {"DateField"}
  @@ <<"datetime">> :> {"DateTimeField"} @@ <<"time">> :> {"TimeField"}

\* FlexibleFieldLookupDict, for those types.
base_data_types_reverse ==
  <<"bool">> :> "BooleanField" @@ <<"smallint">> :> "SmallIntegerField"
  @@ <<"smallint", "unsigned">> :> "PositiveSmallIntegerField"
  @@ <<"integer">> :> "IntegerField" @@ <<"integer", "unsigned">> :> "PositiveIntegerField"
  @@ <<"bigint">> :> "BigIntegerField" @@ <<"bigint", "unsigned">> :> "PositiveBigIntegerField"
  @@ <<"decimal">> :> "DecimalField" @@ <<"real">> :> "FloatField" @@ <<"text">> :> "TextField"
  @@ <<"char">> :> "CharField" @@ <<"varchar">> :> "CharField" @@ <<"BLOB">> :> "BinaryField"
  @@ <<"date">> :> "DateField" @@ <<"datetime">> :> "DateTimeField" @@ <<"time">> :> "TimeField"

\* The name of a type, without a length in its own word.
TypeName(type) ==
  [i \in DOMAIN type |-> LET word == type[i].value
                        IN IF word \in DOMAIN QuotedTypes THEN QuotedTypes[word].name ELSE word]
get_field_type(type, pk, json) ==
  LET field == base_data_types_reverse[TypeName(type)]
  IN  IF pk /\ field \in {"BigIntegerField", "IntegerField", "SmallIntegerField"} THEN "AutoField"
      ELSE IF json THEN "JSONField" ELSE field

\* get_table_description(), read as inspectdb does: one record per column.
get_table_description ==
  LET collations == get_column_collations
      sizes      == get_column_sizes
      json       == get_json_columns
  IN  [c \in Columns |->
     LET says == (CHOOSE d \in ToSet(table.definitions) : d.says.column = c).says
         pk   == table.key = <<c>>     \* a key of several columns marks none of them
     IN  [collation |-> IF c \in DOMAIN collations THEN collations[c] ELSE None,
          length    |-> IF c \in DOMAIN sizes THEN sizes[c] ELSE get_field_size(says.type),
          pk        |-> pk,
          field     |-> get_field_type(says.type, pk, c \in json)]]
--------------------------------------------------------------------------------
(* One definition: the locals of the scanner and one turn of its loop.        *)

\* "kind" is is_constraint_definition and is_named_constraint: not known yet, a named
\* constraint, one that begins with UNIQUE, or anything else.
StartOfDefinition ==
  [kind |-> "unknown", braces_deep |-> 0, field_name |-> None, constraint_name |-> None,
   unique |-> FALSE, unique_needs_column |-> FALSE, unique_braces_deep |-> 0,
   unique_columns |-> <<>>,
   check |-> FALSE, check_braces_deep |-> 0, check_needs_collation |-> FALSE,
   check_pending_column |-> None, check_expects_operand |-> TRUE, check_columns |-> <<>>]

IsName(t) == t.ttype \in {"Name", "Keyword", "Symbol", "Single"}

\* Outside its parentheses a definition ends at a comma or at the end of the statement.
EndsDefinition(s, t) == s.braces_deep = 0 /\ t \in {Close, Comma}

Counted(s, t) ==
  [s EXCEPT !.braces_deep = CASE t = Open -> @ + 1 [] t = Close -> @ - 1 [] OTHER -> @]

Classified(s, t) ==
  IF s.kind # "unknown" THEN s
  ELSE [s EXCEPT !.kind = CASE IsKeyword(t, {"CONSTRAINT"}) -> "named"
                            [] IsKeyword(t, {"UNIQUE"}) -> "unique"
                            [] OTHER -> "column"]

\* A column: its name, and whether UNIQUE stands behind it.
ReadColumn(s, t) ==
  LET field == IF s.field_name = None /\ IsName(t) THEN t.value ELSE s.field_name
  IN  [s EXCEPT !.field_name = field,
                !.unique_columns = IF IsKeyword(t, {"UNIQUE"}) /\ field # None THEN <<field>> ELSE @]

\* A constraint: its name, and the first name of each item of a UNIQUE list.
ReadUnique(s, t) ==
  LET named == IF s.kind = "named" /\ s.constraint_name = None /\ IsName(t)
               THEN [s EXCEPT !.constraint_name = t.value] ELSE s
  IN  CASE IsKeyword(t, {"UNIQUE"}) ->
             [named EXCEPT !.unique = TRUE, !.unique_needs_column = TRUE,
                           !.unique_braces_deep = s.braces_deep]
        [] ~IsKeyword(t, {"UNIQUE"}) /\ s.unique /\ s.unique_braces_deep = s.braces_deep ->
             [named EXCEPT !.unique = (s.unique_columns = <<>>)]
        [] ~IsKeyword(t, {"UNIQUE"}) /\ s.unique /\ s.unique_braces_deep # s.braces_deep ->
             IF t = Comma THEN [named EXCEPT !.unique_needs_column = TRUE]
             ELSE IF s.unique_needs_column /\ IsName(t)
             THEN [named EXCEPT !.unique_needs_column = FALSE,
                                !.unique_columns = Append(@, ColumnOrWord(t.value))]
             ELSE named
        [] ~IsKeyword(t, {"UNIQUE"}) /\ ~s.unique -> named

\* Such a token is not looked at any further.
SkipsCheck(s, t) ==
  \/ s.kind = "unknown" /\ IsKeyword(t, {"CONSTRAINT"})
  \/ /\ Classified(s, t).kind # "column"
     /\ s.unique /\ ~IsKeyword(t, {"UNIQUE"})
     /\ s.unique_braces_deep = Counted(s, t).braces_deep

Literals    == {"CURRENT_DATE", "CURRENT_TIME", "CURRENT_TIMESTAMP", "FALSE", "NULL", "TRUE"}
SyntaxWords == {"AND", "AS", "BETWEEN", "CASE", "ELSE", "ESCAPE", "IN", "IS", "OR", "THEN", "WHEN"}

\* END, LIKE and GLOB are columns where an operand is expected, unless quoted.
ActsAsSyntax(s, t) ==
  /\ t.ttype # "Symbol"
  /\ identifier_key(t.value) \in {"end", "like", "glob"}
  /\ ~s.check_expects_operand

MayBeColumn(s, t) ==
  \/ t.ttype \in {"Name", "Keyword", "Symbol"}
  \/ s.check_expects_operand /\ t.ttype = "Operator" /\ identifier_key(t.value) = "like"

\* A token of the expression itself.
ReadExpression(s, t) ==
  IF s.check_needs_collation THEN [s EXCEPT !.check_needs_collation = FALSE]
  ELSE IF t.ttype = "Punctuation" THEN [s EXCEPT !.check_expects_operand = t.value \in {"(", ","}]
  ELSE IF IsKeyword(t, {"COLLATE"}) THEN [s EXCEPT !.check_needs_collation = TRUE]
  ELSE IF IsKeyword(t, Literals) THEN [s EXCEPT !.check_expects_operand = FALSE]
  ELSE IF IsKeyword(t, {"NOT"}) THEN s
  ELSE IF IsKeyword(t, SyntaxWords) THEN [s EXCEPT !.check_expects_operand = TRUE]
  ELSE IF ActsAsSyntax(s, t)
       THEN [s EXCEPT !.check_expects_operand = identifier_key(t.value) # "end"]
  ELSE IF MayBeColumn(s, t)
       THEN [s EXCEPT !.check_pending_column = ColumnNamed(t.value),
                      !.check_expects_operand = FALSE]
  ELSE [s EXCEPT !.check_expects_operand = t.ttype = "Operator"]

\* Mutant: a name counts although a parenthesis follows it.
CountsAlways(s, t) == s.check_pending_column # None

\* A name that a parenthesis follows was that of a function.
PendingCounts(s, t) == s.check_pending_column # None /\ t # Open

SettlePending(s, t) ==
  [s EXCEPT !.check_columns = IF PendingCounts(s, t) THEN Append(@, s.check_pending_column) ELSE @,
            !.check_pending_column = None]

ReadCheck(s, t) ==
  IF IsKeyword(t, {"CHECK"})
  THEN [s EXCEPT !.check = TRUE, !.check_needs_collation = FALSE, !.check_expects_operand = TRUE,
                 !.check_braces_deep = s.braces_deep]
  ELSE IF ~s.check THEN s
  ELSE LET settled == SettlePending(s, t)
       IN  IF s.check_braces_deep = s.braces_deep
           THEN [settled EXCEPT !.check = (settled.check_columns = <<>>)]
           ELSE ReadExpression(settled, t)

ReadHead(s, t) ==
  LET ready == Classified(Counted(s, t), t)
  IN  IF s.kind = "unknown" /\ ready.kind = "named" THEN ready
      ELSE IF ready.kind = "column" THEN ReadColumn(ready, t) ELSE ReadUnique(ready, t)

Read(s, t) == IF SkipsCheck(s, t) THEN ReadHead(s, t) ELSE ReadCheck(ReadHead(s, t), t)
--------------------------------------------------------------------------------
(* The constraints of a table.                                                *)

Constraint(columns, is) == [columns |-> columns, is |-> is]

\* list(dict.fromkeys(...)): each column once, where it came first.
FirstUses(columns) ==
  FoldLeft(LAMBDA seen, c : IF Contains(seen, c) THEN seen ELSE Append(seen, c), <<>>, columns)

Unnamed(n) == "__unnamed_constraint_" \o ToString(n) \o "__"

\* What a finished definition yields: its UNIQUE constraint first.
Yields(s) ==
  (IF s.unique_columns = <<>> THEN <<>> ELSE <<Constraint(s.unique_columns, "unique")>>)
  \o (IF s.check_columns = <<>> THEN <<>> ELSE <<Constraint(FirstUses(s.check_columns), "check")>>)

Init ==
  /\ table \in Tables
  /\ sql = CreateTable(table.definitions)
  /\ phase = "describe"
  /\ tokens = <<>>
  /\ scan = StartOfDefinition
  /\ unnamed_index = 0
  /\ constraints = [n \in {} |-> Constraint(<<>>, "check")]
  /\ description = [c \in {} |-> None]

Describe ==
  /\ phase = "describe"
  /\ description' = get_table_description
  /\ phase' = "scan"
  /\ tokens' = Body
  /\ UNCHANGED <<table, sql, scan, unnamed_index, constraints>>

ReadToken ==
  /\ phase = "scan"
  /\ ~EndsDefinition(scan, Head(tokens))
  /\ scan' = Read(scan, Head(tokens))
  /\ tokens' = Tail(tokens)
  /\ UNCHANGED <<table, sql, phase, unnamed_index, constraints, description>>

EndDefinition ==
  LET found == Yields(scan)
      name  == scan.constraint_name
  IN  /\ phase = "scan"
      /\ EndsDefinition(scan, Head(tokens))
      /\ constraints' = IF name # None
                        THEN IF found = <<>> THEN constraints
                             ELSE (name :> Last(found)) @@ constraints
                        ELSE [n \in {Unnamed(unnamed_index + i) : i \in DOMAIN found} |->
                                found[CHOOSE i \in DOMAIN found : n = Unnamed(unnamed_index + i)]]
                             @@ constraints
      /\ unnamed_index' = unnamed_index + IF name # None THEN 0 ELSE Len(found)
      /\ scan' = StartOfDefinition
      /\ tokens' = Tail(tokens)
      /\ phase' = IF Head(tokens) = Close THEN "indexes" ELSE "scan"
      /\ UNCHANGED <<table, sql, description>>

\* Indexes come from the pragmas; those the engine made for a constraint have no SQL.
AddIndexes ==
  /\ phase = "indexes"
  /\ constraints' = [n \in {x.name : x \in {y \in table.indexes : y.sql}} |->
                       Constraint((CHOOSE x \in table.indexes : x.name = n).columns,
                                  IF (CHOOSE x \in table.indexes : x.name = n).unique
                                  THEN "unique index" ELSE "index")] @@ constraints
  /\ phase' = "keys"
  /\ UNCHANGED <<table, sql, tokens, scan, unnamed_index, description>>

AddKeys ==
  /\ phase = "keys"
  /\ constraints' = (IF table.key = <<>> THEN [n \in {} |-> None]
                     ELSE "__primary__" :> Constraint(table.key, "primary_key"))
                    @@ [n \in {"fk_" \o ToString(i - 1) : i \in DOMAIN table.foreign} |->
                          Constraint(table.foreign[CHOOSE i \in DOMAIN table.foreign :
                                                     n = "fk_" \o ToString(i - 1)], "foreign_key")]
                    @@ constraints
  /\ phase' = "done"
  /\ UNCHANGED <<table, sql, tokens, scan, unnamed_index, description>>

Next == Describe \/ ReadToken \/ EndDefinition \/ AddIndexes \/ AddKeys

Spec == Init /\ [][Next]_vars
--------------------------------------------------------------------------------
(* What introspection has to find.                                            *)

Definitions == table.definitions

\* The UNIQUE and CHECK constraints that are declared, and by which definition.
Declarations == UNION {{i} \X Definitions[i].declares : i \in DOMAIN Definitions}

\* What introspection reports: each column that a CHECK uses, once.
AsReported(c) == Constraint(IF c.is = "check" THEN FirstUses(c.columns) ELSE c.columns, c.is)

\* Those of the table that have a name.
Retained ==
  {<<p[2].name, AsReported(p[2])>> :
     p \in {q \in Declarations : /\ Definitions[q[1]].says.column = None
                                /\ q[2].name # None /\ q[2].columns # <<>>}}

FromPragmas ==
  {<<x.name, Constraint(x.columns, IF x.unique THEN "unique index" ELSE "index")>> :
     x \in {y \in table.indexes : y.sql}}
  \union (IF table.key = <<>> THEN {} ELSE {<<"__primary__", Constraint(table.key, "primary_key")>>})
  \union {<<"fk_" \o ToString(i - 1), Constraint(table.foreign[i], "foreign_key")>> :
            i \in DOMAIN table.foreign}

TypeOK ==
  /\ phase \in {"describe", "scan", "indexes", "keys", "done"}
  /\ ToSet(tokens) \subseteq ToSet(sql)
  /\ scan.kind \in {"unknown", "named", "unique", "column"}
  /\ scan.braces_deep \in Nat
  /\ ToSet(scan.check_columns) \union {scan.check_pending_column} \subseteq Columns \union {None}
  /\ unnamed_index \in Nat
  /\ DOMAIN description \subseteq Columns
  /\ \A n \in DOMAIN constraints :
       constraints[n].is \in {"unique", "check", "index", "unique index", "primary_key", "foreign_key"}

\* The constraints that are read back are those the table declares: a named one of the table
\* under its name, and of the others as many of each kind, with the same columns in the same
\* order, as there are declarations of it that use a column.  No word of the syntax, no
\* function, collation, literal or comment is taken for a column, and no column is missed
\* for being spelled like one (docs/compatibility.md, "Introspection").  Django finds the
\* constraint that a migration drops or alters by these columns.  Which name a constraint
\* that is declared within a column has is left to ReportedAsDocumented.
ConstraintsAsDeclared ==
  phase = "done" =>
    LET reported == {<<n, constraints[n]>> : n \in DOMAIN constraints}
        known    == Retained \union FromPragmas
        others   == reported \ known
        declared == {p \in Declarations : /\ p[2].columns # <<>>
                                          /\ \/ Definitions[p[1]].says.column # None
                                             \/ p[2].name = None}
    IN  /\ known \subseteq reported
        /\ \A c \in {r[2] : r \in others} \union {AsReported(p[2]) : p \in declared} :
             Cardinality({r \in others : r[2] = c}) = Cardinality({p \in declared : AsReported(p[2]) = c})

\* What is reported beside the pragmas is declared: with the columns that it uses, and under
\* its name if it has one (docs/compatibility.md: "Quoted column and constraint names retain
\* their actual names", "Introspection reports only the columns used by that expression").
ReportedAsDocumented ==
  phase = "done" =>
    \A n \in DOMAIN constraints :
      \/ <<n, constraints[n]>> \in FromPragmas
      \/ \E p \in Declarations : constraints[n] = AsReported(p[2]) /\ p[2].name \in {None, n}

\* Each column is described by its own declaration: the length of its type, its own
\* collation, and JSON only if some constraint validates that very column; text in
\* defaults, checks, references and names of constraints changes none of them.  The field
\* that inspectdb writes for it is one that the backend declares with that type.
ColumnsAsDeclared ==
  phase = "done" =>
    \A d \in {e \in ToSet(Definitions) : e.says.column # None} :
      LET found == description[d.says.column]
          json  == \E e \in ToSet(Definitions) : d.says.column \in e.json
      IN  /\ found.collation = d.says.collation
          /\ found.length = d.says.length
          /\ \/ found.field \in data_types[TypeName(d.says.type)] \union {"JSONField"}
             \/ found.pk /\ found.field = "AutoField"
          /\ (found.field = "JSONField") = (json /\ found.field # "AutoField")
================================================================================
