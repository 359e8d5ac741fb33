-------------------------------- MODULE TableText ------------------------------
(******************************************************************************)
(* What Turso keeps of a table, as far as introspection reads it: the text of *)
(* CREATE TABLE as the tokens sqlparse makes of it, together with what the    *)
(* text declares.  Every constructor builds both, so the declared meaning     *)
(* never depends on how the text is read back.                                *)
(******************************************************************************)
EXTENDS Naturals, SequencesExt

Token(ttype, value) == [ttype |-> ttype, value |-> value]
Keyword(word)  == Token("Keyword", word)
Name(word)     == Token("Name", word)         \* bare, or in backticks or brackets
Quoted(word)   == Token("Symbol", word)       \* "word"
Text(word)     == Token("Single", word)       \* 'word'
Operator(word) == Token("Operator", word)
Builtin(word)  == Token("Builtin", word)      \* the name of a type
Number(digits) == Token("Number", digits)
Comment        == Token("Comment", "CHECK UNIQUE")
Open  == Token("Punctuation", "(")
Close == Token("Punctuation", ")")
Comma == Token("Punctuation", ",")

None == "none"
Listed(texts) == FlattenSeq([i \in DOMAIN texts |->
                   IF i = 1 THEN texts[i] ELSE <<Comma>> \o texts[i]])
InParens(text) == <<Open>> \o text \o <<Close>>
--------------------------------------------------------------------------------
(* Expressions: their tokens, the columns they use in the order of their text *)
(* and the columns they pass to json_valid().                                 *)
Expr(text, uses) == [text |-> text, uses |-> uses, json |-> {}]

ColumnRef(token, column) == Expr(<<token>>, <<column>>)
Literal(token)           == Expr(<<token>>, <<>>)

Joined(e, f, text) == [text |-> text, uses |-> e.uses \o f.uses, json |-> e.json \union f.json]

Infix(e, word, f)  == Joined(e, f, e.text \o <<word>> \o f.text)
Negated(e)         == [e EXCEPT !.text = <<Keyword("NOT")>> \o @]
Enclosed(e)        == [e EXCEPT !.text = InParens(@)]
Collated(e, token) == [e EXCEPT !.text = @ \o <<Keyword("COLLATE"), token>>]
Call(function, e, f) ==
  Joined(e, f, <<Name(function)>> \o InParens(Listed(<<e.text, f.text>>)))
Among(e, f, g) ==
  LET list == Joined(f, g, InParens(Listed(<<f.text, g.text>>)))
  IN  Joined(e, list, e.text \o <<Keyword("IN")>> \o list.text)
Between(e, f, g) == Infix(Infix(e, Keyword("BETWEEN"), f), Keyword("AND"), g)
Cases(e, f, g) ==
  Joined(Joined(e, f, <<>>), g,
         <<Keyword("CASE"), Keyword("WHEN")>> \o e.text \o <<Keyword("THEN")>> \o f.text
           \o <<Keyword("ELSE")>> \o g.text \o <<Keyword("END")>>)
Cast(e) == [e EXCEPT !.text = <<Name("CAST"), Open>> \o @ \o
                                <<Keyword("AS"), Builtin("INTEGER"), Close>>]
JsonValid(token, column) ==
  [text |-> <<Name("JSON_VALID"), Open, token, Close>>, uses |-> <<column>>, json |-> {column}]
--------------------------------------------------------------------------------
(* Clauses and definitions: their tokens, the UNIQUE and CHECK constraints     *)
(* that they declare, each with its name and its columns, and more.            *)
Nothing == [text |-> <<>>, is |-> None, name |-> None, uses |-> <<>>, collation |-> None, json |-> {}]

Unique          == [Nothing EXCEPT !.text = <<Keyword("UNIQUE")>>, !.is = "unique"]
Collate(token)  == [Nothing EXCEPT !.text = <<Keyword("COLLATE"), token>>,
                                   !.collation = token.value]
Check(e)        == [Nothing EXCEPT !.text = <<Keyword("CHECK")>> \o InParens(e.text),
                                   !.is = "check", !.uses = e.uses, !.json = e.json]
Says(text)      == [Nothing EXCEPT !.text = text]     \* it declares nothing of interest
References(table, column) ==
  Says(<<Keyword("REFERENCES"), Quoted(table)>> \o InParens(<<Quoted(column)>>))

\* A constraint, of a column or of the table, with its name or None.
Named(name, text) == IF name = None THEN text
                     ELSE <<Keyword("CONSTRAINT"), Quoted(name)>> \o text
WithName(name, clause) == [clause EXCEPT !.text = Named(name, @), !.name = name]

\* Types of one word, which has to be quoted, with a length in it.
QuotedTypes == [w \in {"varchar(5)"} |-> [name |-> "varchar", length |-> "5"]]

\* The length that a type as text(n) declares.
Type(words, length) ==
  [words |-> words, length |-> length,
   text |-> IF length = None THEN words ELSE words \o InParens(<<Number(length)>>)]
QuotedType(word) ==
  [words |-> <<Quoted(word)>>, length |-> QuotedTypes[word].length, text |-> <<Quoted(word)>>]

Declares(name, is, columns) == [name |-> name, is |-> is, columns |-> columns]
NoColumn == [column |-> None, type |-> None, length |-> None, collation |-> None]

\* A constraint of a column has the name that stands before its own clause.
Column(token, type, clauses) ==
  [text     |-> <<token>> \o type.text \o FlattenSeq([i \in DOMAIN clauses |-> clauses[i].text]),
   declares |-> {Declares(c.name, c.is, IF c.is = "unique" THEN <<token.value>> ELSE c.uses) :
                   c \in {x \in ToSet(clauses) : x.is # None}},
   json     |-> UNION {clauses[i].json : i \in DOMAIN clauses},
   says     |-> [column |-> token.value,
                 type |-> type.words, length |-> type.length,
                 collation |-> LET named == SelectSeq(clauses, LAMBDA c : c.collation # None)
                               IN  IF named = <<>> THEN None ELSE Head(named).collation]]

TableCheck(name, e) ==
  [text |-> Named(name, Check(e).text), declares |-> {Declares(name, "check", e.uses)},
   json |-> e.json, says |-> NoColumn]

\* References are records of a column, its token, and what follows it.
TableUnique(name, refs) ==
  [text |-> Named(name, <<Keyword("UNIQUE")>> \o
              InParens(Listed([i \in DOMAIN refs |-> <<refs[i].token>> \o refs[i].modifiers]))),
   declares |-> {Declares(name, "unique", [i \in DOMAIN refs |-> refs[i].column])},
   json |-> {}, says |-> NoColumn]

TableSays(text) == [text |-> text, declares |-> {}, json |-> {}, says |-> NoColumn]

\* The statement itself; the name of the table may look like anything.
CreateTable(definitions) ==
  <<Keyword("CREATE"), Keyword("TABLE"), Quoted("t(a, b CHECK")>>
    \o InParens(Listed([i \in DOMAIN definitions |-> definitions[i].text]))
    \o <<Keyword("STRICT")>>
================================================================================
