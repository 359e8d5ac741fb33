-------------------------------- MODULE MCTables -------------------------------
(* TableIntrospection on tables that vary one thing at a time: the expression   *)
(* of a CHECK, the clauses of a column, and the constraints of the table.       *)
EXTENDS TableIntrospection

Integer == Type(<<Builtin("integer")>>, None)
Varchar == Type(<<Name("varchar")>>, "5")

\* Columns that are called as words of the syntax are, and one of the case of another.
Plain == <<Column(Quoted("a"), Integer, <<>>), Column(Name("b"), Varchar, <<>>),
           Column(Quoted("END"), Integer, <<>>), Column(Text("like"), Integer, <<>>),
           Column(Quoted("GLOB"), Integer, <<>>)>>

Words    == {ColumnRef(Keyword("END"), "END"), ColumnRef(Name("glob"), "GLOB")}
Like     == ColumnRef(Operator("LIKE"), "like")
A        == ColumnRef(Name("A"), "a")
B        == ColumnRef(Quoted("b"), "b")
Operands == Words \union {Like, A, B, Literal(Keyword("NULL")), Literal(Text("a")), Literal(Number("0"))}
Infixes  == {Operator("LIKE"), Operator("NOT LIKE"), Name("GLOB"), Operator(">"), Keyword("IS")}

Simple ==
  UNION {{Infix(e, w, f) : w \in Infixes} \union {Call("b", e, f), Call("like", e, f)} :
           e \in Operands, f \in Operands}
  \union {Negated(e) : e \in Operands \ {Like}}
  \union {Collated(e, Name("b")) : e \in Operands}
  \union {Cast(e) : e \in Operands}

Nested ==
  UNION {{Cases(e, f, A), Cases(A, e, f), Infix(Cases(B, e, f), Operator("LIKE"), f),
          Among(e, f, B), Between(e, B, f),
          Infix(Enclosed(Negated(e)), Keyword("AND"), Enclosed(f)),
          Infix(Collated(e, Name("b")), Name("GLOB"), f)} :
            e \in Operands \ {Like}, f \in Operands}

With(definitions) == [definitions |-> definitions, key |-> <<>>, indexes |-> {}, foreign |-> <<>>]

Checked == {With(Plain \o <<TableCheck(n, e)>>) : n \in {None, "check_of_t"}, e \in Simple}
           \union {With(Plain \o <<TableCheck(None, e)>>) : e \in Nested}

Clauses == {Unique, Collate(Quoted("NOCASE")), Check(Infix(A, Operator(">"), B)),
            Check(JsonValid(Quoted("c"), "c")), Check(JsonValid(Keyword("END"), "END")),
            Says(<<Keyword("DEFAULT"), Text("varchar(7)")>>),
            Says(<<Keyword("DEFAULT")>> \o InParens(<<Text("x"), Keyword("COLLATE"), Name("rtrim")>>)),
            References("p", "c"), Says(<<Comment>>), Says(<<Keyword("NOT NULL")>>)}
           \union {WithName("UNIQUE", clause) :
                     clause \in {Unique, Check(Infix(A, Operator(">"), B)), Says(<<Keyword("NOT NULL")>>)}}

\* At most one CHECK of a column (see Undocumented), and UNIQUE once.
Once(clauses) ==
  \A is \in {"check", "unique"} : Cardinality({i \in DOMAIN clauses : clauses[i].is = is}) <= 1

WithColumn(type, clauses) ==
  With(Plain \o <<Column(Quoted("c"), type, clauses), TableCheck(None, Infix(B, Operator(">"), A))>>)

Columned == {WithColumn(t, cs) : t \in {Integer, Varchar, QuotedType("varchar(5)")},
                                 cs \in {s \in UNION {[1 .. n -> Clauses] : n \in 0 .. 2} : Once(s)}}

Ref(token, column, modifiers) == [token |-> token, column |-> column, modifiers |-> modifiers]
Refs == {Ref(Name("A"), "a", <<>>), Ref(Quoted("b"), "b", <<Keyword("COLLATE"), Name("a")>>),
         Ref(Keyword("END"), "END", <<Token("Order", "DESC")>>)}
Others == {TableUnique(n, rs) : n \in {None, "unique_of_t"}, rs \in UNION {[1 .. k -> Refs] : k \in 1 .. 2}}
          \union {TableCheck(n, Infix(B, Operator(">"), A)) : n \in {None, "check_of_t"}}
          \union {TableSays(<<Keyword("FOREIGN KEY")>> \o InParens(<<Quoted("a")>>)
                              \o References("p", "b").text),
                  TableSays(<<Keyword("PRIMARY KEY")>> \o InParens(<<Quoted("a"), Comma, Quoted("b")>>))}
Index(n, u, declared) == [name |-> n, unique |-> u, sql |-> declared, columns |-> <<"b">>]
Constrained == {[definitions |-> <<Column(Quoted("a"), Integer, <<Unique>>)>> \o Tail(Plain) \o <<x, y>>,
                 key |-> k, foreign |-> <<<<"a">>>>,
                 indexes |-> {Index("i", TRUE, TRUE), Index("sqlite_autoindex", TRUE, FALSE)}] :
                   x \in Others, y \in {z \in Others : \A c \in z.declares : c.name = None},
                   k \in {<<"a">>, <<"a", "b">>}}

\* A column of each type, alone or as the key; some types take a length.
Typed == {[definitions |-> <<Column(Quoted("c"),
                                    Type([i \in DOMAIN t |-> Builtin(t[i])],
                                         IF t \in {<<"char">>, <<"varchar">>} THEN "5" ELSE None), <<>>)>>,
           key |-> k, indexes |-> {}, foreign |-> <<>>] :
             t \in DOMAIN data_types, k \in {<<>>, <<"c">>}}

TestTables == Checked \union Columned \union Constrained \union Typed
--------------------------------------------------------------------------------
\* A table that is read otherwise than the documentation says: one column has a constraint
\* with a name, one a CHECK that uses no column, and one two of them.
Undocumented ==
  {With(Plain \o <<Column(Quoted("c"), Integer, <<WithName("name", Unique)>>),
                   Column(Quoted("d"), Integer, <<Check(Literal(Number("1"))), References("p", "d")>>),
                   Column(Quoted("e"), Integer, <<Check(Infix(A, Operator(">"), B)),
                                                  Check(JsonValid(Quoted("e"), "e"))>>)>>)}
================================================================================
