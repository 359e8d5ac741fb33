------------------------------ MODULE MCForeignKeys ----------------------------
(* ForeignKeys with the schemas that its tests are about: each pair of affinities, *)
(* composite keys in another order than their columns, spellings that differ in    *)
(* case, chains and cycles with every deletion action, and what is malformed.      *)
EXTENDS ForeignKeys, TLC

Fold == [n \in {"a", "A", "b", "c"} |-> IF n = "A" THEN "a" ELSE n]

Foreign(source, target, columns, on_delete, deferred) ==
  [source |-> source, target |-> target, columns |-> columns, on_delete |-> on_delete, deferred |-> deferred]

Table(affinity, pk, foreign) == [affinity |-> affinity, pk |-> pk, foreign |-> foreign]

Single(affinity, foreign) == Table("x" :> affinity, "x" :> 1, foreign)
Plain(affinity, foreign)  == Table("x" :> affinity, "x" :> 0, foreign)

Pairs ==
  {("a" :> Single(pa, {}) @@ "b" :> Plain(ca, {Foreign(<<"x">>, name, columns, "NO ACTION", TRUE)})) :
     pa \in {"INTEGER", "TEXT", "BLOB"}, ca \in {"INTEGER", "TEXT", "BLOB"},
     name \in {"a", "A"}, columns \in {<<>>, <<"x">>}}

Composite ==
  {("a" :> Table("x" :> "INTEGER" @@ "y" :> "TEXT", "x" :> 2 @@ "y" :> 1, {})
    @@ "b" :> Table("x" :> "INTEGER" @@ "y" :> "TEXT", [c \in {"x", "y"} |-> 0],
                    {Foreign(<<"x", "y">>, "a", columns, "SET NULL", TRUE)})) :
     columns \in {<<>>, <<"x", "y">>}}

\* a <- b <- c, and with "cyclic" also c <- a; c also refers to itself.
Chains ==
  {("a" :> Single("INTEGER", IF cyclic THEN {Foreign(<<"x">>, "c", <<>>, "NO ACTION", deferred)} ELSE {})
    @@ "b" :> Single("INTEGER", {Foreign(<<"x">>, "A", <<>>, action, deferred)})
    @@ "c" :> Single("INTEGER", {Foreign(<<"x">>, "b", <<>>, last, deferred), Foreign(<<"x">>, "c", <<>>, "NO ACTION", TRUE)})) :
     cyclic \in BOOLEAN, deferred \in BOOLEAN, action \in {"NO ACTION", "CASCADE"}, last \in {"NO ACTION", "CASCADE"}}

Malformed ==
  {"a" :> Plain("INTEGER", {}) @@ "b" :> Plain("INTEGER", {Foreign(<<"x">>, "a", <<>>, "NO ACTION", TRUE)}),
   "b" :> Plain("INTEGER", {Foreign(<<"x">>, "a", <<"x">>, "NO ACTION", TRUE)})}

TestSchemas == Pairs \union Composite \union Chains \union Malformed
================================================================================
