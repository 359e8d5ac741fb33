-------------------------------- MODULE MCCursor -------------------------------
(* TursoCursor over all short queries in its first call: positional            *)
(* placeholders among every kind of quote and comment, named ones (well formed *)
(* or not) among literals; over a few, with a marker of the engine's own, in   *)
(* the others; and over statements whose common table expressions hold nested  *)
(* queries, commas, verbs and one of their own.                                *)
EXTENDS TursoCursor

Alphabet ==
  [n \in BOOLEAN |-> IF n THEN {"%", "(", "n", ")", "s", "'"}
                    ELSE {"%", "s", "'", "quot", "[", "]", "-", "eol", "/", "*"}]

Length == [n \in BOOLEAN |-> IF n THEN 6 ELSE 5]

TestQueries ==
  [n \in BOOLEAN |-> IF n THEN {<<"%", "(", "n", ")", "s">>}
                    ELSE {<<>>, <<"%", "s">>, <<"?", "%", "s">>, <<"'", "?", "'", "%", "s">>}]

TestBodies ==
  { <<"SELECT", "name">>,
    <<"SELECT", "(", "name", ")", ",", "name">>,
    <<"WITH", "name", "AS", "(", "INSERT", ")", "SELECT", "(", "(", ")", ")">> }
================================================================================
