----------------------------- MODULE WriteStatement ----------------------------
(******************************************************************************)
(* How a cursor tells a statement that writes from one that only reads        *)
(* (_is_write_statement() in src/django_pyturso/base.py), so that it can      *)
(* drain the result of the former.  The statement is a sequence of the        *)
(* lexer's tokens; "name" stands for every token that is neither a keyword    *)
(* nor punctuation.  The loop over the tokens is a fold.                      *)
(******************************************************************************)
EXTENDS Integers, SequencesExt

CONSTANTS
  Verbs,              \* the verbs a statement may have
  Bodies,             \* what may stand in the parentheses of a common table expression
  MaxCtes             \* bound on the common table expressions of a statement

Writing == {"INSERT", "UPDATE", "DELETE", "REPLACE"}

\* The parentheses that are open behind the first k tokens of a body.
Level(body, k) ==
  Cardinality({i \in 1..k : body[i] = "("}) - Cardinality({i \in 1..k : body[i] = ")"})

\* A parser accepts only bodies whose parentheses match; a verb is none of the other tokens
\* that may stand where a statement, or its next part, begins.
Balanced(body) == Level(body, Len(body)) = 0 /\ \A k \in 1..Len(body) : Level(body, k) >= 0

ASSUME StatementAssumption ==
  /\ Verbs \subseteq STRING \ {";", ",", "WITH", "comment"}
  /\ Bodies \subseteq Seq(STRING) /\ \A body \in Bodies : Balanced(body)
  /\ MaxCtes \in Nat
--------------------------------------------------------------------------------
(* The statements of the SQL grammar that the engine accepts.                 *)

\* A common table expression may be called by a word that the lexer takes for a verb.
CteNames   == {<<"name">>, <<"REPLACE">>, <<"MERGE", "(", "name", ",", "name", ")">>}
CteHints   == {<<>>, <<"MATERIALIZED">>}
CteText(name, hint, body) == name \o <<"AS">> \o hint \o <<"comment", "(">> \o body \o <<")">>
Cte        == {CteText(name, hint, body) : name \in CteNames, hint \in CteHints, body \in Bodies}
Ctes(n)   == IF MaxCtes >= n THEN Cte ELSE {}
OneCte(a) == <<"WITH">> \o a
TwoCtes(a, b) == <<"WITH", "RECURSIVE">> \o a \o <<",">> \o b
WithClause == {<<>>} \union {OneCte(a) : a \in Ctes(1)} \union {TwoCtes(a, b) : a \in Ctes(2), b \in Cte}

Lead == {<<>>, <<";", "comment">>}

Statement(verb, lead, with) ==
  [verb |-> verb, tokens |-> lead \o with \o <<verb, "name", "(", "SELECT", ")", "name">>]

Statements ==
  {Statement(verb, lead, with) : verb \in Verbs, lead \in Lead, with \in WithClause}
  \union {[verb |-> "none", tokens |-> lead] : lead \in Lead}
--------------------------------------------------------------------------------
Unread == [state |-> "statement", depth |-> 0, result |-> "unknown"]

\* Mutant: any parenthesis that closes ends the body.
BodyEndsAnywhere(level) == TRUE

\* The parenthesis that closes the body is the one at the outer level.
BodyEnds(level) == level = 0

\* Inside a common table expression only AS and parentheses matter.
ReadCte(s, token) ==
  LET state == IF s.state = "cte-header" /\ s.depth = 0 /\ token = "AS" THEN "cte-body" ELSE s.state
      depth == CASE token = "(" -> s.depth + 1 [] token = ")" -> s.depth - 1 [] OTHER -> s.depth
  IN [s EXCEPT !.depth = depth,
               !.state = IF state = "cte-body" /\ token = ")" /\ BodyEnds(depth)
                         THEN "after-cte" ELSE state]

\* At the start of a statement, or behind the common table expressions, ";" is skipped,
\* WITH announces more of them and any other token decides.
ReadStart(s, token) ==
  CASE token = ";"    -> [s EXCEPT !.state = "statement"]
    [] token = "WITH" -> [s EXCEPT !.state = "cte-header"]
    [] OTHER          -> [s EXCEPT !.result = IF token \in Writing THEN "write" ELSE "read"]

ReadToken(s, token) ==
  IF s.result # "unknown" \/ token = "comment" THEN s
  ELSE CASE s.state = "after-cte" /\ token = "," -> [s EXCEPT !.state = "cte-header"]
         [] s.state \in {"cte-header", "cte-body"} -> ReadCte(s, token)
         [] OTHER -> ReadStart(s, token)

IsWriteStatement(tokens) == FoldLeft(ReadToken, Unread, tokens).result = "write"

\* What a cursor finds out about a statement: whether it writes, and is taken to.
Kinds == {[writes |-> s.verb \in Writing, taken |-> IsWriteStatement(s.tokens)] : s \in Statements}
================================================================================
