-------------------------- MODULE TransactionContract --------------------------
(******************************************************************************)
(* What a database connection promises the code that uses it: work done in a  *)
(* transaction is committed with all the rest of it or not at all, work that  *)
(* has met its fate never returns, and a commit hook runs only once the work  *)
(* it was registered after is committed.                                      *)
(******************************************************************************)
CONSTANT Work

VARIABLES work, ran

Open == {w \in Work : work[w] = "open"}

Set(W, status) == work' = [w \in Work |-> IF w \in W THEN status ELSE work[w]]

Init ==
  /\ work = [w \in Work |-> "new"]
  /\ ran = {}

\* A write, in a transaction or committing itself.
Write ==
  /\ \E w \in Work, status \in {"open", "committed"} : work[w] = "new" /\ Set({w}, status)
  /\ UNCHANGED ran

\* A savepoint is rolled back.
Undo ==
  /\ \E W \in SUBSET Open : Set(W, "undone")
  /\ UNCHANGED ran

\* The transaction ends.
End ==
  /\ \E status \in {"committed", "lost"} : Set(Open, status)
  /\ UNCHANGED ran

RunHooks ==
  /\ ran \subseteq ran'
  /\ \A h \in ran' \ ran : \A w \in h.deps : work[w] = "committed"
  /\ UNCHANGED work

Next == Write \/ Undo \/ End \/ RunHooks

Spec == Init /\ [][Next]_<<work, ran>>
================================================================================
