------------------------------ MODULE TursoEngine ------------------------------
(******************************************************************************)
(* One connection of the Turso driver, as src/django_pyturso/base.py uses it. *)
(* The engine keeps at most one transaction, a set of savepoints, and what    *)
(* became of each piece of work (the effect of one writing statement).        *)
(*                                                                            *)
(* Savepoints are named by increasing numbers, as Django names them, so the   *)
(* order in which they were opened is the order of their names.               *)
(******************************************************************************)
EXTENDS Naturals

CONSTANT Work             \* the writing statements an application may run

VARIABLES
  in_transaction,         \* Connection.in_transaction
  savepoints,             \* the savepoints open in the transaction
  work,                   \* what became of each piece of work
  under                   \* the savepoints that were open when it was done

engine == <<in_transaction, savepoints, work, under>>

\* "undone" is the fate of work a ROLLBACK TO SAVEPOINT took back, "lost" of work
\* whose transaction ended, however it ended, without COMMIT.
Status == {"new", "open", "committed", "undone", "lost"}
Final  == {"committed", "undone", "lost"}

EngineTypeOK ==
  /\ in_transaction \in BOOLEAN
  /\ savepoints \subseteq Nat
  /\ work \in [Work -> Status]
  /\ under \in [Work -> SUBSET Nat]

EngineInit ==
  /\ in_transaction = FALSE
  /\ savepoints = {}
  /\ work = [w \in Work |-> "new"]
  /\ under = [w \in Work |-> {}]

Open == {w \in Work : work[w] = "open"}

\* work, once that in S has met the fate status.
Become(S, status) == [w \in Work |-> IF w \in S THEN status ELSE work[w]]

\* A statement that leaves the engine in transaction tx (or in none) and writes nothing.
Statement(tx) ==
  /\ in_transaction' = tx
  /\ UNCHANGED <<savepoints, work, under>>

\* A statement that does the work W; outside a transaction it commits itself.
Write(W, tx) ==
  /\ in_transaction' = tx
  /\ work' = Become(W, IF tx THEN "open" ELSE "committed")
  /\ under' = [w \in Work |-> IF w \in W THEN savepoints ELSE under[w]]
  /\ UNCHANGED savepoints

Savepoint(s) ==
  /\ in_transaction' = TRUE
  /\ savepoints' = savepoints \union {s}
  /\ UNCHANGED <<work, under>>

\* RELEASE keeps the work and forgets the savepoint and those opened after it.
Release(s) ==
  /\ s \in savepoints
  /\ savepoints' = {t \in savepoints : t < s}
  /\ UNCHANGED <<in_transaction, work, under>>

\* ROLLBACK TO undoes the work done since the savepoint and keeps the savepoint.
RollbackTo(s) ==
  /\ s \in savepoints
  /\ savepoints' = {t \in savepoints : t <= s}
  /\ work' = Become({w \in Open : s \in under[w]}, "undone")
  /\ UNCHANGED <<in_transaction, under>>

\* The transaction ends: COMMIT, ROLLBACK, or an abort on the engine's initiative
\* (a write conflict, a failed commit, a connection that goes away).
EndTransaction(status) ==
  /\ in_transaction' = FALSE
  /\ savepoints' = {}
  /\ work' = Become(Open, status)
  /\ UNCHANGED under
================================================================================
