------------------------- MODULE TransactionInvariant --------------------------
(******************************************************************************)
(* Why HooksFollowCommit, BlockIsAtomic and SavepointsAreOpen hold: two       *)
(* invariants of TursoTransactions that every action preserves, as named      *)
(* parts.  They are about applications that leave the engine's transactions   *)
(* to the wrapper (~Unchecked); MCTransactions checks them on small instances *)
(* and TransactionProofs proves them.                                         *)
(******************************************************************************)
EXTENDS TursoTransactions

\* The outermost block commits on exit, and its transaction is gone.
InManagedBlock == in_atomic_block /\ commit_on_exit
Abandoned == InManagedBlock /\ ~in_transaction

\* Savepoints that a block still to be left, or being left, may roll back to.
ActiveSids == {savepoint_ids[i] : i \in DOMAIN savepoint_ids} \union {exiting_sid}

\* execute() has done all the work of its statement.
NothingPending == cursor.pending = {}

\* Work outside a transaction has met its fate, and work in one is dated by savepoints.
EngineInv ==
  /\ ~in_transaction => Open = {} /\ savepoints = {}
  /\ \A s \in savepoints : s <= savepoint_state
  /\ \A w \in Work : \A s \in under[w] : s <= savepoint_state

\* Only an open connection has a transaction; one closed inside a block stays until the
\* block is left.
ConnectionInv ==
  /\ connection # "open" => ~in_transaction
  /\ connection = "closed" => closed_in_transaction
  /\ closed_in_transaction => connection # "open"
  /\ InManagedBlock => connection # "none"

\* Autocommit is off in a managed block; leaving one begins by clearing its flag.
AutocommitInv ==
  /\ InManagedBlock => ~autocommit
  /\ exiting \in {"commit", "rollback", "close"} => ~in_atomic_block

\* A managed block that lost its transaction is marked, but for the moment in which an
\* inner block that failed has cleared the mark and not yet set it again.
AbandonedIsMarked == Abandoned => needs_rollback \/ exiting = "undo"

\* A managed block has one transaction: all it did is open in it, or undone.
BlockInv ==
  /\ \A w \in block : work[w] # "new"
  /\ InManagedBlock /\ in_transaction => \A w \in block : work[w] \in {"open", "undone"}

ExitInv == exiting = "no" => exiting_sid = NoSavepoint

Settled(h) == \A w \in h.deps : work[w] = "committed"
Live(h)    == \A w \in h.deps : work[w] \in {"open", "committed"}

\* The hooks waiting to run: those of a managed block wait for it to be left, and are
\* live as long as its transaction is; all others are settled.
HooksInv ==
  \A h \in run_on_commit : h.managed =>
    /\ \/ Settled(h)
       \/ InManagedBlock
       \/ exiting \in {"commit", "rollback", "close"}
    /\ \/ Live(h)
       \/ Abandoned
       \/ exiting \in {"rollback", "close"}
    /\ closed_in_transaction => h.deps = {}
    /\ \A w \in h.deps : work[w] # "new"
    /\ \A w \in h.deps : work[w] = "open" => under[w] \intersect ActiveSids \subseteq h.sids

Control ==
  /\ NothingPending
  /\ EngineInv
  /\ ConnectionInv
  /\ AutocommitInv
  /\ AbandonedIsMarked
  /\ ExitInv

IInv ==
  /\ TypeOK
  /\ Control
  /\ BlockInv
  /\ HooksInv
  /\ HooksFollowCommit
--------------------------------------------------------------------------------
(* The blocks: what Django believes of them and what the engine has of them.  *)

Sids        == {savepoint_ids[i] : i \in DOMAIN savepoint_ids} \ {NoSavepoint}
InSavepoint == exiting \in {"release", "undo", "drop"}
Leaving     == exiting \in {"commit", "rollback", "close"}
Gone(S)     == \A w \in S : work[w] \in {"lost", "undone"}

\* Autocommit is off in a block, and where it is on the engine is idle; so it is before
\* autocommit comes back.
IdleInv ==
  /\ in_atomic_block => ~autocommit
  /\ AutocommitMeansIdle
  /\ Autocommit /\ exiting = "finish" /\ ~in_atomic_block /\ connection = "open" => ~in_transaction

\* Django's stack has an entry per inner block; only a managed block is left by commit
\* or rollback.
NestingInv ==
  /\ depth = Len(savepoint_ids) + (IF InManagedBlock THEN 1 ELSE 0)
  /\ ~in_atomic_block => savepoint_ids = <<>>
  /\ in_atomic_block /\ connection = "none" => closed_in_transaction
  /\ InSavepoint => in_atomic_block /\ exiting_sid \in Nat
  /\ exiting # "no" /\ ~in_atomic_block => commit_on_exit

\* Savepoints are numbered in the order they were opened in.
OrderInv ==
  /\ \A i, j \in DOMAIN savepoint_ids :
       i < j /\ {savepoint_ids[i], savepoint_ids[j]} \subseteq Nat => savepoint_ids[i] < savepoint_ids[j]
  /\ \A s \in Sids : s <= savepoint_state /\ (InSavepoint => s < exiting_sid)

\* The engine has every savepoint that Django will release or roll back to, or it has no
\* transaction and the block is marked.
StackInv ==
  in_atomic_block =>
    \/ Sids \union (IF InSavepoint THEN {exiting_sid} ELSE {}) \subseteq savepoints
    \/ ~in_transaction /\ (needs_rollback \/ exiting = "undo")

\* The work of a managed block is gone when its transaction is, and has met one fate when
\* the block has been left.
OutcomeInv ==
  /\ in_atomic_block => outcome = "none"
  /\ Abandoned => Gone(block)
  /\ exiting = "commit" => in_transaction
  /\ Leaving => outcome = "failed"
  /\ Leaving /\ in_transaction => \A w \in block : work[w] \in {"open", "undone"}
  /\ Leaving /\ ~in_transaction => Gone(block)
  /\ outcome = "failed" => Leaving \/ Gone(block)
  /\ outcome = "committed" => \A w \in block : work[w] \in {"committed", "undone"}

BlocksInv == IdleInv /\ NestingInv /\ OrderInv /\ StackInv /\ OutcomeInv

WrapperInv == IInv /\ BlocksInv
================================================================================
