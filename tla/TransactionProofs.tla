--------------------------- MODULE TransactionProofs ---------------------------
(******************************************************************************)
(* Theorems of TursoTransactions, for all settings, work and bounds:          *)
(* types, the transactions of the engine, and HooksFollowCommit, for which    *)
(* IInv of TransactionInvariant is inductive when the application leaves the  *)
(* engine's transactions to the wrapper, with what follows from IInv.  Then   *)
(* BlockIsAtomic, SavepointsAreOpen and AutocommitMeansIdle, for which        *)
(* BlocksInv is inductive together with IInv, and the action properties of    *)
(* the wrapper that follow.                                                   *)
(******************************************************************************)
EXTENDS TransactionInvariant, EngineProofs

(* Typing.                                                                     *)

\* What StatementFails() and the ways of closing a connection may change.
Handled ==
  /\ EngineTypeOK
  /\ needs_rollback \in BOOLEAN
  /\ run_on_commit \subseteq Hook
  /\ errors_occurred \in BOOLEAN

Closable ==
  /\ EngineTypeOK
  /\ connection \in {"none", "open", "closed"}
  /\ closed_in_transaction \in BOOLEAN
  /\ needs_rollback \in BOOLEAN
  /\ run_on_commit \subseteq Hook
  /\ cursor \in Result

LEMMA StatementFailsType ==
  ASSUME TypeOK, NEW forced \in BOOLEAN, StatementFails(forced)
  PROVE  Handled'
<1> USE DEF TypeOK, Handled
<1>1. CASE needs_rollback /\ UNCHANGED <<engine, needs_rollback, run_on_commit, errors_occurred>>
  BY <1>1, EngineType
<1>2. CASE RefuseLostBlock
  BY <1>2, EngineType DEF RefuseLostBlock
<1>3. CASE EngineFails(forced)
  <2>1. EngineTypeOK'
    BY <1>3, EngineType DEF EngineFails, EnsuredTransaction, Status, EngineTypeOK
  <2> QED
    BY <1>3, <2>1 DEF EngineFails
<1> QED
  BY <1>1, <1>2, <1>3 DEF StatementFails

LEMMA ForceCloseType ==
  ASSUME TypeOK, ForceClose
  PROVE  Closable'
<1>1. EngineTypeOK'
  BY EngineType DEF TypeOK, ForceClose, Status
<1> QED
  BY <1>1 DEF TypeOK, Closable, ForceClose, Result, NoResult

LEMMA CloseOpenType ==
  ASSUME TypeOK, CloseOpen
  PROVE  Closable'
<1>1. CASE ForceClose
  BY <1>1, ForceCloseType
<1>2. CASE RollbackForClose /\ run_on_commit' = {}
           /\ UNCHANGED <<connection, closed_in_transaction, needs_rollback, cursor>>
  <2>1. EngineTypeOK'
    BY <1>2, EngineType DEF TypeOK, RollbackForClose, Status
  <2> QED
    BY <1>2, <2>1 DEF TypeOK, Closable
<1> QED
  BY <1>1, <1>2 DEF CloseOpen

LEMMA SidsType ==
  ASSUME TypeOK
  PROVE  /\ \A sid \in Sid : Append(savepoint_ids, sid) \in Seq(Sid)
         /\ savepoint_ids # <<>> =>
              /\ savepoint_ids[Len(savepoint_ids)] \in Sid
              /\ SubSeq(savepoint_ids, 1, Len(savepoint_ids) - 1) \in Seq(Sid)
  BY DEF TypeOK

LEMMA SmallTypes ==
  ASSUME TypeOK
  PROVE  /\ EngineTypeOK
         /\ EnsuredTransaction \in BOOLEAN
         /\ NoResult \in Result
         /\ \A k \in Nat : k + 1 \in Nat /\ k + 1 \in Sid
  BY DEF TypeOK, EngineTypeOK, EnsuredTransaction, NoResult, Result, Sid

\* The settings are what they were when the wrapper was made.
LEMMA SettingsStay == [Next]_vars => UNCHANGED settings
  BY DEF Next, Execute, Select, Fetch, StatementRaises, Connect, ConnectFails, ConnectResets, Close,
     HealthCheck, CloseIfUnusableOrObsolete, EnterManagedBlock, EnterManualBlock, EnterInnerBlock,
     LeaveBlock, ReleaseSavepoint, UndoToSavepoint, DropSavepoint, CommitOnExit, RollbackOnExit,
     CloseOnExit, FinishExit, OnCommit, SetRollback, SetAutocommit, Commit, Rollback, RawBegin,
     RawEnd, wrapper, vars

LEMMA SettingsType ==
  ASSUME TypeOK
  PROVE  InMemory \in BOOLEAN /\ Autocommit \in BOOLEAN /\ HealthChecks \in BOOLEAN
  BY FlagsAssumption DEF TypeOK, InMemory, Autocommit, HealthChecks

LEMMA TypeStep == TypeOK /\ [Next]_vars => TypeOK'
<1> SUFFICES ASSUME TypeOK, [Next]_vars PROVE TypeOK'
  OBVIOUS
<1>0. settings' \in Settings
  BY SettingsStay DEF TypeOK
<1> USE <1>0 DEF TypeOK, flags, nesting, leaving, hooks, health, history
<1>1. ASSUME NEW w \in Work, NEW returning \in BOOLEAN, Execute(w, returning) PROVE TypeOK'
  <2>1. EngineTypeOK'
    BY <1>1, EngineType, SmallTypes DEF Execute
  <2>2. cursor' \in Result
    BY <1>1 DEF Execute, ResultOf, Result, NoResult
  <2> QED
    BY <1>1, <2>1, <2>2 DEF Execute
<1>2. CASE Select
  <2>1. EngineTypeOK'
    BY <1>2, EngineType, SmallTypes DEF Select
  <2> QED
    BY <1>2, <2>1, SmallTypes DEF Select
<1>3. CASE Fetch
  <2>1. EngineTypeOK'
    BY <1>3, EngineType, SmallTypes DEF Fetch
  <2> QED
    BY <1>3, <2>1, SmallTypes DEF Fetch
<1>4. CASE StatementRaises
  <2>1. Handled'
    BY <1>4, StatementFailsType DEF StatementRaises
  <2> QED
    BY <1>4, <2>1, SmallTypes DEF StatementRaises, Handled
<1>5. CASE Connect \/ ConnectFails
  <2>1. EngineTypeOK'
    BY <1>5, SettingsType DEF Connect, ConnectFails, ConnectResets, EngineTypeOK
  <2>4. connection' \in {"none", "open", "closed"} /\ savepoint_ids' \in Seq(Sid)
    <3>1. savepoint_ids' = <<>>
      BY <1>5 DEF Connect, ConnectFails, ConnectResets
    <3>2. connection' = "open" \/ connection' = "none"
      BY <1>5 DEF Connect, ConnectFails
    <3> QED
      BY <3>1, <3>2
  <2>2. exiting' \in Exiting /\ exiting_sid' \in Sid
    BY <1>5 DEF Connect, ConnectFails, Exiting, Sid
  <2>3. /\ autocommit' \in BOOLEAN /\ hooks_armed' \in BOOLEAN
        /\ run_on_commit' \subseteq Hook /\ ran' \subseteq Hook
    BY <1>5, SettingsType DEF Connect, ConnectFails
  <2> QED
    BY <1>5, <2>1, <2>2, <2>3, <2>4 DEF Connect, ConnectFails, ConnectResets
<1>6. CASE Close
  <2>1. Closable'
    BY <1>6, CloseOpenType, EngineType DEF Close, Closable
  <2> QED
    BY <1>6, <2>1 DEF Close, Closable
<1>7. CASE HealthCheck
  <2>1. Closable'
    BY <1>7, ForceCloseType, EngineType DEF HealthCheck, Closable
  <2> QED
    BY <1>7, <2>1 DEF HealthCheck, Closable
<1>8. CASE CloseIfUnusableOrObsolete
  <2>1. KeepConnection => Closable'
    BY EngineType DEF KeepConnection, Closable
  <2>2. Closable'
    BY <1>8, <2>1, ForceCloseType, CloseOpenType
       DEF CloseIfUnusableOrObsolete, BoundaryInMemory, BoundaryFile
  <2>3. errors_occurred' \in BOOLEAN /\ health_check_due' \in BOOLEAN
    BY <1>8, SettingsType DEF CloseIfUnusableOrObsolete, BoundaryInMemory, BoundaryFile
  <2> QED
    BY <1>8, <2>2, <2>3 DEF CloseIfUnusableOrObsolete, Closable
<1>9. CASE EnterManagedBlock
  <2>1. EngineTypeOK'
    BY <1>9, EngineType DEF EnterManagedBlock
  <2>2. depth' \in {depth, depth + 1}
    BY <1>9 DEF EnterManagedBlock
  <2>3. depth' \in Nat
    BY <2>2
  <2> QED
    BY <1>9, <2>1, <2>3 DEF EnterManagedBlock
<1>10. ASSUME NEW savepoint \in BOOLEAN, EnterManualBlock(savepoint) PROVE TypeOK'
  <2>1. EngineTypeOK'
    <3>1. Savepoint(savepoint_state + 1) => EngineTypeOK'
      BY EngineType, SmallTypes
    <3>2. EndTransaction("lost") => EngineTypeOK'
      BY EngineType DEF Status
    <3>3. Statement(TRUE) => EngineTypeOK'
      BY EngineType
    <3>4. UNCHANGED engine => EngineTypeOK'
      BY EngineType
    <3> QED
      BY <1>10, <3>1, <3>2, <3>3, <3>4 DEF EnterManualBlock
  <2>2. depth' \in {depth, depth + 1} /\ savepoint_state' \in {savepoint_state, savepoint_state + 1}
    BY <1>10 DEF EnterManualBlock
  <2>3. depth' \in Nat /\ savepoint_state' \in Nat
    BY <2>2
  <2>4. savepoint_ids' \in Seq(Sid)
    BY <1>10, <2>3, SidsType DEF EnterManualBlock, Sid
  <2>5. block' \subseteq Work /\ run_on_commit' \subseteq Hook
    BY <1>10 DEF EnterManualBlock, Open
  <2> QED
    BY <1>10, <2>1, <2>3, <2>4, <2>5 DEF EnterManualBlock
<1>11. ASSUME NEW savepoint \in BOOLEAN, EnterInnerBlock(savepoint) PROVE TypeOK'
  <2>1. Handled'
    <3>1. Savepoint(savepoint_state + 1) => EngineTypeOK'
      BY EngineType, SmallTypes
    <3>2. UNCHANGED engine => EngineTypeOK'
      BY EngineType
    <3>3. StatementFails(FALSE) => Handled'
      BY StatementFailsType
    <3> QED
      BY <1>11, <3>1, <3>2, <3>3 DEF EnterInnerBlock, Handled
  <2>2. depth' \in {depth, depth + 1} /\ savepoint_state' \in {savepoint_state, savepoint_state + 1}
    BY <1>11 DEF EnterInnerBlock
  <2>3. depth' \in Nat /\ savepoint_state' \in Nat
    BY <2>2
  <2>4. savepoint_ids' \in Seq(Sid)
    BY <1>11, <2>3, SidsType DEF EnterInnerBlock, Sid
  <2> QED
    BY <1>11, <2>1, <2>3, <2>4 DEF EnterInnerBlock, Handled
<1>12. ASSUME NEW raised \in BOOLEAN, LeaveBlock(raised) PROVE TypeOK'
  <2>1. depth > 0 /\ depth' = depth - 1
    BY <1>12 DEF LeaveBlock
  <2>2. depth' \in Nat
    BY <2>1
  <2>3. savepoint_ids' \in Seq(Sid) /\ exiting_sid' \in Sid
    BY <1>12, SidsType DEF LeaveBlock, Sid
  <2>4. exiting' \in Exiting /\ EngineTypeOK'
    BY <1>12, EngineType DEF LeaveBlock, Exiting
  <2> QED
    BY <1>12, <2>2, <2>3, <2>4 DEF LeaveBlock
<1>13. CASE ReleaseSavepoint
  <2>1. Handled'
    BY <1>13, EngineType, StatementFailsType DEF ReleaseSavepoint, Handled
  <2>2. exiting' \in Exiting
    BY <1>13 DEF ReleaseSavepoint, Exiting
  <2>3. UNCHANGED <<connection, flags, nesting, exiting_sid, hooks_armed, ran, health_check_due,
                    cursor, history>>
    BY <1>13 DEF ReleaseSavepoint
  <2> QED
    BY <2>1, <2>2, <2>3 DEF Handled
<1>14. CASE UndoToSavepoint
  <2>1. Handled'
    BY <1>14, EngineType, StatementFailsType DEF UndoToSavepoint, Handled
  <2>2. exiting' \in Exiting
    BY <1>14 DEF UndoToSavepoint, Exiting
  <2>3. UNCHANGED <<connection, flags, nesting, exiting_sid, hooks_armed, ran, health_check_due,
                    cursor, history>>
    BY <1>14 DEF UndoToSavepoint
  <2> QED
    BY <2>1, <2>2, <2>3 DEF Handled
<1>15. CASE DropSavepoint
  <2>1. Handled'
    BY <1>15, EngineType, StatementFailsType DEF DropSavepoint, Handled
  <2>2. exiting' \in Exiting
    BY <1>15 DEF DropSavepoint, Exiting
  <2>3. UNCHANGED <<connection, flags, nesting, exiting_sid, hooks_armed, ran, health_check_due,
                    cursor, history>>
    BY <1>15 DEF DropSavepoint
  <2> QED
    BY <2>1, <2>2, <2>3 DEF Handled
<1>16. CASE CommitOnExit
  <2>1. EngineTypeOK'
    BY <1>16, EngineType DEF CommitOnExit, DriverCommits, DriverFails, Status
  <2>2. /\ exiting' \in Exiting /\ errors_occurred' \in BOOLEAN /\ hooks_armed' \in BOOLEAN
        /\ outcome' \in {"none", "committed", "failed"}
    BY <1>16 DEF CommitOnExit, Exiting
  <2>3. UNCHANGED <<connection, flags, nesting, exiting_sid, needs_rollback, run_on_commit, ran,
                    health_check_due, cursor, block>>
    BY <1>16 DEF CommitOnExit
  <2> QED
    BY <2>1, <2>2, <2>3
<1>17. CASE RollbackOnExit
  <2>1. EngineTypeOK'
    BY <1>17, EngineType DEF RollbackOnExit, DriverFails, Status
  <2>2. /\ exiting' \in Exiting /\ errors_occurred' \in BOOLEAN /\ needs_rollback' \in BOOLEAN
        /\ run_on_commit' \subseteq Hook
    BY <1>17 DEF RollbackOnExit, Exiting
  <2>3. UNCHANGED <<connection, flags, nesting, exiting_sid, hooks_armed, ran, health_check_due,
                    cursor, history>>
    BY <1>17 DEF RollbackOnExit
  <2> QED
    BY <2>1, <2>2, <2>3
<1>18. CASE CloseOnExit
  <2>1. Closable'
    BY <1>18, CloseOpenType DEF CloseOnExit
  <2> QED
    BY <1>18, <2>1 DEF CloseOnExit, Closable, Exiting
<1>19. CASE FinishExit
  <2>1. EngineTypeOK'
    BY <1>19, EngineType DEF FinishExit
  <2>2. exiting' \in Exiting /\ exiting_sid' \in Sid
    BY <1>19 DEF FinishExit, Exiting, Sid
  <2>3. /\ connection' \in {"none", "open", "closed"} /\ in_atomic_block' \in BOOLEAN
        /\ autocommit' \in BOOLEAN /\ hooks_armed' \in BOOLEAN
        /\ run_on_commit' \subseteq Hook /\ ran' \subseteq Hook
    BY <1>19 DEF FinishExit, EnableAutocommit
  <2> QED
    BY <1>19, <2>1, <2>2, <2>3 DEF FinishExit
<1>20. CASE OnCommit
  <2>1. run_on_commit' \subseteq Hook
    <3> DEFINE sids == {savepoint_ids[i] : i \in DOMAIN savepoint_ids}
               deps == IF closed_in_transaction
                       THEN {}
                       ELSE {w \in block \union Open : work[w] # "undone"}
               new  == [sids |-> sids, managed |-> commit_on_exit, clean |-> ~needs_rollback,
                        deps |-> deps]
    <3>1. run_on_commit' = run_on_commit \union {new}
      BY <1>20 DEF OnCommit
    <3>2. sids \in SUBSET Sid
      OBVIOUS
    <3>3. deps \in SUBSET Work
      BY DEF Open
    <3>4. commit_on_exit \in BOOLEAN /\ (~needs_rollback) \in BOOLEAN
      OBVIOUS
    <3> HIDE DEF sids, deps
    <3>5. new \in Hook
      BY <3>2, <3>3, <3>4 DEF Hook
    <3> HIDE DEF new
    <3> QED
      BY <3>1, <3>5
  <2> QED
    BY <1>20, <2>1, EngineType DEF OnCommit
<1>21. ASSUME NEW value \in BOOLEAN, SetRollback(value) PROVE TypeOK'
  BY <1>21, EngineType DEF SetRollback
<1>22. ASSUME NEW value \in BOOLEAN, SetAutocommit(value) PROVE TypeOK'
  <2>1. EngineTypeOK'
    BY <1>22, EngineType DEF SetAutocommit
  <2>2. autocommit' \in BOOLEAN /\ errors_occurred' \in BOOLEAN
    BY <1>22 DEF SetAutocommit, EnableAutocommit
  <2>3. hooks_armed' \in BOOLEAN /\ run_on_commit' \subseteq Hook /\ ran' \subseteq Hook
    BY <1>22 DEF SetAutocommit, EnableAutocommit
  <2>4. UNCHANGED <<connection, in_atomic_block, commit_on_exit, closed_in_transaction, nesting,
                    needs_rollback, leaving, health_check_due, cursor, history>>
    BY <1>22 DEF SetAutocommit
  <2> QED
    BY <2>1, <2>2, <2>3, <2>4
<1>23. CASE Commit
  <2>1. EngineTypeOK'
    BY <1>23, EngineType DEF Commit, DriverCommits, DriverFails, Status
  <2>2. hooks_armed' \in BOOLEAN /\ errors_occurred' \in BOOLEAN
    BY <1>23 DEF Commit
  <2>3. UNCHANGED <<connection, flags, nesting, needs_rollback, leaving, run_on_commit, ran,
                    health_check_due, cursor, history>>
    BY <1>23 DEF Commit
  <2> QED
    BY <2>1, <2>2, <2>3
<1>24. CASE Rollback
  <2>1. EngineTypeOK'
    BY <1>24, EngineType DEF Rollback, DriverFails, Status
  <2>2. /\ errors_occurred' \in BOOLEAN /\ needs_rollback' \in BOOLEAN
        /\ run_on_commit' \subseteq Hook
    BY <1>24 DEF Rollback
  <2>3. UNCHANGED <<connection, flags, nesting, leaving, hooks_armed, ran, health_check_due,
                    cursor, history>>
    BY <1>24 DEF Rollback
  <2> QED
    BY <2>1, <2>2, <2>3
<1>25. CASE RawBegin \/ RawEnd
  <2>1. EngineTypeOK'
    BY <1>25, EngineType DEF RawBegin, RawEnd, Status
  <2>2. UNCHANGED wrapper
    BY <1>25 DEF RawBegin, RawEnd
  <2> QED
    BY <2>1, <2>2 DEF wrapper
<1>26. CASE UNCHANGED vars
  BY <1>26, EngineType DEF vars, wrapper
<1> QED
  BY <1>1, <1>2, <1>3, <1>4, <1>5, <1>6, <1>7, <1>8, <1>9, <1>10, <1>11, <1>12, <1>13, <1>14,
     <1>15, <1>16, <1>17, <1>18, <1>19, <1>20, <1>21, <1>22, <1>23, <1>24, <1>25, <1>26 DEF Next

LEMMA InitType == Init => TypeOK
<1> SUFFICES ASSUME Init PROVE TypeOK
  OBVIOUS
<1>1. EngineTypeOK
  BY DEF Init, EngineInit, EngineTypeOK, Status
<1>2. cursor \in Result
  BY DEF Init, Result, NoResult
<1>3. savepoint_ids \in Seq(Sid)
  BY DEF Init
<1> QED
  BY <1>1, <1>2, <1>3 DEF Init, TypeOK, Exiting, Sid

\* Every state the wrapper reaches is of its type.
THEOREM TypeCorrect == Spec => []TypeOK
  BY InitType, TypeStep, PTL DEF Spec
--------------------------------------------------------------------------------
(* Control, the part of the invariant that relates the wrapper's flags to the     *)
(* engine: each action preserves it when the application leaves the engine's      *)
(* transactions to the wrapper.                                                   *)

(* What the statements of the engine do to savepoints and the invariant.       *)

\* The statements keep EngineInv as long as no savepoint is numbered.
LEMMA EngineKept ==
  ASSUME TypeOK, EngineInv, savepoint_state' = savepoint_state
  PROVE  /\ UNCHANGED engine => EngineInv'
         /\ \A tx \in BOOLEAN : Statement(tx) /\ (in_transaction => tx) => EngineInv'
         /\ \A W : \A tx \in BOOLEAN : Write(W, tx) /\ (in_transaction => tx) => EngineInv'
         /\ \A s : Release(s) \/ RollbackTo(s) => EngineInv'
         /\ \A status \in Final : EndTransaction(status) => EngineInv'
<1>1. UNCHANGED engine => EngineInv'
  BY DEF EngineInv, engine, Open
<1>2. ASSUME NEW tx \in BOOLEAN, Statement(tx), in_transaction => tx PROVE EngineInv'
  BY <1>2 DEF EngineInv, Statement, Open
<1>3. ASSUME NEW W, NEW tx \in BOOLEAN, Write(W, tx), in_transaction => tx PROVE EngineInv'
  <2>1. ~tx => Open' = {} /\ savepoints' = {}
    BY <1>3, WorkAfter DEF EngineInv, Write, Open
  <2>2. \A w \in Work : \A s \in under'[w] : s \in savepoints \/ s \in under[w]
    BY <1>3 DEF Write
  <2> QED
    BY <1>3, <2>1, <2>2 DEF EngineInv, Write
<1>4. ASSUME NEW s, Release(s) \/ RollbackTo(s) PROVE EngineInv'
  <2>1. in_transaction /\ in_transaction'
    BY <1>4 DEF EngineInv, Release, RollbackTo
  <2>2. savepoints' \subseteq savepoints /\ under' = under
    BY <1>4 DEF Release, RollbackTo
  <2> QED
    BY <2>1, <2>2 DEF EngineInv
<1>5. ASSUME NEW status \in Final, EndTransaction(status) PROVE EngineInv'
  <2>1. Open' = {}
    BY <1>5, WorkAfter DEF Open, Final
  <2> QED
    BY <1>5, <2>1 DEF EngineInv, EndTransaction
<1> QED
  BY <1>1, <1>2, <1>3, <1>4, <1>5

\* A new savepoint is numbered above all that work may be dated by.
LEMMA SavepointKeepsEngine ==
  ASSUME TypeOK, EngineInv, savepoint_state' = savepoint_state + 1
  PROVE  /\ Savepoint(savepoint_state + 1) => EngineInv'
         /\ UNCHANGED engine => EngineInv'
         /\ \A tx \in BOOLEAN : Statement(tx) /\ (in_transaction => tx) => EngineInv'
         /\ \A status \in Final : EndTransaction(status) => EngineInv'
<1>0. \A k \in Nat : k <= savepoint_state => k <= savepoint_state + 1
  BY DEF TypeOK
<1>1. /\ \A s \in savepoints : s <= savepoint_state'
      /\ \A w \in Work : \A s \in under[w] : s <= savepoint_state'
      /\ savepoint_state + 1 <= savepoint_state'
  BY <1>0 DEF EngineInv, TypeOK, EngineTypeOK
<1>2. ASSUME Savepoint(savepoint_state + 1) PROVE EngineInv'
  BY <1>1, <1>2 DEF EngineInv, Savepoint
<1>3. ASSUME UNCHANGED engine PROVE EngineInv'
  BY <1>1, <1>3 DEF EngineInv, engine, Open
<1>4. ASSUME NEW tx \in BOOLEAN, Statement(tx), in_transaction => tx PROVE EngineInv'
  BY <1>1, <1>4 DEF EngineInv, Statement, Open
<1>5. ASSUME NEW status \in Final, EndTransaction(status) PROVE EngineInv'
  <2>1. Open' = {}
    BY <1>5, WorkAfter DEF Open, Final
  <2> QED
    BY <1>1, <1>5, <2>1 DEF EngineInv, EndTransaction
<1> QED
  BY <1>2, <1>3, <1>4, <1>5

(* What a statement that raises, and what a close, leaves behind.              *)

FailureEffect ==
  /\ \/ work' = work /\ under' = under
     \/ EndTransaction("lost") /\ (in_atomic_block => run_on_commit' = {})
  /\ run_on_commit' \subseteq run_on_commit
  /\ in_transaction' => connection = "open"
  /\ InManagedBlock /\ in_transaction' => in_transaction
  /\ InManagedBlock /\ ~in_transaction' => needs_rollback'

LEMMA FailureHasEffect ==
  ASSUME TypeOK, Control, NEW forced \in BOOLEAN, StatementFails(forced)
  PROVE  /\ FailureEffect
         /\ needs_rollback \/ forced => needs_rollback'
         /\ savepoint_state' \in {savepoint_state, savepoint_state + 1} => EngineInv'
<1> USE DEF Control
<1>1. CASE needs_rollback /\ UNCHANGED <<engine, needs_rollback, run_on_commit, errors_occurred>>
  BY <1>1, EngineKept, SavepointKeepsEngine
     DEF engine, FailureEffect, ConnectionInv, InManagedBlock
<1>2. CASE ~needs_rollback /\ RefuseLostBlock
  BY <1>2, EngineKept, SavepointKeepsEngine
     DEF RefuseLostBlock, BlockLostTransaction, engine, FailureEffect, InManagedBlock
<1>3. CASE Admitted /\ EngineFails(forced)
  <2>1. InManagedBlock => in_transaction /\ ~autocommit
    BY <1>3 DEF Admitted, BlockLostTransaction, InManagedBlock, AutocommitInv, TypeOK, EngineTypeOK
  <2>2. CASE /\ ~autocommit /\ ~in_transaction
             /\ needs_rollback' = (needs_rollback \/ forced)
             /\ UNCHANGED <<engine, run_on_commit>>
    BY <2>1, <2>2, EngineKept, SavepointKeepsEngine DEF engine, FailureEffect
  <2>3. CASE /\ Statement(EnsuredTransaction)
             /\ needs_rollback' = (needs_rollback \/ forced)
             /\ UNCHANGED run_on_commit
    <3>1. EnsuredTransaction \in BOOLEAN /\ (in_transaction => EnsuredTransaction)
      BY SmallTypes DEF EnsuredTransaction
    <3>2. savepoint_state' \in {savepoint_state, savepoint_state + 1} => EngineInv'
      BY <2>3, <3>1, EngineKept, SavepointKeepsEngine
    <3> QED
      BY <1>3, <2>1, <2>3, <3>1, <3>2 DEF Statement, FailureEffect, Admitted
  <2>4. CASE /\ EnsuredTransaction
             /\ EndTransaction("lost")
             /\ needs_rollback' = (needs_rollback \/ forced \/ in_atomic_block)
             /\ run_on_commit' = IF in_atomic_block THEN {} ELSE run_on_commit
    <3>1. savepoint_state' \in {savepoint_state, savepoint_state + 1} => EngineInv'
      BY <2>4, EngineKept, SavepointKeepsEngine DEF Final
    <3>2. in_transaction' = FALSE
      BY <2>4 DEF EndTransaction
    <3> QED
      BY <2>4, <3>1, <3>2 DEF FailureEffect, InManagedBlock
  <2> QED
    BY <1>3, <2>2, <2>3, <2>4 DEF EngineFails
<1> QED
  BY <1>1, <1>2, <1>3 DEF StatementFails

CloseEffect ==
  /\ UNCHANGED engine \/ EndTransaction("lost")
  /\ in_transaction' = FALSE
  /\ run_on_commit' = {}
  /\ cursor' \in {cursor, NoResult}
  /\ IF in_atomic_block
     THEN connection' = "closed" /\ closed_in_transaction' = TRUE /\ needs_rollback' = TRUE
     ELSE connection' \in {connection, "none"} /\ UNCHANGED <<closed_in_transaction, needs_rollback>>

LEMMA CloseHasEffect ==
  ASSUME TypeOK, Control
  PROVE  /\ ForceClose => CloseEffect
         /\ CloseOpen => CloseEffect
         /\ CloseEffect /\ savepoint_state' = savepoint_state => EngineInv'
<1>1. ForceClose => CloseEffect
  BY DEF ForceClose, CloseEffect, EndTransaction
<1>2. RollbackForClose => (UNCHANGED engine \/ EndTransaction("lost")) /\ in_transaction' = FALSE
  BY DEF RollbackForClose, EndTransaction, engine, TypeOK, EngineTypeOK
<1>3. CloseOpen => CloseEffect
  BY <1>1, <1>2 DEF CloseOpen, CloseEffect
<1>4. CloseEffect /\ savepoint_state' = savepoint_state => EngineInv'
  BY EngineKept DEF CloseEffect, Control, Final
<1> QED
  BY <1>1, <1>3, <1>4

(* Control is inductive.                                                       *)

Safe == TypeOK /\ Control /\ ~Unchecked

LEMMA StatementControl ==
  ASSUME Safe,
         \/ \E w \in Work, returning \in BOOLEAN : Execute(w, returning)
         \/ Select \/ Fetch \/ StatementRaises
  PROVE  Control'
<1> USE DEF Safe, Control, flags, nesting, leaving, ConnectionInv, AutocommitInv, ExitInv,
            AbandonedIsMarked, Abandoned, InManagedBlock, NothingPending
<1>0. EnsuredTransaction \in BOOLEAN /\ (in_transaction => EnsuredTransaction)
  BY SmallTypes DEF EnsuredTransaction
<1>1. Admitted => connection = "open" /\ (InManagedBlock => in_transaction)
  BY DEF Admitted, BlockLostTransaction, TypeOK, EngineTypeOK
<1>2. ASSUME NEW w \in Work, NEW returning \in BOOLEAN, Execute(w, returning) PROVE Control'
  <2>1. EngineInv'
    BY <1>0, <1>2, EngineKept DEF Execute
  <2>2. cursor'.pending = {}
    BY <1>2 DEF Execute, ResultOf, NoResult
  <2>3. in_transaction' = EnsuredTransaction
    BY <1>2 DEF Execute, Write
  <2> QED
    BY <1>0, <1>1, <1>2, <2>1, <2>2, <2>3 DEF Execute
<1>3. CASE Select
  <2>1. EngineInv'
    BY <1>0, <1>3, EngineKept DEF Select
  <2> QED
    BY <1>0, <1>1, <1>3, <2>1 DEF Select, Statement, NoResult
<1>4. CASE Fetch
  <2>1. EngineInv'
    BY <1>0, <1>4, EngineKept DEF Fetch
  <2> QED
    BY <1>0, <1>1, <1>4, <2>1 DEF Fetch, Write, NoResult
<1>5. CASE StatementRaises
  <2>1. FailureEffect /\ EngineInv'
    BY <1>5, FailureHasEffect DEF StatementRaises
  <2>2. cursor'.pending = {}
    BY <1>5 DEF StatementRaises, NoResult
  <2> QED
    BY <1>5, <2>1, <2>2 DEF StatementRaises, FailureEffect, Ready
<1> QED
  BY <1>2, <1>3, <1>4, <1>5

LEMMA ConnectionControl ==
  ASSUME Safe, Connect \/ ConnectFails \/ Close \/ HealthCheck \/ CloseIfUnusableOrObsolete
  PROVE  Control'
<1> USE DEF Safe, Control, nesting, leaving, ConnectionInv, AutocommitInv, ExitInv,
            AbandonedIsMarked, Abandoned, InManagedBlock, NothingPending
<1>1. CASE Connect \/ ConnectFails
  <2>1. ~in_transaction
    BY <1>1 DEF Connect, ConnectFails, ConnectResets
  <2>2. EngineInv'
    BY <1>1, <2>1 DEF Connect, ConnectFails, ConnectResets, EngineInv, Open
  <2>3. NothingPending'
    BY <1>1 DEF Connect, ConnectFails, ConnectResets
  <2>4. in_atomic_block' = FALSE /\ closed_in_transaction' = FALSE
    BY <1>1 DEF Connect, ConnectFails, ConnectResets
  <2>5. (connection' # "open" => ~in_transaction') /\ connection' \in {"none", "open"}
    BY <1>1, <2>1 DEF Connect, ConnectFails
  <2>6. exiting' = "no" => exiting_sid' = NoSavepoint
    BY <1>1 DEF Connect, ConnectFails
  <2> QED
    BY <2>2, <2>3, <2>4, <2>5, <2>6
<1>2. ASSUME CloseEffect, UNCHANGED <<autocommit, in_atomic_block, commit_on_exit, nesting, leaving>>
      PROVE  Control'
  <2>1. EngineInv'
    BY <1>2, CloseHasEffect
  <2> QED
    BY <1>2, <2>1 DEF CloseEffect, NoResult
<1>3. ASSUME UNCHANGED <<engine, connection, closed_in_transaction, needs_rollback, cursor>>,
             UNCHANGED <<autocommit, in_atomic_block, commit_on_exit, nesting, leaving>>
      PROVE  Control'
  <2>1. EngineInv'
    BY <1>3, EngineKept
  <2> QED
    BY <1>3, <2>1 DEF engine
<1>4. CASE Close
  BY <1>2, <1>3, <1>4, CloseHasEffect DEF Close
<1>5. CASE HealthCheck
  BY <1>2, <1>3, <1>5, CloseHasEffect DEF HealthCheck
<1>6. CASE CloseIfUnusableOrObsolete
  <2>1. CloseEffect \/ KeepConnection
    BY <1>6, CloseHasEffect DEF CloseIfUnusableOrObsolete, BoundaryInMemory, BoundaryFile
  <2> QED
    BY <1>2, <1>3, <1>6, <2>1 DEF CloseIfUnusableOrObsolete, KeepConnection
<1> QED
  BY <1>1, <1>4, <1>5, <1>6

LEMMA EnterControl ==
  ASSUME Safe,
         \/ EnterManagedBlock
         \/ \E savepoint \in BOOLEAN : EnterManualBlock(savepoint) \/ EnterInnerBlock(savepoint)
  PROVE  Control'
<1> USE DEF Safe, Control, flags, leaving, ConnectionInv, AutocommitInv, ExitInv,
            AbandonedIsMarked, Abandoned, InManagedBlock, NothingPending
<1>1. CASE EnterManagedBlock
  <2>1. EngineInv'
    BY <1>1, EngineKept DEF EnterManagedBlock
  <2>2. /\ connection = "open" /\ exiting = "no" /\ UNCHANGED <<connection, closed_in_transaction>>
        /\ cursor' = cursor /\ exiting' = exiting /\ exiting_sid' = exiting_sid
    BY <1>1 DEF EnterManagedBlock, Checked, Ready
  <2>3. \/ in_transaction' = TRUE /\ autocommit' = FALSE
        \/ in_atomic_block' = FALSE /\ in_transaction' = in_transaction
    BY <1>1 DEF EnterManagedBlock, Statement, engine, TypeOK
  <2> QED
    BY <2>1, <2>2, <2>3
<1>2. ASSUME NEW savepoint \in BOOLEAN, EnterManualBlock(savepoint) PROVE Control'
  <2>1. EngineInv'
    <3>1. CASE savepoint
      <4>1. savepoint_state' = savepoint_state + 1
        BY <1>2, <3>1 DEF EnterManualBlock
      <4>2. \/ Savepoint(savepoint_state + 1)
            \/ UNCHANGED engine
            \/ Statement(TRUE)
            \/ EndTransaction("lost")
        BY <1>2, <3>1 DEF EnterManualBlock
      <4> QED
        BY <4>1, <4>2, SavepointKeepsEngine DEF Final
    <3>2. CASE ~savepoint
      BY <1>2, <3>2, EngineKept DEF EnterManualBlock
    <3> QED
      BY <3>1, <3>2
  <2>2. commit_on_exit' = FALSE /\ connection' = "open" /\ ~closed_in_transaction'
    BY <1>2 DEF EnterManualBlock, Checked, Ready
  <2>3. exiting' = "no" /\ exiting_sid' = NoSavepoint /\ cursor' = cursor
    BY <1>2 DEF EnterManualBlock, Checked, Ready
  <2> QED
    BY <2>1, <2>2, <2>3
<1>3. ASSUME NEW savepoint \in BOOLEAN, EnterInnerBlock(savepoint) PROVE Control'
  <2>1. CASE StatementFails(FALSE) /\ savepoint_state' = savepoint_state + 1
    <3>1. FailureEffect /\ EngineInv'
      BY <2>1, FailureHasEffect
    <3> QED
      BY <1>3, <3>1 DEF EnterInnerBlock, FailureEffect
  <2>2. CASE Admitted /\ Savepoint(savepoint_state + 1) /\ savepoint_state' = savepoint_state + 1
             /\ UNCHANGED needs_rollback
    <3>1. EngineInv'
      BY <2>2, SavepointKeepsEngine
    <3> QED
      BY <1>3, <2>2, <3>1 DEF EnterInnerBlock, Savepoint, Admitted
  <2>3. CASE UNCHANGED <<engine, savepoint_state, needs_rollback>>
    <3>1. EngineInv'
      BY <2>3, EngineKept
    <3> QED
      BY <1>3, <2>3, <3>1 DEF EnterInnerBlock, engine
  <2> QED
    BY <1>3, <2>1, <2>2, <2>3 DEF EnterInnerBlock
<1> QED
  BY <1>1, <1>2, <1>3

LEMMA ExitControl ==
  ASSUME Safe,
         \/ \E raised \in BOOLEAN : LeaveBlock(raised)
         \/ ReleaseSavepoint \/ UndoToSavepoint \/ DropSavepoint
         \/ CommitOnExit \/ RollbackOnExit \/ CloseOnExit \/ FinishExit
  PROVE  Control'
<1> USE DEF Safe, Control, flags, nesting, ConnectionInv, AutocommitInv, ExitInv,
            AbandonedIsMarked, Abandoned, InManagedBlock, NothingPending
<1>1. ASSUME NEW raised \in BOOLEAN, LeaveBlock(raised) PROVE Control'
  <2>1. EngineInv' /\ in_transaction' = in_transaction
    BY <1>1, EngineKept DEF LeaveBlock, engine
  <2>2. exiting' # "no" /\ exiting = "no"
    BY <1>1 DEF LeaveBlock
  <2>3. CASE savepoint_ids = <<>>
    <3>1. in_atomic_block' = FALSE
      BY <1>1, <2>3 DEF LeaveBlock
    <3> QED
      BY <1>1, <2>1, <2>2, <3>1 DEF LeaveBlock
  <2>4. CASE savepoint_ids # <<>>
    <3>1. exiting' \notin {"commit", "rollback", "close"} /\ in_atomic_block' = in_atomic_block
      BY <1>1, <2>4 DEF LeaveBlock
    <3>2. needs_rollback => needs_rollback' \/ exiting' = "undo"
      BY <1>1, <2>4 DEF LeaveBlock
    <3> QED
      BY <1>1, <2>1, <2>2, <3>1, <3>2 DEF LeaveBlock
  <2> QED
    BY <2>3, <2>4
<1>2. ASSUME exiting \in {"release", "drop", "undo"},
             NEW forced \in BOOLEAN, StatementFails(forced),
             UNCHANGED <<connection, flags, nesting, exiting_sid, cursor>>,
             exiting' \in {"undo", "finish"}
      PROVE  Control'
  <2>1. FailureEffect /\ EngineInv'
    BY <1>2, FailureHasEffect
  <2> QED
    BY <1>2, <2>1 DEF FailureEffect
<1>3. ASSUME Admitted, \E s : Release(s) \/ RollbackTo(s),
             UNCHANGED <<connection, flags, nesting, exiting_sid, cursor, needs_rollback>>,
             exiting' \in {"drop", "finish"}
      PROVE  Control'
  <2>1. EngineInv'
    BY <1>3, EngineKept
  <2>2. in_transaction' = in_transaction
    BY <1>3 DEF Release, RollbackTo
  <2>3. InManagedBlock => in_transaction
    BY <1>3 DEF Admitted, BlockLostTransaction, TypeOK, EngineTypeOK
  <2> QED
    BY <1>3, <2>1, <2>2, <2>3
<1>4. CASE ReleaseSavepoint
  BY <1>2, <1>3, <1>4 DEF ReleaseSavepoint
<1>5. CASE UndoToSavepoint
  <2>1. CASE ~in_transaction
    <3>1. EngineInv'
      BY <1>5, <2>1, EngineKept DEF UndoToSavepoint
    <3> QED
      BY <1>5, <2>1, <3>1 DEF UndoToSavepoint, engine
  <2>2. CASE in_transaction
    BY <1>2, <1>3, <1>5, <2>2 DEF UndoToSavepoint
  <2> QED
    BY <2>1, <2>2
<1>6. CASE DropSavepoint
  BY <1>2, <1>3, <1>6 DEF DropSavepoint
<1>7. CASE CommitOnExit \/ RollbackOnExit
  <2>1. EngineInv' /\ (in_transaction' => in_transaction)
    <3>1. UNCHANGED engine \/ EndTransaction("lost") \/ EndTransaction("committed")
      BY <1>7 DEF CommitOnExit, RollbackOnExit, DriverCommits, DriverFails
    <3>2. EngineInv'
      BY <1>7, <3>1, EngineKept DEF CommitOnExit, RollbackOnExit, Final
    <3> QED
      BY <3>1, <3>2 DEF engine, EndTransaction
  <2>2. ~in_atomic_block
    BY <1>7 DEF CommitOnExit, RollbackOnExit
  <2>3. exiting' # "no" /\ UNCHANGED <<connection, flags, cursor>>
    BY <1>7 DEF CommitOnExit, RollbackOnExit
  <2> QED
    BY <2>1, <2>2, <2>3
<1>8. CASE CloseOnExit
  <2>1. CloseEffect
    BY <1>8, CloseHasEffect DEF CloseOnExit
  <2>2. EngineInv'
    BY <1>8, <2>1, CloseHasEffect DEF CloseOnExit
  <2>3. ~in_atomic_block
    BY <1>8 DEF CloseOnExit
  <2> QED
    BY <1>8, <2>1, <2>2, <2>3 DEF CloseOnExit, CloseEffect, NoResult
<1>9. CASE FinishExit
  <2>1. EngineInv' /\ in_transaction' = in_transaction
    BY <1>9, EngineKept DEF FinishExit, engine
  <2>2. exiting = "finish" /\ exiting' = "no" /\ exiting_sid' = NoSavepoint
    BY <1>9 DEF FinishExit
  <2>3. in_atomic_block' \in {in_atomic_block, FALSE} /\ (InManagedBlock => autocommit' = autocommit)
    BY <1>9 DEF FinishExit
  <2>4. UNCHANGED <<closed_in_transaction, commit_on_exit, needs_rollback, cursor>>
    BY <1>9 DEF FinishExit
  <2>5. \/ connection' = connection
        \/ connection' = "none" /\ closed_in_transaction = TRUE /\ ~InManagedBlock
    BY <1>9 DEF FinishExit, TypeOK
  <2>6. in_atomic_block' => in_atomic_block
    BY <2>3
  <2>7. ConnectionInv'
    BY <2>1, <2>4, <2>5, <2>6
  <2> QED
    BY <2>1, <2>2, <2>3, <2>4, <2>6, <2>7
<1> QED
  BY <1>1, <1>4, <1>5, <1>6, <1>7, <1>8, <1>9

LEMMA OtherControl ==
  ASSUME Safe,
         \/ OnCommit \/ Commit \/ Rollback \/ RawBegin \/ RawEnd \/ UNCHANGED vars
         \/ \E value \in BOOLEAN : SetRollback(value) \/ SetAutocommit(value)
  PROVE  Control'
<1> USE DEF Safe, Control, flags, nesting, leaving, ConnectionInv, AutocommitInv, ExitInv,
            AbandonedIsMarked, Abandoned, InManagedBlock, NothingPending
<1>1. CASE OnCommit \/ (\E value \in BOOLEAN : SetRollback(value)) \/ UNCHANGED vars
  <2>1. /\ UNCHANGED <<engine, connection, flags, nesting, leaving, cursor>>
        /\ needs_rollback => needs_rollback'
    BY <1>1 DEF OnCommit, SetRollback, vars, wrapper
  <2>2. EngineInv'
    BY <2>1, EngineKept
  <2> QED
    BY <2>1, <2>2 DEF engine
<1>2. CASE Commit \/ Rollback
  <2>1. UNCHANGED engine \/ EndTransaction("lost") \/ EndTransaction("committed")
    BY <1>2 DEF Commit, Rollback, DriverCommits, DriverFails
  <2>2. UNCHANGED <<connection, flags, nesting, leaving, cursor>> /\ ~in_atomic_block
    BY <1>2 DEF Commit, Rollback
  <2>3. EngineInv'
    BY <2>1, <2>2, EngineKept DEF Final
  <2>4. in_transaction' => in_transaction
    BY <2>1 DEF engine, EndTransaction
  <2> QED
    BY <2>2, <2>3, <2>4
<1>3. ASSUME NEW value \in BOOLEAN, SetAutocommit(value) PROVE Control'
  <2>1. UNCHANGED engine \/ Statement(TRUE)
    BY <1>3 DEF SetAutocommit
  <2>2. connection = "open" /\ ~in_atomic_block
    BY <1>3 DEF SetAutocommit, Checked, Ready
  <2>3. UNCHANGED <<connection, in_atomic_block, closed_in_transaction, nesting, leaving, cursor>>
    BY <1>3 DEF SetAutocommit
  <2>4. EngineInv'
    BY <2>1, <2>3, EngineKept
  <2> QED
    BY <2>2, <2>3, <2>4
<1>4. CASE RawBegin \/ RawEnd
  BY <1>4 DEF RawBegin, RawEnd
<1> QED
  BY <1>1, <1>2, <1>3, <1>4

LEMMA ControlStep ==
  ASSUME Safe, [Next]_vars
  PROVE  Control'
  BY StatementControl, ConnectionControl, EnterControl, ExitControl, OtherControl DEF Next
--------------------------------------------------------------------------------
(* Hooks.  First what a step may do to work: it never becomes new again, and   *)
(* committed work stays committed.                                             *)

Evolves ==
  \A w \in Work :
    /\ work[w] # "new" => work'[w] # "new" /\ under'[w] = under[w]
    /\ work[w] = "committed" => work'[w] = "committed"

EngineStep ==
  \/ UNCHANGED engine
  \/ \E tx \in BOOLEAN : Statement(tx)
  \/ \E s : Savepoint(s) \/ Release(s) \/ RollbackTo(s)
  \/ \E status \in Final : EndTransaction(status)
  \/ \E w \in Work, tx \in BOOLEAN : work[w] = "new" /\ Write({w}, tx)
  \/ \E tx \in BOOLEAN : Write({}, tx)

LEMMA EngineStepEvolves ==
  ASSUME TypeOK, EngineStep
  PROVE  Evolves
<1>1. CASE UNCHANGED <<work, under>>
  BY <1>1 DEF Evolves
<1>2. ASSUME NEW s, RollbackTo(s) PROVE Evolves
  <2>1. under' = under
    BY <1>2 DEF RollbackTo
  <2> QED
    BY <1>2, <2>1, WorkAfter DEF Evolves
<1>3. ASSUME NEW status \in Final, EndTransaction(status) PROVE Evolves
  <2>1. under' = under /\ status # "new"
    BY <1>3 DEF EndTransaction, Final
  <2> QED
    BY <1>3, <2>1, WorkAfter DEF Evolves
<1>4. ASSUME NEW w \in Work, NEW tx \in BOOLEAN, work[w] = "new", Write({w}, tx) PROVE Evolves
  <2>1. \A v \in Work : v # w => work'[v] = work[v] /\ under'[v] = under[v]
    BY <1>4, WorkAfter DEF Write
  <2> QED
    BY <1>4, <2>1 DEF Evolves
<1>5. ASSUME NEW tx \in BOOLEAN, Write({}, tx) PROVE Evolves
  <2>1. \A v \in Work : work'[v] = work[v] /\ under'[v] = under[v]
    BY <1>5, WorkAfter DEF Write
  <2> QED
    BY <2>1 DEF Evolves
<1> QED
  BY <1>1, <1>2, <1>3, <1>4, <1>5 DEF EngineStep, engine, Statement, Savepoint, Release

LEMMA StepIsEngineStep ==
  ASSUME Safe, [Next]_vars
  PROVE  EngineStep
<1> USE DEF EngineStep
<1>0. EnsuredTransaction \in BOOLEAN /\ "lost" \in Final /\ "committed" \in Final
  BY SmallTypes DEF EnsuredTransaction, Safe, Final
<1>1. ASSUME NEW w \in Work, NEW returning \in BOOLEAN, Execute(w, returning) PROVE EngineStep
  <2>1. ResultOf(w, returning).pending = {}
    BY DEF ResultOf, NoResult
  <2>2. {w} \ ResultOf(w, returning).pending = {w}
    BY <2>1
  <2>3. work[w] = "new" /\ Write({w}, EnsuredTransaction)
    BY <1>1, <2>2 DEF Execute
  <2> QED
    BY <1>0, <2>3
<1>2. CASE Select
  BY <1>0, <1>2 DEF Select
<1>3. CASE Fetch
  <2>1. cursor.pending = {}
    BY DEF Safe, Control, NothingPending
  <2> QED
    BY <1>0, <1>3, <2>1 DEF Fetch
<1>4. \A forced \in BOOLEAN : StatementFails(forced) => EngineStep
  BY <1>0 DEF StatementFails, EngineFails, RefuseLostBlock, engine
<1>5. ForceClose \/ CloseOpen => EngineStep
  BY <1>0 DEF ForceClose, CloseOpen, RollbackForClose
<1>6. CASE StatementRaises
  BY <1>4, <1>6 DEF StatementRaises
<1>7. CASE Connect \/ ConnectFails
  <2>1. /\ in_transaction' \in BOOLEAN
        /\ UNCHANGED <<savepoints, work, under>>
    BY <1>7, SmallTypes DEF Connect, ConnectFails, ConnectResets, Safe, TypeOK, EngineTypeOK
  <2> QED
    BY <2>1 DEF Statement
<1>8. CASE Close \/ HealthCheck \/ CloseIfUnusableOrObsolete
  BY <1>5, <1>8 DEF Close, HealthCheck, CloseIfUnusableOrObsolete, BoundaryInMemory,
                    BoundaryFile, KeepConnection, engine
<1>9. CASE EnterManagedBlock
  BY <1>9 DEF EnterManagedBlock, engine
<1>10. ASSUME NEW savepoint \in BOOLEAN, EnterManualBlock(savepoint) \/ EnterInnerBlock(savepoint)
       PROVE  EngineStep
  BY <1>0, <1>4, <1>10 DEF EnterManualBlock, EnterInnerBlock, engine
<1>11. CASE ReleaseSavepoint \/ UndoToSavepoint \/ DropSavepoint
  BY <1>4, <1>11 DEF ReleaseSavepoint, UndoToSavepoint, DropSavepoint, engine
<1>12. CASE CommitOnExit \/ RollbackOnExit \/ Commit \/ Rollback
  BY <1>0, <1>12 DEF CommitOnExit, RollbackOnExit, Commit, Rollback, DriverCommits, DriverFails, engine
<1>13. CASE CloseOnExit
  BY <1>5, <1>13 DEF CloseOnExit
<1>14. ASSUME NEW value \in BOOLEAN, SetRollback(value) \/ SetAutocommit(value) PROVE EngineStep
  BY <1>14 DEF SetRollback, SetAutocommit, engine
<1>15. ASSUME NEW raised \in BOOLEAN, LeaveBlock(raised) PROVE EngineStep
  BY <1>15 DEF LeaveBlock, engine
<1>16. CASE FinishExit \/ OnCommit \/ UNCHANGED vars
  BY <1>16 DEF FinishExit, OnCommit, vars, engine
<1>17. ~RawBegin /\ ~RawEnd
  BY DEF Safe, RawBegin, RawEnd
<1> QED
  BY <1>1, <1>2, <1>3, <1>6, <1>7, <1>8, <1>9, <1>10, <1>11, <1>12, <1>13, <1>14, <1>15, <1>16,
     <1>17 DEF Next

LEMMA StepEvolves ==
  ASSUME Safe, [Next]_vars
  PROVE  Evolves
  BY StepIsEngineStep, EngineStepEvolves DEF Safe

(* The work of a managed block stays in the one transaction of the block.      *)

LEMMA BlockStep ==
  ASSUME Safe, BlockInv, [Next]_vars, Control'
  PROVE  BlockInv'
<1> USE DEF Safe, flags, nesting, leaving, history, InManagedBlock
<1>0. /\ Evolves
      /\ block \subseteq Work
      /\ \A w \in block : work[w] # "new"
      /\ InManagedBlock /\ in_transaction => \A w \in block : work[w] \in {"open", "undone"}
  BY StepEvolves DEF BlockInv, TypeOK
<1>1. \A w \in block : work'[w] # "new"
  BY <1>0 DEF Evolves
<1>2. ASSUME UNCHANGED block, InManagedBlock' /\ in_transaction' =>
               /\ InManagedBlock /\ in_transaction
               /\ UNCHANGED work \/ \E s : RollbackTo(s)
      PROVE  BlockInv'
  <2>1. ASSUME NEW s, RollbackTo(s), InManagedBlock, in_transaction
        PROVE  \A w \in block : work'[w] \in {"open", "undone"}
    BY <1>0, <2>1, WorkAfter
  <2> QED
    BY <1>0, <1>1, <1>2, <2>1 DEF BlockInv
<1>3. ASSUME NEW w \in Work, NEW returning \in BOOLEAN, Execute(w, returning) PROVE BlockInv'
  <2>1. ResultOf(w, returning).pending = {}
    BY DEF ResultOf, NoResult
  <2>2. {w} \ ResultOf(w, returning).pending = {w}
    BY <2>1
  <2>3. Write({w}, EnsuredTransaction) /\ Admitted
    BY <1>3, <2>2 DEF Execute
  <2>4. work'[w] = IF EnsuredTransaction THEN "open" ELSE "committed"
    BY <2>3, WorkAfter, SmallTypes DEF EnsuredTransaction
  <2>5. \A v \in Work : v # w => work'[v] = work[v]
    BY <2>3, WorkAfter, SmallTypes DEF EnsuredTransaction
  <2>6. block' \subseteq block \union {w}
    BY <1>3 DEF Execute
  <2>7. InManagedBlock' => InManagedBlock /\ in_transaction
    BY <1>3, <2>3 DEF Execute, Admitted, BlockLostTransaction, Control, AutocommitInv, TypeOK, EngineTypeOK
  <2>8. in_transaction => EnsuredTransaction
    BY DEF EnsuredTransaction
  <2> QED
    BY <1>0, <2>4, <2>5, <2>6, <2>7, <2>8 DEF BlockInv
<1>4. CASE Select \/ Fetch
  <2>1. UNCHANGED <<block, flags>> /\ Admitted
    BY <1>4 DEF Select, Fetch
  <2>2. UNCHANGED work \/ Write({}, EnsuredTransaction)
    BY <1>4 DEF Select, Fetch, Statement, Control, NothingPending
  <2>3. \A w \in Work : work'[w] = work[w]
    <3>1. CASE UNCHANGED work
      BY <3>1
    <3>2. CASE Write({}, EnsuredTransaction)
      <4>1. EnsuredTransaction \in BOOLEAN
        BY SmallTypes DEF EnsuredTransaction
      <4> QED
        BY <3>2, <4>1, WorkAfter
    <3> QED
      BY <2>2, <3>1, <3>2
  <2>4. InManagedBlock' => InManagedBlock /\ in_transaction
    BY <2>1 DEF Admitted, BlockLostTransaction, Control, AutocommitInv, TypeOK, EngineTypeOK
  <2> QED
    BY <1>0, <2>1, <2>3, <2>4 DEF BlockInv
<1>5. ASSUME UNCHANGED block, FailureEffect, UNCHANGED flags PROVE BlockInv'
  BY <1>2, <1>5 DEF FailureEffect, EndTransaction
<1>6. CASE StatementRaises
  BY <1>5, <1>6, FailureHasEffect DEF StatementRaises
<1>7. CASE Connect \/ ConnectFails
  BY <1>2, <1>7 DEF Connect, ConnectFails, ConnectResets
<1>8. CASE Close \/ HealthCheck \/ CloseIfUnusableOrObsolete \/ CloseOnExit
  <2>1. CloseEffect \/ UNCHANGED engine
    BY <1>8, CloseHasEffect DEF Close, HealthCheck, CloseIfUnusableOrObsolete, BoundaryInMemory,
                    BoundaryFile, KeepConnection, CloseOnExit
  <2>2. UNCHANGED <<in_atomic_block, commit_on_exit, block>>
    BY <1>8 DEF Close, HealthCheck, CloseIfUnusableOrObsolete, CloseOnExit
  <2> QED
    BY <1>2, <2>1, <2>2 DEF CloseEffect, engine
<1>9. CASE EnterManagedBlock
  <2>1. CASE block' = {}
    BY <2>1 DEF BlockInv
  <2>2. CASE UNCHANGED <<engine, in_atomic_block, block>> /\ ~in_atomic_block
    BY <1>2, <2>2
  <2> QED
    BY <1>9, <2>1, <2>2 DEF EnterManagedBlock
<1>10. ASSUME NEW savepoint \in BOOLEAN, EnterManualBlock(savepoint) PROVE BlockInv'
  <2>1. block' = Open /\ commit_on_exit' = FALSE
    BY <1>10 DEF EnterManualBlock
  <2>2. \A w \in Open : work'[w] # "new"
    BY StepEvolves DEF Evolves, Open
  <2> QED
    BY <2>1, <2>2 DEF BlockInv
<1>11. ASSUME NEW savepoint \in BOOLEAN, EnterInnerBlock(savepoint) PROVE BlockInv'
  <2>1. UNCHANGED block /\ UNCHANGED flags
    BY <1>11 DEF EnterInnerBlock
  <2>2. CASE StatementFails(FALSE)
    BY <1>5, <2>1, <2>2, FailureHasEffect
  <2>3. CASE Admitted /\ UNCHANGED work
    BY <1>2, <2>1, <2>3 DEF Admitted, BlockLostTransaction, Control, AutocommitInv, TypeOK, EngineTypeOK
  <2>4. CASE UNCHANGED engine
    BY <1>2, <2>1, <2>4 DEF engine
  <2> QED
    BY <1>11, <2>2, <2>3, <2>4 DEF EnterInnerBlock, Savepoint
<1>12. CASE ReleaseSavepoint \/ UndoToSavepoint \/ DropSavepoint
  <2>1. UNCHANGED block /\ UNCHANGED flags
    BY <1>12 DEF ReleaseSavepoint, UndoToSavepoint, DropSavepoint
  <2>2. \/ \E forced \in BOOLEAN : StatementFails(forced)
        \/ UNCHANGED engine
        \/ Admitted /\ \E s : Release(s) \/ RollbackTo(s)
    BY <1>12 DEF ReleaseSavepoint, UndoToSavepoint, DropSavepoint
  <2>3. CASE \E forced \in BOOLEAN : StatementFails(forced)
    BY <1>5, <2>1, <2>3, FailureHasEffect
  <2>4. CASE UNCHANGED engine
    BY <1>2, <2>1, <2>4 DEF engine
  <2>5. CASE Admitted /\ \E s : Release(s) \/ RollbackTo(s)
    BY <1>2, <2>1, <2>5 DEF Release, RollbackTo, Admitted, BlockLostTransaction, Control,
                            AutocommitInv, TypeOK, EngineTypeOK
  <2> QED
    BY <2>2, <2>3, <2>4, <2>5
<1>13. CASE CommitOnExit \/ RollbackOnExit \/ Commit \/ Rollback
  <2>1. ~in_atomic_block
    BY <1>13 DEF CommitOnExit, RollbackOnExit, Commit, Rollback, Control, AutocommitInv
  <2>2. UNCHANGED block /\ UNCHANGED flags
    BY <1>13 DEF CommitOnExit, RollbackOnExit, Commit, Rollback
  <2> QED
    BY <1>2, <2>1, <2>2
<1>14. ASSUME NEW value \in BOOLEAN, SetRollback(value) \/ SetAutocommit(value) PROVE BlockInv'
  <2>1. CASE SetRollback(value)
    BY <1>2, <2>1 DEF SetRollback, engine
  <2>2. CASE SetAutocommit(value)
    BY <1>2, <2>2 DEF SetAutocommit
  <2> QED
    BY <1>14, <2>1, <2>2
<1>15. ASSUME NEW raised \in BOOLEAN, LeaveBlock(raised) PROVE BlockInv'
  BY <1>2, <1>15 DEF LeaveBlock, engine
<1>16. CASE FinishExit
  <2>1. in_atomic_block' \in {in_atomic_block, FALSE} /\ UNCHANGED <<engine, commit_on_exit, block>>
    BY <1>16 DEF FinishExit
  <2> QED
    BY <1>2, <2>1 DEF engine
<1>17. CASE OnCommit \/ UNCHANGED vars
  BY <1>2, <1>17 DEF OnCommit, vars, wrapper, engine
<1>18. ~RawBegin /\ ~RawEnd
  BY DEF RawBegin, RawEnd
<1> QED
  BY <1>3, <1>4, <1>6, <1>7, <1>8, <1>9, <1>10, <1>11, <1>12, <1>13, <1>14, <1>15, <1>16,
     <1>17, <1>18 DEF Next

(* The hooks waiting to run.  Outside managed blocks they are settled and stay *)
(* so; in one they share the fate of its transaction.                          *)

Idle == ~InManagedBlock /\ ~Leaving

LEMMA SettledStay ==
  ASSUME TypeOK, HooksInv, Idle, Evolves,
         run_on_commit' \subseteq run_on_commit,
         closed_in_transaction' => closed_in_transaction
  PROVE  HooksInv'
<1> SUFFICES ASSUME NEW h \in run_on_commit', h.managed
             PROVE  Settled(h)' /\ (closed_in_transaction' => h.deps = {})
  BY DEF HooksInv, Settled, Live
<1>1. h \in run_on_commit /\ h.deps \subseteq Work
  BY DEF TypeOK, Hook
<1>2. Settled(h) /\ (closed_in_transaction => h.deps = {})
  BY <1>1 DEF HooksInv, Idle, Leaving
<1> QED
  BY <1>1, <1>2 DEF Settled, Evolves

LEMMA LiveStay ==
  ASSUME TypeOK, HooksInv, Evolves,
         InManagedBlock, InManagedBlock', ~Leaving,
         run_on_commit' \subseteq run_on_commit,
         closed_in_transaction' => closed_in_transaction,
         in_transaction' => in_transaction,
         \A w \in Work : work[w] # "new" => work'[w] = work[w],
         \A w \in Work : work[w] = "open" => under[w] \intersect ActiveSids' \subseteq ActiveSids
  PROVE  HooksInv'
<1> SUFFICES ASSUME NEW h \in run_on_commit', h.managed
             PROVE  /\ Live(h)' \/ Abandoned'
                    /\ closed_in_transaction' => h.deps = {}
                    /\ \A w \in h.deps : work'[w] # "new"
                    /\ \A w \in h.deps :
                         work'[w] = "open" => under'[w] \intersect ActiveSids' \subseteq h.sids
  BY DEF HooksInv
<1>1. h \in run_on_commit /\ h.deps \subseteq Work
  BY DEF TypeOK, Hook
<1>2. /\ Live(h) \/ ~in_transaction
      /\ closed_in_transaction => h.deps = {}
      /\ \A w \in h.deps : work[w] # "new"
      /\ \A w \in h.deps : work[w] = "open" => under[w] \intersect ActiveSids \subseteq h.sids
  BY <1>1 DEF HooksInv, Leaving, Abandoned
<1>3. \A w \in h.deps : work'[w] = work[w] /\ under'[w] = under[w]
  BY <1>1, <1>2 DEF Evolves
<1>4. Live(h)' \/ Abandoned'
  BY <1>2, <1>3 DEF Live, Abandoned
<1>5. \A w \in h.deps : work'[w] = "open" => under'[w] \intersect ActiveSids' \subseteq h.sids
  BY <1>1, <1>2, <1>3
<1> QED
  BY <1>2, <1>3, <1>4, <1>5

LEMMA NoHooks == run_on_commit' = {} => HooksInv'
  BY DEF HooksInv

\* The steps that neither enter nor leave a managed block, and end its transaction only
\* together with its hooks.
Steady ==
  /\ UNCHANGED <<in_atomic_block, commit_on_exit>>
  /\ ~Leaving
  /\ run_on_commit' \subseteq run_on_commit
  /\ closed_in_transaction' => closed_in_transaction
  /\ InManagedBlock =>
       /\ in_transaction' => in_transaction
       /\ \A w \in Work : work[w] # "new" => work'[w] = work[w]
  /\ ActiveSids' \subseteq ActiveSids \union {NoSavepoint, savepoint_state + 1}

LEMMA SteadyKeeps ==
  ASSUME Safe, HooksInv, Evolves, Steady
  PROVE  HooksInv'
<1> USE DEF Safe
<1>1. CASE Idle
  BY <1>1, SettledStay DEF Steady
<1>2. CASE ~Idle
  <2>1. InManagedBlock /\ InManagedBlock'
    BY <1>2 DEF Idle, Steady, InManagedBlock
  <2>2. \A w \in Work : \A s \in under[w] : s \in Nat /\ s <= savepoint_state
    BY DEF TypeOK, EngineTypeOK, Control, EngineInv
  <2>3. \A s \in Nat : s <= savepoint_state => s # savepoint_state + 1
    BY DEF TypeOK
  <2>4. \A w \in Work : NoSavepoint \notin under[w] /\ savepoint_state + 1 \notin under[w]
    BY <2>2, <2>3, NoSavepointAssumption
  <2>5. \A w \in Work : under[w] \intersect ActiveSids' \subseteq ActiveSids
    BY <2>4 DEF Steady
  <2> QED
    BY <2>1, <2>5, LiveStay DEF Steady
<1> QED
  BY <1>1, <1>2

\* The savepoints of the blocks still to be left, as blocks are entered and left.
LEMMA SidsPushed ==
  ASSUME TypeOK, NEW s \in Sid, savepoint_ids' = Append(savepoint_ids, s), UNCHANGED exiting_sid
  PROVE  ActiveSids' \subseteq ActiveSids \union {s}
<1>1. \A i \in DOMAIN savepoint_ids' : i \in DOMAIN savepoint_ids \/ savepoint_ids'[i] = s
  BY DEF TypeOK
<1>2. \A i \in DOMAIN savepoint_ids : savepoint_ids'[i] = savepoint_ids[i]
  BY DEF TypeOK
<1> QED
  BY <1>1, <1>2 DEF ActiveSids

LEMMA SidsPopped ==
  ASSUME TypeOK, savepoint_ids # <<>>,
         savepoint_ids' = SubSeq(savepoint_ids, 1, Len(savepoint_ids) - 1),
         exiting_sid' = savepoint_ids[Len(savepoint_ids)]
  PROVE  ActiveSids' \subseteq ActiveSids
<1>1. Len(savepoint_ids) \in DOMAIN savepoint_ids
  BY DEF TypeOK
<1>2. \A i \in DOMAIN savepoint_ids' : i \in DOMAIN savepoint_ids /\ savepoint_ids'[i] = savepoint_ids[i]
  BY DEF TypeOK
<1> QED
  BY <1>1, <1>2 DEF ActiveSids

LEMMA SidsKept ==
  ASSUME UNCHANGED savepoint_ids, exiting_sid' \in {exiting_sid, NoSavepoint}
  PROVE  ActiveSids' \subseteq ActiveSids \union {NoSavepoint}
  BY DEF ActiveSids

LEMMA AdmittedInTransaction ==
  ASSUME Safe, Admitted, InManagedBlock
  PROVE  in_transaction
  BY DEF Safe, Admitted, BlockLostTransaction, InManagedBlock, Control, AutocommitInv, TypeOK, EngineTypeOK

LEMMA FailureHooks ==
  ASSUME Safe, HooksInv, Evolves, FailureEffect, ~Leaving,
         UNCHANGED <<in_atomic_block, commit_on_exit, closed_in_transaction>>,
         ActiveSids' \subseteq ActiveSids \union {NoSavepoint, savepoint_state + 1}
  PROVE  HooksInv'
<1>1. CASE work' = work /\ under' = under
  BY <1>1, SteadyKeeps DEF FailureEffect, Steady
<1>2. CASE run_on_commit' = {}
  BY <1>2, NoHooks
<1>3. CASE EndTransaction("lost") /\ ~in_atomic_block
  BY <1>3, SteadyKeeps DEF FailureEffect, Steady, InManagedBlock
<1> QED
  BY <1>1, <1>2, <1>3 DEF FailureEffect

LEMMA StatementHooks ==
  ASSUME Safe, HooksInv, Evolves,
         \/ \E w \in Work, returning \in BOOLEAN : Execute(w, returning)
         \/ Select \/ Fetch \/ StatementRaises
  PROVE  HooksInv'
<1> USE DEF flags, nesting, leaving, hooks, Checked, Ready
<1>0. EnsuredTransaction \in BOOLEAN
  BY SmallTypes DEF EnsuredTransaction, Safe
<1>1. ASSUME exiting = "no", Admitted, UNCHANGED <<flags, nesting, leaving, run_on_commit>>,
             \A w \in Work : work[w] # "new" => work'[w] = work[w]
      PROVE  HooksInv'
  BY <1>1, SidsKept, AdmittedInTransaction, SteadyKeeps DEF Steady, Leaving
<1>2. ASSUME NEW w \in Work, NEW returning \in BOOLEAN, Execute(w, returning) PROVE HooksInv'
  <2>1. ResultOf(w, returning).pending = {}
    BY DEF ResultOf, NoResult
  <2>2. {w} \ ResultOf(w, returning).pending = {w}
    BY <2>1
  <2>3. Write({w}, EnsuredTransaction) /\ work[w] = "new"
    BY <1>2, <2>2 DEF Execute
  <2>4. \A v \in Work : work[v] # "new" => work'[v] = work[v]
    BY <1>0, <2>3, WorkAfter DEF Safe
  <2> QED
    BY <1>1, <1>2, <2>4 DEF Execute
<1>3. CASE Select
  BY <1>1, <1>3 DEF Select, Statement
<1>4. CASE Fetch
  <2>1. Write({}, EnsuredTransaction)
    BY <1>4 DEF Fetch, Safe, Control, NothingPending
  <2>2. \A v \in Work : work'[v] = work[v]
    BY <1>0, <2>1, WorkAfter DEF Safe
  <2> QED
    BY <1>1, <1>4, <2>2 DEF Fetch
<1>5. CASE StatementRaises
  <2>1. FailureEffect
    BY <1>5, FailureHasEffect DEF StatementRaises, Safe
  <2> QED
    BY <1>5, <2>1, SidsKept, FailureHooks DEF StatementRaises, Leaving
<1> QED
  BY <1>2, <1>3, <1>4, <1>5

LEMMA ConnectionHooks ==
  ASSUME Safe, HooksInv, Evolves,
         Connect \/ ConnectFails \/ Close \/ HealthCheck \/ CloseIfUnusableOrObsolete
  PROVE  HooksInv'
<1> USE DEF nesting, leaving, hooks
<1>1. CASE Connect
  BY <1>1, NoHooks DEF Connect
<1>2. CASE ConnectFails
  <2>1. Idle
    BY <1>2 DEF ConnectFails, ConnectResets, Idle, Leaving, InManagedBlock, Safe, Control, ConnectionInv
  <2> QED
    BY <1>2, <2>1, SettledStay DEF ConnectFails, ConnectResets, Safe, TypeOK
<1>3. CASE Close \/ HealthCheck \/ CloseIfUnusableOrObsolete
  <2>1. exiting = "no" /\ UNCHANGED <<in_atomic_block, commit_on_exit, savepoint_ids, exiting_sid>>
    BY <1>3 DEF Close, HealthCheck, CloseIfUnusableOrObsolete, Ready
  <2>2. \/ run_on_commit' = {}
        \/ UNCHANGED <<engine, connection, closed_in_transaction, needs_rollback, run_on_commit>>
    BY <1>3, CloseHasEffect DEF Close, HealthCheck, CloseIfUnusableOrObsolete, BoundaryInMemory,
       BoundaryFile, KeepConnection, CloseEffect, Safe
  <2> QED
    BY <2>1, <2>2, NoHooks, SidsKept, SteadyKeeps DEF Steady, Leaving, engine
<1> QED
  BY <1>1, <1>2, <1>3

LEMMA EnterHooks ==
  ASSUME Safe, HooksInv, Evolves,
         \/ EnterManagedBlock
         \/ \E savepoint \in BOOLEAN : EnterManualBlock(savepoint) \/ EnterInnerBlock(savepoint)
  PROVE  HooksInv'
<1> USE DEF flags, leaving, hooks
<1>1. CASE EnterManagedBlock \/ \E savepoint \in BOOLEAN : EnterManualBlock(savepoint)
  <2>1. Idle
    BY <1>1 DEF EnterManagedBlock, EnterManualBlock, Checked, Ready, Idle, Leaving, InManagedBlock
  <2>2. run_on_commit' \subseteq run_on_commit /\ UNCHANGED closed_in_transaction
    BY <1>1 DEF EnterManagedBlock, EnterManualBlock
  <2> QED
    BY <2>1, <2>2, SettledStay DEF Safe
<1>2. ASSUME NEW savepoint \in BOOLEAN, EnterInnerBlock(savepoint) PROVE HooksInv'
  <2>1. exiting = "no" /\ UNCHANGED <<flags, leaving>>
    BY <1>2 DEF EnterInnerBlock
  <2>2. ActiveSids' \subseteq ActiveSids \union {NoSavepoint, savepoint_state + 1}
    <3>1. NoSavepoint \in Sid /\ savepoint_state + 1 \in Sid
      BY DEF Sid, Safe, TypeOK
    <3>2. \/ UNCHANGED savepoint_ids
          \/ \E s \in {NoSavepoint, savepoint_state + 1} : savepoint_ids' = Append(savepoint_ids, s)
      BY <1>2 DEF EnterInnerBlock
    <3> QED
      BY <2>1, <3>1, <3>2, SidsPushed, SidsKept DEF Safe
  <2>3. CASE StatementFails(FALSE)
    <3>1. FailureEffect
      BY <2>3, FailureHasEffect DEF Safe
    <3> QED
      BY <2>1, <2>2, <3>1, FailureHooks DEF Leaving
  <2>4. CASE UNCHANGED <<work, run_on_commit>> /\ (Admitted \/ UNCHANGED engine)
    BY <2>1, <2>2, <2>4, AdmittedInTransaction, SteadyKeeps DEF Steady, Leaving, engine
  <2> QED
    BY <1>2, <2>3, <2>4 DEF EnterInnerBlock, Savepoint, engine
<1> QED
  BY <1>1, <1>2

LEMMA LeaveHooks ==
  ASSUME Safe, HooksInv, Evolves, NEW raised \in BOOLEAN, LeaveBlock(raised)
  PROVE  HooksInv'
<1> USE DEF Safe, hooks, InManagedBlock
<1>0. exiting = "no" /\ UNCHANGED <<engine, commit_on_exit, closed_in_transaction, run_on_commit>>
  BY DEF LeaveBlock
<1>1. CASE savepoint_ids # <<>>
  <2>1. UNCHANGED in_atomic_block /\ ActiveSids' \subseteq ActiveSids
    BY <1>1, SidsPopped DEF LeaveBlock
  <2> QED
    BY <1>0, <2>1, SteadyKeeps DEF Steady, Leaving, engine
<1>2. CASE ~InManagedBlock
  BY <1>0, <1>2, SettledStay DEF Idle, Leaving
<1>3. CASE savepoint_ids = <<>> /\ InManagedBlock
  <2>1. /\ savepoint_ids' = <<>> /\ exiting_sid' = NoSavepoint
        /\ closed_in_transaction \/ exiting' \in {"commit", "rollback"}
        /\ ~closed_in_transaction /\ needs_rollback => exiting' = "rollback"
    BY <1>3 DEF LeaveBlock
  <2>2. \A w \in Work : under[w] \intersect ActiveSids' = {}
    BY <2>1, NoSavepointAssumption DEF ActiveSids, TypeOK, EngineTypeOK
  <2>3. ~in_transaction => needs_rollback
    BY <1>0, <1>3 DEF Control, AbandonedIsMarked, Abandoned
  <2> SUFFICES ASSUME NEW h \in run_on_commit, h.managed
               PROVE  /\ Settled(h)' \/ exiting' \in {"commit", "rollback", "close"}
                      /\ Live(h)' \/ exiting' \in {"rollback", "close"}
                      /\ closed_in_transaction' => h.deps = {}
                      /\ \A w \in h.deps : work'[w] # "new"
                      /\ \A w \in h.deps :
                           work'[w] = "open" => under'[w] \intersect ActiveSids' \subseteq h.sids
    BY <1>0 DEF HooksInv
  <2>4. /\ Live(h) \/ ~in_transaction
        /\ closed_in_transaction => h.deps = {}
        /\ \A w \in h.deps : work[w] # "new"
    BY <1>0 DEF HooksInv, Abandoned
  <2>5. h.deps \subseteq Work
    BY DEF TypeOK, Hook
  <2>6. work' = work /\ under' = under
    BY <1>0 DEF engine
  <2>7. Live(h)' \/ exiting' \in {"rollback", "close"}
    <3>1. Live(h) \/ h.deps = {} => Live(h)'
      BY <2>6 DEF Live
    <3> QED
      BY <2>1, <2>3, <2>4, <3>1
  <2>8. Settled(h)' \/ exiting' \in {"commit", "rollback", "close"}
    BY <2>1, <2>4 DEF Settled
  <2> QED
    BY <1>0, <2>2, <2>4, <2>5, <2>6, <2>7, <2>8
<1> QED
  BY <1>1, <1>2, <1>3

LEMMA UndoHooks ==
  ASSUME Safe, HooksInv, Evolves, UndoToSavepoint
  PROVE  HooksInv'
<1> USE DEF Safe, flags, nesting, hooks, UndoToSavepoint
<1>0. /\ exiting = "undo" /\ ~Leaving
      /\ UNCHANGED <<in_atomic_block, commit_on_exit, closed_in_transaction>>
      /\ UNCHANGED <<savepoint_ids, exiting_sid>>
  BY DEF Leaving
<1>1. ActiveSids' = ActiveSids
  BY <1>0 DEF ActiveSids
<1>2. CASE UNCHANGED <<engine, run_on_commit>>
  BY <1>0, <1>1, <1>2, SteadyKeeps DEF Steady, engine
<1>3. CASE StatementFails(TRUE)
  <2>1. FailureEffect
    BY <1>3, FailureHasEffect
  <2> QED
    BY <1>0, <1>1, <2>1, FailureHooks
<1>4. CASE /\ in_transaction
           /\ RollbackTo(exiting_sid)
           /\ run_on_commit' = {h \in run_on_commit : exiting_sid \notin h.sids}
  <2>1. CASE ~InManagedBlock
    BY <1>0, <1>4, <2>1, SettledStay DEF Idle
  <2>2. CASE InManagedBlock
    <3>1. InManagedBlock' /\ in_transaction
      BY <1>0, <1>4, <2>2 DEF InManagedBlock
    <3> SUFFICES ASSUME NEW h \in run_on_commit', h.managed
                 PROVE  /\ Live(h)'
                        /\ closed_in_transaction' => h.deps = {}
                        /\ \A w \in h.deps : work'[w] # "new"
                        /\ \A w \in h.deps :
                             work'[w] = "open" => under'[w] \intersect ActiveSids' \subseteq h.sids
      BY <3>1 DEF HooksInv
    <3>2. h \in run_on_commit /\ exiting_sid \notin h.sids /\ h.deps \subseteq Work
      BY <1>4 DEF TypeOK, Hook
    <3>3. /\ Live(h)
          /\ closed_in_transaction => h.deps = {}
          /\ \A w \in h.deps : work[w] # "new"
          /\ \A w \in h.deps : work[w] = "open" => under[w] \intersect ActiveSids \subseteq h.sids
      BY <1>0, <3>1, <3>2 DEF HooksInv, Abandoned
    <3>4. \A w \in h.deps : work[w] = "open" => exiting_sid \notin under[w]
      BY <3>2, <3>3 DEF ActiveSids
    <3>5. \A w \in h.deps : work'[w] = work[w]
      BY <1>4, <3>2, <3>4, WorkAfter
    <3>6. under' = under
      BY <1>4 DEF RollbackTo
    <3>7. Live(h)'
      BY <3>3, <3>5 DEF Live
    <3> QED
      BY <1>0, <1>1, <3>3, <3>5, <3>6, <3>7
  <2> QED
    BY <2>1, <2>2
<1> QED
  BY <1>2, <1>3, <1>4

LEMMA CommitHooks ==
  ASSUME Safe, HooksInv, Evolves, CommitOnExit \/ RollbackOnExit
  PROVE  HooksInv'
<1> USE DEF Safe, flags, nesting, hooks
<1>0. /\ Leaving /\ ~InManagedBlock
      /\ UNCHANGED <<closed_in_transaction, savepoint_ids, exiting_sid>>
  BY DEF CommitOnExit, RollbackOnExit, Leaving, InManagedBlock, Control, AutocommitInv
<1>1. ActiveSids' = ActiveSids
  BY <1>0 DEF ActiveSids
<1>2. CASE run_on_commit' = {}
  BY <1>2, NoHooks
<1>3. CASE exiting = "commit" /\ EndTransaction("committed") /\ UNCHANGED run_on_commit
  <2> SUFFICES ASSUME NEW h \in run_on_commit, h.managed
               PROVE  Settled(h)' /\ (closed_in_transaction' => h.deps = {})
    BY <1>3 DEF HooksInv, Settled, Live
  <2>1. h.deps \subseteq Work
    BY DEF TypeOK, Hook
  <2>2. Live(h) /\ (closed_in_transaction => h.deps = {})
    BY <1>0, <1>3 DEF HooksInv, Abandoned
  <2> QED
    BY <1>0, <1>3, <2>1, <2>2, WorkAfter DEF Settled, Live
<1>4. CASE DriverFails /\ exiting' \in {"rollback", "close"} /\ UNCHANGED run_on_commit
  <2> SUFFICES ASSUME NEW h \in run_on_commit, h.managed
               PROVE  /\ closed_in_transaction' => h.deps = {}
                      /\ \A w \in h.deps : work'[w] # "new"
                      /\ \A w \in h.deps :
                           work'[w] = "open" => under'[w] \intersect ActiveSids' \subseteq h.sids
    BY <1>4 DEF HooksInv
  <2>1. h.deps \subseteq Work
    BY DEF TypeOK, Hook
  <2>2. /\ closed_in_transaction => h.deps = {}
        /\ \A w \in h.deps : work[w] # "new"
        /\ \A w \in h.deps : work[w] = "open" => under[w] \intersect ActiveSids \subseteq h.sids
    BY DEF HooksInv
  <2>3. \A w \in h.deps : work'[w] # "new" /\ under'[w] = under[w]
    BY <2>1, <2>2 DEF Evolves
  <2>4. \A w \in h.deps : work'[w] = "open" => work[w] = "open"
    BY <1>4, <2>1, WorkAfter DEF DriverFails, engine
  <2> QED
    BY <1>0, <1>1, <2>2, <2>3, <2>4
<1> QED
  BY <1>2, <1>3, <1>4 DEF CommitOnExit, RollbackOnExit, DriverCommits

LEMMA ExitHooks ==
  ASSUME Safe, HooksInv, Evolves,
         \/ \E raised \in BOOLEAN : LeaveBlock(raised)
         \/ ReleaseSavepoint \/ UndoToSavepoint \/ DropSavepoint
         \/ CommitOnExit \/ RollbackOnExit \/ CloseOnExit \/ FinishExit
  PROVE  HooksInv'
<1> USE DEF flags, nesting, hooks
<1>1. CASE ReleaseSavepoint \/ DropSavepoint
  <2>1. /\ ~Leaving
        /\ UNCHANGED <<in_atomic_block, commit_on_exit, closed_in_transaction>>
        /\ UNCHANGED <<savepoint_ids, exiting_sid>>
    BY <1>1 DEF ReleaseSavepoint, DropSavepoint, Leaving
  <2>2. \/ \E forced \in BOOLEAN : StatementFails(forced)
        \/ Release(exiting_sid) /\ UNCHANGED run_on_commit
    BY <1>1 DEF ReleaseSavepoint, DropSavepoint
  <2>3. CASE \E forced \in BOOLEAN : StatementFails(forced)
    <3>1. FailureEffect
      BY <2>3, FailureHasEffect DEF Safe
    <3> QED
      BY <2>1, <3>1, SidsKept, FailureHooks
  <2>4. CASE Release(exiting_sid) /\ UNCHANGED run_on_commit
    BY <2>1, <2>4, SidsKept, SteadyKeeps DEF Release, Steady
  <2> QED
    BY <2>2, <2>3, <2>4
<1>2. CASE CloseOnExit
  BY <1>2, CloseHasEffect, NoHooks DEF CloseOnExit, CloseEffect, Safe
<1>3. CASE FinishExit
  <2>1. /\ ~Leaving
        /\ run_on_commit' \subseteq run_on_commit
        /\ UNCHANGED <<engine, commit_on_exit, closed_in_transaction, savepoint_ids>>
        /\ exiting_sid' = NoSavepoint
    BY <1>3 DEF FinishExit, EnableAutocommit, Leaving
  <2>2. InManagedBlock => UNCHANGED in_atomic_block
    BY <1>3 DEF FinishExit, InManagedBlock
  <2>3. CASE InManagedBlock
    BY <2>1, <2>2, <2>3, SidsKept, SteadyKeeps DEF Steady, engine
  <2>4. CASE ~InManagedBlock
    BY <2>1, <2>4, SettledStay DEF Idle, Safe
  <2> QED
    BY <2>3, <2>4
<1> QED
  BY <1>1, <1>2, <1>3, LeaveHooks, UndoHooks, CommitHooks

LEMMA OnCommitHooks ==
  ASSUME Safe, BlockInv, HooksInv, OnCommit
  PROVE  HooksInv'
<1> USE DEF Safe, flags, nesting, leaving
<1> DEFINE sids == {savepoint_ids[i] : i \in DOMAIN savepoint_ids}
           deps == IF closed_in_transaction THEN {}
                   ELSE {w \in block \union Open : work[w] # "undone"}
           new  == [sids |-> sids, managed |-> commit_on_exit, clean |-> ~needs_rollback, deps |-> deps]
<1>1. /\ run_on_commit' = run_on_commit \union {new}
      /\ new.sids = sids /\ new.managed = commit_on_exit /\ new.deps = deps
  BY DEF OnCommit
<1>2. /\ UNCHANGED <<engine, in_atomic_block, commit_on_exit, closed_in_transaction>>
      /\ UNCHANGED <<savepoint_ids, exiting, exiting_sid>>
      /\ exiting = "no" /\ in_atomic_block
  BY DEF OnCommit
<1>3. work' = work /\ under' = under /\ ActiveSids' = ActiveSids
  BY <1>2 DEF engine, ActiveSids
<1>4. \A h : Settled(h)' = Settled(h) /\ Live(h)' = Live(h)
  BY <1>3 DEF Settled, Live
<1>5. InManagedBlock' = InManagedBlock /\ Abandoned' = Abandoned
  BY <1>2 DEF InManagedBlock, Abandoned, engine
<1>6. ASSUME commit_on_exit
      PROVE  /\ InManagedBlock
             /\ \A w \in deps : work[w] # "new"
             /\ (\A w \in deps : work[w] \in {"open", "committed"}) \/ Abandoned
             /\ closed_in_transaction => deps = {}
             /\ \A w \in deps : under[w] \intersect ActiveSids \subseteq sids
  <2>1. InManagedBlock
    BY <1>2, <1>6 DEF InManagedBlock
  <2>2. \A w \in deps : w \in Work /\ work[w] # "new"
    BY DEF BlockInv, Open, TypeOK
  <2>3. (\A w \in deps : work[w] \in {"open", "committed"}) \/ Abandoned
    BY <2>1 DEF BlockInv, Abandoned, Open
  <2>4. ActiveSids = sids \union {NoSavepoint}
    BY <1>2 DEF ActiveSids, Control, ExitInv
  <2>5. \A w \in deps : under[w] \intersect ActiveSids \subseteq sids
    BY <2>2, <2>4, NoSavepointAssumption DEF TypeOK, EngineTypeOK
  <2> QED
    BY <2>1, <2>2, <2>3, <2>5
<1> HIDE DEF sids, deps, new
<1>7. commit_on_exit => InManagedBlock /\ (Live(new) \/ Abandoned)
  BY <1>1, <1>6 DEF Live
<1> SUFFICES ASSUME NEW h \in run_on_commit', h.managed
             PROVE  /\ Settled(h) \/ InManagedBlock \/ exiting \in {"commit", "rollback", "close"}
                    /\ Live(h) \/ Abandoned \/ exiting \in {"rollback", "close"}
                    /\ closed_in_transaction => h.deps = {}
                    /\ \A w \in h.deps : work[w] # "new"
                    /\ \A w \in h.deps : work[w] = "open" => under[w] \intersect ActiveSids \subseteq h.sids
  BY <1>2, <1>3, <1>4, <1>5 DEF HooksInv
<1>8. CASE h \in run_on_commit
  BY <1>8 DEF HooksInv
<1>9. CASE h = new
  BY <1>1, <1>6, <1>7, <1>9
<1> QED
  BY <1>1, <1>8, <1>9

LEMMA OtherHooks ==
  ASSUME Safe, BlockInv, HooksInv, Evolves,
         \/ OnCommit \/ Commit \/ Rollback \/ UNCHANGED vars
         \/ \E value \in BOOLEAN : SetRollback(value) \/ SetAutocommit(value)
  PROVE  HooksInv'
<1> USE DEF flags, nesting, leaving, hooks
<1>1. CASE Commit \/ Rollback \/ \E value \in BOOLEAN : SetAutocommit(value)
  <2>1. Idle
    BY <1>1 DEF Commit, Rollback, SetAutocommit, Checked, Ready, Idle, Leaving, InManagedBlock
  <2>2. run_on_commit' \subseteq run_on_commit /\ UNCHANGED closed_in_transaction
    BY <1>1 DEF Commit, Rollback, SetAutocommit, EnableAutocommit
  <2> QED
    BY <2>1, <2>2, SettledStay DEF Safe
<1>2. CASE \E value \in BOOLEAN : SetRollback(value)
  <2>1. exiting = "no" /\ UNCHANGED <<engine, flags, nesting, leaving, run_on_commit>>
    BY <1>2 DEF SetRollback
  <2> QED
    BY <2>1, SidsKept, SteadyKeeps DEF Steady, Leaving, engine
<1>3. CASE UNCHANGED vars
  BY <1>3 DEF vars, wrapper, engine, HooksInv, Settled, Live, InManagedBlock, Abandoned, ActiveSids
<1> QED
  BY <1>1, <1>2, <1>3, OnCommitHooks

LEMMA HooksStep ==
  ASSUME Safe, BlockInv, HooksInv, [Next]_vars
  PROVE  HooksInv'
<1>1. Evolves /\ ~RawBegin /\ ~RawEnd
  BY StepEvolves DEF Safe, RawBegin, RawEnd
<1> QED
  BY <1>1, StatementHooks, ConnectionHooks, EnterHooks, ExitHooks, OtherHooks DEF Next

(* The hooks that run are settled when they do, and what they follow stays     *)
(* committed.                                                                  *)

LEMMA HooksRunIdle ==
  ASSUME Safe, [Next]_vars
  PROVE  \/ ran' = ran
         \/ Idle /\ UNCHANGED work /\ ran' = ran \union run_on_commit
<1> USE DEF hooks, engine
<1>1. CASE Connect
  BY <1>1 DEF Connect, ConnectResets, Idle, Leaving, InManagedBlock, Safe, Control, ConnectionInv
<1>2. CASE FinishExit
  BY <1>2 DEF FinishExit, EnableAutocommit, Idle, Leaving, InManagedBlock
<1>3. CASE \E value \in BOOLEAN : SetAutocommit(value)
  BY <1>3 DEF SetAutocommit, EnableAutocommit, Checked, Ready, Idle, Leaving, InManagedBlock
<1>4. CASE \/ \E w \in Work, returning \in BOOLEAN : Execute(w, returning)
           \/ Select \/ Fetch \/ StatementRaises
  BY <1>4 DEF Execute, Select, Fetch, StatementRaises
<1>5. CASE ConnectFails \/ Close \/ HealthCheck \/ CloseIfUnusableOrObsolete
  BY <1>5 DEF ConnectFails, Close, HealthCheck, CloseIfUnusableOrObsolete
<1>6. CASE \/ EnterManagedBlock
           \/ \E savepoint \in BOOLEAN : EnterManualBlock(savepoint) \/ EnterInnerBlock(savepoint)
  BY <1>6 DEF EnterManagedBlock, EnterManualBlock, EnterInnerBlock
<1>7. CASE \/ \E raised \in BOOLEAN : LeaveBlock(raised)
           \/ ReleaseSavepoint \/ UndoToSavepoint \/ DropSavepoint
           \/ CommitOnExit \/ RollbackOnExit \/ CloseOnExit
  BY <1>7 DEF LeaveBlock, ReleaseSavepoint, UndoToSavepoint, DropSavepoint, CommitOnExit,
              RollbackOnExit, CloseOnExit
<1>8. CASE \/ OnCommit \/ Commit \/ Rollback \/ UNCHANGED vars
           \/ \E value \in BOOLEAN : SetRollback(value)
  BY <1>8 DEF OnCommit, Commit, Rollback, SetRollback, vars, wrapper
<1>9. ~RawBegin /\ ~RawEnd
  BY DEF Safe, RawBegin, RawEnd
<1> QED
  BY <1>1, <1>2, <1>3, <1>4, <1>5, <1>6, <1>7, <1>8, <1>9 DEF Next

LEMMA FollowStep ==
  ASSUME Safe, HooksInv, HooksFollowCommit, [Next]_vars
  PROVE  HooksFollowCommit'
<1> SUFFICES ASSUME NEW h \in ran', h.managed
             PROVE  \A w \in h.deps : work'[w] = "committed"
  BY DEF HooksFollowCommit
<1>1. h \in ran \/ (h \in run_on_commit /\ Idle)
  BY HooksRunIdle
<1>2. h.deps \subseteq Work
  BY <1>1 DEF Safe, TypeOK, Hook
<1>3. \A w \in h.deps : work[w] = "committed"
  BY <1>1 DEF HooksFollowCommit, HooksInv, Idle, Leaving, Settled
<1> QED
  BY <1>2, <1>3, StepEvolves DEF Evolves

LEMMA InvariantInit == Init => IInv
<1> SUFFICES ASSUME Init PROVE IInv
  OBVIOUS
<1>1. TypeOK
  BY InitType
<1>2. Control
  BY DEF Init, EngineInit, Control, NothingPending, NoResult, EngineInv, Open, ConnectionInv,
         AutocommitInv, InManagedBlock, AbandonedIsMarked, Abandoned, ExitInv
<1>3. BlockInv /\ HooksInv /\ HooksFollowCommit
  BY DEF Init, BlockInv, HooksInv, HooksFollowCommit, InManagedBlock
<1> QED
  BY <1>1, <1>2, <1>3 DEF IInv

\* The invariant behind the theorem below: flags and engine agree, the work of a block is
\* in its transaction, and the hooks waiting to run share the fate of their block.
THEOREM InvariantHolds ==
  ASSUME ~Unchecked
  PROVE  Spec => []IInv
<1>1. IInv /\ [Next]_vars => IInv'
  <2> SUFFICES ASSUME IInv, [Next]_vars PROVE IInv'
    OBVIOUS
  <2>1. Safe
    BY DEF IInv, Safe
  <2>2. TypeOK' /\ Control'
    BY <2>1, TypeStep, ControlStep DEF IInv
  <2>3. BlockInv' /\ HooksInv' /\ HooksFollowCommit'
    BY <2>1, <2>2, BlockStep, HooksStep, FollowStep DEF IInv
  <2> QED
    BY <2>2, <2>3 DEF IInv
<1> QED
  BY <1>1, InvariantInit, PTL DEF Spec

\* A hook registered in a block that commits on exit runs only when all that its block
\* had done by then is committed, whichever statement, savepoint, COMMIT, ROLLBACK or
\* close fails on the way (_django_transaction(), _savepoint_rollback(), close()).
THEOREM HooksAfterCommit ==
  ASSUME ~Unchecked
  PROVE  Spec => []HooksFollowCommit
<1>1. IInv => HooksFollowCommit
  BY DEF IInv
<1> QED
  BY <1>1, InvariantHolds, PTL
--------------------------------------------------------------------------------
(* What follows from IInv: the wrapper implements TransactionContract, and a   *)
(* block that commits on exit never works in two engine transactions.          *)

Managed(H) == {h \in H : h.managed}

\* A call of the engine is a step of the contract, or leaves the work alone.
LEMMA EngineStepAllowed ==
  ASSUME TypeOK, EngineStep, UNCHANGED ran
  PROVE  UNCHANGED <<work, Managed(ran)>> \/ Contract!Write \/ Contract!Undo \/ Contract!End
<1> USE DEF Contract!Set, Contract!Open, Become, Open, Managed
<1>1. CASE UNCHANGED work
  BY <1>1
<1>2. ASSUME NEW s, RollbackTo(s) PROVE Contract!Undo
  <2>1. {w \in Open : s \in under[w]} \in SUBSET Open
    OBVIOUS
  <2> QED
    BY <1>2, <2>1 DEF RollbackTo, Contract!Undo
<1>3. ASSUME NEW status \in Final, EndTransaction(status), status # "undone" PROVE Contract!End
  BY <1>3 DEF EndTransaction, Contract!End, Final
<1>4. ASSUME EndTransaction("undone") PROVE Contract!Undo
  BY <1>4 DEF EndTransaction, Contract!Undo
<1>5. ASSUME NEW w \in Work, NEW tx \in BOOLEAN, work[w] = "new", Write({w}, tx)
      PROVE  Contract!Write
  <2>1. (IF tx THEN "open" ELSE "committed") \in {"open", "committed"}
    OBVIOUS
  <2> QED
    BY <1>5, <2>1 DEF Write, Contract!Write
<1>6. ASSUME NEW tx \in BOOLEAN, Write({}, tx) PROVE UNCHANGED work
  BY <1>6 DEF Write, TypeOK, EngineTypeOK
<1> QED
  BY <1>1, <1>2, <1>3, <1>4, <1>5, <1>6 DEF EngineStep, engine, Statement, Savepoint, Release

LEMMA StepAllowed ==
  ASSUME Safe, HooksInv, [Next]_vars
  PROVE  Contract!Next \/ UNCHANGED <<work, Managed(ran)>>
<1>1. CASE ran' = ran
  BY <1>1, StepIsEngineStep, EngineStepAllowed DEF Safe, Contract!Next
<1>2. CASE Idle /\ UNCHANGED work /\ ran' = ran \union run_on_commit
  <2>1. Managed(ran) \subseteq Managed(ran)'
    BY <1>2 DEF Managed
  <2>2. ASSUME NEW h \in Managed(ran)' \ Managed(ran)
        PROVE  \A w \in h.deps : work[w] = "committed"
    <3>1. h \in run_on_commit /\ h.managed
      BY <1>2, <2>2 DEF Managed
    <3> QED
      BY <1>2, <3>1 DEF HooksInv, Idle, Leaving, Settled
  <2>3. Contract!RunHooks
    BY <1>2, <2>1, <2>2 DEF Contract!RunHooks, Managed
  <2> QED
    BY <2>3 DEF Contract!Next
<1> QED
  BY <1>1, <1>2, HooksRunIdle

\* The wrapper keeps the contract of a transactional connection: work is committed or lost
\* with its transaction, what is committed stays so, and hooks follow their work.
THEOREM KeepsContract ==
  ASSUME ~Unchecked
  PROVE  Spec => ContractSpec
<1>1. Init => Contract!Init
  BY DEF Init, EngineInit, Contract!Init
<1>2. IInv /\ [Next]_vars => [Contract!Next]_<<work, {h \in ran : h.managed}>>
  <2> SUFFICES ASSUME IInv, [Next]_vars
               PROVE  Contract!Next \/ UNCHANGED <<work, {h \in ran : h.managed}>>
    OBVIOUS
  <2> QED
    BY StepAllowed DEF IInv, Safe, Managed
<1> QED
  BY <1>1, <1>2, InvariantHolds, PTL DEF Spec, ContractSpec, Contract!Spec

\* A block that commits on exit works in one engine transaction: once that is gone no work
\* of the block is open in another (_ensure_transaction() refuses to start one).
THEOREM OneTransactionPerBlock ==
  ASSUME ~Unchecked
  PROVE  Spec => []BlockIsOneTransaction
<1>1. IInv => BlockIsOneTransaction
  <2> SUFFICES ASSUME IInv, in_atomic_block, commit_on_exit
               PROVE  ~ \E v, w \in block : work[v] \in {"committed", "lost"} /\ work[w] = "open"
    BY DEF BlockIsOneTransaction
  <2>1. CASE in_transaction
    BY <2>1 DEF IInv, BlockInv, InManagedBlock
  <2>2. CASE ~in_transaction
    BY <2>2 DEF IInv, Control, EngineInv, Open, TypeOK
  <2> QED
    BY <2>1, <2>2
<1> QED
  BY <1>1, InvariantHolds, PTL
--------------------------------------------------------------------------------
(* What the calls do to the engine's transaction.                              *)

LEMMA FailureIdle ==
  ASSUME Safe, NEW forced \in BOOLEAN, StatementFails(forced)
  PROVE  /\ autocommit /\ ~in_transaction => ~in_transaction'
         /\ in_transaction' => savepoints' = savepoints
<1>1. CASE needs_rollback /\ UNCHANGED <<engine, needs_rollback, run_on_commit, errors_occurred>>
  BY <1>1 DEF engine
<1>2. CASE RefuseLostBlock
  BY <1>2 DEF RefuseLostBlock, engine
<1>3. CASE EngineFails(forced)
  BY <1>3 DEF EngineFails, EnsuredTransaction, engine, Statement, EndTransaction
<1> QED
  BY <1>1, <1>2, <1>3 DEF StatementFails

LEMMA StatementIdle ==
  ASSUME Safe, IdleInv,
         \/ \E w \in Work, returning \in BOOLEAN : Execute(w, returning)
         \/ Select \/ Fetch \/ StatementRaises
  PROVE  IdleInv'
<1>1. autocommit /\ connection = "open" => ~in_transaction'
  <2>1. ASSUME NEW w \in Work, NEW returning \in BOOLEAN, Execute(w, returning)
        PROVE  in_transaction' = EnsuredTransaction
    BY <2>1 DEF Execute, Write
  <2>2. Select \/ Fetch => in_transaction' = EnsuredTransaction
    BY DEF Select, Fetch, Statement, Write
  <2>3. StatementRaises => (autocommit /\ ~in_transaction => ~in_transaction')
    BY FailureIdle DEF StatementRaises
  <2> QED
    BY <2>1, <2>2, <2>3 DEF EnsuredTransaction, IdleInv, AutocommitMeansIdle
<1>2. UNCHANGED <<connection, autocommit, in_atomic_block, exiting>> /\ exiting = "no"
  BY DEF Execute, Select, Fetch, StatementRaises, Checked, Ready, flags, leaving
<1> QED
  BY <1>1, <1>2 DEF IdleInv, AutocommitMeansIdle

LEMMA ConnectionIdle ==
  ASSUME Safe, IdleInv, NestingInv,
         Connect \/ ConnectFails \/ Close \/ HealthCheck \/ CloseIfUnusableOrObsolete
  PROVE  IdleInv'
<1> USE DEF IdleInv, AutocommitMeansIdle
<1>0. Autocommit' = Autocommit /\ Autocommit \in BOOLEAN
  BY SettingsStay, SettingsType DEF Next, Autocommit, Safe
<1>1. CASE Connect
  BY <1>0, <1>1 DEF Connect, ConnectResets, Safe, TypeOK
<1>2. CASE ConnectFails
  <2>1. ~in_transaction
    BY <1>2 DEF ConnectFails, ConnectResets, Safe, Control, ConnectionInv
  <2> QED
    BY <1>2, <2>1 DEF ConnectFails, ConnectResets
<1>3. CASE Close \/ HealthCheck \/ CloseIfUnusableOrObsolete
  <2>1. UNCHANGED <<engine, connection>> \/ in_transaction' = FALSE
    BY <1>3, CloseHasEffect
       DEF Close, HealthCheck, CloseIfUnusableOrObsolete, BoundaryInMemory, BoundaryFile, KeepConnection,
           CloseEffect, Safe
  <2>2. UNCHANGED <<autocommit, in_atomic_block, exiting>>
    BY <1>3 DEF Close, HealthCheck, CloseIfUnusableOrObsolete, leaving
  <2> QED
    BY <1>0, <2>1, <2>2 DEF engine
<1> QED
  BY <1>1, <1>2, <1>3

LEMMA EnterIdle ==
  ASSUME Safe, IdleInv,
         \/ EnterManagedBlock
         \/ \E savepoint \in BOOLEAN : EnterManualBlock(savepoint) \/ EnterInnerBlock(savepoint)
  PROVE  IdleInv'
<1> USE DEF IdleInv, AutocommitMeansIdle, Checked, Ready, flags, leaving
<1>1. CASE EnterManagedBlock
  <2>1. /\ exiting = "no" /\ UNCHANGED <<connection, exiting>>
        /\ \/ autocommit' = FALSE
           \/ UNCHANGED <<in_transaction, autocommit, in_atomic_block>>
    BY <1>1 DEF EnterManagedBlock, engine
  <2> QED
    BY <2>1
<1>2. ASSUME NEW savepoint \in BOOLEAN, EnterManualBlock(savepoint) PROVE IdleInv'
  BY <1>2 DEF EnterManualBlock
<1>3. ASSUME NEW savepoint \in BOOLEAN, EnterInnerBlock(savepoint) PROVE IdleInv'
  BY <1>3 DEF EnterInnerBlock
<1> QED
  BY <1>1, <1>2, <1>3

LEMMA ExitIdle ==
  ASSUME Safe, IdleInv, NestingInv,
         \/ \E raised \in BOOLEAN : LeaveBlock(raised)
         \/ ReleaseSavepoint \/ UndoToSavepoint \/ DropSavepoint
         \/ CommitOnExit \/ RollbackOnExit \/ CloseOnExit \/ FinishExit
  PROVE  IdleInv'
<1> USE DEF IdleInv, AutocommitMeansIdle, flags
<1>1. ASSUME NEW raised \in BOOLEAN, LeaveBlock(raised) PROVE IdleInv'
  <2>1. /\ UNCHANGED <<in_transaction, autocommit, connection, closed_in_transaction>>
        /\ in_atomic_block' => in_atomic_block
    BY <1>1 DEF LeaveBlock, engine
  <2>2. exiting' = "finish" /\ ~in_atomic_block' => closed_in_transaction
    BY <1>1 DEF LeaveBlock, NestingInv
  <2>3. closed_in_transaction => connection # "open"
    BY DEF Safe, Control, ConnectionInv
  <2> QED
    BY <2>1, <2>2, <2>3
<1>2. CASE ReleaseSavepoint \/ UndoToSavepoint \/ DropSavepoint
  <2>1. UNCHANGED <<autocommit, in_atomic_block, connection>>
    BY <1>2 DEF ReleaseSavepoint, UndoToSavepoint, DropSavepoint
  <2>2. autocommit /\ ~in_transaction => ~in_transaction'
    BY <1>2, FailureIdle
       DEF ReleaseSavepoint, UndoToSavepoint, DropSavepoint, Release, RollbackTo, engine
  <2>3. in_atomic_block
    BY <1>2 DEF ReleaseSavepoint, UndoToSavepoint, DropSavepoint, NestingInv, InSavepoint
  <2> QED
    BY <2>1, <2>2, <2>3
<1>3. CASE CommitOnExit \/ RollbackOnExit \/ CloseOnExit
  <2>1. UNCHANGED <<autocommit, in_atomic_block>>
    BY <1>3 DEF CommitOnExit, RollbackOnExit, CloseOnExit
  <2>2. in_transaction' => in_transaction /\ UNCHANGED connection
    BY <1>3, CloseHasEffect
       DEF CommitOnExit, RollbackOnExit, CloseOnExit, DriverCommits, DriverFails, EndTransaction, engine,
           CloseEffect, Safe
  <2>3. exiting' = "finish" => ~in_transaction'
    BY <1>3, CloseHasEffect
       DEF CommitOnExit, RollbackOnExit, CloseOnExit, DriverCommits, EndTransaction, CloseEffect, Safe
  <2> QED
    BY <2>1, <2>2, <2>3
<1>4. CASE FinishExit
  <2>1. in_transaction' = in_transaction /\ exiting' = "no" /\ (connection' = "open" => connection = "open")
    BY <1>4 DEF FinishExit, engine
  <2>2. \/ autocommit' = autocommit /\ (in_atomic_block' => in_atomic_block)
        \/ ~in_transaction /\ ~in_atomic_block'
    BY <1>4 DEF FinishExit, EnableAutocommit
  <2> QED
    BY <2>1, <2>2
<1> QED
  BY <1>1, <1>2, <1>3, <1>4

LEMMA OtherIdle ==
  ASSUME Safe, IdleInv,
         \/ OnCommit \/ Commit \/ Rollback \/ RawBegin \/ RawEnd \/ UNCHANGED vars
         \/ \E value \in BOOLEAN : SetRollback(value) \/ SetAutocommit(value)
  PROVE  IdleInv'
<1> USE DEF IdleInv, AutocommitMeansIdle, flags, leaving
<1>1. CASE OnCommit \/ (\E value \in BOOLEAN : SetRollback(value)) \/ UNCHANGED vars
  BY <1>1 DEF OnCommit, SetRollback, vars, wrapper, engine, Autocommit
<1>2. CASE Commit \/ Rollback
  <2>1. in_transaction' => in_transaction
    BY <1>2 DEF Commit, Rollback, DriverCommits, DriverFails, EndTransaction, engine
  <2> QED
    BY <1>2, <2>1 DEF Commit, Rollback, Ready
<1>3. ASSUME NEW value \in BOOLEAN, SetAutocommit(value) PROVE IdleInv'
  <2>1. /\ ~in_atomic_block /\ exiting = "no" /\ UNCHANGED <<connection, in_atomic_block, exiting>>
        /\ autocommit' /\ connection = "open" => ~in_transaction'
    BY <1>3 DEF SetAutocommit, EnableAutocommit, Checked, Ready, engine, Statement
  <2> QED
    BY <2>1
<1>4. ~RawBegin /\ ~RawEnd
  BY DEF RawBegin, RawEnd, Safe
<1> QED
  BY <1>1, <1>2, <1>3, <1>4

LEMMA IdleStep == Safe /\ IdleInv /\ NestingInv /\ [Next]_vars => IdleInv'
  BY StatementIdle, ConnectionIdle, EnterIdle, ExitIdle, OtherIdle DEF Next
--------------------------------------------------------------------------------
(* The stack of savepoints.                                                    *)

Bounded == \A s \in Sids : s \in Nat /\ s <= savepoint_state

Ordered ==
  \A i, j \in DOMAIN savepoint_ids :
    i < j /\ {savepoint_ids[i], savepoint_ids[j]} \subseteq Nat => savepoint_ids[i] < savepoint_ids[j]

LEMMA SidsAreBounded == TypeOK /\ OrderInv => Bounded /\ Ordered
  BY DEF TypeOK, Sid, OrderInv, Sids, Bounded, Ordered

\* Entering an inner block puts its savepoint, or none, on the stack.
LEMMA StackPushed ==
  ASSUME TypeOK, Ordered, Bounded, NEW s \in Sid,
         savepoint_ids' = Append(savepoint_ids, s), savepoint_state' \in Nat,
         savepoint_state' >= savepoint_state,
         s \in Nat => s = savepoint_state + 1 /\ s <= savepoint_state'
  PROVE  /\ Len(savepoint_ids') = Len(savepoint_ids) + 1
         /\ Sids' = Sids \union ({s} \ {NoSavepoint})
         /\ Ordered'
         /\ Bounded'
<1>1. /\ Len(savepoint_ids') = Len(savepoint_ids) + 1
      /\ DOMAIN savepoint_ids = 1 .. Len(savepoint_ids)
      /\ DOMAIN savepoint_ids' = 1 .. Len(savepoint_ids) + 1
      /\ Len(savepoint_ids) \in Nat
      /\ \A i \in DOMAIN savepoint_ids : savepoint_ids'[i] = savepoint_ids[i]
      /\ savepoint_ids'[Len(savepoint_ids) + 1] = s
  BY DEF TypeOK
<1>2. Sids' = Sids \union ({s} \ {NoSavepoint})
  <2>1. \A i \in DOMAIN savepoint_ids' : i \in DOMAIN savepoint_ids \/ i = Len(savepoint_ids) + 1
    BY <1>1
  <2>2. Len(savepoint_ids) + 1 \in DOMAIN savepoint_ids' /\ DOMAIN savepoint_ids \subseteq DOMAIN savepoint_ids'
    BY <1>1
  <2> QED
    BY <1>1, <2>1, <2>2 DEF Sids
<1>3. Ordered'
  <2> SUFFICES ASSUME NEW i \in DOMAIN savepoint_ids', NEW j \in DOMAIN savepoint_ids', i < j,
                      savepoint_ids'[i] \in Nat, savepoint_ids'[j] \in Nat
               PROVE  savepoint_ids'[i] < savepoint_ids'[j]
    BY DEF Ordered
  <2>1. i \in DOMAIN savepoint_ids /\ (j \in DOMAIN savepoint_ids \/ j = Len(savepoint_ids) + 1)
    BY <1>1
  <2>2. CASE j \in DOMAIN savepoint_ids
    BY <1>1, <2>1, <2>2 DEF Ordered
  <2>3. CASE j = Len(savepoint_ids) + 1
    <3>1. savepoint_ids[i] \in Sids
      BY <1>1, <2>1, NoSavepointAssumption DEF Sids
    <3>2. savepoint_ids[i] <= savepoint_state /\ savepoint_ids'[j] = savepoint_state + 1
      BY <1>1, <2>3, <3>1 DEF Bounded
    <3> QED
      BY <1>1, <2>1, <3>2 DEF TypeOK
  <2> QED
    BY <2>1, <2>2, <2>3
<1>4. Bounded'
  <2>1. \A t \in Nat : t <= savepoint_state => t <= savepoint_state'
    BY DEF TypeOK
  <2> QED
    BY <1>2, <2>1 DEF Bounded, Sid
<1> QED
  BY <1>1, <1>2, <1>3, <1>4

\* Leaving an inner block takes its savepoint off the stack: it is the last.
LEMMA StackPopped ==
  ASSUME TypeOK, Ordered, Bounded, savepoint_ids # <<>>,
         savepoint_ids' = SubSeq(savepoint_ids, 1, Len(savepoint_ids) - 1), UNCHANGED savepoint_state,
         NEW sid, sid = savepoint_ids[Len(savepoint_ids)]
  PROVE  /\ Len(savepoint_ids) = Len(savepoint_ids') + 1
         /\ sid \in Sid
         /\ Sids' \subseteq Sids
         /\ sid # NoSavepoint => sid \in Sids
         /\ Ordered' /\ Bounded'
         /\ sid # NoSavepoint => \A s \in Sids' : s < sid
<1>1. /\ Len(savepoint_ids) = Len(savepoint_ids') + 1
      /\ DOMAIN savepoint_ids = 1 .. Len(savepoint_ids)
      /\ DOMAIN savepoint_ids' = 1 .. Len(savepoint_ids) - 1
      /\ Len(savepoint_ids) \in Nat \ {0}
      /\ \A i \in DOMAIN savepoint_ids' : savepoint_ids'[i] = savepoint_ids[i]
  <2>1. savepoint_ids \in Seq(Sid) /\ Len(savepoint_ids) \in Nat \ {0}
    BY DEF TypeOK
  <2>2. DOMAIN savepoint_ids = 1 .. Len(savepoint_ids) /\ DOMAIN savepoint_ids' = 1 .. Len(savepoint_ids) - 1
    BY <2>1
  <2>3. Len(savepoint_ids) = Len(savepoint_ids') + 1
    <3>1. savepoint_ids' \in Seq(Sid)
      BY <2>1, SidsType
    <3>2. DOMAIN savepoint_ids' = 1 .. Len(savepoint_ids') /\ Len(savepoint_ids') \in Nat
      BY <3>1
    <3> QED
      BY <2>1, <2>2, <3>2
  <2>4. \A i \in DOMAIN savepoint_ids' : savepoint_ids'[i] = savepoint_ids[i]
    BY <2>1, <2>2
  <2> QED
    BY <2>1, <2>2, <2>3, <2>4
<1>2. /\ Len(savepoint_ids) \in DOMAIN savepoint_ids
      /\ \A i \in DOMAIN savepoint_ids' : i \in DOMAIN savepoint_ids /\ i < Len(savepoint_ids)
  <2> DEFINE n == Len(savepoint_ids)
  <2>1. n \in Nat \ {0} /\ DOMAIN savepoint_ids = 1 .. n /\ DOMAIN savepoint_ids' = 1 .. n - 1
    BY <1>1
  <2> HIDE DEF n
  <2>2. n \in 1 .. n /\ \A i \in 1 .. n - 1 : i \in 1 .. n /\ i < n
    BY <2>1
  <2>3. n \in DOMAIN savepoint_ids /\ \A i \in DOMAIN savepoint_ids' : i \in DOMAIN savepoint_ids /\ i < n
    BY <2>1, <2>2, Zenon
  <2> QED
    BY <2>3 DEF n
<1>3. sid \in Sid /\ (sid # NoSavepoint => sid \in Sids) /\ Sids' \subseteq Sids
  <2>1. sid \in Sid
    BY SidsType
  <2>2. sid # NoSavepoint => sid \in Sids
    BY <1>2, Zenon DEF Sids
  <2>3. Sids' \subseteq Sids
    BY <1>1, <1>2, Zenon DEF Sids
  <2> QED
    BY <2>1, <2>2, <2>3
<1>4. Ordered'
  <2> SUFFICES ASSUME NEW i \in DOMAIN savepoint_ids', NEW j \in DOMAIN savepoint_ids', i < j,
                      savepoint_ids'[i] \in Nat, savepoint_ids'[j] \in Nat
               PROVE  savepoint_ids'[i] < savepoint_ids'[j]
    BY DEF Ordered
  <2>1. i \in DOMAIN savepoint_ids /\ j \in DOMAIN savepoint_ids
    BY <1>2
  <2> QED
    BY <1>1, <2>1 DEF Ordered
<1>5. Bounded'
  BY <1>3 DEF Bounded
<1>6. ASSUME sid # NoSavepoint, NEW s \in Sids' PROVE s < sid
  <2>1. PICK i \in DOMAIN savepoint_ids' : s = savepoint_ids'[i]
    BY DEF Sids
  <2>2. s \in Nat /\ sid \in Nat
    BY <1>3, <1>5, <1>6 DEF Bounded, Sid
  <2> QED
    BY <1>1, <1>2, <2>1, <2>2 DEF Ordered
<1> QED
  BY <1>1, <1>3, <1>4, <1>5, <1>6

\* The calls that neither enter nor leave a block keep the shape of the stack.
LEMMA NestingKept ==
  ASSUME NestingInv, OrderInv, UNCHANGED <<in_atomic_block, commit_on_exit, nesting, exiting_sid>>,
         in_atomic_block /\ connection' = "none" => closed_in_transaction',
         InSavepoint' => InSavepoint,
         exiting' # "no" => exiting # "no"
  PROVE  NestingInv' /\ OrderInv'
<1>1. UNCHANGED <<savepoint_ids, savepoint_state, depth, Sids, InManagedBlock>>
  BY DEF nesting, Sids, InManagedBlock
<1>2. NestingInv'
  BY <1>1 DEF NestingInv
<1>3. OrderInv'
  BY <1>1 DEF OrderInv
<1> QED
  BY <1>2, <1>3

LEMMA SteadyNesting ==
  ASSUME Safe, NestingInv, OrderInv,
         \/ \E w \in Work, returning \in BOOLEAN : Execute(w, returning)
         \/ Select \/ Fetch \/ StatementRaises
         \/ Close \/ HealthCheck \/ CloseIfUnusableOrObsolete
         \/ ReleaseSavepoint \/ UndoToSavepoint \/ DropSavepoint
         \/ CommitOnExit \/ RollbackOnExit \/ CloseOnExit
         \/ OnCommit \/ Commit \/ Rollback
         \/ \E value \in BOOLEAN : SetRollback(value) \/ SetAutocommit(value)
         \/ UNCHANGED vars
  PROVE  NestingInv' /\ OrderInv'
<1> USE DEF flags, leaving
<1>1. CASE \/ \E w \in Work, returning \in BOOLEAN : Execute(w, returning)
           \/ Select \/ Fetch \/ StatementRaises
  <2>1. UNCHANGED <<connection, flags, nesting, leaving>>
    BY <1>1 DEF Execute, Select, Fetch, StatementRaises
  <2> QED
    BY <2>1, NestingKept DEF InSavepoint, NestingInv
<1>2. CASE Close \/ HealthCheck \/ CloseIfUnusableOrObsolete \/ CloseOnExit
  <2>1. /\ UNCHANGED <<in_atomic_block, commit_on_exit, nesting, exiting_sid>>
        /\ exiting' = exiting \/ (exiting = "close" /\ exiting' = "finish")
    BY <1>2 DEF Close, HealthCheck, CloseIfUnusableOrObsolete, CloseOnExit
  <2>2. \/ UNCHANGED <<connection, closed_in_transaction>>
        \/ in_atomic_block => connection' = "closed"
    BY <1>2, CloseHasEffect
       DEF Close, HealthCheck, CloseIfUnusableOrObsolete, BoundaryInMemory, BoundaryFile, KeepConnection,
           CloseOnExit, CloseEffect, Safe
  <2> QED
    BY <2>1, <2>2, NestingKept DEF InSavepoint, NestingInv
<1>3. CASE ReleaseSavepoint \/ UndoToSavepoint \/ DropSavepoint
  <2>1. /\ UNCHANGED <<connection, flags, nesting, exiting_sid>>
        /\ InSavepoint /\ exiting # "no"
    BY <1>3 DEF ReleaseSavepoint, UndoToSavepoint, DropSavepoint, InSavepoint
  <2> QED
    BY <2>1, NestingKept DEF NestingInv
<1>4. CASE CommitOnExit \/ RollbackOnExit
  <2>1. /\ UNCHANGED <<connection, flags, nesting, exiting_sid>>
        /\ exiting # "no" /\ ~InSavepoint'
    BY <1>4 DEF CommitOnExit, RollbackOnExit, InSavepoint
  <2> QED
    BY <2>1, NestingKept DEF NestingInv
<1>5. CASE OnCommit \/ Commit \/ Rollback \/ (\E value \in BOOLEAN : SetRollback(value)) \/ UNCHANGED vars
  <2>1. UNCHANGED <<connection, flags, nesting, leaving>>
    BY <1>5 DEF OnCommit, Commit, Rollback, SetRollback, vars, wrapper
  <2> QED
    BY <2>1, NestingKept DEF InSavepoint, NestingInv
<1>6. CASE \E value \in BOOLEAN : SetAutocommit(value)
  <2>1. UNCHANGED <<connection, in_atomic_block, commit_on_exit, closed_in_transaction, nesting, leaving>>
    BY <1>6 DEF SetAutocommit
  <2> QED
    BY <2>1, NestingKept DEF InSavepoint, NestingInv
<1> QED
  BY <1>1, <1>2, <1>3, <1>4, <1>5, <1>6

LEMMA EnterNesting ==
  ASSUME Safe, NestingInv, OrderInv,
         \/ Connect \/ ConnectFails \/ EnterManagedBlock
         \/ \E savepoint \in BOOLEAN : EnterManualBlock(savepoint) \/ EnterInnerBlock(savepoint)
  PROVE  NestingInv' /\ OrderInv'
<1> USE DEF Safe, flags, leaving
<1>0. Bounded /\ Ordered /\ depth \in Nat /\ savepoint_state \in Nat /\ Len(savepoint_ids) \in Nat
  BY SidsAreBounded DEF TypeOK
<1>1. CASE Connect \/ ConnectFails
  <2>1. /\ ~in_atomic_block
        /\ in_atomic_block' = FALSE /\ savepoint_ids' = <<>>
        /\ UNCHANGED <<depth, commit_on_exit>> /\ exiting' \in {exiting, "no"} /\ exiting \in {"no", "finish"}
    BY <1>1 DEF Connect, ConnectFails, ConnectResets, NestingInv
  <2>2. depth = 0
    BY <1>0, <2>1 DEF NestingInv, InManagedBlock
  <2>3. NestingInv'
    BY <1>0, <2>1, <2>2 DEF NestingInv, InManagedBlock, InSavepoint
  <2>4. OrderInv'
    BY <2>1 DEF OrderInv, Sids
  <2> QED
    BY <2>3, <2>4
<1>2. CASE EnterManagedBlock
  <2>1. /\ UNCHANGED <<connection, savepoint_ids, savepoint_state, exiting, exiting_sid>>
        /\ ~in_atomic_block /\ commit_on_exit' = TRUE /\ exiting = "no" /\ connection = "open"
        /\ \/ in_atomic_block' = TRUE /\ depth' = depth + 1
           \/ UNCHANGED <<in_atomic_block, depth>>
    BY <1>2 DEF EnterManagedBlock, Checked, Ready
  <2>2. NestingInv'
    BY <1>0, <2>1 DEF NestingInv, InManagedBlock, InSavepoint
  <2>3. OrderInv'
    BY <2>1 DEF OrderInv, Sids, InSavepoint
  <2> QED
    BY <2>2, <2>3
<1>3. CASE \E savepoint \in BOOLEAN : EnterManualBlock(savepoint) \/ EnterInnerBlock(savepoint)
  <2>1. /\ exiting = "no" /\ UNCHANGED <<connection, closed_in_transaction, exiting, exiting_sid>>
        /\ \/ connection = "open" /\ ~in_atomic_block /\ in_atomic_block' = TRUE /\ commit_on_exit' = FALSE
           \/ in_atomic_block /\ UNCHANGED <<in_atomic_block, commit_on_exit>>
    BY <1>3 DEF EnterManualBlock, EnterInnerBlock, Checked, Ready
  <2>2. \/ /\ UNCHANGED <<savepoint_ids, depth>> /\ savepoint_state' \in {savepoint_state, savepoint_state + 1}
        \/ /\ savepoint_ids' = Append(savepoint_ids, savepoint_state + 1) /\ savepoint_state' = savepoint_state + 1
           /\ depth' = depth + 1
        \/ /\ savepoint_ids' = Append(savepoint_ids, NoSavepoint) /\ UNCHANGED savepoint_state
           /\ depth' = depth + 1
    BY <1>3 DEF EnterManualBlock, EnterInnerBlock
  <2>3. /\ Ordered' /\ Bounded'
        /\ \/ UNCHANGED <<savepoint_ids, depth>>
           \/ Len(savepoint_ids') = Len(savepoint_ids) + 1 /\ depth' = depth + 1
    <3>1. CASE UNCHANGED <<savepoint_ids, depth>> /\ savepoint_state' \in {savepoint_state, savepoint_state + 1}
      <4>1. \A k \in Nat : k <= savepoint_state => k <= savepoint_state'
        BY <1>0, <3>1
      <4> QED
        BY <1>0, <3>1, <4>1 DEF Ordered, Bounded, Sids
    <3>2. CASE savepoint_ids' = Append(savepoint_ids, savepoint_state + 1) /\ savepoint_state' = savepoint_state + 1
               /\ depth' = depth + 1
      BY <1>0, <3>2, StackPushed DEF Sid
    <3>3. CASE savepoint_ids' = Append(savepoint_ids, NoSavepoint) /\ UNCHANGED savepoint_state
               /\ depth' = depth + 1
      <4>1. NoSavepoint \in Sid /\ NoSavepoint \notin Nat
        BY NoSavepointAssumption DEF Sid
      <4>2. savepoint_state' \in Nat /\ savepoint_state' >= savepoint_state
        BY <1>0, <3>3
      <4> QED
        BY <1>0, <3>3, <4>1, <4>2, StackPushed
    <3> QED
      BY <2>2, <3>1, <3>2, <3>3
  <2>4. NestingInv'
    BY <1>0, <2>1, <2>3 DEF NestingInv, InManagedBlock, InSavepoint
  <2>5. OrderInv'
    BY <2>1, <2>3 DEF OrderInv, Ordered, Bounded, InSavepoint
  <2> QED
    BY <2>4, <2>5
<1> QED
  BY <1>1, <1>2, <1>3

LEMMA LeaveNesting ==
  ASSUME Safe, NestingInv, OrderInv,
         FinishExit \/ \E raised \in BOOLEAN : LeaveBlock(raised)
  PROVE  NestingInv' /\ OrderInv'
<1> USE DEF Safe
<1>0. Bounded /\ Ordered /\ depth \in Nat /\ Len(savepoint_ids) \in Nat
  BY SidsAreBounded DEF TypeOK
<1>1. CASE FinishExit
  <2>1. /\ UNCHANGED <<commit_on_exit, closed_in_transaction, nesting>> /\ exiting' = "no"
        /\ connection' = connection \/ closed_in_transaction
        /\ \/ UNCHANGED in_atomic_block
           \/ savepoint_ids = <<>> /\ ~commit_on_exit /\ in_atomic_block' = FALSE
    BY <1>1 DEF FinishExit
  <2>2. NestingInv'
    BY <1>0, <2>1 DEF NestingInv, InManagedBlock, InSavepoint, nesting
  <2>3. OrderInv'
    BY <2>1 DEF OrderInv, Sids, InSavepoint, nesting
  <2> QED
    BY <2>2, <2>3
<1>2. ASSUME NEW raised \in BOOLEAN, LeaveBlock(raised), savepoint_ids = <<>> PROVE NestingInv' /\ OrderInv'
  <2>1. /\ in_atomic_block' = FALSE /\ UNCHANGED <<commit_on_exit, savepoint_ids, savepoint_state>>
        /\ depth > 0 /\ depth' = depth - 1 /\ ~InSavepoint'
    BY <1>2 DEF LeaveBlock, InSavepoint
  <2>2. InManagedBlock /\ depth' = 0
    BY <1>0, <1>2, <2>1 DEF NestingInv
  <2>3. NestingInv'
    BY <1>0, <1>2, <2>1, <2>2 DEF NestingInv, InManagedBlock
  <2>4. OrderInv'
    BY <2>1 DEF OrderInv, Sids
  <2> QED
    BY <2>3, <2>4
<1>3. ASSUME NEW raised \in BOOLEAN, LeaveBlock(raised), savepoint_ids # <<>> PROVE NestingInv' /\ OrderInv'
  <2>1. /\ UNCHANGED <<connection, in_atomic_block, commit_on_exit, closed_in_transaction, savepoint_state>>
        /\ depth > 0 /\ depth' = depth - 1 /\ exiting' # "no"
        /\ savepoint_ids' = SubSeq(savepoint_ids, 1, Len(savepoint_ids) - 1)
        /\ exiting_sid' = savepoint_ids[Len(savepoint_ids)]
        /\ exiting_sid' = NoSavepoint => ~InSavepoint'
    BY <1>3 DEF LeaveBlock, InSavepoint
  <2>2. in_atomic_block
    BY <1>3 DEF NestingInv
  <2>3. /\ Len(savepoint_ids) = Len(savepoint_ids') + 1
        /\ exiting_sid' \in Sid
        /\ Ordered' /\ Bounded'
        /\ exiting_sid' # NoSavepoint => \A s \in Sids' : s < exiting_sid'
    BY <1>0, <1>3, <2>1, StackPopped
  <2>4. NestingInv'
    <3>1. Len(savepoint_ids') \in Nat
      BY <1>3, <2>1, SidsType
    <3>2. depth' = Len(savepoint_ids') + (IF InManagedBlock' THEN 1 ELSE 0)
      <4>1. depth = Len(savepoint_ids) + (IF InManagedBlock THEN 1 ELSE 0)
        BY DEF NestingInv
      <4>2. InManagedBlock' <=> InManagedBlock
        BY <2>1 DEF InManagedBlock
      <4>3. depth' = Len(savepoint_ids) - 1 + (IF InManagedBlock' THEN 1 ELSE 0)
        BY <1>0, <2>1, <4>1, <4>2
      <4>4. Len(savepoint_ids) - 1 = Len(savepoint_ids')
        BY <1>0, <2>3, <3>1
      <4> QED
        BY <4>3, <4>4
    <3>3. InSavepoint' => exiting_sid' \in Nat
      BY <2>1, <2>3 DEF Sid
    <3> QED
      BY <2>1, <2>2, <3>2, <3>3 DEF NestingInv
  <2>5. OrderInv'
    BY <2>1, <2>3 DEF OrderInv, Ordered, Bounded
  <2> QED
    BY <2>4, <2>5
<1> QED
  BY <1>1, <1>2, <1>3

LEMMA NestingStep == Safe /\ NestingInv /\ OrderInv /\ [Next]_vars => NestingInv' /\ OrderInv'
<1>1. Safe => ~RawBegin /\ ~RawEnd
  BY DEF Safe, RawBegin, RawEnd
<1> QED
  BY <1>1, SteadyNesting, EnterNesting, LeaveNesting DEF Next

(* The engine's savepoints include those of the stack.                         *)

LEMMA StackKept ==
  ASSUME StackInv, UNCHANGED <<savepoint_ids, exiting_sid>>,
         in_atomic_block' => in_atomic_block,
         InSavepoint' => InSavepoint,
         needs_rollback \/ exiting = "undo" => needs_rollback' \/ exiting' = "undo" \/ ~in_atomic_block,
         \/ /\ savepoints' = savepoints
            /\ in_transaction' => in_transaction \/ (~needs_rollback /\ exiting # "undo")
         \/ ~in_transaction' /\ (in_atomic_block => needs_rollback')
  PROVE  StackInv'
<1>1. Sids' = Sids
  BY DEF Sids
<1> QED
  BY <1>1 DEF StackInv

LEMMA FailureStack ==
  ASSUME Safe, NEW forced \in BOOLEAN, StatementFails(forced)
  PROVE  /\ needs_rollback \/ forced => needs_rollback'
         /\ \/ savepoints' = savepoints /\ (in_transaction' => in_transaction \/ ~needs_rollback)
            \/ ~in_transaction' /\ (in_atomic_block => needs_rollback')
<1>1. needs_rollback \/ forced => needs_rollback'
  BY FailureHasEffect DEF Safe
<1>2. CASE needs_rollback /\ UNCHANGED <<engine, needs_rollback, run_on_commit, errors_occurred>>
  BY <1>1, <1>2 DEF engine
<1>3. CASE RefuseLostBlock
  BY <1>1, <1>3 DEF RefuseLostBlock, engine
<1>4. CASE Admitted /\ EngineFails(forced)
  BY <1>1, <1>4 DEF Admitted, EngineFails, engine, Statement, EndTransaction
<1> QED
  BY <1>2, <1>3, <1>4 DEF StatementFails

LEMMA StatementStack ==
  ASSUME Safe, NestingInv, StackInv,
         \/ \E w \in Work, returning \in BOOLEAN : Execute(w, returning)
         \/ Select \/ Fetch \/ StatementRaises
         \/ Close \/ HealthCheck \/ CloseIfUnusableOrObsolete
         \/ OnCommit \/ Commit \/ Rollback
         \/ \E value \in BOOLEAN : SetRollback(value) \/ SetAutocommit(value)
         \/ UNCHANGED vars
  PROVE  StackInv'
<1> USE DEF flags, nesting, leaving
<1>1. CASE Select \/ Fetch \/ \E w \in Work, returning \in BOOLEAN : Execute(w, returning)
  <2>1. /\ UNCHANGED <<savepoint_ids, in_atomic_block, exiting_sid, exiting, needs_rollback, savepoints>>
        /\ exiting = "no" /\ ~needs_rollback
    BY <1>1 DEF Execute, Select, Fetch, Checked, Ready, Admitted, Write, Statement
  <2> QED
    BY <2>1, StackKept DEF InSavepoint
<1>2. CASE StatementRaises
  <2>1. UNCHANGED <<savepoint_ids, in_atomic_block, exiting_sid, exiting>> /\ exiting = "no"
    BY <1>2 DEF StatementRaises, Ready
  <2>2. StatementFails(FALSE)
    BY <1>2 DEF StatementRaises
  <2>3. /\ needs_rollback => needs_rollback'
        /\ \/ savepoints' = savepoints /\ (in_transaction' => in_transaction \/ ~needs_rollback)
           \/ ~in_transaction' /\ (in_atomic_block => needs_rollback')
    BY <2>2, FailureStack
  <2> QED
    BY <2>1, <2>3, StackKept DEF InSavepoint
<1>3. CASE Close \/ HealthCheck \/ CloseIfUnusableOrObsolete
  <2>1. /\ UNCHANGED <<savepoint_ids, in_atomic_block, exiting_sid, exiting>>
        /\ \/ UNCHANGED <<engine, needs_rollback>>
           \/ CloseEffect
    BY <1>3, CloseHasEffect
       DEF Close, HealthCheck, CloseIfUnusableOrObsolete, BoundaryInMemory, BoundaryFile, KeepConnection, Safe
  <2>2. CASE UNCHANGED <<engine, needs_rollback>>
    BY <2>1, <2>2, StackKept DEF engine, InSavepoint
  <2>3. CASE CloseEffect
    BY <2>1, <2>3, StackKept DEF CloseEffect, InSavepoint
  <2> QED
    BY <2>1, <2>2, <2>3
<1>4. CASE OnCommit \/ (\E value \in BOOLEAN : SetRollback(value)) \/ UNCHANGED vars
  <2>1. /\ UNCHANGED <<savepoint_ids, in_atomic_block, exiting_sid, exiting, savepoints, in_transaction>>
        /\ needs_rollback => needs_rollback'
    BY <1>4 DEF OnCommit, SetRollback, vars, wrapper, engine, Safe
  <2> QED
    BY <2>1, StackKept DEF InSavepoint
<1>5. CASE Commit \/ Rollback \/ \E value \in BOOLEAN : SetAutocommit(value)
  <2>1. ~in_atomic_block'
    BY <1>5 DEF Commit, Rollback, SetAutocommit
  <2> QED
    BY <2>1 DEF StackInv
<1> QED
  BY <1>1, <1>2, <1>3, <1>4, <1>5

LEMMA EnterStack ==
  ASSUME Safe, NestingInv, OrderInv, StackInv,
         \/ Connect \/ ConnectFails \/ EnterManagedBlock
         \/ \E savepoint \in BOOLEAN : EnterManualBlock(savepoint) \/ EnterInnerBlock(savepoint)
  PROVE  StackInv'
<1> USE DEF Safe, flags, leaving
<1>0. Bounded /\ Ordered /\ savepoint_state \in Nat
  BY SidsAreBounded DEF TypeOK
<1>1. CASE Connect \/ ConnectFails
  BY <1>1 DEF Connect, ConnectFails, ConnectResets, StackInv
<1>2. CASE EnterManagedBlock
  <2>1. UNCHANGED <<savepoint_ids, exiting>> /\ ~in_atomic_block /\ exiting = "no"
    BY <1>2 DEF EnterManagedBlock, Checked, Ready
  <2>2. Sids' = {}
    BY <2>1 DEF Sids, NestingInv
  <2> QED
    BY <2>1, <2>2 DEF StackInv, InSavepoint
<1>3. ASSUME NEW s \in Sid, savepoint_ids' = Append(savepoint_ids, s), exiting = "no", UNCHANGED leaving,
             \/ s = savepoint_state + 1 /\ s = savepoint_state' /\ Savepoint(s)
                /\ (in_atomic_block => ~needs_rollback)
             \/ s = NoSavepoint /\ UNCHANGED <<engine, savepoint_state>>
                /\ (in_atomic_block => UNCHANGED needs_rollback)
      PROVE  StackInv'
  <2>1. Sids' = Sids \union ({s} \ {NoSavepoint})
    BY <1>0, <1>3, StackPushed, NoSavepointAssumption
  <2>2. ~in_atomic_block => Sids = {}
    BY DEF NestingInv, Sids
  <2> QED
    BY <1>3, <2>1, <2>2 DEF StackInv, InSavepoint, Savepoint, engine
<1>4. ASSUME NEW savepoint \in BOOLEAN, EnterManualBlock(savepoint) PROVE StackInv'
  <2>1. exiting = "no" /\ UNCHANGED leaving /\ ~in_atomic_block
    BY <1>4 DEF EnterManualBlock, Checked, Ready
  <2>2. CASE UNCHANGED savepoint_ids
    <3>1. Sids' = {}
      BY <2>1, <2>2 DEF Sids, NestingInv
    <3> QED
      BY <2>1, <3>1 DEF StackInv, InSavepoint
  <2>3. \/ UNCHANGED savepoint_ids
        \/ /\ savepoint_state' = savepoint_state + 1 /\ Savepoint(savepoint_state')
           /\ savepoint_ids' = Append(savepoint_ids, savepoint_state')
        \/ /\ savepoint_ids' = Append(savepoint_ids, NoSavepoint) /\ UNCHANGED <<engine, savepoint_state>>
    BY <1>4 DEF EnterManualBlock
  <2>4. CASE /\ savepoint_state' = savepoint_state + 1 /\ Savepoint(savepoint_state')
             /\ savepoint_ids' = Append(savepoint_ids, savepoint_state')
    <3>1. savepoint_state' \in Sid
      BY <1>0, <2>4 DEF Sid
    <3> QED
      BY <1>3, <2>1, <2>4, <3>1
  <2>5. CASE savepoint_ids' = Append(savepoint_ids, NoSavepoint) /\ UNCHANGED <<engine, savepoint_state>>
    <3>1. NoSavepoint \in Sid
      BY DEF Sid
    <3> QED
      BY <1>3, <2>1, <2>5, <3>1
  <2> QED
    BY <2>2, <2>3, <2>4, <2>5
<1>5. ASSUME NEW savepoint \in BOOLEAN, EnterInnerBlock(savepoint) PROVE StackInv'
  <2>1. exiting = "no" /\ UNCHANGED leaving /\ UNCHANGED in_atomic_block
    BY <1>5 DEF EnterInnerBlock
  <2>2. CASE StatementFails(FALSE) /\ UNCHANGED savepoint_ids
    <3>1. /\ needs_rollback => needs_rollback'
          /\ \/ savepoints' = savepoints /\ (in_transaction' => in_transaction \/ ~needs_rollback)
             \/ ~in_transaction' /\ (in_atomic_block => needs_rollback')
      BY <2>2, FailureStack
    <3> QED
      BY <2>1, <2>2, <3>1, StackKept DEF InSavepoint
  <2>3. \/ StatementFails(FALSE) /\ UNCHANGED savepoint_ids
        \/ /\ savepoint_state' = savepoint_state + 1 /\ Savepoint(savepoint_state') /\ Admitted
           /\ savepoint_ids' = Append(savepoint_ids, savepoint_state')
        \/ /\ savepoint_ids' = Append(savepoint_ids, NoSavepoint)
           /\ UNCHANGED <<engine, savepoint_state, needs_rollback>>
    BY <1>5 DEF EnterInnerBlock
  <2>4. CASE /\ savepoint_state' = savepoint_state + 1 /\ Savepoint(savepoint_state') /\ Admitted
             /\ savepoint_ids' = Append(savepoint_ids, savepoint_state')
    <3>1. savepoint_state' \in Sid /\ ~needs_rollback
      BY <1>0, <2>4 DEF Sid, Admitted
    <3> QED
      BY <1>3, <2>1, <2>4, <3>1
  <2>5. CASE /\ savepoint_ids' = Append(savepoint_ids, NoSavepoint)
             /\ UNCHANGED <<engine, savepoint_state, needs_rollback>>
    <3>1. NoSavepoint \in Sid
      BY DEF Sid
    <3> QED
      BY <1>3, <2>1, <2>5, <3>1
  <2> QED
    BY <2>2, <2>3, <2>4, <2>5
<1> QED
  BY <1>1, <1>2, <1>4, <1>5

\* An inner block is left: its savepoint moves from the stack to exiting_sid.
LEMMA LeaveStack ==
  ASSUME Safe, NestingInv, OrderInv, StackInv, NEW raised \in BOOLEAN, LeaveBlock(raised)
  PROVE  StackInv'
<1>1. CASE savepoint_ids = <<>>
  BY <1>1 DEF LeaveBlock, StackInv
<1>2. CASE savepoint_ids # <<>>
  <2>1. /\ UNCHANGED <<in_transaction, savepoints, savepoint_state>> /\ exiting = "no"
        /\ savepoint_ids' = SubSeq(savepoint_ids, 1, Len(savepoint_ids) - 1)
        /\ exiting_sid' = savepoint_ids[Len(savepoint_ids)]
    BY <1>2 DEF LeaveBlock, engine
  <2>2. Bounded /\ Ordered /\ TypeOK
    BY SidsAreBounded DEF Safe
  <2>3. Sids' \subseteq Sids /\ (exiting_sid' # NoSavepoint => exiting_sid' \in Sids)
    BY <1>2, <2>1, <2>2, StackPopped
  <2>4. /\ InSavepoint' => exiting_sid' # NoSavepoint
        /\ needs_rollback => needs_rollback' \/ exiting' = "undo"
    BY <1>2 DEF LeaveBlock, InSavepoint
  <2>5. in_atomic_block /\ ~InSavepoint
    BY <1>2, <2>1 DEF NestingInv, InSavepoint
  <2> QED
    BY <2>1, <2>3, <2>4, <2>5 DEF StackInv
<1> QED
  BY <1>1, <1>2

\* The savepoint of a block that is left goes, or is rolled back to; those below it stay.
LEMMA SavepointStack ==
  ASSUME Safe, NestingInv, OrderInv, StackInv, ReleaseSavepoint \/ UndoToSavepoint \/ DropSavepoint
  PROVE  StackInv'
<1>1. /\ UNCHANGED <<Sids, savepoint_ids, exiting_sid, in_atomic_block>>
      /\ in_atomic_block /\ InSavepoint
  BY DEF ReleaseSavepoint, UndoToSavepoint, DropSavepoint, Sids, nesting, flags, NestingInv, InSavepoint
<1>2. ASSUME Admitted \/ in_transaction, exiting # "undo" \/ in_transaction
      PROVE  Sids \union {exiting_sid} \subseteq savepoints
  BY <1>1, <1>2 DEF StackInv, Admitted
<1>3. \A s \in Sids : s \in Nat /\ exiting_sid \in Nat /\ s < exiting_sid
  BY <1>1, SidsAreBounded DEF Safe, OrderInv, NestingInv, Bounded
<1>4. ASSUME Admitted, Release(exiting_sid), exiting' = "finish", exiting # "undo" PROVE StackInv'
  <2>1. Sids \subseteq savepoints'
    BY <1>2, <1>3, <1>4 DEF Release
  <2> QED
    BY <1>1, <1>4, <2>1 DEF StackInv, InSavepoint
<1>5. ASSUME NEW forced \in BOOLEAN, StatementFails(forced), forced \/ exiting' = "undo",
             exiting = "undo" => in_transaction
      PROVE  StackInv'
  <2>1. /\ needs_rollback \/ forced => needs_rollback'
        /\ \/ savepoints' = savepoints /\ (in_transaction' => in_transaction \/ ~needs_rollback)
           \/ ~in_transaction' /\ (in_atomic_block => needs_rollback')
    BY <1>5, FailureStack
  <2>2. Sids \union {exiting_sid} \subseteq savepoints \/ (~in_transaction /\ needs_rollback)
    BY <1>1, <1>5 DEF StackInv
  <2>3. needs_rollback' \/ exiting' = "undo"
    BY <1>5, <2>1
  <2> QED
    BY <1>1, <2>1, <2>2, <2>3 DEF StackInv
<1>6. CASE ReleaseSavepoint
  BY <1>4, <1>5, <1>6 DEF ReleaseSavepoint
<1>7. CASE UndoToSavepoint
  <2>1. CASE ~in_transaction
    BY <1>1, <1>7, <2>1 DEF UndoToSavepoint, StackInv, engine
  <2>2. CASE in_transaction /\ RollbackTo(exiting_sid)
    <3>1. Sids \union {exiting_sid} \subseteq savepoints'
      <4>1. Sids \subseteq savepoints /\ exiting_sid \in savepoints
        BY <1>2, <2>2
      <4>2. savepoints' = {t \in savepoints : t <= exiting_sid} /\ exiting_sid \in Nat
        BY <1>1, <2>2 DEF RollbackTo, NestingInv
      <4>3. \A s \in Sids : s <= exiting_sid
        BY <1>3
      <4> QED
        BY <4>1, <4>2, <4>3
    <3> QED
      BY <1>1, <3>1 DEF StackInv
  <2>3. CASE in_transaction /\ StatementFails(TRUE)
    BY <1>5, <2>3
  <2> QED
    BY <1>7, <2>1, <2>2, <2>3 DEF UndoToSavepoint
<1>8. CASE DropSavepoint
  <2>1. CASE Admitted /\ Release(exiting_sid)
    BY <1>4, <1>8, <2>1 DEF DropSavepoint
  <2>2. CASE StatementFails(TRUE)
    BY <1>5, <1>8, <2>2 DEF DropSavepoint
  <2> QED
    BY <1>8, <2>1, <2>2 DEF DropSavepoint
<1> QED
  BY <1>6, <1>7, <1>8

LEMMA StackStep ==
  ASSUME Safe, NestingInv, OrderInv, StackInv, [Next]_vars
  PROVE  StackInv'
<1>1. CASE CommitOnExit \/ RollbackOnExit \/ CloseOnExit
  <2>1. ~in_atomic_block
    BY <1>1 DEF CommitOnExit, RollbackOnExit, CloseOnExit, Safe, Control, AutocommitInv
  <2>2. in_atomic_block' = in_atomic_block
    BY <1>1 DEF CommitOnExit, RollbackOnExit, CloseOnExit, flags
  <2> QED
    BY <2>1, <2>2 DEF StackInv
<1>2. CASE FinishExit
  <2>1. /\ UNCHANGED <<Sids, engine, needs_rollback>> /\ exiting = "finish" /\ exiting' = "no"
        /\ in_atomic_block' => in_atomic_block
    BY <1>2 DEF FinishExit, Sids, nesting
  <2> QED
    BY <2>1 DEF StackInv, InSavepoint, engine
<1>3. ~RawBegin /\ ~RawEnd
  BY DEF RawBegin, RawEnd, Safe
<1> QED
  BY <1>1, <1>2, <1>3, StatementStack, EnterStack, LeaveStack, SavepointStack DEF Next
--------------------------------------------------------------------------------
(* What becomes of the work of a block.                                        *)

LEMMA FinalStays ==
  ASSUME TypeOK, EngineStep, NEW w \in Work, work[w] \in Final
  PROVE  work'[w] = work[w]
<1>1. CASE UNCHANGED work
  BY <1>1
<1>2. ASSUME NEW s, RollbackTo(s) PROVE work'[w] = work[w]
  BY <1>2, WorkAfter DEF Final
<1>3. ASSUME NEW status, EndTransaction(status) PROVE work'[w] = work[w]
  BY <1>3, WorkAfter DEF Final
<1>4. ASSUME NEW v \in Work, NEW tx \in BOOLEAN, work[v] = "new", Write({v}, tx) PROVE work'[w] = work[w]
  <2>1. w \notin {v}
    BY <1>4 DEF Final
  <2> QED
    BY <1>4, <2>1, WorkAfter
<1>5. ASSUME NEW tx \in BOOLEAN, Write({}, tx) PROVE work'[w] = work[w]
  BY <1>5, WorkAfter
<1> QED
  BY <1>1, <1>2, <1>3, <1>4, <1>5 DEF EngineStep, engine, Statement, Savepoint, Release

\* When the transaction of a managed block is lost, so is all that the block did in it.
LEMMA LostIsGone ==
  ASSUME TypeOK, UNCHANGED block, EndTransaction("lost"),
         \A w \in block : work[w] \in {"open", "undone"}
  PROVE  Gone(block)'
  BY WorkAfter DEF Gone, TypeOK

LEMMA GoneStays ==
  ASSUME TypeOK, EngineStep, UNCHANGED block, Gone(block)
  PROVE  Gone(block)'
  BY FinalStays DEF Gone, TypeOK, Final

\* The calls that neither begin nor end the exit of a managed block.
LEMMA OutcomeKept ==
  ASSUME Safe, BlockInv, OutcomeInv, EngineStep, UNCHANGED history,
         in_atomic_block' => in_atomic_block /\ UNCHANGED commit_on_exit,
         ~Leaving, ~Leaving',
         Abandoned' => ~in_transaction \/ EndTransaction("lost")
  PROVE  OutcomeInv'
<1> USE DEF history
<1>1. in_atomic_block' => outcome' = "none"
  BY DEF OutcomeInv
<1>2. Abandoned' => Gone(block)'
  <2>1. CASE Abandoned
    BY <2>1, GoneStays DEF OutcomeInv, Safe
  <2>2. CASE InManagedBlock /\ in_transaction /\ EndTransaction("lost")
    BY <2>2, LostIsGone DEF BlockInv, Safe
  <2> QED
    BY <2>1, <2>2 DEF Abandoned, InManagedBlock
<1>3. exiting' # "commit"
  BY DEF Leaving
<1>4. outcome' = "failed" => Gone(block)'
  BY GoneStays DEF OutcomeInv, Safe
<1>5. outcome' = "committed" => \A w \in block' : work'[w] \in {"committed", "undone"}
  BY FinalStays DEF OutcomeInv, Safe, TypeOK, Final
<1> QED
  BY <1>1, <1>2, <1>3, <1>4, <1>5 DEF OutcomeInv

LEMMA FailureOutcome ==
  ASSUME NEW forced \in BOOLEAN, StatementFails(forced), in_transaction
  PROVE  in_transaction' \/ EndTransaction("lost")
  BY DEF StatementFails, RefuseLostBlock, BlockLostTransaction, EngineFails, EnsuredTransaction, Statement,
         engine

LEMMA StatementOutcome ==
  ASSUME Safe, BlockInv, OutcomeInv, EngineStep,
         \/ \E w \in Work, returning \in BOOLEAN : Execute(w, returning)
         \/ Select \/ Fetch \/ StatementRaises
  PROVE  OutcomeInv'
<1> USE DEF flags, leaving
<1>1. exiting = "no" /\ UNCHANGED <<exiting, in_atomic_block, commit_on_exit>> /\ ~Leaving /\ ~Leaving'
  BY DEF Execute, Select, Fetch, StatementRaises, Checked, Ready, Leaving
<1>2. ASSUME in_transaction' = EnsuredTransaction, Admitted PROVE ~Abandoned'
  <2>1. CASE InManagedBlock
    BY <1>2, <2>1, AdmittedInTransaction DEF Abandoned, EnsuredTransaction
  <2>2. CASE ~InManagedBlock
    BY <1>1, <2>2 DEF Abandoned, InManagedBlock
  <2> QED
    BY <2>1, <2>2
<1>3. ASSUME NEW w \in Work, NEW returning \in BOOLEAN, Execute(w, returning) PROVE OutcomeInv'
  <2>1. /\ ~Abandoned' /\ outcome' = outcome
        /\ IF in_atomic_block THEN outcome = "none" ELSE UNCHANGED history
    <3>1. in_transaction' = EnsuredTransaction /\ Admitted
      BY <1>3 DEF Execute, Write
    <3> QED
      BY <1>2, <1>3, <3>1 DEF Execute, OutcomeInv, history
  <2>2. CASE in_atomic_block
    BY <1>1, <2>1, <2>2 DEF OutcomeInv, Leaving
  <2>3. CASE ~in_atomic_block
    BY <1>1, <2>1, <2>3, OutcomeKept
  <2> QED
    BY <2>2, <2>3
<1>4. CASE Select \/ Fetch
  <2>1. in_transaction' = EnsuredTransaction /\ Admitted /\ UNCHANGED history
    BY <1>4 DEF Select, Fetch, Statement, Write
  <2> QED
    BY <1>1, <1>2, <2>1, OutcomeKept
<1>5. CASE StatementRaises
  <2>1. StatementFails(FALSE) /\ UNCHANGED history
    BY <1>5 DEF StatementRaises
  <2>2. Abandoned' => ~in_transaction \/ EndTransaction("lost")
    BY <2>1, FailureOutcome DEF Abandoned
  <2> QED
    BY <1>1, <2>1, <2>2, OutcomeKept
<1> QED
  BY <1>3, <1>4, <1>5

LEMMA ConnectionOutcome ==
  ASSUME Safe, BlockInv, OutcomeInv, EngineStep,
         \/ Connect \/ ConnectFails \/ Close \/ HealthCheck \/ CloseIfUnusableOrObsolete
         \/ OnCommit \/ Commit \/ Rollback \/ UNCHANGED vars \/ FinishExit
         \/ \E value \in BOOLEAN : SetRollback(value) \/ SetAutocommit(value)
  PROVE  OutcomeInv'
<1> USE DEF flags, leaving
<1>1. CASE Connect \/ ConnectFails
  <2>1. in_atomic_block' = FALSE /\ UNCHANGED history /\ ~Leaving /\ ~Leaving'
    BY <1>1 DEF Connect, ConnectFails, ConnectResets, Leaving
  <2> QED
    BY <2>1, OutcomeKept DEF Abandoned, InManagedBlock
<1>2. CASE Close \/ HealthCheck \/ CloseIfUnusableOrObsolete
  <2>1. /\ UNCHANGED <<in_atomic_block, commit_on_exit, history, exiting>> /\ exiting = "no"
        /\ UNCHANGED engine \/ EndTransaction("lost")
    BY <1>2, CloseHasEffect
       DEF Close, HealthCheck, CloseIfUnusableOrObsolete, BoundaryInMemory, BoundaryFile, KeepConnection,
           CloseEffect, Safe, Ready
  <2> QED
    BY <2>1, OutcomeKept DEF Abandoned, Leaving, engine
<1>3. CASE FinishExit
  <2>1. /\ UNCHANGED <<commit_on_exit, history, engine>> /\ exiting = "finish" /\ exiting' = "no"
        /\ in_atomic_block' => in_atomic_block
    BY <1>3 DEF FinishExit
  <2> QED
    BY <2>1, OutcomeKept DEF Abandoned, Leaving, engine
<1>4. CASE OnCommit \/ (\E value \in BOOLEAN : SetRollback(value)) \/ UNCHANGED vars
  <2>1. UNCHANGED <<in_atomic_block, commit_on_exit, history, engine, exiting>>
    BY <1>4 DEF OnCommit, SetRollback, vars, wrapper
  <2>2. CASE ~Leaving
    BY <2>1, <2>2, OutcomeKept DEF Abandoned, Leaving, engine
  <2>3. CASE Leaving
    <3>1. UNCHANGED vars
      BY <1>4, <2>3 DEF OnCommit, SetRollback, Leaving
    <3> QED
      BY <3>1 DEF OutcomeInv, Abandoned, InManagedBlock, Gone, Leaving, vars, wrapper, engine, history
  <2> QED
    BY <2>2, <2>3
<1>5. CASE Commit \/ Rollback \/ \E value \in BOOLEAN : SetAutocommit(value)
  <2>1. /\ ~in_atomic_block /\ UNCHANGED <<in_atomic_block, exiting, history>> /\ exiting = "no"
    BY <1>5 DEF Commit, Rollback, SetAutocommit, Checked, Ready
  <2> QED
    BY <2>1, OutcomeKept DEF Abandoned, InManagedBlock, Leaving
<1> QED
  BY <1>1, <1>2, <1>3, <1>4, <1>5

LEMMA EnterOutcome ==
  ASSUME Safe, BlockInv, OutcomeInv, EngineStep,
         \/ EnterManagedBlock
         \/ \E savepoint \in BOOLEAN : EnterManualBlock(savepoint) \/ EnterInnerBlock(savepoint)
  PROVE  OutcomeInv'
<1> USE DEF flags, leaving
<1>1. exiting = "no" /\ UNCHANGED exiting /\ ~Leaving /\ ~Leaving'
  BY DEF EnterManagedBlock, EnterManualBlock, EnterInnerBlock, Checked, Ready, Leaving
<1>2. CASE EnterManagedBlock
  <2>1. CASE outcome' = "none" /\ in_transaction' = TRUE
    BY <1>1, <2>1 DEF OutcomeInv, Abandoned, Leaving
  <2>2. CASE UNCHANGED <<engine, in_atomic_block, history>> /\ ~in_atomic_block
    BY <1>1, <2>2, OutcomeKept DEF Abandoned, InManagedBlock
  <2> QED
    BY <1>2, <2>1, <2>2 DEF EnterManagedBlock, Statement
<1>3. ASSUME NEW savepoint \in BOOLEAN, EnterManualBlock(savepoint) PROVE OutcomeInv'
  <2>1. outcome' = "none" /\ commit_on_exit' = FALSE
    BY <1>3 DEF EnterManualBlock
  <2> QED
    BY <1>1, <2>1 DEF OutcomeInv, Abandoned, InManagedBlock, Leaving
<1>4. ASSUME NEW savepoint \in BOOLEAN, EnterInnerBlock(savepoint) PROVE OutcomeInv'
  <2>1. /\ UNCHANGED <<in_atomic_block, commit_on_exit, history>>
        /\ UNCHANGED engine \/ in_transaction' = TRUE \/ StatementFails(FALSE)
    BY <1>4 DEF EnterInnerBlock, Savepoint
  <2>2. Abandoned' => ~in_transaction \/ EndTransaction("lost")
    BY <2>1, FailureOutcome DEF Abandoned, engine
  <2> QED
    BY <1>1, <2>1, <2>2, OutcomeKept
<1> QED
  BY <1>2, <1>3, <1>4

LEMMA LeaveOutcome ==
  ASSUME Safe, BlockInv, NestingInv, OutcomeInv, EngineStep, NEW raised \in BOOLEAN, LeaveBlock(raised)
  PROVE  OutcomeInv'
<1>1. /\ exiting = "no" /\ depth > 0 /\ ~Leaving
      /\ UNCHANGED <<engine, in_transaction, work, commit_on_exit, closed_in_transaction, block>>
  BY DEF LeaveBlock, Leaving, engine
<1>2. CASE savepoint_ids # <<>>
  <2>1. UNCHANGED <<in_atomic_block, history>> /\ ~Leaving'
    BY <1>2 DEF LeaveBlock, Leaving, history
  <2> QED
    BY <1>1, <2>1, OutcomeKept DEF Abandoned
<1>3. CASE savepoint_ids = <<>>
  <2>1. InManagedBlock
    BY <1>1, <1>3 DEF NestingInv
  <2>2. /\ in_atomic_block' = FALSE /\ outcome' = "failed"
        /\ exiting' = "commit" => ~needs_rollback
        /\ ~Leaving' => closed_in_transaction
    BY <1>3 DEF LeaveBlock, Leaving
  <2>3. IF in_transaction THEN \A w \in block : work[w] \in {"open", "undone"} ELSE Gone(block)
    BY <2>1 DEF BlockInv, OutcomeInv, Abandoned
  <2>4. exiting' = "commit" => in_transaction
    BY <1>1, <2>1, <2>2 DEF Safe, Control, AbandonedIsMarked, Abandoned
  <2>5. ~Leaving' => ~in_transaction
    BY <2>2 DEF Safe, Control, ConnectionInv
  <2> QED
    BY <1>1, <2>2, <2>3, <2>4, <2>5 DEF OutcomeInv, Abandoned, InManagedBlock, Gone
<1> QED
  BY <1>2, <1>3

LEMMA SavepointOutcome ==
  ASSUME Safe, BlockInv, OutcomeInv, EngineStep, ReleaseSavepoint \/ UndoToSavepoint \/ DropSavepoint
  PROVE  OutcomeInv'
<1>1. UNCHANGED <<in_atomic_block, commit_on_exit, history>> /\ ~Leaving /\ ~Leaving'
  BY DEF ReleaseSavepoint, UndoToSavepoint, DropSavepoint, Leaving, flags
<1>2. UNCHANGED in_transaction \/ \E forced \in BOOLEAN : StatementFails(forced)
  BY DEF ReleaseSavepoint, UndoToSavepoint, DropSavepoint, Release, RollbackTo, engine
<1>3. Abandoned' => ~in_transaction \/ EndTransaction("lost")
  BY <1>2, FailureOutcome DEF Abandoned
<1> QED
  BY <1>1, <1>3, OutcomeKept

LEMMA ExitOutcome ==
  ASSUME Safe, BlockInv, OutcomeInv, EngineStep, CommitOnExit \/ RollbackOnExit \/ CloseOnExit
  PROVE  OutcomeInv'
<1>1. Leaving /\ outcome = "failed" /\ in_atomic_block' = FALSE /\ UNCHANGED block
  BY DEF CommitOnExit, RollbackOnExit, CloseOnExit, Leaving, OutcomeInv, Safe, Control, AutocommitInv, flags,
         history
<1>2. CASE /\ outcome' = outcome
           /\ UNCHANGED engine \/ EndTransaction("lost")
           /\ exiting' \in {"rollback", "close"} \/ (exiting' = "finish" /\ ~in_transaction')
  <2>1. IF in_transaction' THEN UNCHANGED engine /\ \A w \in block : work[w] \in {"open", "undone"}
                           ELSE Gone(block)'
    <3>1. CASE in_transaction
      BY <1>1, <1>2, <3>1, LostIsGone DEF OutcomeInv, EndTransaction, Safe, engine
    <3>2. CASE ~in_transaction
      BY <1>1, <1>2, <3>2, GoneStays DEF OutcomeInv, EndTransaction, Safe, engine
    <3> QED
      BY <3>1, <3>2
  <2> QED
    BY <1>1, <1>2, <2>1 DEF OutcomeInv, Abandoned, InManagedBlock, Leaving, engine
<1>3. CASE CommitOnExit /\ DriverCommits /\ exiting' = "finish" /\ outcome' = "committed"
  <2>1. \A w \in block : work[w] \in {"open", "undone"}
    BY <1>1, <1>3 DEF OutcomeInv, CommitOnExit
  <2>2. \A w \in block : work'[w] \in {"committed", "undone"}
    BY <1>3, <2>1, WorkAfter DEF DriverCommits, Safe, TypeOK
  <2> QED
    BY <1>1, <1>3, <2>2 DEF OutcomeInv, Abandoned, InManagedBlock, Leaving
<1>4. CASE CloseOnExit
  <2>1. CloseEffect /\ exiting' = "finish" /\ outcome' = outcome
    BY <1>4, CloseHasEffect DEF CloseOnExit, Safe, history
  <2> QED
    BY <1>2, <2>1 DEF CloseEffect
<1>5. CASE RollbackOnExit
  BY <1>2, <1>5 DEF RollbackOnExit, DriverFails, EndTransaction, history
<1>6. CASE CommitOnExit
  BY <1>2, <1>3, <1>6 DEF CommitOnExit, DriverFails
<1> QED
  BY <1>4, <1>5, <1>6

LEMMA OutcomeStep ==
  ASSUME Safe, BlockInv, NestingInv, OutcomeInv, [Next]_vars
  PROVE  OutcomeInv'
<1>1. EngineStep
  BY StepIsEngineStep
<1>2. ~RawBegin /\ ~RawEnd
  BY DEF RawBegin, RawEnd, Safe
<1> QED
  BY <1>1, <1>2, StatementOutcome, ConnectionOutcome, EnterOutcome, LeaveOutcome, SavepointOutcome, ExitOutcome
     DEF Next
--------------------------------------------------------------------------------
(* The theorems.                                                               *)

LEMMA WrapperInit == Init => WrapperInv
<1> SUFFICES ASSUME Init PROVE WrapperInv
  OBVIOUS
<1>1. IInv
  BY InvariantInit
<1>2. IdleInv /\ StackInv
  BY DEF Init, EngineInit, IdleInv, AutocommitMeansIdle, StackInv
<1>3. NestingInv
  BY DEF Init, NestingInv, InManagedBlock, InSavepoint
<1>4. OrderInv
  BY DEF Init, OrderInv, Sids
<1>5. OutcomeInv
  BY DEF Init, OutcomeInv, Abandoned, InManagedBlock, Leaving
<1> QED
  BY <1>1, <1>2, <1>3, <1>4, <1>5 DEF WrapperInv, BlocksInv

\* What Django and the engine each believe of the blocks that are open, of the savepoints
\* of the inner ones and of the work done in them agrees after every call of the wrapper,
\* whatever fails, in every application that leaves the engine's transactions to it.
THEOREM WrapperInvariant ==
  ASSUME ~Unchecked
  PROVE  Spec => []WrapperInv
<1>1. WrapperInv /\ [Next]_vars => BlocksInv'
  <2> SUFFICES ASSUME WrapperInv, [Next]_vars PROVE BlocksInv'
    OBVIOUS
  <2>1. Safe /\ BlockInv /\ IdleInv /\ NestingInv /\ OrderInv /\ StackInv /\ OutcomeInv
    BY DEF WrapperInv, BlocksInv, IInv, Safe
  <2> QED
    BY <2>1, IdleStep, NestingStep, StackStep, OutcomeStep DEF BlocksInv
<1>2. WrapperInv <=> IInv /\ BlocksInv
  BY DEF WrapperInv
<1> QED
  BY <1>1, <1>2, WrapperInit, InvariantHolds, PTL DEF Spec

\* While an outermost block that commits on exit is open, leaving an inner block commits
\* nothing and loses no part: all its work is open, or all of it is lost, but for what a
\* savepoint took back.  Once it has been left its work is committed as a whole or gone as a
\* whole: Atomic.__exit__ over commit(), rollback(), close() and _django_transaction(), any
\* call of which may fail.
THEOREM BlocksAreAtomic ==
  ASSUME ~Unchecked
  PROVE  Spec => []BlockIsAtomic
<1>1. WrapperInv => BlockIsAtomic
  <2> SUFFICES ASSUME WrapperInv PROVE BlockIsAtomic
    OBVIOUS
  <2>1. ASSUME in_atomic_block, commit_on_exit
        PROVE  \E fate \in {"open", "lost"} : \A w \in block : work[w] \in {fate, "undone"}
    <3>1. CASE in_transaction
      BY <2>1, <3>1 DEF WrapperInv, IInv, BlockInv, InManagedBlock
    <3>2. CASE ~in_transaction
      BY <2>1, <3>2 DEF WrapperInv, BlocksInv, OutcomeInv, Abandoned, InManagedBlock, Gone
    <3> QED
      BY <3>1, <3>2
  <2>2. exiting = "no" /\ ~in_atomic_block =>
          /\ outcome = "committed" => \A w \in block : work[w] \in {"committed", "undone"}
          /\ outcome = "failed"    => \A w \in block : work[w] \in {"lost", "undone"}
    BY DEF WrapperInv, BlocksInv, OutcomeInv, Leaving, Gone
  <2> QED
    BY <2>1, <2>2 DEF BlockIsAtomic
<1> QED
  BY <1>1, WrapperInvariant, PTL

\* Inside a block that is not marked for rollback, the engine has the block's transaction
\* and every savepoint that _savepoint_commit() or _savepoint_rollback() will name.
THEOREM StackIsOpen ==
  ASSUME ~Unchecked
  PROVE  Spec => []SavepointsAreOpen
<1>1. WrapperInv => SavepointsAreOpen
  <2> SUFFICES ASSUME WrapperInv, in_atomic_block, ~needs_rollback, exiting = "no"
               PROVE  /\ commit_on_exit => in_transaction
                      /\ \A i \in DOMAIN savepoint_ids :
                           savepoint_ids[i] # NoSavepoint => savepoint_ids[i] \in savepoints
    BY DEF SavepointsAreOpen
  <2>1. commit_on_exit => in_transaction
    BY DEF WrapperInv, IInv, Control, AbandonedIsMarked, Abandoned, InManagedBlock
  <2>2. Sids \subseteq savepoints
    BY DEF WrapperInv, BlocksInv, StackInv
  <2> QED
    BY <2>1, <2>2 DEF Sids
<1> QED
  BY <1>1, WrapperInvariant, PTL

\* Autocommit is never on over a transaction that still holds work (_set_autocommit()
\* refuses it, and every path that turns autocommit on goes through that check).
THEOREM AutocommitOverNothing ==
  ASSUME ~Unchecked
  PROVE  Spec => []AutocommitMeansIdle
<1>1. WrapperInv => AutocommitMeansIdle
  BY DEF WrapperInv, BlocksInv, IdleInv
<1> QED
  BY <1>1, WrapperInvariant, PTL

\* Leaving the last block brings autocommit back to what it was when that block was
\* entered, whatever failed on the way out (Atomic.__exit__ and _set_autocommit()).
THEOREM ExitIsClean ==
  ASSUME ~Unchecked
  PROVE  Spec => ExitRestoresAutocommit
<1> DEFINE Restored == Autocommit /\ exiting # "no" /\ exiting' = "no" /\ ~in_atomic_block'
                         /\ connection = "open" /\ connection' = "open"
                       => autocommit' = commit_on_exit
<1>1. WrapperInv /\ [Next]_vars => [Restored]_vars
  <2> SUFFICES ASSUME WrapperInv, Next, Autocommit, exiting # "no", exiting' = "no", ~in_atomic_block',
                      connection = "open", connection' = "open"
               PROVE  autocommit' = commit_on_exit
    OBVIOUS
  <2>1. FinishExit
    <3>1. ConnectFails => connection = "none"
      BY DEF ConnectFails, ConnectResets
    <3>2. ~ \E raised \in BOOLEAN : LeaveBlock(raised)
      BY DEF LeaveBlock
    <3> QED
      BY <3>1, <3>2 DEF Next, Execute, Select, Fetch, StatementRaises, Connect, Close, HealthCheck, leaving,
           CloseIfUnusableOrObsolete, EnterManagedBlock, EnterManualBlock, EnterInnerBlock, Checked, Ready,
           ReleaseSavepoint, UndoToSavepoint, DropSavepoint, CommitOnExit, RollbackOnExit, CloseOnExit,
           OnCommit, SetRollback, SetAutocommit, Commit, Rollback, RawBegin, RawEnd, wrapper
  <2>2. autocommit \in BOOLEAN /\ commit_on_exit \in BOOLEAN /\ IdleInv /\ NestingInv
    BY DEF WrapperInv, BlocksInv, IInv, TypeOK
  <2>3. CASE ~in_atomic_block
    <3>1. commit_on_exit = TRUE /\ ~in_transaction
      BY <2>1, <2>2, <2>3 DEF FinishExit, IdleInv, NestingInv
    <3>2. EnableAutocommit
      BY <2>1, <2>3 DEF FinishExit
    <3> QED
      BY <3>1, <3>2 DEF EnableAutocommit
  <2>4. CASE in_atomic_block
    <3>1. ~commit_on_exit /\ autocommit' = autocommit /\ ~autocommit
      BY <2>1, <2>2, <2>4 DEF FinishExit, IdleInv
    <3> QED
      BY <2>2, <3>1
  <2> QED
    BY <2>3, <2>4
<1> QED
  BY <1>1, WrapperInvariant, PTL DEF Spec, ExitRestoresAutocommit

\* An in-memory database survives every close and request boundary that finds the wrapper
\* in a healthy state (close(), close_if_unusable_or_obsolete(), _force_close()), in every
\* application, those that run transaction SQL of their own included.
THEOREM HealthyMemoryKept == Spec => MemoryDatabaseKept
<1> DEFINE ClosedIsNotOpen == closed_in_transaction => connection # "open"
           Kept == InMemory /\ connection = "open" /\ connection' # "open" =>
                     \/ in_atomic_block \/ in_transaction \/ autocommit # Autocommit
                     \/ errors_occurred \/ health_check_due
<1>1. Init => ClosedIsNotOpen
  BY DEF Init
<1>2. ASSUME ClosedIsNotOpen, [Next]_vars
      PROVE  \/ UNCHANGED <<connection, closed_in_transaction>>
             \/ Connect \/ ConnectFails \/ Close \/ HealthCheck \/ CloseIfUnusableOrObsolete
             \/ CloseOnExit \/ FinishExit
  BY <1>2 DEF Next, Execute, Select, Fetch, StatementRaises, flags, EnterManagedBlock, EnterManualBlock,
       EnterInnerBlock, LeaveBlock, ReleaseSavepoint, UndoToSavepoint, DropSavepoint, CommitOnExit,
       RollbackOnExit, OnCommit, SetRollback, SetAutocommit, Commit, Rollback, RawBegin, RawEnd, wrapper, vars
<1>3. ASSUME ClosedIsNotOpen, [Next]_vars PROVE ClosedIsNotOpen' /\ [Kept]_vars
  <2>1. CASE UNCHANGED <<connection, closed_in_transaction>>
    BY <1>3, <2>1
  <2>2. CASE Connect \/ ConnectFails
    BY <2>2 DEF Connect, ConnectFails, ConnectResets
  <2>3. CASE FinishExit
    BY <1>3, <2>3 DEF FinishExit
  <2>4. CASE Close \/ CloseOnExit
    BY <1>3, <2>4 DEF Close, CloseOnExit, CloseOpen, ForceClose
  <2>5. CASE HealthCheck
    BY <1>3, <2>5 DEF HealthCheck, ForceClose
  <2>6. CASE CloseIfUnusableOrObsolete
    <3>1. CASE InMemory
      BY <1>3, <2>6, <3>1 DEF CloseIfUnusableOrObsolete, BoundaryInMemory, Drifted, KeepConnection, ForceClose
    <3>2. CASE ~InMemory
      BY <1>3, <2>6, <3>2 DEF CloseIfUnusableOrObsolete, BoundaryFile, KeepConnection, CloseOpen, ForceClose
    <3> QED
      BY <3>1, <3>2
  <2> QED
    BY <1>2, <1>3, <2>1, <2>2, <2>3, <2>4, <2>5, <2>6
<1> QED
  BY <1>1, <1>3, PTL DEF Spec, MemoryDatabaseKept

\* No in-memory connection passes a request boundary with the wrong autocommit mode or
\* over an engine transaction that the wrapper does not know of, in every application
\* (close_if_unusable_or_obsolete()).
THEOREM BoundaryRepairs == Spec => BoundaryEndsDrift
<1> DEFINE Repaired == InMemory /\ CloseIfUnusableOrObsolete /\ connection' = "open" =>
                         autocommit' = Autocommit /\ ~(autocommit' /\ in_transaction')
<1>1. [Next]_vars => [Repaired]_vars
  <2> SUFFICES ASSUME InMemory, CloseIfUnusableOrObsolete, connection' = "open"
               PROVE  autocommit' = Autocommit /\ ~(autocommit' /\ in_transaction')
    OBVIOUS
  <2> QED
    BY DEF CloseIfUnusableOrObsolete, BoundaryInMemory, Drifted, KeepConnection, ForceClose, EndTransaction,
           engine
<1> QED
  BY <1>1, PTL DEF Spec, BoundaryEndsDrift
================================================================================
