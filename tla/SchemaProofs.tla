------------------------------ MODULE SchemaProofs -----------------------------
(******************************************************************************)
(* Theorems of SchemaEditor, for every set of work, every transaction mode    *)
(* and both kinds of database.                                                *)
(******************************************************************************)
EXTENDS SchemaEditor, EngineProofs

(* Typing.  First what the connection's statements do, then the actions.       *)

LEMMA StatementTypes ==
  ASSUME TypeOK
  PROVE  /\ Ensured \in BOOLEAN
         /\ Statement(Ensured) /\ BeginsAs(Ensured) => EngineTypeOK' /\ begun' \in Modes
         /\ StatementFails => EngineTypeOK' /\ begun' \in Modes /\ needs_rollback' \in BOOLEAN
         /\ \A enabled \in BOOLEAN : SettingRaises(enabled) =>
              EngineTypeOK' /\ begun' \in Modes /\ needs_rollback' \in BOOLEAN /\ foreign_keys' \in BOOLEAN
         /\ ForceClose => EngineTypeOK' /\ connection' \in {"none", "open", "closed"}
                            /\ needs_rollback' \in BOOLEAN
         /\ \A w : Edit(w) /\ w \in Work => EngineTypeOK' /\ begun' \in Modes /\ edited' \subseteq Work
<1> USE DEF TypeOK, BeginsAs
<1>1. Ensured \in BOOLEAN
  BY DEF Ensured, autocommit, EngineTypeOK
<1>2. Statement(Ensured) /\ BeginsAs(Ensured) => EngineTypeOK' /\ begun' \in Modes
  BY <1>1, EngineType
<1>3. EndTransaction("lost") => EngineTypeOK'
  BY EngineType DEF Status
<1>4. UNCHANGED engine => EngineTypeOK'
  BY EngineType
<1>5. StatementFails => EngineTypeOK' /\ begun' \in Modes /\ needs_rollback' \in BOOLEAN
  BY <1>2, <1>3, <1>4 DEF StatementFails
<1>6. ASSUME NEW enabled \in BOOLEAN, SettingRaises(enabled)
      PROVE  /\ EngineTypeOK' /\ begun' \in Modes
             /\ needs_rollback' \in BOOLEAN /\ foreign_keys' \in BOOLEAN
  BY <1>2, <1>5, <1>6 DEF SettingRaises, StatementRuns
<1>7. ForceClose => /\ EngineTypeOK' /\ connection' \in {"none", "open", "closed"}
                    /\ needs_rollback' \in BOOLEAN
  BY <1>3, <1>4 DEF ForceClose
<1>8. ASSUME NEW w \in Work, Edit(w)
      PROVE  EngineTypeOK' /\ begun' \in Modes /\ edited' \subseteq Work
  <2>1. EngineTypeOK'
    BY <1>1, <1>8, EngineType DEF Edit
  <2> QED
    BY <1>8, <2>1 DEF Edit
<1> QED
  BY <1>1, <1>2, <1>5, <1>6, <1>7, <1>8

LEMMA AroundTypes ==
  ASSUME TypeOK,
         \/ Connect \/ ChooseEnforcement \/ LeaveOuter
         \/ \E kind \in {"atomic", "manual"} : EnterOuter(kind)
         \/ \E atomic \in BOOLEAN : Enter(atomic)
         \/ UNCHANGED vars
  PROVE  TypeOK'
<1> USE DEF TypeOK, database, saved, blocks, marks, settings, history
<1>1. CASE Connect
  <2>1. EngineTypeOK'
    BY <1>1, EngineType DEF Connect
  <2>2. enforced' \in BOOLEAN
    BY <1>1 DEF Connect
  <2>3. transaction_mode' \in Modes
    BY <1>1, EditorAssumption DEF Connect
  <2> QED
    BY <1>1, <2>1, <2>2, <2>3 DEF Connect
<1>2. CASE ChooseEnforcement
  BY <1>2, EngineType DEF ChooseEnforcement
<1>3. CASE LeaveOuter
  <2>1. EngineTypeOK'
    BY <1>3, EngineType DEF LeaveOuter, Status
  <2>2. /\ outer' = "none" /\ needs_rollback' = FALSE
        /\ connection' \in {"none", "open", "closed"}
    BY <1>3 DEF LeaveOuter
  <2>3. UNCHANGED <<database, settings, begun, raised, block, inner, step, atomic_migration, saved,
                    deferred_sql, history>>
    BY <1>3 DEF LeaveOuter
  <2>4. /\ mode' \in Configured /\ in_memory' \in BOOLEAN /\ transaction_mode' \in Modes /\ foreign_keys' \in BOOLEAN
        /\ begun' \in Modes /\ step' \in Steps /\ raised' \in BOOLEAN
    BY <2>3
  <2>5. /\ block' \in BOOLEAN /\ inner' \in BOOLEAN /\ atomic_migration' \in BOOLEAN /\ deferred_sql' \subseteq Work
        /\ enforced' \in BOOLEAN /\ reconnected' \in BOOLEAN /\ edited' \subseteq Work
    BY <2>3
  <2>6. /\ original_foreign_keys' \in {"unset", "on", "off"}
        /\ original_transaction_mode' \in Modes \union {"unset"}
    BY <2>3
  <2> QED
    BY <2>1, <2>2, <2>4, <2>5, <2>6
<1>4. ASSUME NEW kind \in {"atomic", "manual"}, EnterOuter(kind) PROVE TypeOK'
  <2>1. EngineTypeOK'
    BY <1>4, EngineType DEF EnterOuter
  <2>2. begun' \in Modes
    BY <1>4 DEF EnterOuter, BeginsAs
  <2>3. /\ outer' \in {"none", "atomic", "manual"} /\ needs_rollback' \in BOOLEAN /\ edited' \subseteq Work
        /\ UNCHANGED <<database, connection, settings, raised, block, inner, step, atomic_migration, saved,
                       deferred_sql, enforced, reconnected>>
    BY <1>4 DEF EnterOuter
  <2> QED
    BY <2>1, <2>2, <2>3
<1>5. ASSUME NEW atomic \in BOOLEAN, Enter(atomic) PROVE TypeOK'
  <2>1. EngineTypeOK'
    BY <1>5, EngineType DEF Enter
  <2>2. edited' \subseteq Work
    BY <1>5 DEF Enter
  <2>3. step' \in Steps
    BY <1>5 DEF Enter, Steps
  <2>4. /\ atomic_migration' \in BOOLEAN /\ raised' \in BOOLEAN
        /\ enforced' \in BOOLEAN /\ reconnected' \in BOOLEAN
    BY <1>5 DEF Enter
  <2>5. UNCHANGED <<database, connection, settings, begun, needs_rollback, blocks, saved, deferred_sql>>
    BY <1>5 DEF Enter
  <2> QED
    BY <2>1, <2>2, <2>3, <2>4, <2>5
<1>6. CASE UNCHANGED vars
  BY <1>6, EngineType DEF vars
<1> QED
  BY <1>1, <1>2, <1>3, <1>4, <1>5, <1>6

LEMMA EnterTypes ==
  ASSUME TypeOK, ReadOriginal \/ DisableEnforcement \/ BeginEditing
  PROVE  TypeOK'
<1> USE DEF TypeOK, database, saved, blocks, marks, settings, history
<1>1. CASE ReadOriginal
  <2>1. /\ EngineTypeOK' /\ begun' \in Modes /\ needs_rollback' \in BOOLEAN
        /\ connection' \in {"none", "open", "closed"}
    BY <1>1, StatementTypes DEF ReadOriginal, StatementRuns
  <2>2. step' \in Steps
    BY <1>1 DEF ReadOriginal, Steps
  <2> QED
    BY <1>1, <2>1, <2>2 DEF ReadOriginal
<1>2. CASE DisableEnforcement
  <2>1. /\ EngineTypeOK' /\ begun' \in Modes
        /\ needs_rollback' \in BOOLEAN /\ foreign_keys' \in BOOLEAN
    BY <1>2, StatementTypes, EngineType DEF DisableEnforcement, SetsForeignKeys, StatementRuns
  <2>2. step' \in Steps /\ transaction_mode' \in Modes
        /\ original_transaction_mode' \in Modes \union {"unset"}
    BY <1>2 DEF DisableEnforcement, OnEnterError, Modes, Steps
  <2> QED
    BY <1>2, <2>1, <2>2 DEF DisableEnforcement
<1>3. CASE BeginEditing
  <2>1. EngineTypeOK' /\ begun' \in Modes /\ needs_rollback' \in BOOLEAN
    <3>1. EngineTypeOK'
      BY <1>3, StatementTypes, EngineType DEF BeginEditing
    <3> QED
      BY <1>3, <3>1, StatementTypes DEF BeginEditing, BeginsAs
  <2>2. step' \in Steps /\ block' \in BOOLEAN /\ deferred_sql' \subseteq Work
    BY <1>3 DEF BeginEditing, OnEnterError, Steps
  <2>3. UNCHANGED <<database, connection, settings, raised, outer, inner, atomic_migration, saved, history>>
    BY <1>3 DEF BeginEditing
  <2> QED
    BY <2>1, <2>2, <2>3
<1> QED
  BY <1>1, <1>2, <1>3

LEMMA BodyTypes ==
  ASSUME TypeOK,
         \/ \E w \in Work : Alter(w) \/ Defer(w)
         \/ AlterFails \/ BeginInner \/ EndInner \/ CloseInBody
         \/ \E exception \in BOOLEAN : EndBody(exception)
  PROVE  TypeOK'
<1> USE DEF TypeOK, database, saved, blocks, marks, settings, history
<1>1. ASSUME NEW w \in Work, Alter(w) PROVE TypeOK'
  BY <1>1, StatementTypes DEF Alter
<1>2. ASSUME NEW w \in Work, Defer(w) PROVE TypeOK'
  BY <1>2, EngineType DEF Defer
<1>3. CASE AlterFails
  BY <1>3, StatementTypes DEF AlterFails
<1>4. CASE BeginInner
  <2>1. EngineTypeOK'
    BY <1>4, EngineType DEF BeginInner
  <2>2. begun' \in Modes
    BY <1>4 DEF BeginInner, BeginsAs
  <2>3. /\ inner' \in BOOLEAN /\ needs_rollback' \in BOOLEAN
        /\ UNCHANGED <<database, connection, settings, raised, outer, block, step, atomic_migration, saved,
                       deferred_sql, history>>
    BY <1>4 DEF BeginInner
  <2> QED
    BY <2>1, <2>2, <2>3
<1>5. CASE EndInner
  <2>1. EngineTypeOK'
    BY <1>5, EngineType DEF EndInner, Status
  <2>2. /\ inner' \in BOOLEAN /\ needs_rollback' \in BOOLEAN
        /\ connection' \in {"none", "open", "closed"}
    BY <1>5 DEF EndInner
  <2>3. UNCHANGED <<database, settings, begun, raised, outer, block, step, atomic_migration, saved,
                    deferred_sql, history>>
    BY <1>5 DEF EndInner
  <2> QED
    BY <2>1, <2>2, <2>3
<1>6. CASE CloseInBody
  <2>1. /\ EngineTypeOK' /\ connection' \in {"none", "open", "closed"}
        /\ needs_rollback' \in BOOLEAN
    BY <1>6, StatementTypes, EngineType DEF CloseInBody, Status
  <2> QED
    BY <1>6, <2>1 DEF CloseInBody
<1>7. ASSUME NEW exception \in BOOLEAN, EndBody(exception) PROVE TypeOK'
  <2>1. EngineTypeOK'
    BY <1>7, EngineType DEF EndBody
  <2>2. step' \in Steps
    BY <1>7 DEF EndBody, Steps
  <2> QED
    BY <1>7, <2>1, <2>2 DEF EndBody
<1> QED
  BY <1>1, <1>2, <1>3, <1>4, <1>5, <1>6, <1>7

LEMMA ExitTypes ==
  ASSUME TypeOK, RunDeferred \/ CheckConstraints \/ Leave \/ RunHooks \/ Restore
  PROVE  TypeOK'
<1> USE DEF TypeOK, database, saved, blocks, marks, settings, history
<1>1. CASE RunDeferred
  <2>1. CASE deferred_sql = {} /\ UNCHANGED <<engine, begun, marks, deferred_sql, edited>>
    <3>1. EngineTypeOK' /\ step' \in Steps
      BY <1>1, <2>1, EngineType DEF RunDeferred, Steps
    <3> QED
      BY <1>1, <2>1, <3>1 DEF RunDeferred
  <2>2. ASSUME NEW w \in deferred_sql, Edit(w), deferred_sql' = deferred_sql \ {w},
               UNCHANGED <<marks, step>>
        PROVE  TypeOK'
    BY <1>1, <2>2, StatementTypes DEF RunDeferred
  <2>3. CASE StatementFails /\ deferred_sql' = {} /\ raised' = TRUE /\ OnDeferredError
             /\ UNCHANGED edited
    <3>1. step' \in Steps
      BY <2>3 DEF OnDeferredError, Steps
    <3> QED
      BY <1>1, <2>3, <3>1, StatementTypes DEF RunDeferred
  <2> QED
    BY <1>1, <2>1, <2>2, <2>3 DEF RunDeferred
<1>2. CASE CheckConstraints
  <2>1. /\ EngineTypeOK' /\ begun' \in Modes /\ needs_rollback' \in BOOLEAN
    BY <1>2, StatementTypes DEF CheckConstraints, StatementRuns
  <2>2. raised' \in BOOLEAN /\ step' \in Steps
    BY <1>2 DEF CheckConstraints, Violated, Steps
  <2> QED
    BY <1>2, <2>1, <2>2 DEF CheckConstraints
<1>3. CASE Leave
  <2>1. EngineTypeOK'
    BY <1>3, EngineType DEF Leave, LeaveBlock, LeaveSavepoint, Status
  <2>2. /\ connection' \in {"none", "open", "closed"} /\ needs_rollback' \in BOOLEAN
        /\ raised' \in BOOLEAN /\ step' \in Steps
    BY <1>3 DEF Leave, LeaveBlock, LeaveSavepoint, Steps
  <2>3. /\ block' = FALSE
        /\ UNCHANGED <<database, settings, begun, outer, inner, atomic_migration, saved, deferred_sql, history>>
    BY <1>3 DEF Leave
  <2>4. /\ mode' \in Configured /\ in_memory' \in BOOLEAN /\ transaction_mode' \in Modes /\ foreign_keys' \in BOOLEAN
        /\ begun' \in Modes /\ outer' \in {"none", "atomic", "manual"} /\ inner' \in BOOLEAN
    BY <2>3
  <2>5. /\ atomic_migration' \in BOOLEAN /\ deferred_sql' \subseteq Work
        /\ enforced' \in BOOLEAN /\ reconnected' \in BOOLEAN /\ edited' \subseteq Work
        /\ original_foreign_keys' \in {"unset", "on", "off"}
        /\ original_transaction_mode' \in Modes \union {"unset"}
    BY <2>3
  <2> QED
    BY <2>1, <2>2, <2>3, <2>4, <2>5
<1>4. CASE RunHooks
  <2>1. EngineTypeOK'
    BY <1>4, EngineType DEF RunHooks
  <2>2. step' \in Steps
    BY <1>4 DEF RunHooks, Steps
  <2>3. UNCHANGED <<database, connection, settings, begun, marks, blocks, atomic_migration, saved, deferred_sql,
                    history>>
    BY <1>4 DEF RunHooks
  <2> QED
    BY <2>1, <2>2, <2>3
<1>5. CASE Restore
  <2>1. /\ EngineTypeOK' /\ begun' \in Modes /\ needs_rollback' \in BOOLEAN
        /\ connection' \in {"none", "open", "closed"} /\ foreign_keys' \in BOOLEAN
    BY <1>5, StatementTypes DEF Restore, SetsForeignKeys, StatementRuns
  <2>2. step' \in Steps /\ transaction_mode' \in Modes
        /\ original_transaction_mode' \in Modes \union {"unset"}
    BY <1>5 DEF Restore, Steps
  <2> QED
    BY <1>5, <2>1, <2>2 DEF Restore
<1> QED
  BY <1>1, <1>2, <1>3, <1>4, <1>5

LEMMA EditorTypeStep == TypeOK /\ [Next]_vars => TypeOK'
  BY AroundTypes, EnterTypes, BodyTypes, ExitTypes DEF Next, EditorStep

LEMMA EditorTypeInit == Init => TypeOK
<1> SUFFICES ASSUME Init PROVE TypeOK
  OBVIOUS
<1>1. EngineTypeOK
  BY DEF Init, EngineInit, EngineTypeOK, Status
<1> QED
  BY <1>1, EditorAssumption DEF Init, TypeOK, Steps, Modes

\* Every state of an editor and of the connection around it is of its type.
THEOREM EditorTypes == Spec => []TypeOK
  BY EditorTypeInit, EditorTypeStep, PTL DEF Spec
--------------------------------------------------------------------------------
(* What the editor remembers, and restores.                                    *)

\* What the editor remembers is what the application chose, until it is put back.
Remembered ==
  /\ step \in {"outside", "read"} =>
       /\ original_foreign_keys = "unset"
       /\ original_transaction_mode = "unset"
       /\ connection = "open" => foreign_keys = enforced
  /\ step \notin {"outside", "read"} => (original_foreign_keys = "on") = enforced
  /\ step = "read" => connection = "open"
  /\ step = "disable" => original_transaction_mode = "unset"
  /\ original_transaction_mode \in {"unset", mode}
  /\ original_transaction_mode = "unset" => transaction_mode = mode

Flags ==
  /\ foreign_keys \in BOOLEAN
  /\ enforced \in BOOLEAN

EditorInv == Flags /\ Remembered

LEMMA EditorInit == Init => EditorInv
  BY DEF Init, EditorInv, Flags, Remembered

LEMMA AroundEditor ==
  ASSUME EditorInv,
         \/ Connect \/ ChooseEnforcement \/ LeaveOuter
         \/ \E kind \in {"atomic", "manual"} : EnterOuter(kind)
  PROVE  EditorInv'
<1> USE DEF EditorInv, Flags, Remembered, database, saved, settings, history
<1>1. CASE Connect
  BY <1>1 DEF Connect
<1>2. CASE ChooseEnforcement
  BY <1>2 DEF ChooseEnforcement
<1>3. CASE LeaveOuter
  BY <1>3 DEF LeaveOuter
<1>4. ASSUME NEW kind, EnterOuter(kind) PROVE EditorInv'
  BY <1>4 DEF EnterOuter
<1> QED
  BY <1>1, <1>2, <1>3, <1>4

LEMMA EnterEditor ==
  ASSUME EditorInv,
         \/ \E atomic \in BOOLEAN : Enter(atomic)
         \/ ReadOriginal \/ DisableEnforcement \/ BeginEditing
  PROVE  EditorInv'
<1> USE DEF EditorInv, Flags, Remembered, database, saved, settings, history
<1>1. ASSUME NEW atomic, Enter(atomic) PROVE EditorInv'
  BY <1>1 DEF Enter
<1>2. CASE ReadOriginal
  <2>1. connection' # "open" \/ connection' = connection
    BY <1>2 DEF ReadOriginal, ForceClose
  <2> QED
    BY <1>2, <2>1 DEF ReadOriginal
<1>3. CASE DisableEnforcement
  <2>1. foreign_keys' \in BOOLEAN
    BY <1>3 DEF DisableEnforcement, SetsForeignKeys, SettingRaises
  <2>2. step' \in {"begin", "restore"} /\ UNCHANGED <<original_foreign_keys, enforced>>
    BY <1>3 DEF DisableEnforcement, OnEnterError
  <2>3. \/ UNCHANGED <<original_transaction_mode, transaction_mode>>
        \/ transaction_mode = "CONCURRENT" /\ original_transaction_mode' = "CONCURRENT"
    BY <1>3 DEF DisableEnforcement
  <2>4. step = "disable"
    BY <1>3 DEF DisableEnforcement
  <2>5. UNCHANGED <<mode, connection>>
    BY <1>3 DEF DisableEnforcement
  <2> QED
    BY <2>1, <2>2, <2>3, <2>4, <2>5
<1>4. CASE BeginEditing
  BY <1>4 DEF BeginEditing, OnEnterError
<1> QED
  BY <1>1, <1>2, <1>3, <1>4

LEMMA EditBody ==
  ASSUME EditorInv,
         \/ \E w \in Work : Alter(w) \/ Defer(w)
         \/ AlterFails \/ BeginInner \/ EndInner \/ CloseInBody
         \/ \E exception \in BOOLEAN : EndBody(exception)
  PROVE  EditorInv'
<1> USE DEF EditorInv, Flags, Remembered, database, saved, settings, history
<1>1. ASSUME NEW w \in Work, Alter(w) \/ Defer(w) PROVE EditorInv'
  BY <1>1 DEF Alter, Defer
<1>2. CASE AlterFails \/ BeginInner \/ EndInner \/ CloseInBody
  BY <1>2 DEF AlterFails, BeginInner, EndInner, CloseInBody
<1>3. ASSUME NEW exception \in BOOLEAN, EndBody(exception) PROVE EditorInv'
  BY <1>3 DEF EndBody
<1> QED
  BY <1>1, <1>2, <1>3

LEMMA ExitEditor ==
  ASSUME EditorInv, RunDeferred \/ CheckConstraints \/ Leave \/ RunHooks \/ Restore
  PROVE  EditorInv'
<1> USE DEF EditorInv, Flags, Remembered, database, saved, settings, history
<1>1. CASE RunDeferred
  BY <1>1 DEF RunDeferred, OnDeferredError
<1>2. CASE CheckConstraints
  BY <1>2 DEF CheckConstraints
<1>3. CASE Leave
  BY <1>3 DEF Leave, LeaveBlock, LeaveSavepoint
<1>4. CASE RunHooks
  BY <1>4 DEF RunHooks
<1>5. CASE Restore
  <2>1. foreign_keys' = enforced \/ (connection' # "open" /\ foreign_keys' = foreign_keys)
    BY <1>5 DEF Restore, SetsForeignKeys, ForceClose
  <2>2. transaction_mode' = mode /\ original_transaction_mode' = "unset"
    BY <1>5 DEF Restore
  <2> QED
    BY <1>5, <2>1, <2>2 DEF Restore
<1> QED
  BY <1>1, <1>2, <1>3, <1>4, <1>5

LEMMA EditorInvStep == EditorInv /\ [Next]_vars => EditorInv'
<1> SUFFICES ASSUME EditorInv, [Next]_vars PROVE EditorInv'
  OBVIOUS
<1>1. CASE UNCHANGED vars
  BY <1>1 DEF vars, EditorInv, Flags, Remembered, database, saved, settings, history
<1> QED
  BY <1>1, AroundEditor, EnterEditor, EditBody, ExitEditor DEF Next, EditorStep

\* However an editor is left, and whatever failed on the way, an open connection has the
\* enforcement the application chose, and the wrapper its configured transaction mode.
THEOREM EditorRestoresEverything == Spec => []EverythingRestored
<1>1. EditorInv => EverythingRestored
  BY DEF EditorInv, Remembered, EverythingRestored
<1> QED
  BY <1>1, EditorInit, EditorInvStep, PTL DEF Spec
--------------------------------------------------------------------------------
(* The transaction of an editor.                                               *)

\* Without a transaction no work is open.
IdleInv == ~in_transaction => Open = {}

\* Where a transaction and a block may be open.
BlockInv ==
  /\ connection # "open" => ~in_transaction
  /\ autocommit => ~in_transaction
  /\ in_atomic_block => connection # "none"
  /\ block => step \in {"editing", "deferred", "check", "leave"}
  /\ inner => step = "editing" /\ outer = "none" /\ ~block
  /\ block /\ outer # "none" /\ in_transaction => 1 \in savepoints
  /\ step = "hooks" => outer = "none"

\* A block of a manual transaction that has lost the transaction is marked.
MarkInv == block /\ outer = "manual" /\ ~in_transaction => needs_rollback

LEMMA TransactionInit == Init => IdleInv /\ BlockInv /\ MarkInv
  BY DEF Init, EngineInit, IdleInv, Open, BlockInv, MarkInv, autocommit, in_atomic_block

LEMMA IdleAfter ==
  ASSUME TypeOK, IdleInv
  PROVE  /\ UNCHANGED engine => IdleInv'
         /\ \A tx \in BOOLEAN : Statement(tx) /\ (in_transaction => tx) => IdleInv'
         /\ \A W : \A tx \in BOOLEAN : Write(W, tx) /\ (in_transaction => tx) => IdleInv'
         /\ \A s : Savepoint(s) \/ Release(s) \/ RollbackTo(s) => IdleInv'
         /\ \A status \in {"committed", "lost"} : EndTransaction(status) => IdleInv'
<1> USE DEF IdleInv
<1>1. UNCHANGED engine => IdleInv'
  BY DEF engine, Open
<1>2. ASSUME NEW tx \in BOOLEAN, Statement(tx), in_transaction => tx PROVE IdleInv'
  BY <1>2 DEF Statement, Open
<1>3. ASSUME NEW W, NEW tx \in BOOLEAN, Write(W, tx), in_transaction => tx PROVE IdleInv'
  <2>1. \A w \in Work : work'[w] = (IF w \in W THEN (IF tx THEN "open" ELSE "committed") ELSE work[w])
    BY <1>3, WorkAfter
  <2>2. in_transaction' = tx
    BY <1>3 DEF Write
  <2> QED
    BY <1>3, <2>1, <2>2 DEF Open
<1>4. ASSUME NEW s, Savepoint(s) \/ Release(s) \/ RollbackTo(s) PROVE IdleInv'
  <2>1. CASE Savepoint(s)
    BY <2>1 DEF Savepoint
  <2>2. CASE Release(s)
    BY <2>2 DEF Release, Open
  <2>3. CASE RollbackTo(s)
    <3>1. \A w \in Work : work'[w] = (IF work[w] = "open" /\ s \in under[w] THEN "undone" ELSE work[w])
      BY <2>3, WorkAfter
    <3> QED
      BY <2>3, <3>1 DEF RollbackTo, Open
  <2> QED
    BY <1>4, <2>1, <2>2, <2>3
<1>5. ASSUME NEW status \in {"committed", "lost"}, EndTransaction(status) PROVE IdleInv'
  <2>1. \A w \in Work : work'[w] = (IF work[w] = "open" THEN status ELSE work[w])
    BY <1>5, WorkAfter
  <2> QED
    BY <2>1 DEF Open
<1> QED
  BY <1>1, <1>2, <1>3, <1>4, <1>5

LEMMA IdleCalls ==
  ASSUME TypeOK, IdleInv
  PROVE  /\ StatementRuns \/ StatementFails \/ ForceClose => IdleInv'
         /\ \A enabled : SetsForeignKeys(enabled) \/ SettingRaises(enabled) => IdleInv'
         /\ \A w : Edit(w) => IdleInv'
<1>1. Ensured \in BOOLEAN /\ (in_transaction => Ensured)
  BY DEF TypeOK, EngineTypeOK, Ensured, autocommit
<1>2. StatementRuns \/ StatementFails \/ ForceClose => IdleInv'
  BY <1>1, IdleAfter DEF StatementRuns, StatementFails, ForceClose
<1>3. ASSUME NEW enabled, SetsForeignKeys(enabled) \/ SettingRaises(enabled) PROVE IdleInv'
  BY <1>2, <1>3 DEF SetsForeignKeys, SettingRaises
<1>4. ASSUME NEW w, Edit(w) PROVE IdleInv'
  BY <1>1, <1>4, IdleAfter DEF Edit
<1> QED
  BY <1>2, <1>3, <1>4

LEMMA IdleStep == TypeOK /\ IdleInv /\ BlockInv /\ [Next]_vars => IdleInv'
<1> SUFFICES ASSUME TypeOK, IdleInv, BlockInv, [Next]_vars PROVE IdleInv'
  OBVIOUS
<1>1. CASE UNCHANGED vars
  BY <1>1, IdleAfter DEF vars
<1>2. CASE Connect \/ ChooseEnforcement
  BY <1>2, IdleAfter DEF Connect, ChooseEnforcement
<1>3. ASSUME NEW kind, EnterOuter(kind) PROVE IdleInv'
  BY <1>3, IdleAfter DEF EnterOuter
<1>4. CASE LeaveOuter
  BY <1>4, IdleAfter DEF LeaveOuter
<1>5. ASSUME NEW atomic, Enter(atomic) PROVE IdleInv'
  BY <1>5, IdleAfter DEF Enter
<1>6. CASE ReadOriginal
  BY <1>6, IdleCalls DEF ReadOriginal
<1>7. CASE DisableEnforcement
  BY <1>7, IdleAfter, IdleCalls DEF DisableEnforcement
<1>8. CASE BeginEditing
  BY <1>8, IdleAfter, IdleCalls DEF BeginEditing
<1>9. ASSUME NEW w, Alter(w) \/ Defer(w) PROVE IdleInv'
  BY <1>9, IdleAfter, IdleCalls DEF Alter, Defer
<1>10. CASE AlterFails
  BY <1>10, IdleCalls DEF AlterFails
<1>11. CASE BeginInner \/ EndInner
  BY <1>11, IdleAfter DEF BeginInner, EndInner
<1>12. CASE CloseInBody
  BY <1>12, IdleAfter, IdleCalls DEF CloseInBody
<1>13. ASSUME NEW exception, EndBody(exception) PROVE IdleInv'
  BY <1>13, IdleAfter DEF EndBody
<1>14. CASE RunDeferred
  BY <1>14, IdleAfter, IdleCalls DEF RunDeferred
<1>15. CASE CheckConstraints
  BY <1>15, IdleCalls DEF CheckConstraints
<1>16. CASE Leave
  BY <1>16, IdleAfter DEF Leave, LeaveBlock, LeaveSavepoint
<1>17. CASE RunHooks
  <2>1. ~in_transaction
    BY <1>17 DEF RunHooks, BlockInv, autocommit
  <2> QED
    BY <1>17, <2>1, IdleAfter DEF RunHooks
<1>18. CASE Restore
  BY <1>18, IdleCalls DEF Restore
<1> QED
  BY <1>1, <1>2, <1>3, <1>4, <1>5, <1>6, <1>7, <1>8, <1>9, <1>10, <1>11, <1>12, <1>13, <1>14, <1>15,
     <1>16, <1>17, <1>18 DEF Next, EditorStep

\* What a call does to the transaction: one is there afterwards only inside a block of an
\* open connection; it is new only outside an atomic() block; its savepoints are kept.
TransactionKept ==
  in_transaction' =>
    /\ connection = "open" /\ ~autocommit
    /\ in_atomic_block => in_transaction
    /\ savepoints \subseteq savepoints'

LEMMA KeepsTransaction ==
  ASSUME TypeOK, BlockInv, MarkInv
  PROVE  /\ UNCHANGED engine => TransactionKept
         /\ StatementRuns \/ StatementFails \/ ForceClose => TransactionKept
         /\ \A enabled : SetsForeignKeys(enabled) \/ SettingRaises(enabled) => TransactionKept
         /\ \A w : Edit(w) => TransactionKept
<1> USE DEF TransactionKept
<1>1. UNCHANGED engine => TransactionKept
  BY DEF engine, BlockInv
<1>2. CanRun /\ in_transaction' = Ensured /\ savepoints' = savepoints => TransactionKept
  BY DEF CanRun, BlockLost, Ensured, BlockInv, MarkInv, in_atomic_block
<1>3. EndTransaction("lost") => TransactionKept
  BY DEF EndTransaction
<1>4. StatementRuns \/ StatementFails \/ ForceClose => TransactionKept
  BY <1>1, <1>2, <1>3 DEF StatementRuns, StatementFails, ForceClose, Statement
<1>5. ASSUME NEW enabled, SetsForeignKeys(enabled) \/ SettingRaises(enabled) PROVE TransactionKept
  BY <1>4, <1>5 DEF SetsForeignKeys, SettingRaises
<1>6. ASSUME NEW w, Edit(w) PROVE TransactionKept
  BY <1>2, <1>6 DEF Edit, Write
<1> QED
  BY <1>1, <1>4, <1>5, <1>6

LEMMA BlockAround ==
  ASSUME TypeOK, BlockInv,
         \/ Connect \/ ChooseEnforcement \/ LeaveOuter
         \/ \E kind \in {"atomic", "manual"} : EnterOuter(kind)
         \/ \E atomic \in BOOLEAN : Enter(atomic)
         \/ UNCHANGED vars
  PROVE  BlockInv'
<1> USE DEF BlockInv, autocommit, in_atomic_block, engine, blocks
<1>1. CASE UNCHANGED vars
  BY <1>1 DEF vars
<1>2. CASE Connect \/ ChooseEnforcement
  BY <1>2 DEF Connect, ChooseEnforcement
<1>3. CASE LeaveOuter
  <2>1. ~in_transaction'
    BY <1>3 DEF LeaveOuter, EndTransaction
  <2> QED
    BY <1>3, <2>1 DEF LeaveOuter
<1>4. ASSUME NEW kind \in {"atomic", "manual"}, EnterOuter(kind) PROVE BlockInv'
  BY <1>4 DEF EnterOuter, Statement
<1>5. ASSUME NEW atomic \in BOOLEAN, Enter(atomic) PROVE BlockInv'
  BY <1>5 DEF Enter
<1> QED
  BY <1>1, <1>2, <1>3, <1>4, <1>5

LEMMA BlockBody ==
  ASSUME TypeOK, BlockInv, MarkInv,
         \/ ReadOriginal \/ DisableEnforcement \/ BeginEditing
         \/ \E w \in Work : Alter(w) \/ Defer(w)
         \/ AlterFails \/ BeginInner \/ EndInner \/ CloseInBody
         \/ \E exception \in BOOLEAN : EndBody(exception)
  PROVE  BlockInv'
<1> USE DEF BlockInv, autocommit, in_atomic_block, blocks
<1>1. CASE ReadOriginal
  <2>1. TransactionKept
    BY <1>1, KeepsTransaction DEF ReadOriginal
  <2>2. connection' = connection \/ (ForceClose /\ connection' = IF in_atomic_block THEN "closed" ELSE "none")
    BY <1>1 DEF ReadOriginal, ForceClose
  <2>3. ForceClose => ~in_transaction'
    BY DEF ForceClose, EndTransaction, engine
  <2> QED
    BY <1>1, <2>1, <2>2, <2>3 DEF ReadOriginal, TransactionKept
<1>2. CASE DisableEnforcement
  <2>1. TransactionKept
    BY <1>2, KeepsTransaction DEF DisableEnforcement
  <2>2. step' \in {"begin", "restore"}
    BY <1>2 DEF DisableEnforcement, OnEnterError
  <2> QED
    BY <1>2, <2>1, <2>2 DEF DisableEnforcement, TransactionKept
<1>3. CASE BeginEditing
  <2>1. CASE (StatementFails \/ UNCHANGED engine) /\ UNCHANGED block /\ step' \in {"editing", "restore"}
    <3>1. TransactionKept
      BY <2>1, KeepsTransaction
    <3>2. step' = "restore" => ~block
      BY <1>3 DEF BeginEditing
    <3> QED
      BY <1>3, <2>1, <3>1, <3>2 DEF BeginEditing, TransactionKept
  <2>2. CASE CanRun /\ block' = TRUE /\ step' = "editing"
             /\ IF outer = "none" THEN Statement(TRUE) ELSE Savepoint(1)
    BY <1>3, <2>2 DEF BeginEditing, CanRun, Savepoint
  <2> QED
    BY <1>3, <2>1, <2>2 DEF BeginEditing, OnEnterError
<1>4. ASSUME NEW w \in Work, Alter(w) \/ Defer(w) PROVE BlockInv'
  <2>1. TransactionKept
    BY <1>4, KeepsTransaction DEF Alter, Defer
  <2> QED
    BY <1>4, <2>1 DEF Alter, Defer, TransactionKept
<1>5. CASE AlterFails
  BY <1>5, KeepsTransaction DEF AlterFails, TransactionKept
<1>6. CASE BeginInner
  BY <1>6 DEF BeginInner, Statement
<1>7. CASE EndInner
  <2>1. ~in_transaction'
    BY <1>7 DEF EndInner, EndTransaction, engine
  <2> QED
    BY <1>7, <2>1 DEF EndInner
<1>8. CASE CloseInBody
  <2>1. ~in_transaction'
    BY <1>8 DEF CloseInBody, ForceClose, EndTransaction
  <2> QED
    BY <1>8, <2>1 DEF CloseInBody, ForceClose
<1>9. ASSUME NEW exception \in BOOLEAN, EndBody(exception) PROVE BlockInv'
  BY <1>9 DEF EndBody, engine
<1> QED
  BY <1>1, <1>2, <1>3, <1>4, <1>5, <1>6, <1>7, <1>8, <1>9

LEMMA BlockExit ==
  ASSUME TypeOK, BlockInv, MarkInv, RunDeferred \/ CheckConstraints \/ Leave \/ RunHooks \/ Restore
  PROVE  BlockInv'
<1> USE DEF BlockInv, autocommit, in_atomic_block, blocks
<1>1. CASE RunDeferred
  <2>1. TransactionKept
    BY <1>1, KeepsTransaction DEF RunDeferred
  <2>2. step' \in {"deferred", "check", "leave"}
    BY <1>1 DEF RunDeferred, OnDeferredError
  <2> QED
    BY <1>1, <2>1, <2>2 DEF RunDeferred, TransactionKept
<1>2. CASE CheckConstraints
  BY <1>2, KeepsTransaction DEF CheckConstraints, TransactionKept
<1>3. CASE Leave
  <2>1. CASE LeaveBlock
    <3>1. ~in_transaction'
      BY <2>1 DEF LeaveBlock, EndTransaction, engine
    <3> QED
      BY <1>3, <2>1, <3>1 DEF Leave, LeaveBlock
  <2>2. CASE LeaveSavepoint
    <3>1. in_transaction' => in_transaction
      BY <2>2 DEF LeaveSavepoint, EndTransaction, engine, Release, RollbackTo
    <3>2. outer # "none" /\ step' = "restore" /\ UNCHANGED connection
      BY <2>2 DEF LeaveSavepoint
    <3> QED
      BY <1>3, <3>1, <3>2 DEF Leave
  <2>3. CASE ~block /\ step' = "restore" /\ UNCHANGED <<engine, connection, marks>>
    BY <1>3, <2>3 DEF Leave, engine
  <2> QED
    BY <1>3, <2>1, <2>2, <2>3 DEF Leave
<1>4. CASE RunHooks
  <2>1. ~in_transaction'
    BY <1>4 DEF RunHooks, Write, engine
  <2> QED
    BY <1>4, <2>1 DEF RunHooks
<1>5. CASE Restore
  <2>1. TransactionKept
    BY <1>5, KeepsTransaction DEF Restore
  <2>2. ForceClose => ~in_transaction'
    BY DEF ForceClose, EndTransaction, engine
  <2>3. /\ connection' = connection \/ ForceClose
        /\ connection' = connection \/ connection' = IF in_atomic_block THEN "closed" ELSE "none"
    BY <1>5 DEF Restore, ForceClose
  <2> QED
    BY <1>5, <2>1, <2>2, <2>3 DEF Restore, TransactionKept
<1> QED
  BY <1>1, <1>2, <1>3, <1>4, <1>5

\* A block that loses its transaction is marked, and a mark stays while the block is open.
Marked ==
  /\ needs_rollback => needs_rollback'
  /\ in_transaction /\ ~in_transaction' /\ in_atomic_block => needs_rollback'

LEMMA MarksLoss ==
  ASSUME TypeOK
  PROVE  /\ UNCHANGED <<engine, needs_rollback>> => Marked
         /\ StatementRuns /\ UNCHANGED needs_rollback => Marked
         /\ StatementFails => Marked
         /\ \A w : Edit(w) /\ UNCHANGED needs_rollback => Marked
<1> USE DEF Marked
<1>1. Ensured \in BOOLEAN /\ (in_transaction => Ensured) /\ needs_rollback \in BOOLEAN
  BY DEF TypeOK, EngineTypeOK, Ensured, autocommit
<1>2. UNCHANGED <<engine, needs_rollback>> => Marked
  BY DEF engine
<1>3. StatementRuns /\ UNCHANGED needs_rollback => Marked
  BY <1>1 DEF StatementRuns, Statement
<1>4. StatementFails => Marked
  BY <1>1 DEF StatementFails, Statement, engine
<1>5. ASSUME NEW w, Edit(w), UNCHANGED needs_rollback PROVE Marked
  BY <1>1, <1>5 DEF Edit, Write
<1> QED
  BY <1>2, <1>3, <1>4, <1>5

LEMMA MarkStep == TypeOK /\ BlockInv /\ MarkInv /\ [Next]_vars => MarkInv'
<1> SUFFICES ASSUME TypeOK, BlockInv, MarkInv, [Next]_vars, block', outer' = "manual", ~in_transaction'
             PROVE  needs_rollback'
  BY DEF MarkInv
<1>1. ASSUME Marked, UNCHANGED <<block, outer>> PROVE needs_rollback'
  <2>1. block /\ outer = "manual" /\ in_atomic_block
    BY <1>1 DEF in_atomic_block
  <2> QED
    BY <1>1, <2>1 DEF MarkInv, Marked
<1>2. ASSUME UNCHANGED <<engine, needs_rollback, block, outer>> PROVE needs_rollback'
  BY <1>1, <1>2, MarksLoss
<1>3. CASE UNCHANGED vars
  BY <1>2, <1>3 DEF vars, marks, blocks
<1>4. CASE Connect \/ LeaveOuter \/ EndInner \/ BeginInner \/ RunHooks
  BY <1>4 DEF Connect, LeaveOuter, EndInner, BeginInner, RunHooks, BlockInv, blocks, autocommit
<1>5. CASE ChooseEnforcement
  BY <1>2, <1>5 DEF ChooseEnforcement, marks, blocks
<1>6. ASSUME NEW kind, EnterOuter(kind) PROVE needs_rollback'
  BY <1>6 DEF EnterOuter, Statement
<1>7. ASSUME NEW atomic, Enter(atomic) PROVE needs_rollback'
  BY <1>2, <1>7 DEF Enter, blocks
<1>8. CASE ReadOriginal \/ DisableEnforcement \/ Restore
  BY <1>8 DEF ReadOriginal, DisableEnforcement, Restore, BlockInv, blocks
<1>9. CASE BeginEditing
  <2>1. CASE UNCHANGED <<engine, needs_rollback, block>>
    BY <1>2, <1>9, <2>1 DEF BeginEditing
  <2>2. CASE StatementFails /\ UNCHANGED block
    BY <1>1, <1>9, <2>2, MarksLoss DEF BeginEditing
  <2>3. CASE IF outer = "none" THEN Statement(TRUE) ELSE Savepoint(1)
    BY <2>3 DEF Statement, Savepoint
  <2> QED
    BY <1>9, <2>1, <2>2, <2>3 DEF BeginEditing
<1>10. ASSUME NEW w, Alter(w) PROVE needs_rollback'
  BY <1>1, <1>10, MarksLoss DEF Alter, blocks, marks
<1>11. ASSUME NEW w, Defer(w) PROVE needs_rollback'
  BY <1>2, <1>11 DEF Defer, blocks, marks
<1>12. CASE AlterFails
  BY <1>1, <1>12, MarksLoss DEF AlterFails, blocks
<1>13. CASE CloseInBody
  BY <1>13 DEF CloseInBody, blocks
<1>14. ASSUME NEW exception, EndBody(exception) PROVE needs_rollback'
  BY <1>2, <1>14 DEF EndBody, blocks
<1>15. CASE RunDeferred
  <2>1. Marked
    BY <1>15, MarksLoss DEF RunDeferred, marks
  <2> QED
    BY <1>1, <1>15, <2>1 DEF RunDeferred, blocks
<1>16. CASE CheckConstraints
  BY <1>1, <1>16, MarksLoss DEF CheckConstraints, blocks
<1>17. CASE Leave
  BY <1>17 DEF Leave
<1> QED
  BY <1>3, <1>4, <1>5, <1>6, <1>7, <1>8, <1>9, <1>10, <1>11, <1>12, <1>13, <1>14, <1>15, <1>16, <1>17
     DEF Next, EditorStep

LEMMA TransactionStep ==
  TypeOK /\ IdleInv /\ BlockInv /\ MarkInv /\ [Next]_vars => IdleInv' /\ BlockInv' /\ MarkInv'
  BY IdleStep, BlockAround, BlockBody, BlockExit, MarkStep DEF Next, EditorStep
--------------------------------------------------------------------------------
(* The fate of atomic edits.                                                   *)

Inside == step \in {"read", "disable", "begin", "editing", "deferred", "check", "leave"}

\* Atomic edits belong to the editor's block, or to the transaction around it.
EditInv ==
  /\ \A w \in edited : work[w] # "new"
  /\ outer # "none" => \A w \in edited : work[w] # "committed"
  /\ Inside /\ outer = "none" /\ ~block => \A w \in edited : work[w] # "committed"
  /\ outer = "none" /\ ~block => \A w \in edited : work[w] # "open"

\* An editor that is inside its block, or failed, has committed none of them.
UncommittedInv ==
  /\ step # "outside" /\ outer = "none" /\ (block \/ raised) => \A w \in edited : work[w] # "committed"
  /\ raised => step \in {"outside", "leave", "restore"}

\* The open edits that leave a foreign key without its parent.
Tainted == {w \in edited \intersect Violating : work[w] = "open"}

\* Once the editor's block is left, the wrapper is marked as long as there are any, so that
\* the editor cannot restore enforcement and gives the connection up; until then its
\* savepoint can undo them all, and the check has seen them.
TaintInv ==
  /\ \A w \in edited \intersect Violating : work[w] # "committed"
  /\ Tainted # {} /\ ~block => needs_rollback
  /\ step = "outside" => Tainted = {}
  /\ outer # "none" /\ block => \A w \in Tainted : 1 \in under[w]
  /\ step = "leave" /\ ~raised => ~Violated

EditsInv == EditInv /\ UncommittedInv /\ TaintInv

LEMMA EditsInit == Init => EditsInv
  BY DEF Init, EditsInv, EditInv, UncommittedInv, TaintInv, Tainted, Inside

\* What most calls do to the work: nothing, or they lose what is open.
WorkKept ==
  /\ UNCHANGED under
  /\ \A w \in Work : work'[w] = work[w] \/ (work[w] = "open" /\ work'[w] = "lost")

LEMMA KeepsWork ==
  /\ UNCHANGED engine => WorkKept
  /\ \A tx : Statement(tx) => WorkKept
  /\ \A s : Savepoint(s) \/ Release(s) => WorkKept
  /\ EndTransaction("lost") => WorkKept /\ \A w \in Work : work'[w] # "open"
  /\ StatementRuns \/ StatementFails \/ ForceClose => WorkKept
  /\ \A enabled : SetsForeignKeys(enabled) \/ SettingRaises(enabled) => WorkKept
<1> USE DEF WorkKept
<1>1. UNCHANGED engine => WorkKept
  BY DEF engine
<1>2. \A tx : Statement(tx) => WorkKept
  BY DEF Statement
<1>3. \A s : Savepoint(s) \/ Release(s) => WorkKept
  BY DEF Savepoint, Release
<1>4. EndTransaction("lost") => WorkKept /\ \A w \in Work : work'[w] # "open"
  <2>1. EndTransaction("lost") =>
          \A w \in Work : work'[w] = (IF work[w] = "open" THEN "lost" ELSE work[w])
    BY WorkAfter
  <2> QED
    BY <2>1 DEF EndTransaction
<1>5. StatementRuns \/ StatementFails \/ ForceClose => WorkKept
  BY <1>1, <1>2, <1>4 DEF StatementRuns, StatementFails, ForceClose
<1>6. \A enabled : SetsForeignKeys(enabled) \/ SettingRaises(enabled) => WorkKept
  BY <1>5 DEF SetsForeignKeys, SettingRaises
<1> QED
  BY <1>1, <1>2, <1>3, <1>4, <1>5, <1>6

\* Calls that keep the work, the blocks and the marks keep all that is known of the edits.
LEMMA EditsKept ==
  ASSUME TypeOK, EditsInv, WorkKept, UNCHANGED <<blocks, edited>>,
         needs_rollback => needs_rollback',
         raised' => step' \in {"outside", "leave", "restore"},
         \/ step' = step /\ raised' = raised
         \/ Inside /\ step' # "outside" /\ (step' = "leave" => raised' \/ ~Violated)
         \/ step' = "outside" /\ Tainted' = {}
  PROVE  EditsInv'
<1>1. edited \subseteq Work /\ Violating \subseteq Work
  BY EditorAssumption DEF TypeOK
<1>2. EditInv'
  BY <1>1 DEF EditsInv, EditInv, Inside, WorkKept, blocks
<1>3. UncommittedInv'
  BY <1>1 DEF EditsInv, EditInv, UncommittedInv, Inside, WorkKept, blocks
<1>4. TaintInv'
  BY <1>1 DEF EditsInv, TaintInv, Tainted, Violated, WorkKept, blocks
<1> QED
  BY <1>2, <1>3, <1>4 DEF EditsInv

\* A connection that is given up leaves nothing open.
LEMMA ClosesOpen ==
  ASSUME TypeOK, IdleInv, BlockInv, ForceClose
  PROVE  \A w \in Work : work'[w] # "open"
<1>1. CASE connection # "open" /\ UNCHANGED engine
  BY <1>1 DEF IdleInv, BlockInv, Open, engine
<1>2. CASE EndTransaction("lost")
  BY <1>2, KeepsWork
<1> QED
  BY <1>1, <1>2 DEF ForceClose

LEMMA EditsAround ==
  ASSUME TypeOK, IdleInv, BlockInv, EditsInv,
         \/ Connect \/ ChooseEnforcement \/ LeaveOuter
         \/ \E kind \in {"atomic", "manual"} : EnterOuter(kind)
         \/ \E atomic \in BOOLEAN : Enter(atomic)
         \/ UNCHANGED vars
  PROVE  EditsInv'
<1>0. edited \subseteq Work /\ Violating \subseteq Work
  BY EditorAssumption DEF TypeOK
<1>1. CASE UNCHANGED vars
  BY <1>1, KeepsWork, EditsKept DEF vars, EditsInv, UncommittedInv, history, marks
<1>2. CASE Connect
  <2>1. /\ UNCHANGED <<work, under, step, block, raised, edited>> /\ outer' = "none"
        /\ \A w \in edited : work[w] # "open"
    BY <1>0, <1>2 DEF Connect, engine, IdleInv, BlockInv, Open
  <2>2. outer # "atomic"
    BY <1>2 DEF Connect, BlockInv, in_atomic_block
  <2>3. EditInv' /\ UncommittedInv'
    BY <2>1, <2>2 DEF TypeOK, EditsInv, EditInv, UncommittedInv, Inside
  <2>4. TaintInv'
    BY <2>1, <2>2 DEF TypeOK, EditsInv, TaintInv, Tainted, Violated
  <2> QED
    BY <2>3, <2>4 DEF EditsInv
<1>3. CASE ChooseEnforcement
  BY <1>3, KeepsWork, EditsKept DEF ChooseEnforcement, EditsInv, UncommittedInv, marks
<1>4. CASE LeaveOuter
  <2>1. /\ UNCHANGED <<step, block, raised, edited>> /\ outer' = "none" /\ step = "outside" /\ ~block
    BY <1>4 DEF LeaveOuter, BlockInv, history
  <2>2. \/ UNCHANGED <<work, under>> /\ \A w \in Work : work[w] # "open"
        \/ EndTransaction("lost")
        \/ EndTransaction("committed") /\ Tainted = {}
    <3>1. CASE connection = "closed" /\ UNCHANGED engine
      BY <3>1 DEF engine, IdleInv, BlockInv, Open
    <3>2. CASE (outer = "atomic" => ~needs_rollback) /\ EndTransaction("committed")
      BY <2>1, <3>2 DEF EditsInv, TaintInv
    <3> QED
      BY <1>4, <3>1, <3>2 DEF LeaveOuter
  <2>3. \A w \in Work : work'[w] # "open" /\ (work[w] # "open" => work'[w] = work[w])
    BY <2>2, WorkAfter
  <2>4. \A w \in edited \intersect Violating : work'[w] # "committed"
    BY <1>0, <2>2, <2>3, KeepsWork DEF EditsInv, TaintInv, WorkKept, Tainted
  <2>5. \A w \in edited : work'[w] # "new"
    <3>1. \A w \in Work : work'[w] = work[w] \/ work'[w] = "lost" \/ work'[w] = "committed"
      BY <2>2, WorkAfter
    <3> QED
      BY <1>0, <3>1 DEF EditsInv, EditInv
  <2>6. EditInv' /\ UncommittedInv'
    BY <1>0, <2>1, <2>3, <2>5 DEF EditsInv, EditInv, UncommittedInv, Inside
  <2>7. TaintInv'
    BY <1>0, <2>1, <2>3, <2>4 DEF TaintInv, Tainted
  <2> QED
    BY <2>6, <2>7 DEF EditsInv
<1>5. ASSUME NEW kind \in {"atomic", "manual"}, EnterOuter(kind) PROVE EditsInv'
  <2>1. UNCHANGED <<step, block, raised>> /\ step = "outside" /\ edited' = {}
    BY <1>5 DEF EnterOuter
  <2> QED
    BY <2>1 DEF EditsInv, EditInv, UncommittedInv, TaintInv, Tainted, Inside
<1>6. ASSUME NEW atomic \in BOOLEAN, Enter(atomic) PROVE EditsInv'
  <2>1. /\ UNCHANGED <<work, under, outer, block, needs_rollback>> /\ step = "outside" /\ ~block /\ step' = "read"
        /\ raised' = FALSE /\ edited' = IF outer = "none" THEN {} ELSE edited
    BY <1>6 DEF Enter, BlockInv, engine, blocks
  <2>2. EditInv' /\ UncommittedInv'
    BY <2>1 DEF EditsInv, EditInv, UncommittedInv, Inside
  <2>3. TaintInv'
    BY <2>1 DEF EditsInv, TaintInv, Tainted
  <2> QED
    BY <2>2, <2>3 DEF EditsInv
<1> QED
  BY <1>1, <1>2, <1>3, <1>4, <1>5, <1>6

LEMMA EditsAdded ==
  ASSUME TypeOK, BlockInv, MarkInv, EditsInv, NEW w \in Work, Edit(w),
         step \in {"editing", "deferred"}, UNCHANGED <<blocks, marks, step>>
  PROVE  EditsInv'
<1>1. /\ edited \subseteq Work /\ Violating \subseteq Work /\ Ensured \in BOOLEAN
      /\ UNCHANGED <<outer, block, raised, needs_rollback, step>> /\ ~raised
  BY EditorAssumption, StatementTypes DEF TypeOK, blocks, marks, EditsInv, UncommittedInv
<1>2. /\ \A v \in Work : work'[v] = IF v = w THEN (IF Ensured THEN "open" ELSE "committed") ELSE work[v]
      /\ \A v \in Work : under'[v] = IF v = w THEN savepoints ELSE under[v]
  <2>1. Write({w}, Ensured)
    BY DEF Edit
  <2> QED
    BY <1>1, <2>1, WorkAfter DEF Write
<1>3. /\ edited' = IF block THEN edited \union {w} ELSE edited
      /\ w \notin edited
      /\ block => Ensured
      /\ block /\ outer # "none" => 1 \in savepoints
      /\ ~block => Tainted = {}
  BY <1>1 DEF Edit, CanRun, BlockLost, in_atomic_block, Ensured, autocommit, BlockInv, MarkInv, EditsInv,
              EditInv, TaintInv
<1>4. EditInv'
  BY <1>1, <1>2, <1>3 DEF EditsInv, EditInv, Inside, TypeOK
<1>5. UncommittedInv'
  BY <1>1, <1>2, <1>3 DEF EditsInv, EditInv, UncommittedInv, Inside, TypeOK
<1>6. TaintInv'
  <2>1. ~block => Tainted' = {}
    BY <1>1, <1>2, <1>3 DEF Tainted
  <2>2. \A v \in edited' \intersect Violating : work'[v] # "committed"
    BY <1>1, <1>2, <1>3 DEF EditsInv, TaintInv
  <2>3. block /\ outer # "none" => \A v \in Tainted' : 1 \in under'[v]
    BY <1>1, <1>2, <1>3 DEF EditsInv, TaintInv, Tainted
  <2> QED
    BY <1>1, <2>1, <2>2, <2>3 DEF TaintInv
<1> QED
  BY <1>4, <1>5, <1>6 DEF EditsInv

LEMMA EditsBody ==
  ASSUME TypeOK, IdleInv, BlockInv, MarkInv, EditsInv,
         \/ ReadOriginal \/ DisableEnforcement \/ BeginEditing
         \/ \E w \in Work : Alter(w) \/ Defer(w)
         \/ AlterFails \/ BeginInner \/ EndInner \/ CloseInBody
         \/ \E exception \in BOOLEAN : EndBody(exception)
  PROVE  EditsInv'
<1> USE DEF history
<1>0. edited \subseteq Work /\ Violating \subseteq Work
  BY EditorAssumption DEF TypeOK
<1>a. raised => step \in {"outside", "leave", "restore"}
  BY DEF EditsInv, UncommittedInv
<1>1. CASE ReadOriginal
  <2>1. WorkKept /\ (needs_rollback => needs_rollback')
    BY <1>1, KeepsWork DEF ReadOriginal, ForceClose
  <2>2. step' = "outside" => Tainted' = {}
    BY <1>0, <1>1, ClosesOpen DEF ReadOriginal, Tainted
  <2> QED
    BY <1>1, <1>a, <2>1, <2>2, EditsKept DEF ReadOriginal, Inside
<1>2. CASE DisableEnforcement
  <2>1. WorkKept /\ (needs_rollback => needs_rollback')
    BY <1>2, KeepsWork DEF DisableEnforcement, SetsForeignKeys, SettingRaises, StatementFails
  <2> QED
    BY <1>2, <1>a, <2>1, EditsKept DEF DisableEnforcement, OnEnterError, Inside
<1>3. CASE BeginEditing
  <2>1. CASE /\ UNCHANGED engine \/ StatementFails
             /\ needs_rollback => needs_rollback'
             /\ UNCHANGED block /\ step' \in {"editing", "restore"}
    <3>1. WorkKept
      BY <2>1, KeepsWork
    <3> QED
      BY <1>3, <1>a, <2>1, <3>1, EditsKept DEF BeginEditing, Inside, blocks
  <2>2. CASE CanRun /\ block' = TRUE /\ step' = "editing" /\ UNCHANGED needs_rollback
             /\ IF outer = "none" THEN Statement(TRUE) ELSE Savepoint(1)
    <3>1. /\ UNCHANGED <<work, under, outer, raised, edited>> /\ step = "begin" /\ ~raised
          /\ ~block /\ Tainted = {}
      BY <1>3, <1>a, <2>2 DEF BeginEditing, Statement, Savepoint, CanRun, EditsInv, TaintInv, BlockInv
    <3>2. EditInv' /\ UncommittedInv'
      BY <1>3, <2>2, <3>1 DEF BeginEditing, TypeOK, EditsInv, EditInv, UncommittedInv, Inside
    <3>3. TaintInv'
      BY <2>2, <3>1 DEF EditsInv, TaintInv, Tainted
    <3> QED
      BY <3>2, <3>3 DEF EditsInv
  <2>3. StatementFails => (needs_rollback => needs_rollback')
    BY DEF StatementFails
  <2>4. \/ step' = "editing" /\ UNCHANGED <<engine, begun, needs_rollback, block>>
        \/ /\ CanRun /\ block' = TRUE /\ step' = "editing" /\ UNCHANGED needs_rollback
           /\ IF outer = "none" THEN Statement(TRUE) ELSE Savepoint(1)
        \/ StatementFails /\ step' = "restore" /\ UNCHANGED block
    BY <1>3 DEF BeginEditing, OnEnterError
  <2> QED
    BY <2>1, <2>2, <2>3, <2>4
<1>4. ASSUME NEW w \in Work, Alter(w) PROVE EditsInv'
  BY <1>4, EditsAdded DEF Alter, marks
<1>5. ASSUME NEW w \in Work, Defer(w) PROVE EditsInv'
  BY <1>5, <1>a, KeepsWork, EditsKept DEF Defer, marks
<1>6. CASE AlterFails
  <2>1. needs_rollback => needs_rollback'
    BY <1>6 DEF AlterFails, StatementFails
  <2> QED
    BY <1>6, <1>a, <2>1, KeepsWork, EditsKept DEF AlterFails
<1>7. CASE BeginInner \/ EndInner
  <2>1. /\ UNCHANGED <<outer, block, step, raised, edited>>
        /\ step = "editing" /\ outer = "none" /\ ~block
        /\ \A w \in edited : work[w] \notin {"new", "open", "committed"}
    BY <1>7 DEF BeginInner, EndInner, BlockInv, autocommit, EditsInv, EditInv, Inside
  <2>2. \A w \in edited : work'[w] = work[w]
    <3>1. UNCHANGED work \/ \E status : EndTransaction(status)
      BY <1>7 DEF BeginInner, EndInner, Statement, engine
    <3> QED
      BY <1>0, <2>1, <3>1, WorkAfter
  <2> QED
    BY <2>1, <2>2, <1>0, <1>a DEF EditsInv, EditInv, UncommittedInv, TaintInv, Tainted, Inside
<1>8. CASE CloseInBody
  <2>1. needs_rollback => needs_rollback'
    BY <1>8 DEF CloseInBody, ForceClose
  <2> QED
    BY <1>8, <1>a, <2>1, KeepsWork, EditsKept DEF CloseInBody
<1>9. ASSUME NEW exception \in BOOLEAN, EndBody(exception) PROVE EditsInv'
  BY <1>9, KeepsWork, EditsKept DEF EndBody, Inside
<1> QED
  BY <1>1, <1>2, <1>3, <1>4, <1>5, <1>6, <1>7, <1>8, <1>9

LEMMA EditsLeave ==
  ASSUME TypeOK, IdleInv, BlockInv, EditsInv, Leave
  PROVE  EditsInv'
<1>0. /\ edited \subseteq Work /\ Violating \subseteq Work
      /\ UNCHANGED <<outer, edited>> /\ step = "leave" /\ block' = FALSE
  BY EditorAssumption DEF TypeOK, Leave, history
<1>1. CASE LeaveBlock
  <2>1. block /\ outer = "none" /\ step' \in {"hooks", "restore"} /\ (raised' => step' = "restore")
    BY <1>1, <1>0 DEF LeaveBlock, EditsInv, UncommittedInv
  <2>2. \/ UNCHANGED <<work, under>> /\ (\A w \in Work : work[w] # "open")
        \/ EndTransaction("lost")
        \/ EndTransaction("committed") /\ ~raised' /\ ~Violated
    BY <1>0, <1>1 DEF LeaveBlock, engine, IdleInv, BlockInv, Open, EditsInv, TaintInv
  <2>3. \A w \in Work : work'[w] # "open" /\ (work[w] # "open" => work'[w] = work[w])
    BY <2>2, WorkAfter
  <2>4. \A w \in Work : \/ work'[w] = work[w] \/ work'[w] = "lost"
                        \/ work'[w] = "committed" /\ ~raised' /\ ~Violated
    BY <2>2, WorkAfter
  <2>5. EditInv' /\ UncommittedInv'
    BY <1>0, <2>1, <2>3, <2>4 DEF EditsInv, EditInv, UncommittedInv, Inside
  <2>6. \A w \in edited \intersect Violating : work'[w] # "committed"
    BY <1>0, <2>4, <2>3 DEF EditsInv, TaintInv, Violated
  <2>7. TaintInv'
    BY <1>0, <2>1, <2>3, <2>6 DEF TaintInv, Tainted
  <2> QED
    BY <2>5, <2>7 DEF EditsInv
<1>2. CASE LeaveSavepoint
  <2>1. block /\ outer \in {"atomic", "manual"} /\ step' = "restore"
    BY <1>2 DEF LeaveSavepoint, TypeOK
  <2>2. \A w \in Work : \/ work'[w] = work[w]
                        \/ work[w] = "open" /\ work'[w] \in {"undone", "lost"}
    BY <1>2, WorkAfter DEF LeaveSavepoint, engine, Release
  <2>3. EditInv' /\ UncommittedInv'
    BY <1>0, <2>1, <2>2 DEF EditsInv, EditInv, UncommittedInv, Inside
  <2>4. Tainted' # {} => needs_rollback'
    <3>2. CASE connection = "closed" /\ UNCHANGED <<engine, needs_rollback, raised>>
      BY <1>0, <3>2 DEF engine, IdleInv, BlockInv, Open, Tainted
    <3>3. CASE ~raised /\ Release(1)
      BY <1>0, <3>3 DEF Release, EditsInv, TaintInv, Violated, Tainted
    <3>4. CASE RollbackTo(1)
      BY <1>0, <2>1, <3>4, WorkAfter DEF EditsInv, TaintInv, Tainted
    <3>5. CASE needs_rollback' = TRUE
      BY <3>5
    <3> QED
      BY <1>2, <3>2, <3>3, <3>4, <3>5 DEF LeaveSavepoint
  <2>5. TaintInv'
    BY <1>0, <2>1, <2>2, <2>4 DEF EditsInv, TaintInv
  <2> QED
    BY <2>3, <2>5 DEF EditsInv
<1>3. CASE ~block /\ step' = "restore" /\ UNCHANGED <<engine, connection, marks>>
  <2>1. UNCHANGED <<work, under, raised, needs_rollback, block>>
    BY <1>0, <1>3 DEF engine, marks, TypeOK
  <2> QED
    BY <1>0, <1>3, <2>1 DEF EditsInv, EditInv, UncommittedInv, TaintInv, Tainted, Inside
<1> QED
  BY <1>1, <1>2, <1>3 DEF Leave

LEMMA EditsExit ==
  ASSUME TypeOK, IdleInv, BlockInv, MarkInv, EditsInv, RunDeferred \/ CheckConstraints \/ Leave \/ RunHooks \/ Restore
  PROVE  EditsInv'
<1> USE DEF history
<1>0. edited \subseteq Work /\ Violating \subseteq Work /\ deferred_sql \subseteq Work
  BY EditorAssumption DEF TypeOK
<1>a. raised => step \in {"outside", "leave", "restore"}
  BY DEF EditsInv, UncommittedInv
<1>1. CASE RunDeferred
  <2>1. CASE step' = "check" /\ UNCHANGED <<engine, begun, marks, deferred_sql, edited>>
    BY <1>1, <1>a, <2>1, KeepsWork, EditsKept DEF RunDeferred, Inside, marks
  <2>2. ASSUME NEW w \in deferred_sql, Edit(w), UNCHANGED <<marks, step>>
        PROVE  EditsInv'
    BY <1>0, <1>1, <2>2, EditsAdded DEF RunDeferred
  <2>3. CASE StatementFails /\ raised' = TRUE /\ OnDeferredError /\ UNCHANGED edited
    <3>1. needs_rollback => needs_rollback'
      BY <2>3 DEF StatementFails
    <3> QED
      BY <1>1, <2>3, <3>1, KeepsWork, EditsKept DEF RunDeferred, Inside, OnDeferredError
  <2> QED
    BY <1>1, <2>1, <2>2, <2>3 DEF RunDeferred
<1>2. CASE CheckConstraints
  <2>0. WorkKept
    BY <1>2, KeepsWork DEF CheckConstraints
  <2>1. needs_rollback => needs_rollback'
    BY <1>2 DEF CheckConstraints, StatementFails
  <2>2. raised' \/ ~Violated
    BY <1>2 DEF CheckConstraints, Violated
  <2> QED
    BY <1>2, <2>0, <2>1, <2>2, EditsKept DEF CheckConstraints, Inside
<1>3. CASE Leave
  BY <1>3, EditsLeave
<1>4. CASE RunHooks
  <2>1. /\ UNCHANGED <<outer, block, edited, needs_rollback, raised>> /\ step = "hooks" /\ outer = "none" /\ ~block
        /\ ~raised /\ step' \in {"hooks", "restore"} /\ (\A v \in edited : work[v] # "open")
    BY <1>4, <1>a DEF RunHooks, BlockInv, blocks, marks, EditsInv, EditInv
  <2>2. \A v \in edited : work'[v] = work[v]
    <3>1. ASSUME NEW w \in Work, work[w] = "new", Write({w}, FALSE) PROVE \A v \in edited : work'[v] = work[v]
      <4>1. \A v \in edited : v \in Work /\ v # w
        BY <1>0, <3>1 DEF EditsInv, EditInv, TypeOK
      <4> QED
        BY <1>0, <3>1, <4>1, WorkAfter
    <3> QED
      BY <1>4, <3>1 DEF RunHooks, engine
  <2> QED
    BY <2>1, <2>2 DEF EditsInv, EditInv, UncommittedInv, TaintInv, Tainted, Inside
<1>5. CASE Restore
  <2>1. WorkKept /\ (needs_rollback => needs_rollback')
    BY <1>5, KeepsWork DEF Restore, SetsForeignKeys, ForceClose
  <2>2. Tainted' = {}
    <3>1. CASE ForceClose
      BY <1>0, <1>5, <3>1, ClosesOpen DEF Restore, Tainted
    <3>2. CASE StatementRuns
      <4>1. ~block /\ ~needs_rollback
        BY <1>5, <3>2 DEF Restore, BlockInv, StatementRuns, CanRun
      <4>2. Tainted = {} /\ UNCHANGED <<work, edited>>
        BY <1>5, <3>2, <4>1 DEF Restore, StatementRuns, Statement, EditsInv, TaintInv
      <4> QED
        BY <4>2 DEF Tainted
    <3> QED
      BY <1>5, <3>1, <3>2 DEF Restore, SetsForeignKeys
  <2> QED
    BY <1>5, <2>1, <2>2, EditsKept DEF Restore
<1> QED
  BY <1>1, <1>2, <1>3, <1>4, <1>5

LEMMA EditsStep == TypeOK /\ IdleInv /\ BlockInv /\ MarkInv /\ EditsInv /\ [Next]_vars => EditsInv'
  BY EditsAround, EditsBody, EditsExit DEF Next, EditorStep

LEMMA EditsHold == Spec => [](TypeOK /\ IdleInv /\ BlockInv /\ MarkInv /\ EditsInv)
<1>1. Init => TypeOK /\ IdleInv /\ BlockInv /\ MarkInv /\ EditsInv
  BY EditorTypeInit, TransactionInit, EditsInit
<1>2. TypeOK /\ IdleInv /\ BlockInv /\ MarkInv /\ EditsInv /\ [Next]_vars
        => TypeOK' /\ IdleInv' /\ BlockInv' /\ MarkInv' /\ EditsInv'
  BY EditorTypeStep, TransactionStep, EditsStep
<1> QED
  BY <1>1, <1>2, PTL DEF Spec

\* No atomic edit that leaves a foreign key without its parent is ever committed: not by the
\* editor's own block, and not by the atomic() block or the manual transaction around it,
\* whatever fails in between.
THEOREM EditorCommitsNoViolation == Spec => []ViolationsAreNotCommitted
<1>1. EditsInv => ViolationsAreNotCommitted
  BY DEF EditsInv, TaintInv, ViolationsAreNotCommitted
<1> QED
  BY <1>1, EditsHold, PTL

\* Before enforcement is restored the editor's own transaction is over, and a failed
\* editor's atomic edits are not in the database.
THEOREM EditorUndoesBeforeRestoring == Spec => []UndoneBeforeRestored
<1>1. BlockInv /\ EditsInv => UndoneBeforeRestored
  BY DEF BlockInv, autocommit, EditsInv, UncommittedInv, UndoneBeforeRestored
<1> QED
  BY <1>1, EditsHold, PTL
--------------------------------------------------------------------------------
(* The guard around edits: enforcement and CONCURRENT transactions are off.    *)

Guarded == step \in {"read", "disable", "begin", "editing", "deferred", "check"} /\ ~reconnected

ModeInv == transaction_mode = "CONCURRENT" \/ begun = "CONCURRENT" => mode = "CONCURRENT"

\* The editor is not entered in a CONCURRENT transaction, and begins none once it has
\* turned the mode off; enforcement is as it was read, then off.
GuardInv ==
  Guarded =>
    /\ transaction_mode = "CONCURRENT" => autocommit /\ step \in {"read", "disable"}
    /\ in_transaction => begun # "CONCURRENT"
    /\ step = "disable" /\ connection = "open" => foreign_keys = (original_foreign_keys = "on")
    /\ step \notin {"read", "disable"} /\ connection = "open" => ~foreign_keys

LEMMA GuardInit == Init => ModeInv /\ GuardInv
  BY DEF Init, ModeInv, GuardInv, Guarded

\* A transaction that a call begins is begun in the mode the wrapper has.
BegunAsSet ==
  \/ begun' = begun /\ (in_transaction' => in_transaction)
  \/ begun' = transaction_mode /\ ~autocommit

LEMMA BeginsAsSet ==
  /\ UNCHANGED <<engine, begun>> => BegunAsSet
  /\ StatementRuns \/ StatementFails => BegunAsSet
  /\ ForceClose /\ UNCHANGED begun => BegunAsSet
  /\ \A enabled : SetsForeignKeys(enabled) \/ SettingRaises(enabled) => BegunAsSet
  /\ \A w : Edit(w) => BegunAsSet
<1> USE DEF BegunAsSet
<1>1. UNCHANGED <<engine, begun>> => BegunAsSet
  BY DEF engine
<1>2. in_transaction' = Ensured /\ BeginsAs(Ensured) => BegunAsSet
  BY DEF BeginsAs, Ensured
<1>3. EndTransaction("lost") /\ UNCHANGED begun => BegunAsSet
  BY DEF EndTransaction
<1>4. StatementRuns \/ StatementFails => BegunAsSet
  BY <1>1, <1>2, <1>3 DEF StatementRuns, StatementFails, Statement
<1>5. ForceClose /\ UNCHANGED begun => BegunAsSet
  BY <1>1, <1>3 DEF ForceClose
<1>6. ASSUME NEW enabled, SetsForeignKeys(enabled) \/ SettingRaises(enabled) PROVE BegunAsSet
  BY <1>4, <1>6 DEF SetsForeignKeys, SettingRaises
<1>7. ASSUME NEW w, Edit(w) PROVE BegunAsSet
  BY <1>2, <1>7 DEF Edit, Write
<1> QED
  BY <1>1, <1>4, <1>5, <1>6, <1>7

\* A call that leaves the settings alone keeps the guard.
LEMMA GuardKept ==
  ASSUME ModeInv, GuardInv, BegunAsSet,
         UNCHANGED <<settings, connection, mode, original_foreign_keys, reconnected>>,
         autocommit => autocommit' \/ step' \notin {"read", "disable"},
         \/ step' = step
         \/ step \in {"begin", "editing", "deferred", "check"} /\ step' \notin {"read", "disable"}
         \/ step' \in {"outside", "leave", "hooks", "restore"}
  PROVE  ModeInv' /\ GuardInv'
<1>1. ModeInv'
  BY DEF ModeInv, BegunAsSet, settings
<1>2. GuardInv'
  BY DEF GuardInv, Guarded, BegunAsSet, settings
<1> QED
  BY <1>1, <1>2

LEMMA GuardAround ==
  ASSUME TypeOK, BlockInv, Remembered, ModeInv, GuardInv,
         \/ Connect \/ ChooseEnforcement \/ LeaveOuter
         \/ \E kind \in {"atomic", "manual"} : EnterOuter(kind)
         \/ \E atomic \in BOOLEAN : Enter(atomic)
         \/ ReadOriginal \/ DisableEnforcement \/ BeginEditing
         \/ UNCHANGED vars
  PROVE  ModeInv' /\ GuardInv'
<1> USE DEF database, settings, saved, history
<1>1. CASE UNCHANGED vars
  <2>1. UNCHANGED <<engine, begun>> /\ (autocommit => autocommit')
    BY <1>1 DEF vars, autocommit, blocks
  <2> QED
    BY <1>1, <2>1, BeginsAsSet, GuardKept DEF vars
<1>2. CASE Connect
  BY <1>2 DEF Connect, ModeInv, GuardInv, Guarded
<1>3. CASE ChooseEnforcement
  BY <1>3 DEF ChooseEnforcement, ModeInv, GuardInv, Guarded
<1>4. CASE LeaveOuter
  BY <1>4 DEF LeaveOuter, ModeInv, GuardInv, Guarded
<1>5. ASSUME NEW kind \in {"atomic", "manual"}, EnterOuter(kind) PROVE ModeInv' /\ GuardInv'
  BY <1>5 DEF EnterOuter, BeginsAs, ModeInv, GuardInv, Guarded
<1>6. ASSUME NEW atomic \in BOOLEAN, Enter(atomic) PROVE ModeInv' /\ GuardInv'
  <2>1. /\ UNCHANGED <<in_transaction, transaction_mode, begun, mode, outer, block, inner>>
        /\ step = "outside" /\ step' = "read"
        /\ transaction_mode = "CONCURRENT" => outer = "none"
    BY <1>6 DEF Enter, engine, blocks
  <2>2. ~block /\ ~inner
    BY <2>1 DEF BlockInv
  <2>3. transaction_mode = mode
    BY <2>1 DEF Remembered
  <2> QED
    BY <2>1, <2>2, <2>3 DEF ModeInv, GuardInv, Guarded, BlockInv, autocommit
<1>7. CASE ReadOriginal
  <2>1. BegunAsSet
    BY <1>7, BeginsAsSet DEF ReadOriginal
  <2>2. UNCHANGED <<mode, transaction_mode, foreign_keys, reconnected, outer, block, inner>> /\ step = "read"
    BY <1>7 DEF ReadOriginal, blocks
  <2>3. \/ step' = "outside"
        \/ step' = "disable" /\ (original_foreign_keys' = IF foreign_keys THEN "on" ELSE "off")
    BY <1>7 DEF ReadOriginal
  <2> QED
    BY <2>1, <2>2, <2>3 DEF TypeOK, ModeInv, GuardInv, Guarded, BegunAsSet, autocommit
<1>8. CASE DisableEnforcement
  <2>1. UNCHANGED <<mode, connection, original_foreign_keys, reconnected>> /\ step = "disable"
    BY <1>8 DEF DisableEnforcement
  <2>2. BegunAsSet
    BY <1>8, BeginsAsSet DEF DisableEnforcement
  <2>3. transaction_mode' = transaction_mode \/ transaction_mode' = "IMMEDIATE"
    BY <1>8 DEF DisableEnforcement
  <2>4. ModeInv'
    BY <2>1, <2>2, <2>3 DEF ModeInv, BegunAsSet
  <2>5. \/ step' = "restore"
        \/ /\ step' = "begin"
           /\ transaction_mode' # "CONCURRENT"
           /\ foreign_keys' = FALSE \/ (original_foreign_keys # "on" /\ foreign_keys' = foreign_keys)
    BY <1>8 DEF DisableEnforcement, OnEnterError, SetsForeignKeys
  <2>6. GuardInv'
    BY <2>1, <2>2, <2>5 DEF GuardInv, Guarded, BegunAsSet
  <2> QED
    BY <2>4, <2>6
<1>9. CASE BeginEditing
  <2>1. (begun' = begun /\ (in_transaction' => in_transaction)) \/ begun' = transaction_mode
    <3>1. StatementFails \/ UNCHANGED <<engine, begun>> => BegunAsSet
      BY BeginsAsSet
    <3> QED
      BY <1>9, <3>1 DEF BeginEditing, BeginsAs, BegunAsSet
  <2>2. /\ UNCHANGED <<mode, connection, transaction_mode, foreign_keys, reconnected>>
        /\ step = "begin" /\ step' \in {"editing", "restore"}
    BY <1>9 DEF BeginEditing, OnEnterError
  <2> QED
    BY <2>1, <2>2 DEF ModeInv, GuardInv, Guarded
<1> QED
  BY <1>1, <1>2, <1>3, <1>4, <1>5, <1>6, <1>7, <1>8, <1>9

LEMMA GuardBody ==
  ASSUME BlockInv, Remembered, ModeInv, GuardInv,
         \/ \E w \in Work : Alter(w) \/ Defer(w)
         \/ AlterFails \/ BeginInner \/ EndInner \/ CloseInBody
         \/ \E exception \in BOOLEAN : EndBody(exception)
         \/ RunDeferred \/ CheckConstraints \/ Leave \/ RunHooks \/ Restore
  PROVE  ModeInv' /\ GuardInv'
<1> USE DEF database, saved, history
<1>1. ASSUME NEW w \in Work, Alter(w) \/ Defer(w) PROVE ModeInv' /\ GuardInv'
  BY <1>1, BeginsAsSet, GuardKept DEF Alter, Defer
<1>2. CASE AlterFails
  BY <1>2, BeginsAsSet, GuardKept DEF AlterFails
<1>3. CASE BeginInner
  <2>1. UNCHANGED <<settings, connection, mode, original_foreign_keys, reconnected, step>> /\ step = "editing"
    BY <1>3 DEF BeginInner
  <2>2. begun' = begun \/ begun' = transaction_mode
    BY <1>3 DEF BeginInner, BeginsAs
  <2>3. ~in_transaction => begun' = transaction_mode
    BY <1>3 DEF BeginInner, BeginsAs
  <2> QED
    BY <2>1, <2>2, <2>3 DEF ModeInv, GuardInv, Guarded, settings
<1>4. CASE EndInner
  <2>1. ~in_transaction'
    BY <1>4 DEF EndInner, EndTransaction, engine, BlockInv
  <2>2. /\ UNCHANGED <<settings, mode, original_foreign_keys, reconnected, step, begun>> /\ step = "editing"
        /\ connection' = connection \/ connection' = "none"
    BY <1>4 DEF EndInner
  <2> QED
    BY <2>1, <2>2 DEF ModeInv, GuardInv, Guarded, settings
<1>5. CASE CloseInBody
  <2>1. ~in_transaction'
    BY <1>5 DEF CloseInBody, ForceClose, EndTransaction
  <2>2. /\ UNCHANGED <<settings, mode, original_foreign_keys, reconnected, step, begun>> /\ step = "editing"
        /\ connection = "open"
    BY <1>5 DEF CloseInBody
  <2> QED
    BY <2>1, <2>2 DEF ModeInv, GuardInv, Guarded, settings
<1>6. ASSUME NEW exception \in BOOLEAN, EndBody(exception) PROVE ModeInv' /\ GuardInv'
  BY <1>6, BeginsAsSet, GuardKept DEF EndBody
<1>7. CASE RunDeferred
  <2>1. BegunAsSet
    BY <1>7, BeginsAsSet DEF RunDeferred
  <2>2. step = "deferred" /\ step' \in {"deferred", "check", "leave"}
    BY <1>7 DEF RunDeferred, OnDeferredError
  <2> QED
    BY <1>7, <2>1, <2>2, GuardKept DEF RunDeferred
<1>8. CASE CheckConstraints
  BY <1>8, BeginsAsSet, GuardKept DEF CheckConstraints
<1>9. CASE Leave \/ RunHooks
  <2>1. UNCHANGED <<settings, mode, begun>> /\ step' \in {"restore", "hooks"}
    BY <1>9 DEF Leave, LeaveBlock, LeaveSavepoint, RunHooks
  <2> QED
    BY <2>1 DEF ModeInv, GuardInv, Guarded, settings
<1>10. CASE Restore
  <2>1. BegunAsSet
    BY <1>10, BeginsAsSet DEF Restore
  <2>2. /\ UNCHANGED mode /\ step' = "outside"
        /\ transaction_mode' = transaction_mode \/ transaction_mode' = mode
    BY <1>10 DEF Restore, Remembered
  <2> QED
    BY <2>1, <2>2 DEF ModeInv, GuardInv, Guarded, BegunAsSet
<1> QED
  BY <1>1, <1>2, <1>3, <1>4, <1>5, <1>6, <1>7, <1>8, <1>9, <1>10

LEMMA GuardStep ==
  TypeOK /\ BlockInv /\ Remembered /\ ModeInv /\ GuardInv /\ [Next]_vars => ModeInv' /\ GuardInv'
  BY GuardAround, GuardBody DEF Next, EditorStep

\* While a migration edits the schema nothing enforces foreign keys and no transaction is a
\* CONCURRENT one, as long as the connection is the one that the editor was entered with.
THEOREM EditorGuardsEdits == Spec => []EditsAreGuarded
<1>1. Init => EditorInv /\ ModeInv /\ GuardInv
  BY EditorInit, GuardInit
<1>2. TypeOK /\ BlockInv /\ EditorInv /\ ModeInv /\ GuardInv /\ [Next]_vars
        => EditorInv' /\ ModeInv' /\ GuardInv'
  BY EditorInvStep, GuardStep DEF EditorInv
<1>3. GuardInv => EditsAreGuarded
  BY DEF GuardInv, Guarded, EditsAreGuarded
<1> QED
  BY <1>1, <1>2, <1>3, EditsHold, PTL DEF Spec
================================================================================
