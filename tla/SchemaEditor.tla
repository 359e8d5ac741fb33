----------------------------- MODULE SchemaEditor ------------------------------
(******************************************************************************)
(* One DatabaseSchemaEditor (src/django_pyturso/schema.py): it turns foreign- *)
(* key enforcement and CONCURRENT transactions off, lets a migration edit the *)
(* schema, checks the result, and puts everything back on every way out.      *)
(*                                                                            *)
(* An action is one call the editor makes of the connection; what the call    *)
(* does to the transaction is abstracted from TursoTransactions.  "step"      *)
(* names the next call.  The editor may be entered outside a transaction, in  *)
(* an atomic() block, or in a manual transaction.                             *)
(******************************************************************************)
EXTENDS TursoEngine

CONSTANTS
  Configured,         \* the transaction modes that may be configured
  Violating           \* the work that leaves a foreign key without its parent

Modes == {"DEFERRED", "IMMEDIATE", "CONCURRENT"}

ASSUME EditorAssumption ==
  /\ Configured \subseteq Modes
  /\ Violating \subseteq Work

VARIABLES
  mode,               \* the configured transaction_mode
  in_memory,          \* is_in_memory_db()

  connection,         \* "none" | "open" | "closed", as in TursoTransactions
  transaction_mode,
  foreign_keys,       \* PRAGMA foreign_keys of the open connection
  begun,              \* the mode the engine's transaction was begun in
  needs_rollback,
  outer,              \* what the editor is entered in: "none" | "atomic" | "manual"

  step,
  atomic_migration,
  original_foreign_keys,   \* "unset" | "on" | "off"
  original_transaction_mode,
  block,              \* the editor's own atomic() block is open
  inner,              \* an atomic() block in the body of a non-atomic migration is open
  deferred_sql,
  raised,             \* an exception is on its way to super().__exit__()

  \* history
  enforced,           \* the enforcement the application has chosen
  reconnected,        \* the connection was replaced since the editor was entered
  edited              \* the work of atomic edits

database == <<mode, in_memory>>
saved    == <<original_foreign_keys, original_transaction_mode>>
blocks   == <<outer, block, inner>>
marks    == <<needs_rollback, raised>>
settings == <<transaction_mode, foreign_keys>>
history  == <<enforced, reconnected, edited>>
vars     == <<database, engine, connection, settings, begun, marks, blocks, step, atomic_migration, saved,
              deferred_sql, history>>

Steps == {"outside", "read", "disable", "begin", "editing", "deferred", "check", "leave", "hooks",
          "restore"}

TypeOK ==
  /\ mode \in Configured
  /\ in_memory \in BOOLEAN
  /\ EngineTypeOK
  /\ connection \in {"none", "open", "closed"}
  /\ transaction_mode \in Modes
  /\ foreign_keys \in BOOLEAN
  /\ begun \in Modes
  /\ needs_rollback \in BOOLEAN
  /\ outer \in {"none", "atomic", "manual"}
  /\ step \in Steps
  /\ atomic_migration \in BOOLEAN
  /\ original_foreign_keys \in {"unset", "on", "off"}
  /\ original_transaction_mode \in Modes \union {"unset"}
  /\ block \in BOOLEAN
  /\ inner \in BOOLEAN
  /\ deferred_sql \subseteq Work
  /\ raised \in BOOLEAN
  /\ enforced \in BOOLEAN
  /\ reconnected \in BOOLEAN
  /\ edited \subseteq Work

Init ==
  /\ mode \in Configured
  /\ in_memory \in BOOLEAN
  /\ EngineInit
  /\ connection = "none"
  /\ transaction_mode = mode
  /\ foreign_keys = TRUE
  /\ begun = mode
  /\ needs_rollback = FALSE
  /\ outer = "none"
  /\ step = "outside"
  /\ atomic_migration = TRUE
  /\ original_foreign_keys = "unset"
  /\ original_transaction_mode = "unset"
  /\ block = FALSE
  /\ inner = FALSE
  /\ deferred_sql = {}
  /\ raised = FALSE
  /\ enforced = TRUE
  /\ reconnected = FALSE
  /\ edited = {}
--------------------------------------------------------------------------------
(* The connection, as the editor sees it.                                     *)

in_atomic_block == outer = "atomic" \/ block \/ inner
autocommit      == outer = "none" /\ ~block /\ ~inner

\* The transaction a statement runs in, and the mode of one that it begins.
Ensured == in_transaction \/ ~autocommit
BeginsAs(tx) == begun' = IF tx /\ ~in_transaction THEN transaction_mode ELSE begun

\* A block that commits on exit and has lost its transaction runs nothing.
BlockLost == in_atomic_block /\ outer # "manual" /\ ~in_transaction
CanRun    == connection = "open" /\ ~needs_rollback /\ ~BlockLost

StatementRuns == CanRun /\ Statement(Ensured) /\ BeginsAs(Ensured)

\* A statement raises: refused, or failing with the transaction still there or gone.
StatementFails ==
  \/ /\ ~CanRun
     /\ needs_rollback' = (needs_rollback \/ (connection = "open" /\ BlockLost))
     /\ UNCHANGED <<engine, begun>>
  \/ /\ CanRun
     /\ UNCHANGED <<engine, begun, needs_rollback>>
  \/ /\ CanRun
     /\ Statement(Ensured) /\ BeginsAs(Ensured)
     /\ UNCHANGED needs_rollback
  \/ /\ CanRun
     /\ EndTransaction("lost")
     /\ needs_rollback' = (needs_rollback \/ in_atomic_block)
     /\ UNCHANGED begun

\* ensure_connection(): every new connection enforces foreign keys, and
\* get_connection_params() reads the transaction mode from the settings again.
Connect ==
  /\ connection = "none"
  /\ connection' = "open"
  /\ foreign_keys' = TRUE
  /\ transaction_mode' = mode
  /\ needs_rollback' = FALSE
  /\ outer' = "none"
  /\ enforced' = (enforced \/ step = "outside")
  /\ reconnected' = TRUE
  /\ UNCHANGED <<database, engine, begun, step, atomic_migration, saved, block, inner, deferred_sql, raised, edited>>

\* Mutant: a connection whose enforcement cannot be restored is kept.
KeepConnection == UNCHANGED <<engine, connection, needs_rollback>>

\* _force_close(), which does nothing to a connection that is closed already.
ForceClose ==
  IF connection # "open"
  THEN UNCHANGED <<engine, connection, needs_rollback>>
  ELSE /\ EndTransaction("lost")
       /\ connection' = IF in_atomic_block THEN "closed" ELSE "none"
       /\ needs_rollback' = (needs_rollback \/ in_atomic_block)

\* Mutant: _set_foreign_key_state() does not read back what it has set.
SetsUnverified(enabled) ==
  /\ StatementRuns
  /\ foreign_keys' = IF Ensured THEN foreign_keys ELSE enabled
  /\ UNCHANGED needs_rollback

\* _set_foreign_key_state() succeeds: the engine reads back what was asked for, which it
\* takes only outside a transaction.
SetsForeignKeys(enabled) ==
  /\ StatementRuns
  /\ Ensured => foreign_keys = enabled
  /\ foreign_keys' = enabled
  /\ UNCHANGED needs_rollback

\* It raises, in either statement or because of what it reads back.
SettingRaises(enabled) ==
  \/ /\ StatementFails
     /\ foreign_keys' \in {foreign_keys} \union (IF CanRun /\ ~Ensured THEN {enabled} ELSE {})
  \/ /\ StatementRuns
     /\ foreign_keys # enabled
     /\ UNCHANGED <<foreign_keys, needs_rollback>>
--------------------------------------------------------------------------------
(* What the application does around an editor.                                *)

\* disable_constraint_checking() and enable_constraint_checking().
ChooseEnforcement ==
  /\ step = "outside" /\ connection = "open" /\ outer = "none"
  /\ foreign_keys' = ~foreign_keys
  /\ enforced' = ~enforced
  /\ UNCHANGED <<database, engine, connection, transaction_mode, begun, marks, blocks, step, atomic_migration,
                 saved, deferred_sql, reconnected, edited>>

EnterOuter(kind) ==
  /\ step = "outside" /\ connection = "open" /\ outer = "none"
  /\ outer' = kind
  /\ Statement(TRUE) /\ BeginsAs(TRUE)
  /\ needs_rollback' = FALSE
  /\ edited' = {}
  /\ UNCHANGED <<database, connection, settings, raised, block, inner, step, atomic_migration, saved,
                 deferred_sql, enforced, reconnected>>

\* The outer transaction ends; an atomic() block that is marked is rolled back.
LeaveOuter ==
  /\ step = "outside" /\ outer # "none" /\ connection # "none"
  /\ outer' = "none"
  /\ needs_rollback' = FALSE
  /\ IF connection = "closed"
     THEN connection' = "none" /\ UNCHANGED engine
     ELSE \/ /\ outer = "atomic" => ~needs_rollback
             /\ EndTransaction("committed") /\ UNCHANGED connection
          \/ /\ EndTransaction("lost")
             /\ connection' \in {connection, "none"}
  /\ UNCHANGED <<database, settings, begun, raised, block, inner, step, atomic_migration, saved,
                 deferred_sql, history>>
--------------------------------------------------------------------------------
(* __enter__()                                                                *)

Enter(atomic) ==
  /\ step = "outside" /\ connection = "open"
  /\ transaction_mode = "CONCURRENT" => outer = "none"
  /\ step' = "read"
  /\ atomic_migration' = atomic
  /\ raised' = FALSE
  /\ reconnected' = FALSE
  /\ edited' = IF outer = "none" THEN {} ELSE edited
  /\ UNCHANGED <<database, engine, connection, settings, begun, needs_rollback, blocks, saved, deferred_sql,
                 enforced>>

\* _foreign_key_state(); a connection that cannot tell is given up.
ReadOriginal ==
  /\ step = "read"
  /\ \/ /\ StatementRuns
        /\ original_foreign_keys' = IF foreign_keys THEN "on" ELSE "off"
        /\ step' = "disable"
        /\ UNCHANGED <<connection, needs_rollback>>
     \/ /\ ForceClose
        /\ step' = "outside"
        /\ UNCHANGED <<begun, original_foreign_keys>>
  /\ UNCHANGED <<database, settings, raised, blocks, atomic_migration, original_transaction_mode,
                 deferred_sql, history>>

\* Mutant: __enter__() without its except clause.
EnterErrorEscapes == step' = "outside"

\* An error in __enter__() is raised once everything is restored.
OnEnterError == step' = "restore"

\* Enforcement must go off before the editor's transaction begins; then a CONCURRENT
\* connection is made to begin IMMEDIATE ones.
DisableEnforcement ==
  /\ step = "disable"
  /\ \/ /\ IF original_foreign_keys = "on"
           THEN ~in_atomic_block /\ SetsForeignKeys(FALSE)
           ELSE UNCHANGED <<engine, begun, foreign_keys, needs_rollback>>
        /\ IF transaction_mode = "CONCURRENT"
           THEN /\ original_transaction_mode' = "CONCURRENT"
                /\ transaction_mode' = "IMMEDIATE"
           ELSE UNCHANGED <<original_transaction_mode, transaction_mode>>
        /\ step' = "begin"
     \/ /\ original_foreign_keys = "on"
        /\ IF in_atomic_block
           THEN UNCHANGED <<engine, begun, foreign_keys, needs_rollback>>
           ELSE SettingRaises(FALSE)
        /\ OnEnterError
        /\ UNCHANGED <<original_transaction_mode, transaction_mode>>
  /\ UNCHANGED <<database, connection, raised, blocks, atomic_migration, original_foreign_keys, deferred_sql,
                 history>>

\* super().__enter__(): an atomic migration opens a transaction, or a savepoint of the
\* one it is in.
BeginEditing ==
  /\ step = "begin"
  /\ deferred_sql' = {}
  /\ \/ /\ ~atomic_migration
        /\ step' = "editing"
        /\ UNCHANGED <<engine, begun, needs_rollback, block>>
     \/ /\ atomic_migration /\ CanRun
        /\ IF outer = "none" THEN Statement(TRUE) ELSE Savepoint(1)
        /\ BeginsAs(TRUE)
        /\ block' = TRUE
        /\ step' = "editing"
        /\ UNCHANGED needs_rollback
     \/ /\ atomic_migration
        /\ StatementFails
        /\ OnEnterError
        /\ UNCHANGED block
  /\ UNCHANGED <<database, connection, settings, raised, outer, inner, atomic_migration, saved, history>>
--------------------------------------------------------------------------------
(* The body of the editor: the operations of a migration.                     *)

\* The engine refuses a violation only while it enforces foreign keys.
Edit(w) ==
  /\ CanRun
  /\ work[w] = "new"
  /\ w \in Violating => ~foreign_keys
  /\ Write({w}, Ensured) /\ BeginsAs(Ensured)
  /\ edited' = IF block THEN edited \union {w} ELSE edited

Alter(w) ==
  /\ step = "editing"
  /\ w \notin deferred_sql
  /\ Edit(w)
  /\ UNCHANGED <<database, connection, settings, marks, blocks, step, atomic_migration, saved, deferred_sql,
                 enforced, reconnected>>

AlterFails ==
  /\ step = "editing"
  /\ StatementFails
  /\ UNCHANGED <<database, connection, settings, raised, blocks, step, atomic_migration, saved, deferred_sql, history>>

Defer(w) ==
  /\ step = "editing"
  /\ work[w] = "new"
  /\ deferred_sql' = deferred_sql \union {w}
  /\ UNCHANGED <<database, engine, connection, settings, begun, marks, blocks, step, atomic_migration, saved, history>>

\* atomic() inside a migration that is not atomic.
BeginInner ==
  /\ step = "editing" /\ autocommit /\ connection = "open"
  /\ inner' = TRUE
  /\ needs_rollback' = FALSE
  /\ Statement(TRUE) /\ BeginsAs(TRUE)
  /\ UNCHANGED <<database, connection, settings, raised, outer, block, step, atomic_migration, saved,
                 deferred_sql, history>>

EndInner ==
  /\ step = "editing" /\ inner
  /\ inner' = FALSE
  /\ needs_rollback' = FALSE
  /\ IF connection = "closed"
     THEN connection' = "none" /\ UNCHANGED engine
     ELSE \/ ~needs_rollback /\ EndTransaction("committed") /\ UNCHANGED connection
          \/ EndTransaction("lost") /\ connection' \in {connection, "none"}
  /\ UNCHANGED <<database, settings, begun, raised, outer, block, step, atomic_migration, saved, deferred_sql, history>>

\* The migration calls connection.close(), which keeps an in-memory database.  (Django does
\* not recover from a close in a block of a manual transaction: see TursoTransactions.)
CloseInBody ==
  /\ step = "editing" /\ connection = "open"
  /\ ~(block /\ outer = "manual")
  /\ IF in_memory /\ ~in_atomic_block
     THEN EndTransaction("lost") /\ UNCHANGED <<connection, needs_rollback>>
     ELSE ForceClose
  /\ UNCHANGED <<database, settings, begun, raised, blocks, step, atomic_migration, saved, deferred_sql, history>>

EndBody(exception) ==
  /\ step = "editing" /\ ~inner
  /\ raised' = exception
  /\ step' = IF exception THEN "leave" ELSE "deferred"
  /\ UNCHANGED <<database, engine, connection, settings, begun, needs_rollback, blocks, atomic_migration, saved,
                 deferred_sql, history>>
--------------------------------------------------------------------------------
(* __exit__()                                                                 *)

\* Mutant: __exit__() leaves the deferred statements to run outside the try of its own.
DeferredErrorEscapes == step' = "restore"

\* An error in the deferred statements reaches the exit of the editor's block.
OnDeferredError == step' = "leave"

\* The deferred statements run inside that block; an error drops the rest.
RunDeferred ==
  /\ step = "deferred"
  /\ \/ /\ deferred_sql = {}
        /\ step' = "check"
        /\ UNCHANGED <<engine, begun, marks, deferred_sql, edited>>
     \/ /\ \E w \in deferred_sql : Edit(w) /\ deferred_sql' = deferred_sql \ {w}
        /\ UNCHANGED <<marks, step>>
     \/ /\ deferred_sql # {}
        /\ StatementFails
        /\ deferred_sql' = {}
        /\ raised' = TRUE
        /\ OnDeferredError
        /\ UNCHANGED edited
  /\ UNCHANGED <<database, connection, settings, blocks, atomic_migration, saved, enforced, reconnected>>

\* Mutant: check_constraints() finds nothing.
NothingViolated == FALSE

\* A row that check_constraints() would find.
Violated == \E w \in Violating : work[w] \in {"open", "committed"}

\* check_constraints()
CheckConstraints ==
  /\ step = "check"
  /\ step' = "leave"
  /\ \/ /\ StatementRuns
        /\ raised' = Violated
        /\ UNCHANGED needs_rollback
     \/ /\ StatementFails
        /\ raised' = TRUE
  /\ UNCHANGED <<database, connection, settings, blocks, atomic_migration, saved, deferred_sql, history>>

\* super().__exit__(): the block of an atomic migration commits or rolls back.
LeaveBlock ==
  /\ block /\ outer = "none"
  /\ needs_rollback' = FALSE
  /\ IF connection = "closed"
     THEN connection' = "none" /\ step' = "restore" /\ UNCHANGED <<engine, raised>>
     ELSE \/ /\ ~raised /\ ~needs_rollback
             /\ EndTransaction("committed")
             /\ step' = "hooks"
             /\ UNCHANGED <<connection, raised>>
          \/ /\ EndTransaction("lost")
             /\ connection' \in {connection, "none"}
             /\ raised' \in {raised, TRUE}
             /\ step' = "restore"

\* Inside another transaction the block is a savepoint; one that cannot be rolled back
\* marks the block around it.
LeaveSavepoint ==
  /\ block /\ outer # "none"
  /\ step' = "restore"
  /\ UNCHANGED connection
  /\ \/ /\ connection = "closed"
        /\ UNCHANGED <<engine, needs_rollback, raised>>
     \/ /\ connection = "open" /\ ~raised /\ CanRun
        /\ Release(1)
        /\ UNCHANGED <<needs_rollback, raised>>
     \/ /\ connection = "open" /\ in_transaction
        /\ RollbackTo(1)
        /\ needs_rollback' = FALSE
        /\ UNCHANGED raised
     \/ /\ connection = "open"
        /\ UNCHANGED engine \/ EndTransaction("lost")
        /\ needs_rollback' = TRUE
        /\ raised' = TRUE

Leave ==
  /\ step = "leave"
  /\ block' = FALSE
  /\ \/ LeaveBlock
     \/ LeaveSavepoint
     \/ /\ ~block
        /\ step' = "restore"
        /\ UNCHANGED <<engine, connection, marks>>
  /\ UNCHANGED <<database, settings, begun, outer, inner, atomic_migration, saved, deferred_sql, history>>

\* The commit of the editor's block runs the commit hooks of the migration, which may
\* write, before enforcement is restored.
RunHooks ==
  /\ step = "hooks"
  /\ \/ step' = "restore" /\ UNCHANGED engine
     \/ /\ \E w \in Work : work[w] = "new" /\ (w \in Violating => ~foreign_keys) /\ Write({w}, FALSE)
        /\ UNCHANGED step
  /\ UNCHANGED <<database, connection, settings, begun, marks, blocks, atomic_migration, saved, deferred_sql, history>>

\* _restore_foreign_key_state() and _restore_transaction_mode(), at the end of
\* __exit__() and of an __enter__() that failed.
Restore ==
  /\ step = "restore"
  /\ step' = "outside"
  /\ \/ /\ SetsForeignKeys(original_foreign_keys = "on")
        /\ UNCHANGED connection
     \/ /\ ForceClose
        /\ UNCHANGED <<foreign_keys, begun>>
  /\ transaction_mode' = IF original_transaction_mode = "unset"
                         THEN transaction_mode ELSE original_transaction_mode
  /\ original_foreign_keys' = "unset"
  /\ original_transaction_mode' = "unset"
  /\ UNCHANGED <<database, raised, blocks, atomic_migration, deferred_sql, history>>
--------------------------------------------------------------------------------
EditorStep == ReadOriginal \/ DisableEnforcement \/ BeginEditing \/ RunDeferred \/ CheckConstraints
              \/ Leave \/ RunHooks \/ Restore

Next ==
  \/ Connect
  \/ ChooseEnforcement
  \/ \E kind \in {"atomic", "manual"} : EnterOuter(kind)
  \/ LeaveOuter
  \/ \E atomic \in BOOLEAN : Enter(atomic)
  \/ \E w \in Work : Alter(w) \/ Defer(w)
  \/ AlterFails
  \/ BeginInner
  \/ EndInner
  \/ CloseInBody
  \/ \E exception \in BOOLEAN : EndBody(exception)
  \/ EditorStep

\* The editor's own calls return, and so do the operations of the migration.
Fairness ==
  /\ WF_vars(EditorStep)
  /\ WF_vars(EndInner)
  /\ SF_vars(\E exception \in BOOLEAN : EndBody(exception))

Spec == Init /\ [][Next]_vars
FairSpec == Spec /\ Fairness
--------------------------------------------------------------------------------
\* Whatever failed on the way, an editor that has been left leaves an open connection
\* with the enforcement the application chose and the configured transaction mode
\* (_restore_foreign_key_state(), _restore_transaction_mode()).
EverythingRestored ==
  step = "outside" =>
    /\ transaction_mode = mode
    /\ connection = "open" => foreign_keys = enforced

\* An atomic edit that leaves a foreign key without its parent is never committed, though
\* the engine does not enforce foreign keys while it runs (check_constraints() before
\* the block is left).
ViolationsAreNotCommitted ==
  \A w \in edited \intersect Violating : work[w] # "committed"

\* Enforcement goes back on only when the editor's transaction is over, since the engine
\* ignores the pragma inside one, and a failed atomic edit is undone by then
\* (docs/transactions.md: "Deferred DDL errors roll back the atomic schema changes before
\* the editor restores foreign-key enforcement").
UndoneBeforeRestored ==
  step = "restore" /\ outer = "none" =>
    /\ ~in_transaction
    /\ raised => \A w \in edited : work[w] # "committed"

\* While a migration runs the engine does not enforce foreign keys, so that dropping a
\* table that is being remade cannot cascade, and no transaction is a CONCURRENT one -
\* unless the connection was replaced meanwhile.
EditsAreGuarded ==
  step \in {"editing", "deferred", "check"} /\ connection = "open" /\ ~reconnected =>
    /\ ~foreign_keys
    /\ in_transaction => begun # "CONCURRENT"

\* docs/transactions.md: "The schema editor temporarily uses IMMEDIATE transactions,
\* including for atomic work inside non-atomic migrations."
EditsAreRegular ==
  step \in {"editing", "deferred", "check"} /\ in_transaction => begun # "CONCURRENT"

\* An editor that turned enforcement off turns it on again or gives the connection up:
\* no way out of it skips the restoration.
RestorationHappens == original_foreign_keys = "on" ~> step = "outside" /\ original_foreign_keys = "unset"
================================================================================
