--------------------------- MODULE TursoTransactions ---------------------------
(******************************************************************************)
(* The transaction state of one django_pyturso DatabaseWrapper               *)
(* (src/django_pyturso/base.py), driven by Django and by an application.      *)
(*                                                                            *)
(* A wrapper belongs to one thread, so an action is one call of the           *)
(* application.  Leaving an atomic() block is a sequence of engine calls any  *)
(* of which may fail; it is split into one action per call, and "exiting"     *)
(* names the next one.  What other connections do shows only as errors and    *)
(* aborts, which any statement, COMMIT or ROLLBACK may meet.                  *)
(*                                                                            *)
(* The parts of Django that are not in this repository (Atomic, the base      *)
(* DatabaseWrapper) are modelled from how base.py calls and overrides them.   *)
(******************************************************************************)
EXTENDS TursoEngine, Sequences, FiniteSets

CONSTANTS
  Settings,          \* the settings that the wrapper may have
  AllowManual,       \* the application calls set_autocommit()
  Unchecked,         \* the application ends or starts engine transactions with
                     \*   SQL of its own, and calls set_rollback(False)
  MaxDepth,          \* bound on nested atomic() blocks
  MaxSavepoints,     \* bound on the savepoints of one connection
  MaxHooks,          \* bound on on_commit() calls
  NoSavepoint        \* the None that Django keeps for a block without savepoint

ASSUME FlagsAssumption ==
  /\ Settings \subseteq [in_memory : BOOLEAN, autocommit : BOOLEAN, health_checks : BOOLEAN]
  /\ AllowManual \in BOOLEAN
  /\ Unchecked \in BOOLEAN
ASSUME NoSavepointAssumption == NoSavepoint \notin Nat

VARIABLES
  settings,                \* settings_dict; it never changes
  connection,              \* "none" | "open" | "closed": None, usable, or
                           \*   physically closed but kept until the block ends
  autocommit,
  in_atomic_block,
  commit_on_exit,
  savepoint_ids,           \* a savepoint or NoSavepoint per inner block
  savepoint_state,         \* the last savepoint number used
  needs_rollback,
  closed_in_transaction,
  run_on_commit,           \* the registered hooks
  hooks_armed,             \* run_commit_hooks_on_set_autocommit_on
  errors_occurred,
  health_check_due,        \* health_check_enabled and not health_check_done
  cursor,                  \* the result a cursor holds

  depth,                   \* the atomic() blocks the application is inside
  exiting,                 \* the next engine call of a block that is being left
  exiting_sid,             \* the savepoint of that block

  \* history
  ran,                     \* the hooks that have run
  block,                   \* the work of the current or last outermost block
  outcome                  \* how the last outermost block ended

InMemory     == settings.in_memory         \* is_in_memory_db()
Autocommit   == settings.autocommit        \* settings_dict["AUTOCOMMIT"]
HealthChecks == settings.health_checks     \* settings_dict["CONN_HEALTH_CHECKS"]

flags     == <<autocommit, in_atomic_block, commit_on_exit, closed_in_transaction>>
nesting   == <<savepoint_ids, savepoint_state, depth>>
leaving   == <<exiting, exiting_sid>>
hooks     == <<run_on_commit, hooks_armed, ran>>
health    == <<errors_occurred, health_check_due>>
history   == <<block, outcome>>
wrapper   == <<settings, connection, flags, nesting, needs_rollback, leaving, hooks, health,
               cursor, history>>
vars      == <<engine, wrapper>>

Sid == Nat \union {NoSavepoint}

\* A hook knows the savepoints it was registered under, whether its outermost block
\* is one that commits on exit, whether that was in good order, and the work that
\* had been done by then.
Hook == [sids : SUBSET Sid, managed : BOOLEAN, clean : BOOLEAN, deps : SUBSET Work]

\* The work that the driver still has to do when a cursor is fetched from.  (The rows
\* themselves, stored or not, are in TursoCursor.)
Result == [pending : SUBSET Work]
NoResult == [pending |-> {}]

Exiting == {"no", "release", "undo", "drop", "commit", "rollback", "close", "finish"}

TypeOK ==
  /\ EngineTypeOK
  /\ settings \in Settings
  /\ connection \in {"none", "open", "closed"}
  /\ autocommit \in BOOLEAN
  /\ in_atomic_block \in BOOLEAN
  /\ commit_on_exit \in BOOLEAN
  /\ savepoint_ids \in Seq(Sid)
  /\ savepoint_state \in Nat
  /\ needs_rollback \in BOOLEAN
  /\ closed_in_transaction \in BOOLEAN
  /\ run_on_commit \subseteq Hook
  /\ hooks_armed \in BOOLEAN
  /\ errors_occurred \in BOOLEAN
  /\ health_check_due \in BOOLEAN
  /\ cursor \in Result
  /\ depth \in Nat
  /\ exiting \in Exiting
  /\ exiting_sid \in Sid
  /\ ran \subseteq Hook
  /\ block \subseteq Work
  /\ outcome \in {"none", "committed", "failed"}

Init ==
  /\ EngineInit
  /\ settings \in Settings
  /\ connection = "none"
  /\ autocommit = FALSE
  /\ in_atomic_block = FALSE
  /\ commit_on_exit = TRUE
  /\ savepoint_ids = <<>>
  /\ savepoint_state = 0
  /\ needs_rollback = FALSE
  /\ closed_in_transaction = FALSE
  /\ run_on_commit = {}
  /\ hooks_armed = FALSE
  /\ errors_occurred = FALSE
  /\ health_check_due = FALSE
  /\ cursor = NoResult
  /\ depth = 0
  /\ exiting = "no"
  /\ exiting_sid = NoSavepoint
  /\ ran = {}
  /\ block = {}
  /\ outcome = "none"
--------------------------------------------------------------------------------
(* Statements: every execute and fetch runs inside _django_transaction().     *)

\* The transaction _ensure_transaction() leaves the statement in.
EnsuredTransaction == in_transaction \/ ~autocommit

\* Mutant: _ensure_transaction() without its check, so a lost block starts over.
LossUnnoticed == FALSE

\* _ensure_transaction() finds a managed block whose transaction is gone.
BlockLostTransaction ==
  /\ ~autocommit
  /\ ~in_transaction
  /\ in_atomic_block
  /\ commit_on_exit

\* The statement reaches the engine.
Admitted == connection = "open" /\ ~needs_rollback /\ ~BlockLostTransaction

\* _ensure_transaction() marks the block instead of starting another transaction.
RefuseLostBlock ==
  /\ BlockLostTransaction
  /\ needs_rollback' = TRUE
  /\ run_on_commit' = {}
  /\ UNCHANGED <<engine, errors_occurred>>

\* Mutant: _django_transaction() without its except clause, so that nothing marks a block
\* whose transaction an error ended.
EngineFailsUnmarked(forced) ==
  /\ errors_occurred' \in {errors_occurred, TRUE}
  /\ needs_rollback' = (needs_rollback \/ forced)
  /\ UNCHANGED run_on_commit
  /\ \/ ~autocommit /\ ~in_transaction /\ UNCHANGED engine
     \/ Statement(EnsuredTransaction)
     \/ EnsuredTransaction /\ EndTransaction("lost")

\* A driver error: in BEGIN (before the handler is armed), with the transaction
\* still there, or ending the transaction, which marks an enclosing block.
EngineFails(forced) ==
  /\ errors_occurred' \in {errors_occurred, TRUE}
  /\ \/ /\ ~autocommit /\ ~in_transaction
        /\ needs_rollback' = (needs_rollback \/ forced)
        /\ UNCHANGED <<engine, run_on_commit>>
     \/ /\ Statement(EnsuredTransaction)
        /\ needs_rollback' = (needs_rollback \/ forced)
        /\ UNCHANGED run_on_commit
     \/ /\ EnsuredTransaction
        /\ EndTransaction("lost")
        /\ needs_rollback' = (needs_rollback \/ forced \/ in_atomic_block)
        /\ run_on_commit' = IF in_atomic_block THEN {} ELSE run_on_commit

\* A statement raises; forced tells whether the caller marks the block anyway.
StatementFails(forced) ==
  \/ /\ needs_rollback
     /\ UNCHANGED <<engine, needs_rollback, run_on_commit, errors_occurred>>
  \/ ~needs_rollback /\ RefuseLostBlock
  \/ Admitted /\ EngineFails(forced)

\* The application may make its next call.  cursor() and set_autocommit() first
\* probe a connection whose health check is due (HealthCheck below).
Ready == exiting = "no" /\ connection = "open"
Checked == Ready /\ ~health_check_due

\* Mutant: execute() leaves the rows of RETURNING in the driver, like any others.
ResultStreamed(w, returning) ==
  IF returning THEN [pending |-> {w}] ELSE NoResult

\* The driver delays a statement with result columns until it is fetched; the wrapper
\* drains one that writes inside execute(), so that it is as done as one without RETURNING.
ResultOf(w, returning) == NoResult

\* execute() and executemany() of a statement that writes.
Execute(w, returning) ==
  LET result == ResultOf(w, returning) IN
  /\ Checked /\ Admitted
  /\ work[w] = "new" /\ w \notin block
  /\ Write({w} \ result.pending, EnsuredTransaction)
  /\ cursor' = result
  /\ block' = IF in_atomic_block THEN block \union {w} ELSE block
  /\ UNCHANGED <<settings, connection, flags, nesting, needs_rollback, leaving, hooks, health,
                 outcome>>

\* execute() of a statement that only reads: its rows are streamed.
Select ==
  /\ Checked /\ Admitted
  /\ Statement(EnsuredTransaction)
  /\ cursor' = NoResult
  /\ UNCHANGED <<settings, connection, flags, nesting, needs_rollback, leaving, hooks, health,
                 history>>

\* fetchone(), fetchmany(), fetchall(), __next__(): the guard of a statement, then
\* stored rows or the driver's stream, which does what it still has to do.
Fetch ==
  /\ Ready /\ Admitted
  /\ Write(cursor.pending, EnsuredTransaction)
  /\ cursor' = NoResult
  /\ UNCHANGED <<settings, connection, flags, nesting, needs_rollback, leaving, hooks, health,
                 history>>

\* execute(), executemany() or a fetch raises.
StatementRaises ==
  /\ Ready
  /\ ~needs_rollback
  /\ StatementFails(FALSE)
  /\ cursor' \in {cursor, NoResult}
  /\ UNCHANGED <<settings, connection, flags, nesting, leaving, hooks_armed, ran,
                 health_check_due, history>>
--------------------------------------------------------------------------------
(* Opening and closing the connection.                                        *)

\* What connect() resets before it opens anything.
ConnectResets ==
  /\ connection = "none" /\ exiting \in {"no", "finish"}
  /\ ~(in_atomic_block /\ closed_in_transaction)
  /\ in_atomic_block' = FALSE
  /\ closed_in_transaction' = FALSE
  /\ savepoint_ids' = <<>>
  /\ needs_rollback' = FALSE
  /\ health_check_due' = FALSE
  /\ UNCHANGED <<settings, savepoints, work, under, commit_on_exit, savepoint_state, depth,
                 cursor, history>>

\* ensure_connection(): get_new_connection(), the configured autocommit mode (which
\* runs hooks when a commit has armed them), and an empty list of hooks.
Connect ==
  /\ ConnectResets
  /\ connection' = "open"
  /\ autocommit' = Autocommit
  /\ in_transaction' = ~Autocommit
  /\ hooks_armed' = (hooks_armed /\ ~Autocommit)
  /\ ran' = IF hooks_armed /\ Autocommit THEN ran \union run_on_commit ELSE ran
  /\ run_on_commit' = {}
  /\ errors_occurred' = FALSE
  /\ UNCHANGED leaving

\* get_new_connection() raises, having closed what it opened; or the BEGIN of a manual
\* transaction does, when the connection is already stored.  wrap_database_errors may mark it.
ConnectFails ==
  /\ ConnectResets
  /\ connection' \in IF Autocommit THEN {"none"} ELSE {"none", "open"}
  /\ errors_occurred' \in BOOLEAN
  /\ exiting' = "no"
  /\ exiting_sid' = NoSavepoint
  /\ UNCHANGED <<autocommit, in_transaction, hooks>>

\* _force_close(): the physical connection goes; inside a block the object stays.
ForceClose ==
  /\ EndTransaction("lost")
  /\ run_on_commit' = {}
  /\ cursor' = NoResult
  /\ IF in_atomic_block
     THEN /\ connection' = "closed"
          /\ closed_in_transaction' = TRUE
          /\ needs_rollback' = TRUE
     ELSE /\ connection' = "none"
          /\ UNCHANGED <<closed_in_transaction, needs_rollback>>

\* Mutant: close() of an in-memory database without ending its transaction.
KeepForClose == UNCHANGED engine

\* What _rollback_active_transaction_for_close() leaves when it does not raise.
RollbackForClose ==
  IF in_transaction THEN EndTransaction("lost") ELSE UNCHANGED engine

\* Mutant: close() closes an in-memory database like any other.
CloseAlways == ForceClose

\* Mutant: close() without clearing run_on_commit.
CloseKeepsHooks ==
  \/ in_transaction /\ ForceClose
  \/ (in_atomic_block \/ ~InMemory) /\ ForceClose
  \/ /\ ~in_atomic_block /\ InMemory
     /\ RollbackForClose
     /\ UNCHANGED <<run_on_commit, connection, closed_in_transaction, needs_rollback, cursor>>

\* close() of an open connection.  It keeps an in-memory database unless a block
\* is open or the rollback fails.
CloseOpen ==
  \/ in_transaction /\ ForceClose
  \/ (in_atomic_block \/ ~InMemory) /\ ForceClose
  \/ /\ ~in_atomic_block /\ InMemory
     /\ RollbackForClose
     /\ run_on_commit' = {}
     /\ UNCHANGED <<connection, closed_in_transaction, needs_rollback, cursor>>

Close ==
  /\ exiting = "no"
  /\ IF connection = "open"
     THEN CloseOpen
     ELSE /\ run_on_commit' = {}
          /\ UNCHANGED <<engine, connection, closed_in_transaction, needs_rollback, cursor>>
  /\ UNCHANGED <<settings, autocommit, in_atomic_block, commit_on_exit, nesting, leaving,
                 hooks_armed, ran, health, history>>

\* close_if_health_check_failed()
HealthCheck ==
  /\ Ready /\ health_check_due
  /\ health_check_due' = FALSE
  /\ \/ ForceClose
     \/ UNCHANGED <<engine, run_on_commit, cursor, connection, closed_in_transaction, needs_rollback>>
  /\ UNCHANGED <<settings, autocommit, in_atomic_block, commit_on_exit, nesting, leaving,
                 hooks_armed, ran, errors_occurred, history>>

\* Mutant: the boundary trusts the autocommit mode the wrapper remembers.
DriftIgnored == FALSE

\* The engine is in a transaction that the wrapper does not know of.
Drifted == autocommit /\ in_transaction

KeepConnection == UNCHANGED <<engine, connection, closed_in_transaction, needs_rollback, run_on_commit, cursor>>

\* close_if_unusable_or_obsolete(), which Django calls between requests: an
\* in-memory database is given up only in a state that cannot be trusted.
BoundaryInMemory ==
  IF autocommit # Autocommit \/ Drifted
  THEN ForceClose /\ UNCHANGED errors_occurred /\ health_check_due' = HealthChecks
  ELSE \/ /\ errors_occurred' = FALSE
          /\ health_check_due' \in {HealthChecks /\ ~errors_occurred, FALSE}
          /\ KeepConnection
       \/ /\ errors_occurred /\ ForceClose
          /\ UNCHANGED errors_occurred /\ health_check_due' = HealthChecks

\* A file database is closed by Django's version, which does not look for drift.
BoundaryFile ==
  \/ /\ autocommit = Autocommit
     /\ errors_occurred' = FALSE
     /\ health_check_due' = (HealthChecks /\ ~errors_occurred)
     /\ KeepConnection
  \/ /\ health_check_due' = HealthChecks
     /\ UNCHANGED errors_occurred
     /\ CloseOpen

CloseIfUnusableOrObsolete ==
  /\ Ready /\ depth = 0
  /\ IF InMemory THEN BoundaryInMemory ELSE BoundaryFile
  /\ UNCHANGED <<settings, autocommit, in_atomic_block, commit_on_exit, nesting, leaving,
                 hooks_armed, ran, history>>
--------------------------------------------------------------------------------
(* Entering atomic().                                                         *)

\* _start_transaction_under_autocommit(): BEGIN fails when one is already open.
EnterManagedBlock ==
  /\ Checked /\ ~in_atomic_block /\ autocommit /\ depth < MaxDepth
  /\ commit_on_exit' = TRUE
  /\ needs_rollback' = FALSE
  /\ \/ /\ ~in_transaction
        /\ Statement(TRUE)
        /\ autocommit' = FALSE
        /\ in_atomic_block' = TRUE
        /\ depth' = depth + 1
        /\ block' = {}
        /\ outcome' = "none"
        /\ UNCHANGED errors_occurred
     \/ /\ errors_occurred' = TRUE
        /\ UNCHANGED <<engine, autocommit, in_atomic_block, depth, history>>
  /\ UNCHANGED <<settings, connection, closed_in_transaction, savepoint_ids, savepoint_state,
                 leaving, hooks, health_check_due, cursor>>

\* With autocommit off the outermost block is a savepoint of the manual transaction
\* (or nothing, with savepoint=False).  A BEGIN or SAVEPOINT that fails leaves the
\* wrapper "in" a block that the application never entered.
EnterManualBlock(savepoint) ==
  /\ Checked /\ ~in_atomic_block /\ ~autocommit /\ depth < MaxDepth
  /\ in_atomic_block' = TRUE
  /\ commit_on_exit' = FALSE
  /\ IF savepoint
     THEN /\ savepoint_state < MaxSavepoints
          /\ savepoint_state' = savepoint_state + 1
          /\ \/ /\ Savepoint(savepoint_state')
                /\ savepoint_ids' = Append(savepoint_ids, savepoint_state')
                /\ depth' = depth + 1
                /\ needs_rollback' = FALSE
                /\ UNCHANGED <<errors_occurred, run_on_commit>>
             \/ /\ errors_occurred' \in {errors_occurred, TRUE}
                /\ \/ UNCHANGED engine /\ ~in_transaction
                      /\ needs_rollback' = FALSE /\ UNCHANGED run_on_commit
                   \/ Statement(TRUE)
                      /\ needs_rollback' = FALSE /\ UNCHANGED run_on_commit
                   \/ EndTransaction("lost")
                      /\ needs_rollback' = TRUE /\ run_on_commit' = {}
                /\ UNCHANGED <<savepoint_ids, depth>>
     ELSE /\ savepoint_ids' = Append(savepoint_ids, NoSavepoint)
          /\ depth' = depth + 1
          /\ needs_rollback' = FALSE
          /\ UNCHANGED <<engine, savepoint_state, errors_occurred, run_on_commit>>
  /\ block' = Open
  /\ outcome' = "none"
  /\ UNCHANGED <<settings, connection, autocommit, closed_in_transaction, leaving, hooks_armed,
                 ran, health_check_due, cursor>>

\* An inner block; it has no savepoint once the outer block is marked.
EnterInnerBlock(savepoint) ==
  /\ exiting = "no" /\ in_atomic_block /\ depth < MaxDepth
  /\ IF savepoint /\ ~needs_rollback
     THEN /\ Checked
          /\ savepoint_state < MaxSavepoints
          /\ savepoint_state' = savepoint_state + 1
          /\ \/ /\ Admitted
                /\ Savepoint(savepoint_state')
                /\ savepoint_ids' = Append(savepoint_ids, savepoint_state')
                /\ depth' = depth + 1
                /\ UNCHANGED <<needs_rollback, run_on_commit, errors_occurred>>
             \/ StatementFails(FALSE) /\ UNCHANGED <<savepoint_ids, depth>>
     ELSE /\ savepoint_ids' = Append(savepoint_ids, NoSavepoint)
          /\ depth' = depth + 1
          /\ UNCHANGED <<engine, savepoint_state, needs_rollback, run_on_commit, errors_occurred>>
  /\ UNCHANGED <<settings, connection, flags, leaving, hooks_armed, ran, health_check_due,
                 cursor, history>>
--------------------------------------------------------------------------------
(* Leaving atomic().                                                          *)

\* Atomic.__exit__ up to its first engine call.  raised tells whether the block
\* ended with an exception; a marked block is rolled back in any case.
LeaveBlock(raised) ==
  LET inner == savepoint_ids # <<>>
      sid   == IF inner THEN savepoint_ids[Len(savepoint_ids)] ELSE NoSavepoint
      clean == ~raised /\ ~needs_rollback
  IN
  /\ exiting = "no" /\ depth > 0
  /\ depth' = depth - 1
  /\ exiting_sid' = sid
  /\ IF inner
     THEN /\ savepoint_ids' = SubSeq(savepoint_ids, 1, Len(savepoint_ids) - 1)
          /\ UNCHANGED in_atomic_block
     ELSE /\ in_atomic_block' = FALSE
          /\ UNCHANGED savepoint_ids
  /\ exiting' = IF closed_in_transaction \/ (inner /\ sid = NoSavepoint)
                THEN "finish"
                ELSE IF inner THEN (IF clean THEN "release" ELSE "undo")
                              ELSE (IF clean THEN "commit" ELSE "rollback")
  /\ needs_rollback' = IF closed_in_transaction \/ clean
                       THEN needs_rollback
                       ELSE inner /\ sid = NoSavepoint
  /\ outcome' = IF inner THEN outcome ELSE "failed"
  /\ UNCHANGED <<settings, engine, connection, autocommit, commit_on_exit, closed_in_transaction,
                 savepoint_state, hooks, health, cursor, block>>

\* savepoint_commit(): RELEASE SAVEPOINT; when it fails the savepoint is rolled back.
ReleaseSavepoint ==
  /\ exiting = "release"
  /\ \/ /\ Admitted
        /\ Release(exiting_sid)
        /\ exiting' = "finish"
        /\ UNCHANGED <<needs_rollback, run_on_commit, errors_occurred>>
     \/ StatementFails(FALSE) /\ exiting' = "undo"
  /\ UNCHANGED <<settings, connection, flags, nesting, exiting_sid, hooks_armed, ran,
                 health_check_due, cursor, history>>

\* savepoint_rollback(): _savepoint_rollback() refuses when the transaction is gone;
\* otherwise ROLLBACK TO SAVEPOINT, and the hooks registered under it are dropped.
UndoToSavepoint ==
  /\ exiting = "undo"
  /\ IF ~in_transaction
     THEN /\ exiting' = "finish"
          /\ needs_rollback' = TRUE
          /\ UNCHANGED <<engine, run_on_commit, errors_occurred>>
     ELSE \/ /\ Admitted
             /\ RollbackTo(exiting_sid)
             /\ run_on_commit' = {h \in run_on_commit : exiting_sid \notin h.sids}
             /\ exiting' = "drop"
             /\ UNCHANGED <<needs_rollback, errors_occurred>>
          \/ StatementFails(TRUE) /\ exiting' = "finish"
  /\ UNCHANGED <<settings, connection, flags, nesting, exiting_sid, hooks_armed, ran,
                 health_check_due, cursor, history>>

\* The savepoint that was rolled back to is released.
DropSavepoint ==
  /\ exiting = "drop"
  /\ exiting' = "finish"
  /\ \/ /\ Admitted
        /\ Release(exiting_sid)
        /\ UNCHANGED <<needs_rollback, run_on_commit, errors_occurred>>
     \/ StatementFails(TRUE)
  /\ UNCHANGED <<settings, connection, flags, nesting, exiting_sid, hooks_armed, ran,
                 health_check_due, cursor, history>>

\* connection.commit() of the driver; without a transaction it does nothing.  A
\* failed COMMIT may leave the transaction open or end it.
DriverCommits == EndTransaction("committed")
DriverFails ==
  \/ UNCHANGED engine
  \/ in_transaction /\ EndTransaction("lost")

CommitOnExit ==
  /\ exiting = "commit"
  /\ \/ /\ DriverCommits
        /\ exiting' = "finish"
        /\ hooks_armed' = TRUE
        /\ errors_occurred' = FALSE
        /\ outcome' = "committed"
     \/ /\ DriverFails
        /\ exiting' = "rollback"
        /\ errors_occurred' = TRUE
        /\ UNCHANGED <<hooks_armed, outcome>>
  /\ UNCHANGED <<settings, connection, flags, nesting, exiting_sid, needs_rollback,
                 run_on_commit, ran, health_check_due, cursor, block>>

RollbackOnExit ==
  /\ exiting = "rollback"
  /\ \/ /\ EndTransaction("lost")
        /\ exiting' = "finish"
        /\ errors_occurred' = FALSE
        /\ needs_rollback' = FALSE
        /\ run_on_commit' = {}
     \/ /\ DriverFails
        /\ exiting' = "close"
        /\ errors_occurred' = TRUE
        /\ UNCHANGED <<needs_rollback, run_on_commit>>
  /\ UNCHANGED <<settings, connection, flags, nesting, exiting_sid, hooks_armed, ran,
                 health_check_due, cursor, history>>

\* A rollback that failed is followed by close(), whose own rollback may succeed.
CloseOnExit ==
  /\ exiting = "close"
  /\ CloseOpen
  /\ exiting' = "finish"
  /\ UNCHANGED <<settings, autocommit, in_atomic_block, commit_on_exit, nesting, exiting_sid,
                 hooks_armed, ran, health, history>>

\* Mutant: _set_autocommit(True) without its check.
EnableAutocommitAnyway ==
  /\ autocommit' = TRUE
  /\ hooks_armed' = FALSE
  /\ IF hooks_armed
     THEN ran' = ran \union run_on_commit /\ run_on_commit' = {}
     ELSE UNCHANGED <<ran, run_on_commit>>

\* set_autocommit(True): _set_autocommit() refuses while the engine is in a
\* transaction; the hooks of the last commit run once autocommit is back.
EnableAutocommit ==
  \/ in_transaction /\ UNCHANGED <<autocommit, hooks>>
  \/ /\ ~in_transaction
     /\ autocommit' = TRUE
     /\ hooks_armed' = FALSE
     /\ IF hooks_armed
        THEN ran' = ran \union run_on_commit /\ run_on_commit' = {}
        ELSE UNCHANGED <<ran, run_on_commit>>

\* The end of Atomic.__exit__: autocommit comes back after a managed outermost
\* block, the block flag goes after a manual one, and a connection closed inside
\* the block is given up.  When there is none, Connect or ConnectFails comes first.
FinishExit ==
  /\ exiting = "finish"
  /\ exiting' = "no"
  /\ exiting_sid' = NoSavepoint
  /\ \/ /\ ~in_atomic_block /\ closed_in_transaction
        /\ connection' = "none"
        /\ UNCHANGED <<autocommit, in_atomic_block, hooks>>
     \/ /\ ~in_atomic_block /\ ~closed_in_transaction /\ connection = "open"
        /\ EnableAutocommit
        /\ UNCHANGED <<connection, in_atomic_block>>
     \/ /\ in_atomic_block /\ savepoint_ids = <<>> /\ ~commit_on_exit
        /\ IF closed_in_transaction
           THEN connection' = "none" /\ UNCHANGED in_atomic_block
           ELSE in_atomic_block' = FALSE /\ UNCHANGED connection
        /\ UNCHANGED <<autocommit, hooks>>
     \/ /\ in_atomic_block /\ (savepoint_ids # <<>> \/ commit_on_exit)
        /\ UNCHANGED <<connection, autocommit, in_atomic_block, hooks>>
  /\ UNCHANGED <<settings, engine, commit_on_exit, closed_in_transaction, nesting,
                 needs_rollback, health, cursor, history>>
--------------------------------------------------------------------------------
(* Other calls of the application.                                            *)

\* A hook registered after the connection was closed inside the block vouches for
\* nothing: whether it still runs is decided in Django's connect() alone.
OnCommit ==
  /\ exiting = "no" /\ in_atomic_block
  /\ Cardinality(run_on_commit) + Cardinality(ran) < MaxHooks
  /\ run_on_commit' = run_on_commit \union
       {[sids    |-> {savepoint_ids[i] : i \in DOMAIN savepoint_ids},
         managed |-> commit_on_exit,
         clean   |-> ~needs_rollback,
         deps    |-> IF closed_in_transaction
                     THEN {}
                     ELSE {w \in block \union Open : work[w] # "undone"}]}
  /\ UNCHANGED <<settings, engine, connection, flags, nesting, needs_rollback, leaving,
                 hooks_armed, ran, health, cursor, history>>

\* transaction.set_rollback()
SetRollback(value) ==
  /\ exiting = "no" /\ in_atomic_block
  /\ value \/ Unchecked
  /\ needs_rollback' = value
  /\ UNCHANGED <<settings, engine, connection, flags, nesting, leaving, hooks, health, cursor,
                 history>>

\* commit() and rollback() refuse to work inside a block.
Commit ==
  /\ Ready /\ ~in_atomic_block /\ AllowManual
  /\ \/ DriverCommits /\ hooks_armed' = TRUE /\ errors_occurred' = FALSE
     \/ DriverFails /\ UNCHANGED hooks_armed /\ errors_occurred' = TRUE
  /\ UNCHANGED <<settings, connection, flags, nesting, needs_rollback, leaving, run_on_commit,
                 ran, health_check_due, cursor, history>>

Rollback ==
  /\ Ready /\ ~in_atomic_block /\ AllowManual
  /\ \/ /\ EndTransaction("lost")
        /\ errors_occurred' = FALSE
        /\ needs_rollback' = FALSE
        /\ run_on_commit' = {}
     \/ DriverFails /\ errors_occurred' = TRUE /\ UNCHANGED <<needs_rollback, run_on_commit>>
  /\ UNCHANGED <<settings, connection, flags, nesting, leaving, hooks_armed, ran,
                 health_check_due, cursor, history>>

SetAutocommit(value) ==
  /\ Checked /\ ~in_atomic_block /\ AllowManual
  /\ IF value
     THEN EnableAutocommit /\ UNCHANGED <<engine, errors_occurred>>
     ELSE /\ \/ Statement(TRUE) /\ autocommit' = FALSE /\ UNCHANGED errors_occurred
             \/ ~in_transaction /\ errors_occurred' = TRUE /\ UNCHANGED <<engine, autocommit>>
          /\ UNCHANGED hooks
  /\ UNCHANGED <<settings, connection, in_atomic_block, commit_on_exit, closed_in_transaction,
                 nesting, needs_rollback, leaving, health_check_due, cursor, history>>

\* SQL of the application that starts or ends the transaction behind the wrapper.
RawBegin ==
  /\ Unchecked /\ Checked /\ autocommit /\ ~in_transaction /\ ~needs_rollback
  /\ Statement(TRUE)
  /\ UNCHANGED wrapper

RawEnd ==
  /\ Unchecked /\ Checked /\ Admitted /\ in_transaction
  /\ \E status \in {"committed", "lost"} : EndTransaction(status)
  /\ UNCHANGED wrapper
--------------------------------------------------------------------------------
Next ==
  \/ \E w \in Work, returning \in BOOLEAN : Execute(w, returning)
  \/ Select
  \/ Fetch
  \/ StatementRaises
  \/ Connect
  \/ ConnectFails
  \/ Close
  \/ HealthCheck
  \/ CloseIfUnusableOrObsolete
  \/ EnterManagedBlock
  \/ \E savepoint \in BOOLEAN : EnterManualBlock(savepoint) \/ EnterInnerBlock(savepoint)
  \/ \E raised \in BOOLEAN : LeaveBlock(raised)
  \/ ReleaseSavepoint
  \/ UndoToSavepoint
  \/ DropSavepoint
  \/ CommitOnExit
  \/ RollbackOnExit
  \/ CloseOnExit
  \/ FinishExit
  \/ OnCommit
  \/ \E value \in BOOLEAN : SetRollback(value) \/ SetAutocommit(value)
  \/ Commit
  \/ Rollback
  \/ RawBegin
  \/ RawEnd

Spec == Init /\ [][Next]_vars
--------------------------------------------------------------------------------
(* What the wrapper promises.                                                 *)

\* A hook registered in a block that commits on exit runs only after everything its
\* block had done by then was committed: not after a failed COMMIT, not after a
\* rollback of a savepoint around it, not left over for a later block's commit
\* (docs/transactions.md: "Commit callbacks therefore see completed writes").
HooksFollowCommit ==
  \A h \in ran : h.managed => \A w \in h.deps : work[w] = "committed"

\* The same for every hook that was registered in a block in good order, those of
\* blocks inside a manual transaction included.
AllHooksFollowCommit ==
  \A h \in ran : h.clean => \A w \in h.deps : work[w] = "committed"

\* As long as an outermost block that commits on exit is open, whichever of its inner
\* blocks have been left, all its work waits for its commit or all of it is lost; once it
\* has been left the work is committed as a whole or gone as a whole.  What a savepoint
\* took back is apart, and nothing is left to a later fetch (execute() drains RETURNING,
\* _django_transaction(), Atomic.__exit__ over commit(), rollback() and close()).
BlockIsAtomic ==
  /\ in_atomic_block /\ commit_on_exit =>
       \E fate \in {"open", "lost"} : \A w \in block : work[w] \in {fate, "undone"}
  /\ exiting = "no" /\ ~in_atomic_block =>
       /\ outcome = "committed" => \A w \in block : work[w] \in {"committed", "undone"}
       /\ outcome = "failed"    => \A w \in block : work[w] \in {"lost", "undone"}

\* A block that commits on exit works in one engine transaction: when that is gone,
\* even behind the wrapper's back, no further work starts (_ensure_transaction()).
BlockIsOneTransaction ==
  in_atomic_block /\ commit_on_exit =>
    ~ \E v, w \in block : work[v] \in {"committed", "lost"} /\ work[w] = "open"

\* Inside a block that is not marked for rollback the engine still has the block's
\* transaction and every savepoint Django will release or roll back to.
SavepointsAreOpen ==
  in_atomic_block /\ ~needs_rollback /\ connection = "open" /\ exiting = "no" =>
    /\ commit_on_exit => in_transaction
    /\ \A i \in DOMAIN savepoint_ids :
         savepoint_ids[i] # NoSavepoint => savepoint_ids[i] \in savepoints

\* With AUTOCOMMIT on, once the last block is left autocommit is as it was when that
\* block was entered: on after one that committed on its exit, off after one inside a
\* transaction that the application manages, whatever failed on the way out.
ExitRestoresAutocommit ==
  [][Autocommit /\ exiting # "no" /\ exiting' = "no" /\ ~in_atomic_block'
       /\ connection = "open" /\ connection' = "open"
     => autocommit' = commit_on_exit]_vars

\* Autocommit is never on over a transaction that still holds work (_set_autocommit()
\* makes the application choose between commit and rollback).
AutocommitMeansIdle ==
  connection = "open" /\ autocommit => ~in_transaction

\* An in-memory database, which lives as long as its connection, survives every close
\* and request boundary that finds the wrapper in a healthy state.
MemoryDatabaseKept ==
  [][ InMemory /\ connection = "open" /\ connection' # "open" =>
        \/ in_atomic_block \/ in_transaction \/ autocommit # Autocommit
        \/ errors_occurred \/ health_check_due ]_vars

\* No in-memory connection passes a request boundary with the wrong autocommit mode or
\* with an engine transaction the wrapper does not know of.
BoundaryEndsDrift ==
  [][ InMemory /\ CloseIfUnusableOrObsolete /\ connection' = "open" =>
        autocommit' = Autocommit /\ ~(autocommit' /\ in_transaction') ]_vars

\* The wrapper keeps the contract of a transactional connection for the hooks of the
\* blocks that commit on exit (those of manual transactions: see AllHooksFollowCommit).
Contract == INSTANCE TransactionContract WITH ran <- {h \in ran : h.managed}
ContractSpec == Contract!Spec
================================================================================
