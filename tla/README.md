# django-pyturso in TLA+

TLA+ models of `src/django_pyturso`, a Django database backend for the embedded Turso engine,
with TLC runs on small instances and TLAPS proofs for every instance. Paths below are relative
to the repository (`src/`).

## 1. The system

| Component | State | Operations | Talks to |
|---|---|---|---|
| `DatabaseWrapper` (`base.py`) | `connection`, `autocommit`, `in_atomic_block`, `commit_on_exit`, `savepoint_ids`, `needs_rollback`, `closed_in_transaction`, `run_on_commit`, `errors_occurred`, health-check flags, `transaction_mode`, `journal_mode` | connect, `_begin`, `_ensure_transaction`, `_set_autocommit`, `_savepoint_rollback`, `close`, `_force_close`, health check, request boundary, FK switches, `check_constraints` | Django's base wrapper and `Atomic` call it; it calls the driver |
| `TursoCursorWrapper` (`base.py`) | `_returning_rows`, the driver's stream | `execute`, `executemany`, fetches, `close`; placeholder conversion; write detection | wrapper flags before and after each call |
| Turso driver and engine (external) | one transaction, savepoints, work | BEGIN, COMMIT, ROLLBACK, SAVEPOINT, statements; aborts by itself | other connections to the same database |
| `DatabaseSchemaEditor` (`schema.py`) | `_original_foreign_keys`, `_original_transaction_mode`, `deferred_sql`, `atomic_migration` | `__enter__`, `__exit__`, `_remake_table`, field and model alterations | wrapper, engine pragmas |
| `DatabaseIntrospection` (`introspection.py`) | none | pragma and `sqlite_master` reading, parsing of table SQL | cursor |
| `DatabaseOperations` (`operations.py`) | none | flush SQL, reference graph, adapting and converting values, SQL of lookups | cursor, introspection |
| `DatabaseCreation` (`creation.py`) | files on disk, `settings_dict["NAME"]` | create, destroy and mirror test databases | wrapper `_rollback_and_force_close` |
| `DatabaseFeatures`, `DatabaseClient`, `_typing.py`, `scripts/` | none | constants, an error, types, release tooling | - |

One wrapper belongs to one thread, so what is hard here is not threads: it is the *pair* of
state machines. Django's wrapper and the engine both believe something about the transaction,
and either can be wrong, because an error may or may not have ended the engine's transaction, a
result may still have to do its work when it is fetched, a connection may be physically gone
while Django still unwinds a block, and every step of leaving a block can fail in its own way.
An in-memory database makes it worse: it lives exactly as long as its connection, so the wrapper
must neither reuse a connection in doubt nor throw away a healthy one. The schema editor adds
settings that must be put back on every path.

What makes each component correct:

- wrapper and cursor: a block is all or nothing; it never continues in a second transaction;
  callbacks run only after the work they follow is committed; no request inherits an open
  transaction of an in-memory database; a healthy in-memory database is kept;
- schema editor: enforcement and transaction mode come back whatever fails; no atomic edit that
  breaks a foreign key is committed; a failed edit is undone before enforcement returns;
- table remake: no rows are lost at any failure point; indexes are neither lost nor duplicated;
- placeholder conversion: quoting is kept and the engine sees as many markers as it gets values;
- write detection: exactly the statements whose main verb writes are drained;
- cursor: a result is that of the last statement, and a batch is run row by row as it is read;
- foreign-key checker: it finds a violation exactly when enforcement would have;
- flush: every table that references a flushed one is flushed;
- introspection: constraints and columns are read as they were declared;
- dialect: a lookup in the database answers as Python would;
- test databases: tests start without rows, and neither they nor a switch touch the application's;
- connecting: a failure leaves no open handle, and a configured journal mode is the one in force.

## 2. The modules

| Module | Models | Status |
|---|---|---|
| `TursoEngine` | the engine and driver as `base.py` uses them (external) | done |
| `TursoTransactions` | wrapper, cursor guard, Django's `Atomic` around them | done |
| `TransactionContract` | the abstract promise of a transactional connection | done |
| `TransactionInvariant` | the inductive invariants behind the promise and the blocks | done |
| `MCTransactions` | the settings of the instances that TLC checks, and their symmetry | done |
| `EngineProofs`, `TransactionProofs` | proofs about the above | done |
| `SchemaEditor` | the schema editor's lifecycle | done |
| `SchemaProofs` | proofs about it | done |
| `TursoCursor`, `MCCursor` | a cursor over several calls: `execute`, `executemany` row by row, stored rows, fetches | done |
| `PlaceholderConversion` | its conversion: the placeholder scanner, character by character, and the check of a row of parameters; the engine's lexer reads the result | done |
| `WriteStatement` | its `_is_write_statement`, token by token | done |
| `TableRemake`, `MCRemake` | `_remake_table` and the alterations that lead to it, many-to-many relations included, one action per statement | done but for what section 6 lists |
| `TableText` | the grammar of `CREATE TABLE` and the tokens that sqlparse makes of it (external) | done |
| `TableIntrospection`, `MCTables` | reading constraints, collations, lengths and JSON columns back from those tokens | done |
| `TemporalLookups`, `MCTemporal` | how dates and times are stored, and the SQL of truncations, extractions and casts, evaluated as the engine does | done |
| `ForeignKeys`, `MCForeignKeys` | `check_constraints`, the reference graph and `sql_flush` | done |
| `Databases`, `MCDatabases` | connecting, journal modes, test databases and mirrors | done |
| `CursorProofs` | proofs about the scanner, write detection and the cursor | done |
| `ForeignKeyProofs` | proofs about the checker and the flush | done |
| `DatabaseProofs` | proofs about connecting and test databases | done |
| `RemakeProofs` | proofs about remakes | done |
| `IntrospectionProofs` | proofs about reading checks | done for the checks of a table |

`TursoTransactions` EXTENDS `TursoEngine` and instantiates `TransactionContract` with the refinement
mapping; `TransactionInvariant` and the proofs build on it. `TursoCursor` EXTENDS
`PlaceholderConversion` and `WriteStatement`, which are the two things a cursor does to a statement;
`TableIntrospection` EXTENDS `TableText`. The other modules stand alone: what they need of the wrapper
is only whether a statement runs or raises.

### How the state corresponds to the code

`TursoTransactions` keeps the wrapper's attributes under their own names, and in `settings`
what it reads of `settings_dict`, which never changes. Four things differ.
`connection` folds `connection` and physical closure into `"none"`, `"open"`, `"closed"` (the
last is a connection closed inside a block, which stays set until the block ends).
`health_check_due` is `health_check_enabled and not health_check_done`. `hooks_armed` is
Django's `run_commit_hooks_on_set_autocommit_on`. `run_on_commit` is a set, as no property
depends on the order of callbacks. `depth`, `exiting` and `exiting_sid` are the Python stack:
how many `atomic()` blocks the application is inside and which engine call of `Atomic.__exit__`
comes next. `ran`, `block` and `outcome` are history.

*Work* stands for the effect of one writing statement. `work[w]` says what became of it: `new`,
`open` in a transaction, `committed`, `undone` by a savepoint, `lost` with its transaction.

| Action | Code |
|---|---|
| `Execute`, `Select`, `Fetch`, `StatementRaises` | `TursoCursorWrapper.execute`, `executemany`, the fetches, each inside `_django_transaction` and `_ensure_transaction` |
| `Connect`, `ConnectFails` | Django's `ensure_connection` around `get_new_connection` |
| `Close`, `CloseOnExit` | `close`, `_rollback_active_transaction_for_close`, `_force_close` |
| `HealthCheck` | `close_if_health_check_failed`, `is_usable` |
| `CloseIfUnusableOrObsolete` | the request boundary, both for memory and for files |
| `EnterManagedBlock`, `EnterManualBlock`, `EnterInnerBlock` | `Atomic.__enter__` through `_start_transaction_under_autocommit` or a savepoint |
| `LeaveBlock`, `ReleaseSavepoint`, `UndoToSavepoint`, `DropSavepoint`, `CommitOnExit`, `RollbackOnExit`, `CloseOnExit`, `FinishExit` | `Atomic.__exit__`, one action per engine call, each of which may fail; `UndoToSavepoint` has the check of `_savepoint_rollback`, `FinishExit` that of `_set_autocommit` |
| `OnCommit`, `SetRollback`, `Commit`, `Rollback`, `SetAutocommit` | the API of `django.db.transaction` |
| `RawBegin`, `RawEnd` | transaction control in the application's own SQL (`Unchecked` only) |

Django is not in the repository, so its parts are external: they are modelled from what
`base.py` overrides, calls and sets. An error of a statement takes three forms (`EngineFails`):
BEGIN failed, the transaction is still there, or the engine ended it.

`SchemaEditor` takes the wrapper at a coarser grain (`CanRun`, `StatementRuns`,
`StatementFails`, `ForceClose`) and one action per call of the editor: `Enter`, `ReadOriginal`,
`DisableEnforcement`, `BeginEditing`, the body (`Alter`, `Defer`, `BeginInner`, ...),
`RunDeferred`, `CheckConstraints`, `Leave`, `RunHooks`, `Restore`. `PRAGMA foreign_keys` is
ignored inside a transaction, as the engine does; what `_set_foreign_key_state` reads back
decides whether it raises.

`TursoCursor` has a cursor's `_returning_rows` (`stored`, `returning_rows`) beside what the driver has
yet to produce (`stream`, and whether producing it `writes`). `BeginWithParameters`, `Prepare`,
`RunRow`, `EndBatch`, `RunStatement`, `DriverFails` are the steps of a call: for a batch, the driver
asks for one row after another, each is checked when it is taken, and any of them may be refused or
fail. `Fetch`, `FetchFails`, `Close` come between calls. `batch`, `ran`, `due` and `given` are history.

`PlaceholderConversion` keeps the local variables of `_convert_placeholders` under their names
(`index`, `state`, `closing_quote`, `converted`, `positional_count`, `required_names`,
`native_bindings`). One action is one round of its loop in one of its states (`InLineComment`,
`InIdentifier`, `InLiteral`, `EscapedPercent`, `OpenQuote`, `Positional`, `NamedPlaceholder`, ...),
`EndScan` what follows the loop, `Accepts` the check of a row. `Engine` is the reference: how Turso's
lexer reads the converted text. A query is a sequence of characters because telling characters
apart is what this code does. `WriteStatement` folds the loop over the tokens of a statement, each
changing `state` and `depth` as the branches of the loop do; `Kinds` are the statements the grammar
makes, with what each of them does and what the loop takes it for.

`TableRemake` keeps the database (`tables`: columns, primary key, foreign key, indexes, rows) and
what Django thinks of it (`models`, `deferred_sql`). `CreateReplacement`, `CopyRows`,
`DropOriginal`, `RenameReplacement`, `RunDeferred` are the statements of one remake; `CreateModel`,
`DeleteModel`, `AddField`, `RemoveField`, `AlterField`, `ChangeConstraint` start one or do without,
as the code decides; `Related` gives the tables to remake next. Each statement may fail: an atomic
migration returns to `snapshot`, another one stays where it is. `data` is history: every row as
the application knows it, which is what `DataAsPromised` compares with. `AlterManyToMany` remakes the
table of a relation with both columns, or makes another one, copies and deletes the former; a remake
knows its `target`, which tells the two apart.

`TableText` is the reference for introspection: a table is a list of definitions, and each operator
of its grammar gives both the tokens of a clause and what the clause declares. `TableIntrospection`
keeps the local variables of `_parse_column_or_constraint_definition` in `scan`, and one step is one
turn of its loop; the passes for collations, lengths and JSON columns are folds of their own
functions. What is read (`constraints`, `description`) is compared with what was declared: a `Column` declares
its constraints with the names that `CONSTRAINT` gives them, as SQL does and the code does not (finding 3).
A length stands in parentheses behind the type or in a quoted type (`get_field_size`).

`TemporalLookups` writes the SQL of `operations.py` as trees whose parameters come beside them, as in
the code, and evaluates a tree with its parameters as the engine does: left to right, one for each
marker. `meaning` is history: the same lookups applied to the Python value. A step surrounds the
expression with another lookup, if `ValidTimezone` lets it through.

`ForeignKeys` has the rows, the rows before the transaction, the result of the last
`check_constraints()` and the loop variables of `_references_graph_for_table`. `Violations` is the
query of `_check_foreign_key`, `Dangling` what the engine would have enforced. `Follow` is one
round of the graph's loop, `Delete` one DELETE of the flush, whose order is that of a Python set
and therefore free.

`Databases` has for each alias `settings_dict["NAME"]`, the physical connection (`handle`) and
the wrapper's (`connection`), which differ while `get_new_connection` is at work, and for each
database its artifacts (file, `-wal`, `-log`) with the rows in them. `Open`, `ConfigureJournal`,
`VerifyJournal`, `Opened`, `OpenFails` are the steps of connecting; `CreateTestDb`,
`RemoveArtifact`, `DestroyTestDb`, `SetAsTestMirror` those of `DatabaseCreation`; `ExitProcess` ends
the process anywhere, as `SystemExit` and every error of a test run may.

## 3. The runs

Deadlock is checked in every run unless the table says otherwise.

| Run | Instance | Checks | Shows |
|---|---|---|---|
| `manual_memory` | memory, autocommit, `set_autocommit()`, `commit()`, `rollback()` used; depth 2, 2 savepoints, 1 hook, 2 works | `BlockIsAtomic`, `HooksFollowCommit`, `ExitRestoresAutocommit`, `SavepointsAreOpen`, `AutocommitMeansIdle`, `ContractSpec`, `WrapperInv` | outermost blocks that commit on exit are all or nothing, no inner one commits or loses a part of them, leaving them restores the autocommit mode, callbacks follow commits, the savepoints Django believes in exist, autocommit is on only over an idle engine, the wrapper implements `TransactionContract`, and the invariant of the proofs holds |
| `any_database` | memory and file, `AUTOCOMMIT` on and off, health checks; also raw BEGIN/COMMIT and `set_rollback(False)`; depth 2, 2 savepoints, no hooks, 2 works | `BlockIsOneTransaction`, `MemoryDatabaseKept`, `BoundaryEndsDrift` | the loss of a transaction is noticed even when nothing raised, no healthy in-memory database is lost, and no request inherits a drifted connection |
| `lost_manual_hooks` | as `manual_memory`, with 2 savepoints | `AllHooksFollowCommit` **violated** | finding 1 |
| `editor` | DEFERRED and CONCURRENT, memory and file, fairness | `EverythingRestored`, `EditsAreGuarded`, `ViolationsAreNotCommitted`, `UndoneBeforeRestored`, `RestorationHappens` | every way out restores, a way out is reached, and what is committed has been checked |
| `concurrent_reconnect` | CONCURRENT | `EditsAreRegular` **violated** | finding 2 |
| `cursor` | three calls with fetches, the first with any short query, statements with up to two common table expressions over six verbs; fairness; no deadlock check | `TypeOK`, `QuotingIsKept`, `RowsMatchMarkers`, `WritesEndWithExecute`, `ResultsInOrder`, `BatchIsStreamed`, `CallsReturn` | the engine reads the same text, quotes and comments as the author; every row that runs fits its markers; exactly what writes is drained; results are those of the last statement; batches are streamed; calls return |
| `table_remake` | two tables, five kinds of fields, a foreign key or a many-to-many relation, four operations, every failure; no deadlock check | `RowsSurvive`, `DataAsPromised`, `IndexesAsDeclared`, `NothingRefused`, `ReferencesResolve` | no failure loses rows, values and indexes follow their columns, and no statement is wrong |
| `foreign_keys` | 56 schemas: affinities, composite and omitted keys, spellings, cycles, deletion actions, malformed keys; two rows; fairness | `CheckIsExact`, `FlushSucceeds`, `FlushIsClosed`, `GraphEnds` | the checker agrees with enforcement, and a cascading flush is complete and closed |
| `databases` | a primary in a file or in memory, all modes, a replica that may mirror it | `TestsStartEmpty`, `ApplicationUntouched`, `ConnectionsFollowNames`, `NoHandleLeaks`, `MvccIsVerified` | test runs and applications never see each other's rows, even after a run that stopped anywhere |
| `introspection` | 2688 tables: every pair of operands in a CHECK, every pair of clauses of a column, named and unnamed constraints, every type; no deadlock check | `ConstraintsAsDeclared`, `ColumnsAsDeclared` | what is read from the text is what the text declares, whatever words are columns, but for the names of a column's own constraints |
| `undocumented_constraints` | a table with a named UNIQUE, a `CHECK (1)` with a reference and two CHECKs within its columns | `ReportedAsDocumented` **violated** | findings 3, 4 and 5, in its last state |
| `temporal_lookups` | dates, times, datetimes as columns, parameters and both, with and without time zones, under every pair of lookups; no deadlock check | `LookupsAgree`, `ComparesAsValues` | the database computes what Python would, and its answers compare as values do |

**Bounds.** In the core, `Work` has two pieces: one inside and one outside a savepoint, or one in
each of two transactions, is the smallest set that tells partial from whole. `MaxDepth` 2 gives an
outer block with an inner one, which may or may not have a savepoint; a third level repeats what
the second does to the first (the proofs are for every depth). `MaxSavepoints` bounds the
savepoints of the whole life of a connection (they are never reused), 2 lets a second one follow
the first. `MaxHooks` 1 suffices because callbacks do not interact: every property is about each
one alone. `any_database` has no hooks: its properties do not read them, and those of hooks
are checked in `manual_memory` (in files, without AUTOCOMMIT and under health checks by the proofs,
which are for all settings). Works are interchangeable, hence the symmetry of `MCTransactions`; no liveness property
is checked under symmetry.

`TursoCursor`: in its first call all queries of up to five characters with positional placeholders,
over one character of each kind the scanner tells apart there, and up to six with named ones, which
is a whole `%(n)s` and one more character before or after it; that covers each construct, pairs of
them in one run, and each one cut off by the end of the query. The other calls and batches have a
few queries (`FewQueries`), since a cursor forgets the last one. Three calls let stored rows, an
empty batch and another statement follow each other; batches of three rows have one before and one
after the row that is refused; two common table expressions give a second one to skip to, each
with every body of `MCCursor`. `TableRemake`: four operations, which is enough for a history
in which an index is declared, its column altered, the altered table renamed or referred to, and
the outcome altered again (a field may be indexed and NULL, or indexed and unique, which makes no index), or a relation is made, its key renamed and its table moved (its names
are interchangeable, so that it starts with the first ones); one row with a value and one column that may be NULL are enough, as
rows are copied independently. `Databases`: two aliases (a mirror needs two), one path for each
database, any number of test runs and interruptions; rows are told apart only by who wrote them.
`ForeignKeys`: at most two rows per table, so that the one that matches need not be the only one,
and three texts or numbers that affinities tell apart; chains of three tables and a cycle of
three are the shortest in which a table is found only through another one.
`TableIntrospection`: the scanner keeps one pending name and one flag of each kind, so two operands
next to each other, and one level around them, meet every transition; columns are called as each word
of the syntax that the scanner treats apart (END, LIKE, GLOB). A column has at most two clauses, UNIQUE and
CHECK once each; the table of findings 3 to 5 has a run of its own. `TemporalLookups`: five days (a leap
day, the last and first days of years and quarters, a Monday), four times of day on both sides of
midnight in the other zone, with and without fractions, and two lookups, since what surrounds a
lookup sees only its output.

**Deadlock.** `CHECK_DEADLOCK FALSE` appears in five runs: a cursor stops when it is closed, in
`table_remake` a migration that fails stops, and so does a history that has used up
`MaxOperations`, reading a table ends (in both runs of `MCTables`), and so do the lookups at `MaxDepth`.

**Type invariants.** `cursor` checks that of `TursoCursor`; it, those of the core, of the schema editor,
of `Databases` and of `TableRemake` are proved. `TypeOK` of the other modules says what their variables are; the
runs spend their time on the other properties, which a value of a wrong type does not survive.

**Fairness.** The core has none: an application may stop anywhere, and only safety is claimed.
`SchemaEditor!FairSpec` assumes that the editor's own calls return (`WF_vars(EditorStep)`: they
are the straight line of `__enter__` and `__exit__`), that an inner block ends, and that the body
of a migration ends (`SF_vars(EndBody)`, strong because inner blocks keep disabling it).
`TursoCursor!FairSpec` (`WF_vars(InCall)`) and `ForeignKeys!FairSpec` (`WF_vars(FlushStep)`) only say
that a loop of one call goes on to its next round.

## 4. What is proved

Every theorem is about `Spec`, or for `StatementsAreClassified`, `ExpressionsAreRead` and
`TableChecksAreRead` about the loop that its steps run, for all values of the constants that the named
assumptions of its module admit; TLC evaluates these assumptions in the runs. Every
safety and action property of six of the eight specifications that have a run is a theorem.

### Transactions (`TransactionProofs`, and `EngineProofs` for the engine's steps)

For every database (`Settings`), every set of work, every depth and every number of hooks and savepoints:

- `TypeCorrect`: `Spec => []TypeOK`, with no assumption on the application.
- `InvariantHolds`: `Spec => []IInv` if `~Unchecked`, i.e. if the application leaves transactions
  to the wrapper. `HooksFollowCommit` is not inductive. A callback is safe to run because of four
  facts about the moment before: the work it follows is live as long as its transaction is
  (`HooksInv`); a block whose transaction is gone is *marked*, so that no commit follows
  (`AbandonedIsMarked`, but for the instant in which Django has cleared the mark of an inner
  block and `_savepoint_rollback` has not yet set it again); no cursor still has work to do
  (`NothingPending`, which is what draining RETURNING buys); and a savepoint that may still be
  rolled back was already open when the callback was registered, so that the callback goes with
  the work (`HooksInv`, last part).
- `HooksAfterCommit`: `HooksFollowCommit` from it.
- `KeepsContract`: `Spec => ContractSpec`, each action mapped to a step or a stutter.
- `OneTransactionPerBlock`: `BlockIsOneTransaction`, if `~Unchecked`. TLC checks it under `Unchecked`.
- `WrapperInvariant`: `Spec => []WrapperInv`, `IInv` with the parts of `BlocksInv`, if `~Unchecked`.
  `StackInv` says that the engine has each savepoint of Django's stack, or has no transaction while the
  block is marked; `OrderInv`, that savepoints are numbered as they were opened, so that rolling one
  back takes none below it; `NestingInv`, how the depth of blocks, the stack and the exit in progress
  fit; `OutcomeInv`, that work of a managed block shares one fate on every path of its exit; `IdleInv`,
  that autocommit is on only over an idle engine. `BlocksAreAtomic` (inner blocks of an
  open outermost one included), `StackIsOpen`, `AutocommitOverNothing` and `ExitIsClean` follow.
- `HealthyMemoryKept` and `BoundaryRepairs` are proved for every application, `Unchecked` or not.

### The schema editor (`SchemaProofs`)

For every set of work, every choice of edits that violate a foreign key (`EditorAssumption`) and every
configured mode: `EditorTypes`; `EditorRestoresEverything` from `Remembered` (what the editor remembers is what
the application chose until it is put back; a connection that cannot be restored is not open afterwards);
`EditorCommitsNoViolation` from `TaintInv` (until the editor's block is left, its savepoint can undo every
edit, and the check has seen them; afterwards the wrapper is marked as long as a bad one is open, so that
enforcement cannot be restored and the connection is given up) and
`EditorUndoesBeforeRestoring` from `UncommittedInv`, both over `BlockInv` and `EditInv`, which say where a
transaction, a block and edits may be; `EditorGuardsEdits` from `ModeInv` and `GuardInv` (the editor
begins no CONCURRENT transaction once it has turned the mode off).

### Databases (`DatabaseProofs`)

For every set of aliases and paths and every configuration that `DatabasesAssumption` allows: a file
for tests is nobody's application and the tests of one alias only. `DatabaseInv` has seven parts.
`TypeInv`; `ConnectionInv` (a handle is its wrapper's or is being set up, on the database that `NAME`
says, and nobody connects while a database is switched); `NameInv` (in which phase of a test run `NAME`
is which); `MemoryInv` (a database in memory is gone with its handle); `MvccInv` (a handle behind
verification is on a database in MVCC mode, which no other step takes back); `ApplicationRows` and
`TestRows` (which artifacts of a file may still have rows while they are removed, and who can write to
it). `HandlesHaveOwners`, `SwitchesClose`, `ConnectedMeansVerified`, `TestsStartAfresh` and
`ApplicationsKeepTheirRows` follow from it.

### Statements and cursors (`CursorProofs`)

For every alphabet and queries of any length (`ConversionAssumption` only says that the bounds are
numbers). `ScanInv`: what the scanner believes it is in (`state`, `closing_quote`) is what the engine's
lexer is in behind the text converted so far (`Agrees`, including the case that a character still to
come decides), and the markers the engine has met are the placeholders counted (`Counts`). It holds of a
scan because reading a longer text is reading on (`ReadAppend`, `InertRun`), which is an induction over
lengths. `CursorInv` adds what the cursor has done in its call. Hence `ConversionKeepsQuoting`,
`MarkersGetValues`, `BatchesAreStreamed`, `FetchesKeepOrder` and `CursorTypes`.

`StatementsAreClassified`: every part of a statement takes the reader of `_is_write_statement` from one
state to the next, and a body whose parentheses match (`StatementAssumption`: a parser accepts no other)
brings it back to the depth it began at, whatever verbs, commas and parentheses it has. `WritesAreDrained`
needs just that: `execute()` drains what it takes for a write.

### Remakes (`RemakeProofs`)

For every finite set of names of fields (`RemakeAssumption`; it is finite because `SetToSeq` needs
finitely many indexes to put in an order), all declarable fields and rows, and any number of operations:
`RemakeTypes`, and the five invariants of the run from `RemakeInv`, whose parts are

- `Shape`: which tables, models and steps there are; an editor has remakes exactly while it is in one.
- `RemakesOK`: where the rows are. Tables that are not being remade have the columns and rows of their
  models (`Rest`). For the first remake `Making` says, statement by statement, which tables there are and
  which one has the rows: the original as long as the replacement has only its columns, the replacement
  from the drop on. Up to the copy the rows of the original, *put through the mapping*, are what
  `data` promises, no NULL among them where none may be, and every column the mapping reads exists
  (`Copies`). A table that waits for its own remake (`Waiting`), because the column its foreign key refers
  to was renamed, is in the same state, and still is when the parent has been remade.
- `IndexesOK`: a field is indexed if and only if its table has the index or a deferred statement will make
  it, and never both. Dropping a table must forget its own statements and no others, and renaming one
  must rename it in all of them.
- `Saved`: what a failed migration goes back to is a state between two editors, that of an empty
  database as long as there is nothing to go back to. `RemakeTypes` has the type of the snapshot from it, and
  from `IndexesOK` that every deferred statement is about a column of a table that exists.
- After a failure outside of a transaction, `RowsSurvive` alone: the state no operation has to expect.

None of the five is inductive. `RowsSurvive` speaks of any table in any state, and would allow a remake
to drop the one that has the rows. `DataAsPromised` says nothing during a remake. The proof has one lemma for
each statement and operation. Those about an operation show that it makes `Copies` true: for a field
that is created, removed, altered, renamed, given a default or made the key, `Mapping` reads from the
old columns what `data` becomes.

### Foreign keys (`ForeignKeyProofs`)

For every schema that a catalogue can describe (`ForeignKeysAssumption`: the columns of a primary key are
numbered from 1 on without gaps, foreign keys have columns of their tables and name columns of their targets, and
names that differ only in spelling are one table). `CheckAgreesWithEnforcement` rests on two lemmas: the
columns the checker resolves are the engine's (`get_primary_key_columns` sorts as the engine counts), and
the checker's comparison of stored values, which converts by affinity again, is true where the engine's
is. `FlushStaysInside` and `DeferredFlushSucceeds` rest on `FlushInv`: what the graph has seen is closed
but for what is pending, so that what `ON DELETE` takes along lies within `target_tables`; with
`SoundInv` (nothing dangles outside of a transaction) the commit of the last DELETE finds nothing broken.

### Checks (`IntrospectionProofs`)

For any tokens, columns and depth of nesting. The meaning of a name is the scanner's own
`columns_by_name.get()` (`ColumnNamed`); what is proved is which words it is asked about.
`Expressions(T)` is the least set of texts, with the columns they use, that has the names and literals
among the tokens `T` and is closed under the constructors of `TableText`; `T` has at least the words those
constructors bring along, which is the only hypothesis. `ExpressionsAreRead`: from any state inside a
CHECK in which an operand is asked for, over the text of such an expression, the scanner ends no
definition, is back in the same parentheses, and has added to what it had gathered the columns that the
expression uses, in their order. The invariant of a text is a pair of points, the state asks for an operand
(`Asks`) or has just read one (`Has`), and that `Gathered`, the columns so far *with the pending
one*, grows by what the text uses: a name counts only when the next token is known, so neither the pending
name nor the columns grow by it alone. There is one lemma for each kind of token at each point
(END, LIKE and GLOB are names at one and syntax at the other) and one for each constructor. Texts
that read what they use are a closed set, so expressions are among them: an induction over the
grammar that needs no recursive definition. `TableChecksAreRead` puts the expression into a CHECK of the
table, with a name or without one, from the first token of a definition to its end: the scanner then yields what
`TableCheck` says that the definition declares.

**How induction is done.** The provers cannot instantiate the library's induction theorems, which
take an operator. Where a fact about a text or a body needs induction it is stated as: the set of lengths
that have it contains 0, and each successor; `Induction` then follows from `LeastNumber`, which follows from
the library's fact that `<` on the naturals is well founded. `FoldLeft` is unfolded to the function that the
community module defines it by, whose existence is itself proved so (`ReadingExists`, `TokenReadingExists`).
The inductive invariants above were checked by TLC on the instances of the runs before they were proved.

**Only model-checked**, and why:

- `ConstraintsAsDeclared` and `ColumnsAsDeclared` of `TableIntrospection`, beyond what is proved about
  the checks of a table: the statement is cut with `SelectSeq`, and constraints without a name are told
  apart by `ToString`, about which the provers know nothing.
- `LookupsAgree`, `ComparesAsValues` of `TemporalLookups`, whose evaluation of SQL is recursive over trees
  (RECURSIVE operators have no proofs).
- `RestorationHappens`, `CallsReturn`, `GraphEnds`: liveness under fairness, and with it ENABLED.
- The violations of section 5, of three runs, which are what the code does.

## 5. Findings

1. *Callbacks of a lost manual transaction* (`lost_manual_hooks`). `_django_transaction`
   (`base.py:740`) clears `run_on_commit` only `if wrapper.in_atomic_block`. With autocommit off,
   a callback registered in an `atomic()` block that has been left waits for `commit()`. If an
   error outside a block then ends the transaction, the callback stays; after the next `commit()`
   and `set_autocommit(True)` it runs although its work is gone. `docs/transactions.md:15`:
   "Commit callbacks therefore see completed writes,".
2. *A reconnect forgets the editor's mode* (`concurrent_reconnect`). In a migration that is not
   atomic the body may call `connection.close()`; the next statement reconnects,
   `get_connection_params` (`base.py:175`) sets `transaction_mode` to `CONCURRENT` again, and the
   next `atomic()` begins such a transaction inside the editor, with enforcement on.
   `docs/transactions.md:70-71`: "The schema editor temporarily uses `IMMEDIATE` transactions,
   including for atomic work inside non-atomic migrations."
3. *Names of a column's constraints* (`undocumented_constraints`). The parser reads the name of a constraint
   where a definition begins with `CONSTRAINT`. For `c integer CONSTRAINT "name" UNIQUE` it reads the name
   of the column (`introspection.py:404-414`) and reports `__unnamed_constraint_n__`
   (`introspection.py:545-549`). `docs/compatibility.md:69`: "Quoted column and constraint names retain
   their actual names".
4. *A CHECK that uses no column* (`undocumented_constraints`). The scanner takes a CHECK for closed only when it
   has a column (`introspection.py:425-428`). In `d integer CHECK (1) REFERENCES p ("d")` it still looks for one
   in the parentheses of the reference, and reports a CHECK of column `d`. `docs/compatibility.md:78`:
   "Introspection reports only the columns used by that expression."
5. *Two CHECKs of a column* (`undocumented_constraints`). The columns of the first are not put away when the second
   begins (`introspection.py:415-419`), and one constraint with the columns of both is reported.
   `docs/compatibility.md:78` as above.


## 6. What is left out

- Other connections: they appear as errors and aborts. MVCC itself is the engine's.
- The driver can always say whether it is in a transaction, except when a rollback fails
  (the branches of `base.py:490-492` for a driver that cannot are not separate).
- A batch of `executemany()` is one piece of work of `TursoTransactions`; its rows are in `TursoCursor`.
- Only errors of the driver's `Database.Error` hierarchy are modelled: `get_new_connection`
  (`base.py:199`) records one outside of it, and only for opening a database.
- `commit()` in autocommit mode arms Django's callback flag; callbacks that are registered after a
  `close()` in the next block are modelled as following no work.
- Nested schema editors.
- `validate_thread_sharing`, formatting of SQL text, `features.py`, `client.py`, `_typing.py`,
  `scripts/`: constants, pure formatting or release tooling.
- Cursor: every other percent sign of a query is doubled, as Django demands (`HasPlainNames`); a
  carriage return alone does not end a line comment; values are not adapted, and rows of results
  are told apart only by their statement and place.
- Remakes: `unique_together` and `Meta.indexes` by name, collations and column types; a model has
  one relation at a time; the flush of deferred SQL by a remake is in `TableRemake` and not in
  `SchemaEditor`. The engine is taken to carry indexes and foreign keys along when a column is
  renamed. A writer of another connection between the copy and the drop of a remake that is not
  atomic is not modelled (see the hazards).
- Introspection: in `introspection` a column has no two CHECKs or UNIQUEs and no CHECK that uses no column, since
  the code reads those otherwise than documented (findings 4 and 5); no name qualified with that of the table; no
  `NOT LIKE` in front of a column called `like`, which sqlparse reads as one operator. The lists of tables,
  views and sequences copy rows of `sqlite_master`.
- Dialect: refused values and lookups raise and change nothing. Zones have fixed offsets: the code
  computes in UTC or refuses, so daylight saving is Python's alone. Numbers, decimals, booleans,
  UUIDs, durations, conflicts of INSERT, `last_executed_query()` and quoting are formulas of a line.
- Flush: without cascade it is one DELETE per table; resetting sequences changes no rows.
- Foreign keys: collations, and the row that an error message names.
- Test databases: one thread sets up and tears down; clones are refused by the code.

## 7. Plan

The order has been that of the damage a mistake would do: transactions first, then the schema
editor around them, then what the editor does to tables, then what decides about statements and
references, then databases, then what reads a schema and writes a dialect. What is left:

1. *Proofs.* The clauses of a column, in the way of the checks of a table. The whole of
   `ConstraintsAsDeclared` and `ColumnsAsDeclared` would need `SelectSeq` and `ToString`, which the
   provers know nothing of.
2. *Remakes.* `unique_together` and named indexes; `SchemaEditor` and `TableRemake` composed, so that
   the constraint check sees what a remake leaves.
3. *Core.* Nested schema editors.
