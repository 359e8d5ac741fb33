-------------------------------- MODULE Databases ------------------------------
(******************************************************************************)
(* The databases behind the connections of one process: how a connection is   *)
(* opened (get_connection_params(), get_new_connection() in                   *)
(* src/django_pyturso/base.py) and how a test run switches connections to     *)
(* test databases and mirrors and back (src/django_pyturso/creation.py).      *)
(*                                                                            *)
(* A database is a file, or the private one of an alias whose NAME is         *)
(* ":memory:".  It consists of artifacts, each with the rows it holds.  A row *)
(* is known by who wrote it: "app" the application, "test" the tests of this  *)
(* process, "old" those of an earlier one.                                    *)
(******************************************************************************)
EXTENDS Sequences, Functions

CONSTANTS
  Aliases,
  Paths,
  Configurations      \* what every alias may be configured with

Memory == ":memory:"
Writer == {"app", "test", "old"}
Part   == {"main", "wal", "log"}
Alias  == [name : Paths \union {Memory}, test : Paths \union {Memory},
           journal_mode : {"unset", "WAL", "MVCC"}, transaction_mode : {"DEFERRED", "CONCURRENT"}]

\* No test database is the database of an application, nor another test database.
ASSUME DatabasesAssumption ==
  /\ Aliases \intersect (Paths \union {"none", "unlinked", Memory}) = {}
  /\ Paths \intersect {"none", "unlinked", Memory} = {}
  /\ Configurations \subseteq [Aliases -> Alias]
  /\ \A c \in Configurations : \A a, b \in Aliases :
       /\ c[a].test = Memory \/ c[a].test # c[b].name
       /\ a = b \/ c[a].test = Memory \/ c[a].test # c[b].test

VARIABLES
  settings,           \* the configuration of every alias
  NAME,               \* settings_dict["NAME"]
  databases,          \* the artifacts of every database
  mvcc,               \* the databases whose journal mode is MVCC
  handle,             \* the physical connection: what it is open on
  connection,         \* the same, once the wrapper has it
  connecting,         \* the step of get_new_connection()
  phase,
  removing,           \* the artifacts still to be removed
  keepdb,
  wrote               \* history: the files that the application wrote to

storage  == <<databases, mvcc, wrote>>
wrappers == <<NAME, handle, connection>>
tests    == <<phase, removing, keepdb>>
vars     == <<settings, storage, wrappers, connecting, tests>>

Places == Paths \union Aliases

Init ==
  /\ settings \in Configurations
  /\ NAME = [a \in Aliases |-> settings[a].name]
  /\ databases = [p \in Places |-> << >>]
  /\ mvcc = {}
  /\ handle = [a \in Aliases |-> "none"]
  /\ connection = handle
  /\ connecting = [a \in Aliases |-> "idle"]
  /\ phase = [a \in Aliases |-> "application"]
  /\ removing = [a \in Aliases |-> <<>>]
  /\ keepdb = [a \in Aliases |-> FALSE]
  /\ wrote = {}

is_in_memory(a) == NAME[a] = Memory
Place(a)        == IF is_in_memory(a) THEN a ELSE NAME[a]
Visible(place)  == UNION Range(databases[place])

\* The rows that an artifact holds, and a database in which it holds others.
Held(place, part) == IF part \in DOMAIN databases[place] THEN databases[place][part] ELSE {}
Holding(place, part, rows) ==
  [p \in DOMAIN databases[place] \union {part} |-> IF p = part THEN rows ELSE databases[place][p]]

Switching == {"created", "destroyed"}

\* One thread runs the tests: connections are opened, and databases switched, one by one.
Ready == \A a \in Aliases : connecting[a] = "idle" /\ phase[a] \notin Switching

Set(f, a, value) == f' = [f EXCEPT ![a] = value]
--------------------------------------------------------------------------------
(* Opening a connection.                                                      *)

\* get_connection_params()
Accepts(options) == options.transaction_mode = "CONCURRENT" => options.journal_mode = "MVCC"

\* Database.connect(), which creates the file.
Open(a) ==
  /\ Ready /\ connection[a] = "none"
  /\ Accepts(settings[a])
  /\ Set(databases, Place(a), Holding(Place(a), "main", Held(Place(a), "main")))
  /\ Set(handle, a, Place(a))
  /\ Set(connecting, a, "journal")
  /\ UNCHANGED <<settings, mvcc, wrote, NAME, connection, tests>>

\* _configure_journal_mode(): the engine may leave a mode as it is.
ConfigureJournal(a) ==
  /\ connecting[a] = "journal"
  /\ LET wanted == settings[a].journal_mode
         is_mvcc == handle[a] \in mvcc
     IN \/ /\ wanted = "unset" \/ is_mvcc = (wanted = "MVCC")
           /\ Set(connecting, a, "enforcement")
           /\ UNCHANGED mvcc
        \/ /\ wanted = "MVCC" /\ ~is_mvcc
           /\ mvcc' \in {mvcc, mvcc \union {handle[a]}}
           /\ Set(connecting, a, "verify")
  /\ UNCHANGED <<settings, databases, wrote, wrappers, tests>>

\* Mutant: the journal mode is not read back.
Unverified(a) == TRUE

Verified(a) == handle[a] \in mvcc

VerifyJournal(a) ==
  /\ connecting[a] = "verify" /\ Verified(a)
  /\ Set(connecting, a, "enforcement")
  /\ UNCHANGED <<settings, storage, wrappers, tests>>

\* Foreign keys are enforced and the version is known.
Opened(a) ==
  /\ connecting[a] = "enforcement"
  /\ Set(connecting, a, "idle")
  /\ Set(connection, a, handle[a])
  /\ UNCHANGED <<settings, storage, NAME, handle, tests>>

\* The end of a physical connection is the end of a database in memory.
Ends(gone) ==
  /\ databases' = [p \in Places |-> IF p \in gone THEN << >> ELSE databases[p]]
  /\ mvcc' = mvcc \ gone

\* Mutant: get_new_connection() without its except clause.
LeftOpen(a) == UNCHANGED <<databases, mvcc, handle>>

\* The connection is closed again.
ClosedAgain(a) == Set(handle, a, "none") /\ Ends({handle[a]} \intersect Aliases)

\* Any of these steps may fail, and a mode other than the one wanted always does.
OpenFails(a) ==
  /\ connecting[a] # "idle"
  /\ Set(connecting, a, "idle")
  /\ ClosedAgain(a)
  /\ UNCHANGED <<settings, wrote, NAME, connection, tests>>
--------------------------------------------------------------------------------
(* Using it and closing it.                                                   *)

\* New rows go to the log of the journal mode.
Write(a) ==
  /\ Ready /\ connection[a] \in Places
  /\ LET place == connection[a]
         part  == IF place \in Aliases THEN "main" ELSE IF place \in mvcc THEN "log" ELSE "wal"
         row   == IF phase[a] = "application" THEN "app" ELSE "test"
     IN /\ Set(databases, place, Holding(place, part, Held(place, part) \union {row}))
        /\ wrote' = IF row = "app" THEN wrote \union ({place} \ Aliases) ELSE wrote
  /\ UNCHANGED <<settings, mvcc, wrappers, connecting, tests>>

\* The engine moves rows to the main file.
Checkpoint(path) ==
  /\ \E a \in Aliases : handle[a] = path
  /\ Set(databases, path, [part \in {"main"} |-> Visible(path)])
  /\ UNCHANGED <<settings, mvcc, wrote, wrappers, connecting, tests>>

ForceClose(a) ==
  /\ Set(handle, a, "none")
  /\ Set(connection, a, "none")
  /\ Ends({handle[a]} \intersect Aliases)

\* close() keeps a database in memory.
OrdinaryClose(a) ==
  IF is_in_memory(a) THEN UNCHANGED <<handle, connection, databases, mvcc>> ELSE ForceClose(a)

Close(a) ==
  /\ Ready /\ connection[a] # "none"
  /\ OrdinaryClose(a)
  /\ UNCHANGED <<settings, wrote, NAME, connecting, tests>>
--------------------------------------------------------------------------------
(* A test run.  What raises SystemExit or an error ends the process           *)
(* (ExitProcess).                                                             *)

\* Mutant: the switch uses close().
SwitchCloses(a) == OrdinaryClose(a)

\* _close_for_test_database_switch()
CloseForSwitch(a) == ForceClose(a)

\* Mutant: only the database file is removed.
OnlyMain == <<"main">>

Artifacts == <<"main", "wal", "log">>

AllowsRemoval(path, answer) == path # Memory /\ "main" \in DOMAIN databases[path] => answer = "yes"

\* _create_test_db(): without a leave to clobber it, an existing file needs a "yes".
CreateTestDb(a, keep, answer) ==
  /\ Ready /\ phase[a] = "application"
  /\ ~keep => AllowsRemoval(settings[a].test, answer)
  /\ CloseForSwitch(a)
  /\ Set(keepdb, a, keep)
  /\ Set(phase, a, "created")
  /\ Set(removing, a, IF settings[a].test = Memory \/ keep THEN <<>> ELSE Artifacts)
  /\ UNCHANGED <<settings, wrote, NAME, connecting>>

\* _remove_database_artifacts(): another connection keeps an unlinked file.
RemoveArtifact(a) ==
  /\ removing[a] # <<>>
  /\ Set(removing, a, Tail(removing[a]))
  /\ LET path == settings[a].test
         part == Head(removing[a])
         unlinked(c) == [b \in Aliases |-> IF part = "main" /\ c[b] = path THEN "unlinked" ELSE c[b]]
     IN /\ Set(databases, path, Restrict(databases[path], DOMAIN databases[path] \ {part}))
        /\ mvcc' = IF part = "main" THEN mvcc \ {path} ELSE mvcc
        /\ handle' = unlinked(handle)
        /\ connection' = unlinked(connection)
  /\ UNCHANGED <<settings, wrote, NAME, connecting, phase, keepdb>>

DoneRemoving(a) == removing[a] = <<>>

\* create_test_db() goes on with the new NAME.
UseTestDb(a) ==
  /\ phase[a] = "created" /\ DoneRemoving(a)
  /\ Set(NAME, a, settings[a].test)
  /\ Set(phase, a, "testing")
  /\ UNCHANGED <<settings, storage, handle, connection, connecting, removing, keepdb>>

\* destroy_test_db() and _destroy_test_db()
DestroyTestDb(a) ==
  /\ Ready /\ phase[a] = "testing"
  /\ CloseForSwitch(a)
  /\ Set(phase, a, "destroyed")
  /\ Set(removing, a, IF settings[a].test = Memory \/ keepdb[a] THEN <<>> ELSE Artifacts)
  /\ UNCHANGED <<settings, wrote, NAME, connecting, keepdb>>

UseApplicationDb(a) ==
  /\ phase[a] = "destroyed" /\ DoneRemoving(a)
  /\ Set(NAME, a, settings[a].name)
  /\ Set(phase, a, "application")
  /\ UNCHANGED <<settings, storage, handle, connection, connecting, removing, keepdb>>

\* set_as_test_mirror()
SetAsTestMirror(a, primary) ==
  /\ Ready /\ phase[a] = "application"
  /\ a # primary /\ phase[primary] = "testing" /\ ~is_in_memory(primary)
  /\ CloseForSwitch(a)
  /\ Set(NAME, a, NAME[primary])
  /\ Set(phase, a, "mirror")
  /\ UNCHANGED <<settings, wrote, connecting, removing, keepdb>>

\* The process ends, at any moment, and the next one begins.
ExitProcess ==
  /\ NAME' = [a \in Aliases |-> settings[a].name]
  /\ databases' = [p \in Places |-> IF p \in Aliases THEN << >>
       ELSE [part \in DOMAIN databases[p] |-> {IF r = "test" THEN "old" ELSE r : r \in databases[p][part]}]]
  /\ mvcc' = mvcc \ Aliases
  /\ handle' = [a \in Aliases |-> "none"]
  /\ connection' = handle'
  /\ connecting' = [a \in Aliases |-> "idle"]
  /\ phase' = [a \in Aliases |-> "application"]
  /\ removing' = [a \in Aliases |-> <<>>]
  /\ keepdb' = [a \in Aliases |-> FALSE]
  /\ UNCHANGED <<settings, wrote>>

AliasStep(a) ==
  \/ Open(a)
  \/ ConfigureJournal(a)
  \/ VerifyJournal(a)
  \/ Opened(a)
  \/ OpenFails(a)
  \/ Write(a)
  \/ Close(a)
  \/ \E keep \in BOOLEAN, answer \in {"yes", "no"} : CreateTestDb(a, keep, answer)
  \/ RemoveArtifact(a)
  \/ UseTestDb(a)
  \/ DestroyTestDb(a)
  \/ UseApplicationDb(a)
  \/ \E primary \in Aliases : SetAsTestMirror(a, primary)

Next ==
  \/ \E a \in Aliases : AliasStep(a)
  \/ \E path \in Paths : Checkpoint(path)
  \/ ExitProcess

Spec == Init /\ [][Next]_vars
--------------------------------------------------------------------------------
Database  == UNION {[parts -> SUBSET Writer] : parts \in SUBSET Part}
Handle    == Places \union {"none", "unlinked"}

TypeOK ==
  /\ settings \in Configurations
  /\ NAME \in [Aliases -> Paths \union {Memory}]
  /\ DOMAIN databases = Places
  /\ \A p \in Places : databases[p] \in Database
  /\ mvcc \subseteq Places
  /\ handle \in [Aliases -> Handle]
  /\ connection \in [Aliases -> Handle]
  /\ connecting \in [Aliases -> {"idle", "journal", "verify", "enforcement"}]
  /\ phase \in [Aliases -> {"application", "testing", "mirror"} \union Switching]
  /\ \A a \in Aliases : removing[a] # <<>> => phase[a] \in Switching
  /\ keepdb \in [Aliases -> BOOLEAN]
  /\ wrote \subseteq Paths

\* A test database that is not kept starts without rows: tests see neither what an earlier
\* run left in a file or its logs, nor what the application had in memory
\* (docs/test-runner.md: an "open in-memory database does not retain its tables during
\* test setup").
TestsStartEmpty ==
  \A a \in Aliases :
    phase[a] = "testing" /\ ~keepdb[a] /\ connection[a] \in Places => Visible(connection[a]) \subseteq {"test"}

\* Tests leave the databases of applications alone: a file keeps what the application wrote
\* and gets nothing else, and a database in memory that is open outside of tests has
\* nothing else in it.
ApplicationUntouched ==
  \A a \in Aliases :
    /\ settings[a].name # Memory =>
         /\ Visible(settings[a].name) \subseteq {"app"}
         /\ settings[a].name \in wrote => "app" \in Visible(settings[a].name)
    /\ phase[a] = "application" /\ connection[a] = a => Visible(a) \subseteq {"app"}

\* No connection outlives a switch: the wrapper uses the database that NAME says, or holds
\* a file that is no longer there (a mirror whose primary is destroyed).
ConnectionsFollowNames ==
  \A a \in Aliases : connection[a] \in {"none", "unlinked", Place(a)}

\* A physical connection belongs to its wrapper or is being set up: a failure in between
\* closes it (docs/security.md: it "leaves no connected handle behind").
NoHandleLeaks ==
  \A a \in Aliases : connecting[a] = "idle" => handle[a] = connection[a]

\* Whoever configured MVCC, or transactions that need it, has it once connected, and keeps
\* it: no other connection turns a database back
\* (docs/configuration.md: "An explicit value is verified during connection setup").
MvccIsVerified ==
  \A a \in Aliases :
    connection[a] \in Places /\ (settings[a].journal_mode = "MVCC" \/ settings[a].transaction_mode = "CONCURRENT")
      => connection[a] \in mvcc
================================================================================
