------------------------------ MODULE DatabaseProofs ----------------------------
(******************************************************************************)
(* The properties of Databases for every set of aliases and paths, and every  *)
(* configuration in which tests have databases of their own.                  *)
(******************************************************************************)
EXTENDS Databases, TLAPS

Remaining == {<<>>, <<"log">>, <<"wal", "log">>, Artifacts}

\* The artifacts of a test database are removed in one order.
TypeInv == TypeOK /\ removing \in [Aliases -> Remaining]

\* Connections are set up one step after the other, and databases switched without any.
HandleInv ==
  \A a \in Aliases :
    /\ connecting[a] # "idle" => connection[a] = "none" /\ handle[a] = Place(a)
    /\ handle[a] \in Places => Accepts(settings[a])
    /\ phase[a] \in Switching => connection[a] = "none" /\ \A b \in Aliases : connecting[b] = "idle"

\* A handle has an owner, and both are on the database of the alias.
ConnectionInv == HandleInv /\ NoHandleLeaks /\ ConnectionsFollowNames

\* The parts of a database, and its rows.
LEMMA Contents ==
  ASSUME NEW place, databases[place] \in Database
  PROVE  /\ DOMAIN databases[place] \subseteq Part
         /\ \A part : Held(place, part) \subseteq Writer
         /\ \A part : Held(place, part) \subseteq Visible(place)
         /\ Visible(place) \subseteq Writer
         /\ \A row \in Visible(place) : \E part \in DOMAIN databases[place] : row \in Held(place, part)
<1>1. DOMAIN databases[place] \subseteq Part /\ \A part \in DOMAIN databases[place] : databases[place][part] \subseteq Writer
  BY DEF Database
<1> QED
  BY <1>1 DEF Held, Visible, Range

LEMMA HoldingIs ==
  ASSUME NEW place, databases[place] \in Database, NEW part \in Part, NEW rows \in SUBSET Writer
  PROVE  /\ Holding(place, part, rows) \in Database
         /\ Held(place, part) \subseteq rows =>
              UNION Range(Holding(place, part, rows)) = Visible(place) \union rows
<1> DEFINE new == Holding(place, part, rows)
<1>1. /\ DOMAIN new = DOMAIN databases[place] \union {part}
      /\ \A p \in DOMAIN new : new[p] = IF p = part THEN rows ELSE databases[place][p]
  BY DEF Holding
<1>2. new \in [DOMAIN databases[place] \union {part} -> SUBSET Writer]
  BY DEF Holding, Database
<1>3. DOMAIN databases[place] \union {part} \in SUBSET Part
  BY Contents
<1>4. new \in Database
  BY <1>2, <1>3 DEF Database
<1>5. ASSUME Held(place, part) \subseteq rows PROVE UNION Range(new) = Visible(place) \union rows
  BY <1>1, <1>5 DEF Range, Visible, Held
<1> QED
  BY <1>4, <1>5

LEMMA SmallDatabases ==
  /\ << >> \in Database /\ UNION Range(<< >>) = {} /\ DOMAIN << >> = {}
  /\ \A rows \in SUBSET Writer :
       /\ [part \in {"main"} |-> rows] \in Database
       /\ UNION Range([part \in {"main"} |-> rows]) = rows
       /\ DOMAIN [part \in {"main"} |-> rows] = {"main"}
<1>1. << >> \in [{} -> SUBSET Writer] /\ {} \in SUBSET Part
  OBVIOUS
<1>2. << >> \in Database
  BY <1>1 DEF Database
<1>3. UNION Range(<< >>) = {} /\ DOMAIN << >> = {}
  BY DEF Range
<1>4. ASSUME NEW rows \in SUBSET Writer
      PROVE  /\ [part \in {"main"} |-> rows] \in Database
             /\ UNION Range([part \in {"main"} |-> rows]) = rows
             /\ DOMAIN [part \in {"main"} |-> rows] = {"main"}
  <2>1. [part \in {"main"} |-> rows] \in [{"main"} -> SUBSET Writer] /\ {"main"} \in SUBSET Part
    BY DEF Part
  <2>2. [part \in {"main"} |-> rows] \in Database
    BY <2>1 DEF Database
  <2> QED
    BY <2>2 DEF Range
<1> QED
  BY <1>2, <1>3, <1>4

LEMMA RestrictIs ==
  ASSUME NEW place, databases[place] \in Database, NEW part,
         NEW new, new = Restrict(databases[place], DOMAIN databases[place] \ {part})
  PROVE  /\ new \in Database
         /\ UNION Range(new) \subseteq Visible(place)
         /\ DOMAIN new = DOMAIN databases[place] \ {part}
<1>1. PICK parts \in SUBSET Part : databases[place] \in [parts -> SUBSET Writer]
  BY DEF Database
<1>2. DOMAIN databases[place] = parts
  BY <1>1
<1>3. new \in [parts \ {part} -> SUBSET Writer]
  BY <1>1, <1>2 DEF Restrict
<1>4. new \in Database
  BY <1>3 DEF Database
<1>5. DOMAIN new = DOMAIN databases[place] \ {part} /\ \A p \in DOMAIN new : new[p] = databases[place][p]
  BY DEF Restrict
<1>6. UNION Range(new) \subseteq Visible(place)
  BY <1>5 DEF Range, Visible
<1> QED
  BY <1>4, <1>5, <1>6

LEMMA RemainingParts ==
  /\ Range(<<>>) = {}
  /\ Range(<<"log">>) = {"log"}
  /\ Range(<<"wal", "log">>) = {"wal", "log"}
  /\ Range(Artifacts) = Part
  BY DEF Range, Artifacts, Part

LEMMA RemainingIs ==
  ASSUME NEW r \in Remaining, r # <<>>
  PROVE  /\ Tail(r) \in Remaining /\ Head(r) \in Part
         /\ Range(Tail(r)) = Range(r) \ {Head(r)}
         /\ Tail(r) # Artifacts
         /\ Head(r) = "main" <=> r = Artifacts
         /\ "main" \in Range(r) => r = Artifacts
<1>2. CASE r = <<"log">>
  <2>1. Tail(r) = <<>> /\ Head(r) = "log"
    BY <1>2
  <2> QED
    BY <1>2, <2>1, RemainingParts DEF Remaining, Artifacts, Part
<1>3. CASE r = <<"wal", "log">>
  <2>1. Tail(r) = <<"log">> /\ Head(r) = "wal"
    BY <1>3
  <2> QED
    BY <1>3, <2>1, RemainingParts DEF Remaining, Artifacts, Part
<1>4. CASE r = Artifacts
  <2>1. Tail(r) = <<"wal", "log">> /\ Head(r) = "main"
    BY <1>4 DEF Artifacts
  <2>2. Tail(r) # Artifacts
    BY <2>1 DEF Artifacts
  <2>3. Range(Tail(r)) = Range(r) \ {Head(r)}
    BY <1>4, <2>1, RemainingParts DEF Part
  <2> QED
    BY <1>4, <2>1, <2>2, <2>3 DEF Remaining, Part
<1> QED
  BY <1>2, <1>3, <1>4 DEF Remaining
--------------------------------------------------------------------------------
(* Constants and names.                                                        *)

LEMMA PlacesAre ==
  /\ "none" \notin Places /\ "unlinked" \notin Places /\ Memory \notin Places
  /\ Paths \intersect Aliases = {}
  BY DatabasesAssumption DEF Places

LEMMA Configured ==
  ASSUME settings \in Configurations
  PROVE  \A a, b \in Aliases :
           /\ settings[a].name \in Paths \union {Memory} /\ settings[a].test \in Paths \union {Memory}
           /\ settings[a].test = Memory \/ settings[a].test # settings[b].name
           /\ a = b \/ settings[a].test = Memory \/ settings[a].test # settings[b].test
<1>1. settings \in [Aliases -> Alias]
  BY DatabasesAssumption
<1>2. \A a \in Aliases : settings[a].name \in Paths \union {Memory} /\ settings[a].test \in Paths \union {Memory}
  BY <1>1 DEF Alias
<1> QED
  BY <1>2, DatabasesAssumption

LEMMA PlaceIs ==
  ASSUME NAME \in [Aliases -> Paths \union {Memory}], NEW a \in Aliases
  PROVE  /\ Place(a) \in Places
         /\ is_in_memory(a) => Place(a) = a
         /\ ~is_in_memory(a) => Place(a) = NAME[a] /\ NAME[a] \in Paths
         /\ Place(a) \in Aliases <=> is_in_memory(a)
  BY DatabasesAssumption DEF Place, is_in_memory, Places
--------------------------------------------------------------------------------
(* Types.                                                                      *)

LEMMA EndsType ==
  ASSUME TypeOK, NEW gone, Ends(gone)
  PROVE  /\ DOMAIN databases' = Places
         /\ \A p \in Places : databases'[p] = IF p \in gone THEN << >> ELSE databases[p]
         /\ \A p \in Places : databases'[p] \in Database
         /\ mvcc' = mvcc \ gone /\ mvcc' \subseteq Places
  BY SmallDatabases DEF Ends, TypeOK

\* What opening a connection, writing, a checkpoint and the removal of an artifact make of
\* a database: a database again.
LEMMA SetType ==
  ASSUME TypeOK, NEW place, NEW new, new \in Database \/ place \notin Places, Set(databases, place, new)
  PROVE  /\ DOMAIN databases' = Places
         /\ \A p \in Places : databases'[p] = IF p = place THEN new ELSE databases[p]
         /\ \A p \in Places : databases'[p] \in Database
  BY DEF Set, TypeOK

LEMMA OpeningType ==
  ASSUME TypeInv, HandleInv, NEW a \in Aliases,
         Open(a) \/ ConfigureJournal(a) \/ VerifyJournal(a) \/ Opened(a) \/ OpenFails(a)
  PROVE  TypeInv'
<1> USE DEF TypeInv
<1>0. /\ Place(a) \in Places /\ handle[a] \in Handle
      /\ UNCHANGED <<settings, wrote, NAME, tests>>
  BY PlaceIs DEF Open, ConfigureJournal, VerifyJournal, Opened, OpenFails, wrappers, storage, TypeOK
<1>1. handle' \in [Aliases -> Handle] /\ connection' \in [Aliases -> Handle]
  BY <1>0 DEF Open, ConfigureJournal, VerifyJournal, Opened, OpenFails, ClosedAgain, Set, Handle, wrappers, TypeOK
<1>2. connecting' \in [Aliases -> {"idle", "journal", "verify", "enforcement"}]
  BY DEF Open, ConfigureJournal, VerifyJournal, Opened, OpenFails, Set, TypeOK
<1>3. DOMAIN databases' = Places /\ \A p \in Places : databases'[p] \in Database
  <2>1. CASE UNCHANGED databases
    BY <2>1 DEF TypeOK
  <2>2. CASE Open(a)
    <3>1. Holding(Place(a), "main", Held(Place(a), "main")) \in Database
      BY <1>0, Contents, HoldingIs DEF Part, TypeOK
    <3> QED
      BY <2>2, <3>1, SetType DEF Open
  <2>3. CASE OpenFails(a)
    BY <2>3, EndsType DEF OpenFails, ClosedAgain
  <2> QED
    BY <2>1, <2>2, <2>3 DEF ConfigureJournal, VerifyJournal, Opened, storage
<1>4. mvcc' \subseteq Places
  <2>1. CASE Open(a) \/ VerifyJournal(a) \/ Opened(a)
    BY <2>1 DEF Open, VerifyJournal, Opened, storage, TypeOK
  <2>2. CASE ConfigureJournal(a)
    <3>1. handle[a] \in Places
      BY <1>0, <2>2 DEF ConfigureJournal, HandleInv
    <3> QED
      BY <2>2, <3>1 DEF ConfigureJournal, TypeOK
  <2>3. CASE OpenFails(a)
    BY <2>3, EndsType DEF OpenFails, ClosedAgain
  <2> QED
    BY <2>1, <2>2, <2>3
<1> QED
  BY <1>0, <1>1, <1>2, <1>3, <1>4 DEF tests, TypeOK

LEMMA ForceCloseType ==
  ASSUME TypeOK, NEW a \in Aliases, ForceClose(a)
  PROVE  /\ handle' = [handle EXCEPT ![a] = "none"] /\ connection' = [connection EXCEPT ![a] = "none"]
         /\ handle' \in [Aliases -> Handle] /\ connection' \in [Aliases -> Handle]
         /\ DOMAIN databases' = Places /\ \A p \in Places : databases'[p] \in Database
         /\ mvcc' \subseteq Places
  BY EndsType DEF ForceClose, Set, Handle, TypeOK

LEMMA UsingType ==
  ASSUME TypeInv, NEW a \in Aliases, Write(a) \/ Close(a)
  PROVE  TypeInv'
<1> USE DEF TypeInv
<1>1. CASE Write(a)
  <2>1. PICK place \in Places, part \in Part, row \in Writer :
          /\ Set(databases, place, Holding(place, part, Held(place, part) \union {row}))
          /\ wrote' = IF row = "app" THEN wrote \union ({place} \ Aliases) ELSE wrote
    BY <1>1 DEF Write, Part, Writer
  <2>2. Holding(place, part, Held(place, part) \union {row}) \in Database
    BY Contents, HoldingIs DEF TypeOK
  <2>3. DOMAIN databases' = Places /\ \A p \in Places : databases'[p] \in Database
    BY <2>1, <2>2, SetType
  <2>4. wrote' \subseteq Paths
    BY <2>1 DEF Places, TypeOK
  <2>5. UNCHANGED <<settings, mvcc, wrappers, connecting, tests>>
    BY <1>1 DEF Write
  <2> QED
    BY <2>3, <2>4, <2>5 DEF wrappers, tests, TypeOK
<1>2. CASE Close(a)
  <2>1. /\ UNCHANGED <<settings, wrote, NAME, connecting, tests>>
        /\ ForceClose(a) \/ UNCHANGED <<handle, connection, databases, mvcc>>
    BY <1>2 DEF Close, OrdinaryClose
  <2> QED
    BY <2>1, ForceCloseType DEF tests, TypeOK
<1> QED
  BY <1>1, <1>2

LEMMA SwitchingType ==
  ASSUME TypeInv, NEW a \in Aliases,
         \/ \E keep \in BOOLEAN, answer \in {"yes", "no"} : CreateTestDb(a, keep, answer)
         \/ DestroyTestDb(a)
         \/ \E primary \in Aliases : SetAsTestMirror(a, primary)
  PROVE  TypeInv'
<1> USE DEF TypeInv
<1>1. UNCHANGED <<settings, wrote, connecting>> /\ ForceClose(a)
  BY DEF CreateTestDb, DestroyTestDb, SetAsTestMirror, CloseForSwitch
<1>2. NAME' \in [Aliases -> Paths \union {Memory}]
  BY DEF CreateTestDb, DestroyTestDb, SetAsTestMirror, Set, TypeOK
<1>3. phase' \in [Aliases -> {"application", "testing", "mirror"} \union Switching]
  BY DEF CreateTestDb, DestroyTestDb, SetAsTestMirror, Set, TypeOK, Switching
<1>4. keepdb' \in [Aliases -> BOOLEAN]
  BY DEF CreateTestDb, DestroyTestDb, SetAsTestMirror, Set, TypeOK
<1>5. removing' \in [Aliases -> Remaining]
  BY DEF CreateTestDb, DestroyTestDb, SetAsTestMirror, Set, Remaining
<1>6. \A b \in Aliases : removing'[b] # <<>> => phase'[b] \in Switching
  BY DEF CreateTestDb, DestroyTestDb, SetAsTestMirror, Set, Switching, TypeOK
<1>7. DOMAIN databases' = Places /\ (\A p \in Places : databases'[p] \in Database) /\ mvcc' \subseteq Places
      /\ handle' \in [Aliases -> Handle] /\ connection' \in [Aliases -> Handle]
  BY <1>1, ForceCloseType
<1> QED
  BY <1>1, <1>2, <1>3, <1>4, <1>5, <1>6, <1>7 DEF TypeOK

LEMMA RemovingType ==
  ASSUME TypeInv, NEW a \in Aliases, RemoveArtifact(a) \/ UseTestDb(a) \/ UseApplicationDb(a)
  PROVE  TypeInv'
<1> USE DEF TypeInv
<1>1. CASE RemoveArtifact(a)
  <2> DEFINE path == settings[a].test
             part == Head(removing[a])
  <2>1. UNCHANGED <<settings, wrote, NAME, connecting, phase, keepdb>>
    BY <1>1 DEF RemoveArtifact
  <2>2. removing' \in [Aliases -> Remaining] /\ \A b \in Aliases : removing'[b] # <<>> => removing[b] # <<>>
    <3>1. removing[a] # <<>> /\ Tail(removing[a]) \in Remaining
      BY <1>1, RemainingIs DEF RemoveArtifact
    <3> QED
      BY <1>1, <3>1 DEF RemoveArtifact, Set
  <2>3. DOMAIN databases' = Places /\ \A p \in Places : databases'[p] \in Database
    <3>1. path \notin Places \/ Restrict(databases[path], DOMAIN databases[path] \ {part}) \in Database
      BY RestrictIs DEF TypeOK
    <3> QED
      BY <1>1, <3>1, SetType DEF RemoveArtifact
  <2>4. handle' \in [Aliases -> Handle] /\ connection' \in [Aliases -> Handle] /\ mvcc' \subseteq Places
    BY <1>1 DEF RemoveArtifact, Handle, TypeOK
  <2> QED
    BY <2>1, <2>2, <2>3, <2>4 DEF TypeOK
<1>2. CASE UseTestDb(a) \/ UseApplicationDb(a)
  <2>1. UNCHANGED <<settings, storage, handle, connection, connecting, removing, keepdb>> /\ removing[a] = <<>>
    BY <1>2 DEF UseTestDb, UseApplicationDb, DoneRemoving
  <2>2. NAME' \in [Aliases -> Paths \union {Memory}]
    BY <1>2, Configured DEF UseTestDb, UseApplicationDb, Set, TypeOK
  <2>3. /\ phase' \in [Aliases -> {"application", "testing", "mirror"} \union Switching]
        /\ \A b \in Aliases : b # a => phase'[b] = phase[b]
    BY <1>2 DEF UseTestDb, UseApplicationDb, Set, TypeOK
  <2>4. \A b \in Aliases : removing'[b] # <<>> => b # a /\ removing[b] # <<>>
    BY <2>1
  <2>5. \A b \in Aliases : removing'[b] # <<>> => phase'[b] \in Switching
    BY <2>3, <2>4 DEF TypeOK
  <2>6. UNCHANGED <<settings, databases, mvcc, wrote, handle, connection, connecting, removing, keepdb>>
    BY <2>1 DEF storage
  <2>7. TypeOK'
    BY <2>2, <2>3, <2>5, <2>6 DEF TypeOK
  <2> QED
    BY <2>6, <2>7
<1> QED
  BY <1>1, <1>2

LEMMA CheckpointType ==
  ASSUME TypeInv, NEW path \in Paths, Checkpoint(path)
  PROVE  TypeInv'
<1>1. [part \in {"main"} |-> Visible(path)] \in Database
  <2>1. Visible(path) \in SUBSET Writer
    BY Contents DEF TypeInv, Places, TypeOK
  <2> QED
    BY <2>1, SmallDatabases
<1>2. DOMAIN databases' = Places /\ \A p \in Places : databases'[p] \in Database
  BY <1>1, SetType DEF Checkpoint, TypeInv
<1>3. UNCHANGED <<settings, mvcc, wrote, wrappers, connecting, tests>>
  BY DEF Checkpoint
<1> QED
  BY <1>2, <1>3 DEF TypeInv, wrappers, tests, TypeOK

LEMMA ExitType ==
  ASSUME TypeInv, ExitProcess
  PROVE  TypeInv'
<1> USE DEF TypeInv
<1>1. DOMAIN databases' = Places /\ \A p \in Places : databases'[p] \in Database
  <2>1. DOMAIN databases' = Places
    BY DEF ExitProcess
  <2>2. ASSUME NEW p \in Places PROVE databases'[p] \in Database
    <3>1. CASE p \in Aliases
      BY <2>2, <3>1, SmallDatabases DEF ExitProcess
    <3>2. CASE p \notin Aliases
      <4>1. PICK parts \in SUBSET Part : databases[p] \in [parts -> SUBSET Writer]
        BY <2>2 DEF Database, TypeOK
      <4>2. databases'[p] = [part \in parts |-> {IF r = "test" THEN "old" ELSE r : r \in databases[p][part]}]
        BY <2>2, <3>2, <4>1 DEF ExitProcess
      <4>3. databases'[p] \in [parts -> SUBSET Writer]
        BY <4>1, <4>2 DEF Writer
      <4> QED
        BY <4>3 DEF Database
    <3> QED
      BY <3>1, <3>2
  <2> QED
    BY <2>1, <2>2
<1>2. NAME' \in [Aliases -> Paths \union {Memory}]
  BY Configured DEF ExitProcess, TypeOK
<1>3. /\ removing' = [a \in Aliases |-> <<>>] /\ removing' \in [Aliases -> Remaining]
      /\ \A a \in Aliases : removing'[a] = <<>>
  BY DEF ExitProcess, Remaining
<1> QED
  BY <1>1, <1>2, <1>3 DEF ExitProcess, Handle, TypeOK

LEMMA TypeStep ==
  ASSUME TypeInv, HandleInv, [Next]_vars
  PROVE  TypeInv'
<1>1. CASE UNCHANGED vars
  BY <1>1 DEF TypeInv, vars, storage, wrappers, tests, TypeOK
<1>2. ASSUME NEW a \in Aliases, AliasStep(a) PROVE TypeInv'
  BY <1>2, OpeningType, UsingType, SwitchingType, RemovingType DEF AliasStep
<1> QED
  BY <1>1, <1>2, CheckpointType, ExitType DEF Next
--------------------------------------------------------------------------------
(* Connections: every handle has an owner, and no connection outlives a switch. *)

Connected(a) ==
  /\ IF connecting[a] = "idle" THEN handle[a] = connection[a]
                               ELSE connection[a] = "none" /\ handle[a] = Place(a)
  /\ connection[a] \in {"none", "unlinked", Place(a)}
  /\ handle[a] \in Places => Accepts(settings[a])
  /\ phase[a] \in Switching => connection[a] = "none" /\ \A b \in Aliases : connecting[b] = "idle"

LEMMA AllConnected == ConnectionInv <=> \A a \in Aliases : Connected(a)
  BY DEF ConnectionInv, HandleInv, NoHandleLeaks, ConnectionsFollowNames, Connected

LEMMA AllConnectedNext == ConnectionInv' <=> \A a \in Aliases : Connected(a)'
  BY DEF ConnectionInv, HandleInv, NoHandleLeaks, ConnectionsFollowNames, Connected

\* The physical connection of an alias is on its own database.
LEMMA HandleIs ==
  ASSUME TypeOK, ConnectionInv, NEW a \in Aliases
  PROVE  /\ handle[a] \in {"none", "unlinked", Place(a)}
         /\ handle[a] \in Aliases => handle[a] = a
         /\ connection[a] \in Places => handle[a] = connection[a]
         /\ connection[a] = "none" /\ connecting[a] = "idle" => handle[a] = "none"
  BY PlaceIs, PlacesAre, DatabasesAssumption
     DEF TypeOK, ConnectionInv, HandleInv, NoHandleLeaks, ConnectionsFollowNames, Places

LEMMA ConnectedKept ==
  ASSUME NEW a \in Aliases, Connected(a), UNCHANGED settings,
         handle'[a] = handle[a], connection'[a] = connection[a], NAME'[a] = NAME[a],
         connecting'[a] = connecting[a], phase'[a] = phase[a],
         phase[a] \in Switching => \A b \in Aliases : connecting'[b] = "idle"
  PROVE  Connected(a)'
  BY DEF Connected, Place, is_in_memory

LEMMA ConnectionStep ==
  ASSUME TypeInv, ConnectionInv, [Next]_vars
  PROVE  ConnectionInv'
<1> USE DEF TypeInv
<1>0. TypeOK /\ \A b \in Aliases : Connected(b)
  BY AllConnected
<1>1. ASSUME UNCHANGED <<settings, wrappers, connecting, phase>> PROVE ConnectionInv'
  BY <1>0, <1>1, ConnectedKept, AllConnectedNext DEF wrappers, Connected
<1>2. ASSUME NEW a \in Aliases,
             Open(a) \/ ConfigureJournal(a) \/ VerifyJournal(a) \/ Opened(a) \/ OpenFails(a)
      PROVE  ConnectionInv'
  <2>1. /\ UNCHANGED <<settings, NAME, phase>>
        /\ \A b \in Aliases : b # a => /\ handle'[b] = handle[b] /\ connection'[b] = connection[b]
                                       /\ connecting'[b] = connecting[b]
    BY <1>0, <1>2 DEF Open, ConfigureJournal, VerifyJournal, Opened, OpenFails, ClosedAgain, Set, wrappers,
                      tests, TypeOK
  <2>2. \A b \in Aliases : phase[b] \notin Switching
    BY <1>0, <1>2 DEF Open, Ready, ConfigureJournal, VerifyJournal, Opened, OpenFails, Connected
  <2>3. ASSUME NEW b \in Aliases, b # a PROVE Connected(b)'
    BY <1>0, <2>1, <2>2, <2>3, ConnectedKept
  <2>4. Place(a)' = Place(a)
    BY <2>1 DEF Place, is_in_memory
  <2>5. CASE Open(a)
    <3>1. /\ connection'[a] = "none" /\ handle'[a] = Place(a) /\ connecting'[a] = "journal"
          /\ Accepts(settings[a])
      BY <1>0, <2>5 DEF Open, Set, TypeOK
    <3> QED
      BY <2>1, <2>2, <2>3, <2>4, <3>1, AllConnectedNext DEF Connected
  <2>6. CASE ConfigureJournal(a) \/ VerifyJournal(a)
    <3>1. /\ connection'[a] = connection[a] /\ handle'[a] = handle[a]
          /\ connecting[a] # "idle" /\ connecting'[a] # "idle"
      BY <1>0, <2>6 DEF ConfigureJournal, VerifyJournal, Set, wrappers, TypeOK
    <3>2. Connected(a)'
      BY <1>0, <2>1, <2>2, <2>4, <3>1 DEF Connected
    <3> QED
      BY <2>3, <3>2, AllConnectedNext
  <2>7. CASE Opened(a)
    <3>1. /\ connection'[a] = handle[a] /\ handle'[a] = handle[a]
          /\ connecting[a] # "idle" /\ connecting'[a] = "idle"
      BY <1>0, <2>7 DEF Opened, Set, TypeOK
    <3>2. Connected(a)'
      BY <1>0, <2>1, <2>2, <2>4, <3>1 DEF Connected
    <3> QED
      BY <2>3, <3>2, AllConnectedNext
  <2>8. CASE OpenFails(a)
    <3>1. connection'[a] = connection[a] /\ handle'[a] = "none" /\ connecting[a] # "idle" /\ connecting'[a] = "idle"
      BY <1>0, <2>8 DEF OpenFails, ClosedAgain, Set, TypeOK
    <3>2. Connected(a)'
      BY <1>0, <2>1, <2>2, <2>4, <3>1, PlacesAre DEF Connected
    <3> QED
      BY <2>3, <3>2, AllConnectedNext
  <2> QED
    BY <1>2, <2>5, <2>6, <2>7, <2>8
<1>3. ASSUME NEW a \in Aliases, Ready, ForceClose(a), UNCHANGED <<settings, connecting>>,
             \A b \in Aliases : b # a => NAME'[b] = NAME[b] /\ phase'[b] = phase[b]
      PROVE  ConnectionInv'
  <2>1. /\ \A b \in Aliases : b # a => handle'[b] = handle[b] /\ connection'[b] = connection[b]
        /\ handle'[a] = "none" /\ connection'[a] = "none"
        /\ \A b \in Aliases : connecting'[b] = "idle"
    BY <1>0, <1>3 DEF ForceClose, Set, TypeOK, Ready
  <2>2. ASSUME NEW b \in Aliases, b # a PROVE Connected(b)'
    BY <1>0, <1>3, <2>1, <2>2, ConnectedKept
  <2>3. Connected(a)'
    BY <2>1, PlacesAre DEF Connected
  <2> QED
    BY <2>2, <2>3, AllConnectedNext
<1>4. ASSUME NEW a \in Aliases, Close(a) PROVE ConnectionInv'
  <2>1. CASE UNCHANGED <<handle, connection>>
    BY <1>1, <1>4, <2>1 DEF Close, wrappers, tests
  <2>2. CASE ForceClose(a)
    BY <1>3, <1>4, <2>2 DEF Close, tests
  <2> QED
    BY <1>4, <2>1, <2>2 DEF Close, OrdinaryClose
<1>5. ASSUME NEW a \in Aliases,
             \/ \E keep \in BOOLEAN, answer \in {"yes", "no"} : CreateTestDb(a, keep, answer)
             \/ DestroyTestDb(a)
             \/ \E primary \in Aliases : SetAsTestMirror(a, primary)
      PROVE  ConnectionInv'
  <2>1. Ready /\ ForceClose(a) /\ UNCHANGED <<settings, connecting>>
    BY <1>5 DEF CreateTestDb, DestroyTestDb, SetAsTestMirror, CloseForSwitch
  <2>2. \A b \in Aliases : b # a => NAME'[b] = NAME[b] /\ phase'[b] = phase[b]
    BY <1>0, <1>5 DEF CreateTestDb, DestroyTestDb, SetAsTestMirror, Set, TypeOK
  <2> QED
    BY <1>3, <2>1, <2>2
<1>6. ASSUME NEW a \in Aliases, RemoveArtifact(a) PROVE ConnectionInv'
  <2>1. phase[a] \in Switching /\ UNCHANGED <<settings, NAME, connecting, phase>>
    BY <1>0, <1>6 DEF RemoveArtifact, TypeOK
  <2>2. \A b \in Aliases : connecting[b] = "idle"
    BY <1>0, <2>1 DEF Connected
  <2>3. \A b \in Aliases : /\ handle[b] = connection[b]
                           /\ handle'[b] = connection'[b]
                           /\ \/ handle'[b] = handle[b]
                              \/ handle'[b] = "unlinked" /\ handle[b] = settings[a].test
    BY <1>0, <1>6, <2>2 DEF RemoveArtifact, Connected
  <2>4. settings[a].test # "none"
    BY <1>0, Configured, DatabasesAssumption DEF TypeOK, Memory
  <2>5. ASSUME NEW b \in Aliases PROVE Connected(b)'
    <3>1. Place(b)' = Place(b)
      BY <2>1 DEF Place, is_in_memory
    <3> QED
      BY <1>0, <2>1, <2>2, <2>3, <2>4, <3>1, PlacesAre DEF Connected
  <2> QED
    BY <2>5, AllConnectedNext
<1>7. ASSUME NEW a \in Aliases, UseTestDb(a) \/ UseApplicationDb(a) PROVE ConnectionInv'
  <2>1. /\ UNCHANGED <<settings, handle, connection, connecting>>
        /\ phase[a] \in Switching
        /\ \A b \in Aliases : b # a => NAME'[b] = NAME[b] /\ phase'[b] = phase[b]
    BY <1>0, <1>7 DEF UseTestDb, UseApplicationDb, Set, Switching, TypeOK
  <2>2. connection[a] = "none" /\ \A b \in Aliases : connecting[b] = "idle"
    BY <1>0, <2>1 DEF Connected
  <2>3. ASSUME NEW b \in Aliases, b # a PROVE Connected(b)'
    BY <1>0, <2>1, <2>2, <2>3, ConnectedKept
  <2>4. Connected(a)'
    BY <1>0, <2>1, <2>2, PlacesAre DEF Connected
  <2> QED
    BY <2>3, <2>4, AllConnectedNext
<1>8. CASE ExitProcess
  <2>1. \A b \in Aliases : handle'[b] = "none" /\ connection'[b] = "none" /\ connecting'[b] = "idle"
    BY <1>8 DEF ExitProcess
  <2> QED
    BY <2>1, PlacesAre, AllConnectedNext DEF Connected
<1>9. ASSUME NEW a \in Aliases, Write(a) PROVE ConnectionInv'
  BY <1>1, <1>9 DEF Write, tests
<1>10. ASSUME NEW path \in Paths, Checkpoint(path) PROVE ConnectionInv'
  BY <1>1, <1>10 DEF Checkpoint, tests
<1>11. CASE UNCHANGED vars
  BY <1>1, <1>11 DEF vars, tests
<1> QED
  BY <1>2, <1>4, <1>5, <1>6, <1>7, <1>8, <1>9, <1>10, <1>11 DEF Next, AliasStep
--------------------------------------------------------------------------------
(* Which database an alias is on in each phase, and how long one in memory lives. *)

\* NAME follows the phase; only a mirror uses the database of another alias, a file.
NameInv ==
  \A a \in Aliases :
    /\ phase[a] \in {"application", "created"} => NAME[a] = settings[a].name
    /\ phase[a] \in {"testing", "destroyed"} => NAME[a] = settings[a].test
    /\ phase[a] = "mirror" => NAME[a] # Memory /\ \E b \in Aliases : NAME[a] = settings[b].test
    /\ removing[a] # <<>> => settings[a].test # Memory

\* A database in memory lives as long as the handle of its alias.
MemoryInv == \A a \in Aliases : handle[a] # a => databases[a] = << >>

\* What the steps change of the databases.
LEMMA StepsOfDatabases ==
  ASSUME TypeInv, NameInv, [Next]_vars
  PROVE  \/ UNCHANGED databases
         \/ \E a \in Aliases : Open(a) \/ Write(a) \/ ForceClose(a) \/ OpenFails(a) \/ RemoveArtifact(a)
         \/ \E path \in Paths : Checkpoint(path)
         \/ ExitProcess
  BY DEF Next, AliasStep, vars, storage, ConfigureJournal, VerifyJournal, Opened, Close, OrdinaryClose,
         CreateTestDb, DestroyTestDb, SetAsTestMirror, CloseForSwitch, UseTestDb, UseApplicationDb

LEMMA NameStep ==
  ASSUME TypeInv, NameInv, [Next]_vars
  PROVE  NameInv'
<1> USE DEF TypeInv, NameInv
<1>1. ASSUME UNCHANGED <<settings, NAME, phase>>, \A a \in Aliases : removing'[a] # <<>> => removing[a] # <<>>
      PROVE  NameInv'
  BY <1>1
<1>2. ASSUME NEW a \in Aliases, RemoveArtifact(a) PROVE NameInv'
  BY <1>1, <1>2 DEF RemoveArtifact, Set
<1>3. ASSUME NEW a \in Aliases, NEW keep \in BOOLEAN, NEW answer \in {"yes", "no"}, CreateTestDb(a, keep, answer)
      PROVE  NameInv'
  BY <1>3 DEF CreateTestDb, Set, TypeOK
<1>4. ASSUME NEW a \in Aliases, DestroyTestDb(a) PROVE NameInv'
  BY <1>4 DEF DestroyTestDb, Set, TypeOK
<1>5. ASSUME NEW a \in Aliases, NEW primary \in Aliases, SetAsTestMirror(a, primary) PROVE NameInv'
  <2>1. NAME'[a] # Memory /\ NAME'[a] = settings[primary].test /\ phase'[a] = "mirror"
    BY <1>5 DEF SetAsTestMirror, Set, TypeOK, is_in_memory
  <2>2. /\ UNCHANGED <<settings, removing>>
        /\ \A b \in Aliases : b # a => NAME'[b] = NAME[b] /\ phase'[b] = phase[b]
    BY <1>5 DEF SetAsTestMirror, Set, TypeOK
  <2> QED
    BY <2>1, <2>2
<1>6. ASSUME NEW a \in Aliases, UseTestDb(a) \/ UseApplicationDb(a) PROVE NameInv'
  BY <1>6 DEF UseTestDb, UseApplicationDb, Set, TypeOK
<1>7. CASE ExitProcess
  BY <1>7 DEF ExitProcess
<1>8. ASSUME NEW a \in Aliases,
             \/ Open(a) \/ ConfigureJournal(a) \/ VerifyJournal(a) \/ Opened(a) \/ OpenFails(a)
             \/ Write(a) \/ Close(a)
      PROVE  NameInv'
  BY <1>1, <1>8 DEF Open, ConfigureJournal, VerifyJournal, Opened, OpenFails, Write, Close, wrappers, tests
<1>9. CASE UNCHANGED vars \/ \E path \in Paths : Checkpoint(path)
  BY <1>1, <1>9 DEF vars, Checkpoint, wrappers, tests
<1> QED
  BY <1>2, <1>3, <1>4, <1>5, <1>6, <1>7, <1>8, <1>9 DEF Next, AliasStep

LEMMA ClosingKeeps ==
  ASSUME TypeInv, ConnectionInv, NEW a \in Aliases, ForceClose(a) \/ OpenFails(a)
  PROVE  /\ \A p \in Places : databases'[p] = IF p = a /\ handle[a] = a THEN << >> ELSE databases[p]
         /\ handle'[a] = "none" /\ \A b \in Aliases : b # a => handle'[b] = handle[b]
         /\ mvcc' = IF handle[a] = a THEN mvcc \ {a} ELSE mvcc
<1>1. Ends({handle[a]} \intersect Aliases) /\ handle' = [handle EXCEPT ![a] = "none"]
  BY DEF ForceClose, OpenFails, ClosedAgain, Set
<1>2. {handle[a]} \intersect Aliases = IF handle[a] = a THEN {a} ELSE {}
  BY HandleIs DEF TypeInv
<1> QED
  BY <1>1, <1>2, EndsType DEF TypeInv, TypeOK

LEMMA MemoryStep ==
  ASSUME TypeInv, ConnectionInv, NameInv, MemoryInv, [Next]_vars
  PROVE  MemoryInv'
<1> USE DEF TypeInv
<1>1. ASSUME NEW a \in Aliases, ForceClose(a) \/ OpenFails(a) PROVE MemoryInv'
  BY <1>1, ClosingKeeps DEF MemoryInv, Places
<1>2. ASSUME NEW a \in Aliases, Open(a) PROVE MemoryInv'
  <2>1. /\ \A p \in Places : p # Place(a) => databases'[p] = databases[p]
        /\ handle'[a] = Place(a) /\ \A b \in Aliases : b # a => handle'[b] = handle[b]
    BY <1>2 DEF Open, Set, TypeOK
  <2>2. Place(a) \in Aliases => Place(a) = a
    BY PlaceIs DEF TypeOK
  <2>3. handle[a] # a
    <3>1. connection[a] = "none" /\ connecting[a] = "idle"
      BY <1>2 DEF Open, Ready
    <3> QED
      BY <3>1, HandleIs, PlacesAre DEF Places
  <2> QED
    BY <2>1, <2>2, <2>3 DEF MemoryInv, Places
<1>3. ASSUME NEW a \in Aliases, Write(a) PROVE MemoryInv'
  <2>1. connection[a] \in Places /\ \A p \in Places : p # connection[a] => databases'[p] = databases[p]
    BY <1>3 DEF Write, Set, TypeOK
  <2>2. connection[a] \in Aliases => connection[a] = a /\ handle[a] = a
    BY <2>1, HandleIs
  <2>3. UNCHANGED handle
    BY <1>3 DEF Write, wrappers
  <2> QED
    BY <2>1, <2>2, <2>3 DEF MemoryInv, Places
<1>4. ASSUME NEW path \in Paths, Checkpoint(path) PROVE MemoryInv'
  <2>1. UNCHANGED handle /\ \A p \in Places : p # path => databases'[p] = databases[p]
    BY <1>4 DEF Checkpoint, Set, TypeOK, wrappers
  <2> QED
    BY <2>1, PlacesAre DEF MemoryInv, Places
<1>5. ASSUME NEW a \in Aliases, RemoveArtifact(a) PROVE MemoryInv'
  <2>1. settings[a].test \in Paths
    BY <1>5, Configured DEF RemoveArtifact, NameInv, TypeOK
  <2>2. \A p \in Places : p # settings[a].test => databases'[p] = databases[p]
    BY <1>5 DEF RemoveArtifact, Set, TypeOK
  <2>3. \A b \in Aliases : handle'[b] = handle[b] \/ handle[b] = settings[a].test
    BY <1>5 DEF RemoveArtifact
  <2> QED
    BY <2>1, <2>2, <2>3, PlacesAre DEF MemoryInv, Places
<1>6. CASE ExitProcess
  BY <1>6 DEF ExitProcess, MemoryInv, Places
<1>7. ASSUME UNCHANGED databases PROVE MemoryInv' \/ \E a \in Aliases : OpenFails(a) \/ ForceClose(a)
                                       \/ RemoveArtifact(a) \/ Open(a) \/ ExitProcess
  <2>1. \/ UNCHANGED handle
        \/ ExitProcess
        \/ \E a \in Aliases : OpenFails(a) \/ ForceClose(a) \/ RemoveArtifact(a) \/ Open(a)
    BY DEF Next, AliasStep, vars, wrappers, ConfigureJournal, VerifyJournal, Opened, Close, OrdinaryClose,
           CreateTestDb, DestroyTestDb, SetAsTestMirror, CloseForSwitch, UseTestDb, UseApplicationDb, Write,
           Checkpoint
  <2> QED
    BY <1>6, <1>7, <2>1 DEF MemoryInv
<1> QED
  BY <1>1, <1>2, <1>3, <1>4, <1>5, <1>6, <1>7, StepsOfDatabases
--------------------------------------------------------------------------------
(* The journal mode.                                                           *)

\* From _configure_journal_mode() on, the database is in the mode that was asked for.
MvccInv ==
  \A a \in Aliases :
    settings[a].journal_mode = "MVCC" /\ (connecting[a] = "enforcement" \/ connection[a] \in Places)
      => handle[a] \in mvcc

LEMMA MvccStep ==
  ASSUME TypeInv, ConnectionInv, MvccInv, [Next]_vars
  PROVE  MvccInv'
<1> USE DEF TypeInv
<1>1. ASSUME UNCHANGED <<settings, handle, connection, connecting>>, mvcc \subseteq mvcc' PROVE MvccInv'
  BY <1>1 DEF MvccInv
<1>2. ASSUME NEW a \in Aliases, UNCHANGED settings, mvcc \subseteq mvcc',
             \A b \in Aliases : b # a => /\ handle'[b] = handle[b] /\ connection'[b] = connection[b]
                                         /\ connecting'[b] = connecting[b],
             settings[a].journal_mode = "MVCC" /\ (connecting'[a] = "enforcement" \/ connection'[a] \in Places)
               => handle'[a] \in mvcc'
      PROVE  MvccInv'
  BY <1>2 DEF MvccInv
<1>3. ASSUME NEW a \in Aliases, Open(a) PROVE MvccInv'
  <2>1. /\ UNCHANGED settings /\ mvcc' = mvcc
        /\ \A b \in Aliases : b # a => /\ handle'[b] = handle[b] /\ connection'[b] = connection[b]
                                       /\ connecting'[b] = connecting[b]
        /\ connecting'[a] = "journal" /\ connection'[a] = "none"
    BY <1>3 DEF Open, Set, TypeOK
  <2> QED
    BY <1>2, <2>1, PlacesAre
<1>4. ASSUME NEW a \in Aliases, ConfigureJournal(a) \/ VerifyJournal(a) PROVE MvccInv'
  <2>1. /\ UNCHANGED <<settings, handle, connection>> /\ mvcc \subseteq mvcc'
        /\ \A b \in Aliases : b # a => connecting'[b] = connecting[b]
        /\ connecting[a] # "idle"
    BY <1>4 DEF ConfigureJournal, VerifyJournal, Set, TypeOK, wrappers, storage
  <2>2. connection[a] = "none"
    BY <2>1 DEF ConnectionInv, HandleInv
  <2>3. settings[a].journal_mode = "MVCC" /\ connecting'[a] = "enforcement" => handle[a] \in mvcc
    BY <1>4 DEF ConfigureJournal, VerifyJournal, Verified, Set, TypeOK
  <2> QED
    BY <1>2, <2>1, <2>2, <2>3, PlacesAre
<1>5. ASSUME NEW a \in Aliases, Opened(a) PROVE MvccInv'
  <2>1. /\ UNCHANGED <<settings, handle>> /\ mvcc' = mvcc
        /\ \A b \in Aliases : b # a => connection'[b] = connection[b] /\ connecting'[b] = connecting[b]
        /\ connecting[a] = "enforcement"
    BY <1>5 DEF Opened, Set, TypeOK, storage
  <2> QED
    BY <1>2, <2>1 DEF MvccInv
<1>6. ASSUME NEW a \in Aliases,
             OpenFails(a) \/ (ForceClose(a) /\ UNCHANGED <<settings, connecting>> /\ connecting[a] = "idle")
      PROVE  MvccInv'
  <2>1. connection'[a] = "none" /\ connecting'[a] = "idle"
    BY <1>6 DEF ForceClose, OpenFails, Set, TypeOK, ConnectionInv, HandleInv
  <2>2. /\ UNCHANGED settings
        /\ \A b \in Aliases : b # a => connection'[b] = connection[b] /\ connecting'[b] = connecting[b]
    BY <1>6 DEF ForceClose, OpenFails, Set, TypeOK
  <2>3. ASSUME NEW b \in Aliases, b # a PROVE handle'[b] = handle[b] /\ (handle[b] \in mvcc => handle[b] \in mvcc')
    <3>1. handle[b] # a
      BY <2>3, HandleIs
    <3> QED
      BY <1>6, <2>3, <3>1, ClosingKeeps
  <2> QED
    BY <2>1, <2>2, <2>3, PlacesAre DEF MvccInv
<1>7. ASSUME NEW a \in Aliases, Close(a) PROVE MvccInv'
  <2>1. CASE UNCHANGED <<handle, connection, databases, mvcc>>
    BY <1>1, <1>7, <2>1 DEF Close
  <2>2. CASE ForceClose(a)
    BY <1>6, <1>7, <2>2 DEF Close, Ready
  <2> QED
    BY <1>7, <2>1, <2>2 DEF Close, OrdinaryClose
<1>8. ASSUME NEW a \in Aliases,
             \/ \E keep \in BOOLEAN, answer \in {"yes", "no"} : CreateTestDb(a, keep, answer)
             \/ DestroyTestDb(a)
             \/ \E primary \in Aliases : SetAsTestMirror(a, primary)
      PROVE  MvccInv'
  BY <1>6, <1>8 DEF CreateTestDb, DestroyTestDb, SetAsTestMirror, CloseForSwitch, Ready
<1>9. ASSUME NEW a \in Aliases, RemoveArtifact(a) PROVE MvccInv'
  <2>1. phase[a] \in Switching /\ UNCHANGED <<settings, connecting>>
    BY <1>9 DEF RemoveArtifact, TypeOK
  <2>2. \A b \in Aliases : connecting[b] = "idle" /\ handle[b] = connection[b]
    BY <2>1 DEF ConnectionInv, HandleInv, NoHandleLeaks
  <2>3. \A b \in Aliases :
          \/ connection'[b] = "unlinked"
          \/ /\ connection'[b] = connection[b] /\ handle'[b] = handle[b]
             /\ handle[b] \in mvcc => handle[b] \in mvcc'
    BY <1>9, <2>2 DEF RemoveArtifact
  <2> QED
    BY <2>1, <2>2, <2>3, PlacesAre DEF MvccInv
<1>10. CASE ExitProcess
  <2>1. \A b \in Aliases : connection'[b] = "none" /\ connecting'[b] = "idle"
    BY <1>10 DEF ExitProcess
  <2> QED
    BY <2>1, PlacesAre DEF MvccInv
<1>11. ASSUME NEW a \in Aliases, Write(a) \/ UseTestDb(a) \/ UseApplicationDb(a) PROVE MvccInv'
  BY <1>1, <1>11 DEF Write, UseTestDb, UseApplicationDb, wrappers, storage
<1>12. CASE UNCHANGED vars \/ \E path \in Paths : Checkpoint(path)
  BY <1>1, <1>12 DEF vars, Checkpoint, wrappers, storage
<1> QED
  BY <1>3, <1>4, <1>5, <1>6, <1>7, <1>8, <1>9, <1>10, <1>11, <1>12 DEF Next, AliasStep
--------------------------------------------------------------------------------
(* The rows.                                                                   *)

\* A write adds the row of the application or of a test to the database of its connection;
\* no other step adds one.
LEMMA WriteAdds ==
  ASSUME TypeInv, NEW a \in Aliases, Write(a)
  PROVE  /\ connection[a] \in Places /\ phase[a] \notin Switching /\ UNCHANGED <<settings, tests>>
         /\ \A p \in Places :
              Visible(p)' = IF p = connection[a]
                            THEN Visible(p) \union {IF phase[a] = "application" THEN "app" ELSE "test"}
                            ELSE Visible(p)
         /\ wrote' = IF phase[a] = "application" THEN wrote \union ({connection[a]} \ Aliases) ELSE wrote
<1> USE DEF TypeInv
<1>1. connection[a] \in Places /\ phase[a] \notin Switching /\ UNCHANGED <<settings, tests>>
  BY DEF Write, Ready
<1> DEFINE place == connection[a]
           row   == IF phase[a] = "application" THEN "app" ELSE "test"
<1>2. PICK part \in Part :
        /\ Set(databases, place, Holding(place, part, Held(place, part) \union {row}))
        /\ wrote' = IF row = "app" THEN wrote \union ({place} \ Aliases) ELSE wrote
  BY DEF Write, Part
<1>3. /\ UNION Range(Holding(place, part, Held(place, part) \union {row})) = Visible(place) \union {row}
      /\ Holding(place, part, Held(place, part) \union {row}) \in Database
  <2>1. databases[place] \in Database
    BY <1>1 DEF TypeOK
  <2>2. Held(place, part) \union {row} \in SUBSET Writer /\ Held(place, part) \subseteq Visible(place)
    BY <2>1, Contents DEF Writer
  <2> QED
    BY <2>1, <2>2, HoldingIs
<1>4. \A p \in Places :
        databases'[p] = IF p = place THEN Holding(place, part, Held(place, part) \union {row}) ELSE databases[p]
  BY <1>2, <1>3, SetType
<1>5. \A p \in Places : Visible(p)' = IF p = place THEN Visible(p) \union {row} ELSE Visible(p)
  BY <1>1, <1>3, <1>4 DEF Visible
<1> QED
  BY <1>1, <1>2, <1>5

\* The steps that only move rows or remove them.
LEMMA RowsShrink ==
  ASSUME TypeInv, ConnectionInv, NameInv, [Next]_vars, ~ExitProcess, \A a \in Aliases : ~Write(a)
  PROVE  /\ \A p \in Places : Visible(p)' \subseteq Visible(p)
         /\ \A p \in Paths : Visible(p)' = Visible(p) \/ \E a \in Aliases : p = settings[a].test
         /\ wrote' = wrote /\ UNCHANGED settings
<1> USE DEF TypeInv
<1>1. wrote' = wrote /\ UNCHANGED settings
  BY DEF Next, AliasStep, Open, ConfigureJournal, VerifyJournal, Opened, OpenFails, Close, CreateTestDb,
         RemoveArtifact, UseTestDb, DestroyTestDb, UseApplicationDb, SetAsTestMirror, Checkpoint, vars, storage
<1>2. CASE UNCHANGED databases
  BY <1>1, <1>2 DEF Visible
<1>3. ASSUME NEW a \in Aliases, Open(a) PROVE \A p \in Places : Visible(p)' = Visible(p)
  <2> DEFINE new == Holding(Place(a), "main", Held(Place(a), "main"))
  <2>1. Place(a) \in Places /\ databases[Place(a)] \in Database
    BY PlaceIs DEF TypeOK
  <2>2. Held(Place(a), "main") \in SUBSET Writer /\ Held(Place(a), "main") \subseteq Visible(Place(a))
    BY <2>1, Contents
  <2>3. new \in Database /\ UNION Range(new) = Visible(Place(a))
    BY <2>1, <2>2, HoldingIs DEF Part
  <2>4. \A p \in Places : databases'[p] = IF p = Place(a) THEN new ELSE databases[p]
    BY <1>3, <2>3, SetType DEF Open
  <2> QED
    BY <2>3, <2>4 DEF Visible
<1>4. ASSUME NEW path \in Paths, Checkpoint(path) PROVE \A p \in Places : Visible(p)' = Visible(p)
  <2> DEFINE new == [part \in {"main"} |-> Visible(path)]
  <2>1. Visible(path) \in SUBSET Writer
    BY Contents DEF Places, TypeOK
  <2>2. new \in Database /\ UNION Range(new) = Visible(path)
    BY <2>1, SmallDatabases
  <2>3. \A p \in Places : databases'[p] = IF p = path THEN new ELSE databases[p]
    BY <1>4, <2>2, SetType DEF Checkpoint
  <2> QED
    BY <2>2, <2>3 DEF Visible
<1>5. ASSUME NEW a \in Aliases, ForceClose(a) \/ OpenFails(a)
      PROVE  /\ \A p \in Places : Visible(p)' \subseteq Visible(p)
             /\ \A p \in Paths : Visible(p)' = Visible(p)
  <2>1. \A p \in Places : databases'[p] = << >> \/ databases'[p] = databases[p]
    BY <1>5, ClosingKeeps
  <2>2. \A p \in Paths : databases'[p] = databases[p]
    BY <1>5, ClosingKeeps, PlacesAre DEF Places
  <2> QED
    BY <2>1, <2>2, SmallDatabases DEF Visible
<1>6. ASSUME NEW a \in Aliases, RemoveArtifact(a)
      PROVE  \A p \in Places : IF p = settings[a].test THEN Visible(p)' \subseteq Visible(p)
                                                      ELSE Visible(p)' = Visible(p)
  <2> DEFINE path == settings[a].test
             new  == Restrict(databases[path], DOMAIN databases[path] \ {Head(removing[a])})
  <2>1. path \notin Places \/ (new \in Database /\ UNION Range(new) \subseteq Visible(path))
    BY RestrictIs DEF TypeOK
  <2>2. \A p \in Places : databases'[p] = IF p = path THEN new ELSE databases[p]
    BY <1>6, <2>1, SetType DEF RemoveArtifact
  <2> QED
    BY <2>1, <2>2 DEF Visible
<1> QED
  BY <1>1, <1>2, <1>3, <1>4, <1>5, <1>6, StepsOfDatabases DEF Places

LEMMA ExitRows ==
  ASSUME TypeInv, ExitProcess
  PROVE  /\ \A a \in Aliases : Visible(a)' = {}
         /\ \A p \in Paths : "app" \in Visible(p) => "app" \in Visible(p)'
         /\ \A p \in Paths : Visible(p) \subseteq {"app"} => Visible(p)' \subseteq {"app"}
<1> USE DEF TypeInv
<1>1. \A a \in Aliases : Visible(a)' = {}
  BY SmallDatabases DEF ExitProcess, Visible, Places
<1>2. ASSUME NEW p \in Paths
      PROVE  /\ DOMAIN databases'[p] = DOMAIN databases[p]
             /\ \A part \in DOMAIN databases[p] :
                  databases'[p][part] = {IF r = "test" THEN "old" ELSE r : r \in databases[p][part]}
  BY PlacesAre DEF ExitProcess, Places
<1>3. ASSUME NEW p \in Paths, "app" \in Visible(p) PROVE "app" \in Visible(p)'
  <2>1. PICK part \in DOMAIN databases[p] : "app" \in databases[p][part]
    BY <1>3 DEF Visible, Range
  <2>2. "app" \in databases'[p][part]
    BY <1>2, <2>1
  <2> QED
    BY <1>2, <2>1, <2>2 DEF Visible, Range
<1>4. ASSUME NEW p \in Paths, Visible(p) \subseteq {"app"} PROVE Visible(p)' \subseteq {"app"}
  <2>1. \A part \in DOMAIN databases[p] : databases[p][part] \subseteq {"app"}
    BY <1>4 DEF Visible, Range
  <2>2. \A part \in DOMAIN databases[p] : databases'[p][part] \subseteq {"app"}
    BY <1>2, <2>1
  <2> QED
    BY <1>2, <2>2 DEF Visible, Range
<1> QED
  BY <1>1, <1>3, <1>4
--------------------------------------------------------------------------------
(* The phases.                                                                 *)

LEMMA PhaseStep ==
  ASSUME TypeInv, [Next]_vars, ~ExitProcess, NEW b \in Aliases, phase'[b] # phase[b]
  PROVE  \/ phase'[b] = "created" /\ \E keep \in BOOLEAN, answer \in {"yes", "no"} : CreateTestDb(b, keep, answer)
         \/ phase'[b] = "testing" /\ UseTestDb(b)
         \/ phase'[b] = "destroyed" /\ DestroyTestDb(b)
         \/ phase'[b] = "application" /\ UseApplicationDb(b)
         \/ phase'[b] = "mirror"
<1> USE DEF TypeInv
<1>1. PICK a \in Aliases :
        \/ \E keep \in BOOLEAN, answer \in {"yes", "no"} : CreateTestDb(a, keep, answer)
        \/ UseTestDb(a) \/ DestroyTestDb(a) \/ UseApplicationDb(a)
        \/ \E primary \in Aliases : SetAsTestMirror(a, primary)
  BY DEF Next, AliasStep, Open, ConfigureJournal, VerifyJournal, Opened, OpenFails, Write, Close,
         RemoveArtifact, Checkpoint, vars, tests
<1>2. CASE \E keep \in BOOLEAN, answer \in {"yes", "no"} : CreateTestDb(a, keep, answer)
  <2>1. Set(phase, a, "created")
    BY <1>2 DEF CreateTestDb
  <2> QED
    BY <1>2, <2>1 DEF Set, TypeOK
<1>3. CASE UseTestDb(a)
  <2>1. Set(phase, a, "testing")
    BY <1>3 DEF UseTestDb
  <2> QED
    BY <1>3, <2>1 DEF Set, TypeOK
<1>4. CASE DestroyTestDb(a)
  <2>1. Set(phase, a, "destroyed")
    BY <1>4 DEF DestroyTestDb
  <2> QED
    BY <1>4, <2>1 DEF Set, TypeOK
<1>5. CASE UseApplicationDb(a)
  <2>1. Set(phase, a, "application")
    BY <1>5 DEF UseApplicationDb
  <2> QED
    BY <1>5, <2>1 DEF Set, TypeOK
<1>6. CASE \E primary \in Aliases : SetAsTestMirror(a, primary)
  <2>1. Set(phase, a, "mirror")
    BY <1>6 DEF SetAsTestMirror
  <2> QED
    BY <2>1 DEF Set, TypeOK
<1> QED
  BY <1>1, <1>2, <1>3, <1>4, <1>5, <1>6
--------------------------------------------------------------------------------
(* The rows of an application.                                                 *)

\* ApplicationUntouched, with a database in memory that is closed.
ApplicationRows ==
  \A a \in Aliases :
    /\ settings[a].name # Memory =>
         /\ Visible(settings[a].name) \subseteq {"app"}
         /\ settings[a].name \in wrote => "app" \in Visible(settings[a].name)
    /\ phase[a] = "application" => Visible(a) \subseteq {"app"}

\* Only an application writes to the database of an application.
LEMMA WritersOfApplications ==
  ASSUME TypeOK, ConnectionInv, NameInv, NEW a \in Aliases, NEW b \in Aliases, phase[a] \notin Switching,
         connection[a] = settings[b].name, settings[b].name # Memory
  PROVE  phase[a] = "application"
<1>1. settings[b].name \in Paths
  BY Configured DEF TypeOK
<1>2. connection[a] = Place(a)
  BY <1>1, DatabasesAssumption DEF ConnectionInv, ConnectionsFollowNames
<1>3. NAME[a] = settings[b].name
  BY <1>1, <1>2, PlaceIs, PlacesAre DEF TypeOK
<1>4. \A c \in Aliases : settings[c].test = NAME[a] => NAME[a] = Memory
  BY <1>3, Configured DEF TypeOK
<1>5. phase[a] # "testing" /\ phase[a] # "mirror"
  BY <1>1, <1>3, <1>4 DEF NameInv
<1> QED
  BY <1>5 DEF TypeOK

LEMMA ApplicationStep ==
  ASSUME TypeInv, ConnectionInv, NameInv, MemoryInv, ApplicationRows, [Next]_vars, ConnectionInv', MemoryInv'
  PROVE  ApplicationRows'
<1> USE DEF TypeInv
<1>0. /\ \A a \in Aliases : settings[a].name # Memory => settings[a].name \in Paths
      /\ Paths \subseteq Places /\ Aliases \subseteq Places
  BY Configured DEF TypeOK, Places
<1>1. ASSUME NEW a \in Aliases, Write(a) PROVE ApplicationRows'
  <2> DEFINE row == IF phase[a] = "application" THEN "app" ELSE "test"
  <2>1. /\ connection[a] \in Places /\ phase[a] \notin Switching /\ UNCHANGED <<settings, phase>>
        /\ \A p \in Places : Visible(p)' = IF p = connection[a] THEN Visible(p) \union {row} ELSE Visible(p)
        /\ wrote' = IF phase[a] = "application" THEN wrote \union ({connection[a]} \ Aliases) ELSE wrote
    BY <1>1, WriteAdds DEF tests
  <2>2. ASSUME NEW b \in Aliases, settings[b].name # Memory
        PROVE  /\ Visible(settings[b].name)' \subseteq {"app"}
               /\ settings[b].name \in wrote' => "app" \in Visible(settings[b].name)'
    <3>1. connection[a] = settings[b].name => phase[a] = "application"
      BY <2>1, <2>2, WritersOfApplications
    <3>2. settings[b].name \in Places
      BY <1>0, <2>2
    <3> QED
      BY <2>1, <2>2, <3>1, <3>2 DEF ApplicationRows
  <2>3. ASSUME NEW b \in Aliases, phase[b] = "application" PROVE Visible(b)' \subseteq {"app"}
    <3>1. connection[a] = b => a = b
      BY <2>1, HandleIs
    <3> QED
      BY <1>0, <2>1, <2>3, <3>1 DEF ApplicationRows
  <2> QED
    BY <2>1, <2>2, <2>3 DEF ApplicationRows
<1>2. CASE ExitProcess
  <2>1. UNCHANGED <<settings, wrote>>
    BY <1>2 DEF ExitProcess
  <2> QED
    BY <1>0, <1>2, <2>1, ExitRows DEF ApplicationRows
<1>3. CASE ~ExitProcess /\ \A a \in Aliases : ~Write(a)
  <2>1. /\ \A p \in Places : Visible(p)' \subseteq Visible(p)
        /\ \A p \in Paths : Visible(p)' = Visible(p) \/ \E a \in Aliases : p = settings[a].test
        /\ wrote' = wrote /\ UNCHANGED settings
    BY <1>3, RowsShrink
  <2>2. ASSUME NEW b \in Aliases, settings[b].name # Memory
        PROVE  Visible(settings[b].name)' = Visible(settings[b].name)
    <3>1. \A a \in Aliases : settings[a].test # settings[b].name
      BY <2>2, Configured DEF TypeOK
    <3> QED
      BY <1>0, <2>1, <2>2, <3>1
  <2>3. ASSUME NEW b \in Aliases, phase'[b] = "application" PROVE Visible(b)' \subseteq {"app"}
    <3>1. CASE phase[b] = "application"
      BY <1>0, <2>1, <3>1 DEF ApplicationRows
    <3>2. CASE UseApplicationDb(b)
      <4>1. connection[b] = "none" /\ connecting[b] = "idle" /\ UNCHANGED <<handle, databases>>
        BY <3>2 DEF UseApplicationDb, Switching, ConnectionInv, HandleInv, storage
      <4>2. handle[b] # b
        BY <4>1, HandleIs, DatabasesAssumption
      <4> QED
        BY <4>1, <4>2, SmallDatabases DEF MemoryInv, Visible
    <3>3. phase[b] = "application" \/ UseApplicationDb(b)
      BY <1>3, <2>3, PhaseStep
    <3> QED
      BY <3>1, <3>2, <3>3
  <2> QED
    BY <2>1, <2>2, <2>3 DEF ApplicationRows
<1> QED
  BY <1>1, <1>2, <1>3
--------------------------------------------------------------------------------
(* The rows of a test.                                                         *)

TestPlace(a) == IF settings[a].test = Memory THEN a ELSE settings[a].test

\* What is still to be removed is all that a test database has, and when its main file is
\* gone nothing is open on it; and a test finds its own rows only.
TestRows ==
  \A a \in Aliases : ~keepdb[a] =>
    /\ phase[a] = "created" /\ settings[a].test # Memory =>
         /\ DOMAIN databases[settings[a].test] \subseteq Range(removing[a])
         /\ removing[a] # Artifacts => \A b \in Aliases : handle[b] # settings[a].test
    /\ phase[a] = "testing" => Visible(TestPlace(a)) \subseteq {"test"}

\* No application writes to a test database.
LEMMA WritersOfTests ==
  ASSUME TypeOK, ConnectionInv, NameInv, NEW a \in Aliases, NEW b \in Aliases, phase[b] = "testing",
         connection[a] = TestPlace(b)
  PROVE  phase[a] # "application"
<1>1. CASE settings[b].test = Memory
  <2>1. a = b
    BY <1>1, HandleIs DEF TestPlace, Places
  <2> QED
    BY <2>1
<1>2. CASE settings[b].test # Memory
  <2>1. settings[b].test \in Paths /\ connection[a] = settings[b].test
    BY <1>2, Configured DEF TypeOK, TestPlace
  <2>2. connection[a] = Place(a)
    BY <2>1, DatabasesAssumption DEF ConnectionInv, ConnectionsFollowNames
  <2>3. NAME[a] = settings[b].test
    BY <2>1, <2>2, PlaceIs, PlacesAre DEF TypeOK
  <2>4. settings[a].name # settings[b].test
    BY <1>2, Configured DEF TypeOK
  <2> QED
    BY <2>3, <2>4 DEF NameInv
<1> QED
  BY <1>1, <1>2

\* An alias that is not created or destroyed by a step keeps its leave to keep its database.
LEMMA KeepStep ==
  ASSUME TypeInv, [Next]_vars, ~ExitProcess, NEW b \in Aliases,
         \A keep \in BOOLEAN, answer \in {"yes", "no"} : ~CreateTestDb(b, keep, answer)
  PROVE  keepdb'[b] = keepdb[b]
<1>1. ASSUME NEW a \in Aliases, NEW keep \in BOOLEAN, NEW answer \in {"yes", "no"}, CreateTestDb(a, keep, answer)
      PROVE  keepdb'[b] = keepdb[b]
  BY <1>1 DEF CreateTestDb, Set, TypeInv, TypeOK
<1>2. UNCHANGED keepdb \/ \E a \in Aliases, keep \in BOOLEAN, answer \in {"yes", "no"} : CreateTestDb(a, keep, answer)
  BY DEF Next, AliasStep, Open, ConfigureJournal, VerifyJournal, Opened, OpenFails, Write, Close,
         RemoveArtifact, UseTestDb, DestroyTestDb, UseApplicationDb, SetAsTestMirror, Checkpoint, vars, tests
<1> QED
  BY <1>1, <1>2

\* While artifacts are removed, nothing else happens to a test database.
LEMMA RemovalStep ==
  ASSUME TypeInv, ConnectionInv, NameInv, TestRows, [Next]_vars, ~ExitProcess,
         NEW b \in Aliases, phase[b] = "created", phase'[b] = "created", ~keepdb[b], settings[b].test # Memory
  PROVE  /\ DOMAIN databases'[settings[b].test] \subseteq Range(removing'[b])
         /\ removing'[b] # Artifacts => \A c \in Aliases : handle'[c] # settings[b].test
<1> USE DEF TypeInv
<1> DEFINE path == settings[b].test
<1>0. /\ DOMAIN databases[path] \subseteq Range(removing[b])
      /\ removing[b] # Artifacts => \A c \in Aliases : handle[c] # path
      /\ \A c \in Aliases : connecting[c] = "idle" /\ ~Ready
      /\ path \in Places /\ path # "unlinked"
  <2>1. path \in Places /\ path # "unlinked"
    BY Configured, DatabasesAssumption DEF TypeOK, Places
  <2> QED
    BY <2>1 DEF TestRows, ConnectionInv, HandleInv, Switching, Ready
<1>1. \/ UNCHANGED <<databases, removing, handle>>
      \/ \E a \in Aliases : RemoveArtifact(a)
      \/ \E p \in Paths : Checkpoint(p)
  <2>1. \A a \in Aliases, keep \in BOOLEAN, answer \in {"yes", "no"}, primary \in Aliases :
          /\ ~Open(a) /\ ~Write(a) /\ ~Close(a)
          /\ ~CreateTestDb(a, keep, answer) /\ ~DestroyTestDb(a) /\ ~SetAsTestMirror(a, primary)
    BY <1>0 DEF Open, Write, Close, CreateTestDb, DestroyTestDb, SetAsTestMirror
  <2>2. \A a \in Aliases : ~ConfigureJournal(a) /\ ~VerifyJournal(a) /\ ~Opened(a) /\ ~OpenFails(a)
    BY <1>0 DEF ConfigureJournal, VerifyJournal, Opened, OpenFails
  <2>3. \A a \in Aliases : UseTestDb(a) \/ UseApplicationDb(a) => UNCHANGED <<databases, removing, handle>>
    BY DEF UseTestDb, UseApplicationDb, storage
  <2>4. ASSUME NEW a \in Aliases, AliasStep(a)
        PROVE  UNCHANGED <<databases, removing, handle>> \/ RemoveArtifact(a)
    BY <2>1, <2>2, <2>3, <2>4 DEF AliasStep
  <2> QED
    BY <2>4 DEF Next, vars, storage, wrappers, tests
<1>2. CASE UNCHANGED <<databases, removing, handle>>
  BY <1>0, <1>2
<1>3. ASSUME NEW p \in Paths, Checkpoint(p)
      PROVE  /\ DOMAIN databases'[path] \subseteq Range(removing'[b])
             /\ removing'[b] # Artifacts => \A c \in Aliases : handle'[c] # path
  <2>1. UNCHANGED <<removing, handle>> /\ \E c \in Aliases : handle[c] = p
    BY <1>3 DEF Checkpoint, wrappers, tests
  <2>2. CASE p = path
    <3>1. removing[b] = Artifacts
      BY <1>0, <2>1, <2>2
    <3>2. DOMAIN databases'[path] = {"main"} /\ Range(removing[b]) = Part
      BY <1>0, <1>3, <2>2, <3>1, RemainingParts DEF Checkpoint, Set, TypeOK
    <3> QED
      BY <2>1, <3>1, <3>2 DEF Part
  <2>3. CASE p # path
    <3>1. databases'[path] = databases[path]
      BY <1>0, <1>3, <2>3 DEF Checkpoint, Set, TypeOK
    <3> QED
      BY <1>0, <2>1, <3>1
  <2> QED
    BY <2>2, <2>3
<1>4. ASSUME NEW a \in Aliases, RemoveArtifact(a), a # b
      PROVE  /\ DOMAIN databases'[path] \subseteq Range(removing'[b])
             /\ removing'[b] # Artifacts => \A c \in Aliases : handle'[c] # path
  <2>1. settings[a].test # path
    BY <1>4, Configured DEF TypeOK
  <2>2. databases'[path] = databases[path] /\ removing'[b] = removing[b]
    BY <1>0, <1>4, <2>1 DEF RemoveArtifact, Set, TypeOK
  <2>3. \A c \in Aliases : handle'[c] \in {handle[c], "unlinked"}
    BY <1>4 DEF RemoveArtifact
  <2> QED
    BY <1>0, <2>2, <2>3
<1>5. ASSUME RemoveArtifact(b)
      PROVE  /\ DOMAIN databases'[path] \subseteq Range(removing'[b])
             /\ removing'[b] # Artifacts => \A c \in Aliases : handle'[c] # path
  <2> DEFINE part == Head(removing[b])
  <2>1. removing'[b] = Tail(removing[b]) /\ removing[b] # <<>> /\ removing[b] \in Remaining
    BY <1>5 DEF RemoveArtifact, Set
  <2>2. Range(removing'[b]) = Range(removing[b]) \ {part} /\ (part = "main" <=> removing[b] = Artifacts)
    BY <2>1, RemainingIs
  <2>3. DOMAIN databases'[path] = DOMAIN databases[path] \ {part}
    <3>1. databases'[path] = Restrict(databases[path], DOMAIN databases[path] \ {part})
      BY <1>0, <1>5 DEF RemoveArtifact, Set, TypeOK
    <3> QED
      BY <3>1 DEF Restrict
  <2>4. \A c \in Aliases : handle'[c] = IF part = "main" /\ handle[c] = path THEN "unlinked" ELSE handle[c]
    BY <1>5 DEF RemoveArtifact
  <2> QED
    BY <1>0, <2>2, <2>3, <2>4
<1> QED
  BY <1>1, <1>2, <1>3, <1>4, <1>5

LEMMA TestStep ==
  ASSUME TypeInv, ConnectionInv, NameInv, MemoryInv, TestRows, [Next]_vars, TypeInv'
  PROVE  TestRows'
<1> USE DEF TypeInv
<1>1. CASE ExitProcess
  <2>1. \A b \in Aliases : phase'[b] = "application"
    BY <1>1 DEF ExitProcess
  <2> QED
    BY <2>1 DEF TestRows
<1>2. CASE ~ExitProcess
  <2>0. UNCHANGED settings
    <3>1. ASSUME NEW a \in Aliases, Write(a) PROVE UNCHANGED settings
      BY <3>1 DEF Write
    <3> QED
      BY <1>2, <3>1, RowsShrink
  <2>1. ASSUME NEW b \in Aliases, ~keepdb'[b], phase'[b] = "created", settings[b].test # Memory
        PROVE  /\ DOMAIN databases'[settings[b].test] \subseteq Range(removing'[b])
               /\ removing'[b] # Artifacts => \A c \in Aliases : handle'[c] # settings[b].test
    <3>1. CASE \E keep \in BOOLEAN, answer \in {"yes", "no"} : CreateTestDb(b, keep, answer)
      <4>1. removing'[b] = Artifacts
        BY <2>1, <3>1 DEF CreateTestDb, Set, TypeOK
      <4>2. databases'[settings[b].test] \in Database
        BY <2>0, <2>1, Configured DEF TypeOK, Places
      <4>3. DOMAIN databases'[settings[b].test] \subseteq Part
        BY <4>2 DEF Database
      <4> QED
        BY <4>1, <4>3, RemainingParts
    <3>2. CASE ~ \E keep \in BOOLEAN, answer \in {"yes", "no"} : CreateTestDb(b, keep, answer)
      <4>1. phase[b] = "created"
        BY <1>2, <2>1, <3>2, PhaseStep
      <4>2. ~keepdb[b]
        BY <1>2, <2>1, <3>2, KeepStep
      <4> QED
        BY <1>2, <2>1, <4>1, <4>2, RemovalStep
    <3> QED
      BY <3>1, <3>2
  <2>2. ASSUME NEW b \in Aliases, ~keepdb'[b], phase'[b] = "testing"
        PROVE  Visible(TestPlace(b))' \subseteq {"test"}
    <3>0. TestPlace(b)' = TestPlace(b) /\ TestPlace(b) \in Places
      BY <2>0, Configured DEF TestPlace, TypeOK, Places
    <3>1. CASE UseTestDb(b)
      <4>1. /\ phase[b] = "created" /\ removing[b] = <<>> /\ keepdb'[b] = keepdb[b]
            /\ UNCHANGED databases
        BY <3>1 DEF UseTestDb, DoneRemoving, storage
      <4>2. CASE settings[b].test = Memory
        <5>1. connection[b] = "none" /\ connecting[b] = "idle"
          BY <4>1 DEF ConnectionInv, HandleInv, Switching
        <5>2. handle[b] # b
          BY <5>1, HandleIs, DatabasesAssumption
        <5> QED
          BY <3>0, <4>1, <4>2, <5>2, SmallDatabases DEF MemoryInv, Visible, TestPlace
      <4>3. CASE settings[b].test # Memory
        <5>1. DOMAIN databases[TestPlace(b)] = {}
          BY <2>2, <4>1, <4>3, RemainingParts DEF TestRows, TestPlace
        <5> QED
          BY <3>0, <4>1, <5>1 DEF Visible, Range
      <4> QED
        BY <4>2, <4>3
    <3>2. CASE ~UseTestDb(b)
      <4>1. phase[b] = "testing"
        BY <1>2, <2>2, <3>2, PhaseStep
      <4>2. keepdb'[b] = keepdb[b]
        <5>1. \A keep \in BOOLEAN, answer \in {"yes", "no"} : ~CreateTestDb(b, keep, answer)
          BY <4>1 DEF CreateTestDb
        <5> QED
          BY <1>2, <5>1, KeepStep
      <4>3. Visible(TestPlace(b)) \subseteq {"test"}
        BY <2>2, <4>1, <4>2 DEF TestRows
      <4>4. CASE \E a \in Aliases : Write(a)
        <5>1. PICK a \in Aliases : Write(a)
          BY <4>4
        <5>2. connection[a] = TestPlace(b) => phase[a] # "application"
          BY <4>1, WritersOfTests
        <5>3. Visible(TestPlace(b))' = IF TestPlace(b) = connection[a]
                THEN Visible(TestPlace(b)) \union {IF phase[a] = "application" THEN "app" ELSE "test"}
                ELSE Visible(TestPlace(b))
          BY <3>0, <5>1, WriteAdds DEF Visible
        <5> QED
          BY <4>3, <5>2, <5>3
      <4>5. CASE \A a \in Aliases : ~Write(a)
        <5>1. \A p \in Places : Visible(p)' \subseteq Visible(p)
          BY <1>2, <4>5, RowsShrink
        <5> QED
          BY <3>0, <4>3, <5>1 DEF Visible
      <4> QED
        BY <4>4, <4>5
    <3> QED
      BY <3>1, <3>2
  <2>3. \A b \in Aliases : TestPlace(b)' = TestPlace(b)
    BY <2>0 DEF TestPlace
  <2> QED
    BY <2>0, <2>1, <2>2, <2>3 DEF TestRows
<1> QED
  BY <1>1, <1>2
--------------------------------------------------------------------------------
(* The invariant, and the theorems.                                            *)

DatabaseInv ==
  /\ TypeInv /\ ConnectionInv
  /\ NameInv /\ MemoryInv
  /\ MvccInv
  /\ ApplicationRows /\ TestRows

LEMMA InitInv ==
  ASSUME Init
  PROVE  DatabaseInv
<1>1. \A place \in Places : Visible(place) = {} /\ databases[place] \in Database
  BY SmallDatabases DEF Init, Visible
<1>2. NAME \in [Aliases -> Paths \union {Memory}]
  BY DatabasesAssumption DEF Init, Alias
<1>3. TypeInv
  BY <1>1, <1>2 DEF Init, TypeInv, TypeOK, Handle, Remaining
<1>4. \A a \in Aliases : /\ handle[a] = "none" /\ connection[a] = "none" /\ connecting[a] = "idle"
                         /\ phase[a] = "application" /\ removing[a] = <<>> /\ NAME[a] = settings[a].name
  BY DEF Init
<1>5. "none" \notin Places
  BY PlacesAre
<1>6. ConnectionInv
  BY <1>4, <1>5 DEF ConnectionInv, HandleInv, NoHandleLeaks, ConnectionsFollowNames, Switching
<1>7. NameInv /\ MvccInv
  BY <1>4, <1>5 DEF NameInv, MvccInv
<1>8. MemoryInv
  BY DEF Init, MemoryInv, Places
<1>9. ApplicationRows
  <2>1. \A a \in Aliases : a \in Places /\ (settings[a].name # Memory => settings[a].name \in Places)
    BY Configured, <1>3 DEF TypeInv, TypeOK, Places
  <2>2. wrote = {}
    BY DEF Init
  <2> QED
    BY <1>1, <2>1, <2>2 DEF ApplicationRows
<1>10. TestRows
  BY <1>4 DEF TestRows
<1> QED
  BY <1>3, <1>6, <1>7, <1>8, <1>9, <1>10 DEF DatabaseInv

LEMMA NextInv ==
  ASSUME DatabaseInv, [Next]_vars
  PROVE  DatabaseInv'
<1> USE DEF DatabaseInv
<1>1. TypeInv'
  BY TypeStep DEF ConnectionInv
<1>2. ConnectionInv'
  BY ConnectionStep
<1>3. NameInv' /\ MvccInv'
  BY NameStep, MvccStep
<1>4. MemoryInv'
  BY MemoryStep
<1>5. ApplicationRows'
  BY <1>2, <1>4, ApplicationStep
<1>6. TestRows'
  BY <1>1, TestStep
<1> QED
  BY <1>1, <1>2, <1>3, <1>4, <1>5, <1>6

LEMMA Invariance == Spec => []DatabaseInv
<1>1. Init => DatabaseInv
  BY InitInv
<1>2. DatabaseInv /\ [Next]_vars => DatabaseInv'
  BY NextInv
<1> QED
  BY <1>1, <1>2, PTL DEF Spec

\* The variables of get_connection_params(), get_new_connection() and of the test databases
\* have the types that base.py and creation.py give them.
THEOREM DatabaseTypes == Spec => []TypeOK
<1>1. DatabaseInv => TypeOK
  BY DEF DatabaseInv, TypeInv
<1> QED
  BY <1>1, Invariance, PTL

\* get_new_connection() closes what it cannot hand out: whenever no connection is being set
\* up, a physical connection is the one of its wrapper.
THEOREM HandlesHaveOwners == Spec => []NoHandleLeaks
<1>1. DatabaseInv => NoHandleLeaks
  BY DEF DatabaseInv, ConnectionInv
<1> QED
  BY <1>1, Invariance, PTL

\* _create_test_db(), destroy_test_db() and set_as_test_mirror() close the connection before
\* NAME changes: no wrapper goes on with the database that it had before.
THEOREM SwitchesClose == Spec => []ConnectionsFollowNames
<1>1. DatabaseInv => ConnectionsFollowNames
  BY DEF DatabaseInv, ConnectionInv
<1> QED
  BY <1>1, Invariance, PTL

\* _configure_journal_mode() reads the mode back and get_connection_params() refuses
\* CONCURRENT without MVCC: who is connected has the journal mode it was configured with.
THEOREM ConnectedMeansVerified == Spec => []MvccIsVerified
<1>1. ASSUME DatabaseInv PROVE MvccIsVerified
  <2> SUFFICES ASSUME NEW a \in Aliases, connection[a] \in Places,
                      settings[a].journal_mode = "MVCC" \/ settings[a].transaction_mode = "CONCURRENT"
               PROVE  connection[a] \in mvcc
    BY DEF MvccIsVerified
  <2>1. handle[a] = connection[a]
    BY <1>1, HandleIs DEF DatabaseInv, TypeInv
  <2>2. Accepts(settings[a])
    BY <1>1, <2>1 DEF DatabaseInv, ConnectionInv, HandleInv
  <2>3. settings[a].journal_mode = "MVCC"
    BY <2>2 DEF Accepts
  <2> QED
    BY <1>1, <2>1, <2>3 DEF DatabaseInv, MvccInv
<1> QED
  BY <1>1, Invariance, PTL

\* _create_test_db() removes the file and its logs and closes a database in memory: a test
\* database that is not kept has nothing in it that the tests did not write.
THEOREM TestsStartAfresh == Spec => []TestsStartEmpty
<1>1. ASSUME DatabaseInv PROVE TestsStartEmpty
  <2> SUFFICES ASSUME NEW a \in Aliases, phase[a] = "testing", ~keepdb[a], connection[a] \in Places
               PROVE  Visible(connection[a]) \subseteq {"test"}
    BY DEF TestsStartEmpty
  <2>1. connection[a] = Place(a)
    BY <1>1, PlacesAre DEF DatabaseInv, ConnectionInv, ConnectionsFollowNames
  <2>2. NAME[a] = settings[a].test
    BY <1>1 DEF DatabaseInv, NameInv
  <2>3. connection[a] = TestPlace(a)
    BY <2>1, <2>2 DEF Place, is_in_memory, TestPlace
  <2> QED
    BY <1>1, <2>3 DEF DatabaseInv, TestRows
<1> QED
  BY <1>1, Invariance, PTL

\* Creating and destroying test databases never touches the database of an application: it
\* keeps what the application wrote, over any number of test runs that end at any moment.
THEOREM ApplicationsKeepTheirRows == Spec => []ApplicationUntouched
<1>1. DatabaseInv => ApplicationUntouched
  BY DEF DatabaseInv, ApplicationRows, ApplicationUntouched
<1> QED
  BY <1>1, Invariance, PTL
================================================================================
