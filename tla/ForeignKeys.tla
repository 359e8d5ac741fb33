------------------------------- MODULE ForeignKeys -----------------------------
(******************************************************************************)
(* Foreign keys while the engine does not enforce them, and while tables are  *)
(* flushed: check_constraints() in src/django_pyturso/base.py, which replaces *)
(* PRAGMA foreign_key_check, and sql_flush() with its reference graph in      *)
(* src/django_pyturso/operations.py, over what introspection.py reads.        *)
(*                                                                            *)
(* A schema gives every table its columns with their affinity, the place of   *)
(* each in the primary key (0: none), and its foreign keys.  Values are the   *)
(* ones that affinities tell apart: the number 1 and two texts that read as   *)
(* that number, of which only one is written like it.                         *)
(******************************************************************************)
EXTENDS Integers, Sequences, FiniteSets, SequencesExt

CONSTANTS
  Names,              \* how tables may be spelled
  Key,                \* _identifier_key(): what spellings have in common
  Schemas,
  Values,             \* of a row
  MaxRows             \* of a table

Null  == "NULL"
Value == {Null, "int 1", "text 1", "text 01"}

\* A schema as the engine's catalogue describes it: the columns of a primary key are numbered
\* from 1 on, and a foreign key has columns of its table and names those of its target.
Numbered(places) ==
  LET key == {c \in DOMAIN places : places[c] > 0} IN
  /\ places \in [DOMAIN places -> Nat]
  /\ IsFiniteSet(key) /\ {places[c] : c \in key} = 1..Cardinality(key)
  /\ \A c, d \in key : places[c] = places[d] => c = d

Catalogued(s) ==
  \A t \in DOMAIN s :
    /\ DOMAIN s[t].pk = DOMAIN s[t].affinity /\ Numbered(s[t].pk)
    /\ \A fk \in s[t].foreign :
         /\ fk.source \in Seq(DOMAIN s[t].affinity) \ {<<>>}
         /\ fk.target \in Names
         /\ \A u \in DOMAIN s : Key[u] = Key[fk.target] => fk.columns \in Seq(DOMAIN s[u].affinity)

ASSUME ForeignKeysAssumption ==
  /\ Key \in [Names -> Names]
  /\ Values \subseteq Value
  /\ MaxRows \in Nat
  /\ \A s \in Schemas :
       /\ DOMAIN s \subseteq Names
       /\ \A t, u \in DOMAIN s : Key[t] = Key[u] => t = u
       /\ Catalogued(s)

VARIABLES
  schema, rows,
  saved,              \* the rows before the transaction
  phase,
  outcome, checked,   \* what check_constraints() found in which tables
  roots,              \* tables whose references are still to be followed
  pending, seen,      \* of _references_graph_for_table()
  target_tables,
  deleting            \* tables still to be emptied

graph == <<roots, pending, seen, target_tables>>
vars  == <<schema, rows, saved, phase, outcome, checked, graph, deleting>>

Tables == DOMAIN schema

\* The values a column of an affinity can hold: the engine converts what is stored.
Apply(affinity, v) ==
  CASE affinity = "INTEGER" /\ v \in {"text 1", "text 01"} -> "int 1"
    [] affinity = "TEXT" /\ v = "int 1" -> "text 1"
    [] OTHER -> v

\* The engine looks tables up without regard to case.
Meant(n) == {t \in Tables : Key[t] = Key[n]}

Row(t) == {r \in [DOMAIN schema[t].affinity -> Values] : \A c \in DOMAIN r : r[c] = Apply(schema[t].affinity[c], r[c])}

KeyColumns(t) == {c \in DOMAIN schema[t].pk : schema[t].pk[c] > 0}

\* What a table may hold: keys are present and unique.
Content(t) ==
  {s \in SUBSET Row(t) :
     /\ Cardinality(s) <= MaxRows
     /\ \A r \in s, c \in KeyColumns(t) : r[c] # Null
     /\ KeyColumns(t) # {} => \A r, q \in s : (\A c \in KeyColumns(t) : r[c] = q[c]) => r = q}

Init ==
  /\ schema \in Schemas
  /\ rows = [t \in Tables |-> {}]
  /\ saved = rows
  /\ phase = "idle"
  /\ outcome = "none" /\ checked = {}
  /\ roots = {} /\ pending = {} /\ seen = {} /\ target_tables = {}
  /\ deleting = {}
--------------------------------------------------------------------------------
(* Introspection.                                                             *)

\* Mutant: a name is taken as it is spelled.
AsSpelled(n) == n

\* The table that a spelling means: table_names.get(_identifier_key(n), n).
Real(n) == IF Meant(n) = {} THEN n ELSE CHOOSE t \in Meant(n) : TRUE

get_primary_key_columns(t) ==
  CHOOSE s \in [1..Cardinality(KeyColumns(t)) -> KeyColumns(t)] :
    \A i, j \in DOMAIN s : i < j => schema[t].pk[s[i]] < schema[t].pk[s[j]]

\* _resolve_foreign_key_target_columns(), whose errors are CanCheck's.
TargetColumns(fk, t) == IF fk.columns # <<>> THEN fk.columns ELSE get_primary_key_columns(t)
--------------------------------------------------------------------------------
(* What the engine enforces: a row all of whose source columns have a value   *)
(* needs a row of the target that has the same after the target's affinities. *)

\* The columns that a foreign key refers to: position i of a key without names is place i.
Referred(fk, t) ==
  IF fk.columns # <<>> THEN fk.columns
  ELSE CHOOSE s \in [1 .. Len(fk.source) -> DOMAIN schema[t].pk] : \A i \in DOMAIN s : schema[t].pk[s[i]] = i

Refers(fk, child, t, parent) ==
  \A i \in DOMAIN fk.source :
    LET c == Referred(fk, t)[i]
    IN child[fk.source[i]] # Null /\ Apply(schema[t].affinity[c], child[fk.source[i]]) = parent[c]

WellFormed(fk) ==
  \E t \in Meant(fk.target) :
    \/ Len(fk.columns) = Len(fk.source)
    \/ fk.columns = <<>> /\ Cardinality(KeyColumns(t)) = Len(fk.source)

Dangling(t, fk, content) ==
  {child \in content[t] :
     /\ \A i \in DOMAIN fk.source : child[fk.source[i]] # Null
     /\ \A u \in Meant(fk.target) : \A parent \in content[u] : ~Refers(fk, child, u, parent)}

Broken(tables, content) == \E t \in tables : \E fk \in schema[t].foreign : Dangling(t, fk, content) # {}
--------------------------------------------------------------------------------
(* check_constraints()                                                        *)

\* The engine compares a column with a column: a numeric affinity wins.
Compared(p, pa, c, ca) ==
  IF "INTEGER" \in {pa, ca} THEN Apply("INTEGER", p) = Apply("INTEGER", c)
  ELSE IF "TEXT" \in {pa, ca} THEN Apply("TEXT", p) = Apply("TEXT", c) ELSE p = c

\* Mutant: the child's column keeps its affinity.
WithAffinity(p, pa, c, ca) == Compared(p, pa, c, ca)

\* "target = +source": an expression has no affinity.
Joins(p, pa, c, ca) == Compared(p, pa, c, "none")

\* "source IS NOT NULL AND ..."
AllValues(child, fk) == \A i \in DOMAIN fk.source : child[fk.source[i]] # Null

Target(fk) == CHOOSE t \in Meant(fk.target) : TRUE

CanCheck(fk) == Meant(fk.target) # {} /\ Len(TargetColumns(fk, Target(fk))) = Len(fk.source)

\* The query of _check_foreign_key().
Violations(t, fk) ==
  LET u == Target(fk)
      columns == TargetColumns(fk, u)
  IN {child \in rows[t] :
        /\ AllValues(child, fk)
        /\ ~\E parent \in rows[u] : \A i \in DOMAIN columns :
             /\ parent[columns[i]] # Null
             /\ Joins(parent[columns[i]], schema[u].affinity[columns[i]],
                      child[fk.source[i]], schema[t].affinity[fk.source[i]])}

\* One foreign key after the other; the first that fails ends it.
check_constraints(tables) ==
  LET bad(t, fk) == CanCheck(fk) /\ Violations(t, fk) # {}
      found == {IF ~CanCheck(fk) THEN "error" ELSE "violation" :
                  fk \in UNION {{k \in schema[t].foreign : ~CanCheck(k) \/ bad(t, k)} : t \in tables}}
  IN IF found = {} THEN {"passed"} ELSE found
--------------------------------------------------------------------------------
(* A transaction without enforcement: the rows of a table change, the         *)
(* constraints of some tables or of all are checked, and it ends.             *)

BeginEdit ==
  /\ phase = "idle"
  /\ phase' = "edit"
  /\ saved' = rows /\ outcome' = "none" /\ checked' = {}
  /\ UNCHANGED <<schema, rows, graph, deleting>>

Edit(t) ==
  /\ phase = "edit"
  /\ \E content \in Content(t) : content # rows[t] /\ rows' = [rows EXCEPT ![t] = content]
  /\ outcome' = "none" /\ checked' = {}
  /\ UNCHANGED <<schema, saved, phase, graph, deleting>>

Check(tables) ==
  /\ phase = "edit" /\ outcome = "none"
  /\ outcome' \in check_constraints(tables)
  /\ checked' = tables
  /\ UNCHANGED <<schema, rows, saved, phase, graph, deleting>>

\* The transaction is committed when all constraints hold, or undone by the error.
EndEdit ==
  /\ phase = "edit" /\ checked = Tables
  /\ phase' = "idle"
  /\ rows' = IF outcome = "passed" THEN rows ELSE saved
  /\ saved' = rows' /\ outcome' = "none" /\ checked' = {}
  /\ UNCHANGED <<schema, graph, deleting>>
--------------------------------------------------------------------------------
(* sql_flush(tables, allow_cascade=True) and execute_sql_flush(): first the   *)
(* tables are found, then they are emptied in one transaction, in any order   *)
(* (they are a set), with enforcement on.                                     *)

Flush(tables) ==
  /\ phase = "idle" /\ tables # {}
  /\ phase' = "graph"
  /\ roots' = tables /\ target_tables' = {} /\ pending' = {} /\ seen' = {}
  /\ saved' = rows
  /\ UNCHANGED <<schema, rows, outcome, checked, deleting>>

StartGraph(root) ==
  /\ phase = "graph" /\ pending = {} /\ root \in roots
  /\ roots' = roots \ {root}
  /\ pending' = {Real(root)} /\ seen' = {}
  /\ target_tables' = target_tables \union seen
  /\ UNCHANGED <<schema, rows, saved, phase, outcome, checked, deleting>>

\* Mutant: tables are followed again.
NeverSeen(t) == FALSE

Seen(t) == t \in seen

\* Mutant: what refers to a table that refers to the root is not found.
OnlyDirectly(t) == IF seen = {} THEN {u \in Tables : \E fk \in schema[u].foreign : Real(fk.target) = t} ELSE {}

\* referencing[t]
Referencing(t) == {u \in Tables : \E fk \in schema[u].foreign : Real(fk.target) = t}

\* One round of the loop; the order of the list does not matter.
Follow(t) ==
  /\ phase = "graph" /\ t \in pending
  /\ IF Seen(t) THEN pending' = pending \ {t} /\ UNCHANGED seen
     ELSE /\ pending' = (pending \ {t}) \union Referencing(t)
          /\ seen' = seen \union {t}
  /\ UNCHANGED <<schema, rows, saved, phase, outcome, checked, roots, target_tables, deleting>>

NothingToFollow == roots = {} /\ pending = {}

EndGraph ==
  /\ phase = "graph" /\ NothingToFollow
  /\ phase' = "flush"
  /\ target_tables' = target_tables \union seen
  /\ deleting' = target_tables'
  /\ UNCHANGED <<schema, rows, saved, outcome, checked, roots, pending, seen>>

\* The rows that go when the rows of t do: ON DELETE CASCADE.
Gone(t) ==
  LET every == UNION {{u} \X rows[u] : u \in Tables}
      takes(p, c) == \E fk \in schema[c[1]].foreign :
        fk.on_delete = "CASCADE" /\ p[1] \in Meant(fk.target) /\ Refers(fk, c[2], p[1], p[2])
  IN {x \in every : \A s \in SUBSET every :
        {t} \X rows[t] \subseteq s /\ (\A p \in s, c \in every : takes(p, c) => c \in s) => x \in s}

\* ON DELETE SET NULL of what stays.
SetNull(u, r, gone) ==
  LET cleared == {fk \in schema[u].foreign : fk.on_delete = "SET NULL" /\
                    \E p \in gone : p[1] \in Meant(fk.target) /\ Refers(fk, r, p[1], p[2])}
  IN [c \in DOMAIN r |-> IF \E fk \in cleared : c \in ToSet(fk.source) THEN Null ELSE r[c]]

After(t) ==
  LET gone == Gone(t)
  IN [u \in Tables |-> {SetNull(u, r, gone) : r \in {q \in rows[u] : <<u, q>> \notin gone}}]

\* A foreign key that is not deferred is checked after every statement.
Refused(t) ==
  \E u \in Tables : \E fk \in schema[u].foreign : ~fk.deferred /\ Dangling(u, fk, After(t)) # {}

\* The engine may refuse to use a foreign key that means nothing.
MayRefuse(t) ==
  \E u \in Tables : \E fk \in schema[u].foreign : ~WellFormed(fk) /\ t \in {u} \union Meant(fk.target)

Fail == phase' = "failed" /\ rows' = saved /\ deleting' = {} /\ UNCHANGED <<schema, saved, outcome, checked, graph>>

Delete(n) ==
  /\ phase = "flush" /\ n \in deleting
  /\ \E t \in Meant(n) :
       \/ /\ ~Refused(t)
          /\ rows' = After(t)
          /\ deleting' = deleting \ {n}
          /\ UNCHANGED <<schema, saved, phase, outcome, checked, graph>>
       \/ (Refused(t) \/ MayRefuse(t)) /\ Fail

DeleteMissing(n) == phase = "flush" /\ n \in deleting /\ Meant(n) = {} /\ Fail

CommitFlush ==
  /\ phase = "flush" /\ deleting = {}
  /\ IF Broken(Tables, rows) THEN Fail
     ELSE phase' = "flushed" /\ UNCHANGED <<schema, rows, saved, outcome, checked, graph, deleting>>

Continue ==
  /\ phase \in {"flushed", "failed"}
  /\ phase' = "idle"
  /\ saved' = rows /\ roots' = {} /\ pending' = {} /\ seen' = {} /\ target_tables' = {}
  /\ UNCHANGED <<schema, rows, outcome, checked, deleting>>

FlushStep ==
  \/ \E root \in roots : StartGraph(root)
  \/ \E t \in pending : Follow(t)
  \/ EndGraph
  \/ \E n \in deleting : Delete(n) \/ DeleteMissing(n)
  \/ CommitFlush

Next ==
  \/ BeginEdit
  \/ \E t \in Tables : Edit(t)
  \/ \E tables \in SUBSET Tables : Check(tables)
  \/ EndEdit
  \/ \E tables \in SUBSET Names : Flush(tables)
  \/ FlushStep
  \/ Continue

Spec == Init /\ [][Next]_vars

\* The loops of one call go on.
FairSpec == Spec /\ WF_vars(FlushStep)
--------------------------------------------------------------------------------
TypeOK ==
  /\ schema \in Schemas
  /\ DOMAIN rows = Tables /\ DOMAIN saved = Tables
  /\ \A t \in Tables : rows[t] \in Content(t) /\ saved[t] \in Content(t)
  /\ phase \in {"idle", "edit", "graph", "flush", "flushed", "failed"}
  /\ outcome \in {"none", "passed", "violation", "error"}
  /\ checked \subseteq Tables
  /\ roots \union pending \union seen \union target_tables \union deleting \subseteq Names
  /\ roots \union pending # {} => phase = "graph"
  /\ deleting # {} => phase = "flush"

\* check_constraints() agrees with enforcement: what passes the check is what the engine
\* would have let in, nothing else is reported, and a foreign key that cannot be checked is one
\* that the engine itself refuses.
CheckIsExact ==
  /\ outcome = "passed" => ~Broken(checked, rows)
  /\ outcome = "violation" => Broken(checked, rows)
  /\ outcome = "error" => \E t \in checked : \E fk \in schema[t].foreign : ~WellFormed(fk)

\* The foreign keys that the schema editor makes are deferred (schema.py:77).
Deferred == \A t \in Tables : \A fk \in schema[t].foreign : fk.deferred /\ WellFormed(fk)

\* A cascading flush of deferred foreign keys is never refused, however tables are spelled
\* and in whatever order they are emptied.
FlushSucceeds ==
  Deferred /\ (\A n \in target_tables : Meant(n) # {}) => phase # "failed"

\* A flush empties its tables and leaves all others as they were, although rows may cascade
\* (docs/test-runner.md: "Cascading flush follows foreign-key references through the actual
\* table names").
FlushIsClosed ==
  phase = "flushed" => \A t \in Tables : rows[t] = IF t \in target_tables THEN {} ELSE saved[t]

\* The graph of a flush ends, with cycles and references to the table itself.
GraphEnds == phase = "graph" ~> phase = "flush"
================================================================================
