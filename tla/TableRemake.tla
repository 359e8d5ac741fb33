------------------------------- MODULE TableRemake -----------------------------
(******************************************************************************)
(* How a schema editor changes a table (src/django_pyturso/schema.py): mostly *)
(* by remaking it, i.e. by creating a replacement, copying the rows, dropping *)
(* the original and renaming the replacement, with the indexes left to the    *)
(* deferred statements.  A step is one statement, and any of them may fail.   *)
(*                                                                            *)
(* "parent" is the table that migrations change.  Its model has a relation at *)
(* most: a "child" with a foreign key to one of its columns, or a many-to-    *)
(* many relation, whose table has a foreign key to its primary key and        *)
(* another one to a peer.  A cell holds the name of the column it was written *)
(* to, so that a value that goes astray is noticed.  A field's name is its    *)
(* column.                                                                    *)
(******************************************************************************)
EXTENDS Naturals, FiniteSets, SequencesExt

CONSTANTS
  Names,              \* the names that the fields of a model may have, besides "id"
  Declarable,         \* the fields that a migration may declare
  Rows,               \* the rows the application may insert into a table
  MaxOperations       \* bound on the operations of all migrations

Throughs == {"links", "moved_links"}     \* db_table of a many-to-many field
Peers    == {"peer", "other_peer"}       \* m2m_reverse_name() of one
Tables   == {"parent", "child"} \union Throughs
Field  == [pk : BOOLEAN, auto : BOOLEAN, null : BOOLEAN, index : BOOLEAN, unique : BOOLEAN,
           db_default : BOOLEAN, to : Names \union {"id", "none"}]

ASSUME RemakeAssumption ==
  /\ Names \subseteq STRING /\ IsFiniteSet(Names)
  /\ Names \intersect (Peers \union {"id", "ref", "none", "null"}) = {}
  /\ Declarable \subseteq Field
  /\ \A field \in Declarable : ~field.auto /\ field.to = "none" /\ (field.pk => field.unique /\ ~field.null)
  /\ MaxOperations \in Nat

VARIABLES
  tables,             \* the database: the table behind every name that exists
  models,             \* the migration state: the fields of every model
  step,
  atomic_migration,
  remakes,            \* the tables to remake, the first one being in progress
  deferred_sql,
  snapshot,           \* what a failed atomic migration goes back to
  data,               \* history: the rows as the application knows them, column by column
  before,             \* history: the same before the operation in progress
  operations,         \* the number of operations so far
  refused             \* history: the engine found a statement to be in error

database == <<tables, refused>>
migration == <<models, data, before>>
editor   == <<step, remakes, deferred_sql>>
vars     == <<database, migration, editor, atomic_migration, snapshot, operations>>

NoSnapshot == [tables |-> << >>, models |-> << >>, data |-> << >>]

Init ==
  /\ tables = << >> /\ models = << >> /\ data = << >> /\ before = << >>
  /\ step = "outside"
  /\ atomic_migration = TRUE
  /\ remakes = <<>>
  /\ deferred_sql = <<>>
  /\ snapshot = NoSnapshot
  /\ operations = 0
  /\ refused = FALSE

Id == [pk |-> TRUE, auto |-> TRUE, null |-> FALSE, index |-> FALSE, unique |-> TRUE,
       db_default |-> FALSE, to |-> "none"]
Reference(name) == [pk |-> FALSE, auto |-> FALSE, null |-> TRUE, index |-> TRUE, unique |-> FALSE,
                    db_default |-> FALSE, to |-> name]
Member(name) == [Reference(name) EXCEPT !.null = FALSE]

\* (These are @@ and :> of the module TLC, which the proofs cannot unfold.)
f ++ g     == [x \in DOMAIN f \union DOMAIN g |-> IF x \in DOMAIN f THEN f[x] ELSE g[x]]
Only(x, y) == [z \in {x} |-> y]

\* Django adds an automatic key to a model without one.
Rendered(fields) == IF \E n \in DOMAIN fields : fields[n].pk THEN fields ELSE Only("id", Id) ++ fields
--------------------------------------------------------------------------------
(* What a remake makes.  What is created and deleted is a set of at most one  *)
(* field, and so is what is altered but in the table of a relation.           *)

Replacement(table) == CASE table = "parent"      -> "new__parent"
                        [] table = "child"       -> "new__child"
                        [] table = "links"       -> "new__links"
                        [] table = "moved_links" -> "new__moved_links"

NoChange(table) == [table |-> table, target |-> Replacement(table), fields |-> models[table],
                    created |-> {}, deleted |-> {}, altered |-> {}]

GivesKey(remake) ==
  \/ \E c \in remake.created : c.field.pk
  \/ \E a \in remake.altered : a.field.pk

\* Mutant: a new key does not replace the automatic one.
KeyStays(remake) ==
  DOMAIN Rendered(remake.fields) \ (remake.deleted \union {a.old : a \in remake.altered})

\* The fields of the model that stay: a new key replaces an automatic one.
Stays(remake) ==
  LET fields == Rendered(remake.fields)
      replaced == {n \in DOMAIN fields : /\ GivesKey(remake) /\ fields[n].pk /\ fields[n].auto
                                         /\ \A a \in remake.altered : a.name # n}
  IN DOMAIN fields \ (replaced \union remake.deleted \union {a.old : a \in remake.altered})

New(changes) == [n \in {c.name : c \in changes} |-> (CHOOSE c \in changes : c.name = n).field]

Body(remake) ==
  LET fields == Rendered(remake.fields)
  IN [n \in Stays(remake) |-> [fields[n] EXCEPT !.pk = @ /\ ~GivesKey(remake)]]
     ++ New(remake.created) ++ New(remake.altered)

\* A model that has just lost its key is created without another one.
ReplacementFields(remake) ==
  IF "id" \in remake.deleted THEN Body(remake) ELSE Rendered(Body(remake))

\* effective_default() and the default of the database.
EffectiveDefault(field) == IF field.null THEN "null" ELSE "default"
AnyDefault(field)       == IF field.db_default THEN "db_default" ELSE EffectiveDefault(field)

\* What is selected for a column: coalesce(column, default), or the default alone.
Expression(column, default) == [column |-> column, default |-> default]

\* Mutant: a created column is always given the default of the field.
CreatedMapping(c) == Only(c.name, Expression("none", EffectiveDefault(c.field)))

\* A created column with a default of the database is left to the engine.
MappingOfCreated(c) ==
  IF c.field.db_default THEN << >> ELSE Only(c.name, Expression("none", EffectiveDefault(c.field)))

\* A column that becomes NOT NULL gets the default where it was NULL.
MappingOfAltered(a, fields) ==
  Only(a.name, Expression(a.old, IF fields[a.old].null /\ ~a.field.null THEN AnyDefault(a.field) ELSE "null"))

Mapping(remake) ==
  LET kept == [n \in Stays(remake) |-> Expression(n, "null")]
  IN FoldSet(LAMBDA f, g : f ++ g, kept,
       {MappingOfCreated(c) : c \in remake.created}
       \union {MappingOfAltered(a, Rendered(remake.fields)) : a \in remake.altered})
--------------------------------------------------------------------------------
(* The engine's DDL.                                                          *)

Without(f, x) == [y \in DOMAIN f \ {x} |-> f[y]]
Renamed(f, old, new) == Without(f, old) ++ Only(new, f[old])

CreateTable(name, fields) ==
  tables' = tables ++ Only(name, [columns |-> fields, rows |-> << >>, indexes |-> {}])

CellOf(column, fields, mapping, cells) ==
  CASE column \in DOMAIN mapping ->
         LET e == mapping[column]
         IN IF e.column # "none" /\ cells[e.column] # "null" THEN cells[e.column] ELSE e.default
    [] column \notin DOMAIN mapping /\ fields[column].auto -> "id"
    [] OTHER -> IF fields[column].db_default THEN "db_default" ELSE "null"

\* INSERT ... SELECT is refused for an unknown column or a NULL where none may be.
Selected(remake, fields) ==
  LET rows == tables[remake.table].rows
  IN [r \in DOMAIN rows |-> [n \in DOMAIN fields |-> CellOf(n, fields, Mapping(remake), rows[r])]]

CanSelect(remake, fields) ==
  LET table == tables[remake.table] mapping == Mapping(remake)
  IN /\ \A n \in DOMAIN mapping : mapping[n].column \in DOMAIN table.columns \union {"none"}
     /\ DOMAIN mapping \subseteq DOMAIN fields
     /\ \A r \in DOMAIN table.rows : \A n \in DOMAIN fields :
          fields[n].null \/ CellOf(n, fields, mapping, table.rows[r]) # "null"

CanIndex(statement) ==
  /\ statement.table \in DOMAIN tables
  /\ statement.column \in DOMAIN tables[statement.table].columns \ tables[statement.table].indexes

\* ALTER TABLE ... RENAME COLUMN takes the indexes and the foreign keys along.
RenameColumn(old, new) ==
  tables' = [t \in DOMAIN tables |->
    IF t = "parent"
    THEN [columns |-> Renamed(tables[t].columns, old, new),
          rows    |-> [r \in DOMAIN tables[t].rows |-> Renamed(tables[t].rows[r], old, new)],
          indexes |-> {IF n = old THEN new ELSE n : n \in tables[t].indexes}]
    ELSE [columns |-> [n \in DOMAIN tables[t].columns |->
            [tables[t].columns[n] EXCEPT !.to = IF @ = old THEN new ELSE @]],
          rows    |-> tables[t].rows,
          indexes |-> tables[t].indexes]]

\* ALTER TABLE ... DROP COLUMN
DropColumn(name) ==
  tables' = [tables EXCEPT !["parent"] =
    [columns |-> Without(@.columns, name),
     rows    |-> [r \in DOMAIN @.rows |-> Without(@.rows[r], name)],
     indexes |-> @.indexes]]
--------------------------------------------------------------------------------
(* Statements that fail end the migration: an atomic one is rolled back, any  *)
(* other one stops where it is.                                               *)

Abandon ==
  /\ remakes' = <<>>
  /\ deferred_sql' = <<>>
  /\ snapshot' = NoSnapshot
  /\ UNCHANGED <<atomic_migration, operations>>
  /\ IF atomic_migration
     THEN /\ step' = "outside"
          /\ tables' = snapshot.tables
          /\ models' = snapshot.models
          /\ data' = snapshot.data
          /\ before' = snapshot.data
     ELSE /\ step' = "failed"
          /\ UNCHANGED <<tables, migration>>

Fails ==
  /\ step \notin {"outside", "failed"}
  /\ Abandon
  /\ UNCHANGED refused

Refuse == Abandon /\ refused' = TRUE
--------------------------------------------------------------------------------
(* The remake in progress.                                                    *)

remake == Head(remakes)
target == remake.target

\* Mutant: the original is dropped before its rows are copied.
DroppedFirst(s) ==
  CASE s = "create" -> "drop" [] s = "drop" -> "copy" [] s = "copy" -> "rename" [] s = "rename" -> "deferred"

StepAfter(s) ==
  CASE s = "create" -> "copy" [] s = "copy" -> "drop" [] s = "drop" -> "rename" [] s = "rename" -> "deferred"

Statement(s) ==
  /\ step = s
  /\ UNCHANGED <<atomic_migration, snapshot, operations>>

Goes == step' = StepAfter(step) /\ UNCHANGED <<remakes, migration, refused>>

\* _field_should_be_indexed(): a unique column has an index of the engine's own.
IsIndexed(field) == field.index /\ ~field.unique

IndexesOf(name, fields) ==
  LET indexed == {n \in DOMAIN fields : IsIndexed(fields[n])}
  IN SetToSeq({[table |-> name, column |-> n] : n \in indexed})

\* create_model(new_model)
CreateReplacement ==
  /\ Statement("create")
  /\ IF target \in DOMAIN tables
     THEN Refuse
     ELSE /\ CreateTable(target, ReplacementFields(remake))
          /\ deferred_sql' = deferred_sql \o IndexesOf(target, ReplacementFields(remake))
          /\ Goes

CopyRows ==
  /\ Statement("copy")
  /\ IF ~CanSelect(remake, tables[target].columns)
     THEN Refuse
     ELSE /\ tables' = [tables EXCEPT ![target].rows = Selected(remake, tables[target].columns)]
          /\ UNCHANGED deferred_sql
          /\ Goes

\* Mutant: dropping the original forgets every index.
AnyReference(statement, table) == TRUE

References(statement, table) == statement.table = table

\* What is left of the deferred statements without the ones that are gone.
Remaining(gone) ==
  FoldLeft(LAMBDA kept, s : IF s \in gone THEN kept ELSE Append(kept, s), <<>>, deferred_sql)

Forgotten(table) == Remaining({s \in Range(deferred_sql) : References(s, table)})

\* delete_model(model, handle_autom2m=False), or that of the table a relation had: then
\* nothing is left to rename, and the deferred statements wait for the end of the editor.
DropOriginal ==
  /\ Statement("drop")
  /\ tables' = Without(tables, remake.table)
  /\ deferred_sql' = Forgotten(remake.table)
  /\ IF target \in Tables
     THEN step' = "editing" /\ remakes' = <<>> /\ UNCHANGED <<migration, refused>>
     ELSE Goes

\* alter_db_table(), which renames the table in the deferred statements, too.
RenameReplacement ==
  /\ Statement("rename")
  /\ tables' = Renamed(tables, target, remake.table)
  /\ deferred_sql' = [i \in DOMAIN deferred_sql |->
       [deferred_sql[i] EXCEPT !.table = IF @ = target THEN remake.table ELSE @]]
  /\ Goes

\* The deferred statements run at the end of a remake and of the editor.  (What is left
\* of them after an error is not looked at again.)
RunDeferred ==
  /\ step \in {"deferred", "exit"} /\ deferred_sql # <<>>
  /\ Statement(step)
  /\ LET statement == Head(deferred_sql) IN
     IF ~CanIndex(statement)
     THEN Refuse
     ELSE /\ tables' = [tables EXCEPT ![statement.table].indexes = @ \union {statement.column}]
          /\ deferred_sql' = Tail(deferred_sql)
          /\ UNCHANGED <<step, remakes, migration, refused>>

StepAfterRemake == IF Len(remakes) > 1 THEN "create" ELSE "editing"

FinishRemake ==
  /\ step = "deferred" /\ deferred_sql = <<>>
  /\ remakes' = Tail(remakes)
  /\ step' = StepAfterRemake
  /\ before' = data
  /\ UNCHANGED <<database, models, data, deferred_sql, atomic_migration, snapshot, operations>>
--------------------------------------------------------------------------------
(* The operations of a migration.                                             *)

Operate ==
  /\ step = "editing" /\ operations < MaxOperations
  /\ operations' = operations + 1
  /\ UNCHANGED <<atomic_migration, snapshot>>

Referring(state) == DOMAIN state \ {"parent"}

\* The field that a foreign key refers to after a change.
Target(name, change) ==
  LET to == models[name]["ref"].to
  IN IF \E a \in change.altered : a.old = to THEN (CHOOSE a \in change.altered : a.old = to).name ELSE to

HasKey(name) == \E n \in DOMAIN tables[name].columns : tables[name].columns[n].pk

\* What a migration may make of the parent: the field that is referred to stays unique, or
\* the key, there is one key, and the operation that follows the removal of a key declares another one
\* (the autodetector writes them in this order).
MayBecome(fields, change) ==
  /\ \A n, m \in DOMAIN fields : fields[n].pk /\ fields[m].pk => n = m
  /\ GivesKey(change) \/ HasKey("parent")
  /\ \A m \in Referring(models) :
       LET to == Target(m, change)
       IN to \in DOMAIN fields /\ fields[to].unique /\ (m \in Throughs => fields[to].pk)

\* The new state, with the rows as the application has to find them afterwards.
Becomes(fields, changed) ==
  LET old(n) == IF \E a \in changed.altered : a.name = n
                THEN (CHOOSE a \in changed.altered : a.name = n).old ELSE n
  IN /\ models' = [m \in DOMAIN models |->
          IF m = "parent" THEN fields ELSE [models[m] EXCEPT !["ref"].to = Target(m, changed)]]
     /\ before' = data
     /\ data' = [data EXCEPT !["parent"] = [r \in DOMAIN @ |-> [n \in DOMAIN fields |->
          IF old(n) \in DOMAIN @[r] /\ (@[r][old(n)] # "null" \/ fields[n].null)
          THEN @[r][old(n)] ELSE AnyDefault(fields[n])]]]
     /\ UNCHANGED refused

Remakes(sequence) == remakes' = sequence /\ step' = "create" /\ UNCHANGED <<tables, deferred_sql>>

\* One statement does the whole operation.
AtOnce == UNCHANGED <<step, remakes>>

CreateModel(name, fields) ==
  /\ Operate
  /\ name \notin DOMAIN models
  /\ CreateTable(name, fields)
  /\ deferred_sql' = deferred_sql \o IndexesOf(name, fields)
  /\ models' = models ++ Only(name, fields)
  /\ data' = data ++ Only(name, << >>)
  /\ before' = data'
  /\ AtOnce /\ UNCHANGED refused

CreateParent(a, field) ==
  CreateModel("parent", Only(a, field) ++ (IF field.pk THEN << >> ELSE Only("id", Id)))

CreateChild ==
  /\ DOMAIN models = {"parent"}
  /\ \E n \in DOMAIN models["parent"] \intersect Names :
       models["parent"][n].unique /\ CreateModel("child", Only("id", Id) ++ Only("ref", Reference(n)))

\* add_field() of a many-to-many field creates the table of the relation.  (Its names are
\* as good as any others, so these are the first.)
AddManyToMany ==
  /\ DOMAIN models = {"parent"}
  /\ \E n \in DOMAIN models["parent"] :
       /\ models["parent"][n].pk
       /\ CreateModel("links", Only("id", Id) ++ Only("ref", Member(n)) ++ Only("peer", Member("none")))

DeleteModel(name) ==
  /\ Operate
  /\ name \in DOMAIN models /\ Referring(models) \subseteq {name}
  /\ tables' = Without(tables, name)
  /\ deferred_sql' = Forgotten(name)
  /\ models' = Without(models, name)
  /\ data' = Without(data, name)
  /\ before' = data'
  /\ AtOnce /\ UNCHANGED refused

\* remove_field() of a many-to-many field
RemoveManyToMany(name) == DeleteModel(name)

AddField(name, field) ==
  /\ Operate
  /\ "parent" \in DOMAIN models /\ name \notin DOMAIN models["parent"]
  /\ LET change == [NoChange("parent") EXCEPT !.created = {[name |-> name, field |-> field]}]
         fields == models["parent"] ++ Only(name, field)
     IN /\ MayBecome(fields, change)
        /\ Becomes(fields, change)
        /\ Remakes(<<change>>)

\* DROP COLUMN will do for a column without a constraint or an index.
RemoveField(name) ==
  /\ Operate
  /\ "parent" \in DOMAIN models /\ name \in DOMAIN models["parent"]
  /\ LET field  == models["parent"][name]
         change == [NoChange("parent") EXCEPT !.deleted = {name}]
         fields == Without(models["parent"], name)
     IN /\ DOMAIN fields # {}
        /\ MayBecome(fields, change)
        /\ Becomes(fields, change)
        /\ IF ~field.pk /\ ~field.unique /\ ~field.index
           THEN /\ DropColumn(name)
                /\ deferred_sql' = Remaining({s \in Range(deferred_sql) : References(s, "parent") /\ s.column = name})
                /\ AtOnce
           ELSE Remakes(<<change>>)

\* Mutant: the tables that refer to a column are left alone.
NoneRelated(altered) == {}

\* The models with a foreign key to a unique column that gets another name; the tables of
\* many-to-many relations follow the key alone.
Related(altered) ==
  {m \in Referring(models') :
     /\ altered.field.unique /\ altered.name # altered.old
     /\ IF m \in Throughs THEN altered.field.pk ELSE models'[m]["ref"].to = altered.name}

\* _alter_field(): a column that only changes its name is renamed in place.
AlterField(old, name, field) ==
  /\ Operate
  /\ "parent" \in DOMAIN models /\ old \in DOMAIN models["parent"]
  /\ old # name => name \notin DOMAIN models["parent"]
  /\ old # name \/ field # models["parent"][old]
  /\ LET altered == [old |-> old, name |-> name, field |-> field]
         change  == [NoChange("parent") EXCEPT !.altered = {altered}]
         fields  == Without(models["parent"], old) ++ Only(name, field)
     IN /\ MayBecome(fields, change)
        /\ Becomes(fields, change)
        /\ IF old # name /\ field = models["parent"][old]
           THEN /\ RenameColumn(old, name)
                /\ deferred_sql' = [i \in DOMAIN deferred_sql |->
                     [deferred_sql[i] EXCEPT !.column =
                        IF References(deferred_sql[i], "parent") /\ @ = old THEN name ELSE @]]
                /\ AtOnce
           ELSE Remakes(<<change>> \o SetToSeq(
                  {[NoChange(m) EXCEPT !.fields = models'[m]] : m \in Related(altered)}))

\* _alter_many_to_many(): the table of the relation is remade with both of its columns, or
\* another table is created for it, to which the rows are copied.
AlterManyToMany(old, new, peer, new_peer) ==
  /\ Operate
  /\ old \in DOMAIN models /\ peer \in DOMAIN models[old]
  /\ old # new \/ peer # new_peer
  /\ LET altered == {[old |-> "ref", name |-> "ref", field |-> models[old]["ref"]],
                     [old |-> peer, name |-> new_peer, field |-> models[old][peer]]}
         change  == [NoChange(old) EXCEPT !.altered = altered,
                                          !.target = IF old = new THEN Replacement(old) ELSE new]
         named(f) == Renamed(f, peer, new_peer)
     IN /\ models' = Without(models, old) ++ Only(new, named(models[old]))
        /\ data' = Without(data, old) ++ Only(new, [r \in DOMAIN data[old] |-> named(data[old][r])])
        /\ before' = Without(data, old) ++ Only(new, data[old])
        /\ Remakes(<<change>>)
  /\ UNCHANGED refused

\* add_constraint() and remove_constraint()
ChangeConstraint(name) ==
  /\ Operate
  /\ name \in DOMAIN models
  /\ HasKey(name)
  /\ Remakes(<<NoChange(name)>>)
  /\ before' = data
  /\ UNCHANGED <<models, data, refused>>
--------------------------------------------------------------------------------
(* The application.                                                           *)

Enter(atomic) ==
  /\ step = "outside" /\ operations < MaxOperations
  /\ step' = "editing"
  /\ atomic_migration' = atomic
  /\ snapshot' = IF atomic THEN [tables |-> tables, models |-> models, data |-> data] ELSE NoSnapshot
  /\ UNCHANGED <<database, migration, remakes, deferred_sql, operations>>

EndBody ==
  /\ step = "editing"
  /\ step' = "exit"
  /\ UNCHANGED <<database, migration, remakes, deferred_sql, atomic_migration, snapshot, operations>>

Exit ==
  /\ step = "exit" /\ deferred_sql = <<>>
  /\ step' = "outside"
  /\ atomic_migration' = TRUE
  /\ snapshot' = NoSnapshot
  /\ UNCHANGED <<database, migration, remakes, deferred_sql, operations>>

\* A row is inserted, by a migration or outside of one, with NULL in some columns.
Insert(name, row, nulls) ==
  /\ step \in {"editing", "outside"}
  /\ name \in DOMAIN models /\ row \notin DOMAIN data[name]
  /\ nulls \subseteq {n \in DOMAIN models[name] : models[name][n].null}
  /\ LET cells == [n \in DOMAIN tables[name].columns |-> IF n \in nulls THEN "null" ELSE n]
     IN /\ tables' = [tables EXCEPT ![name].rows = @ ++ Only(row, cells)]
        /\ data' = [data EXCEPT ![name] = @ ++ Only(row, [n \in DOMAIN models[name] |-> cells[n]])]
        /\ before' = data'
  /\ UNCHANGED <<models, refused, editor, atomic_migration, snapshot, operations>>

Next ==
  \/ \E atomic \in BOOLEAN : Enter(atomic)
  \/ \E name \in Tables, row \in Rows, nulls \in SUBSET (Names \union {"ref"}) : Insert(name, row, nulls)
  \/ \E name \in Names, field \in Declarable : CreateParent(name, field) \/ AddField(name, field)
  \/ CreateChild
  \/ AddManyToMany
  \/ \E old, new \in Throughs, peer, new_peer \in Peers : AlterManyToMany(old, new, peer, new_peer)
  \/ \E name \in Throughs : RemoveManyToMany(name)
  \/ \E name \in Tables \ Throughs : DeleteModel(name) \/ ChangeConstraint(name)
  \/ \E name \in Names \union {"id"} : RemoveField(name)
  \/ \E old, name \in Names, field \in Declarable : AlterField(old, name, field)
  \/ CreateReplacement
  \/ CopyRows
  \/ DropOriginal
  \/ RenameReplacement
  \/ RunDeferred
  \/ FinishRemake
  \/ EndBody
  \/ Exit
  \/ Fails

Spec == Init /\ [][Next]_vars
--------------------------------------------------------------------------------
Columns == Names \union Peers \union {"id", "ref"}

TypedFields(fields) == DOMAIN fields \subseteq Columns /\ fields \in [DOMAIN fields -> Field]

TypedTable(table) ==
  /\ TypedFields(table.columns)
  /\ DOMAIN table.rows \subseteq Rows
  /\ \A r \in DOMAIN table.rows : DOMAIN table.rows[r] = DOMAIN table.columns
  /\ table.indexes \subseteq DOMAIN table.columns

\* A database with the migration state and the rows that the application knows.
TypedState(ts, ms, ds) ==
  /\ DOMAIN ts \subseteq Tables \union {Replacement(t) : t \in Tables}
  /\ \A t \in DOMAIN ts : TypedTable(ts[t])
  /\ DOMAIN ms \subseteq Tables
  /\ \A m \in DOMAIN ms : TypedFields(ms[m])
  /\ DOMAIN ds = DOMAIN ms

TypeOK ==
  /\ TypedState(tables, models, data) /\ DOMAIN before = DOMAIN models
  /\ TypedState(snapshot.tables, snapshot.models, snapshot.data)
  /\ step \in {"outside", "editing", "create", "copy", "drop", "rename", "deferred", "exit", "failed"}
  /\ atomic_migration \in BOOLEAN
  /\ step \in {"create", "copy", "drop", "rename", "deferred"} <=> remakes # <<>>
  /\ \A i \in DOMAIN deferred_sql :
       /\ deferred_sql[i].table \in DOMAIN tables
       /\ deferred_sql[i].column \in DOMAIN tables[deferred_sql[i].table].columns
  /\ operations \in 0..MaxOperations
  /\ refused \in BOOLEAN

\* A table has the rows, as far as the columns that the rows are known by.
Holds(name, rows) ==
  /\ name \in DOMAIN tables
  /\ DOMAIN tables[name].rows = DOMAIN rows
  /\ \A r \in DOMAIN rows : \A n \in DOMAIN rows[r] :
       n \in DOMAIN tables[name].columns /\ tables[name].rows[r][n] = rows[r][n]

\* At no moment, wherever a remake may be cut off, are the rows of a model anywhere but in
\* its table, as they were or as they are to be, or else in the replacement
\* (_remake_table() drops the original only when everything is copied), or, for a relation
\* that is moved, in its former table (_alter_many_to_many() deletes that last).
RowsSurvive ==
  \A m \in DOMAIN models :
    \/ Holds(m, before[m])
    \/ Holds(m, data[m])
    \/ Holds(Replacement(m), data[m])
    \/ m \in Throughs /\ \E t \in Throughs : Holds(t, before[m])

\* Between the operations of a migration every table has the columns of its model, but for
\* an automatic key, and every row has what the operations so far have to make of it:
\* values move with their column, NULL becomes the default where it is no longer allowed,
\* and a new column has the default of the engine or else that of the field.
DataAsPromised ==
  step \in {"outside", "editing", "exit"} =>
    /\ DOMAIN tables = DOMAIN models
    /\ \A m \in DOMAIN models :
         /\ DOMAIN models[m] \subseteq DOMAIN tables[m].columns
         /\ \A n \in DOMAIN tables[m].columns :
              IF n \in DOMAIN models[m] THEN tables[m].columns[n] = models[m][n] ELSE n = "id"
         /\ Holds(m, data[m])

\* When an editor has been left, the indexes of every table are those of its model: no
\* deferred statement was lost, whatever remakes and renames came before it ran
\* (docs/compatibility.md: "This preserves stored rows and applies the requested index
\* state").
IndexesAsDeclared ==
  step = "outside" =>
    \A m \in DOMAIN models : tables[m].indexes = {n \in DOMAIN models[m] : IsIndexed(models[m][n])}

\* The engine finds none of the editor's statements in error: no unknown column is copied,
\* no NULL goes where none is allowed, no index is made twice or of a column that is gone.
NothingRefused == ~refused

\* When an editor has been left, every foreign key refers to a unique column that exists
\* (docs/compatibility.md: when "a referenced unique column is renamed during a table
\* remake, related tables are also remade").
ReferencesResolve ==
  step = "outside" =>
    \A m \in Referring(tables) :
      LET to == tables[m].columns["ref"].to
      IN to \in DOMAIN tables["parent"].columns /\ tables["parent"].columns[to].unique
================================================================================
