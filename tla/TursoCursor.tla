------------------------------ MODULE TursoCursor ------------------------------
(******************************************************************************)
(* One cursor of a wrapper (TursoCursorWrapper in                             *)
(* src/django_pyturso/base.py) and the driver's cursor that it extends:       *)
(* execute(), executemany(), the fetches and close().  A statement is         *)
(* converted by PlaceholderConversion and recognised by WriteStatement.       *)
(*                                                                            *)
(* The driver produces the rows of a statement with result columns as they    *)
(* are fetched, and a write with RETURNING writes as it produces them.  What  *)
(* the wrapper does around every call, _django_transaction(), is modelled in  *)
(* TursoTransactions; here any call of the driver may fail.                   *)
(******************************************************************************)
EXTENDS PlaceholderConversion, WriteStatement

CONSTANTS
  MaxCalls,           \* bound on execute() and executemany()
  MaxBatch,           \* bound on the rows of a batch
  MaxParameters,      \* bound on the length of a row that is a sequence
  MaxResult,          \* bound on the rows of a result
  FewQueries          \* the queries of batches, of calls with a mapping that is empty, and
                      \*   of all calls but the first

ASSUME CursorAssumption ==
  /\ {MaxCalls, MaxBatch, MaxParameters, MaxResult} \subseteq Nat
  /\ FewQueries \in [BOOLEAN -> SUBSET Seq(Characters[TRUE] \union Characters[FALSE] \union NativeMarkers)]

VARIABLES
  step,               \* "ready", then "preparing" a row and "running" a statement with
                      \*   it, until the call returns; "closed" after close()
  call,               \* that call: "execute" or "executemany"
  row,                \* the row of parameters that goes to the driver
  stored,             \* _returning_rows is not None
  returning_rows,     \* and this
  stream,             \* the rows that the driver has yet to produce
  writes,             \* whether it writes as it produces them

  \* history
  calls,
  raised,             \* whether the last call of execute() or a fetch raised
  batch,              \* the rows that executemany() has taken from its iterator
  ran,                \* how many of them the engine has executed
  due,                \* the result of the last statement
  given               \* what fetches have returned of it

results == <<stored, returning_rows, stream, writes>>
history == <<raised, batch, ran, due, given>>
vars    == <<scan, step, call, row, results, calls, history>>

NoParameters == [mapping |-> FALSE, count |-> 0, names |-> {}]

Rows ==
  [mapping : {FALSE}, count : 0..MaxParameters, names : {{}}]
  \union [mapping : {TRUE}, count : {0}, names : SUBSET Names]

Init ==
  /\ InitScan
  /\ step = "ready" /\ call = "execute" /\ row = NoParameters
  /\ stored = FALSE /\ returning_rows = <<>>
  /\ stream = <<>> /\ writes = FALSE
  /\ calls = 0
  /\ raised = FALSE
  /\ batch = <<>> /\ ran = 0
  /\ due = <<>> /\ given = <<>>
--------------------------------------------------------------------------------
(* The beginning of a call.                                                   *)

\* Mutant: rows of an earlier statement stay.
KeepStored == UNCHANGED <<stored, returning_rows>>

DropStored == stored' = FALSE /\ returning_rows' = <<>>

Begin(method) ==
  /\ step = "ready" /\ calls < MaxCalls
  /\ calls' = calls + 1
  /\ call' = method
  /\ DropStored
  /\ batch' = <<>> /\ ran' = 0
  /\ due' = <<>> /\ given' = <<>>
  /\ UNCHANGED <<stream, writes, raised, row>>

\* With parameters the query is converted first; the parameters of execute(), or the
\* first row of executemany(), tell which placeholders it has.
BeginWithParameters(method, mapping, names) ==
  /\ Begin(method)
  /\ step' = "preparing"
  /\ BeginScan(IF calls = 0 /\ method = "execute" /\ (mapping => names # {})
               THEN Queries(mapping) ELSE FewQueries[mapping],
               mapping, names)

BeginWithoutParameters ==
  /\ Begin("execute")
  /\ step' = "running"
  /\ UNCHANGED scan

\* executemany() of no rows does nothing.
EmptyBatch ==
  /\ step = "ready" /\ calls < MaxCalls
  /\ calls' = calls + 1
  /\ UNCHANGED <<scan, step, call, row, results, history>>

\* The call returns, or raises.
Leave(raises) ==
  /\ step' = "ready"
  /\ raised' = raises
  /\ row' = NoParameters
  /\ ForgetScan

\* It raises before the driver runs the statement.  In executemany() it is the driver that
\* asks for rows, and it may have put its last statement away by then.
Refuse ==
  /\ Leave(TRUE)
  /\ \/ UNCHANGED stream
     \/ call = "executemany" /\ stream' = <<>>
  /\ UNCHANGED <<call, stored, returning_rows, writes, calls, ran, due, given>>

UnknownName ==
  /\ step = "preparing" /\ outcome = "KeyError"
  /\ Leave(TRUE)
  /\ UNCHANGED <<call, results, calls, batch, ran, due, given>>

Scan ==
  /\ ScanStep \/ EndScan
  /\ UNCHANGED <<step, call, row, results, calls, history>>
--------------------------------------------------------------------------------
(* Rows of parameters: one of execute(), those that executemany() takes from  *)
(* its iterator, each of which is checked when the driver asks for it.        *)

First == Len(batch) = 0

\* Mutant: all rows are checked before the driver gets its first one.
CheckTheBatch == IF call = "execute" THEN "running" ELSE "preparing"

AfterCheck == "running"

Prepare(r) ==
  /\ step = "preparing" /\ outcome = "converted"
  /\ call = "execute" => First
  /\ First => r.mapping = named /\ (named => r.names = param_names)
  /\ Len(batch) < MaxBatch
  /\ batch' = Append(batch, r)
  /\ \/ /\ Accepts(r)
        /\ row' = r
        /\ step' = AfterCheck
        /\ UNCHANGED <<scan, call, results, calls, raised, ran, due, given>>
     \/ ~Accepts(r) /\ Refuse

\* The application's iterator raises.
IteratorRaises ==
  /\ step = "preparing" /\ outcome = "converted" /\ call = "executemany" /\ ~First
  /\ Refuse
  /\ UNCHANGED batch

RunRow ==
  /\ step = "running" /\ call = "executemany"
  /\ ran' = ran + 1
  /\ step' = "preparing"
  /\ stream' = <<>>
  /\ UNCHANGED <<scan, call, row, stored, returning_rows, writes, calls, raised, batch, due, given>>

EndBatch ==
  /\ step = "preparing" /\ outcome = "converted" /\ call = "executemany" /\ ~First
  /\ Leave(FALSE)
  /\ writes' = TRUE
  /\ UNCHANGED <<call, stored, returning_rows, stream, calls, batch, ran, due, given>>

DriverFails ==
  /\ step = "running"
  /\ Leave(TRUE)
  /\ stream' = <<>>
  /\ UNCHANGED <<call, stored, returning_rows, writes, calls, batch, ran, due, given>>
--------------------------------------------------------------------------------
(* The driver executes a statement that has size rows to return, none if it   *)
(* has no result columns.                                                     *)

Drains(kind, columns) == columns /\ kind.taken

RunStatement(kind, columns, size) ==
  LET rows == [i \in 1..size |-> <<calls, i>>] IN
  /\ step = "running" /\ call = "execute"
  /\ ~columns => size = 0
  /\ due' = rows
  /\ writes' = kind.writes
  /\ IF Drains(kind, columns)
     THEN stored' = TRUE /\ returning_rows' = rows /\ stream' = <<>>
     ELSE stream' = rows /\ UNCHANGED <<stored, returning_rows>>
  /\ Leave(FALSE)
  /\ UNCHANGED <<call, calls, batch, ran, given>>
--------------------------------------------------------------------------------
(* Fetches.  The wrapper hands out the rows that it stored, or else those     *)
(* that the driver produces.                                                  *)

Available == IF stored THEN returning_rows ELSE stream

AtMost(size) == IF size < Len(Available) THEN size ELSE Len(Available)

Take(n) ==
  /\ given' = given \o SubSeq(returning_rows, 1, n)
  /\ returning_rows' = SubSeq(returning_rows, n + 1, Len(returning_rows))

\* fetchone() and a step of an iteration ask for one row, fetchmany() for as many as the
\* cursor's arraysize or its argument says, fetchall() for the rest.
Fetch(size) ==
  /\ step = "ready"
  /\ \/ stored /\ Take(AtMost(size)) /\ UNCHANGED stream
     \/ /\ ~stored
        /\ given' = given \o SubSeq(stream, 1, AtMost(size))
        /\ stream' = SubSeq(stream, AtMost(size) + 1, Len(stream))
        /\ UNCHANGED returning_rows
  /\ UNCHANGED <<scan, step, call, row, stored, writes, calls, raised, batch, ran, due>>

FetchFails ==
  /\ step = "ready" /\ ~stored /\ stream # <<>>
  /\ stream' = <<>>
  /\ raised' = TRUE
  /\ UNCHANGED <<scan, step, call, row, stored, returning_rows, writes, calls, batch, ran, due, given>>

Close ==
  /\ step = "ready"
  /\ step' = "closed"
  /\ DropStored
  /\ stream' = <<>>
  /\ UNCHANGED <<scan, call, row, writes, calls, history>>
--------------------------------------------------------------------------------
InCall ==
  \/ Scan
  \/ UnknownName
  \/ \E r \in Rows : Prepare(r)
  \/ IteratorRaises
  \/ RunRow
  \/ EndBatch
  \/ DriverFails
  \/ \E kind \in Kinds, columns \in BOOLEAN, size \in 0..MaxResult : RunStatement(kind, columns, size)

Next ==
  \/ \E method \in {"execute", "executemany"} :
       \/ BeginWithParameters(method, FALSE, {})
       \/ \E names \in SUBSET Names : BeginWithParameters(method, TRUE, names)
  \/ BeginWithoutParameters
  \/ EmptyBatch
  \/ InCall
  \/ \E size \in 0..MaxResult : Fetch(size)
  \/ FetchFails
  \/ Close

Spec == Init /\ [][Next]_vars
FairSpec == Spec /\ WF_vars(InCall)
--------------------------------------------------------------------------------
TypeOK ==
  /\ ScanTypeOK
  /\ step \in {"ready", "preparing", "running", "closed"}
  /\ call \in {"execute", "executemany"}
  /\ row \in Rows
  /\ {stored, writes, raised} \subseteq BOOLEAN
  /\ calls \in 0..MaxCalls
  /\ batch \in Seq(Rows) /\ ran \in 0..Len(batch)

\* A row that goes to the driver gives the engine a value for every marker that it sees in
\* the converted text, unless the query has markers of the engine's own; it is so for
\* execute() and for every row of a batch (docs/transactions.md: rows "must match the %s
\* placeholder count", or "must contain all names").
RowsMatchMarkers ==
  step = "running" /\ ~native_bindings =>
    LET e == Engine IN e.markers = row.count /\ e.names \subseteq row.names

\* Between two calls the driver has no write left to do that a fetch, perhaps behind a
\* commit or a rollback, would do; and only what writes is kept in memory
\* (docs/transactions.md: "ordinary SELECT results remain streamed"), whatever common
\* table expressions stand in front of the verb.
WritesEndWithExecute ==
  step = "ready" /\ ~raised =>
    /\ stream # <<>> => ~writes
    /\ stored => writes

\* What the fetches have returned and what is still there to fetch is the result of the
\* last statement, in its order and without a row of an earlier one, as long as nothing
\* raised.
ResultsInOrder ==
  step = "ready" /\ ~raised => given \o Available = due

\* executemany() takes a row only when the rows before it have run (docs/transactions.md:
\* it "consumes parameter iterators without retaining the complete batch"): when a row is
\* invalid exactly those before it have run, and when none is, all have.
BatchIsStreamed ==
  call = "executemany" =>
    CASE step = "running"             -> ran = Len(batch) - 1
      [] step # "running" /\ raised   -> ran \in {Len(batch) - 1, Len(batch)}
      [] OTHER                        -> ran = Len(batch)

\* Every call returns: the scan of a query comes to its end.
CallsReturn == []<>(step \in {"ready", "closed"})
================================================================================
