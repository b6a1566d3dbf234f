----------------------------- MODULE MultiResult -----------------------------
(***************************************************************************)
(* One batch of SQL with several results over one cursor: the option       *)
(* mssql_skip_rowcounts (core/db.py), read_all_result_sets and             *)
(* execute_script_batch (core/multiquery.py).                              *)
(*                                                                         *)
(* SQL Server runs the statements while the client reads, some way ahead   *)
(* of it; the client only learns of an error when it reaches the result    *)
(* that has it.  A statement is a row count or a rowset; a rowset that     *)
(* fails does so behind its rows.                                          *)
(***************************************************************************)
EXTENDS Naturals, SequencesExt, FiniteSetsExt

CONSTANTS MaxStatements,  \* length of a batch
          MaxRows,        \* rows of a rowset
          FetchSize       \* _SCRIPT_FETCH_SIZE

ASSUME MultiResultAssumption ==
    MaxStatements \in Nat /\ MaxRows \in Nat /\ FetchSize \in Nat \ {0}

VARIABLES pc,
          call,      \* which function is called, and with what
          batch,     \* what each statement will produce
          mode,      \* "script", "skip" while executing, or "read"
          pos,       \* the result the cursor is at, 0 before the first
          fetched,   \* rows of it that were fetched
          ran,       \* how many statements the server has run
          link,      \* the connection
          cursor, closes,   \* the cursor, and how often close() was called on it
          inTx,      \* connection.in_transaction()
          data,      \* what read_all_result_sets collected
          outcome    \* what the caller got

position == <<pos, fetched, ran>>
handle == <<cursor, closes>>
vars == <<pc, call, batch, mode, position, link, handle, inTx, data, outcome>>

Statements == [rowset : {FALSE}, rows : {0}, fails : BOOLEAN]
              \union [rowset : {TRUE}, rows : 0..MaxRows, fails : BOOLEAN]

Dialects == {"mssql+pyodbc", "mssql+pymssql", "sqlite+pysqlite"}

Scripts == [op : {"script"}, dialect : Dialects, option : {"absent"},
            clause : {"driver"}, many : {FALSE}]
Queries == [op : {"query"}, dialect : Dialects,
            option : {"absent", "false", "true", "invalid"},
            clause : {"text", "driver", "orm"}, many : BOOLEAN]

\* "killed": the session was ended while results were unread, and the driver
\* takes that for their end.
Links == {"up", "killed", "lost"}

Init == /\ pc = "call"
        /\ call \in Scripts \union Queries
        /\ batch \in UNION {[1..n -> Statements] : n \in 1..MaxStatements}
        /\ mode = "none"
        /\ pos = 0 /\ fetched = 0 /\ ran = 0
        /\ link = "up" /\ cursor = "none" /\ closes = 0
        /\ inTx \in BOOLEAN
        /\ data = << >> /\ outcome = "none"

Transition(from, to) == pc = from /\ pc' = to

Ends(result) == outcome' = result

-----------------------------------------------------------------------------
(* Validation.                                                             *)

SupportsBatchNavigation == call.dialect = "mssql+pyodbc"

\* What each listener raises ArgumentError for.  before_execute sees everything
\* but driver SQL, before_cursor_execute validates only that.
SkipRowcountsRequested == call.option = "true"

InvalidOption ==
    call.option = "invalid" \/ (SkipRowcountsRequested /\ ~SupportsBatchNavigation)

RejectsExecutemany == SkipRowcountsRequested /\ call.many

ValidateBatchExecution ==
    \/ InvalidOption
    \/ SkipRowcountsRequested /\ call.clause = "orm"
    \/ RejectsExecutemany

ValidateDriverSqlBatch == InvalidOption \/ RejectsExecutemany

Rejects == IF call.clause = "driver" THEN ValidateDriverSqlBatch ELSE ValidateBatchExecution

\* Driver SQL is only validated once its transaction was begun.
QueryRejected ==
    /\ Transition("call", "done")
    /\ call.op = "query" /\ Rejects
    /\ inTx' = (inTx \/ call.clause = "driver")
    /\ Ends("ArgumentError")
    /\ UNCHANGED <<call, batch, mode, position, link, handle, data>>

QueryAccepted ==
    /\ Transition("call", "execute")
    /\ call.op = "query" /\ ~Rejects
    /\ mode' = "skip" /\ cursor' = "open" /\ inTx' = TRUE
    /\ UNCHANGED <<call, batch, position, link, closes, data, outcome>>

ScriptDrainers == {"mssql+pyodbc", "mssql+pymssql"}

ScriptRejected ==
    /\ Transition("call", "done")
    /\ call.op = "script" /\ call.dialect \notin ScriptDrainers
    /\ Ends("ArgumentError")
    /\ UNCHANGED <<call, batch, mode, position, link, handle, inTx, data>>

ScriptOpensCursor ==
    /\ Transition("call", "execute")
    /\ call.op = "script" /\ call.dialect \in ScriptDrainers
    /\ mode' = "script" /\ cursor' = "open" /\ inTx' = TRUE
    /\ UNCHANGED <<call, batch, position, link, closes, data, outcome>>

ScriptGetsNoCursor ==
    /\ Transition("call", "done")
    /\ call.op = "script" /\ call.dialect \in ScriptDrainers
    /\ inTx' = TRUE /\ link' = "lost"
    /\ Ends("lost")
    /\ UNCHANGED <<call, batch, mode, position, handle, data>>

-----------------------------------------------------------------------------
(* The driver: a call moves to a result, or raises.                        *)

Here == batch[pos]
AtEnd == pos > Len(batch)

\* A row count that failed raises when it is reached; a rowset does so when it is
\* fetched to the end, or left.
RaisesAt(p) == p <= Len(batch) /\ ~batch[p].rowset /\ batch[p].fails
RaisesLeaving == pos > 0 /\ Here.rowset /\ Here.fails

Reach(p) ==
    /\ pos' = p /\ fetched' = 0
    /\ ran' = Max({ran, Min({p, Len(batch)})})

\* What the adapter makes of a failure: a driver error that is a disconnect, and
\* an exit exception, invalidate the connection.
Fails(error) ==
    /\ pc' = "failed"
    /\ Ends(error)
    /\ link' = IF error \in {"lost", "interrupted"} THEN "lost" ELSE link

ExecuteOrNextset == pc = "execute" \/ pc = "advance"

Advance ==
    /\ ExecuteOrNextset /\ pc' = "at"
    /\ link = "up" /\ ~RaisesLeaving /\ ~RaisesAt(pos + 1)
    /\ Reach(pos + 1)
    /\ UNCHANGED <<call, batch, mode, link, handle, inTx, data, outcome>>

AdvanceRaises ==
    /\ ExecuteOrNextset
    /\ link = "up" /\ (RaisesLeaving \/ RaisesAt(pos + 1))
    /\ IF RaisesLeaving THEN UNCHANGED position ELSE Reach(pos + 1)
    /\ Fails("statement")
    /\ UNCHANGED <<call, batch, mode, handle, inTx, data>>

\* The results seem to be at their end.
AdvanceSeesEnd ==
    /\ Transition("advance", "at")
    /\ link = "killed"
    /\ pos' = Len(batch) + 1 /\ fetched' = 0
    /\ UNCHANGED <<call, batch, mode, ran, link, handle, inTx, data, outcome>>

DriverCallFails(error) ==
    /\ ExecuteOrNextset \/ (pc = "at" /\ mode \in {"read", "script"} /\ ~AtEnd)
    /\ Fails(error)
    /\ UNCHANGED <<call, batch, mode, position, handle, inTx, data>>

ServerRunsAhead ==
    /\ pc \in {"at", "advance", "result"} /\ link = "up"
    /\ ran < Len(batch)
    /\ ran' = ran + 1
    /\ UNCHANGED <<pc, call, batch, mode, pos, fetched, link, handle, inTx, data, outcome>>

KillMidResults ==
    /\ pc = "advance" /\ link = "up"
    /\ link' = "killed"
    /\ UNCHANGED <<pc, call, batch, mode, position, handle, inTx, data, outcome>>

-----------------------------------------------------------------------------
(* Execution through SQLAlchemy, and read_all_result_sets.                 *)

\* _skip_leading_rowcounts goes on.
SkipsResult == SkipRowcountsRequested /\ ~AtEnd /\ ~Here.rowset

SkipLeadingRowcount ==
    /\ Transition("at", "advance")
    /\ mode = "skip" /\ SkipsResult
    /\ UNCHANGED <<call, batch, mode, position, link, handle, inTx, data, outcome>>

\* SQLAlchemy has its result; it closes the cursor of one without rows at once.
ResultMade ==
    /\ Transition("at", "result")
    /\ mode = "skip" /\ ~SkipsResult
    /\ IF ~AtEnd /\ Here.rowset THEN UNCHANGED handle
       ELSE cursor' = "closed" /\ closes' = closes + 1
    /\ Ends("executed")
    /\ UNCHANGED <<call, batch, mode, position, link, inTx, data>>

\* The caller needs no more than the first result, and closes it.
ResultClosed ==
    /\ Transition("result", "done")
    /\ IF cursor = "open" THEN cursor' = "closed" /\ closes' = closes + 1
       ELSE UNCHANGED handle
    /\ UNCHANGED <<call, batch, mode, position, link, inTx, data, outcome>>

ReadAllBegins ==
    /\ Transition("result", "at")
    /\ call.clause # "orm" /\ cursor = "open"
    /\ mode' = "read" /\ Ends("none")
    /\ UNCHANGED <<call, batch, position, link, handle, inTx, data>>

\* TypeError for an ORM result, ValueError for one without a cursor.
ReadAllRefused ==
    /\ Transition("result", "failed")
    /\ call.clause = "orm" \/ cursor # "open"
    /\ mode' = "read"
    /\ Ends(IF call.clause = "orm" THEN "TypeError" ELSE "ValueError")
    /\ UNCHANGED <<call, batch, position, link, handle, inTx, data>>

Omits == SkipRowcountsRequested /\ ~Here.rowset

\* Faulty variant: results without rows are never collected.
ReadRowsetsOnly ==
    /\ Transition("at", "advance")
    /\ mode = "read" /\ ~AtEnd /\ ~RaisesLeaving
    /\ data' = IF ~Here.rowset THEN data ELSE Append(data, pos)
    /\ fetched' = Here.rows
    /\ UNCHANGED <<call, batch, mode, pos, ran, link, handle, inTx, outcome>>

\* cursor_rows_to_dicts fetches all rows; a result set is known by its place.
ReadResultSet ==
    /\ Transition("at", "advance")
    /\ mode = "read" /\ ~AtEnd /\ ~RaisesLeaving
    /\ data' = IF Omits THEN data ELSE Append(data, pos)
    /\ fetched' = Here.rows
    /\ UNCHANGED <<call, batch, mode, pos, ran, link, handle, inTx, outcome>>

FetchRaises ==
    /\ pc = "at" /\ mode \in {"read", "script"} /\ ~AtEnd
    /\ RaisesLeaving /\ (mode = "script" => fetched = Here.rows)
    /\ Fails("statement")
    /\ UNCHANGED <<call, batch, mode, position, handle, inTx, data>>

\* result.close() in `finally`; a failure to close is only logged.
ReadAllReturns ==
    /\ Transition("at", "done")
    /\ mode = "read" /\ AtEnd
    /\ cursor' = "closed" /\ closes' = closes + 1
    /\ Ends("returned")
    /\ UNCHANGED <<call, batch, mode, position, link, inTx, data>>

\* The same after a failure, and what SQLAlchemy does when an execution failed.
ReadAllFails ==
    /\ Transition("failed", "done")
    /\ mode \in {"read", "skip"}
    /\ IF cursor = "open" /\ (mode = "skip" => link # "lost")
       THEN cursor' = "closed" /\ closes' = closes + 1
       ELSE UNCHANGED handle
    /\ data' = << >>
    /\ UNCHANGED <<call, batch, mode, position, link, inTx, outcome>>

-----------------------------------------------------------------------------
(* execute_script_batch.                                                   *)

FetchMany ==
    /\ pc = "at" /\ mode = "script" /\ ~AtEnd /\ fetched < Here.rows
    /\ fetched' = Min({fetched + FetchSize, Here.rows})
    /\ UNCHANGED <<pc, call, batch, mode, pos, ran, link, handle, inTx, data, outcome>>

ResultDrained ==
    /\ Transition("at", "advance")
    /\ mode = "script" /\ ~AtEnd /\ fetched = Here.rows /\ ~RaisesLeaving
    /\ UNCHANGED <<call, batch, mode, position, link, handle, inTx, data, outcome>>

\* Faulty variant: the batch is taken for complete at its first result.
CompletesAtOnce(result) ==
    /\ Transition("at", "done")
    /\ mode = "script"
    /\ cursor' = "closed" /\ closes' = closes + 1
    /\ Ends(result)
    /\ UNCHANGED <<call, batch, mode, position, link, inTx, data>>

\* The close of a complete batch may fail, which is then raised.
ScriptCompletes(result) ==
    /\ Transition("at", "done")
    /\ mode = "script" /\ AtEnd
    /\ cursor' = "closed" /\ closes' = closes + 1
    /\ Ends(result)
    /\ UNCHANGED <<call, batch, mode, position, link, inTx, data>>

\* Faulty variant: the cursor is closed whatever became of its connection.
CloseAnyway ==
    /\ Transition("failed", "done")
    /\ mode = "script"
    /\ cursor' = "closed" /\ closes' = closes + 1
    /\ UNCHANGED <<call, batch, mode, position, link, inTx, data, outcome>>

\* A failure of this close is logged, and what failed before it is raised.
CloseAfterFailure ==
    /\ Transition("failed", "done")
    /\ mode = "script"
    /\ IF link = "lost" THEN UNCHANGED handle
       ELSE cursor' = "closed" /\ closes' = closes + 1
    /\ UNCHANGED <<call, batch, mode, position, link, inTx, data, outcome>>

-----------------------------------------------------------------------------
Next ==
    \/ QueryRejected \/ QueryAccepted
    \/ ScriptRejected \/ ScriptOpensCursor \/ ScriptGetsNoCursor
    \/ Advance \/ AdvanceRaises \/ AdvanceSeesEnd
    \/ \E error \in {"lost", "interrupted"} : DriverCallFails(error)
    \/ ServerRunsAhead \/ KillMidResults
    \/ SkipLeadingRowcount \/ ResultMade \/ ResultClosed
    \/ ReadAllBegins \/ ReadAllRefused \/ ReadResultSet \/ FetchRaises
    \/ ReadAllReturns \/ ReadAllFails
    \/ FetchMany \/ ResultDrained
    \/ \E result \in {"returned", "close failed"} : ScriptCompletes(result)
    \/ CloseAfterFailure

Spec == Init /\ [][Next]_vars

-----------------------------------------------------------------------------
(* Properties.                                                             *)

AllRan == ran = Len(batch) /\ \A i \in DOMAIN batch : ~batch[i].fails
HasRowset == \E i \in DOMAIN batch : batch[i].rowset

\* No error of any statement is lost: a script or a read that returns has seen
\* every statement run and none fail, and so has an execution that skips row
\* counts and finds no rowset; one that finds a rowset has seen none fail before
\* it.  A failure to close hides no error, and a call that is rejected sends
\* nothing.  (A session killed mid-results is the exception: see the README.)
NothingLost ==
    link # "killed" =>
        /\ outcome \in {"returned", "close failed"} => AllRan
        /\ outcome = "executed" /\ call.option = "true" =>
               IF HasRowset THEN Here.rowset /\ \A i \in 1..pos - 1 : ~batch[i].fails
               ELSE AllRan
        /\ outcome = "statement" => \E i \in 1..ran : batch[i].fails
        /\ outcome = "ArgumentError" => ran = 0 /\ cursor = "none"

\* The result sets: rowsets, and row counts unless they are skipped.
Collects(i) == batch[i].rowset \/ call.option # "true"

\* What read_all_result_sets returns has each result set of the batch once and in
\* its place, also empty ones and, without the option, row counts; a read that
\* fails returns no part of it.
DataIsComplete ==
    pc = "done" /\ mode = "read" /\ link # "killed" =>
        IF outcome # "returned" THEN data = << >>
        ELSE /\ ToSet(data) = {i \in DOMAIN batch : Collects(i)}
             /\ \A i, j \in DOMAIN data : i < j => data[i] < data[j]

\* Every cursor that was opened is closed by the time the call ends, unless its
\* connection is gone; never twice, and a script's never over a lost connection.
ClosedOnce ==
    /\ closes <= 1
    /\ pc = "done" /\ cursor = "open" => link = "lost"
    /\ mode = "script" /\ pc = "done" /\ outcome \in {"lost", "interrupted"} => closes = 0
=============================================================================
