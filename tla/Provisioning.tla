----------------------------- MODULE Provisioning -----------------------------
(***************************************************************************)
(* Test databases (testing/fixtures.py): the container a test controller   *)
(* starts, and provision_sql_server_database_from_file, which processes    *)
(* run at the same time: under a lock that belongs to their session they   *)
(* look for the database and, if it is missing, run the script that        *)
(* creates it, in AUTOCOMMIT.                                              *)
(*                                                                         *)
(* A session lives on the server until it is closed, killed, or found to   *)
(* have lost its client, and until then it keeps its lock and may carry    *)
(* out the batch it was sent last.                                         *)
(***************************************************************************)
EXTENDS Naturals, Sequences, FiniteSets

CONSTANTS Processes,
          NumBatches, CreatedBy,  \* the script, and the batch that creates the database
          MaxStarts,              \* how often the container is started
          NoOne

ASSUME ProvisioningAssumption ==
    NumBatches \in Nat /\ CreatedBy \in 1..NumBatches /\ NoOne \notin Processes

VARIABLES container,   \* "none", "configuring", "running"
          remembered,  \* SharedSqlServerState knows it
          starts,
          pc,          \* where each process is
          next,        \* the batch it runs next
          failed,      \* `failed`, or an exception that is on its way
          invalidated, \* conn.invalidated
          session,     \* "none", "alive", or "abandoned" by its client
          inFlight,    \* the batch an abandoned session may still carry out, or 0
          owner,       \* the session that has the setup lock
          log          \* every batch that took effect: whose, and which

docker == <<container, remembered, starts>>
client == <<pc, next, failed, invalidated>>
server == <<session, inFlight, owner, log>>
vars == <<docker, client, server>>

Init == /\ container = "none" /\ remembered = FALSE /\ starts = 0
        /\ pc = [p \in Processes |-> "idle"]
        /\ next = [p \in Processes |-> 1]
        /\ failed = [p \in Processes |-> FALSE]
        /\ invalidated = [p \in Processes |-> FALSE]
        /\ session = [p \in Processes |-> "none"]
        /\ inFlight = [p \in Processes |-> 0]
        /\ owner = NoOne
        /\ log = << >>

Goto(p, to) == pc' = [pc EXCEPT ![p] = to]
Transition(p, from, to) == pc[p] = from /\ Goto(p, to)

Exists == \E i \in DOMAIN log : log[i].batch = CreatedBy

\* The lock goes with the session.
SessionEnds(p) ==
    /\ session' = [session EXCEPT ![p] = "none"]
    /\ inFlight' = [inFlight EXCEPT ![p] = 0]
    /\ owner' = IF owner = p THEN NoOne ELSE owner

Ended == \A p \in Processes : pc[p] \in {"returned", "raised"}

-----------------------------------------------------------------------------
(* The controller's container.                                             *)

\* start_controller_container; once remembered, it is not started again.
StartContainer ==
    /\ container = "none" /\ ~remembered /\ starts < MaxStarts
    /\ \A p \in Processes : pc[p] = "idle"
    /\ container' = "configuring" /\ starts' = starts + 1
    /\ UNCHANGED <<remembered, client, server>>

ConfigureSucceeds ==
    /\ container = "configuring"
    /\ container' = "running" /\ remembered' = TRUE
    /\ UNCHANGED <<starts, client, server>>

\* Faulty variant: a container that cannot be configured is left running.
ConfigureLeaks ==
    /\ container = "configuring"
    /\ container' = "leaked"
    /\ UNCHANGED <<remembered, starts, client, server>>

ConfigureFails ==
    /\ container = "configuring"
    /\ container' = "none"
    /\ UNCHANGED <<remembered, starts, client, server>>

StopContainer ==
    /\ remembered /\ Ended
    /\ container' = "none" /\ remembered' = FALSE /\ starts' = MaxStarts
    /\ UNCHANGED <<client, server>>

-----------------------------------------------------------------------------
(* The lock, and whether there is anything to do.                          *)

Connect(p) ==
    /\ Transition(p, "idle", "lock")
    /\ remembered
    /\ session' = [session EXCEPT ![p] = "alive"]
    /\ UNCHANGED <<docker, next, failed, invalidated, inFlight, owner, log>>

\* Faulty variant: the result of sp_getapplock is not looked at.
GoOnWithoutLock(p) ==
    /\ Transition(p, "lock", "check")
    /\ session[p] = "alive" /\ owner # NoOne
    /\ UNCHANGED <<docker, next, failed, invalidated, server>>

LockTimesOut(p) ==
    /\ Transition(p, "lock", "dispose")
    /\ session[p] = "alive" /\ owner # NoOne
    /\ failed' = [failed EXCEPT ![p] = TRUE]
    /\ UNCHANGED <<docker, next, invalidated, server>>

GetLock(p) ==
    /\ Transition(p, "lock", "check")
    /\ session[p] = "alive" /\ owner = NoOne
    /\ owner' = p
    /\ UNCHANGED <<docker, next, failed, invalidated, session, inFlight, log>>

FindsDatabase(p) ==
    /\ Transition(p, "check", "release")
    /\ session[p] = "alive" /\ Exists
    /\ UNCHANGED <<docker, next, failed, invalidated, server>>

FindsNone(p) ==
    /\ Transition(p, "check", "script")
    /\ session[p] = "alive" /\ ~Exists
    /\ UNCHANGED <<docker, next, failed, invalidated, server>>

-----------------------------------------------------------------------------
(* The script.                                                             *)

Logged(p, b) == log' = Append(log, [by |-> p, batch |-> b])

RunBatch(p) ==
    /\ pc[p] = "script" /\ next[p] <= NumBatches
    /\ session[p] = "alive"
    /\ Logged(p, next[p])
    /\ next' = [next EXCEPT ![p] = @ + 1]
    /\ UNCHANGED <<docker, pc, failed, invalidated, session, inFlight, owner>>

ScriptEnds(p) ==
    /\ Transition(p, "script", "release")
    /\ next[p] > NumBatches
    /\ UNCHANGED <<docker, next, failed, invalidated, server>>

\* Faulty variant: the failure of a batch is swallowed once the lock is released.
SwallowsFailure(p) ==
    /\ Transition(p, "script", "release")
    /\ next[p] <= NumBatches /\ session[p] = "alive"
    /\ UNCHANGED <<docker, next, failed, invalidated, server>>

\* A batch is rejected; what came before it stays.
BatchFails(p) ==
    /\ Transition(p, "script", "release")
    /\ next[p] <= NumBatches /\ session[p] = "alive"
    /\ failed' = [failed EXCEPT ![p] = TRUE]
    /\ UNCHANGED <<docker, next, invalidated, server>>

\* The connection is lost, or the server has ended the session: the connection is
\* invalidated, so that nothing is sent to release the lock.
LoseConnection(p) ==
    /\ pc[p] \in {"lock", "check", "script"}
    /\ Goto(p, "dispose")
    /\ failed' = [failed EXCEPT ![p] = TRUE]
    /\ invalidated' = [invalidated EXCEPT ![p] = TRUE]
    /\ session' = [session EXCEPT ![p] = IF @ = "alive" THEN "abandoned" ELSE @]
    /\ inFlight' = [inFlight EXCEPT ![p] =
                       IF pc[p] = "script" /\ session[p] = "alive" /\ next[p] <= NumBatches
                       THEN next[p] ELSE 0]
    /\ UNCHANGED <<docker, next, owner, log>>

-----------------------------------------------------------------------------
(* Release, and the end of the engine.                                     *)

Release(p) ==
    /\ Transition(p, "release", "dispose")
    /\ ~invalidated[p] /\ session[p] = "alive" /\ owner = p
    /\ owner' = NoOne
    /\ UNCHANGED <<docker, next, failed, invalidated, session, inFlight, log>>

\* Logged if something else failed, raised otherwise.
ReleaseFails(p) ==
    /\ Transition(p, "release", "dispose")
    /\ ~invalidated[p]
    /\ failed' = [failed EXCEPT ![p] = TRUE]
    /\ UNCHANGED <<docker, next, invalidated, server>>

\* The connection goes back and the engine is disposed of, which closes it.
Dispose(p) ==
    /\ pc[p] = "dispose"
    /\ Goto(p, IF failed[p] THEN "raised" ELSE "returned")
    /\ IF session[p] = "abandoned" THEN UNCHANGED <<session, inFlight, owner>>
       ELSE SessionEnds(p)
    /\ UNCHANGED <<docker, next, failed, invalidated, log>>

\* The process dies.
Crash(p) ==
    /\ pc[p] \in {"lock", "check", "script", "release", "dispose"}
    /\ Goto(p, "raised")
    /\ failed' = [failed EXCEPT ![p] = TRUE]
    /\ session' = [session EXCEPT ![p] = IF @ = "alive" THEN "abandoned" ELSE @]
    /\ inFlight' = [inFlight EXCEPT ![p] =
                       IF pc[p] = "script" /\ session[p] = "alive" /\ next[p] <= NumBatches
                       THEN next[p] ELSE @]
    /\ UNCHANGED <<docker, next, invalidated, owner, log>>

-----------------------------------------------------------------------------
(* SQL Server.                                                             *)

CarriesOut(p) ==
    /\ session[p] = "abandoned" /\ inFlight[p] # 0
    /\ Logged(p, inFlight[p])
    /\ inFlight' = [inFlight EXCEPT ![p] = 0]
    /\ UNCHANGED <<docker, client, session, owner>>

NoticesLoss(p) ==
    /\ session[p] = "abandoned"
    /\ SessionEnds(p)
    /\ UNCHANGED <<docker, client, log>>

Kill(p) ==
    /\ session[p] = "alive" /\ pc[p] \in {"lock", "check", "script", "release"}
    /\ SessionEnds(p)
    /\ UNCHANGED <<docker, client, log>>

-----------------------------------------------------------------------------
Process(p) ==
    \/ Connect(p) \/ LockTimesOut(p) \/ GetLock(p)
    \/ FindsDatabase(p) \/ FindsNone(p)
    \/ RunBatch(p) \/ ScriptEnds(p) \/ BatchFails(p) \/ LoseConnection(p)
    \/ Release(p) \/ ReleaseFails(p) \/ Dispose(p)

Controller == StartContainer \/ ConfigureSucceeds \/ ConfigureFails \/ StopContainer

Server(p) == CarriesOut(p) \/ NoticesLoss(p)

Next == \/ Controller
        \/ \E p \in Processes : Process(p) \/ Crash(p) \/ Server(p) \/ Kill(p)

Spec == Init /\ [][Next]_vars

\* Processes keep going (every statement ends or its connection is lost), pytest
\* configures and unconfigures, and the server notices lost connections.
FairSpec == /\ Spec
            /\ WF_vars(Controller)
            /\ \A p \in Processes : WF_vars(Process(p)) /\ WF_vars(NoticesLoss(p))

-----------------------------------------------------------------------------
(* Properties.                                                             *)

\* The batches of two processes never interleave, also when one of them has lost
\* its connection with a batch in flight; each process's own are in order; and what
\* comes with or after the creation of the database is never run a second time.
ScriptsDoNotInterleave ==
    \A i, j \in DOMAIN log :
        i < j =>
            /\ log[i].by = log[j].by => /\ log[i].batch < log[j].batch
                                        /\ \A k \in i..j : log[k].by = log[i].by
            /\ log[i].by # log[j].by => log[i].batch < CreatedBy

\* A process that returns leaves a database that is there and, unless the process
\* that created it failed or lost its session halfway (AUTOCOMMIT keeps what it
\* did), complete.
ReturnedMeansProvisioned ==
    \A p \in Processes :
        pc[p] = "returned" =>
            \E q \in Processes :
                /\ \E i \in DOMAIN log : log[i] = [by |-> q, batch |-> CreatedBy]
                /\ \/ failed[q]
                   \/ pc[q] = "script" /\ session[q] # "alive"
                   \/ \A b \in 1..NumBatches :
                          \E i \in DOMAIN log : log[i] = [by |-> q, batch |-> b]

\* In the end no container is left running, no session, and nobody has the lock.
EverythingReleased ==
    <>[](/\ container = "none" /\ ~remembered
         /\ owner = NoOne
         /\ \A p \in Processes : session[p] = "none")
=============================================================================
