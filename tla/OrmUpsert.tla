------------------------------- MODULE OrmUpsert -------------------------------
(***************************************************************************)
(* Transactions of orm_upsert calls under retry_on_transient_conflict.     *)
(*                                                                         *)
(* RetryTransaction gives every step of the decorator, the connection and  *)
(* the server's transaction; this module adds the table, the locks that    *)
(* the lookup's WITH (UPDLOCK, HOLDLOCK) takes, the ORM session's identity *)
(* map, and the deadlocks that upserts in different orders run into.       *)
(***************************************************************************)
EXTENDS RetryTransaction, FiniteSets

CONSTANTS Keys,       \* primary keys of the table
          Plan,       \* Plan[c]: sequence of [key, edit], the upserts of a call
          Data,       \* Data[c]: the value c's payloads hold
          Old,        \* what the columns of a row from before hold
          Absent,     \* no such row
          None,       \* not loaded, not written
          MaxLosses   \* bound: connections lost while executing, in all calls

Values == Calls \union {Old}
Row == [value : Values \union {Data[c] : c \in Calls}, inserter : Values, editor : Values]

ASSUME UpsertAssumption ==
    /\ Plan \in [Calls -> Seq([key : Keys, edit : BOOLEAN])]
    /\ None # Absent /\ None \notin Row /\ Absent \notin Row
    /\ MaxLosses \in Nat

VARIABLES rows,     \* the committed table
          locked,   \* keys each attempt's transaction locked
          written,  \* rows each attempt's transaction wrote
          loaded,   \* each session's identity map: the row an object was loaded from
          pending,  \* keys of objects with edits not yet flushed
          step,     \* position in the plan
          phase,    \* where in orm_upsert the call is
          losses    \* connections lost so far while executing

table == <<rows, locked, written>>
session == <<loaded, pending, step, phase>>
upsertVars == <<vars, table, session, losses>>

Serial == INSTANCE SerialUpserts WITH applied <- {c \in Calls : Applied(c)}

Original == [value |-> Old, inserter |-> Old, editor |-> Old]

\* A session may come with rows it loaded in an earlier transaction, since
\* expire_on_commit is off.
UpsertInit ==
    /\ Init
    /\ \A c \in Calls : sessions[c] = 1 /\ ~inTx[c]
    /\ rows \in [Keys -> {Absent, Original}]
    /\ loaded \in [Calls -> {[k \in Keys |-> None],
                             [k \in Keys |-> IF rows[k] = Absent THEN None ELSE rows[k]]}]
    /\ locked = [c \in Calls |-> [a \in Attempts |-> {}]]
    /\ written = [c \in Calls |-> [a \in Attempts |-> [k \in Keys |-> None]]]
    /\ pending = [c \in Calls |-> {}]
    /\ step = [c \in Calls |-> 1]
    /\ phase = [c \in Calls |-> "ready"]
    /\ losses = 0

Finished(c) == step[c] > Len(Plan[c])
Item(c) == Plan[c][step[c]]
Key(c) == Item(c).key

\* The row as a transaction sees it: its own write, or the committed version.
Overlay(writes) == [k \in Keys |-> IF writes[k] = None THEN rows[k] ELSE writes[k]]

-----------------------------------------------------------------------------
(* Locks live as long as the server's transaction does.                    *)

Holds(c, a, k) == k \in locked[c][a] /\ txn[c][a] \in {"active", "orphaned", "committing"}

Mine(c, k) == attempt[c] > 0 /\ Holds(c, attempt[c], k)

HeldFrom(c, k) == {d \in Calls : \E a \in Attempts :
                                    <<d, a>> # <<c, attempt[c]>> /\ Holds(d, a, k)}

Waiting(c) == phase[c] = "waiting"

\* A lock that is released goes to those who wait for it first.
CanLock(c, k) ==
    /\ HeldFrom(c, k) = {}
    /\ Waiting(c) \/ Mine(c, k) \/ ~\E d \in Calls \ {c} : Waiting(d) /\ Key(d) = k

WaitsFor(c, d) == Waiting(c) /\ Waiting(d) /\ c # d /\ Mine(d, Key(c))

\* A cycle of sessions.  One that was abandoned holds locks but waits for none.
Deadlocked(c) ==
    \E n \in 2..Cardinality(Calls) : \E cycle \in [1..n -> Calls] :
        /\ cycle[1] = c
        /\ \A i \in 1..n : WaitsFor(cycle[i], cycle[IF i = n THEN 1 ELSE i + 1])

-----------------------------------------------------------------------------
(* orm_upsert.                                                             *)

Current(c) == written[c][attempt[c]]

\* db.flush(): pending edits reach the server before the lookup.
Flushed(c) == [k \in Keys |-> IF k \in pending[c] THEN [Overlay(Current(c))[k] EXCEPT !.editor = c]
                              ELSE Current(c)[k]]

\* Faulty variant: UPDLOCK alone, which locks no row that is not there.
LockIfFound(c, k) == IF Overlay(Flushed(c))[k] = Absent THEN {} ELSE {k}

\* UPDLOCK keeps other lookups from the row, HOLDLOCK from the gap where it would be.
LockedByLookup(c, k) == {k}

\* Faulty variant: without populate_existing() a loaded object stays as it was.
KeepLoaded(c, k) == IF loaded[c][k] = None THEN Overlay(Flushed(c))[k] ELSE loaded[c][k]

\* populate_existing(): the object takes the row just read, loaded before or not.
Refreshed(c, k) == Overlay(Flushed(c))[k]

Lookup(c) ==
    LET k == Key(c)
        found == Overlay(Flushed(c))[k] # Absent
    IN  /\ pc[c] = "body" /\ phase[c] \in {"ready", "waiting"} /\ ~Finished(c)
        /\ CanLock(c, k)
        /\ StatementSucceeds(c)
        /\ locked' = [locked EXCEPT ![c][attempt[c]] = @ \union LockedByLookup(c, k)]
        /\ written' = [written EXCEPT ![c][attempt[c]] = Flushed(c)]
        /\ pending' = [pending EXCEPT ![c] = {}]
        /\ loaded' = [loaded EXCEPT ![c][k] = IF found THEN Refreshed(c, k) ELSE None]
        /\ phase' = [phase EXCEPT ![c] = IF found THEN "found" ELSE "missing"]
        /\ UNCHANGED <<rows, step, losses>>

WaitForLock(c) ==
    /\ pc[c] = "body" /\ phase[c] = "ready" /\ ~Finished(c)
    /\ HeldFrom(c, Key(c)) # {}
    /\ phase' = [phase EXCEPT ![c] = "waiting"]
    /\ UNCHANGED <<vars, table, loaded, pending, step, losses>>

\* setattr on the tracked object: the flush sends an UPDATE only for a value
\* that differs from the one the object was loaded with.
Updated(c, k) ==
    IF loaded[c][k].value = Data[c] THEN Current(c)[k]
    ELSE [Overlay(Current(c))[k] EXCEPT !.value = Data[c]]

\* Faulty variant: the constructor gets the insert_only values alone.
InsertedWithoutPayload(c) == [value |-> None, inserter |-> c, editor |-> Old]

\* The constructor takes the payload and the insert_only values.
Inserted(c) == [value |-> Data[c], inserter |-> c, editor |-> Old]

\* Set or construct, flush, and return the tracked object, which the caller
\* may then edit without flushing.
Store(c) ==
    LET k == Key(c)
        row == IF phase[c] = "found" THEN Updated(c, k) ELSE Inserted(c)
    IN  /\ pc[c] = "body" /\ phase[c] \in {"found", "missing"}
        /\ StatementSucceeds(c)
        /\ written' = [written EXCEPT ![c][attempt[c]][k] = row]
        /\ loaded' = [loaded EXCEPT ![c][k] = IF row = None THEN @ ELSE row]
        /\ pending' = [pending EXCEPT ![c] = IF Item(c).edit THEN @ \union {k} ELSE @]
        /\ step' = [step EXCEPT ![c] = @ + 1]
        /\ phase' = [phase EXCEPT ![c] = "ready"]
        /\ UNCHANGED <<rows, locked, losses>>

-----------------------------------------------------------------------------
(* The decorator around it.                                                *)

Leave(c) == phase' = [phase EXCEPT ![c] = "ready"]

\* Session.rollback() expires what the session loaded and drops its edits.
Expire(c) ==
    /\ loaded' = [loaded EXCEPT ![c] = [k \in Keys |-> None]]
    /\ pending' = [pending EXCEPT ![c] = {}]
    /\ step' = [step EXCEPT ![c] = 1]
    /\ UNCHANGED <<phase, table, losses>>

\* The payload lacks a key column or repeats a key in insert_only (ValueError),
\* or the function fails on its own account.
Fails(c) == /\ phase[c] = "ready"
            /\ FunctionRaises(c)
            /\ UNCHANGED <<table, session, losses>>

DeadlockVictim(c) ==
    /\ Deadlocked(c)
    /\ StatementRejected(c, Deadlock)
    /\ Leave(c)
    /\ UNCHANGED <<table, loaded, pending, step, losses>>

LosesConnection(c) ==
    /\ losses < MaxLosses
    /\ ConnectionLost(c, LostExecuting)
    /\ Leave(c)
    /\ losses' = losses + 1
    /\ UNCHANGED <<table, loaded, pending, step>>

\* The commit flushes the edits that are still pending.
Returns(c) ==
    /\ phase[c] = "ready" /\ Finished(c)
    /\ FunctionReturns(c)
    /\ written' = [written EXCEPT ![c][attempt[c]] = Flushed(c)]
    /\ pending' = [pending EXCEPT ![c] = {}]
    /\ UNCHANGED <<rows, locked, loaded, step, phase, losses>>

RollsBack(c) == /\ RollbackWithoutServer(c) \/ RollbackSucceeds(c)
                /\ Expire(c)

Decides(c) == /\ \/ Accept(c) \/ Begin(c) \/ Retry(c) \/ GiveUp(c)
                 \/ CommitSucceeds(c) \/ CommitFails(c)
              /\ UNCHANGED <<table, session, losses>>

CommitsTable(c, a) ==
    /\ ServerCommits(c, a)
    /\ rows' = Overlay(written[c][a])
    /\ UNCHANGED <<locked, written, session, losses>>

Unwinds(c, a) == /\ ServerDropsCommit(c, a) \/ ServerNoticesLoss(c, a)
                 /\ UNCHANGED <<table, session, losses>>

UpsertClient(c) ==
    \/ Lookup(c) \/ WaitForLock(c) \/ Store(c) \/ Fails(c) \/ DeadlockVictim(c)
    \/ LosesConnection(c) \/ Returns(c) \/ RollsBack(c) \/ Decides(c)

UpsertServer(c, a) == CommitsTable(c, a) \/ Unwinds(c, a)

UpsertNext == \E c \in Calls : UpsertClient(c) \/ \E a \in Attempts : UpsertServer(c, a)

\* The client keeps going, a deadlock always gets a victim, and the server
\* settles commits and lost connections.
UpsertSpec ==
    /\ UpsertInit /\ [][UpsertNext]_upsertVars
    /\ \A c \in Calls : /\ WF_upsertVars(UpsertClient(c))
                        /\ \A a \in Attempts : WF_upsertVars(UpsertServer(c, a))

-----------------------------------------------------------------------------
(* Properties.                                                             *)

\* Every variable of the upserts keeps its type.
UpsertTypeOK ==
    /\ rows \in [Keys -> Row \union {Absent}]
    /\ locked \in [Calls -> [Attempts -> SUBSET Keys]]
    /\ written \in [Calls -> [Attempts -> [Keys -> Row \union {None}]]]
    /\ loaded \in [Calls -> [Keys -> Row \union {None}]]
    /\ pending \in [Calls -> SUBSET Keys]
    /\ step \in [Calls -> Nat]
    /\ \A c \in Calls : step[c] \in 1..(Len(Plan[c]) + 1)
    /\ phase \in [Calls -> {"ready", "waiting", "found", "missing"}]
    /\ losses \in 0..MaxLosses

\* What the lookup found is still so when the upsert acts on it: a row it is
\* about to insert has not appeared (no duplicate key), and one it is about to
\* update is the one it loaded.
DecisionStillHolds ==
    \A c \in Calls : pc[c] = "body" =>
        /\ phase[c] = "missing" => Overlay(Current(c))[Key(c)] = Absent
        /\ phase[c] = "found" => loaded[c][Key(c)] = Overlay(Current(c))[Key(c)]

\* The table only ever changes by whole transactions, each at most once, as if
\* they ran alone in the order in which they committed: no upsert is lost, none
\* is half done, insert_only values never touch an existing row, and an edit
\* of a returned record survives a later upsert of the same row.
Serializable == [][Serial!Next]_<<rows, {c \in Calls : Applied(c)}>>

\* Two transactions that upsert the same two rows in opposite orders deadlock,
\* but at most once unless a connection is lost: the survivor has both rows, and
\* the victim's next attempt finds it done.  (With a third row or transaction
\* the same call can be the victim until its attempts run out.)
ContentionIsBounded ==
    Cardinality(Calls) <= 2 /\ Cardinality(Keys) <= 2 =>
        \A c \in Calls : attempt[c] <= Cardinality(Calls) + losses

\* Nobody waits for a lock forever: every call ends.
EveryUpsertEnds == \A c \in Calls : <>[](pc[c] = "done")
=============================================================================
