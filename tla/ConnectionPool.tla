---------------------------- MODULE ConnectionPool ----------------------------
(***************************************************************************)
(* The connection pool of a DatabaseRuntime's engine: what the listeners   *)
(* of core/db.py (terminated sessions, reset after errors), pool_recycle,  *)
(* pool_pre_ping and the disabled driver-manager pooling do to the SQL     *)
(* Server session that one user leaves and the next one gets.              *)
(***************************************************************************)
EXTENDS SqlErrors, FiniteSets

CONSTANTS Users,         \* requests and background tasks that use a session
          Nobody,
          Slots,         \* connection records: pool_size + max_overflow of them
          PoolSize,      \* idle connections kept
          Recycle,       \* pool_recycle, in ticks
          FirewallIdle   \* idle ticks after which a firewall may drop a connection

ASSUME PoolAssumption ==
    /\ Nobody \notin Users
    /\ IsFiniteSet(Slots) /\ PoolSize \in Nat \ {0}
    /\ Recycle \in Nat /\ FirewallIdle \in Nat

\* The reason given for DEFAULT_POOL_RECYCLE_SECONDS.
ASSUME RecycleAssumption == Recycle < FirewallIdle

VARIABLES holder,      \* who has each record checked out
          link,        \* its physical connection, as the network has it
          left,        \* what the server session holds beyond its defaults
          needsReset,  \* info["grad_pylib_needs_reset"]
          age,         \* ticks since it connected
          idle,        \* ticks since it last carried traffic
          stale,       \* connected before the pool was invalidated
          failures,    \* errors its user has had from it since its session ended
          parked       \* leftovers of connections the driver manager keeps

poolVars == <<holder, link, left, needsReset, age, idle, stale, failures, parked>>

\* "dead": the server ended the session; "silent": a firewall dropped the
\* connection, and neither end has been told.
Links == {"closed", "alive", "dead", "silent"}

\* "txn": an open transaction; "failed": a setting a failed batch did not
\* restore; "kept": one that a batch left on purpose.
Leftovers == {"txn", "failed", "kept"}

MaxAge == FirewallIdle + 1

PoolInit ==
    /\ holder = [s \in Slots |-> Nobody]
    /\ link = [s \in Slots |-> "closed"]
    /\ left = [s \in Slots |-> {}]
    /\ needsReset = [s \in Slots |-> FALSE]
    /\ age = [s \in Slots |-> 0]
    /\ idle = [s \in Slots |-> 0]
    /\ stale = [s \in Slots |-> FALSE]
    /\ failures = [s \in Slots |-> 0]
    /\ parked = {}

-----------------------------------------------------------------------------
(* Opening and closing physical connections.                               *)

\* Faulty variant: pyodbc keeps its default, which pools connections itself.
DriverDefault == TRUE

\* disable_pyodbc_pooling: what pyodbc.pooling was when the first connection was made.
DriverPooling == FALSE

\* Closing ends the session, unless the driver manager keeps the connection.
Parked(s) == IF DriverPooling /\ link[s] = "alive" THEN parked \union {left[s] \ {"txn"}}
             ELSE parked

Disconnect(s) ==
    /\ link' = [link EXCEPT ![s] = "closed"]
    /\ left' = [left EXCEPT ![s] = {}]
    /\ parked' = Parked(s)

Close(s) ==
    /\ Disconnect(s)
    /\ needsReset' = [needsReset EXCEPT ![s] = FALSE]

\* A record that still has a connection closes it first.  A new connection
\* clears record.info: it has no flag, and an age of zero.
Connect(s) ==
    /\ link' = [link EXCEPT ![s] = "alive"]
    /\ \E found \in IF Parked(s) = {} THEN {{}} ELSE Parked(s) :
           /\ left' = [left EXCEPT ![s] = found]
           /\ parked' = Parked(s) \ {found}
    /\ needsReset' = [needsReset EXCEPT ![s] = FALSE]
    /\ age' = [age EXCEPT ![s] = 0]
    /\ idle' = [idle EXCEPT ![s] = 0]
    /\ failures' = [failures EXCEPT ![s] = 0]

\* Every connection there is will be replaced before its next checkout.
InvalidatePool(s) == stale' = [t \in Slots |-> link[t] # "closed" /\ t # s]

-----------------------------------------------------------------------------
(* Checkout: recycle, then pre-ping.                                       *)

\* Faulty variant: pool_recycle is not set.
NeverRecycled(s) == stale[s]

Expired(s) == stale[s] \/ age[s] > Recycle

CanCheckOut(u, s) ==
    holder[s] = Nobody /\ \A t \in Slots : holder[t] # u

CheckOutNew(u, s) ==
    /\ CanCheckOut(u, s)
    /\ link[s] = "closed" \/ Expired(s)
    /\ holder' = [holder EXCEPT ![s] = u]
    /\ Connect(s)
    /\ stale' = [stale EXCEPT ![s] = FALSE]

CheckOutPinged(u, s) ==
    /\ CanCheckOut(u, s)
    /\ link[s] = "alive" /\ ~Expired(s)
    /\ holder' = [holder EXCEPT ![s] = u]
    /\ idle' = [idle EXCEPT ![s] = 0]
    /\ UNCHANGED <<link, left, needsReset, age, stale, failures, parked>>

\* The ping fails and the pool replaces this connection, and later all others.
CheckOutReplaced(u, s) ==
    /\ CanCheckOut(u, s)
    /\ link[s] \in {"dead", "silent"} /\ ~Expired(s)
    /\ holder' = [holder EXCEPT ![s] = u]
    /\ Connect(s)
    /\ InvalidatePool(s)

-----------------------------------------------------------------------------
(* Statements, and the handle_error listeners in the order they run.       *)

StatementDone(u, s) ==
    /\ holder[s] = u /\ link[s] = "alive"
    /\ \E more \in SUBSET {"kept"} : left' = [left EXCEPT ![s] = @ \union {"txn"} \union more]
    /\ idle' = [idle EXCEPT ![s] = 0]
    /\ UNCHANGED <<holder, link, needsReset, age, stale, failures, parked>>

\* Faulty variant: nothing is flagged.
FlagNothing(s) == FALSE

\* _flag_for_reset: the error came over a connection that is not lost.
FlagForReset(s) == TRUE

\* Faulty variant: an error is flagged before it is known to be a lost connection.
FlagFirst(s, driver, remains) ==
    /\ needsReset' = [needsReset EXCEPT ![s] = TRUE]
    /\ IF Raised(driver).invalidated
       THEN Disconnect(s) /\ InvalidatePool(s)
       ELSE /\ left' = [left EXCEPT ![s] = remains]
            /\ UNCHANGED <<link, stale, parked>>

\* _detect_terminated_session, _flag_for_reset and _log_disconnect, and what
\* SQLAlchemy does with their verdict.
HandleError(s, driver, remains) ==
    IF Raised(driver).invalidated
    THEN Close(s) /\ InvalidatePool(s)
    ELSE /\ needsReset' = [needsReset EXCEPT ![s] = @ \/ FlagForReset(s)]
         /\ left' = [left EXCEPT ![s] = remains]
         /\ UNCHANGED <<link, stale, parked>>

\* The batch may have stopped before it restored a setting, and the server may
\* have rolled the transaction back.
StatementRefused(u, s, driver) ==
    /\ holder[s] = u /\ link[s] = "alive"
    /\ \E ended \in SUBSET {"txn"}, more \in SUBSET {"failed"} :
           HandleError(s, driver, ((left[s] \union {"txn"}) \ ended) \union more)
    /\ idle' = [idle EXCEPT ![s] = 0]
    /\ UNCHANGED <<holder, age, failures>>

StatementLost(u, s, driver) ==
    /\ holder[s] = u /\ link[s] \in {"dead", "silent"}
    /\ driver = TerminatedByServer => link[s] = "dead"
    /\ HandleError(s, driver, {})
    /\ failures' = [failures EXCEPT ![s] = IF @ < 2 THEN @ + 1 ELSE @]
    /\ UNCHANGED <<holder, age, idle>>

\* The user commits or rolls back, and keeps its connection.
EndTransaction(u, s) ==
    /\ holder[s] = u /\ link[s] = "alive" /\ "txn" \in left[s]
    /\ left' = [left EXCEPT ![s] = @ \ {"txn"}]
    /\ idle' = [idle EXCEPT ![s] = 0]
    /\ UNCHANGED <<holder, link, needsReset, age, stale, failures, parked>>

-----------------------------------------------------------------------------
(* Return to the pool: _reset_after_error, then SQLAlchemy's rollback.     *)

AfterReset(s) == IF needsReset[s] THEN {} ELSE left[s] \ {"txn"}

PoolIsFull == Cardinality({s \in Slots : holder[s] = Nobody /\ link[s] # "closed"}) >= PoolSize

ReturnClean(u, s) ==
    /\ holder[s] = u /\ link[s] = "alive" /\ ~PoolIsFull
    /\ holder' = [holder EXCEPT ![s] = Nobody]
    /\ left' = [left EXCEPT ![s] = AfterReset(s)]
    /\ needsReset' = [needsReset EXCEPT ![s] = FALSE]
    /\ idle' = [idle EXCEPT ![s] = 0]
    /\ UNCHANGED <<link, age, stale, failures, parked>>

\* An overflow connection is closed; so is one whose reset fails, as every
\* round trip over a connection that is no longer alive does.
ReturnClosed(u, s) ==
    /\ holder[s] = u
    /\ link[s] \in {"alive", "dead", "silent"}
    /\ link[s] = "alive" => PoolIsFull
    /\ holder' = [holder EXCEPT ![s] = Nobody]
    /\ Close(s)
    /\ UNCHANGED <<age, idle, stale, failures>>

\* With no transaction open the driver may have no rollback to send, and the
\* pool gets back a connection nobody knows to be lost.
ReturnUnnoticed(u, s) ==
    /\ holder[s] = u
    /\ link[s] \in {"dead", "silent"} /\ ~needsReset[s] /\ "txn" \notin left[s]
    /\ ~PoolIsFull
    /\ holder' = [holder EXCEPT ![s] = Nobody]
    /\ UNCHANGED <<link, left, needsReset, age, idle, stale, failures, parked>>

ReturnInvalidated(u, s) ==
    /\ holder[s] = u /\ link[s] = "closed"
    /\ holder' = [holder EXCEPT ![s] = Nobody]
    /\ UNCHANGED <<link, left, needsReset, age, idle, stale, failures, parked>>

-----------------------------------------------------------------------------
(* The server, the network and time.                                       *)

Kill(s) ==
    /\ link[s] = "alive"
    /\ link' = [link EXCEPT ![s] = "dead"]
    /\ left' = [left EXCEPT ![s] = {}]
    /\ UNCHANGED <<holder, needsReset, age, idle, stale, failures, parked>>

FirewallDrops(s) ==
    /\ link[s] = "alive" /\ idle[s] >= FirewallIdle
    /\ link' = [link EXCEPT ![s] = "silent"]
    /\ UNCHANGED <<holder, left, needsReset, age, idle, stale, failures, parked>>

Later(ticks) == [s \in Slots |-> IF link[s] = "closed" \/ ticks[s] = MaxAge
                                THEN ticks[s] ELSE ticks[s] + 1]

Tick ==
    /\ age' = Later(age)
    /\ idle' = Later(idle)
    /\ UNCHANGED <<holder, link, left, needsReset, stale, failures, parked>>

PoolNext ==
    \/ \E s \in Slots :
        \/ \E u \in Users :
            \/ CheckOutNew(u, s)
            \/ CheckOutPinged(u, s)
            \/ CheckOutReplaced(u, s)
            \/ StatementDone(u, s)
            \/ \E driver \in {DuplicateKey, BusyConnection} : StatementRefused(u, s, driver)
            \/ \E driver \in {LostExecuting, TerminatedByServer} : StatementLost(u, s, driver)
            \/ EndTransaction(u, s)
            \/ ReturnClean(u, s)
            \/ ReturnClosed(u, s)
            \/ ReturnUnnoticed(u, s)
            \/ ReturnInvalidated(u, s)
        \/ Kill(s)
        \/ FirewallDrops(s)
    \/ Tick

PoolSpec == PoolInit /\ [][PoolNext]_poolVars

-----------------------------------------------------------------------------
(* Properties.                                                             *)

\* Types; no user has two connections, and a closed one has nothing left.
PoolTypeOK ==
    /\ holder \in [Slots -> Users \union {Nobody}]
    /\ link \in [Slots -> Links]
    /\ left \in [Slots -> SUBSET Leftovers]
    /\ needsReset \in [Slots -> BOOLEAN]
    /\ age \in [Slots -> 0..MaxAge] /\ idle \in [Slots -> 0..MaxAge]
    /\ stale \in [Slots -> BOOLEAN]
    /\ failures \in [Slots -> 0..2]
    /\ parked \subseteq SUBSET Leftovers
    /\ \A s, t \in Slots : holder[s] = holder[t] /\ holder[s] # Nobody => s = t
    /\ \A s \in Slots : link[s] = "closed" => left[s] = {} /\ ~needsReset[s]

\* A user who is given a connection finds no open transaction, and no setting
\* that a failed batch of an earlier user left behind, over however many users,
\* kills, discarded and reopened connections that batch was ago.
InheritsNothing ==
    [][\A s \in Slots : holder'[s] # Nobody /\ holder'[s] # holder[s]
                        => left'[s] \subseteq {"kept"}]_poolVars

\* A session that ended fails one statement: the first failure, whatever
\* SQLSTATE pyodbc reports it with, is the last one over that connection.
DeadSessionFailsOnce == \A s \in Slots : failures[s] <= 1

\* Nothing is sent at checkout over a connection the firewall dropped without a
\* word, where a pre-ping would block: it is already due to be replaced.
SilentIsExpired ==
    \A s \in Slots : holder[s] = Nobody /\ link[s] = "silent" => Expired(s)
=============================================================================
