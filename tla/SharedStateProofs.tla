------------------------- MODULE SharedStateProofs -------------------------
(***************************************************************************)
(* Theorems about what the threads of a process share: the one engine that *)
(* DatabaseRuntime makes, for any threads, runtimes and numbers of calls;  *)
(* what its ConnectionPool hands out, for any users, slots, pool size, and *)
(* any pool_recycle below the firewall's limit; and the value of a         *)
(* LazyValueCache, for any readers, writers, versions and numbers of gets. *)
(* The three specifications share no variable.                             *)
(***************************************************************************)
EXTENDS DatabaseRuntime, ConnectionPool, LazyValueCache, TLAPS

-----------------------------------------------------------------------------
(* DatabaseRuntime: the locks and the engines.                             *)

\* The steps under _engine_lock, those that build an engine, and those that have it.
InEngine == {"engineAgain?", "disable", "create", "install", "publish"}
Building == {"install", "publish"}

\* The steps under _session_factory_lock.
InFactory(t) ==
    \/ pc[t] \in {"factoryAgain?", "bind"}
    \/ wants[t] = "session" /\ pc[t] \in {"engine?", "lockEngine"} \union InEngine

\* A lock is held by the one thread that is between its acquisition and release.
LockInv ==
    \A t \in Threads :
        /\ \A r \in Runtimes :
               /\ engineLock[r] = t <=> rt[t] = r /\ pc[t] \in InEngine
               /\ factoryLock[r] = t <=> rt[t] = r /\ InFactory(t)
        /\ pc[t] \in {"factory?", "lockFactory", "factoryAgain?", "bind", "open", "use"}
               => wants[t] = "session"

\* An engine of a runtime is the one it shares, or one that is being built by
\* whoever holds the lock, and then it shares none.
EngineInv ==
    /\ OneEngine
    /\ \A r \in Runtimes :
           /\ engine[r] # None =>
                  owner[engine[r]] = r /\ installed[engine[r]] = Listeners /\ ~pooling
           /\ factory[r] # None => factory[r] = engine[r]
    /\ \A t \in Threads :
           /\ pc[t] \in InEngine \ {"engineAgain?"} => engine[rt[t]] = None
           /\ pc[t] \in Building \union {"create"} => ~pooling
           /\ pc[t] \in Building => got[t] \in Engines /\ owner[got[t]] = rt[t]
           /\ pc[t] = "install" => installed[got[t]] < Listeners
           /\ pc[t] = "publish" => installed[got[t]] = Listeners
    /\ \A e \in Engines :
           /\ owner[e] = None => installed[e] = 0
           /\ owner[e] # None =>
                  \/ engine[owner[e]] = e
                  \/ \E t \in Threads : pc[t] \in Building /\ got[t] = e

\* What a thread was given is its runtime's.
GotInv ==
    \A t \in Threads :
        /\ pc[t] = "bind" => got[t] \in Engines
        /\ pc[t] \in {"open", "use"} => factory[rt[t]] # None
        /\ pc[t] \in {"idle", "bind", "open", "use"} /\ got[t] \in Engines => got[t] = engine[rt[t]]

RtIInv == RtTypeOK /\ LockInv /\ EngineInv /\ GotInv

LEMMA RtInitInv == RtInit => RtIInv
  <1> SUFFICES ASSUME RtInit PROVE RtIInv
    OBVIOUS
  <1> USE RuntimeAssumption DEF RtInit, InEngine, Building, Listeners
  <1>1. RtTypeOK
    BY DEF RtTypeOK, PCs
  <1>2. LockInv
    BY DEF LockInv, InFactory
  <1>3. EngineInv /\ GotInv
    BY DEF EngineInv, GotInv, OneEngine
  <1> QED
    BY <1>1, <1>2, <1>3 DEF RtIInv

LEMMA RtStepInv == RtIInv /\ [RtNext]_rtVars => RtIInv'
  <1> SUFFICES ASSUME RtIInv, [RtNext]_rtVars PROVE RtIInv'
    OBVIOUS
  <1> USE RuntimeAssumption
      DEF RtIInv, RtTypeOK, LockInv, EngineInv, GotInv, OneEngine, PCs, InEngine, Building,
          InFactory, Listeners, Goto, Receive, Released, Returned, threadVars, engineVars, factoryVars
  <1>1. ASSUME NEW t \in Threads, Call(t) PROVE RtIInv'
    BY <1>1 DEF Call
  <1>2. ASSUME NEW t \in Threads, SeeFactory(t) PROVE RtIInv'
    BY <1>2 DEF SeeFactory
  <1>3. ASSUME NEW t \in Threads, LockFactory(t) PROVE RtIInv'
    BY <1>3 DEF LockFactory
  <1>4. ASSUME NEW t \in Threads, SeeFactoryAgain(t) PROVE RtIInv'
    BY <1>4 DEF SeeFactoryAgain
  <1>5. ASSUME NEW t \in Threads, Bind(t) PROVE RtIInv'
    BY <1>5 DEF Bind
  <1>6. ASSUME NEW t \in Threads, SeeEngine(t) PROVE RtIInv'
    BY <1>6 DEF SeeEngine
  <1>7. ASSUME NEW t \in Threads, LockEngine(t) PROVE RtIInv'
    BY <1>7 DEF LockEngine
  <1>8. ASSUME NEW t \in Threads, SeeEngineAgain(t) PROVE RtIInv'
    BY <1>8 DEF SeeEngineAgain
  <1>9. ASSUME NEW t \in Threads, Disable(t) PROVE RtIInv'
    <2>1. /\ pc[t] = "disable" /\ pc' = [pc EXCEPT ![t] = "create"] /\ pooling' = FALSE
          /\ UNCHANGED <<got, rt, wants, calls, sessionOpen, factory, factoryLock, engine,
                         engineLock, owner, installed>>
      BY <1>9 DEF Disable
    <2>2. RtTypeOK' /\ LockInv'
      <3>1. pooling' \in BOOLEAN
        BY ONLY <2>1
      <3>2. LockInv'
        BY <2>1
      <3>3. pc' \in [Threads -> PCs]
        BY <2>1
      <3>4. \A u \in Threads : pc'[u] \in {"idle", "open", "use"} => pc[u] = pc'[u]
        BY <2>1
      <3> QED
        BY <2>1, <3>1, <3>2, <3>3, <3>4
    <2>3. \A u \in Threads : pc[u] \in Building => u # t /\ pc'[u] = pc[u]
      <3>1. pc \in [Threads -> PCs] /\ pc[t] \notin Building
        BY <2>1
      <3> QED
        BY ONLY <2>1, <3>1
    <2>4. EngineInv'
      <3>1. \A e \in Engines :
                /\ owner'[e] = None => installed'[e] = 0
                /\ owner'[e] # None =>
                       \/ engine'[owner'[e]] = e
                       \/ \E u \in Threads : pc'[u] \in Building /\ got'[u] = e
        BY <2>1, <2>3
      <3>2. \A u \in Threads :
                /\ pc'[u] \in InEngine \ {"engineAgain?"} => engine'[rt'[u]] = None
                /\ ~pooling'
                /\ pc'[u] \in Building => got'[u] \in Engines /\ owner'[got'[u]] = rt'[u]
                /\ pc'[u] = "install" => installed'[got'[u]] < Listeners
                /\ pc'[u] = "publish" => installed'[got'[u]] = Listeners
        BY <2>1
      <3> QED
        BY <2>1, <3>1, <3>2
    <2>5. GotInv'
      BY <2>1
    <2> QED
      BY <2>2, <2>4, <2>5
  <1>10. ASSUME NEW t \in Threads, Create(t) PROVE RtIInv'
    <2>1. PICK e \in Engines :
              /\ owner[e] = None /\ owner' = [owner EXCEPT ![e] = rt[t]]
              /\ got' = [got EXCEPT ![t] = e]
      BY <1>10 DEF Create, NewEngine, Unused
    <2>2. /\ pc[t] = "create" /\ pc' = [pc EXCEPT ![t] = "install"]
          /\ UNCHANGED <<rt, wants, calls, sessionOpen, factory, factoryLock, engine, engineLock,
                         installed, pooling>>
      BY <1>10 DEF Create
    <2>3. RtTypeOK' /\ LockInv'
      BY <2>1, <2>2
    <2>4. \A d \in Engines : owner[d] # rt[t]
      <3>1. engine[rt[t]] = None
        BY <2>2
      <3>2. \A u \in Threads : pc[u] \in Building => rt[u] # rt[t]
        BY <2>2
      <3>3. ASSUME NEW u \in Threads, pc[u] \in Building PROVE owner[got[u]] = rt[u]
        BY <3>3
      <3> QED
        BY <3>1, <3>2, <3>3
    <2>5. installed[e] = 0
      BY <2>1
    <2>6. OneEngine'
      BY <2>1, <2>4
    <2>7. \A d \in Engines \ {e} : owner'[d] = owner[d]
      BY <2>1
    <2>8. \A u \in Threads \ {t} : pc'[u] = pc[u] /\ got'[u] = got[u]
      BY <2>1, <2>2
    <2>9. pc'[t] = "install" /\ got'[t] = e /\ owner'[e] = rt[t]
      BY <2>1, <2>2
    <2>10. \A d \in Engines :
               /\ owner'[d] = None => installed'[d] = 0
               /\ owner'[d] # None =>
                      \/ engine'[owner'[d]] = d
                      \/ \E u \in Threads : pc'[u] \in Building /\ got'[u] = d
      BY <2>2, <2>7, <2>8, <2>9
    <2>11. \A r \in Runtimes :
               /\ engine'[r] # None => owner'[engine'[r]] = r
               /\ engine'[r] # None => installed'[engine'[r]] = Listeners /\ ~pooling'
               /\ factory'[r] # None => factory'[r] = engine'[r]
      BY <2>1, <2>2, <2>7
    <2>12. \A u \in Threads :
               /\ pc'[u] \in InEngine \ {"engineAgain?"} => engine'[rt'[u]] = None
               /\ pc'[u] \in Building \union {"create"} => ~pooling'
               /\ pc'[u] \in Building => got'[u] \in Engines /\ owner'[got'[u]] = rt'[u]
               /\ pc'[u] = "install" => installed'[got'[u]] < Listeners
               /\ pc'[u] = "publish" => installed'[got'[u]] = Listeners
      BY <2>1, <2>2, <2>5, <2>7, <2>8, <2>9
    <2>13. EngineInv'
      BY <2>6, <2>10, <2>11, <2>12
    <2>14. GotInv'
      BY <2>2, <2>8, <2>9
    <2> QED
      BY <2>3, <2>13, <2>14
  <1>11. ASSUME NEW t \in Threads, ResolverRaises(t) PROVE RtIInv'
    BY <1>11 DEF ResolverRaises
  <1>12. ASSUME NEW t \in Threads, Install(t) PROVE RtIInv'
    BY <1>12 DEF Install
  <1>13. ASSUME NEW t \in Threads, Publish(t) PROVE RtIInv'
    BY <1>13 DEF Publish
  <1>14. ASSUME NEW t \in Threads, Open(t) PROVE RtIInv'
    <2>1. /\ pc[t] = "open" /\ pc' = [pc EXCEPT ![t] = "use"]
          /\ got' = [got EXCEPT ![t] = factory[rt[t]]]
          /\ sessionOpen' = [sessionOpen EXCEPT ![t] = TRUE]
          /\ UNCHANGED <<rt, wants, calls, factory, factoryLock, engine, engineLock, owner,
                         installed, pooling>>
      BY <1>14 DEF Open
    <2>2. RtTypeOK' /\ LockInv'
      BY <2>1
    <2>3. EngineInv'
      BY <2>1
    <2>4. GotInv'
      BY <2>1
    <2> QED
      BY <2>2, <2>3, <2>4
  <1>15. ASSUME NEW t \in Threads, CloseSession(t) PROVE RtIInv'
    BY <1>15 DEF CloseSession
  <1>16. CASE UNCHANGED rtVars
    BY <1>16 DEF rtVars
  <1> HIDE DEF RtIInv
  <1> QED
    BY <1>1, <1>2, <1>3, <1>4, <1>5, <1>6, <1>7, <1>8, <1>9, <1>10, <1>11, <1>12, <1>13, <1>14,
       <1>15, <1>16
    DEF RtNext, Continue

LEMMA RtInvariance == RtSpec => []RtIInv
  BY RtInitInv, RtStepInv, PTL DEF RtSpec

\* Type correctness of the runtimes and their threads, and no lock is kept by a
\* thread whose call is over or uses its session.
THEOREM RtTypeCorrect == RtSpec => []RtTypeOK
  <1>1. RtIInv => RtTypeOK
    BY DEF RtIInv
  <1> QED
    BY <1>1, RtInvariance, PTL

\* However many threads race for a runtime's engine, and however often its
\* resolver raises, one engine is created.
THEOREM OnlyEngine == RtSpec => []OneEngine
  <1>1. RtIInv => OneEngine
    BY DEF RtIInv, EngineInv
  <1> QED
    BY <1>1, RtInvariance, PTL

\* No thread gets an engine or a session before the engine's listeners are
\* installed and pyodbc's pooling is off, or one of another database.
THEOREM SharedWhenReady == RtSpec => []ReadyWhenShared
  <1>1. RtIInv => ReadyWhenShared
    <2> SUFFICES ASSUME RtIInv, NEW t \in Threads,
                        pc[t] \in {"idle", "bind", "use"}, got[t] \in Engines
                 PROVE  /\ owner[got[t]] = rt[t] /\ engine[rt[t]] = got[t]
                        /\ installed[got[t]] = Listeners
                        /\ ~pooling
      BY DEF ReadyWhenShared
    <2>1. got[t] = engine[rt[t]] /\ rt[t] \in Runtimes
      BY DEF RtIInv, GotInv, RtTypeOK
    <2>2. engine[rt[t]] # None
      BY <2>1, RuntimeAssumption
    <2> QED
      BY <2>1, <2>2 DEF RtIInv, EngineInv
  <1> QED
    BY <1>1, RtInvariance, PTL

-----------------------------------------------------------------------------
(* ConnectionPool: what a failure says of its connection.                  *)

\* Which failures discard the connection, and which leave it to be reset.
LEMMA Verdicts ==
    /\ Raised(LostExecuting).invalidated /\ Raised(TerminatedByServer).invalidated
    /\ ~Raised(DuplicateKey).invalidated /\ ~Raised(BusyConnection).invalidated
  <1>1. LostExecuting.sqlstate = "08S01" /\ TerminatedByServer.sqlstate = "HY000"
    BY DEF LostExecuting, TerminatedByServer, DriverError
  <1>2. DuplicateKey.sqlstate = "23000" /\ BusyConnection.sqlstate = "HY000"
    BY DEF DuplicateKey, BusyConnection, DriverError
  <1>3. "terminated by the server" \in TerminatedByServer.message.phrases
    BY DEF TerminatedByServer, DriverError, Message
  <1>4. "terminated by the server" \notin BusyConnection.message.phrases
    BY DEF BusyConnection, DriverError, Message
  <1>5. ASSUME NEW d
        PROVE  Raised(d).invalidated <=> DialectIsDisconnect(d) \/ DetectTerminatedSession(d)
    BY DEF Raised
  <1> QED
    BY <1>1, <1>2, <1>3, <1>4, <1>5 DEF DialectIsDisconnect, DetectTerminatedSession

-----------------------------------------------------------------------------
(* The inductive invariant of the pool, slot by slot.                      *)

\* An error that left something behind is remembered for as long as the
\* connection is out, and nothing is left behind once it is back.
ResetInv(s) ==
    /\ "failed" \in left[s] => needsReset[s]
    /\ holder[s] = Nobody => left[s] \subseteq {"kept"} /\ ~needsReset[s]

\* A connection is at least as old as its silence is long.
AgeInv(s) ==
    /\ idle[s] <= age[s]
    /\ link[s] = "silent" => idle[s] >= FirewallIdle

\* A failure over a session that ended closes the connection.
FailureInv(s) ==
    /\ failures[s] <= 1
    /\ link[s] # "closed" => failures[s] = 0

SlotInv(s) == ResetInv(s) /\ AgeInv(s) /\ FailureInv(s)

PoolIInv == PoolTypeOK /\ parked = {} /\ \A s \in Slots : SlotInv(s)

LEMMA PoolInitInv == PoolInit => PoolIInv
  BY PoolAssumption
  DEF PoolInit, PoolIInv, PoolTypeOK, SlotInv, ResetInv, AgeInv, FailureInv, Links, Leftovers,
      MaxAge

LEMMA PoolStepInv == PoolIInv /\ [PoolNext]_poolVars => PoolIInv'
  <1> SUFFICES ASSUME PoolIInv, [PoolNext]_poolVars PROVE PoolIInv'
    OBVIOUS
  <1> USE PoolAssumption
      DEF PoolIInv, PoolTypeOK, SlotInv, ResetInv, AgeInv, FailureInv, Links, Leftovers, MaxAge
  <1>1. ASSUME NEW s \in Slots, NEW u \in Users, CheckOutNew(u, s) PROVE PoolIInv'
    BY <1>1 DEF CheckOutNew, CanCheckOut, Connect, Parked, DriverPooling
  <1>2. ASSUME NEW s \in Slots, NEW u \in Users, CheckOutPinged(u, s) PROVE PoolIInv'
    BY <1>2 DEF CheckOutPinged, CanCheckOut
  <1>3. ASSUME NEW s \in Slots, NEW u \in Users, CheckOutReplaced(u, s) PROVE PoolIInv'
    BY <1>3 DEF CheckOutReplaced, CanCheckOut, Connect, Parked, DriverPooling, InvalidatePool
  <1>4. ASSUME NEW s \in Slots, NEW u \in Users, StatementDone(u, s) PROVE PoolIInv'
    <2>1. PICK more \in SUBSET {"kept"} :
              left' = [left EXCEPT ![s] = left[s] \union {"txn"} \union more]
      BY <1>4 DEF StatementDone
    <2>2. left[s] \union {"txn"} \union more \in SUBSET Leftovers
      OBVIOUS
    <2>3. left' \in [Slots -> SUBSET Leftovers]
      BY <2>1, <2>2
    <2>4. "failed" \in left'[s] => needsReset[s]
      BY <2>1
    <2>5. \A t \in Slots \ {s} : left'[t] = left[t]
      BY <2>1
    <2>6. /\ holder[s] = u /\ link[s] = "alive" /\ idle' = [idle EXCEPT ![s] = 0]
          /\ UNCHANGED <<holder, link, needsReset, age, stale, failures, parked>>
      BY <1>4 DEF StatementDone
    <2>7. PoolTypeOK'
      BY <2>3, <2>5, <2>6
    <2>8. \A t \in Slots : SlotInv(t)'
      BY <2>4, <2>5, <2>6
    <2> QED
      BY <2>6, <2>7, <2>8
  <1>5. ASSUME NEW s \in Slots, NEW u \in Users,
              NEW driver \in {DuplicateKey, BusyConnection},
              StatementRefused(u, s, driver)
       PROVE  PoolIInv'
    <2>1. ~Raised(driver).invalidated
      BY Verdicts
    <2>2. PICK ended \in SUBSET {"txn"}, more \in SUBSET {"failed"} :
              left' = [left EXCEPT ![s] = ((left[s] \union {"txn"}) \ ended) \union more]
      BY <1>5, <2>1 DEF StatementRefused, HandleError
    <2>3. /\ holder[s] = u /\ link[s] = "alive" /\ idle' = [idle EXCEPT ![s] = 0]
          /\ needsReset' = [needsReset EXCEPT ![s] = TRUE]
          /\ UNCHANGED <<holder, link, stale, parked, age, failures>>
      BY <1>5, <2>1 DEF StatementRefused, HandleError, FlagForReset
    <2>4. ((left[s] \union {"txn"}) \ ended) \union more \in SUBSET Leftovers
      OBVIOUS
    <2>5. left' \in [Slots -> SUBSET Leftovers]
      BY <2>2, <2>4
    <2>6. \A t \in Slots \ {s} : left'[t] = left[t]
      BY <2>2
    <2>7. PoolTypeOK'
      <3>1. needsReset' \in [Slots -> BOOLEAN] /\ idle' \in [Slots -> 0..MaxAge]
        BY <2>3
      <3>2. \A t \in Slots : link'[t] = "closed" => left'[t] = {} /\ ~needsReset'[t]
        BY <2>3, <2>6
      <3> QED
        BY <2>3, <2>5, <3>1, <3>2
    <2>8. \A t \in Slots : SlotInv(t)'
      BY <2>3, <2>6
    <2> QED
      BY <2>3, <2>7, <2>8
  <1>6. ASSUME NEW s \in Slots, NEW u \in Users,
              NEW driver \in {LostExecuting, TerminatedByServer},
              StatementLost(u, s, driver)
       PROVE  PoolIInv'
    <2>1. Raised(driver).invalidated
      BY Verdicts
    <2>2. /\ holder[s] = u /\ link[s] # "closed"
          /\ link' = [link EXCEPT ![s] = "closed"] /\ left' = [left EXCEPT ![s] = {}]
          /\ needsReset' = [needsReset EXCEPT ![s] = FALSE]
          /\ parked' = parked
          /\ stale' = [t \in Slots |-> link[t] # "closed" /\ t # s]
      BY <1>6, <2>1
       DEF StatementLost, HandleError, Close, Disconnect, Parked, DriverPooling, InvalidatePool
    <2>3. /\ failures' = [failures EXCEPT ![s] = 1]
          /\ UNCHANGED <<holder, age, idle>>
      <3>1. failures[s] = 0
        BY <2>2
      <3>2. /\ failures' = [failures EXCEPT ![s] = IF failures[s] < 2 THEN failures[s] + 1
                                                                 ELSE failures[s]]
            /\ UNCHANGED <<holder, age, idle>>
        BY <1>6 DEF StatementLost
      <3> QED
        BY ONLY <3>1, <3>2
    <2> QED
      BY <2>2, <2>3
  <1>7. ASSUME NEW s \in Slots, NEW u \in Users, EndTransaction(u, s) PROVE PoolIInv'
    BY <1>7 DEF EndTransaction
  <1>8. ASSUME NEW s \in Slots, NEW u \in Users, ReturnClean(u, s) PROVE PoolIInv'
    BY <1>8 DEF ReturnClean, AfterReset
  <1>9. ASSUME NEW s \in Slots, NEW u \in Users, ReturnClosed(u, s) PROVE PoolIInv'
    BY <1>9 DEF ReturnClosed, Close, Disconnect, Parked, DriverPooling
  <1>10. ASSUME NEW s \in Slots, NEW u \in Users, ReturnUnnoticed(u, s) PROVE PoolIInv'
    BY <1>10 DEF ReturnUnnoticed
  <1>11. ASSUME NEW s \in Slots, NEW u \in Users, ReturnInvalidated(u, s) PROVE PoolIInv'
    BY <1>11 DEF ReturnInvalidated
  <1>12. ASSUME NEW s \in Slots, Kill(s) PROVE PoolIInv'
    BY <1>12 DEF Kill
  <1>13. ASSUME NEW s \in Slots, FirewallDrops(s) PROVE PoolIInv'
    BY <1>13 DEF FirewallDrops
  <1>14. CASE Tick
    BY <1>14 DEF Tick, Later
  <1>15. CASE UNCHANGED poolVars
    BY <1>15 DEF poolVars
  <1> HIDE DEF PoolIInv
  <1> QED
    BY <1>1, <1>2, <1>3, <1>4, <1>5, <1>6, <1>7, <1>8, <1>9, <1>10, <1>11, <1>12, <1>13, <1>14,
       <1>15
    DEF PoolNext

LEMMA PoolInvariance == PoolSpec => []PoolIInv
  BY PoolInitInv, PoolStepInv, PTL DEF PoolSpec

\* Type correctness of the pool; a user has one connection, a closed one nothing.
THEOREM PoolTypeCorrect == PoolSpec => []PoolTypeOK
  <1>1. PoolIInv => PoolTypeOK
    BY DEF PoolIInv
  <1> QED
    BY <1>1, PoolInvariance, PTL

\* However many users a connection has had, and whatever failed between, the
\* next one gets it without an open transaction or a failed batch's settings.
THEOREM NothingInherited == PoolSpec => InheritsNothing
  <1>1. PoolIInv /\ [PoolNext]_poolVars
        => [\A s \in Slots : holder'[s] # Nobody /\ holder'[s] # holder[s]
                             => left'[s] \subseteq {"kept"}]_poolVars
    <2> SUFFICES ASSUME PoolIInv, PoolNext, NEW s \in Slots,
                        holder'[s] # Nobody, holder'[s] # holder[s]
                 PROVE  left'[s] \subseteq {"kept"}
      BY DEF poolVars
    <2> USE PoolAssumption DEF PoolIInv, PoolTypeOK, SlotInv, ResetInv
    <2>1. ASSUME NEW t \in Slots, NEW u \in Users,
                 CheckOutNew(u, t) \/ CheckOutReplaced(u, t)
          PROVE  left'[s] \subseteq {"kept"}
      BY <2>1 DEF CheckOutNew, CheckOutReplaced, CanCheckOut, Connect, Parked, DriverPooling
    <2>2. ASSUME NEW t \in Slots, NEW u \in Users, CheckOutPinged(u, t)
          PROVE  left'[s] \subseteq {"kept"}
      BY <2>2 DEF CheckOutPinged, CanCheckOut
    <2>3. ASSUME NEW t \in Slots, NEW u \in Users, NEW driver,
                 \/ StatementDone(u, t) \/ StatementRefused(u, t, driver)
                 \/ StatementLost(u, t, driver) \/ EndTransaction(u, t)
                 \/ Kill(t) \/ FirewallDrops(t) \/ Tick
          PROVE  FALSE
      BY <2>3 DEF StatementDone, StatementRefused, StatementLost, EndTransaction, Kill,
                  FirewallDrops, Tick
    <2>4. ASSUME NEW t \in Slots, NEW u \in Users,
                 \/ ReturnClean(u, t) \/ ReturnClosed(u, t)
                 \/ ReturnUnnoticed(u, t) \/ ReturnInvalidated(u, t)
          PROVE  FALSE
      BY <2>4 DEF ReturnClean, ReturnClosed, ReturnUnnoticed, ReturnInvalidated
    <2> HIDE DEF PoolIInv
    <2> QED
      BY <2>1, <2>2, <2>3, <2>4 DEF PoolNext, Kill, FirewallDrops, Tick
  <1> QED
    BY <1>1, PoolInvariance, PTL DEF PoolSpec, InheritsNothing

\* A session that ended fails one statement.
THEOREM OneFailure == PoolSpec => []DeadSessionFailsOnce
  <1>1. PoolIInv => DeadSessionFailsOnce
    BY DEF PoolIInv, SlotInv, FailureInv, DeadSessionFailsOnce
  <1> QED
    BY <1>1, PoolInvariance, PTL

\* Whatever pool_recycle is, if it is below the firewall's limit then no
\* pre-ping is sent over a connection that the firewall dropped.
THEOREM NoBlockingPing == PoolSpec => []SilentIsExpired
  <1>1. PoolIInv => SilentIsExpired
    <2> SUFFICES ASSUME PoolIInv, NEW s \in Slots, link[s] = "silent" PROVE age[s] > Recycle
      BY DEF SilentIsExpired, Expired
    <2>1. idle[s] <= age[s] /\ idle[s] >= FirewallIdle /\ idle[s] \in Nat /\ age[s] \in Nat
      BY PoolAssumption DEF PoolIInv, PoolTypeOK, SlotInv, AgeInv, MaxAge
    <2> QED
      BY <2>1, PoolAssumption, RecycleAssumption
  <1> QED
    BY <1>1, PoolInvariance, PTL

-----------------------------------------------------------------------------
(* LazyValueCache.                                                         *)

\* The versions follow each other: what a get may return, what the cache was
\* cleared for, what it holds or is about to hold, and what there is to load.
VersionsInOrder ==
    /\ settled <= source
    /\ value # Unset => settled <= value
    /\ \A r \in Readers :
           /\ floor[r] <= settled
           /\ at[r] = "store" => settled <= result[r]

\* Whoever loads holds the lock, found nothing under it, and so will be first.
LoaderIsFirst ==
    /\ loads = IF value = Unset THEN 0 ELSE 1
    /\ \A r \in Readers : at[r] \in {"load", "store"} => value = Unset

CacheIInv == CacheTypeOK /\ VersionsInOrder /\ LoaderIsFirst /\ FreshAfterInvalidate

LEMMA CacheInitInv == CacheInit => CacheIInv
  BY CacheAssumption
  DEF CacheInit, CacheIInv, CacheTypeOK, VersionsInOrder, LoaderIsFirst, FreshAfterInvalidate,
      Versions, Processes, Unset

LEMMA CacheStepInv == CacheIInv /\ [CacheNext]_cacheVars => CacheIInv'
  <1> SUFFICES ASSUME CacheIInv, [CacheNext]_cacheVars PROVE CacheIInv'
    OBVIOUS
  <1> USE CacheAssumption
      DEF CacheIInv, CacheTypeOK, VersionsInOrder, LoaderIsFirst, FreshAfterInvalidate,
          Versions, Processes, Unset, Step, Acquire, Release
  <1>1. ASSUME NEW r \in Readers, Get(r) PROVE CacheIInv'
    BY <1>1 DEF Get
  <1>2. ASSUME NEW r \in Readers, Look(r) PROVE CacheIInv'
    BY <1>2 DEF Look
  <1>3. ASSUME NEW r \in Readers, LockToLoad(r) PROVE CacheIInv'
    BY <1>3 DEF LockToLoad
  <1>4. ASSUME NEW r \in Readers, LookAgain(r) PROVE CacheIInv'
    BY <1>4 DEF LookAgain
  <1>5. ASSUME NEW r \in Readers, Load(r) PROVE CacheIInv'
    BY <1>5 DEF Load
  <1>6. ASSUME NEW r \in Readers, LoaderRaises(r) PROVE CacheIInv'
    BY <1>6 DEF LoaderRaises
  <1>7. ASSUME NEW r \in Readers, Store(r) PROVE CacheIInv'
    BY <1>7 DEF Store
  <1>8. ASSUME NEW r \in Readers, Return(r) PROVE CacheIInv'
    BY <1>8 DEF Return
  <1>9. ASSUME NEW w \in Writers, Change(w) PROVE CacheIInv'
    BY <1>9 DEF Change
  <1>10. ASSUME NEW w \in Writers, Invalidate(w) PROVE CacheIInv'
    BY <1>10 DEF Invalidate
  <1>11. CASE UNCHANGED cacheVars
    BY <1>11 DEF cacheVars
  <1> HIDE DEF CacheIInv
  <1> QED
    BY <1>1, <1>2, <1>3, <1>4, <1>5, <1>6, <1>7, <1>8, <1>9, <1>10, <1>11
    DEF CacheNext, Reader

LEMMA CacheInvariance == CacheSpec => []CacheIInv
  BY CacheInitInv, CacheStepInv, PTL DEF CacheSpec

\* Type correctness of the cache; the lock belongs to a reader that is between
\* its acquisition and its release.
THEOREM CacheTypeCorrect == CacheSpec => []CacheTypeOK
  <1>1. CacheIInv => CacheTypeOK
    BY DEF CacheIInv
  <1> QED
    BY <1>1, CacheInvariance, PTL

\* No get returns a value older than the newest invalidate that had returned
\* when it was called, whatever loads were in progress.
THEOREM AlwaysFresh == CacheSpec => []FreshAfterInvalidate
  <1>1. CacheIInv => FreshAfterInvalidate
    BY DEF CacheIInv
  <1> QED
    BY <1>1, CacheInvariance, PTL

\* Any number of readers that find the cache empty share one load.
THEOREM OneLoad == CacheSpec => []LoadsOnce
  <1>1. CacheIInv => LoadsOnce
    BY DEF CacheIInv, LoaderIsFirst, LoadsOnce
  <1> QED
    BY <1>1, CacheInvariance, PTL
=============================================================================
