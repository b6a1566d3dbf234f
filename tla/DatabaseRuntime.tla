--------------------------- MODULE DatabaseRuntime ---------------------------
(***************************************************************************)
(* DatabaseRuntime and NamedDatabases (core/db.py): threads of one process *)
(* that ask for an engine or a session, of which the first one creates the *)
(* runtime's engine and session factory, each under a lock of its own.     *)
(* Every step is one read or write of shared state; reads outside a lock   *)
(* are steps too.                                                          *)
(***************************************************************************)
EXTENDS Naturals, FiniteSets

CONSTANTS Threads,
          Runtimes,    \* one for each named database
          Engines,     \* enough identities for every engine created
          None,        \* no engine yet, and nobody
          MaxCalls     \* bound: calls made by each thread

ASSUME RuntimeAssumption ==
    /\ None \notin Threads \union Engines \union Runtimes
    /\ "error" \notin Engines
    /\ MaxCalls \in Nat

VARIABLES pc,           \* where each thread is
          rt,           \* the runtime it asked
          wants,        \* get_engine, or session and background_session
          calls,        \* calls made so far
          got,          \* the engine it was given or is building, or "error"
          sessionOpen,  \* has a session that is not closed
          engine,       \* _engine of each runtime
          engineLock,   \* who holds _engine_lock
          factory,      \* the engine that _session_factory is bound to
          factoryLock,  \* who holds _session_factory_lock
          owner,        \* the runtime each engine was created by
          installed,    \* listeners installed on each engine
          pooling       \* pyodbc.pooling, for the whole process

threadVars == <<rt, wants, calls, sessionOpen>>
engineVars == <<engine, engineLock, owner, installed, pooling>>
factoryVars == <<factory, factoryLock>>
rtVars == <<pc, got, threadVars, engineVars, factoryVars>>

PCs == {"idle", "factory?", "lockFactory", "factoryAgain?", "engine?", "lockEngine",
        "engineAgain?", "disable", "create", "install", "publish", "bind", "open", "use"}

\* Terminated-session detection, reset after errors, batch support, logging.
Listeners == 4

RtInit ==
    /\ pc = [t \in Threads |-> "idle"]
    /\ rt \in [Threads -> Runtimes]
    /\ wants = [t \in Threads |-> "engine"]
    /\ calls = [t \in Threads |-> 0]
    /\ got = [t \in Threads |-> None]
    /\ sessionOpen = [t \in Threads |-> FALSE]
    /\ engine = [r \in Runtimes |-> None]
    /\ engineLock = [r \in Runtimes |-> None]
    /\ factory = [r \in Runtimes |-> None]
    /\ factoryLock = [r \in Runtimes |-> None]
    /\ owner = [e \in Engines |-> None]
    /\ installed = [e \in Engines |-> 0]
    /\ pooling = TRUE

Goto(t, from, to) == pc[t] = from /\ pc' = [pc EXCEPT ![t] = to]
Receive(t, value) == got' = [got EXCEPT ![t] = value]

\* Leaving a `with lock:` block, normally or by an exception.
Released(lock, t) == [r \in Runtimes |-> IF lock[r] = t THEN None ELSE lock[r]]

-----------------------------------------------------------------------------
Call(t) ==
    /\ calls[t] < MaxCalls
    /\ calls' = [calls EXCEPT ![t] = @ + 1]
    /\ Receive(t, None)
    /\ \E kind \in {"engine", "session"} :
        /\ wants' = [wants EXCEPT ![t] = kind]
        /\ Goto(t, "idle", IF kind = "engine" THEN "engine?" ELSE "factory?")
    /\ UNCHANGED <<rt, sessionOpen, engineVars, factoryVars>>

(* get_session_factory *)

SeeFactory(t) ==
    /\ Goto(t, "factory?", IF factory[rt[t]] = None THEN "lockFactory" ELSE "open")
    /\ Receive(t, factory[rt[t]])
    /\ UNCHANGED <<threadVars, engineVars, factoryVars>>

LockFactory(t) ==
    /\ Goto(t, "lockFactory", "factoryAgain?")
    /\ factoryLock[rt[t]] = None
    /\ factoryLock' = [factoryLock EXCEPT ![rt[t]] = t]
    /\ UNCHANGED <<got, threadVars, engineVars, factory>>

SeeFactoryAgain(t) ==
    /\ Goto(t, "factoryAgain?", IF factory[rt[t]] = None THEN "engine?" ELSE "open")
    /\ Receive(t, factory[rt[t]])
    /\ factoryLock' = IF factory[rt[t]] = None THEN factoryLock ELSE Released(factoryLock, t)
    /\ UNCHANGED <<threadVars, engineVars, factory>>

Bind(t) ==
    /\ Goto(t, "bind", "open")
    /\ factory' = [factory EXCEPT ![rt[t]] = got[t]]
    /\ factoryLock' = Released(factoryLock, t)
    /\ UNCHANGED <<got, threadVars, engineVars>>

(* get_engine, called for itself or by get_session_factory *)

Returned(t) == IF wants[t] = "engine" THEN "idle" ELSE "bind"

SeeEngine(t) ==
    /\ Goto(t, "engine?", IF engine[rt[t]] = None THEN "lockEngine" ELSE Returned(t))
    /\ Receive(t, engine[rt[t]])
    /\ UNCHANGED <<threadVars, engineVars, factoryVars>>

LockEngine(t) ==
    /\ Goto(t, "lockEngine", "engineAgain?")
    /\ engineLock[rt[t]] = None
    /\ engineLock' = [engineLock EXCEPT ![rt[t]] = t]
    /\ UNCHANGED <<got, threadVars, factoryVars, engine, owner, installed, pooling>>

\* Faulty variant: the engine is not looked for again under the lock.
TrustFirstLook(t) ==
    /\ Goto(t, "engineAgain?", "disable")
    /\ Receive(t, None)
    /\ UNCHANGED <<threadVars, factoryVars, engineVars>>

SeeEngineAgain(t) ==
    /\ Goto(t, "engineAgain?", IF engine[rt[t]] = None THEN "disable" ELSE Returned(t))
    /\ Receive(t, engine[rt[t]])
    /\ engineLock' = IF engine[rt[t]] = None THEN engineLock ELSE Released(engineLock, t)
    /\ UNCHANGED <<threadVars, factoryVars, engine, owner, installed, pooling>>

Disable(t) ==
    /\ Goto(t, "disable", "create")
    /\ pooling' = FALSE
    /\ UNCHANGED <<got, threadVars, factoryVars, engine, engineLock, owner, installed>>

Unused == {e \in Engines : owner[e] = None}
NewEngine == CHOOSE e \in Unused : TRUE

\* Faulty variant: the engine is shared before its listeners are installed.
ShareAtOnce(t) ==
    /\ Goto(t, "create", "install")
    /\ Unused # {}
    /\ owner' = [owner EXCEPT ![NewEngine] = rt[t]]
    /\ Receive(t, NewEngine)
    /\ engine' = [engine EXCEPT ![rt[t]] = NewEngine]
    /\ UNCHANGED <<threadVars, factoryVars, engineLock, installed, pooling>>

Create(t) ==
    /\ Goto(t, "create", "install")
    /\ Unused # {}
    /\ owner' = [owner EXCEPT ![NewEngine] = rt[t]]
    /\ Receive(t, NewEngine)
    /\ UNCHANGED <<threadVars, factoryVars, engine, engineLock, installed, pooling>>

\* Faulty variant: the exception leaves the factory's lock held.
KeepFactoryLock(t) ==
    /\ Goto(t, "create", "idle")
    /\ Receive(t, "error")
    /\ engineLock' = Released(engineLock, t)
    /\ UNCHANGED <<threadVars, factoryVars, engine, owner, installed, pooling>>

\* The URL resolver raises, as long as a setting is missing for instance: the
\* exception leaves both `with` blocks and nothing is cached.
ResolverRaises(t) ==
    /\ Goto(t, "create", "idle")
    /\ Receive(t, "error")
    /\ engineLock' = Released(engineLock, t)
    /\ factoryLock' = Released(factoryLock, t)
    /\ UNCHANGED <<threadVars, engine, owner, installed, pooling, factory>>

Install(t) ==
    /\ Goto(t, "install", IF installed[got[t]] + 1 = Listeners THEN "publish" ELSE "install")
    /\ installed' = [installed EXCEPT ![got[t]] = @ + 1]
    /\ UNCHANGED <<got, threadVars, factoryVars, engine, engineLock, owner, pooling>>

Publish(t) ==
    /\ Goto(t, "publish", Returned(t))
    /\ engine' = [engine EXCEPT ![rt[t]] = got[t]]
    /\ engineLock' = Released(engineLock, t)
    /\ UNCHANGED <<got, threadVars, factoryVars, owner, installed, pooling>>

(* session and background_session *)

Open(t) ==
    /\ Goto(t, "open", "use")
    /\ Receive(t, factory[rt[t]])
    /\ sessionOpen' = [sessionOpen EXCEPT ![t] = TRUE]
    /\ UNCHANGED <<rt, wants, calls, engineVars, factoryVars>>

\* The handler is done with it, or raised: `finally` closes it either way.
CloseSession(t) ==
    /\ Goto(t, "use", "idle")
    /\ sessionOpen' = [sessionOpen EXCEPT ![t] = FALSE]
    /\ UNCHANGED <<got, rt, wants, calls, engineVars, factoryVars>>

-----------------------------------------------------------------------------
Continue(t) ==
    \/ SeeFactory(t) \/ LockFactory(t) \/ SeeFactoryAgain(t) \/ Bind(t)
    \/ SeeEngine(t) \/ LockEngine(t) \/ SeeEngineAgain(t)
    \/ Disable(t) \/ Create(t) \/ ResolverRaises(t) \/ Install(t) \/ Publish(t)
    \/ Open(t) \/ CloseSession(t)

RtNext == \E t \in Threads : Call(t) \/ Continue(t)

RtSpec == RtInit /\ [][RtNext]_rtVars

\* A thread that runs is scheduled, and a free lock is taken by somebody who
\* waits for it.  No thread is obliged to call.
RtFairSpec == RtSpec /\ \A t \in Threads : WF_rtVars(Continue(t))

-----------------------------------------------------------------------------
(* Properties.                                                             *)

\* Types, and which thread may hold a lock.
RtTypeOK ==
    /\ pc \in [Threads -> PCs]
    /\ rt \in [Threads -> Runtimes]
    /\ wants \in [Threads -> {"engine", "session"}]
    /\ calls \in [Threads -> 0..MaxCalls]
    /\ got \in [Threads -> Engines \union {None, "error"}]
    /\ sessionOpen \in [Threads -> BOOLEAN]
    /\ engine \in [Runtimes -> Engines \union {None}]
    /\ engineLock \in [Runtimes -> Threads \union {None}]
    /\ factory \in [Runtimes -> Engines \union {None}]
    /\ factoryLock \in [Runtimes -> Threads \union {None}]
    /\ owner \in [Engines -> Runtimes \union {None}]
    /\ installed \in [Engines -> 0..Listeners]
    /\ pooling \in BOOLEAN
    /\ \A t \in Threads : pc[t] \in {"idle", "open", "use"}
                          => \A r \in Runtimes : engineLock[r] # t /\ factoryLock[r] # t

\* A runtime creates one engine, however its threads race and however often
\* its resolver failed before.
OneEngine ==
    \A d, e \in Engines : owner[d] = owner[e] /\ owner[e] # None => d = e

\* A thread that is given an engine, or a session of it, has its own runtime's
\* engine, with every listener installed, and pyodbc's pooling already off.
ReadyWhenShared ==
    \A t \in Threads :
        pc[t] \in {"idle", "bind", "use"} /\ got[t] \in Engines =>
            /\ owner[got[t]] = rt[t] /\ engine[rt[t]] = got[t]
            /\ installed[got[t]] = Listeners
            /\ ~pooling

\* Every call ends, with its session closed, although calls wait for each
\* other's locks and resolvers raise while they hold two of them.
EveryCallEnds ==
    \A t \in Threads : pc[t] # "idle" ~> pc[t] = "idle" /\ ~sessionOpen[t]
=============================================================================
