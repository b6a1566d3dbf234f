--------------------------- MODULE LazyValueCache ---------------------------
(***************************************************************************)
(* core/cache.py: a value loaded by the first get, shared by later ones,   *)
(* and dropped by invalidate.  Readers look without the lock first; the    *)
(* loader runs under it.  Writers change what the loader reads and then    *)
(* invalidate, as the users of such a cache must.                          *)
(***************************************************************************)
EXTENDS Naturals

CONSTANTS Readers, Writers,
          Free,        \* nobody holds the lock
          MaxVersion,  \* bound: versions of what the loader reads
          MaxGets      \* bound: calls of get by each reader

ASSUME CacheAssumption ==
    /\ Readers \intersect Writers = {} /\ Free \notin Readers \union Writers
    /\ MaxVersion \in Nat \ {0} /\ MaxGets \in Nat

VARIABLES source,   \* version of what the loader reads
          value,    \* _value: the version loaded, or Unset
          lock,     \* who holds _lock
          at,       \* where each process is
          result,   \* what each reader loaded or returned
          settled,  \* newest version whose invalidate has returned
          floor,    \* settled when each get was called
          gets,     \* calls made by each reader
          loads     \* loads finished since the last invalidate

cacheVars == <<source, value, lock, at, result, settled, floor, gets, loads>>

Unset == 0
Versions == 1..MaxVersion
Processes == Readers \union Writers

CacheInit ==
    /\ source = 1
    /\ value = Unset
    /\ lock = Free
    /\ at = [p \in Processes |-> "idle"]
    /\ result = [r \in Readers |-> Unset]
    /\ settled = 1
    /\ floor = [r \in Readers |-> 1]
    /\ gets = [r \in Readers |-> 0]
    /\ loads = 0

Step(p, from, to) == at[p] = from /\ at' = [at EXCEPT ![p] = to]
Acquire(p) == lock = Free /\ lock' = p
Release(p) == lock' = Free

-----------------------------------------------------------------------------
(* get *)

Get(r) ==
    /\ Step(r, "idle", "look")
    /\ gets[r] < MaxGets
    /\ gets' = [gets EXCEPT ![r] = @ + 1]
    /\ floor' = [floor EXCEPT ![r] = settled]
    /\ UNCHANGED <<source, value, lock, result, settled, loads>>

Look(r) ==
    /\ Step(r, "look", IF value = Unset THEN "lock" ELSE "return")
    /\ result' = [result EXCEPT ![r] = value]
    /\ UNCHANGED <<source, value, lock, settled, floor, gets, loads>>

LockToLoad(r) ==
    /\ Step(r, "lock", "again")
    /\ Acquire(r)
    /\ UNCHANGED <<source, value, result, settled, floor, gets, loads>>

\* Faulty variant: every thread that waited for the lock loads.
LoadWithoutLooking(r) ==
    /\ Step(r, "again", "load")
    /\ UNCHANGED <<source, value, lock, result, settled, floor, gets, loads>>

LookAgain(r) ==
    /\ Step(r, "again", IF value = Unset THEN "load" ELSE "return")
    /\ result' = [result EXCEPT ![r] = value]
    /\ IF value = Unset THEN UNCHANGED lock ELSE Release(r)
    /\ UNCHANGED <<source, value, settled, floor, gets, loads>>

\* The loader takes its time after it has read the source.
Load(r) ==
    /\ Step(r, "load", "store")
    /\ result' = [result EXCEPT ![r] = source]
    /\ UNCHANGED <<source, value, lock, settled, floor, gets, loads>>

\* Faulty variant: the exception leaves the lock held.
LoaderKeepsLock(r) ==
    /\ Step(r, "load", "idle")
    /\ UNCHANGED <<source, value, lock, result, settled, floor, gets, loads>>

LoaderRaises(r) ==
    /\ Step(r, "load", "idle")
    /\ Release(r)
    /\ UNCHANGED <<source, value, result, settled, floor, gets, loads>>

Store(r) ==
    /\ Step(r, "store", "return")
    /\ value' = result[r]
    /\ loads' = loads + 1
    /\ Release(r)
    /\ UNCHANGED <<source, result, settled, floor, gets>>

Return(r) ==
    /\ Step(r, "return", "idle")
    /\ UNCHANGED <<source, value, lock, result, settled, floor, gets, loads>>

-----------------------------------------------------------------------------
(* A change, and invalidate *)

Change(w) ==
    /\ Step(w, "idle", "lock")
    /\ source < MaxVersion
    /\ source' = source + 1
    /\ UNCHANGED <<value, lock, result, settled, floor, gets, loads>>

\* Faulty variant: invalidate does not wait for a load in progress.
InvalidateUnlocked(w) ==
    /\ Step(w, "lock", "idle")
    /\ value' = Unset
    /\ loads' = 0
    /\ settled' = source
    /\ UNCHANGED <<source, lock, result, floor, gets>>

\* The lock is free, so the whole `with` block is one step.
Invalidate(w) ==
    /\ Step(w, "lock", "idle")
    /\ lock = Free
    /\ value' = Unset
    /\ loads' = 0
    /\ settled' = source
    /\ UNCHANGED <<source, lock, result, floor, gets>>

-----------------------------------------------------------------------------
Reader(r) ==
    \/ Look(r) \/ LockToLoad(r) \/ LookAgain(r) \/ Load(r) \/ LoaderRaises(r)
    \/ Store(r) \/ Return(r)

CacheNext ==
    \/ \E r \in Readers : Get(r) \/ Reader(r)
    \/ \E w \in Writers : Change(w) \/ Invalidate(w)

CacheSpec == CacheInit /\ [][CacheNext]_cacheVars

\* Threads are scheduled and loaders end.  Free is obliged to call get, and
\* a thread that waits for the lock may be overtaken by any other.
CacheFairSpec ==
    /\ CacheSpec
    /\ \A r \in Readers : WF_cacheVars(Reader(r))
    /\ \A w \in Writers : WF_cacheVars(Invalidate(w))

-----------------------------------------------------------------------------
(* Properties.                                                             *)

\* Types; only a reader between its lock and its release holds the lock.
CacheTypeOK ==
    /\ source \in Versions /\ settled \in Versions
    /\ value \in Versions \union {Unset}
    /\ lock \in Readers \union {Free}
    /\ at \in [Processes -> {"idle", "look", "lock", "again", "load", "store", "return"}]
    /\ result \in [Readers -> Versions \union {Unset}]
    /\ floor \in [Readers -> Versions]
    /\ gets \in [Readers -> 0..MaxGets]
    /\ loads \in Nat
    /\ \A r \in Readers : lock = r <=> at[r] \in {"again", "load", "store"}

\* A get called after an invalidate returned never gives a value loaded before
\* the change it was for, even if that load was in progress at the time.
FreshAfterInvalidate ==
    \A r \in Readers : at[r] = "return" => result[r] >= floor[r]

\* Between two invalidates the loader's result is stored once, and shared.
LoadsOnce == loads <= 1

\* Every get and every invalidate ends, although loaders raise under the lock
\* and a free lock goes to any of those who wait for it.
EveryGetEnds ==
    /\ \A r \in Readers : at[r] = "look" ~> at[r] = "idle"
    /\ \A w \in Writers : at[w] = "lock" ~> at[w] = "idle"
=============================================================================
