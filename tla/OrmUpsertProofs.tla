---------------------------- MODULE OrmUpsertProofs ----------------------------
(***************************************************************************)
(* Theorems about OrmUpsert, for any calls, keys, plans, payloads and any  *)
(* numbers of attempts and lost connections.                               *)
(***************************************************************************)
EXTENDS OrmUpsert, RetryTransactionProofs, FiniteSetTheorems

-----------------------------------------------------------------------------
(* An upsert's step is one of RetryTransaction, or leaves it alone.        *)

LEMMA UpsertStepIsStep == [UpsertNext]_upsertVars => [Next]_vars
  <1> SUFFICES ASSUME [UpsertNext]_upsertVars PROVE [Next]_vars
    OBVIOUS
  <1> USE DEF Next, Client, Server
  <1>1. ASSUME NEW c \in Calls, UpsertClient(c) PROVE [Next]_vars
    <2>1. CASE Lookup(c)
      BY <2>1 DEF Lookup
    <2>2. CASE WaitForLock(c)
      BY <2>2 DEF WaitForLock
    <2>3. CASE Store(c)
      BY <2>3 DEF Store
    <2>4. CASE Fails(c)
      BY <2>4 DEF Fails
    <2>5. CASE DeadlockVictim(c)
      BY <2>5 DEF DeadlockVictim
    <2>6. CASE LosesConnection(c)
      BY <2>6 DEF LosesConnection
    <2>7. CASE Returns(c)
      BY <2>7 DEF Returns
    <2>8. CASE RollsBack(c)
      BY <2>8 DEF RollsBack
    <2>9. CASE Decides(c)
      BY <2>9 DEF Decides
    <2> QED
      BY <1>1, <2>1, <2>2, <2>3, <2>4, <2>5, <2>6, <2>7, <2>8, <2>9 DEF UpsertClient
  <1>2. ASSUME NEW c \in Calls, NEW a \in Attempts, UpsertServer(c, a) PROVE [Next]_vars
    BY <1>2 DEF UpsertServer, CommitsTable, Unwinds
  <1>3. CASE UNCHANGED upsertVars
    BY <1>3 DEF upsertVars
  <1> QED
    BY <1>1, <1>2, <1>3 DEF UpsertNext

\* What RetryTransaction keeps, the upserts keep.
LEMMA UpsertsRetry == UpsertSpec => []IInv
  <1>1. UpsertInit => Init
    BY DEF UpsertInit
  <1> QED
    BY <1>1, UpsertStepIsStep, InitIInv, StepKeepsIInv, PTL DEF UpsertSpec

-----------------------------------------------------------------------------
(* The inductive invariant.                                                *)

\* No two transactions hold a key, one that has yet to begin has locked none,
\* and a transaction has locked whatever it has written.
LocksInv ==
    /\ \A c, d \in Calls : \A a, b \in Attempts : \A k \in Keys :
           Holds(c, a, k) /\ Holds(d, b, k) => c = d /\ a = b
    /\ \A c \in Calls : \A a \in Attempts :
           /\ txn[c][a] = "none" => locked[c][a] = {}
           /\ \A k \in Keys : written[c][a][k] # None => k \in locked[c][a]

\* Between its lookup and its store, a call's transaction is open and has the
\* key locked, and the row is still as the lookup found it.
DecisionInv(c) ==
    /\ phase[c] # "ready" => pc[c] = "body" /\ ~Finished(c)
    /\ phase[c] \in {"found", "missing"} =>
           /\ Txn(c) = "active" /\ Key(c) \in locked[c][attempt[c]]
           /\ phase[c] = "missing" => Overlay(Current(c))[Key(c)] = Absent
           /\ phase[c] = "found" => /\ loaded[c][Key(c)] = Overlay(Current(c))[Key(c)]
                                    /\ loaded[c][Key(c)] # None

\* Edits not yet flushed are of rows the attempt has locked, and that are there.
PendingInv(c) ==
    /\ pc[c] \notin {"body", "rollback"} => pending[c] = {}
    /\ \A k \in pending[c] : /\ k \in locked[c][attempt[c]]
                             /\ Overlay(Current(c))[k] # Absent

UpsertIInv ==
    /\ UpsertTypeOK /\ LocksInv
    /\ \A c \in Calls : DecisionInv(c) /\ PendingInv(c)

\* The position a call has reached in its plan is one of its plan's.
LEMMA ItemType ==
    ASSUME UpsertTypeOK, NEW c \in Calls, ~Finished(c)
    PROVE  Key(c) \in Keys /\ step[c] + 1 \in 1..(Len(Plan[c]) + 1)
  <1>1. Plan[c] \in Seq([key : Keys, edit : BOOLEAN])
    BY UpsertAssumption
  <1>2. Len(Plan[c]) \in Nat /\ step[c] \in 1..Len(Plan[c])
    BY <1>1 DEF UpsertTypeOK, Finished
  <1>3. Plan[c][step[c]] \in [key : Keys, edit : BOOLEAN]
    <2>1. ASSUME NEW S, NEW s \in Seq(S), NEW i \in 1..Len(s) PROVE s[i] \in S
      OBVIOUS
    <2> QED
      BY <1>1, <1>2, <2>1
  <1> QED
    BY <1>2, <1>3 DEF Key, Item

\* A call in its body has an attempt, whose transaction nobody else has ended.
LEMMA BodyFacts ==
    ASSUME IInv, NEW c \in Calls, pc[c] \in {"body", "committing", "rollback", "decide"}
    PROVE  attempt[c] \in Attempts
  BY MaxAttemptsAssumption DEF IInv, TypeOK, CallInv, AttemptsInv, Attempts

\* The row a transaction sees, and what a flush makes of its writes.
LEMMA OverlayType ==
    ASSUME UpsertTypeOK, NEW c \in Calls, NEW a \in Attempts, NEW k \in Keys
    PROVE  /\ Overlay(written[c][a])[k] \in Row \union {Absent}
           /\ Overlay(written[c][a])[k] =
                  IF written[c][a][k] = None THEN rows[k] ELSE written[c][a][k]
  BY DEF UpsertTypeOK, Overlay

LEMMA FlushedFacts ==
    ASSUME UpsertTypeOK, LocksInv, NEW c \in Calls, PendingInv(c), attempt[c] \in Attempts
    PROVE  /\ Flushed(c) \in [Keys -> Row \union {None}]
           /\ \A k \in Keys : Flushed(c)[k] # None => k \in locked[c][attempt[c]]
           /\ \A k \in Keys : Overlay(Flushed(c))[k] \in Row \union {Absent}
           /\ \A k \in Keys : Overlay(Flushed(c))[k] =
                                  IF Flushed(c)[k] = None THEN rows[k] ELSE Flushed(c)[k]
  <1>1. ASSUME NEW k \in Keys
        PROVE  /\ Flushed(c)[k] \in Row \union {None}
               /\ Flushed(c)[k] # None => k \in locked[c][attempt[c]]
    <2>1. CASE k \in pending[c]
      <3>1. Overlay(Current(c))[k] \in Row /\ k \in locked[c][attempt[c]]
        BY <2>1, OverlayType DEF PendingInv, Current
      <3>2. Flushed(c)[k] = [Overlay(Current(c))[k] EXCEPT !.editor = c]
        BY <2>1 DEF Flushed
      <3> QED
        BY <3>1, <3>2 DEF Row, Values
    <2>2. CASE k \notin pending[c]
      <3>1. Flushed(c)[k] = written[c][attempt[c]][k]
        BY <2>2 DEF Flushed, Current
      <3> QED
        BY <3>1 DEF UpsertTypeOK, LocksInv
    <2> QED
      BY <2>1, <2>2
  <1>2. Flushed(c) \in [Keys -> Row \union {None}]
    BY <1>1 DEF Flushed
  <1> QED
    BY <1>1, <1>2 DEF Overlay, UpsertTypeOK

LEMMA UpsertInitInv == UpsertInit => UpsertIInv
  <1> SUFFICES ASSUME UpsertInit PROVE UpsertIInv
    OBVIOUS
  <1>1. Original \in Row
    BY DEF Original, Row, Values
  <1>2. UpsertTypeOK
    <2>1. \A c \in Calls : 1 \in 1..(Len(Plan[c]) + 1)
      <3>1. \A c \in Calls : Len(Plan[c]) \in Nat
        BY UpsertAssumption
      <3> QED
        BY <3>1
    <2>2. \A c \in Calls : step[c] \in 1..(Len(Plan[c]) + 1)
      BY <2>1 DEF UpsertInit
    <2>3. losses \in 0..MaxLosses
      BY UpsertAssumption DEF UpsertInit
    <2>4. loaded \in [Calls -> [Keys -> Row \union {None}]]
      BY <1>1 DEF UpsertInit
    <2> QED
      BY <1>1, <2>2, <2>3, <2>4 DEF UpsertInit, UpsertTypeOK
  <1>3. LocksInv
    BY DEF UpsertInit, LocksInv, Holds
  <1>4. ASSUME NEW c \in Calls PROVE DecisionInv(c) /\ PendingInv(c)
    BY DEF UpsertInit, DecisionInv, PendingInv
  <1> QED
    BY <1>2, <1>3, <1>4 DEF UpsertIInv

-----------------------------------------------------------------------------
(* What leaves the locks, or another call, as they were.                   *)

Held == {"active", "orphaned", "committing"}

\* Step c takes no lock, begins no transaction again and writes nothing.
NothingLocked ==
    /\ UNCHANGED <<locked, written>>
    /\ \A c \in Calls : \A a \in Attempts :
           /\ txn'[c][a] \in Held => txn[c][a] \in Held
           /\ txn'[c][a] = "none" => txn[c][a] = "none"

LEMMA NothingLockedKeepsLocks ==
    ASSUME LocksInv, NothingLocked
    PROVE  LocksInv'
  BY DEF LocksInv, NothingLocked, Holds, Held

\* Call d and its transactions are as they were.
Apart(d) ==
    /\ pc'[d] = pc[d] /\ attempt'[d] = attempt[d] /\ txn'[d] = txn[d]
    /\ phase'[d] = phase[d] /\ step'[d] = step[d]
    /\ loaded'[d] = loaded[d] /\ pending'[d] = pending[d]
    /\ locked'[d] = locked[d] /\ written'[d] = written[d]

LEMMA ApartKeepsInv ==
    ASSUME NEW d \in Calls, DecisionInv(d), PendingInv(d), Apart(d), rows' = rows
    PROVE  DecisionInv(d)' /\ PendingInv(d)'
  <1>1. Key(d)' = Key(d) /\ Finished(d)' = Finished(d)
    BY DEF Key, Item, Finished, Apart
  <1>2. Current(d)' = Current(d)
    BY DEF Current, Apart
  <1>3. Overlay(Current(d))' = Overlay(Current(d))
    BY <1>2 DEF Overlay
  <1> QED
    BY <1>1, <1>3 DEF DecisionInv, PendingInv, Apart, Txn

\* What the invariant says of a call that is not between lookup and store.
LEMMA ReadyInv ==
    ASSUME NEW c \in Calls, phase'[c] = "ready"
    PROVE  DecisionInv(c)'
  BY DEF DecisionInv

\* A call that moves on without a statement keeps what it has pending, or has
\* dropped it.
LEMMA MovesOnKeepsInv ==
    ASSUME NEW c \in Calls, PendingInv(c), phase'[c] = "ready",
           UNCHANGED <<rows, locked, written>>,
           \/ pending'[c] = {}
           \/ /\ attempt'[c] = attempt[c] /\ pending'[c] = pending[c]
              /\ pc'[c] \notin {"body", "rollback"} => pc[c] \notin {"body", "rollback"}
    PROVE  DecisionInv(c)' /\ PendingInv(c)'
  <1>1. DecisionInv(c)'
    BY ReadyInv
  <1>2. CASE pending'[c] = {}
    BY <1>1, <1>2 DEF PendingInv
  <1>3. CASE pending'[c] # {}
    <2>1. /\ attempt'[c] = attempt[c] /\ pending'[c] = pending[c]
          /\ pc'[c] \notin {"body", "rollback"} => pc[c] \notin {"body", "rollback"}
      BY <1>3
    <2>2. Overlay(Current(c))' = Overlay(Current(c))
      BY <2>1 DEF Overlay, Current
    <2>3. PendingInv(c)'
      BY <2>1, <2>2 DEF PendingInv
    <2> QED
      BY <1>1, <2>3
  <1> QED
    BY <1>2, <1>3

-----------------------------------------------------------------------------
(* The steps of an upsert.                                                 *)

LEMMA LookupStep ==
    ASSUME IInv, UpsertIInv, NEW c \in Calls, Lookup(c)
    PROVE  UpsertIInv'
  <1> DEFINE k == Key(c)
             a == attempt[c]
             found == Overlay(Flushed(c))[k] # Absent
  <1>1. a \in Attempts /\ k \in Keys /\ ~Finished(c)
    BY BodyFacts, ItemType DEF Lookup, UpsertIInv
  <1>2. /\ pc' = pc /\ attempt' = attempt /\ rows' = rows /\ step' = step /\ losses' = losses
        /\ pc[c] = "body" /\ txn[c][a] \in {"none", "active"}
        /\ txn' = [txn EXCEPT ![c][a] = "active"]
        /\ locked' = [locked EXCEPT ![c][a] = @ \union {k}]
        /\ written' = [written EXCEPT ![c][a] = Flushed(c)]
        /\ pending' = [pending EXCEPT ![c] = {}]
        /\ loaded' = [loaded EXCEPT ![c][k] = IF found THEN Overlay(Flushed(c))[k] ELSE None]
        /\ phase' = [phase EXCEPT ![c] = IF found THEN "found" ELSE "missing"]
    BY DEF Lookup, StatementSucceeds, SetTxn, Txn, LockedByLookup, Refreshed
  <1>3. HeldFrom(c, k) = {}
    BY DEF Lookup, CanLock
  <1>4. /\ Flushed(c) \in [Keys -> Row \union {None}]
        /\ \A l \in Keys : Flushed(c)[l] # None => l \in locked[c][a]
        /\ Overlay(Flushed(c))[k] \in Row \union {Absent}
        /\ Overlay(Flushed(c))[k] = IF Flushed(c)[k] = None THEN rows[k] ELSE Flushed(c)[k]
    BY <1>1, FlushedFacts DEF UpsertIInv
  <1>5. UpsertTypeOK'
    BY <1>1, <1>2, <1>4 DEF UpsertIInv, UpsertTypeOK
  <1>6. /\ txn \in [Calls -> [Attempts -> TxnStates]]
        /\ locked \in [Calls -> [Attempts -> SUBSET Keys]]
        /\ written \in [Calls -> [Attempts -> [Keys -> Row \union {None}]]]
        /\ loaded \in [Calls -> [Keys -> Row \union {None}]]
    BY DEF IInv, TypeOK, UpsertIInv, UpsertTypeOK
  <1>7. LocksInv'
    <2>1. ASSUME NEW d \in Calls, NEW b \in Attempts, NEW l \in Keys, Holds(d, b, l)'
          PROVE  Holds(d, b, l) \/ (d = c /\ b = a /\ l = k)
      BY <1>1, <1>2, <1>6, <2>1 DEF Holds, LocksInv, UpsertIInv
    <2>2. ASSUME NEW d \in Calls, NEW b \in Attempts, Holds(d, b, k) PROVE d = c /\ b = a
      BY <1>3, <2>2 DEF HeldFrom
    <2>3. ASSUME NEW d \in Calls, NEW e \in Calls, NEW b \in Attempts, NEW f \in Attempts,
                 NEW l \in Keys, Holds(d, b, l)', Holds(e, f, l)'
          PROVE  d = e /\ b = f
      BY <2>1, <2>2, <2>3 DEF LocksInv, UpsertIInv
    <2>4. ASSUME NEW d \in Calls, NEW b \in Attempts, txn'[d][b] = "none"
          PROVE  locked'[d][b] = {}
      BY <1>1, <1>2, <1>6, <2>4 DEF LocksInv, UpsertIInv
    <2>5. ASSUME NEW d \in Calls, NEW b \in Attempts, NEW l \in Keys, written'[d][b][l] # None
          PROVE  l \in locked'[d][b]
      BY <1>1, <1>2, <1>4, <1>6, <2>5 DEF LocksInv, UpsertIInv
    <2> QED
      BY <2>3, <2>4, <2>5 DEF LocksInv
  <1>8. DecisionInv(c)' /\ PendingInv(c)'
    <2>1. Key(c)' = k /\ ~Finished(c)'
      BY <1>1, <1>2 DEF Key, Item, Finished
    <2>2. Current(c)' = Flushed(c)
      BY <1>1, <1>2, <1>6 DEF Current
    <2>3. Overlay(Current(c))'[k] = Overlay(Flushed(c))[k]
      BY <1>1, <1>2, <2>2 DEF Overlay
    <2>4. /\ phase'[c] = IF found THEN "found" ELSE "missing"
          /\ loaded'[c][k] = IF found THEN Overlay(Flushed(c))[k] ELSE None
          /\ txn'[c][a] = "active" /\ k \in locked'[c][a] /\ pending'[c] = {}
      BY <1>1, <1>2, <1>6 DEF UpsertIInv, UpsertTypeOK
    <2>5. found => Overlay(Flushed(c))[k] # None
      BY <1>4, UpsertAssumption
    <2> QED
      BY <1>2, <2>1, <2>3, <2>4, <2>5 DEF DecisionInv, PendingInv, Txn
  <1>9. ASSUME NEW d \in Calls, d # c PROVE DecisionInv(d)' /\ PendingInv(d)'
    BY <1>2, <1>9, ApartKeepsInv DEF Apart, UpsertIInv
  <1> QED
    BY <1>5, <1>7, <1>8, <1>9 DEF UpsertIInv

LEMMA StoreStep ==
    ASSUME IInv, UpsertIInv, NEW c \in Calls, Store(c)
    PROVE  UpsertIInv'
  <1> DEFINE k == Key(c)
             a == attempt[c]
             row == IF phase[c] = "found" THEN Updated(c, k) ELSE Inserted(c)
  <1>1. /\ pc[c] = "body" /\ phase[c] \in {"found", "missing"} /\ a \in Attempts
        /\ k \in Keys /\ step[c] + 1 \in 1..(Len(Plan[c]) + 1)
        /\ txn[c][a] = "active" /\ k \in locked[c][a]
    BY BodyFacts, ItemType DEF Store, UpsertIInv, DecisionInv, Txn
  <1>2. /\ txn \in [Calls -> [Attempts -> TxnStates]]
        /\ written \in [Calls -> [Attempts -> [Keys -> Row \union {None}]]]
        /\ loaded \in [Calls -> [Keys -> Row \union {None}]]
        /\ pending \in [Calls -> SUBSET Keys]
        /\ phase \in [Calls -> {"ready", "waiting", "found", "missing"}]
    BY DEF IInv, TypeOK, UpsertIInv, UpsertTypeOK
  <1>3. /\ pc' = pc /\ attempt' = attempt /\ rows' = rows /\ locked' = locked
        /\ losses' = losses /\ txn' = txn
        /\ written' = [written EXCEPT ![c][a][k] = row]
        /\ loaded' = [loaded EXCEPT ![c][k] = IF row = None THEN @ ELSE row]
        /\ pending' = [pending EXCEPT ![c] = IF Item(c).edit THEN @ \union {k} ELSE @]
        /\ step' = [step EXCEPT ![c] = @ + 1]
        /\ phase' = [phase EXCEPT ![c] = "ready"]
    BY <1>1, <1>2 DEF Store, StatementSucceeds, SetTxn
  <1>4. /\ row \in Row \union {None}
        /\ row = None => phase[c] = "found" /\ written[c][a][k] = None
    <2>1. CASE phase[c] = "missing"
      <3>1. Inserted(c) \in Row
        BY DEF Inserted, Row, Values
      <3> QED
        BY <2>1, <3>1, UpsertAssumption
    <2>2. CASE phase[c] = "found"
      <3>1. Overlay(written[c][a])[k] \in Row \union {Absent}
        BY <1>1, OverlayType DEF UpsertIInv
      <3>2. Overlay(written[c][a])[k] \in Row
        BY <1>1, <1>2, <2>2, <3>1, UpsertAssumption DEF UpsertIInv, DecisionInv, Current
      <3>3. [Overlay(written[c][a])[k] EXCEPT !.value = Data[c]] \in Row
        BY <3>2 DEF Row, Values
      <3>4. row = IF loaded[c][k].value = Data[c] THEN written[c][a][k]
                  ELSE [Overlay(written[c][a])[k] EXCEPT !.value = Data[c]]
        BY <2>2 DEF Updated, Current
      <3>5. written[c][a][k] \in Row \union {None}
        BY <1>1, <1>2
      <3> HIDE DEF row
      <3> QED
        BY <2>2, <3>3, <3>4, <3>5, UpsertAssumption
    <2> QED
      BY <1>1, <2>1, <2>2
  <1> HIDE DEF row
  <1>5. UpsertTypeOK'
    <2>1. /\ rows' \in [Keys -> Row \union {Absent}]
          /\ locked' \in [Calls -> [Attempts -> SUBSET Keys]] /\ losses' \in 0..MaxLosses
      BY <1>3 DEF UpsertIInv, UpsertTypeOK
    <2>2. written' \in [Calls -> [Attempts -> [Keys -> Row \union {None}]]]
      BY <1>1, <1>2, <1>3, <1>4
    <2>3. loaded' \in [Calls -> [Keys -> Row \union {None}]]
      BY <1>1, <1>2, <1>3, <1>4
    <2>4. pending' \in [Calls -> SUBSET Keys]
      BY <1>1, <1>2, <1>3
    <2>5. /\ step' \in [Calls -> Nat]
          /\ \A d \in Calls : step'[d] \in 1..(Len(Plan[d]) + 1)
      BY <1>1, <1>3 DEF UpsertIInv, UpsertTypeOK
    <2>6. phase' \in [Calls -> {"ready", "waiting", "found", "missing"}]
      BY <1>2, <1>3
    <2> QED
      BY <2>1, <2>2, <2>3, <2>4, <2>5, <2>6 DEF UpsertTypeOK
  <1>6. LocksInv'
    BY <1>1, <1>2, <1>3 DEF UpsertIInv, LocksInv, Holds
  <1>7. DecisionInv(c)' /\ PendingInv(c)'
    <2>1. DecisionInv(c)'
      BY <1>2, <1>3, ReadyInv
    <2>2. \A l \in Keys : written'[c][a][l] = IF l = k THEN row ELSE written[c][a][l]
      BY <1>1, <1>2, <1>3
    <2>3. \A l \in Keys :
              Overlay(Current(c))'[l] = IF written'[c][a][l] = None THEN rows[l]
                                        ELSE written'[c][a][l]
      BY <1>3 DEF Overlay, Current
    <2>4. \A l \in Keys : Overlay(Current(c))[l] = IF written[c][a][l] = None THEN rows[l]
                                                   ELSE written[c][a][l]
      BY DEF Overlay, Current
    <2>5. Overlay(Current(c))'[k] # Absent
      <3>1. CASE row = None
        <4>1. Overlay(Current(c))[k] # Absent
          BY <1>1, <1>2, <1>4, <3>1, UpsertAssumption DEF UpsertIInv, DecisionInv
        <4> QED
          BY <1>1, <1>4, <2>2, <2>3, <2>4, <3>1, <4>1
      <3>2. CASE row # None
        BY <1>1, <1>4, <2>2, <2>3, <3>2, UpsertAssumption
      <3> QED
        BY <3>1, <3>2
    <2>6. \A l \in Keys : l # k => Overlay(Current(c))'[l] = Overlay(Current(c))[l]
      BY <2>2, <2>3, <2>4
    <2>7. pending'[c] \subseteq pending[c] \union {k} /\ pending[c] \subseteq Keys
      BY <1>2, <1>3
    <2>8. \A l \in pending'[c] : l \in locked'[c][a] /\ Overlay(Current(c))'[l] # Absent
      BY <1>1, <1>3, <2>5, <2>6, <2>7 DEF UpsertIInv, PendingInv
    <2> QED
      BY <1>1, <1>3, <2>1, <2>8 DEF PendingInv
  <1>8. ASSUME NEW d \in Calls, d # c PROVE DecisionInv(d)' /\ PendingInv(d)'
    BY <1>1, <1>2, <1>3, <1>8, ApartKeepsInv DEF Apart, UpsertIInv, UpsertTypeOK
  <1> QED
    BY <1>5, <1>6, <1>7, <1>8 DEF UpsertIInv

LEMMA WaitStep ==
    ASSUME IInv, UpsertIInv, NEW c \in Calls, WaitForLock(c)
    PROVE  UpsertIInv'
  <1>1. /\ UNCHANGED <<vars, rows, locked, written, loaded, pending, step, losses>>
        /\ phase' = [phase EXCEPT ![c] = "waiting"]
        /\ pc[c] = "body" /\ ~Finished(c)
    BY DEF WaitForLock, table
  <1>2. phase \in [Calls -> {"ready", "waiting", "found", "missing"}]
    BY DEF UpsertIInv, UpsertTypeOK
  <1>3. UpsertTypeOK'
    BY <1>1, <1>2 DEF UpsertIInv, UpsertTypeOK
  <1>4. LocksInv'
    BY <1>1, NothingLockedKeepsLocks DEF vars, NothingLocked, UpsertIInv
  <1>5. DecisionInv(c)' /\ PendingInv(c)'
    <2>1. Overlay(Current(c))' = Overlay(Current(c)) /\ Finished(c)' = Finished(c)
      BY <1>1 DEF vars, Overlay, Current, Finished
    <2> QED
      BY <1>1, <1>2, <2>1 DEF vars, UpsertIInv, DecisionInv, PendingInv
  <1>6. ASSUME NEW d \in Calls, d # c PROVE DecisionInv(d)' /\ PendingInv(d)'
    BY <1>1, <1>2, <1>6, ApartKeepsInv DEF vars, Apart, UpsertIInv
  <1> QED
    BY <1>3, <1>4, <1>5, <1>6 DEF UpsertIInv

\* The commit's flush: what was pending becomes a write of the same transaction.
LEMMA ReturnsStep ==
    ASSUME IInv, UpsertIInv, NEW c \in Calls, Returns(c)
    PROVE  UpsertIInv'
  <1> DEFINE a == attempt[c]
  <1>1. /\ a \in Attempts /\ phase[c] = "ready" /\ pc' = [pc EXCEPT ![c] = "committing"]
        /\ UNCHANGED <<attempt, rows, locked, loaded, step, phase, losses>>
        /\ txn' = [txn EXCEPT ![c][a] = IF txn[c][a] = "active" THEN "committing" ELSE txn[c][a]]
        /\ written' = [written EXCEPT ![c][a] = Flushed(c)]
        /\ pending' = [pending EXCEPT ![c] = {}]
    BY BodyFacts DEF Returns, FunctionReturns, Transition, SetTxn, Txn
  <1>2. /\ txn \in [Calls -> [Attempts -> TxnStates]]
        /\ written \in [Calls -> [Attempts -> [Keys -> Row \union {None}]]]
        /\ pending \in [Calls -> SUBSET Keys]
        /\ pc \in [Calls -> PCs]
    BY DEF IInv, TypeOK, UpsertIInv, UpsertTypeOK
  <1>3. /\ Flushed(c) \in [Keys -> Row \union {None}]
        /\ \A l \in Keys : Flushed(c)[l] # None => l \in locked[c][a]
    BY <1>1, FlushedFacts DEF UpsertIInv
  <1>4. UpsertTypeOK'
    BY <1>1, <1>2, <1>3 DEF UpsertIInv, UpsertTypeOK
  <1>5. LocksInv'
    <2>1. ASSUME NEW d \in Calls, NEW b \in Attempts, NEW l \in Keys, Holds(d, b, l)'
          PROVE  Holds(d, b, l)
      BY <1>1, <1>2, <2>1 DEF Holds
    <2>2. ASSUME NEW d \in Calls, NEW b \in Attempts, txn'[d][b] = "none"
          PROVE  locked'[d][b] = {}
      BY <1>1, <1>2, <2>2 DEF LocksInv, UpsertIInv
    <2>3. ASSUME NEW d \in Calls, NEW b \in Attempts, NEW l \in Keys, written'[d][b][l] # None
          PROVE  l \in locked'[d][b]
      BY <1>1, <1>2, <1>3, <2>3 DEF LocksInv, UpsertIInv
    <2> QED
      BY <2>1, <2>2, <2>3 DEF LocksInv, UpsertIInv
  <1>6. DecisionInv(c)' /\ PendingInv(c)'
    BY <1>1, <1>2, ReadyInv DEF PendingInv
  <1>7. ASSUME NEW d \in Calls, d # c PROVE DecisionInv(d)' /\ PendingInv(d)'
    BY <1>1, <1>2, <1>7, ApartKeepsInv DEF Apart, UpsertIInv
  <1> QED
    BY <1>4, <1>5, <1>6, <1>7 DEF UpsertIInv

-----------------------------------------------------------------------------
(* The steps around it: an attempt fails, ends or begins, and the server   *)
(* settles transactions.                                                   *)

\* A client's step that takes no lock, and after which its call is not between
\* a lookup and a store.
LEMMA ClientMovesOn ==
    ASSUME UpsertIInv, UpsertTypeOK', NothingLocked, rows' = rows, NEW c \in Calls,
           phase'[c] = "ready",
           \/ pending'[c] = {}
           \/ /\ attempt'[c] = attempt[c] /\ pending'[c] = pending[c]
              /\ pc'[c] \notin {"body", "rollback"} => pc[c] \notin {"body", "rollback"},
           \A d \in Calls \ {c} : Apart(d)
    PROVE  UpsertIInv'
  <1>1. LocksInv'
    BY NothingLockedKeepsLocks DEF UpsertIInv
  <1>2. DecisionInv(c)' /\ PendingInv(c)'
    BY MovesOnKeepsInv DEF UpsertIInv, NothingLocked
  <1>3. ASSUME NEW d \in Calls, d # c PROVE DecisionInv(d)' /\ PendingInv(d)'
    BY <1>3, ApartKeepsInv DEF UpsertIInv
  <1> QED
    BY <1>1, <1>2, <1>3 DEF UpsertIInv

LEMMA AttemptFails ==
    ASSUME IInv, UpsertIInv, NEW c \in Calls,
           Fails(c) \/ DeadlockVictim(c) \/ LosesConnection(c)
    PROVE  UpsertIInv'
  <1>1. /\ pc[c] = "body" /\ attempt[c] \in Attempts /\ pc' = [pc EXCEPT ![c] = "rollback"]
        /\ UNCHANGED <<attempt, rows, locked, written, loaded, pending, step>>
        /\ losses' \in 0..MaxLosses
        /\ phase' = [phase EXCEPT ![c] = "ready"]
    <2>1. phase \in [Calls -> {"ready", "waiting", "found", "missing"}] /\ losses \in 0..MaxLosses
      BY DEF UpsertIInv, UpsertTypeOK
    <2>2. CASE Fails(c)
      BY <2>1, <2>2, BodyFacts DEF Fails, FunctionRaises, Transition, table, session
    <2>3. CASE DeadlockVictim(c)
      BY <2>1, <2>3, BodyFacts DEF DeadlockVictim, StatementRejected, Transition, Leave, table
    <2>4. CASE LosesConnection(c)
      BY <2>1, <2>4, BodyFacts, UpsertAssumption
      DEF LosesConnection, ConnectionLost, Transition, Leave, table
    <2> QED
      BY <2>2, <2>3, <2>4
  <1>2. /\ txn \in [Calls -> [Attempts -> TxnStates]]
        /\ \A d \in Calls : d # c => txn'[d] = txn[d]
        /\ \A d \in Calls : \A b \in Attempts :
               /\ txn'[d][b] \in Held => txn[d][b] \in Held
               /\ txn'[d][b] = "none" => txn[d][b] = "none"
    <2>1. txn \in [Calls -> [Attempts -> TxnStates]]
      BY DEF IInv, TypeOK
    <2>2. CASE Fails(c)
      BY <2>1, <2>2 DEF Fails, FunctionRaises
    <2>3. CASE DeadlockVictim(c)
      BY <1>1, <2>1, <2>3 DEF DeadlockVictim, StatementRejected, SetTxn, Held
    <2>4. CASE LosesConnection(c)
      BY <1>1, <2>1, <2>4 DEF LosesConnection, ConnectionLost, SetTxn, Txn, Disconnected, Held
    <2> QED
      BY <2>1, <2>2, <2>3, <2>4
  <1>3. NothingLocked
    BY <1>1, <1>2 DEF NothingLocked
  <1>4. /\ phase \in [Calls -> {"ready", "waiting", "found", "missing"}]
        /\ pc \in [Calls -> PCs]
    BY DEF IInv, TypeOK, UpsertIInv, UpsertTypeOK
  <1>5. UpsertTypeOK'
    BY <1>1, <1>4 DEF UpsertIInv, UpsertTypeOK
  <1>6. \A d \in Calls \ {c} : Apart(d)
    BY <1>1, <1>2, <1>4 DEF Apart
  <1> QED
    BY <1>1, <1>3, <1>4, <1>5, <1>6, ClientMovesOn

LEMMA RollsBackStep ==
    ASSUME IInv, UpsertIInv, NEW c \in Calls, RollsBack(c)
    PROVE  UpsertIInv'
  <1>1. /\ pc[c] = "rollback" /\ attempt[c] \in Attempts /\ pc' = [pc EXCEPT ![c] = "decide"]
        /\ UNCHANGED <<attempt, rows, locked, written, phase, losses>>
        /\ loaded' = [loaded EXCEPT ![c] = [k \in Keys |-> None]]
        /\ pending' = [pending EXCEPT ![c] = {}]
        /\ step' = [step EXCEPT ![c] = 1]
    BY BodyFacts
    DEF RollsBack, RollbackWithoutServer, RollbackSucceeds, Transition, Expire, table
  <1>2. /\ txn \in [Calls -> [Attempts -> TxnStates]] /\ pc \in [Calls -> PCs]
        /\ loaded \in [Calls -> [Keys -> Row \union {None}]]
        /\ pending \in [Calls -> SUBSET Keys]
    BY DEF IInv, TypeOK, UpsertIInv, UpsertTypeOK
  <1>3. /\ \A d \in Calls : d # c => txn'[d] = txn[d]
        /\ \A d \in Calls : \A b \in Attempts :
               /\ txn'[d][b] \in Held => txn[d][b] \in Held
               /\ txn'[d][b] = "none" => txn[d][b] = "none"
    BY <1>1, <1>2 DEF RollsBack, RollbackWithoutServer, RollbackSucceeds, SetTxn, Txn, Held
  <1>4. NothingLocked
    BY <1>1, <1>3 DEF NothingLocked
  <1>5. UpsertTypeOK'
    <2>1. \A d \in Calls : step'[d] \in 1..(Len(Plan[d]) + 1)
      <3>1. \A d \in Calls : Len(Plan[d]) \in Nat
        BY UpsertAssumption
      <3> QED
        BY <1>1, <3>1 DEF UpsertIInv, UpsertTypeOK
    <2> QED
      BY <1>1, <1>2, <2>1 DEF UpsertIInv, UpsertTypeOK
  <1>6. \A d \in Calls \ {c} : Apart(d)
    BY <1>1, <1>2, <1>3 DEF Apart, UpsertIInv, UpsertTypeOK
  <1>7. phase'[c] = "ready"
    BY <1>1 DEF UpsertIInv, DecisionInv, UpsertTypeOK
  <1> QED
    BY <1>1, <1>2, <1>4, <1>5, <1>6, <1>7, ClientMovesOn

LEMMA DecidesStep ==
    ASSUME IInv, UpsertIInv, NEW c \in Calls, Decides(c)
    PROVE  UpsertIInv'
  <1>1. /\ UNCHANGED <<txn, rows, locked, written, loaded, pending, step, phase, losses>>
        /\ \A d \in Calls : d # c => pc'[d] = pc[d] /\ attempt'[d] = attempt[d]
        /\ pc[c] # "body"
        /\ \/ pc[c] \notin {"body", "rollback"} /\ pending[c] = {}
           \/ attempt' = attempt /\ pc'[c] = "rollback"
    BY DEF Decides, Accept, Begin, Retry, GiveUp, CommitSucceeds, CommitFails, Transition,
           table, session, IInv, TypeOK, UpsertIInv, PendingInv
  <1>2. NothingLocked
    BY <1>1 DEF NothingLocked
  <1>3. UpsertTypeOK'
    BY <1>1 DEF UpsertIInv, UpsertTypeOK
  <1>4. \A d \in Calls \ {c} : Apart(d)
    BY <1>1 DEF Apart
  <1>5. phase'[c] = "ready"
    BY <1>1 DEF UpsertIInv, DecisionInv, UpsertTypeOK
  <1> QED
    BY <1>1, <1>2, <1>3, <1>4, <1>5, ClientMovesOn

\* A commit changes only rows that its transaction has locked, and so none that
\* another call has decided on.
LEMMA CommitsStep ==
    ASSUME IInv, UpsertIInv, NEW c \in Calls, NEW a \in Attempts, CommitsTable(c, a)
    PROVE  UpsertIInv'
  <1>1. /\ txn[c][a] = "committing" /\ txn' = [txn EXCEPT ![c][a] = "committed"]
        /\ UNCHANGED <<pc, attempt, locked, written, loaded, pending, step, phase, losses>>
        /\ rows' = Overlay(written[c][a])
    BY DEF CommitsTable, ServerCommits, SetTxn, session
  <1>2. txn \in [Calls -> [Attempts -> TxnStates]]
    BY DEF IInv, TypeOK
  <1>3. \A k \in Keys : /\ rows'[k] = IF written[c][a][k] = None THEN rows[k] ELSE written[c][a][k]
                        /\ rows'[k] \in Row \union {Absent}
    BY <1>1, OverlayType DEF UpsertIInv
  <1>4. UpsertTypeOK'
    <2>1. rows' \in [Keys -> Row \union {Absent}]
      BY <1>1, <1>3 DEF Overlay
    <2> QED
      BY <1>1, <2>1 DEF UpsertIInv, UpsertTypeOK
  <1>5. LocksInv'
    <2>1. NothingLocked
      BY <1>1, <1>2 DEF NothingLocked, Held
    <2> QED
      BY <2>1, NothingLockedKeepsLocks DEF UpsertIInv
  <1>6. ASSUME NEW d \in Calls PROVE DecisionInv(d)' /\ PendingInv(d)'
    <2>1. Key(d)' = Key(d) /\ Finished(d)' = Finished(d) /\ Current(d)' = Current(d)
      BY <1>1 DEF Key, Item, Finished, Current
    <2>2. \A k \in Keys : Overlay(Current(d))'[k] = IF Current(d)[k] = None THEN rows'[k]
                                                    ELSE Current(d)[k]
      BY <2>1 DEF Overlay
    <2>3. \A k \in Keys : Overlay(Current(d))[k] = IF Current(d)[k] = None THEN rows[k]
                                                   ELSE Current(d)[k]
      BY DEF Overlay
    <2>4. ASSUME phase[d] \in {"found", "missing"} PROVE DecisionInv(d)'
      <3>1. /\ attempt[d] \in Attempts /\ Key(d) \in Keys /\ txn[d][attempt[d]] = "active"
            /\ Key(d) \in locked[d][attempt[d]]
        BY <2>4, BodyFacts, ItemType DEF UpsertIInv, DecisionInv, Txn
      <3>2. Holds(d, attempt[d], Key(d)) /\ (d # c \/ attempt[d] # a)
        BY <1>1, <3>1 DEF Holds
      <3>3. ~Holds(c, a, Key(d))
        BY <3>1, <3>2 DEF UpsertIInv, LocksInv
      <3>4. written[c][a][Key(d)] = None
        BY <1>1, <3>1, <3>3 DEF UpsertIInv, LocksInv, Holds
      <3>5. Overlay(Current(d))'[Key(d)] = Overlay(Current(d))[Key(d)]
        BY <1>3, <2>2, <2>3, <3>1, <3>4
      <3>6. txn'[d][attempt[d]] = "active"
        BY <1>1, <1>2, <3>1
      <3> QED
        BY <1>1, <2>1, <3>5, <3>6, <2>4 DEF UpsertIInv, DecisionInv, Txn
    <2>5. ASSUME phase[d] \notin {"found", "missing"} PROVE DecisionInv(d)'
      BY <1>1, <2>1, <2>5 DEF UpsertIInv, DecisionInv
    <2>6. PendingInv(d)'
      <3>1. ASSUME NEW k \in Keys, Overlay(Current(d))[k] # Absent
            PROVE  Overlay(Current(d))'[k] # Absent
        <4>1. written[c][a][k] \in Row \union {None}
          BY DEF UpsertIInv, UpsertTypeOK
        <4> QED
          BY <1>3, <2>2, <2>3, <3>1, <4>1, UpsertAssumption
      <3>2. pending[d] \subseteq Keys
        BY DEF UpsertIInv, UpsertTypeOK
      <3> QED
        BY <1>1, <3>1, <3>2 DEF UpsertIInv, PendingInv
    <2>7. DecisionInv(d)'
      BY <2>4, <2>5
    <2> QED
      BY <2>6, <2>7
  <1> QED
    BY <1>4, <1>5, <1>6 DEF UpsertIInv

LEMMA UnwindsStep ==
    ASSUME IInv, UpsertIInv, NEW c \in Calls, NEW a \in Attempts, Unwinds(c, a)
    PROVE  UpsertIInv'
  <1>1. /\ txn[c][a] \in {"committing", "orphaned"}
        /\ txn' = [txn EXCEPT ![c][a] = "rolledback"]
        /\ UNCHANGED <<pc, attempt, rows, locked, written, loaded, pending, step, phase, losses>>
    BY DEF Unwinds, ServerDropsCommit, ServerNoticesLoss, SetTxn, table, session
  <1>2. txn \in [Calls -> [Attempts -> TxnStates]]
    BY DEF IInv, TypeOK
  <1>3. UpsertTypeOK'
    BY <1>1 DEF UpsertIInv, UpsertTypeOK
  <1>4. LocksInv'
    <2>1. NothingLocked
      BY <1>1, <1>2 DEF NothingLocked, Held
    <2> QED
      BY <2>1, NothingLockedKeepsLocks DEF UpsertIInv
  <1>5. ASSUME NEW d \in Calls PROVE DecisionInv(d)' /\ PendingInv(d)'
    <2>1. /\ Key(d)' = Key(d) /\ Finished(d)' = Finished(d)
          /\ Overlay(Current(d))' = Overlay(Current(d))
      BY <1>1 DEF Key, Item, Finished, Current, Overlay
    <2>2. phase[d] \in {"found", "missing"} => Txn(d)' = "active"
      <3>1. phase[d] \in {"found", "missing"} =>
                attempt[d] \in Attempts /\ txn[d][attempt[d]] = "active"
        BY BodyFacts DEF UpsertIInv, DecisionInv, Txn
      <3> QED
        BY <1>1, <1>2, <3>1 DEF Txn
    <2> QED
      BY <1>1, <2>1, <2>2 DEF UpsertIInv, DecisionInv, PendingInv
  <1> QED
    BY <1>3, <1>4, <1>5 DEF UpsertIInv

-----------------------------------------------------------------------------
(* The invariant, and what follows from it.                                *)

LEMMA UpsertStepInv == IInv /\ UpsertIInv /\ [UpsertNext]_upsertVars => UpsertIInv'
  <1> SUFFICES ASSUME IInv, UpsertIInv, [UpsertNext]_upsertVars PROVE UpsertIInv'
    OBVIOUS
  <1>1. ASSUME NEW c \in Calls, UpsertClient(c) PROVE UpsertIInv'
    BY <1>1, LookupStep, StoreStep, WaitStep, ReturnsStep, AttemptFails, RollsBackStep, DecidesStep
    DEF UpsertClient
  <1>2. ASSUME NEW c \in Calls, NEW a \in Attempts, UpsertServer(c, a) PROVE UpsertIInv'
    BY <1>2, CommitsStep, UnwindsStep DEF UpsertServer
  <1>3. CASE UNCHANGED upsertVars
    <2>1. UpsertTypeOK' /\ NothingLocked /\ rows' = rows
      BY <1>3 DEF upsertVars, vars, table, session, UpsertIInv, UpsertTypeOK, NothingLocked
    <2>2. \A d \in Calls : Apart(d)
      BY <1>3 DEF upsertVars, vars, table, session, Apart
    <2> QED
      BY <2>1, <2>2, ApartKeepsInv, NothingLockedKeepsLocks DEF UpsertIInv
  <1> QED
    BY <1>1, <1>2, <1>3 DEF UpsertNext

LEMMA UpsertInvariance == UpsertSpec => []UpsertIInv
  BY UpsertsRetry, UpsertInitInv, UpsertStepInv, PTL DEF UpsertSpec

\* Type correctness of the table, the locks and the sessions.
THEOREM UpsertTypeCorrect == UpsertSpec => []UpsertTypeOK
  <1>1. UpsertIInv => UpsertTypeOK
    BY DEF UpsertIInv
  <1> QED
    BY <1>1, UpsertInvariance, PTL

\* The locks that a lookup takes, also on a row that is not there, keep its
\* finding true until the upsert has acted on it: no duplicate key, no lost
\* update, for any number of upserts in any orders, and any commits in flight.
THEOREM DecisionHolds == UpsertSpec => []DecisionStillHolds
  <1>1. UpsertIInv => DecisionStillHolds
    BY DEF UpsertIInv, DecisionInv, DecisionStillHolds
  <1> QED
    BY <1>1, UpsertInvariance, PTL

\* Composed with upserts, the decorator still never applies two attempts of a
\* call, whatever locks and deadlocks the upserts run into.
THEOREM UpsertsApplyOnce == UpsertSpec => []AppliedAtMostOnce
  BY UpsertsRetry, InvariantAppliesOnce, PTL

-----------------------------------------------------------------------------
(* The rows a transaction leaves, upsert by upsert.                        *)

\* Whether one of the first n upserts of call c is of key k, and one that is
\* followed by an edit.
UpsertedBy(c, n, k) == \E i \in 1..n : Plan[c][i].key = k
EditedBy(c, n, k) == \E i \in 1..n : Plan[c][i].key = k /\ Plan[c][i].edit

\* The row after the first n upserts of call c.
RowSoFar(row, c, n, k) ==
    IF EditedBy(c, n, k) THEN Serial!Edited(Serial!Upserted(row, c), c)
    ELSE IF UpsertedBy(c, n, k) THEN Serial!Upserted(row, c)
    ELSE row

\* An upsert of a row that the call has upserted, or edited, changes nothing.
LEMMA UpsertedRows ==
    ASSUME NEW c \in Calls, NEW row \in Row \union {Absent}
    PROVE  /\ Serial!Upserted(row, c) \in Row
           /\ Serial!Upserted(Serial!Upserted(row, c), c) = Serial!Upserted(row, c)
           /\ \A r \in Row : /\ Serial!Edited(r, c) \in Row
                             /\ Serial!Edited(Serial!Edited(r, c), c) = Serial!Edited(r, c)
                             /\ r.value = Data[c] => Serial!Upserted(r, c) = r
           /\ Serial!Upserted(Serial!Edited(Serial!Upserted(row, c), c), c) =
                  Serial!Edited(Serial!Upserted(row, c), c)
  <1>1. ASSUME NEW r \in Row PROVE r # Absent
    BY UpsertAssumption
  <1>2. /\ Serial!Upserted(row, c) \in Row
        /\ Serial!Upserted(row, c).value = Data[c]
    <2>1. CASE row = Absent
      BY <2>1 DEF Serial!Upserted, Row, Values
    <2>2. CASE row # Absent
      BY <2>2 DEF Serial!Upserted, Row, Values
    <2> QED
      BY <2>1, <2>2
  <1>3. ASSUME NEW r \in Row
        PROVE  /\ Serial!Edited(r, c) \in Row
               /\ Serial!Edited(r, c).value = r.value
               /\ Serial!Edited(Serial!Edited(r, c), c) = Serial!Edited(r, c)
    BY DEF Serial!Edited, Row, Values
  <1>4. ASSUME NEW r \in Row, r.value = Data[c] PROVE Serial!Upserted(r, c) = r
    BY <1>1, <1>4 DEF Serial!Upserted, Row
  <1> QED
    BY <1>2, <1>3, <1>4

\* The next upsert of the plan, and the edit that may follow it.
LEMMA NextRow ==
    ASSUME NEW c \in Calls, NEW n \in Nat, NEW k, NEW row \in Row \union {Absent}
    PROVE  LET before == RowSoFar(row, c, n, k)
               item == Plan[c][n + 1]
           IN  RowSoFar(row, c, n + 1, k) =
                   IF item.key # k THEN before
                   ELSE IF item.edit THEN Serial!Edited(Serial!Upserted(before, c), c)
                   ELSE Serial!Upserted(before, c)
  <1> DEFINE before == RowSoFar(row, c, n, k)
             item == Plan[c][n + 1]
             up == Serial!Upserted(row, c)
  <1>1. 1..(n + 1) = 1..n \union {n + 1}
    OBVIOUS
  <1>2. /\ UpsertedBy(c, n + 1, k) <=> UpsertedBy(c, n, k) \/ item.key = k
        /\ EditedBy(c, n + 1, k) <=> EditedBy(c, n, k) \/ (item.key = k /\ item.edit)
    BY <1>1 DEF UpsertedBy, EditedBy
  <1>3. before \in {row, up, Serial!Edited(up, c)}
    BY DEF RowSoFar
  <1>4. /\ up \in Row /\ Serial!Upserted(up, c) = up
        /\ Serial!Edited(Serial!Edited(up, c), c) = Serial!Edited(up, c)
        /\ Serial!Upserted(Serial!Edited(up, c), c) = Serial!Edited(up, c)
    BY UpsertedRows
  <1>5. CASE item.key # k
    BY <1>2, <1>5 DEF RowSoFar
  <1>6. CASE item.key = k /\ item.edit
    <2>1. RowSoFar(row, c, n + 1, k) = Serial!Edited(up, c)
      BY <1>2, <1>6 DEF RowSoFar
    <2> HIDE DEF up, before
    <2>2. Serial!Edited(Serial!Upserted(before, c), c) = Serial!Edited(up, c)
      BY <1>3, <1>4 DEF up
    <2> QED
      BY <1>6, <2>1, <2>2 DEF before
  <1>7. CASE item.key = k /\ ~item.edit
    <2>1. EditedBy(c, n, k) => before = Serial!Edited(up, c)
      BY DEF RowSoFar
    <2>2. ~EditedBy(c, n, k) => before \in {row, up}
      BY DEF RowSoFar
    <2>3. RowSoFar(row, c, n + 1, k) = IF EditedBy(c, n, k) THEN Serial!Edited(up, c) ELSE up
      BY <1>2, <1>7 DEF RowSoFar
    <2>4. Serial!Upserted(before, c) = IF EditedBy(c, n, k) THEN Serial!Edited(up, c) ELSE up
      BY <1>4, <2>1, <2>2
    <2> QED
      BY <1>7, <2>3, <2>4
  <1> QED
    BY <1>5, <1>6, <1>7

\* Once the plan is done, the row is the one the transaction promises.
LEMMA RowInTheEnd ==
    ASSUME NEW c \in Calls, NEW k, NEW row
    PROVE  /\ RowSoFar(row, c, Len(Plan[c]), k) = Serial!RowAfter(row, c, k)
           /\ UpsertedBy(c, Len(Plan[c]), k) <=> Serial!Upserts(c, k)
  <1>1. 1..Len(Plan[c]) = DOMAIN Plan[c]
    BY UpsertAssumption
  <1> QED
    BY <1>1 DEF RowSoFar, UpsertedBy, EditedBy, Serial!RowAfter, Serial!Upserts, Serial!Edits

\* A row that no upsert of the call is of stays as it was.
LEMMA RowNotUpserted ==
    ASSUME NEW c \in Calls, NEW n, NEW k, NEW row
    PROVE  /\ ~UpsertedBy(c, n, k) => RowSoFar(row, c, n, k) = row
           /\ ~Serial!Upserts(c, k) => Serial!RowAfter(row, c, k) = row
  BY DEF RowSoFar, UpsertedBy, EditedBy, Serial!RowAfter, Serial!Upserts, Serial!Edits

-----------------------------------------------------------------------------
(* How far a transaction has got.                                          *)

\* The table as a call's transaction sees it, with the edits it has pending.
Seen(c) == Overlay(Flushed(c))

SoFar(c) == step[c] - 1

\* Inside the decorated function, a call's transaction has done exactly the
\* upserts before its position, to the rows as they are committed by now, and
\* it has locked every row it has done.
ProgressInv(c) ==
    /\ pc[c] \in {"call", "begin", "decide"} => step[c] = 1
    /\ phase[c] \in {"found", "missing"} => pending[c] = {}
    /\ pc[c] = "body" =>
           /\ Txn(c) \in {"none", "active"}
           /\ \A k \in Keys :
                  /\ UpsertedBy(c, SoFar(c), k) => k \in locked[c][attempt[c]]
                  /\ Seen(c)[k] = RowSoFar(rows[k], c, SoFar(c), k)

\* A commit on its way to the server carries the whole transaction.
CommitInv(c) ==
    \A a \in Attempts : txn[c][a] = "committing" =>
        \A k \in Keys :
            /\ Serial!Upserts(c, k) => k \in locked[c][a]
            /\ Overlay(written[c][a])[k] = Serial!RowAfter(rows[k], c, k)

SerialInv == \A c \in Calls : ProgressInv(c) /\ CommitInv(c)

LEMMA InitSerialInv == UpsertInit => SerialInv
  BY DEF UpsertInit, Init, SerialInv, ProgressInv, CommitInv, Attempts

\* With nothing pending, a transaction sees its writes over the committed rows.
LEMMA SeenRow ==
    ASSUME NEW c \in Calls, NEW k \in Keys, pending[c] = {}
    PROVE  /\ Overlay(Current(c))[k] =
                  IF written[c][attempt[c]][k] = None THEN rows[k] ELSE written[c][attempt[c]][k]
           /\ Seen(c)[k] = Overlay(Current(c))[k]
  BY DEF Seen, Overlay, Flushed, Current

LEMMA ApartKeepsSerial ==
    ASSUME NEW d \in Calls, ProgressInv(d), CommitInv(d), Apart(d), rows' = rows
    PROVE  ProgressInv(d)' /\ CommitInv(d)'
  <1>1. Seen(d)' = Seen(d)
    BY DEF Seen, Overlay, Flushed, Current, Apart
  <1>2. SoFar(d)' = SoFar(d) /\ Txn(d)' = Txn(d)
    BY DEF SoFar, Txn, Apart
  <1>3. ProgressInv(d)'
    BY <1>1, <1>2 DEF ProgressInv, Apart
  <1>4. \A a \in Attempts : Overlay(written[d][a])' = Overlay(written[d][a])
    BY DEF Overlay, Apart
  <1>5. CommitInv(d)'
    BY <1>4 DEF CommitInv, Apart
  <1> QED
    BY <1>3, <1>5

\* A call's step asks for no commit, and changes no write of a commit that is
\* on its way.
LEMMA NoNewCommit ==
    ASSUME NEW c \in Calls, CommitInv(c), rows' = rows,
           \A a \in Attempts : txn'[c][a] = "committing" =>
               /\ txn[c][a] = "committing"
               /\ locked'[c][a] = locked[c][a] /\ written'[c][a] = written[c][a]
    PROVE  CommitInv(c)'
  <1>1. ASSUME NEW a \in Attempts, txn'[c][a] = "committing"
        PROVE  Overlay(written[c][a])' = Overlay(written[c][a])
    BY <1>1 DEF Overlay
  <1> QED
    BY <1>1 DEF CommitInv

LEMMA LookupSerial ==
    ASSUME IInv, UpsertIInv, SerialInv, NEW c \in Calls, Lookup(c)
    PROVE  SerialInv'
  <1> DEFINE k == Key(c)
             a == attempt[c]
  <1>1. /\ a \in Attempts
        /\ UNCHANGED <<pc, attempt, rows, step>>
        /\ pc[c] = "body" /\ txn[c][a] \in {"none", "active"}
        /\ txn' = [txn EXCEPT ![c][a] = "active"]
        /\ locked' = [locked EXCEPT ![c][a] = @ \union {k}]
        /\ written' = [written EXCEPT ![c][a] = Flushed(c)]
        /\ pending' = [pending EXCEPT ![c] = {}]
        /\ \E r : loaded' = [loaded EXCEPT ![c][k] = r]
        /\ \E p : phase' = [phase EXCEPT ![c] = p]
    BY BodyFacts DEF Lookup, StatementSucceeds, SetTxn, Txn, LockedByLookup
  <1>2. /\ txn \in [Calls -> [Attempts -> TxnStates]]
        /\ locked \in [Calls -> [Attempts -> SUBSET Keys]]
        /\ written \in [Calls -> [Attempts -> [Keys -> Row \union {None}]]]
        /\ pending \in [Calls -> SUBSET Keys]
    BY DEF IInv, TypeOK, UpsertIInv, UpsertTypeOK
  <1>3. ProgressInv(c)'
    <2>1. pending'[c] = {} /\ written'[c][a] = Flushed(c) /\ txn'[c][a] = "active"
      BY <1>1, <1>2
    <2>2. \A l \in Keys : Seen(c)'[l] = Seen(c)[l]
      <3>1. \A l \in Keys : Flushed(c)'[l] = Flushed(c)[l]
        BY <1>1, <2>1 DEF Flushed, Current
      <3> QED
        BY <1>1, <3>1 DEF Seen, Overlay
    <2>3. locked[c][a] \subseteq locked'[c][a]
      BY <1>1, <1>2
    <2> QED
      BY <1>1, <2>1, <2>2, <2>3 DEF SerialInv, ProgressInv, SoFar, Txn
  <1>4. CommitInv(c)'
    <2>1. ASSUME NEW b \in Attempts, txn'[c][b] = "committing"
          PROVE  /\ txn[c][b] = "committing"
                 /\ locked'[c][b] = locked[c][b] /\ written'[c][b] = written[c][b]
      BY <1>1, <1>2, <2>1
    <2> QED
      BY <1>1, <2>1, NoNewCommit DEF SerialInv
  <1>5. ASSUME NEW d \in Calls, d # c PROVE ProgressInv(d)' /\ CommitInv(d)'
    <2>1. Apart(d)
      BY <1>1, <1>2, <1>5 DEF Apart
    <2> QED
      BY <1>1, <2>1, ApartKeepsSerial DEF SerialInv
  <1> QED
    BY <1>3, <1>4, <1>5 DEF SerialInv

LEMMA WaitSerial ==
    ASSUME SerialInv, UpsertIInv, NEW c \in Calls, WaitForLock(c)
    PROVE  SerialInv'
  <1>1. /\ UNCHANGED <<vars, rows, locked, written, loaded, pending, step>>
        /\ phase' = [phase EXCEPT ![c] = "waiting"]
        /\ phase \in [Calls -> {"ready", "waiting", "found", "missing"}]
    BY DEF WaitForLock, table, UpsertIInv, UpsertTypeOK
  <1>2. ProgressInv(c)'
    <2>1. Seen(c)' = Seen(c) /\ SoFar(c)' = SoFar(c) /\ Txn(c)' = Txn(c)
      BY <1>1 DEF vars, Seen, Overlay, Flushed, Current, SoFar, Txn
    <2> QED
      BY <1>1, <2>1 DEF vars, SerialInv, ProgressInv
  <1>3. CommitInv(c)'
    BY <1>1, NoNewCommit DEF vars, SerialInv
  <1>4. ASSUME NEW d \in Calls, d # c PROVE ProgressInv(d)' /\ CommitInv(d)'
    <2>1. Apart(d)
      BY <1>1, <1>4 DEF vars, Apart
    <2> QED
      BY <1>1, <2>1, ApartKeepsSerial DEF SerialInv
  <1> QED
    BY <1>2, <1>3, <1>4 DEF SerialInv

\* What the upsert stores is its row once more upserted, and edited if the
\* caller does so.
LEMMA StoreSerial ==
    ASSUME IInv, UpsertIInv, SerialInv, NEW c \in Calls, Store(c)
    PROVE  SerialInv'
  <1> DEFINE k == Key(c)
             a == attempt[c]
             n == SoFar(c)
             before == Overlay(Current(c))
             row == IF phase[c] = "found" THEN Updated(c, k) ELSE Inserted(c)
  <1>1. /\ pc[c] = "body" /\ phase[c] \in {"found", "missing"} /\ a \in Attempts
        /\ k \in Keys /\ txn[c][a] = "active" /\ k \in locked[c][a] /\ pending[c] = {}
    BY BodyFacts, ItemType DEF Store, UpsertIInv, DecisionInv, Txn, SerialInv, ProgressInv
  <1>2. /\ txn \in [Calls -> [Attempts -> TxnStates]]
        /\ written \in [Calls -> [Attempts -> [Keys -> Row \union {None}]]]
        /\ loaded \in [Calls -> [Keys -> Row \union {None}]]
        /\ pending \in [Calls -> SUBSET Keys]
        /\ phase \in [Calls -> {"ready", "waiting", "found", "missing"}]
        /\ step[c] \in Nat \ {0} /\ step' = [step EXCEPT ![c] = @ + 1]
        /\ step[c] = n + 1 /\ step'[c] = step[c] + 1 /\ n \in Nat
    <2>1. step[c] \in 1..(Len(Plan[c]) + 1) /\ Len(Plan[c]) \in Nat
      BY UpsertAssumption DEF UpsertIInv, UpsertTypeOK
    <2>2. step' = [step EXCEPT ![c] = @ + 1]
      BY DEF Store
    <2> QED
      BY <2>1, <2>2 DEF IInv, TypeOK, UpsertIInv, UpsertTypeOK, SoFar
  <1>3. /\ UNCHANGED <<pc, attempt, rows, locked>>
        /\ txn' = txn
        /\ written' = [written EXCEPT ![c][a][k] = row]
        /\ \E r : loaded' = [loaded EXCEPT ![c][k] = r]
        /\ pending' = [pending EXCEPT ![c] = IF Item(c).edit THEN @ \union {k} ELSE @]
        /\ phase' = [phase EXCEPT ![c] = "ready"]
    <2>1. StatementSucceeds(c)
      BY DEF Store
    <2>2. txn' = [txn EXCEPT ![c][a] = "active"] /\ UNCHANGED <<pc, attempt>>
      BY <2>1 DEF StatementSucceeds, SetTxn
    <2>3. txn' = txn
      BY <1>1, <1>2, <2>2
    <2>4. /\ UNCHANGED <<rows, locked>>
          /\ written' = [written EXCEPT ![c][a][k] = row]
          /\ phase' = [phase EXCEPT ![c] = "ready"]
          /\ pending' = [pending EXCEPT ![c] = IF Item(c).edit THEN @ \union {k} ELSE @]
          /\ loaded' = [loaded EXCEPT ![c][k] = IF row = None THEN @ ELSE row]
      BY DEF Store
    <2>5. loaded' = [loaded EXCEPT ![c][k] = IF row = None THEN loaded[c][k] ELSE row]
      BY <1>1, <1>2, <2>4
    <2>6. \E r : loaded' = [loaded EXCEPT ![c][k] = r]
      BY <2>5, Zenon
    <2> QED
      BY <2>2, <2>3, <2>4, <2>6, Zenon
  <1>4. ASSUME NEW l \in Keys
        PROVE  /\ before[l] \in Row \union {Absent}
               /\ before[l] = IF written[c][a][l] = None THEN rows[l] ELSE written[c][a][l]
               /\ before[l] = RowSoFar(rows[l], c, n, l)
               /\ UpsertedBy(c, n, l) => l \in locked[c][a]
    BY <1>1, OverlayType, SeenRow DEF UpsertIInv, SerialInv, ProgressInv, Current
  <1>5. /\ row \in Row \union {None}
        /\ (IF row = None THEN rows[k] ELSE row) = Serial!Upserted(before[k], c)
    <2>1. CASE phase[c] = "missing"
      <3>1. before[k] = Absent
        BY <1>1, <2>1 DEF UpsertIInv, DecisionInv
      <3>2. row = Serial!Upserted(before[k], c)
        BY <2>1, <3>1 DEF Inserted, Serial!Upserted
      <3>3. row \in Row
        BY <1>1, <1>4, <3>2, UpsertedRows
      <3> QED
        BY <3>2, <3>3, UpsertAssumption
    <2>2. CASE phase[c] = "found"
      <3>1. loaded[c][k] = before[k] /\ before[k] \in Row /\ before[k] # Absent
        BY <1>1, <1>2, <1>4, <2>2, UpsertAssumption DEF UpsertIInv, DecisionInv
      <3>2. row = IF before[k].value = Data[c] THEN written[c][a][k]
                  ELSE [before[k] EXCEPT !.value = Data[c]]
        BY <2>2, <3>1 DEF Updated, Current
      <3> HIDE DEF row
      <3>3. CASE before[k].value = Data[c]
        <4>1. Serial!Upserted(before[k], c) = before[k]
          BY <3>1, <3>3, UpsertedRows
        <4> QED
          BY <1>1, <1>2, <1>4, <3>2, <3>3, <4>1
      <3>4. CASE before[k].value # Data[c]
        <4>1. row = Serial!Upserted(before[k], c)
          BY <3>1, <3>2, <3>4 DEF Serial!Upserted
        <4>2. row \in Row
          BY <3>1, <4>1, UpsertedRows
        <4> QED
          BY <4>1, <4>2, UpsertAssumption
      <3> QED
        BY <3>3, <3>4
    <2> QED
      BY <1>1, <2>1, <2>2
  <1> HIDE DEF row
  <1>6. ASSUME NEW l \in Keys
        PROVE  Overlay(Current(c))'[l] = IF l = k THEN Serial!Upserted(before[k], c)
                                         ELSE before[l]
    <2>1. written'[c][a][l] = IF l = k THEN row ELSE written[c][a][l]
      BY <1>1, <1>2, <1>3
    <2>2. Overlay(Current(c))'[l] = IF written'[c][a][l] = None THEN rows[l]
                                    ELSE written'[c][a][l]
      BY <1>3 DEF Overlay, Current
    <2> QED
      BY <1>4, <1>5, <2>1, <2>2
  <1>7. ASSUME NEW l \in Keys
        PROVE  Seen(c)'[l] = IF l # k THEN before[l]
                             ELSE IF Item(c).edit
                                  THEN Serial!Edited(Serial!Upserted(before[k], c), c)
                             ELSE Serial!Upserted(before[k], c)
    <2>1. l \in pending'[c] <=> l = k /\ Item(c).edit
      BY <1>1, <1>2, <1>3
    <2>2. Flushed(c)'[l] = IF l \in pending'[c] THEN Serial!Edited(Overlay(Current(c))'[l], c)
                           ELSE Current(c)'[l]
      BY DEF Flushed, Serial!Edited
    <2>3. Seen(c)'[l] = IF Flushed(c)'[l] = None THEN rows[l] ELSE Flushed(c)'[l]
      BY <1>3 DEF Seen, Overlay
    <2>4. l \notin pending'[c] => Seen(c)'[l] = Overlay(Current(c))'[l]
      BY <1>3, <2>2, <2>3 DEF Overlay
    <2>5. Serial!Edited(Serial!Upserted(before[k], c), c) \in Row
      BY <1>1, <1>4, UpsertedRows
    <2> QED
      BY <1>1, <1>6, <2>1, <2>2, <2>3, <2>4, <2>5, UpsertAssumption
  <1>8. ProgressInv(c)'
    <2>1. SoFar(c)' = n + 1 /\ Txn(c)' = Txn(c) /\ phase'[c] = "ready"
      BY <1>2, <1>3 DEF SoFar, Txn
    <2>2. Plan[c][n + 1] = Item(c) /\ Item(c).key = k
      BY <1>2 DEF Item, Key
    <2>3. ASSUME NEW l \in Keys
          PROVE  Seen(c)'[l] = RowSoFar(rows[l], c, n + 1, l)
      <3>1. rows[l] \in Row \union {Absent} /\ n \in Nat
        BY <1>2 DEF UpsertIInv, UpsertTypeOK
      <3>2. RowSoFar(rows[l], c, n + 1, l) =
                IF Plan[c][n + 1].key # l THEN RowSoFar(rows[l], c, n, l)
                ELSE IF Plan[c][n + 1].edit
                     THEN Serial!Edited(Serial!Upserted(RowSoFar(rows[l], c, n, l), c), c)
                ELSE Serial!Upserted(RowSoFar(rows[l], c, n, l), c)
        BY <3>1, NextRow
      <3>3. RowSoFar(rows[l], c, n, l) = before[l]
        BY <1>4
      <3> HIDE DEF n, before, k
      <3> QED
        BY <1>7, <2>2, <3>2, <3>3
    <2>4. ASSUME NEW l \in Keys, UpsertedBy(c, n + 1, l) PROVE l \in locked[c][a]
      <3>1. \A m \in Nat : 1..(m + 1) = 1..m \union {m + 1}
        OBVIOUS
      <3>2. UpsertedBy(c, n, l) \/ l = k
        BY <1>2, <2>2, <2>4, <3>1 DEF UpsertedBy
      <3> QED
        BY <1>1, <1>4, <3>2
    <2> HIDE DEF n, k
    <2> QED
      BY <1>1, <1>3, <2>1, <2>3, <2>4 DEF SerialInv, ProgressInv
  <1>9. CommitInv(c)'
    <2>1. ASSUME NEW b \in Attempts, txn'[c][b] = "committing"
          PROVE  /\ txn[c][b] = "committing"
                 /\ locked'[c][b] = locked[c][b] /\ written'[c][b] = written[c][b]
      BY <1>1, <1>2, <1>3, <2>1
    <2> QED
      BY <1>3, <2>1, NoNewCommit DEF SerialInv
  <1>10. ASSUME NEW d \in Calls, d # c PROVE ProgressInv(d)' /\ CommitInv(d)'
    <2>1. Apart(d)
      BY <1>1, <1>2, <1>3, <1>10 DEF Apart
    <2> QED
      BY <1>3, <2>1, ApartKeepsSerial DEF SerialInv
  <1> QED
    BY <1>8, <1>9, <1>10 DEF SerialInv

\* The commit's flush leaves what the transaction had seen, and by then that is
\* all of its plan.
LEMMA ReturnsSerial ==
    ASSUME IInv, UpsertIInv, SerialInv, NEW c \in Calls, Returns(c)
    PROVE  SerialInv'
  <1> DEFINE a == attempt[c]
             n == SoFar(c)
  <1>1. /\ a \in Attempts /\ phase[c] = "ready" /\ Finished(c) /\ pc[c] = "body"
        /\ pc' = [pc EXCEPT ![c] = "committing"]
        /\ UNCHANGED <<attempt, rows, locked, loaded, step, phase>>
        /\ txn' = [txn EXCEPT ![c][a] = IF txn[c][a] = "active" THEN "committing" ELSE txn[c][a]]
        /\ written' = [written EXCEPT ![c][a] = Flushed(c)]
        /\ pending' = [pending EXCEPT ![c] = {}]
    BY BodyFacts DEF Returns, FunctionReturns, Transition, SetTxn, Txn
  <1>2. /\ txn \in [Calls -> [Attempts -> TxnStates]]
        /\ written \in [Calls -> [Attempts -> [Keys -> Row \union {None}]]]
        /\ pending \in [Calls -> SUBSET Keys]
        /\ pc \in [Calls -> PCs]
    BY DEF IInv, TypeOK, UpsertIInv, UpsertTypeOK
  <1>3. n = Len(Plan[c])
    <2>1. step[c] \in 1..(Len(Plan[c]) + 1) /\ Len(Plan[c]) \in Nat
      BY UpsertAssumption DEF UpsertIInv, UpsertTypeOK
    <2> QED
      BY <1>1, <2>1 DEF Finished, SoFar
  <1>4. ASSUME NEW k \in Keys
        PROVE  /\ Serial!Upserts(c, k) => k \in locked[c][a]
               /\ Seen(c)[k] = Serial!RowAfter(rows[k], c, k)
    <2>1. /\ UpsertedBy(c, n, k) => k \in locked[c][a]
          /\ Seen(c)[k] = RowSoFar(rows[k], c, n, k)
      BY <1>1 DEF SerialInv, ProgressInv
    <2> HIDE DEF n
    <2> QED
      BY <1>3, <2>1, RowInTheEnd
  <1>5. ProgressInv(c)'
    BY <1>1, <1>2 DEF ProgressInv
  <1>6. ASSUME NEW b \in Attempts, txn'[c][b] = "committing", NEW k \in Keys
        PROVE  /\ Serial!Upserts(c, k) => k \in locked'[c][b]
               /\ Overlay(written[c][b])'[k] = Serial!RowAfter(rows'[k], c, k)
    <2>1. CASE b = a
      <3>1. Overlay(written[c][b])' = Seen(c)
        BY <1>1, <1>2, <2>1 DEF Overlay, Seen
      <3> QED
        BY <1>1, <1>4, <2>1, <3>1
    <2>2. CASE b # a
      <3>1. txn[c][b] = "committing" /\ Overlay(written[c][b])' = Overlay(written[c][b])
        BY <1>1, <1>2, <1>6, <2>2 DEF Overlay
      <3> QED
        BY <1>1, <3>1 DEF SerialInv, CommitInv
    <2> QED
      BY <2>1, <2>2
  <1>7. CommitInv(c)'
    BY <1>6 DEF CommitInv
  <1>8. ASSUME NEW d \in Calls, d # c PROVE ProgressInv(d)' /\ CommitInv(d)'
    <2>1. Apart(d)
      BY <1>1, <1>2, <1>8 DEF Apart
    <2> QED
      BY <1>1, <2>1, ApartKeepsSerial DEF SerialInv
  <1> QED
    BY <1>5, <1>7, <1>8 DEF SerialInv

\* A call that is outside its function keeps what its commits carry.
LEMMA OutsideSerial ==
    ASSUME SerialInv, NEW c \in Calls, UNCHANGED <<rows, locked, written>>,
           pc'[c] # "body", phase'[c] = "ready",
           pc'[c] \in {"call", "begin", "decide"} => step'[c] = 1,
           \A a \in Attempts : txn'[c][a] = "committing" => txn[c][a] = "committing",
           \A d \in Calls \ {c} : Apart(d)
    PROVE  SerialInv'
  <1>1. ProgressInv(c)'
    BY DEF ProgressInv
  <1>2. CommitInv(c)'
    BY NoNewCommit DEF SerialInv
  <1>3. ASSUME NEW d \in Calls, d # c PROVE ProgressInv(d)' /\ CommitInv(d)'
    BY <1>3, ApartKeepsSerial DEF SerialInv
  <1> QED
    BY <1>1, <1>2, <1>3 DEF SerialInv

LEMMA FailsSerial ==
    ASSUME IInv, UpsertIInv, SerialInv, NEW c \in Calls,
           Fails(c) \/ DeadlockVictim(c) \/ LosesConnection(c)
    PROVE  SerialInv'
  <1>1. /\ txn \in [Calls -> [Attempts -> TxnStates]] /\ pc \in [Calls -> PCs]
        /\ phase \in [Calls -> {"ready", "waiting", "found", "missing"}]
    BY DEF IInv, TypeOK, UpsertIInv, UpsertTypeOK
  <1>2. /\ pc[c] = "body" /\ attempt[c] \in Attempts /\ pc' = [pc EXCEPT ![c] = "rollback"]
        /\ UNCHANGED <<attempt, rows, locked, written, loaded, pending, step>>
        /\ phase' = [phase EXCEPT ![c] = "ready"]
        /\ txn' = txn \/ \E state \in TxnStates \ {"committing"} : SetTxn(c, attempt[c], state)
    <2>1. CASE Fails(c)
      BY <1>1, <2>1, BodyFacts DEF Fails, FunctionRaises, Transition, table, session
    <2>2. CASE DeadlockVictim(c)
      BY <2>2, BodyFacts
      DEF DeadlockVictim, StatementRejected, Transition, Leave, table, TxnStates
    <2>3. CASE LosesConnection(c)
      BY <2>3, BodyFacts
      DEF LosesConnection, ConnectionLost, Disconnected, Transition, Leave, table, TxnStates
    <2> QED
      BY <2>1, <2>2, <2>3
  <1>3. /\ pc'[c] = "rollback" /\ phase'[c] = "ready"
        /\ \A a \in Attempts : txn'[c][a] = "committing" => txn[c][a] = "committing"
    BY <1>1, <1>2 DEF SetTxn
  <1>4. \A d \in Calls \ {c} : Apart(d)
    BY <1>1, <1>2 DEF Apart, SetTxn
  <1> QED
    BY <1>2, <1>3, <1>4, OutsideSerial

LEMMA RollsBackSerial ==
    ASSUME IInv, UpsertIInv, SerialInv, NEW c \in Calls, RollsBack(c)
    PROVE  SerialInv'
  <1>1. /\ txn \in [Calls -> [Attempts -> TxnStates]] /\ pc \in [Calls -> PCs]
        /\ loaded \in [Calls -> [Keys -> Row \union {None}]]
        /\ pending \in [Calls -> SUBSET Keys] /\ step \in [Calls -> Nat]
    BY DEF IInv, TypeOK, UpsertIInv, UpsertTypeOK
  <1>2. /\ pc[c] = "rollback" /\ attempt[c] \in Attempts /\ pc' = [pc EXCEPT ![c] = "decide"]
        /\ UNCHANGED <<attempt, rows, locked, written, phase>>
        /\ loaded' = [loaded EXCEPT ![c] = [k \in Keys |-> None]]
        /\ pending' = [pending EXCEPT ![c] = {}]
        /\ step' = [step EXCEPT ![c] = 1]
        /\ txn' = txn \/ SetTxn(c, attempt[c], "rolledback")
    BY BodyFacts
    DEF RollsBack, RollbackWithoutServer, RollbackSucceeds, Transition, Expire, table
  <1>3. /\ pc'[c] = "decide" /\ step'[c] = 1
        /\ \A a \in Attempts : txn'[c][a] = "committing" => txn[c][a] = "committing"
    BY <1>1, <1>2 DEF SetTxn
  <1>4. phase'[c] = "ready"
    BY <1>2 DEF UpsertIInv, DecisionInv, UpsertTypeOK
  <1>5. \A d \in Calls \ {c} : Apart(d)
    BY <1>1, <1>2 DEF Apart, SetTxn
  <1> QED
    BY <1>2, <1>3, <1>4, <1>5, OutsideSerial

\* A new attempt starts with nothing: no lock, no write, no pending edit.
LEMMA BeginSerial ==
    ASSUME IInv, UpsertIInv, SerialInv, NEW c \in Calls, Begin(c),
           UNCHANGED <<rows, locked, written, loaded, pending, step, phase>>
    PROVE  SerialInv'
  <1> DEFINE a == attempt[c] + 1
  <1>1. /\ attempt \in [Calls -> 0..MaxAttempts] /\ pc \in [Calls -> PCs]
        /\ pc[c] = "begin" /\ pc'[c] = "body" /\ txn' = txn
        /\ attempt' = [attempt EXCEPT ![c] = @ + 1] /\ attempt'[c] = a
        /\ \A d \in Calls : d # c => pc'[d] = pc[d] /\ attempt'[d] = attempt[d]
    BY DEF Begin, Transition, IInv, TypeOK
  <1>2. a \in Attempts /\ txn[c][a] = "none"
    <2>1. attempt[c] < MaxAttempts
      BY <1>1 DEF IInv, CallInv, AttemptsInv
    <2>2. a \in Attempts /\ a > attempt[c]
      BY <1>1, <2>1, MaxAttemptsAssumption DEF Attempts
    <2> QED
      BY <2>2 DEF IInv, CallInv, AttemptsInv
  <1>3. /\ \A k \in Keys : written[c][a][k] = None
        /\ pending[c] = {} /\ step[c] = 1 /\ phase[c] = "ready"
    <2>1. locked[c][a] = {}
      BY <1>2 DEF UpsertIInv, LocksInv
    <2>2. \A k \in Keys : written[c][a][k] = None
      BY <1>2, <2>1 DEF UpsertIInv, LocksInv
    <2>3. pending[c] = {} /\ phase[c] = "ready"
      BY <1>1 DEF UpsertIInv, PendingInv, DecisionInv
    <2>4. step[c] = 1
      BY <1>1 DEF SerialInv, ProgressInv
    <2> QED
      BY <2>2, <2>3, <2>4
  <1>4. ProgressInv(c)'
    <2>1. SoFar(c)' = 0 /\ Txn(c)' = "none"
      BY <1>1, <1>2, <1>3 DEF SoFar, Txn
    <2>2. ASSUME NEW k \in Keys
          PROVE  ~UpsertedBy(c, 0, k) /\ RowSoFar(rows[k], c, 0, k) = rows[k]
      BY RowNotUpserted DEF UpsertedBy
    <2>3. \A k \in Keys : Seen(c)'[k] = rows[k]
      <3>1. \A k \in Keys : Flushed(c)'[k] = None
        BY <1>1, <1>3 DEF Flushed, Current
      <3> QED
        BY <3>1 DEF Seen, Overlay
    <2> QED
      BY <1>1, <1>3, <2>1, <2>2, <2>3 DEF ProgressInv
  <1>5. CommitInv(c)'
    BY <1>1, NoNewCommit DEF SerialInv
  <1>6. ASSUME NEW d \in Calls, d # c PROVE ProgressInv(d)' /\ CommitInv(d)'
    <2>1. Apart(d)
      BY <1>1, <1>6 DEF Apart
    <2> QED
      BY <2>1, ApartKeepsSerial DEF SerialInv
  <1> QED
    BY <1>4, <1>5, <1>6 DEF SerialInv

LEMMA DecidesSerial ==
    ASSUME IInv, UpsertIInv, SerialInv, NEW c \in Calls, Decides(c)
    PROVE  SerialInv'
  <1>1. UNCHANGED <<rows, locked, written, loaded, pending, step, phase>>
    BY DEF Decides, table, session
  <1>2. CASE Begin(c)
    BY <1>1, <1>2, BeginSerial
  <1>3. CASE ~Begin(c)
    <2>1. /\ UNCHANGED <<txn, attempt>> /\ pc'[c] # "body" /\ pc[c] # "body"
          /\ pc'[c] \in {"call", "begin", "decide"} => pc[c] \in {"call", "begin", "decide"}
          /\ \A d \in Calls : d # c => pc'[d] = pc[d]
      BY <1>3 DEF Decides, Accept, Retry, GiveUp, CommitSucceeds, CommitFails, Transition,
                  IInv, TypeOK
    <2>2. phase'[c] = "ready"
      BY <1>1, <2>1 DEF UpsertIInv, DecisionInv, UpsertTypeOK
    <2>3. pc'[c] \in {"call", "begin", "decide"} => step'[c] = 1
      BY <1>1, <2>1 DEF SerialInv, ProgressInv
    <2>4. \A d \in Calls \ {c} : Apart(d)
      BY <1>1, <2>1 DEF Apart
    <2> QED
      BY <1>1, <2>1, <2>2, <2>3, <2>4, OutsideSerial
  <1> QED
    BY <1>2, <1>3

\* A commit changes only rows that its transaction has locked, and so none that
\* another transaction has upserted or is committing.
LEMMA CommitsSerial ==
    ASSUME IInv, UpsertIInv, SerialInv, NEW c \in Calls, NEW a \in Attempts, CommitsTable(c, a)
    PROVE  SerialInv'
  <1>1. /\ txn[c][a] = "committing" /\ txn' = [txn EXCEPT ![c][a] = "committed"]
        /\ UNCHANGED <<pc, attempt, locked, written, loaded, pending, step, phase>>
        /\ rows' = Overlay(written[c][a])
    BY DEF CommitsTable, ServerCommits, SetTxn, session
  <1>2. /\ txn \in [Calls -> [Attempts -> TxnStates]]
        /\ locked \in [Calls -> [Attempts -> SUBSET Keys]]
        /\ pending \in [Calls -> SUBSET Keys]
    BY DEF IInv, TypeOK, UpsertIInv, UpsertTypeOK
  <1>3. \A k \in Keys : rows'[k] # rows[k] => Holds(c, a, k)
    BY <1>1, OverlayType DEF UpsertIInv, LocksInv, Holds
  <1>4. ASSUME NEW d \in Calls, NEW b \in Attempts, NEW k \in Keys,
               txn[d][b] \in {"none", "active", "committing"}, <<d, b>> # <<c, a>>,
               k \in locked[d][b]
        PROVE  rows'[k] = rows[k]
    <2>1. Holds(d, b, k)
      BY <1>4 DEF Holds, UpsertIInv, LocksInv
    <2> QED
      BY <1>3, <1>4, <2>1 DEF UpsertIInv, LocksInv
  <1>5. ASSUME NEW d \in Calls PROVE ProgressInv(d)'
    <2> DEFINE b == attempt[d]
               n == SoFar(d)
    <2>1. SoFar(d)' = n /\ pc'[d] = pc[d] /\ phase'[d] = phase[d] /\ pending'[d] = pending[d]
      BY <1>1 DEF SoFar
    <2>2. CASE pc[d] = "body"
      <3>1. b \in Attempts /\ txn[d][b] \in {"none", "active"} /\ <<d, b>> # <<c, a>>
        BY <1>1, <2>2, BodyFacts DEF SerialInv, ProgressInv, Txn
      <3>2. Txn(d)' = Txn(d)
        BY <1>1, <1>2, <3>1 DEF Txn
      <3>3. ASSUME NEW k \in Keys
            PROVE  /\ UpsertedBy(d, n, k) => k \in locked[d][b]
                   /\ Seen(d)[k] = RowSoFar(rows[k], d, n, k)
        BY <2>2 DEF SerialInv, ProgressInv
      <3>4. ASSUME NEW k \in Keys PROVE Seen(d)'[k] = RowSoFar(rows'[k], d, n, k)
        <4>1. CASE k \in locked[d][b]
          <5>1. rows'[k] = rows[k]
            BY <1>4, <3>1, <4>1
          <5>2. Overlay(Current(d))'[k] = Overlay(Current(d))[k]
            BY <1>1, <5>1 DEF Overlay, Current
          <5>3. Flushed(d)'[k] = Flushed(d)[k]
            BY <1>1, <5>2 DEF Flushed, Current
          <5>4. Seen(d)'[k] = Seen(d)[k]
            BY <5>1, <5>3 DEF Seen, Overlay
          <5> HIDE DEF n
          <5> QED
            BY <3>3, <5>1, <5>4
        <4>2. CASE k \notin locked[d][b]
          <5>1. written[d][b][k] = None /\ k \notin pending[d]
            BY <3>1, <4>2 DEF UpsertIInv, LocksInv, PendingInv
          <5>2. Flushed(d)'[k] = None
            BY <1>1, <5>1 DEF Flushed, Current
          <5>3. Seen(d)'[k] = rows'[k]
            BY <5>2 DEF Seen, Overlay
          <5>4. RowSoFar(rows'[k], d, n, k) = rows'[k]
            BY <3>3, <4>2, RowNotUpserted
          <5> QED
            BY <5>3, <5>4
        <4> QED
          BY <4>1, <4>2
      <3> HIDE DEF n
      <3> QED
        BY <1>1, <2>1, <2>2, <3>2, <3>3, <3>4 DEF SerialInv, ProgressInv
    <2>3. CASE pc[d] # "body"
      BY <1>1, <2>1, <2>3 DEF SerialInv, ProgressInv
    <2> QED
      BY <2>2, <2>3
  <1>6. ASSUME NEW d \in Calls PROVE CommitInv(d)'
    <2> SUFFICES ASSUME NEW b \in Attempts, txn'[d][b] = "committing", NEW k \in Keys
                 PROVE  /\ Serial!Upserts(d, k) => k \in locked'[d][b]
                        /\ Overlay(written[d][b])'[k] = Serial!RowAfter(rows'[k], d, k)
      BY DEF CommitInv
    <2>1. txn[d][b] = "committing" /\ <<d, b>> # <<c, a>>
      BY <1>1, <1>2
    <2>2. /\ Serial!Upserts(d, k) => k \in locked[d][b]
          /\ Overlay(written[d][b])[k] = Serial!RowAfter(rows[k], d, k)
      BY <2>1 DEF SerialInv, CommitInv
    <2>3. CASE k \in locked[d][b]
      <3>1. rows'[k] = rows[k]
        BY <1>4, <2>1, <2>3
      <3>2. Overlay(written[d][b])'[k] = Overlay(written[d][b])[k]
        BY <1>1, <3>1 DEF Overlay
      <3> QED
        BY <1>1, <2>2, <3>1, <3>2
    <2>4. CASE k \notin locked[d][b]
      <3>1. written[d][b][k] = None
        BY <2>4 DEF UpsertIInv, LocksInv
      <3>2. Overlay(written[d][b])'[k] = rows'[k]
        BY <1>1, <3>1 DEF Overlay
      <3>3. ~Serial!Upserts(d, k) /\ Serial!RowAfter(rows'[k], d, k) = rows'[k]
        BY <2>2, <2>4, RowNotUpserted
      <3> QED
        BY <3>2, <3>3
    <2> QED
      BY <2>3, <2>4
  <1> QED
    BY <1>5, <1>6 DEF SerialInv

LEMMA UnwindsSerial ==
    ASSUME IInv, UpsertIInv, SerialInv, NEW c \in Calls, NEW a \in Attempts, Unwinds(c, a)
    PROVE  SerialInv'
  <1>1. /\ txn[c][a] \in {"committing", "orphaned"}
        /\ txn' = [txn EXCEPT ![c][a] = "rolledback"]
        /\ UNCHANGED <<pc, attempt, rows, locked, written, loaded, pending, step, phase>>
    BY DEF Unwinds, ServerDropsCommit, ServerNoticesLoss, SetTxn, table, session
  <1>2. txn \in [Calls -> [Attempts -> TxnStates]]
    BY DEF IInv, TypeOK
  <1>3. ASSUME NEW d \in Calls PROVE ProgressInv(d)'
    <2>1. Seen(d)' = Seen(d) /\ SoFar(d)' = SoFar(d)
      BY <1>1 DEF Seen, Overlay, Flushed, Current, SoFar
    <2>2. ASSUME pc[d] = "body" PROVE Txn(d)' = Txn(d)
      <3>1. attempt[d] \in Attempts /\ txn[d][attempt[d]] \in {"none", "active"}
        BY <2>2, BodyFacts DEF SerialInv, ProgressInv, Txn
      <3> QED
        BY <1>1, <1>2, <3>1 DEF Txn
    <2> QED
      BY <1>1, <2>1, <2>2 DEF SerialInv, ProgressInv
  <1>4. ASSUME NEW d \in Calls PROVE CommitInv(d)'
    <2>1. ASSUME NEW b \in Attempts, txn'[d][b] = "committing" PROVE txn[d][b] = "committing"
      BY <1>1, <1>2, <2>1
    <2> QED
      BY <1>1, <2>1, NoNewCommit DEF SerialInv
  <1> QED
    BY <1>3, <1>4 DEF SerialInv

LEMMA SerialStep == IInv /\ UpsertIInv /\ SerialInv /\ [UpsertNext]_upsertVars => SerialInv'
  <1> SUFFICES ASSUME IInv, UpsertIInv, SerialInv, [UpsertNext]_upsertVars PROVE SerialInv'
    OBVIOUS
  <1>1. ASSUME NEW c \in Calls, UpsertClient(c) PROVE SerialInv'
    BY <1>1, LookupSerial, StoreSerial, WaitSerial, ReturnsSerial, FailsSerial, RollsBackSerial,
       DecidesSerial
    DEF UpsertClient
  <1>2. ASSUME NEW c \in Calls, NEW a \in Attempts, UpsertServer(c, a) PROVE SerialInv'
    BY <1>2, CommitsSerial, UnwindsSerial DEF UpsertServer
  <1>3. CASE UNCHANGED upsertVars
    <2>1. \A d \in Calls : Apart(d)
      BY <1>3 DEF upsertVars, vars, table, session, Apart
    <2> QED
      BY <1>3, <2>1, ApartKeepsSerial DEF upsertVars, table, SerialInv
  <1> QED
    BY <1>1, <1>2, <1>3 DEF UpsertNext

LEMMA SerialInvariance == UpsertSpec => []SerialInv
  BY UpsertsRetry, UpsertInvariance, InitSerialInv, SerialStep, PTL DEF UpsertSpec

-----------------------------------------------------------------------------
(* The table changes by whole transactions.                                *)

\* What a step that commits nothing does to the table: nothing.
LEMMA OthersLeaveTable ==
    ASSUME IInv, NEW c \in Calls,
           UpsertClient(c) \/ \E a \in Attempts : Unwinds(c, a)
    PROVE  rows' = rows /\ \A d \in Calls : Applied(d)' <=> Applied(d)
  <1>1. rows' = rows
    BY DEF UpsertClient, Lookup, WaitForLock, Store, Fails, DeadlockVictim, LosesConnection,
           Returns, RollsBack, Expire, Decides, Unwinds, table
  <1>2. CASE UpsertClient(c)
    <2>1. Client(c) \/ UNCHANGED vars
      BY <1>2
      DEF UpsertClient, Client, Lookup, WaitForLock, Store, Fails, DeadlockVictim,
          LosesConnection, Returns, RollsBack, Decides
    <2>2. CASE UNCHANGED vars
      BY <1>1, <2>2 DEF vars, Applied
    <2>3. CASE Client(c)
      <3>1. \A d \in Calls \ {c} : Untouched(d)
        BY <2>3, ClientStep DEF Keeps
      <3>2. \A d \in Calls \ {c} : Applied(d)' <=> Applied(d)
        BY <3>1 DEF Untouched, Applied
      <3> QED
        BY <1>1, <2>3, <3>2, ClientAppliesNothing
    <2> QED
      BY <2>1, <2>2, <2>3
  <1>3. ASSUME NEW a \in Attempts, Unwinds(c, a)
        PROVE  \A d \in Calls : Applied(d)' <=> Applied(d)
    <2>1. txn \in [Calls -> [Attempts -> TxnStates]]
      BY DEF IInv, TypeOK
    <2>2. /\ txn[c][a] \in {"committing", "orphaned"}
          /\ txn' = [txn EXCEPT ![c][a] = "rolledback"]
      BY <1>3 DEF Unwinds, ServerDropsCommit, ServerNoticesLoss, SetTxn
    <2>3. \A d \in Calls : \A b \in Attempts : txn'[d][b] = "committed" <=> txn[d][b] = "committed"
      BY <2>1, <2>2
    <2> QED
      BY <2>3 DEF Applied
  <1> QED
    BY <1>1, <1>2, <1>3

\* A commit is a whole transaction, of a call that had not been applied.
LEMMA CommitIsTransaction ==
    ASSUME IInv, UpsertIInv, SerialInv, NEW c \in Calls, NEW a \in Attempts, CommitsTable(c, a)
    PROVE  Serial!Transaction(c)
  <1>1. /\ txn[c][a] = "committing" /\ txn' = [txn EXCEPT ![c][a] = "committed"]
        /\ rows' = Overlay(written[c][a])
    BY DEF CommitsTable, ServerCommits, SetTxn
  <1>2. txn \in [Calls -> [Attempts -> TxnStates]]
    BY DEF IInv, TypeOK
  <1>3. ~Applied(c)
    BY <1>1, InvariantAppliesOnce DEF Applied, AppliedAtMostOnce
  <1>4. \A d \in Calls : Applied(d)' <=> d = c \/ Applied(d)
    BY <1>1, <1>2 DEF Applied
  <1>5. rows' = Serial!After(rows, c)
    <2>1. \A k \in Keys : Overlay(written[c][a])[k] = Serial!RowAfter(rows[k], c, k)
      BY <1>1 DEF SerialInv, CommitInv
    <2> QED
      BY <1>1, <2>1 DEF Overlay, Serial!After
  <1>6. {d \in Calls : Applied(d)}' = {d \in Calls : Applied(d)} \union {c}
    BY <1>4
  <1> QED
    BY <1>3, <1>5, <1>6 DEF Serial!Transaction

\* The table only ever changes by whole transactions, each at most once, as if
\* they ran alone in the order in which they committed: for any number of calls
\* with plans of any length, over any keys, with any number of attempts, and
\* with deadlocks and lost connections at any point.
THEOREM UpsertsAreSerializable == UpsertSpec => Serializable
  <1>1. IInv /\ UpsertIInv /\ SerialInv /\ [UpsertNext]_upsertVars
        => [Serial!Next]_<<rows, {c \in Calls : Applied(c)}>>
    <2> SUFFICES ASSUME IInv, UpsertIInv, SerialInv, [UpsertNext]_upsertVars
                 PROVE  [Serial!Next]_<<rows, {c \in Calls : Applied(c)}>>
      OBVIOUS
    <2>1. ASSUME NEW c \in Calls, NEW a \in Attempts, CommitsTable(c, a) PROVE Serial!Next
      BY <2>1, CommitIsTransaction DEF Serial!Next
    <2>2. ASSUME NEW c \in Calls, UpsertClient(c) \/ \E a \in Attempts : Unwinds(c, a)
          PROVE  UNCHANGED <<rows, {d \in Calls : Applied(d)}>>
      BY <2>2, OthersLeaveTable
    <2>3. CASE UNCHANGED upsertVars
      BY <2>3 DEF upsertVars, vars, table, Applied
    <2> QED
      BY <2>1, <2>2, <2>3 DEF UpsertNext, UpsertServer
  <1> QED
    BY <1>1, UpsertsRetry, UpsertInvariance, SerialInvariance, PTL DEF UpsertSpec, Serializable

-----------------------------------------------------------------------------
(* Two transactions over two rows: the victim of a deadlock leaves the     *)
(* other one ahead, and nobody who is ahead is ever a victim.              *)

\* How many attempts a call has begun or is about to begin.
Tries(c) ==
    IF \/ pc[c] \in {"call", "begin"}
       \/ pc[c] \in {"rollback", "decide"} /\ IsTransientConflict(raised[c])
    THEN attempt[c] + 1 ELSE attempt[c]

\* Call d is the next to lock key k: it waits for it, alone, and nobody holds it.
Reserved(d, k) ==
    /\ Waiting(d) /\ Key(d) = k
    /\ \A c \in Calls : /\ \A a \in Attempts : ~Holds(c, a, k)
                        /\ c # d /\ Waiting(c) => Key(c) # k

\* Call d needs nothing that another call has, or is past its upserts for good.
Ahead(d) ==
    \/ pc[d] \in {"committing", "done"}
    \/ pc[d] \in {"rollback", "decide"} /\ ~IsTransientConflict(raised[d])
    \/ pc[d] = "body" /\ \A k \in Keys : Mine(d, k) \/ Reserved(d, k)

ContentionInv ==
    \A c \in Calls :
        \/ Tries(c) <= 1 + losses
        \/ Tries(c) <= 2 + losses /\ \E d \in Calls \ {c} : Ahead(d)

\* Step of nobody who takes a lock or starts to wait for one.
NobodyReaches ==
    /\ \A c \in Calls : \A a \in Attempts : \A k \in Keys : Holds(c, a, k)' => Holds(c, a, k)
    /\ \A c \in Calls : Waiting(c)' => Waiting(c) /\ Key(c)' = Key(c)

\* What a client's step leaves alone in another call.
LEMMA ClientLeavesOthers ==
    ASSUME IInv, UpsertIInv, NEW c \in Calls, UpsertClient(c), NEW d \in Calls, d # c
    PROVE  /\ Untouched(d) /\ locked'[d] = locked[d]
           /\ phase'[d] = phase[d] /\ step'[d] = step[d]
  <1>1. Client(c) \/ UNCHANGED vars
    BY DEF UpsertClient, Client, Lookup, WaitForLock, Store, Fails, DeadlockVictim,
           LosesConnection, Returns, RollsBack, Decides
  <1>2. Untouched(d)
    BY <1>1, ClientStep DEF Keeps, Untouched, vars
  <1>3. /\ locked \in [Calls -> [Attempts -> SUBSET Keys]]
        /\ phase \in [Calls -> {"ready", "waiting", "found", "missing"}] /\ step \in [Calls -> Nat]
    BY DEF UpsertIInv, UpsertTypeOK
  <1>4. locked'[d] = locked[d] /\ phase'[d] = phase[d] /\ step'[d] = step[d]
    BY <1>3
    DEF UpsertClient, Lookup, WaitForLock, Store, Fails, DeadlockVictim, LosesConnection,
        Returns, RollsBack, Decides, Expire, Leave, table, session
  <1> QED
    BY <1>2, <1>4

\* Only a lookup takes a lock, and only a call that finds it held waits for it.
LEMMA ClientReaches ==
    ASSUME IInv, UpsertIInv, NEW c \in Calls, UpsertClient(c), ~Lookup(c), ~WaitForLock(c)
    PROVE  NobodyReaches
  <1>1. /\ phase \in [Calls -> {"ready", "waiting", "found", "missing"}]
        /\ txn \in [Calls -> [Attempts -> TxnStates]]
        /\ pc[c] # "body" => phase[c] = "ready"
    BY DEF IInv, TypeOK, UpsertIInv, UpsertTypeOK, DecisionInv
  <1>2. locked' = locked
    BY DEF UpsertClient, Store, Fails, DeadlockVictim, LosesConnection, Returns, RollsBack,
           Decides, Expire, table, session
  <1>3. phase'[c] = "ready"
    BY <1>1
    DEF UpsertClient, Store, Fails, DeadlockVictim, LosesConnection, Returns, RollsBack, Decides,
        Expire, Leave, session, Transition, RollbackWithoutServer, RollbackSucceeds, Accept,
        Begin, Retry, GiveUp, CommitSucceeds, CommitFails
  <1>4. ASSUME NEW a \in Attempts, NEW k \in Keys, Holds(c, a, k)' PROVE Holds(c, a, k)
    <2>1. CASE Store(c)
      <3>1. txn[c][attempt[c]] = "active"
        BY <2>1 DEF Store, UpsertIInv, DecisionInv, Txn
      <3> QED
        BY <1>1, <1>2, <1>4, <2>1, <3>1 DEF Store, StatementSucceeds, SetTxn, Holds
    <2>2. CASE Fails(c) \/ DeadlockVictim(c) \/ LosesConnection(c)
      <3>1. pc[c] = "body"
        BY <2>2 DEF Fails, DeadlockVictim, LosesConnection, FunctionRaises, StatementRejected,
                    ConnectionLost, Transition
      <3>2. attempt[c] \in Attempts
        BY <3>1, BodyFacts
      <3> QED
        BY <1>1, <1>2, <1>4, <2>2, <3>2
        DEF Fails, DeadlockVictim, LosesConnection, FunctionRaises, StatementRejected,
            ConnectionLost, SetTxn, Txn, Disconnected, Holds
    <2>3. CASE Returns(c)
      <3>1. attempt[c] \in Attempts
        BY <2>3, BodyFacts DEF Returns, FunctionReturns, Transition
      <3> QED
        BY <1>1, <1>2, <1>4, <2>3, <3>1 DEF Returns, FunctionReturns, SetTxn, Txn, Holds
    <2>4. CASE RollsBack(c)
      <3>1. attempt[c] \in Attempts
        BY <2>4, BodyFacts DEF RollsBack, RollbackWithoutServer, RollbackSucceeds, Transition
      <3>2. txn'[c][a] = txn[c][a] \/ txn'[c][a] = "rolledback"
        BY <1>1, <2>4, <3>1 DEF RollsBack, RollbackWithoutServer, RollbackSucceeds, SetTxn
      <3> QED
        BY <1>2, <1>4, <3>2 DEF Holds
    <2>5. CASE Decides(c)
      BY <1>2, <1>4, <2>5
      DEF Decides, Accept, Begin, Retry, GiveUp, CommitSucceeds, CommitFails, Holds
    <2> QED
      BY <2>1, <2>2, <2>3, <2>4, <2>5 DEF UpsertClient
  <1>5. ASSUME NEW d \in Calls, d # c
        PROVE  /\ \A a \in Attempts : \A k \in Keys : Holds(d, a, k)' => Holds(d, a, k)
               /\ Waiting(d)' => Waiting(d) /\ Key(d)' = Key(d)
    BY <1>5, ClientLeavesOthers DEF Untouched, Holds, Waiting, Key, Item
  <1> QED
    BY <1>3, <1>4, <1>5 DEF NobodyReaches, Waiting

LEMMA ServerReaches ==
    ASSUME IInv, NEW c \in Calls, NEW a \in Attempts, UpsertServer(c, a)
    PROVE  NobodyReaches
  <1>1. txn \in [Calls -> [Attempts -> TxnStates]]
    BY DEF IInv, TypeOK
  <1>2. /\ UNCHANGED <<locked, phase, step>> /\ txn[c][a] \in {"committing", "orphaned"}
        /\ \E state \in {"committed", "rolledback"} : txn' = [txn EXCEPT ![c][a] = state]
    BY DEF UpsertServer, CommitsTable, Unwinds, ServerCommits, ServerDropsCommit,
           ServerNoticesLoss, SetTxn, table, session
  <1>3. \A d \in Calls : \A b \in Attempts : \A k \in Keys : Holds(d, b, k)' => Holds(d, b, k)
    BY <1>1, <1>2 DEF Holds
  <1> QED
    BY <1>2, <1>3 DEF NobodyReaches, Waiting, Key, Item

\* A call that is ahead stays so while it stands still and nobody takes, or
\* starts to wait for, the key that is reserved for it.
LEMMA StandsAhead ==
    ASSUME NEW d \in Calls, Ahead(d), pc[d] = "body",
           pc'[d] = pc[d], attempt'[d] = attempt[d], Txn(d)' = Txn(d),
           locked'[d] = locked[d], phase'[d] = phase[d], step'[d] = step[d],
           \A k \in Keys : Reserved(d, k) =>
               \A c \in Calls : /\ \A a \in Attempts : Holds(c, a, k)' => Holds(c, a, k)
                                /\ c # d /\ Waiting(c)' /\ Key(c)' = k => Waiting(c) /\ Key(c) = k
    PROVE  Ahead(d)'
  <1>1. ASSUME NEW k \in Keys, Mine(d, k) PROVE Mine(d, k)'
    BY <1>1 DEF Mine, Holds, Txn
  <1>2. ASSUME NEW k \in Keys, Reserved(d, k) PROVE Reserved(d, k)'
    <2>1. Waiting(d)' /\ Key(d)' = k
      BY <1>2 DEF Reserved, Waiting, Key, Item
    <2>2. \A c \in Calls : /\ \A a \in Attempts : ~Holds(c, a, k)'
                           /\ c # d /\ Waiting(c)' => Key(c)' # k
      BY <1>2 DEF Reserved
    <2> QED
      BY <2>1, <2>2 DEF Reserved
  <1> QED
    BY <1>1, <1>2 DEF Ahead

\* A call that is past its upserts stays so.
LEMMA PastUpsertsAhead ==
    ASSUME IInv, UpsertIInv, [UpsertNext]_upsertVars, NEW d \in Calls, Ahead(d), pc[d] # "body"
    PROVE  Ahead(d)'
  <1>1. /\ ~IsTransientConflict(Raised(LostEndingTran))
        /\ pc \in [Calls -> PCs] /\ raised \in [Calls -> Exceptions]
    BY Classification DEF IInv, TypeOK
  <1>2. CASE pc'[d] = pc[d] /\ raised'[d] = raised[d]
    BY <1>2 DEF Ahead
  <1>3. CASE UpsertClient(d)
    <2>1. RollsBack(d) \/ Decides(d)
      BY <1>3
      DEF UpsertClient, Lookup, WaitForLock, Store, Fails, DeadlockVictim, LosesConnection,
          Returns, FunctionRaises, StatementRejected, ConnectionLost, FunctionReturns, Transition
    <2>2. CASE RollsBack(d)
      BY <1>1, <2>2
      DEF RollsBack, RollbackWithoutServer, RollbackSucceeds, Transition, Ahead
    <2>3. CASE Decides(d)
      BY <1>1, <2>3
      DEF Decides, Accept, Begin, Retry, GiveUp, CommitSucceeds, CommitFails, Transition, Raise,
          Ahead
    <2> QED
      BY <2>1, <2>2, <2>3
  <1>4. ASSUME NEW c \in Calls, c # d, UpsertClient(c)
        PROVE  pc'[d] = pc[d] /\ raised'[d] = raised[d]
    BY <1>4, ClientLeavesOthers DEF Untouched
  <1>5. ASSUME NEW c \in Calls, NEW a \in Attempts, UpsertServer(c, a)
        PROVE  pc'[d] = pc[d] /\ raised'[d] = raised[d]
    BY <1>5 DEF UpsertServer, CommitsTable, Unwinds, ServerCommits, ServerDropsCommit,
                ServerNoticesLoss
  <1> QED
    BY <1>2, <1>3, <1>4, <1>5 DEF UpsertNext, upsertVars, vars

\* A call that deadlocks waits for a key that another waiting call has locked.
LEMMA DeadlockedWaits ==
    ASSUME NEW c \in Calls, Deadlocked(c)
    PROVE  \E d \in Calls : WaitsFor(c, d)
  <1>1. PICK n \in 2..Cardinality(Calls) : \E cycle \in [1..n -> Calls] :
            /\ cycle[1] = c
            /\ \A i \in 1..n : WaitsFor(cycle[i], cycle[IF i = n THEN 1 ELSE i + 1])
    BY DEF Deadlocked
  <1>2. PICK cycle \in [1..n -> Calls] :
            /\ cycle[1] = c
            /\ \A i \in 1..n : WaitsFor(cycle[i], cycle[IF i = n THEN 1 ELSE i + 1])
    BY <1>1
  <1>3. 1 \in 1..n /\ 2 \in 1..n /\ 1 # n
    OBVIOUS
  <1>4. WaitsFor(cycle[1], cycle[2])
    BY <1>2, <1>3
  <1> QED
    BY <1>2, <1>3, <1>4

\* Whoever holds a key, nobody else does.
LEMMA MineAlone ==
    ASSUME IInv, UpsertIInv, NEW c \in Calls, NEW k \in Keys, Mine(c, k)
    PROVE  /\ HeldFrom(c, k) = {}
           /\ \A d \in Calls : d # c => ~Mine(d, k) /\ ~Reserved(d, k)
           /\ ~Reserved(c, k)
  <1>1. \A d \in Calls : attempt[d] > 0 => attempt[d] \in Attempts
    BY MaxAttemptsAssumption DEF IInv, TypeOK, Attempts
  <1>2. attempt[c] \in Attempts /\ Holds(c, attempt[c], k)
    BY <1>1 DEF Mine
  <1>3. \A d \in Calls : \A a \in Attempts : Holds(d, a, k) => d = c /\ a = attempt[c]
    BY <1>2 DEF UpsertIInv, LocksInv
  <1> QED
    BY <1>1, <1>2, <1>3 DEF HeldFrom, Mine, Reserved

\* A call that is ahead is no victim, and never waits anew: it locks what is
\* left, and returns or fails for good.
LEMMA UpsertsAhead ==
    ASSUME IInv, UpsertIInv, SerialInv, NEW d \in Calls, Ahead(d), pc[d] = "body",
           UpsertClient(d), ~LosesConnection(d)
    PROVE  Ahead(d)'
  <1>1. /\ attempt[d] \in Attempts /\ attempt[d] > 0
        /\ \A k \in Keys : Mine(d, k) \/ Reserved(d, k)
        /\ pc \in [Calls -> PCs] /\ raised \in [Calls -> Exceptions]
        /\ txn \in [Calls -> [Attempts -> TxnStates]]
        /\ locked \in [Calls -> [Attempts -> SUBSET Keys]]
    BY BodyFacts DEF Ahead, IInv, TypeOK, UpsertIInv, UpsertTypeOK, Attempts
  <1>2. CASE Lookup(d)
    <2>1. /\ UNCHANGED <<pc, attempt>> /\ txn' = [txn EXCEPT ![d][attempt[d]] = "active"]
          /\ locked' = [locked EXCEPT ![d][attempt[d]] = @ \union {Key(d)}]
      BY <1>2 DEF Lookup, StatementSucceeds, SetTxn, LockedByLookup
    <2>2. ASSUME NEW k \in Keys PROVE Mine(d, k)'
      <3>1. k \in locked'[d][attempt[d]] /\ txn'[d][attempt[d]] = "active"
        BY <1>1, <2>1 DEF Mine, Holds, Reserved
      <3> QED
        BY <1>1, <2>1, <3>1 DEF Mine, Holds
    <2> QED
      BY <2>1, <2>2 DEF Ahead
  <1>3. CASE WaitForLock(d)
    <2>1. Key(d) \in Keys /\ ~Waiting(d) /\ HeldFrom(d, Key(d)) # {}
      BY <1>3, ItemType DEF WaitForLock, UpsertIInv, Waiting
    <2>2. Mine(d, Key(d))
      BY <1>1, <2>1 DEF Reserved
    <2> QED
      BY <2>1, <2>2, MineAlone
  <1>4. CASE Store(d)
    <2>1. /\ UNCHANGED <<pc, attempt, locked>> /\ txn'[d][attempt[d]] = "active" /\ ~Waiting(d)
      BY <1>1, <1>4 DEF Store, StatementSucceeds, SetTxn, Waiting
    <2>2. \A k \in Keys : Mine(d, k)'
      BY <1>1, <2>1 DEF Mine, Holds, Reserved
    <2> QED
      BY <2>1, <2>2 DEF Ahead
  <1>5. CASE Fails(d)
    BY <1>1, <1>5, ExceptionFacts DEF Fails, FunctionRaises, Transition, Raise, Ahead
  <1>6. CASE DeadlockVictim(d)
    <2>1. PICK e \in Calls : WaitsFor(d, e)
      BY <1>6, DeadlockedWaits DEF DeadlockVictim
    <2>2. Key(d) \in Keys
      BY <2>1, ItemType DEF WaitsFor, Waiting, UpsertIInv, DecisionInv
    <2> QED
      BY <1>1, <2>1, <2>2, MineAlone DEF WaitsFor
  <1>7. CASE Returns(d)
    BY <1>1, <1>7 DEF Returns, FunctionReturns, Transition, Ahead
  <1>8. ~RollsBack(d) /\ ~Decides(d)
    BY DEF RollsBack, RollbackWithoutServer, RollbackSucceeds, Decides, Accept, Begin, Retry,
           GiveUp, CommitSucceeds, CommitFails, Transition
  <1> QED
    BY <1>2, <1>3, <1>4, <1>5, <1>6, <1>7, <1>8 DEF UpsertClient

\* Nobody can take the lock that is reserved for a call, or queue up behind it.
LEMMA OthersLeaveAhead ==
    ASSUME IInv, UpsertIInv, NEW d \in Calls, Ahead(d), pc[d] = "body",
           NEW c \in Calls, c # d, UpsertClient(c)
    PROVE  Ahead(d)'
  <1>1. /\ pc'[d] = pc[d] /\ attempt'[d] = attempt[d] /\ Txn(d)' = Txn(d)
        /\ locked'[d] = locked[d] /\ phase'[d] = phase[d] /\ step'[d] = step[d]
    BY ClientLeavesOthers DEF Untouched, Txn
  <1>2. ASSUME NEW k \in Keys, Reserved(d, k), NEW e \in Calls
        PROVE  /\ \A a \in Attempts : Holds(e, a, k)' => Holds(e, a, k)
               /\ e # d /\ Waiting(e)' /\ Key(e)' = k => Waiting(e) /\ Key(e) = k
    <2>1. CASE ~Lookup(c) /\ ~WaitForLock(c)
      BY <2>1, ClientReaches DEF NobodyReaches
    <2>2. CASE e # c
      BY <2>2, ClientLeavesOthers DEF Untouched, Holds, Waiting, Key, Item
    <2>3. CASE e = c /\ WaitForLock(c)
      <3>1. Key(c)' = Key(c) /\ HeldFrom(c, Key(c)) # {}
        BY <2>3 DEF WaitForLock, Key, Item
      <3>2. Key(c) # k
        BY <1>2, <3>1 DEF Reserved, HeldFrom
      <3> QED
        BY <2>3, <3>1, <3>2 DEF WaitForLock, vars, table, Holds
    <2>4. CASE e = c /\ Lookup(c)
      <3>1. /\ attempt[c] \in Attempts /\ txn[c][attempt[c]] \in {"none", "active"}
            /\ txn' = [txn EXCEPT ![c][attempt[c]] = "active"]
            /\ locked' = [locked EXCEPT ![c][attempt[c]] = @ \union {Key(c)}]
            /\ phase' = [phase EXCEPT ![c] = IF Overlay(Flushed(c))[Key(c)] # Absent
                                             THEN "found" ELSE "missing"]
        BY <2>4, BodyFacts DEF Lookup, StatementSucceeds, SetTxn, Txn, LockedByLookup
      <3>2. /\ txn \in [Calls -> [Attempts -> TxnStates]]
            /\ locked \in [Calls -> [Attempts -> SUBSET Keys]]
            /\ phase \in [Calls -> {"ready", "waiting", "found", "missing"}]
        BY DEF IInv, TypeOK, UpsertIInv, UpsertTypeOK
      <3>3. Key(c) # k
        BY <1>2, <2>4, <3>1 DEF Lookup, CanLock, Reserved, Mine
      <3>4. ASSUME NEW a \in Attempts, Holds(c, a, k)' PROVE Holds(c, a, k)
        BY <3>1, <3>2, <3>3, <3>4 DEF Holds, UpsertIInv, LocksInv
      <3>5. ~Waiting(c)'
        BY <3>1, <3>2 DEF Waiting
      <3> QED
        BY <2>4, <3>4, <3>5
    <2> QED
      BY <2>1, <2>2, <2>3, <2>4
  <1> QED
    BY <1>1, <1>2, StandsAhead

LEMMA ServerLeavesAhead ==
    ASSUME IInv, UpsertIInv, SerialInv, NEW d \in Calls, Ahead(d), pc[d] = "body",
           NEW c \in Calls, NEW a \in Attempts, UpsertServer(c, a)
    PROVE  Ahead(d)'
  <1>1. /\ attempt[d] \in Attempts /\ txn[d][attempt[d]] \in {"none", "active"}
        /\ txn \in [Calls -> [Attempts -> TxnStates]]
    BY BodyFacts DEF SerialInv, ProgressInv, Txn, IInv, TypeOK
  <1>2. /\ UNCHANGED <<pc, attempt, locked, phase, step>>
        /\ txn[c][a] \in {"committing", "orphaned"}
        /\ \E state \in {"committed", "rolledback"} : txn' = [txn EXCEPT ![c][a] = state]
    BY DEF UpsertServer, CommitsTable, Unwinds, ServerCommits, ServerDropsCommit,
           ServerNoticesLoss, SetTxn, table, session
  <1>3. Txn(d)' = Txn(d)
    BY <1>1, <1>2 DEF Txn
  <1>4. NobodyReaches
    BY ServerReaches
  <1> QED
    BY <1>2, <1>3, <1>4, StandsAhead DEF NobodyReaches

\* Whoever is ahead stays ahead, whatever the others do, unless it loses its
\* own connection.
LEMMA AheadStays ==
    ASSUME IInv, UpsertIInv, SerialInv, [UpsertNext]_upsertVars, NEW d \in Calls, Ahead(d),
           ~LosesConnection(d)
    PROVE  Ahead(d)'
  <1>1. CASE pc[d] # "body"
    BY <1>1, PastUpsertsAhead
  <1>2. CASE pc[d] = "body"
    <2>1. ASSUME NEW c \in Calls, UpsertClient(c) PROVE Ahead(d)'
      BY <1>2, <2>1, UpsertsAhead, OthersLeaveAhead
    <2>2. ASSUME NEW c \in Calls, NEW a \in Attempts, UpsertServer(c, a) PROVE Ahead(d)'
      BY <1>2, <2>2, ServerLeavesAhead
    <2>3. CASE UNCHANGED upsertVars
      <3>1. /\ pc' = pc /\ attempt' = attempt /\ txn' = txn /\ locked' = locked
            /\ phase' = phase /\ step' = step
        BY <2>3 DEF upsertVars, vars, table, session
      <3>2. Txn(d)' = Txn(d)
        BY <3>1 DEF Txn
      <3>3. NobodyReaches
        BY <3>1 DEF NobodyReaches, Holds, Waiting, Key, Item
      <3> QED
        BY <1>2, <3>1, <3>2, <3>3, StandsAhead DEF NobodyReaches
    <2> QED
      BY <2>1, <2>2, <2>3 DEF UpsertNext
  <1> QED
    BY <1>1, <1>2

\* Only a deadlock or a lost connection costs a call another attempt.
LEMMA TriesStay ==
    ASSUME IInv, UpsertIInv, [UpsertNext]_upsertVars, NEW d \in Calls
    PROVE  \/ Tries(d)' <= Tries(d)
           \/ Tries(d)' <= Tries(d) + 1 /\ (DeadlockVictim(d) \/ LosesConnection(d))
  <1>1. /\ ~IsTransientConflict(Raised(LostEndingTran))
        /\ ~IsTransientConflict(OtherException("Exception"))
        /\ pc \in [Calls -> PCs] /\ raised \in [Calls -> Exceptions]
        /\ attempt \in [Calls -> 0..MaxAttempts] /\ attempt[d] \in Nat
    BY Classification, ExceptionFacts, MaxAttemptsAssumption DEF IInv, TypeOK
  <1>2. CASE pc'[d] = pc[d] /\ raised'[d] = raised[d] /\ attempt'[d] = attempt[d]
    BY <1>1, <1>2 DEF Tries
  <1>3. CASE UpsertClient(d)
    <2>1. CASE Lookup(d) \/ WaitForLock(d) \/ Store(d)
      BY <1>2, <2>1 DEF Lookup, WaitForLock, Store, StatementSucceeds, vars
    <2>2. CASE Fails(d)
      BY <1>1, <2>2 DEF Fails, FunctionRaises, Transition, Raise, Tries
    <2>3. CASE DeadlockVictim(d) \/ LosesConnection(d)
      <3>1. pc[d] = "body" /\ attempt' = attempt
        BY <2>3 DEF DeadlockVictim, LosesConnection, StatementRejected, ConnectionLost, Transition
      <3>2. Tries(d) = attempt[d] /\ Tries(d)' <= attempt[d] + 1
        BY <1>1, <3>1 DEF Tries
      <3> QED
        BY <2>3, <3>2
    <2>4. CASE Returns(d)
      BY <1>1, <2>4 DEF Returns, FunctionReturns, Transition, Tries
    <2>5. CASE RollsBack(d)
      BY <1>1, <2>5 DEF RollsBack, RollbackWithoutServer, RollbackSucceeds, Transition, Tries
    <2>6. CASE Decides(d)
      <3>1. CASE Accept(d)
        BY <1>1, <3>1 DEF Accept, Transition, Tries
      <3>2. CASE Begin(d)
        BY <1>1, <3>2 DEF Begin, Transition, Tries
      <3>3. CASE Retry(d)
        BY <1>1, <3>3 DEF Retry, Transition, Tries
      <3>4. CASE GiveUp(d)
        BY <1>1, <3>4 DEF GiveUp, Transition, Tries
      <3>5. CASE CommitSucceeds(d)
        BY <1>1, <3>5 DEF CommitSucceeds, Transition, Tries
      <3>6. CASE CommitFails(d)
        BY <1>1, <3>6 DEF CommitFails, Transition, Raise, Tries
      <3> QED
        BY <2>6, <3>1, <3>2, <3>3, <3>4, <3>5, <3>6 DEF Decides
    <2> QED
      BY <1>3, <2>1, <2>2, <2>3, <2>4, <2>5, <2>6 DEF UpsertClient
  <1>4. ASSUME NEW c \in Calls, c # d, UpsertClient(c)
        PROVE  pc'[d] = pc[d] /\ raised'[d] = raised[d] /\ attempt'[d] = attempt[d]
    BY <1>4, ClientLeavesOthers DEF Untouched
  <1>5. ASSUME NEW c \in Calls, NEW a \in Attempts, UpsertServer(c, a)
        PROVE  pc'[d] = pc[d] /\ raised'[d] = raised[d] /\ attempt'[d] = attempt[d]
    BY <1>5 DEF UpsertServer, CommitsTable, Unwinds, ServerCommits, ServerDropsCommit,
                ServerNoticesLoss
  <1> QED
    BY <1>2, <1>3, <1>4, <1>5 DEF UpsertNext, upsertVars, vars

\* A set of at most two elements has no third one.
LEMMA AtMostTwo ==
    ASSUME NEW S, IsFiniteSet(S), Cardinality(S) <= 2, NEW x \in S, NEW y \in S, NEW z \in S,
           x # y
    PROVE  z = x \/ z = y
  <1> SUFFICES ASSUME z # x, z # y PROVE FALSE
    OBVIOUS
  <1> DEFINE One == {x}
             Two == One \union {y}
             Three == Two \union {z}
  <1>1. IsFiniteSet(One) /\ Cardinality(One) = 1 /\ y \notin One
    BY FS_Singleton
  <1>2. z \notin Two /\ Three \subseteq S
    OBVIOUS
  <1> HIDE DEF One
  <1>3. IsFiniteSet(Two) /\ Cardinality(Two) = 2
    BY <1>1, FS_AddElement
  <1> HIDE DEF Two
  <1>4. Cardinality(Three) = 3
    BY <1>2, <1>3, FS_AddElement
  <1> HIDE DEF Three
  <1>5. Cardinality(Three) <= Cardinality(S) /\ Cardinality(S) \in Nat
    BY <1>2, FS_Subset, FS_CardinalityType
  <1> QED
    BY <1>4, <1>5

\* Two calls and two rows at most.
TwoOfEach ==
    /\ IsFiniteSet(Calls) /\ Cardinality(Calls) <= 2
    /\ IsFiniteSet(Keys) /\ Cardinality(Keys) <= 2

\* Two calls that deadlock hold a key each and want the other one's; the victim
\* lets go of both, which puts the other call ahead.
LEMMA SurvivorIsAhead ==
    ASSUME TwoOfEach, IInv, UpsertIInv, NEW c \in Calls, DeadlockVictim(c)
    PROVE  /\ \A e \in Calls \ {c} : ~Ahead(e)
           /\ \E d \in Calls \ {c} : Ahead(d)'
  <1>1. PICK d \in Calls : WaitsFor(c, d)
    BY DeadlockedWaits DEF DeadlockVictim
  <1>2. c # d /\ \A e \in Calls : e = c \/ e = d
    BY <1>1, AtMostTwo DEF WaitsFor, TwoOfEach
  <1>3. WaitsFor(d, c)
    <2>1. PICK n \in 2..Cardinality(Calls) : \E cycle \in [1..n -> Calls] :
              /\ cycle[1] = c
              /\ \A i \in 1..n : WaitsFor(cycle[i], cycle[IF i = n THEN 1 ELSE i + 1])
      BY DEF DeadlockVictim, Deadlocked
    <2>2. PICK cycle \in [1..n -> Calls] :
              /\ cycle[1] = c
              /\ \A i \in 1..n : WaitsFor(cycle[i], cycle[IF i = n THEN 1 ELSE i + 1])
      BY <2>1
    <2>3. n = 2
      BY <2>1, FS_CardinalityType DEF TwoOfEach
    <2>4. WaitsFor(cycle[1], cycle[2]) /\ WaitsFor(cycle[2], cycle[1])
      BY <2>2, <2>3
    <2>5. cycle[1] = c /\ cycle[2] = d
      BY <1>2, <2>2, <2>3, <2>4 DEF WaitsFor
    <2> QED
      BY <2>4, <2>5
  <1>4. /\ Waiting(c) /\ Waiting(d) /\ Mine(d, Key(c)) /\ Mine(c, Key(d))
        /\ pc[c] = "body" /\ pc[d] = "body"
        /\ Key(c) \in Keys /\ Key(d) \in Keys
    BY <1>1, <1>3, ItemType DEF WaitsFor, Waiting, UpsertIInv, DecisionInv
  <1>5. Key(c) # Key(d)
    BY <1>2, <1>4, MineAlone
  <1>6. \A k \in Keys : k = Key(c) \/ k = Key(d)
    BY <1>4, <1>5, AtMostTwo DEF TwoOfEach
  <1>7. ~Ahead(d)
    <2>1. ~Mine(d, Key(d)) /\ ~Reserved(d, Key(d))
      BY <1>2, <1>4, MineAlone
    <2> QED
      BY <1>4, <2>1 DEF Ahead
  <1>8. /\ attempt[c] \in Attempts /\ pc' = [pc EXCEPT ![c] = "rollback"]
        /\ UNCHANGED <<attempt, locked, step>>
        /\ txn' = [txn EXCEPT ![c][attempt[c]] = "rolledback"]
        /\ phase' = [phase EXCEPT ![c] = "ready"]
    BY <1>4, BodyFacts
    DEF DeadlockVictim, StatementRejected, Transition, SetTxn, Leave, table
  <1>9. /\ txn \in [Calls -> [Attempts -> TxnStates]] /\ pc \in [Calls -> PCs]
        /\ phase \in [Calls -> {"ready", "waiting", "found", "missing"}]
    BY DEF IInv, TypeOK, UpsertIInv, UpsertTypeOK
  <1>10. /\ pc'[d] = "body" /\ Waiting(d)' /\ ~Waiting(c)' /\ Key(d)' = Key(d)
         /\ txn'[d] = txn[d] /\ txn'[c][attempt[c]] = "rolledback"
    BY <1>2, <1>4, <1>8, <1>9 DEF Waiting, Key, Item
  <1>11. Mine(d, Key(c))'
    BY <1>4, <1>8, <1>10 DEF Mine, Holds, Key, Item
  <1>12. \A e \in Calls : \A a \in Attempts : ~Holds(e, a, Key(d))'
    <2>1. ASSUME NEW e \in Calls, NEW a \in Attempts, Holds(e, a, Key(d))' PROVE FALSE
      <3>1. Holds(e, a, Key(d))
        BY <1>8, <1>9, <1>10, <2>1 DEF Holds
      <3>2. e = c /\ a = attempt[c]
        BY <1>4, <3>1, MineAlone DEF HeldFrom
      <3> QED
        BY <1>10, <2>1, <3>2 DEF Holds
    <2> QED
      BY <2>1
  <1>13. Reserved(d, Key(d))'
    BY <1>2, <1>10, <1>12 DEF Reserved
  <1>14. Ahead(d)'
    <2>1. ASSUME NEW k \in Keys PROVE Mine(d, k)' \/ Reserved(d, k)'
      <3>1. CASE k = Key(c)
        BY <1>11, <3>1, <1>8 DEF Key, Item
      <3>2. CASE k = Key(d)
        BY <1>13, <3>2, <1>10
      <3> QED
        BY <1>6, <3>1, <3>2
    <2> QED
      BY <1>10, <2>1 DEF Ahead
  <1> QED
    BY <1>2, <1>7, <1>14

LEMMA ContentionStep ==
    ASSUME TwoOfEach, IInv, UpsertIInv, SerialInv, ContentionInv, [UpsertNext]_upsertVars
    PROVE  ContentionInv'
  <1>1. losses \in Nat /\ losses' \in Nat /\ losses' >= losses
    <2>1. losses \in Nat
      BY UpsertAssumption DEF UpsertIInv, UpsertTypeOK
    <2>2. ASSUME NEW c \in Calls, UpsertClient(c) PROVE losses' \in {losses, losses + 1}
      BY <2>2
      DEF UpsertClient, Lookup, WaitForLock, Store, Fails, DeadlockVictim, LosesConnection,
          Returns, RollsBack, Expire, Decides
    <2>3. ASSUME NEW c \in Calls, NEW a \in Attempts, UpsertServer(c, a) PROVE losses' = losses
      BY <2>3 DEF UpsertServer, CommitsTable, Unwinds
    <2>4. losses' \in {losses, losses + 1}
      BY <2>2, <2>3 DEF UpsertNext, upsertVars
    <2> QED
      BY <2>1, <2>4
  <1>2. ASSUME NEW c \in Calls
        PROVE  Tries(c) \in Nat /\ Tries(c)' \in Nat
    <2>1. attempt[c] \in Nat
      BY MaxAttemptsAssumption DEF IInv, TypeOK
    <2>2. IInv'
      BY UpsertStepIsStep, StepKeepsIInv
    <2>3. attempt'[c] \in Nat
      BY <2>2, MaxAttemptsAssumption DEF IInv, TypeOK
    <2> QED
      BY <2>1, <2>3 DEF Tries
  <1> SUFFICES ASSUME NEW c \in Calls
               PROVE  \/ Tries(c)' <= 1 + losses'
                      \/ Tries(c)' <= 2 + losses' /\ \E d \in Calls \ {c} : Ahead(d)'
    BY DEF ContentionInv
  <1>3. CASE Tries(c)' <= Tries(c)
    <2>1. CASE Tries(c) <= 1 + losses
      BY <1>1, <1>2, <1>3, <2>1
    <2>2. CASE ~(Tries(c) <= 1 + losses)
      <3>1. PICK d \in Calls \ {c} : Tries(c) <= 2 + losses /\ Ahead(d)
        BY <2>2 DEF ContentionInv
      <3>2. CASE LosesConnection(d)
        <4>1. losses' = losses + 1
          BY <3>2 DEF LosesConnection
        <4> QED
          BY <1>1, <1>2, <1>3, <3>1, <4>1
      <3>3. CASE ~LosesConnection(d)
        <4>1. Ahead(d)'
          BY <3>1, <3>3, AheadStays
        <4>2. Tries(c)' <= 2 + losses'
          BY <1>1, <1>2, <1>3, <3>1
        <4> QED
          BY <4>1, <4>2
      <3> QED
        BY <3>2, <3>3
    <2> QED
      BY <2>1, <2>2
  <1>4. CASE LosesConnection(c) /\ Tries(c)' <= Tries(c) + 1
    <2>1. losses' = losses + 1
      BY <1>4 DEF LosesConnection
    <2>2. CASE Tries(c) <= 1 + losses
      BY <1>1, <1>2, <1>4, <2>1, <2>2
    <2>3. CASE ~(Tries(c) <= 1 + losses)
      <3>1. PICK d \in Calls \ {c} : Tries(c) <= 2 + losses /\ Ahead(d)
        BY <2>3 DEF ContentionInv
      <3>2. ~LosesConnection(d)
        <4>1. pc \in [Calls -> PCs]
          BY DEF IInv, TypeOK
        <4> QED
          BY <1>4, <3>1, <4>1 DEF LosesConnection, ConnectionLost, Transition
      <3>3. Ahead(d)'
        BY <3>1, <3>2, AheadStays
      <3>4. Tries(c)' <= 2 + losses'
        BY <1>1, <1>2, <1>4, <2>1, <3>1
      <3> QED
        BY <3>3, <3>4
    <2> QED
      BY <2>2, <2>3
  <1>5. CASE DeadlockVictim(c) /\ Tries(c)' <= Tries(c) + 1
    <2>1. /\ \A e \in Calls \ {c} : ~Ahead(e)
          /\ \E d \in Calls \ {c} : Ahead(d)'
      BY <1>5, SurvivorIsAhead
    <2>2. Tries(c) <= 1 + losses
      BY <2>1 DEF ContentionInv
    <2>3. Tries(c)' <= 2 + losses'
      BY <1>1, <1>2, <1>5, <2>2
    <2> QED
      BY <2>1, <2>3
  <1> QED
    BY <1>3, <1>4, <1>5, TriesStay

LEMMA InitContentionInv == UpsertInit => ContentionInv
  BY DEF UpsertInit, Init, ContentionInv, Tries

LEMMA ContentionFollows ==
    ASSUME TwoOfEach, IInv, UpsertIInv, ContentionInv
    PROVE  \A c \in Calls : attempt[c] <= Cardinality(Calls) + losses
  <1> SUFFICES ASSUME NEW c \in Calls PROVE attempt[c] <= Cardinality(Calls) + losses
    OBVIOUS
  <1>1. attempt[c] \in Nat /\ losses \in Nat
    BY MaxAttemptsAssumption, UpsertAssumption DEF IInv, TypeOK, UpsertIInv, UpsertTypeOK
  <1>2. attempt[c] <= Tries(c) /\ Tries(c) \in Nat
    BY <1>1 DEF Tries
  <1>3. Cardinality(Calls) \in Nat /\ Cardinality(Calls) >= 1
    BY FS_CardinalityType, FS_EmptySet DEF TwoOfEach
  <1>4. CASE Tries(c) <= 1 + losses
    BY <1>1, <1>2, <1>3, <1>4
  <1>5. ASSUME NEW d \in Calls \ {c}, Tries(c) <= 2 + losses
        PROVE  attempt[c] <= Cardinality(Calls) + losses
    <2>1. Cardinality(Calls) # 1
      BY <1>5, FS_Singleton DEF TwoOfEach
    <2> QED
      BY <1>1, <1>2, <1>3, <1>5, <2>1
  <1> QED
    BY <1>4, <1>5 DEF ContentionInv

\* Two transactions over two rows deadlock at most once between two losses of a
\* connection, whatever their plans and however many attempts they are allowed:
\* no call needs more than one attempt for itself, one for its one deadlock and
\* one for each connection lost.
THEOREM Contention ==
    ASSUME IsFiniteSet(Calls), IsFiniteSet(Keys)
    PROVE  UpsertSpec => []ContentionIsBounded
  <1>1. CASE TwoOfEach
    <2>1. IInv /\ UpsertIInv /\ SerialInv /\ ContentionInv /\ [UpsertNext]_upsertVars
          => ContentionInv'
      BY <1>1, ContentionStep
    <2>2. IInv /\ UpsertIInv /\ ContentionInv => ContentionIsBounded
      BY <1>1, ContentionFollows DEF ContentionIsBounded
    <2> QED
      BY <2>1, <2>2, UpsertsRetry, UpsertInvariance, SerialInvariance, InitContentionInv, PTL
      DEF UpsertSpec
  <1>2. CASE ~TwoOfEach
    <2>1. ContentionIsBounded
      BY <1>2 DEF ContentionIsBounded, TwoOfEach
    <2> QED
      BY <2>1, PTL
  <1> QED
    BY <1>1, <1>2

=============================================================================
