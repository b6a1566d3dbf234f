--------------------------- MODULE ProvisioningProofs ---------------------------
(***************************************************************************)
(* Theorems about Provisioning, for any processes and any script.          *)
(***************************************************************************)
EXTENDS Provisioning, TLAPS

PCs == {"idle", "lock", "check", "script", "release", "dispose", "returned", "raised"}

Batches == 1..NumBatches

TypeInv ==
    /\ pc \in [Processes -> PCs]
    /\ next \in [Processes -> 1..(NumBatches + 1)]
    /\ failed \in [Processes -> BOOLEAN]
    /\ session \in [Processes -> {"none", "alive", "abandoned"}]
    /\ inFlight \in [Processes -> Batches \union {0}]
    /\ log \in Seq([by : Processes, batch : Batches])

\* Process p may have a batch carried out.
Writing(p) == (pc[p] = "script" /\ session[p] = "alive") \/ inFlight[p] # 0

Wrote(p, b) == \E i \in DOMAIN log : log[i] = [by |-> p, batch |-> b]

\* A process that is behind the lock has it for as long as its session lives, and
\* one whose batch is in flight as long as that is so.
OwnerInv(p) ==
    /\ pc[p] = "check" /\ session[p] = "alive" => owner = p
    /\ Writing(p) => owner = p
    /\ inFlight[p] # 0 => /\ session[p] = "abandoned" /\ inFlight[p] = next[p]
                          /\ pc[p] \in {"dispose", "returned", "raised"}

\* What a process has sent, and how that shows in the log.
ProgressInv(p) ==
    /\ pc[p] \in {"idle", "lock", "check"} =>
           next[p] = 1 /\ \A i \in DOMAIN log : log[i].by # p
    /\ \A b \in Batches : b < next[p] => Wrote(p, b)
    /\ \A i \in DOMAIN log : log[i].by = p => log[i].batch < next[p] \/ failed[p]
    /\ Writing(p) => \A i \in DOMAIN log : log[i].by = p => log[i].batch < next[p]
    /\ \A i \in DOMAIN log : log[i].by = p => log[i].batch <= next[p]
    /\ inFlight[p] # 0 => failed[p]
    /\ pc[p] = "raised" => failed[p]
    /\ pc[p] = "returned" => ~failed[p]
    /\ pc[p] \in {"release", "dispose", "returned"} /\ ~failed[p] =>
           next[p] = 1 \/ next[p] > NumBatches

\* Whoever writes, writes at the end: its own batches are the last ones, and
\* those of others came before the database was created.
TailInv(p) ==
    Writing(p) =>
        /\ \A i, k \in DOMAIN log : i < k /\ log[i].by = p => log[k].by = p
        /\ \A i \in DOMAIN log : log[i].by # p => log[i].batch < CreatedBy

\* Some process has created the database, and completed it unless it failed.
Provisioned ==
    \E q \in Processes :
        /\ Wrote(q, CreatedBy)
        /\ \/ failed[q]
           \/ pc[q] = "script" /\ session[q] # "alive"
           \/ \A b \in Batches : Wrote(q, b)

ReadyInv(p) == pc[p] \in {"release", "dispose", "returned"} /\ ~failed[p] => Provisioned

ProcessInv(p) == OwnerInv(p) /\ ProgressInv(p) /\ TailInv(p) /\ ReadyInv(p)

IInv == TypeInv /\ ScriptsDoNotInterleave /\ \A p \in Processes : ProcessInv(p)

\* The entries of the log.
LEMMA EntryType ==
    ASSUME TypeInv, NEW i \in DOMAIN log
    PROVE  log[i] \in [by : Processes, batch : Batches] /\ log[i].batch \in Nat
  <1>1. ASSUME NEW S, NEW s \in Seq(S), NEW k \in DOMAIN s PROVE s[k] \in S
    OBVIOUS
  <1>2. log[i] \in [by : Processes, batch : Batches]
    BY <1>1 DEF TypeInv
  <1> QED
    BY <1>2, ProvisioningAssumption DEF Batches

LEMMA InitInv == Init => IInv
  <1> SUFFICES ASSUME Init PROVE IInv
    OBVIOUS
  <1>1. TypeInv
    BY ProvisioningAssumption DEF Init, TypeInv, PCs, Batches
  <1>2. DOMAIN log = {}
    BY DEF Init
  <1>3. ASSUME NEW p \in Processes PROVE ProcessInv(p)
    BY <1>2, ProvisioningAssumption
    DEF Init, ProcessInv, OwnerInv, ProgressInv, TailInv, ReadyInv, Writing, Batches
  <1> QED
    BY <1>1, <1>2, <1>3 DEF IInv, ScriptsDoNotInterleave

-----------------------------------------------------------------------------
(* Steps that write nothing.                                               *)

\* Process p may have failed, moved on, or lost its session.
Quiet(p) ==
    /\ UNCHANGED <<log, next>>
    /\ \A q \in Processes :
           /\ q # p => pc'[q] = pc[q] /\ failed'[q] = failed[q]
                       /\ session'[q] = session[q] /\ inFlight'[q] = inFlight[q]
           /\ failed[q] => failed'[q]

LEMMA QuietKeepsProvisioned ==
    ASSUME IInv, NEW p \in Processes, Quiet(p), Provisioned,
           pc[p] = "script" /\ session[p] # "alive" =>
               \/ failed'[p]
               \/ pc'[p] = "script" /\ session'[p] # "alive"
               \/ next[p] > NumBatches
    PROVE  Provisioned'
  <1>1. PICK q \in Processes : /\ Wrote(q, CreatedBy)
                               /\ \/ failed[q]
                                  \/ pc[q] = "script" /\ session[q] # "alive"
                                  \/ \A b \in Batches : Wrote(q, b)
    BY DEF Provisioned
  <1>2. \A b : Wrote(q, b)' = Wrote(q, b)
    BY DEF Wrote, Quiet
  <1>3. next[p] > NumBatches => \A b \in Batches : Wrote(p, b)
    BY ProvisioningAssumption DEF IInv, ProcessInv, ProgressInv, TypeInv, Batches
  <1>4. \/ failed'[q]
        \/ pc'[q] = "script" /\ session'[q] # "alive"
        \/ \A b \in Batches : Wrote(q, b)
    BY <1>1, <1>3 DEF Quiet
  <1> QED
    BY <1>1, <1>2, <1>4 DEF Provisioned

\* A quiet step keeps the invariant if its process keeps its own part of it, no
\* one else's session, and the lock where that is still needed.
LEMMA QuietKeepsInv ==
    ASSUME IInv, TypeInv', NEW p \in Processes, Quiet(p),
           owner' = owner \/ owner = p \/ (owner = NoOne /\ owner' = p),
           OwnerInv(p)', ProgressInv(p)', TailInv(p)',
           pc'[p] \in {"release", "dispose", "returned"} /\ ~failed'[p] => Provisioned,
           pc[p] = "script" /\ session[p] # "alive" =>
               \/ failed'[p]
               \/ pc'[p] = "script" /\ session'[p] # "alive"
               \/ next[p] > NumBatches
    PROVE  IInv'
  <1>1. Provisioned => Provisioned'
    BY QuietKeepsProvisioned
  <1>2. ScriptsDoNotInterleave'
    BY DEF IInv, ScriptsDoNotInterleave, Quiet
  <1>3. ProcessInv(p)'
    BY <1>1 DEF ProcessInv, ReadyInv
  <1>4. ASSUME NEW q \in Processes, q # p PROVE ProcessInv(q)'
    <2>1. /\ pc'[q] = pc[q] /\ failed'[q] = failed[q] /\ session'[q] = session[q]
          /\ inFlight'[q] = inFlight[q] /\ log' = log /\ next' = next
      BY <1>4 DEF Quiet
    <2>2. owner = q => owner' = q
      BY <1>4, ProvisioningAssumption
    <2>3. Writing(q)' = Writing(q) /\ \A b : Wrote(q, b)' = Wrote(q, b)
      BY <2>1 DEF Writing, Wrote
    <2>4. ProcessInv(q)
      BY DEF IInv
    <2>5. OwnerInv(q)'
      BY <2>1, <2>2, <2>3, <2>4 DEF ProcessInv, OwnerInv
    <2>6. ProgressInv(q)'
      BY <2>1, <2>3, <2>4 DEF ProcessInv, ProgressInv
    <2>7. TailInv(q)'
      BY <2>1, <2>3, <2>4 DEF ProcessInv, TailInv
    <2>8. ReadyInv(q)'
      BY <1>1, <2>1, <2>4 DEF ProcessInv, ReadyInv
    <2> QED
      BY <2>5, <2>6, <2>7, <2>8 DEF ProcessInv
  <1> QED
    BY <1>2, <1>3, <1>4 DEF IInv

LEMMA QuietStep ==
    ASSUME IInv, NEW p \in Processes,
           \/ Connect(p) \/ LockTimesOut(p) \/ GetLock(p) \/ FindsDatabase(p) \/ FindsNone(p)
           \/ ScriptEnds(p) \/ BatchFails(p) \/ LoseConnection(p)
           \/ Release(p) \/ ReleaseFails(p) \/ Dispose(p) \/ Crash(p)
           \/ NoticesLoss(p) \/ Kill(p)
    PROVE  IInv'
  <1> DEFINE Moves ==
          /\ TypeInv' /\ Quiet(p)
          /\ owner' = owner \/ owner = p \/ (owner = NoOne /\ owner' = p)
          /\ pc[p] = "script" /\ session[p] # "alive" =>
                 \/ failed'[p]
                 \/ pc'[p] = "script" /\ session'[p] # "alive"
                 \/ next[p] > NumBatches
  <1>1. TypeInv /\ ProcessInv(p)
    BY DEF IInv
  <1> USE ProvisioningAssumption
      DEF TypeInv, ProcessInv, OwnerInv, Quiet, Goto, Transition,
          client, server, docker, Logged, SessionEnds, PCs, Batches
  <1>2. Moves
    <2>1. CASE Connect(p)
      BY <1>1, <2>1 DEF Connect
    <2>2. CASE LockTimesOut(p)
      BY <1>1, <2>2 DEF LockTimesOut
    <2>3. CASE GetLock(p)
      BY <1>1, <2>3 DEF GetLock
    <2>4. CASE FindsDatabase(p)
      BY <1>1, <2>4 DEF FindsDatabase
    <2>5. CASE FindsNone(p)
      BY <1>1, <2>5 DEF FindsNone
    <2>6. CASE ScriptEnds(p)
      BY <1>1, <2>6 DEF ScriptEnds
    <2>7. CASE BatchFails(p)
      BY <1>1, <2>7 DEF BatchFails
    <2>8. CASE LoseConnection(p)
      <3>1. inFlight' \in [Processes -> Batches \union {0}]
        BY <1>1, <2>8 DEF LoseConnection
      <3>2. session' \in [Processes -> {"none", "alive", "abandoned"}]
        BY <1>1, <2>8 DEF LoseConnection
      <3>3. /\ pc' \in [Processes -> PCs] /\ failed' \in [Processes -> BOOLEAN]
            /\ log' = log /\ next' = next
        BY <1>1, <2>8 DEF LoseConnection
      <3>4. Quiet(p) /\ failed'[p] /\ owner' = owner
        BY <1>1, <2>8, <3>3 DEF LoseConnection
      <3> QED
        BY <1>1, <3>1, <3>2, <3>3, <3>4
    <2>9. CASE Release(p)
      BY <1>1, <2>9 DEF Release
    <2>10. CASE ReleaseFails(p)
      BY <1>1, <2>10 DEF ReleaseFails
    <2>11. CASE Dispose(p)
      BY <1>1, <2>11 DEF Dispose
    <2>12. CASE Crash(p)
      <3>1. inFlight' \in [Processes -> Batches \union {0}]
        BY <1>1, <2>12 DEF Crash
      <3>2. session' \in [Processes -> {"none", "alive", "abandoned"}]
        BY <1>1, <2>12 DEF Crash
      <3>3. /\ pc' \in [Processes -> PCs] /\ failed' \in [Processes -> BOOLEAN]
            /\ log' = log /\ next' = next
        BY <1>1, <2>12 DEF Crash
      <3> QED
        BY <1>1, <2>12, <3>1, <3>2, <3>3 DEF Crash
    <2>13. CASE NoticesLoss(p)
      BY <1>1, <2>13 DEF NoticesLoss
    <2>14. CASE Kill(p)
      BY <1>1, <2>14 DEF Kill
    <2> QED
      BY <2>1, <2>2, <2>3, <2>4, <2>5, <2>6, <2>7, <2>8, <2>9, <2>10, <2>11, <2>12, <2>13, <2>14
  <1>3. OwnerInv(p)'
    BY <1>1
    DEF Writing, Connect, LockTimesOut, GetLock, FindsDatabase, FindsNone, ScriptEnds, BatchFails,
        LoseConnection, Release, ReleaseFails, Dispose, Crash, NoticesLoss, Kill
  <1>4. /\ log' = log /\ next' = next /\ (failed[p] => failed'[p])
        /\ pc'[p] \in {"idle", "lock", "check"} => pc[p] \in {"idle", "lock", "check"}
        /\ Writing(p)' => Writing(p) \/ FindsNone(p)
        /\ inFlight'[p] # 0 => failed'[p]
        /\ pc'[p] = "raised" => failed'[p]
        /\ pc'[p] = "returned" => ~failed'[p]
        /\ pc'[p] \in {"release", "dispose", "returned"} /\ ~failed'[p] =>
               \/ pc[p] \in {"release", "dispose", "returned"} /\ ~failed[p]
               \/ FindsDatabase(p)
               \/ pc[p] = "script" /\ next[p] > NumBatches
    BY <1>1
    DEF Writing, ProgressInv, Connect, LockTimesOut, GetLock, FindsDatabase, FindsNone, ScriptEnds,
        BatchFails, LoseConnection, Release, ReleaseFails, Dispose, Crash, NoticesLoss, Kill
  <1>5. \A b : Wrote(p, b)' = Wrote(p, b)
    BY <1>4 DEF Wrote
  <1>6. FindsNone(p) => pc[p] = "check" /\ ~Exists
    BY DEF FindsNone
  <1>7. FindsDatabase(p) => pc[p] = "check" /\ session[p] = "alive" /\ Exists
    BY DEF FindsDatabase
  <1>8. ProgressInv(p)'
    BY <1>1, <1>4, <1>5, <1>6, <1>7 DEF ProgressInv
  <1>9. TailInv(p)'
    <2>1. ASSUME FindsNone(p), NEW i \in DOMAIN log
          PROVE  log[i].by # p /\ log[i].batch < CreatedBy
      <3>1. log[i].by # p
        BY <1>1, <1>6, <2>1 DEF ProgressInv
      <3>2. ASSUME log[i].batch >= CreatedBy PROVE FALSE
        <4>1. log[i] \in [by : Processes, batch : Batches] /\ log[i].batch \in Nat
          BY <1>1, EntryType
        <4>2. PICK q \in Processes : log[i].by = q
          BY <4>1
        <4>3. ProgressInv(q)
          BY DEF IInv, ProcessInv
        <4>4. log[i].batch = CreatedBy \/ CreatedBy < next[q]
          <5>1. log[i].batch <= next[q] /\ next[q] \in Nat /\ CreatedBy \in Nat
            BY <1>1, <4>2, <4>3 DEF ProgressInv
          <5> QED
            BY <3>2, <4>1, <5>1
        <4>5. log[i].batch = CreatedBy \/ Wrote(q, CreatedBy)
          BY <4>3, <4>4 DEF ProgressInv
        <4> QED
          BY <1>6, <2>1, <4>5 DEF Exists, Wrote
      <3>3. log[i].batch \in Nat /\ CreatedBy \in Nat
        BY <1>1, EntryType
      <3> QED
        BY <3>1, <3>2, <3>3
    <2>2. CASE FindsNone(p)
      BY <1>4, <2>1, <2>2 DEF TailInv
    <2>3. CASE ~FindsNone(p)
      BY <1>1, <1>4, <2>3 DEF TailInv
    <2> QED
      BY <2>2, <2>3
  <1>10. ASSUME pc'[p] \in {"release", "dispose", "returned"}, ~failed'[p] PROVE Provisioned
    <2>1. CASE pc[p] \in {"release", "dispose", "returned"} /\ ~failed[p]
      BY <1>1, <2>1 DEF ReadyInv
    <2>2. CASE FindsDatabase(p)
      <3>1. PICK i \in DOMAIN log : log[i].batch = CreatedBy
        BY <1>7, <2>2 DEF Exists
      <3>2. log[i] \in [by : Processes, batch : Batches]
        BY <1>1, EntryType
      <3>3. PICK q \in Processes : log[i] = [by |-> q, batch |-> CreatedBy]
        BY <3>1, <3>2
      <3>4. Wrote(q, CreatedBy)
        BY <3>3 DEF Wrote
      <3>5. ProcessInv(q) /\ pc[q] \in PCs /\ next[q] \in 1..(NumBatches + 1)
        BY <1>1 DEF IInv
      <3>6. pc[q] \notin {"idle", "lock", "check"} /\ q # p
        BY <1>7, <2>2, <3>3, <3>5 DEF ProgressInv
      <3>7. pc[q] = "script" => session[q] # "alive"
        BY <1>1, <1>7, <2>2, <3>5, <3>6 DEF Writing
      <3>8. pc[q] \in {"release", "dispose", "returned"} /\ ~failed[q] =>
                \A b \in Batches : Wrote(q, b)
        BY <3>3, <3>5 DEF ProgressInv
      <3>9. pc[q] = "raised" => failed[q]
        BY <3>5 DEF ProgressInv
      <3> QED
        BY <3>4, <3>5, <3>6, <3>7, <3>8, <3>9 DEF Provisioned
    <2>3. CASE pc[p] = "script" /\ next[p] > NumBatches
      <3>1. \A b \in Batches : Wrote(p, b)
        BY <1>1, <2>3 DEF ProgressInv
      <3> QED
        BY <3>1 DEF Provisioned
    <2> QED
      BY <1>4, <1>10, <2>1, <2>2, <2>3
  <1> HIDE DEF TypeInv, ProcessInv, OwnerInv, Quiet
  <1> QED
    BY <1>2, <1>3, <1>8, <1>9, <1>10, QuietKeepsInv

-----------------------------------------------------------------------------
(* Steps that write.                                                       *)

LEMMA WriteStep ==
    ASSUME IInv, NEW p \in Processes, RunBatch(p) \/ CarriesOut(p)
    PROVE  IInv'
  <1> DEFINE entry == [by |-> p, batch |-> next[p]]
  <1>1. TypeInv /\ ProcessInv(p)
    BY DEF IInv
  <1>2. /\ log' = Append(log, entry) /\ next[p] \in Batches /\ Writing(p) /\ owner = p
        /\ UNCHANGED <<pc, failed, session, owner>>
        /\ \/ next' = [next EXCEPT ![p] = @ + 1] /\ inFlight' = inFlight /\ inFlight[p] = 0
           \/ next' = next /\ inFlight' = [inFlight EXCEPT ![p] = 0] /\ inFlight[p] # 0
    BY <1>1, ProvisioningAssumption
    DEF RunBatch, CarriesOut, Logged, TypeInv, ProcessInv, OwnerInv, Writing, Batches,
        docker, client
  <1>3. /\ log \in Seq([by : Processes, batch : Batches]) /\ Len(log) \in Nat
        /\ entry \in [by : Processes, batch : Batches]
    BY <1>1, <1>2 DEF TypeInv
  <1>4. /\ log' \in Seq([by : Processes, batch : Batches])
        /\ DOMAIN log = 1..Len(log) /\ DOMAIN log' = 1..(Len(log) + 1)
        /\ \A i \in DOMAIN log : log'[i] = log[i]
        /\ log'[Len(log) + 1] = entry
    BY <1>2, <1>3
  <1>5. \A i \in DOMAIN log' : i \in DOMAIN log \/ i = Len(log) + 1
    BY <1>3, <1>4
  <1>6. TypeInv'
    <2>1. next' \in [Processes -> 1..(NumBatches + 1)]
      <3>1. next[p] \in 1..(NumBatches + 1) /\ next[p] + 1 \in 1..(NumBatches + 1)
        BY <1>2, ProvisioningAssumption DEF Batches
      <3>2. next \in [Processes -> 1..(NumBatches + 1)]
        BY <1>1 DEF TypeInv
      <3> QED
        BY <1>2, <3>1, <3>2
    <2>2. inFlight' \in [Processes -> Batches \union {0}]
      BY <1>1, <1>2 DEF TypeInv
    <2> QED
      BY <1>1, <1>2, <1>4, <2>1, <2>2 DEF TypeInv
  <1>7. \A q \in Processes : \A b : Wrote(q, b) => Wrote(q, b)'
    BY <1>4, <1>3 DEF Wrote
  <1>8. \E i \in DOMAIN log' : log'[i] = entry
    <2>1. Len(log) + 1 \in DOMAIN log'
      BY <1>3, <1>4
    <2> QED
      BY <1>4, <2>1
  <1>9. \A q \in Processes : q # p => ~Writing(q) /\ inFlight[q] = 0
    BY <1>2 DEF IInv, ProcessInv, OwnerInv, Writing
  <1>10. /\ \A i \in DOMAIN log : log[i].by = p => log[i].batch < next[p]
         /\ \A i, k \in DOMAIN log : i < k /\ log[i].by = p => log[k].by = p
         /\ \A i \in DOMAIN log : log[i].by # p => log[i].batch < CreatedBy
    BY <1>1, <1>2 DEF ProcessInv, ProgressInv, TailInv
  <1>11. ScriptsDoNotInterleave'
    <2> SUFFICES ASSUME NEW i \in DOMAIN log', NEW j \in DOMAIN log', i < j
                 PROVE  /\ log'[i].by = log'[j].by =>
                               /\ log'[i].batch < log'[j].batch
                               /\ \A k \in i..j : log'[k].by = log'[i].by
                        /\ log'[i].by # log'[j].by => log'[i].batch < CreatedBy
      BY DEF ScriptsDoNotInterleave
    <2>1. i \in DOMAIN log /\ \A k \in i..j : k \in DOMAIN log \/ k = Len(log) + 1
      BY <1>3, <1>4
    <2>2. CASE j \in DOMAIN log
      <3>1. \A k \in i..j : k \in DOMAIN log
        BY <1>3, <1>4, <2>1, <2>2
      <3> QED
        BY <1>4, <2>1, <2>2, <3>1 DEF IInv, ScriptsDoNotInterleave
    <2>3. CASE j = Len(log) + 1
      <3>1. log'[j].by = p /\ log'[j].batch = next[p] /\ log'[i] = log[i]
        BY <1>4, <2>1, <2>3
      <3>2. log[i].by = p => \A k \in i..j : log'[k].by = p
        BY <1>3, <1>4, <1>10, <2>1, <2>3
      <3> QED
        BY <1>10, <2>1, <3>1, <3>2
    <2> QED
      BY <1>5, <2>2, <2>3
  <1>12. Provisioned => Provisioned'
    <2>1. UNCHANGED <<pc, failed, session>>
      BY <1>2
    <2> QED
      BY <1>7, <2>1 DEF Provisioned
  <1>13. ASSUME NEW q \in Processes, q # p PROVE ProcessInv(q)'
    <2>1. /\ pc'[q] = pc[q] /\ failed'[q] = failed[q] /\ session'[q] = session[q]
          /\ inFlight'[q] = inFlight[q] /\ next'[q] = next[q] /\ owner' = owner
      BY <1>1, <1>2, <1>13 DEF TypeInv
    <2>2. ProcessInv(q) /\ ~Writing(q)' /\ inFlight'[q] = 0
      BY <1>9, <1>13, <2>1 DEF IInv, Writing
    <2>3. \A i \in DOMAIN log' : log'[i].by = q => i \in DOMAIN log /\ log'[i] = log[i]
      BY <1>4, <1>5, <1>13
    <2>4. OwnerInv(q)'
      BY <2>1, <2>2 DEF ProcessInv, OwnerInv
    <2>5. ProgressInv(q)'
      <3>1. pc'[q] \in {"idle", "lock", "check"} =>
                next'[q] = 1 /\ \A i \in DOMAIN log' : log'[i].by # q
        BY <2>1, <2>2, <2>3 DEF ProcessInv, ProgressInv
      <3>2. \A b \in Batches : b < next'[q] => Wrote(q, b)'
        BY <1>7, <2>1, <2>2 DEF ProcessInv, ProgressInv
      <3>3. \A i \in DOMAIN log' : log'[i].by = q =>
                (log'[i].batch < next'[q] \/ failed'[q]) /\ log'[i].batch <= next'[q]
        BY <2>1, <2>2, <2>3 DEF ProcessInv, ProgressInv
      <3>4. /\ pc'[q] = "raised" => failed'[q]
            /\ pc'[q] = "returned" => ~failed'[q]
            /\ pc'[q] \in {"release", "dispose", "returned"} /\ ~failed'[q] =>
                   next'[q] = 1 \/ next'[q] > NumBatches
        BY <2>1, <2>2 DEF ProcessInv, ProgressInv
      <3> QED
        BY <2>2, <3>1, <3>2, <3>3, <3>4 DEF ProgressInv
    <2>6. TailInv(q)'
      BY <2>2 DEF TailInv
    <2>7. ReadyInv(q)'
      BY <1>12, <2>1, <2>2 DEF ProcessInv, ReadyInv
    <2> QED
      BY <2>4, <2>5, <2>6, <2>7 DEF ProcessInv
  <1>14. ProcessInv(p)'
    <2>1. Writing(p)' => next'[p] = next[p] + 1
      BY <1>1, <1>2 DEF Writing, TypeInv, ProcessInv, OwnerInv
    <2>2. /\ pc[p] \notin {"idle", "lock", "check"} /\ (inFlight[p] # 0 => failed[p])
          /\ next'[p] = next[p] \/ next'[p] = next[p] + 1
          /\ next'[p] = next[p] => failed[p]
          /\ next'[p] = next[p] + 1 => pc[p] = "script"
          /\ next[p] \in Nat
      BY <1>1, <1>2, ProvisioningAssumption
      DEF Writing, TypeInv, ProcessInv, OwnerInv, ProgressInv, Batches
    <2>8. \A i \in DOMAIN log' : log'[i].batch \in Nat
      <3>1. \A i \in DOMAIN log : log'[i].batch \in Nat
        BY <1>1, <1>4, EntryType
      <3> QED
        BY <1>4, <1>5, <2>2, <3>1
    <2>3. \A i \in DOMAIN log' : log'[i].by = p => log'[i].batch <= next[p]
      <3>1. \A i \in DOMAIN log : log'[i].by = p => log'[i].batch < next[p]
        BY <1>4, <1>10
      <3>2. log'[Len(log) + 1].batch = next[p]
        BY <1>4
      <3> QED
        BY <1>5, <2>2, <2>8, <3>1, <3>2
    <2>4. OwnerInv(p)'
      BY <1>1, <1>2 DEF ProcessInv, OwnerInv, TypeInv, Writing
    <2>5. ProgressInv(p)'
      <3>1. \A b \in Batches : b < next'[p] => Wrote(p, b)'
        <4>1. ASSUME NEW b \in Batches, b < next'[p] PROVE b < next[p] \/ b = next[p]
          BY <2>2, <4>1, ProvisioningAssumption DEF Batches
        <4>2. \A b \in Batches : b < next[p] => Wrote(p, b)'
          BY <1>1, <1>7 DEF ProcessInv, ProgressInv
        <4>3. ASSUME NEW b \in Batches, b = next[p] PROVE Wrote(p, b)'
          BY <1>8, <4>3 DEF Wrote
        <4> QED
          BY <4>1, <4>2, <4>3
      <3>2. \A i \in DOMAIN log' : log'[i].by = p =>
                /\ log'[i].batch < next'[p] \/ failed'[p]
                /\ log'[i].batch <= next'[p]
                /\ Writing(p)' => log'[i].batch < next'[p]
        <4>1. \A i \in DOMAIN log' : log'[i].batch \in Nat
          BY <2>8
        <4> QED
          BY <1>2, <2>1, <2>2, <2>3, <4>1
      <3>3. inFlight'[p] # 0 => failed'[p]
        BY <1>1, <1>2 DEF TypeInv
      <3>4. /\ pc'[p] = pc[p] /\ failed'[p] = failed[p]
            /\ pc[p] = "raised" => failed[p]
            /\ pc[p] = "returned" => ~failed[p]
            /\ pc[p] \in {"release", "dispose", "returned"} => failed[p]
        BY <1>1, <1>2, <2>2 DEF ProcessInv, ProgressInv
      <3> QED
        BY <2>2, <3>1, <3>2, <3>3, <3>4 DEF ProgressInv
    <2>6. TailInv(p)'
      <3>1. \A i, k \in DOMAIN log' : i < k /\ log'[i].by = p => log'[k].by = p
        BY <1>3, <1>4, <1>5, <1>10
      <3>2. \A i \in DOMAIN log' : log'[i].by # p => log'[i].batch < CreatedBy
        BY <1>4, <1>5, <1>10
      <3> QED
        BY <3>1, <3>2 DEF TailInv
    <2>7. ReadyInv(p)'
      BY <1>1, <1>2, <1>12 DEF ProcessInv, ReadyInv
    <2> QED
      BY <2>4, <2>5, <2>6, <2>7 DEF ProcessInv
  <1> QED
    BY <1>6, <1>11, <1>13, <1>14 DEF IInv

-----------------------------------------------------------------------------
(* The invariant, and what follows from it.                                *)

LEMMA ProvisioningStepInv == IInv /\ [Next]_vars => IInv'
  <1> SUFFICES ASSUME IInv, [Next]_vars PROVE IInv'
    OBVIOUS
  <1>1. ASSUME NEW p \in Processes, Process(p) \/ Crash(p) \/ Server(p) \/ Kill(p)
        PROVE  IInv'
    BY <1>1, QuietStep, WriteStep DEF Process, Server
  <1>2. ASSUME UNCHANGED <<client, server>> PROVE IInv'
    BY <1>2
    DEF client, server, IInv, TypeInv, ProcessInv, OwnerInv, ProgressInv, TailInv, ReadyInv,
        Provisioned, Wrote, Writing, ScriptsDoNotInterleave
  <1>3. ASSUME Controller PROVE IInv'
    BY <1>2, <1>3
    DEF Controller, StartContainer, ConfigureSucceeds, ConfigureFails, StopContainer
  <1> QED
    BY <1>1, <1>2, <1>3 DEF Next, vars

LEMMA ProvisioningInvariance == Spec => []IInv
  BY InitInv, ProvisioningStepInv, PTL DEF Spec

\* Scripts of any length never interleave, for any number of processes, whatever
\* connections are lost, sessions killed and batches carried out late.
THEOREM NoInterleaving == Spec => []ScriptsDoNotInterleave
  <1>1. IInv => ScriptsDoNotInterleave
    BY DEF IInv
  <1> QED
    BY <1>1, ProvisioningInvariance, PTL

\* A process that returns leaves a database, complete unless its creator failed.
THEOREM ReturnsProvisioned == Spec => []ReturnedMeansProvisioned
  <1>1. ASSUME IInv PROVE ReturnedMeansProvisioned
    <2>1. ASSUME NEW p \in Processes, pc[p] = "returned" PROVE Provisioned
      BY <1>1, <2>1 DEF IInv, ProcessInv, ReadyInv, ProgressInv
    <2> QED
      BY <2>1 DEF ReturnedMeansProvisioned, Provisioned, Wrote, Batches
  <1> QED
    BY <1>1, ProvisioningInvariance, PTL
=============================================================================
