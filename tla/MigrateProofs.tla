--------------------------- MODULE MigrateProofs ---------------------------
(***************************************************************************)
(* Theorems about Migrate, for any runners, files, releases and restarts.  *)
(***************************************************************************)
EXTENDS Migrate, TLAPS

States == {"none", "active", "orphaned", "committing", "committed", "rolledback"}
Open == {"active", "orphaned", "committing"}

Txns == [state : States, file : 0..NumFiles, checksum : Contents, row : BOOLEAN]
Effects == [by : Runners, run : Runs, file : Files, checksum : Checksums]

PCs == {"idle", "ensure", "create", "read", "loop", "script", "insert", "commit",
        "committing", "returned", "failed"}

MigrateTypeOK ==
    /\ pc \in [Runners -> PCs]
    /\ run \in [Runners -> 0..MaxRuns]
    /\ \A r \in Runners : pc[r] # "idle" => run[r] \in Runs
    /\ dir \in [Runners -> [Files -> Contents]]
    /\ known \in [Runners -> [Files -> Contents]]
    /\ at \in [Runners -> 1..NumFiles + 1]
    /\ txn \in [Runners -> [Runs -> Txns]]
    /\ table \in BOOLEAN
    /\ history \in [Files -> Contents]
    /\ effects \subseteq Effects

\* The row each open transaction has inserted, and will commit.
HasRow(r, n) == txn[r][n].state \in Open /\ txn[r][n].row

\* The primary key: a row that is not committed is of a file that is not in the
\* history, no two transactions have one of the same file, and every commit in
\* flight brings one.
KeyInv ==
    \A r \in Runners, n \in Runs :
        /\ HasRow(r, n) => /\ txn[r][n].file \in Files /\ txn[r][n].checksum \in Checksums
                           /\ history[txn[r][n].file] = None
        /\ txn[r][n].state = "committing" => txn[r][n].row
        /\ \A s \in Runners, m \in Runs :
               HasRow(r, n) /\ HasRow(s, m) /\ txn[r][n].file = txn[s][m].file
                   => r = s /\ n = m

\* What a runner has read of the history stays true.
KnownInv == \A r \in Runners, f \in Files : known[r][f] # None => history[f] = known[r][f]

\* The transaction a runner is in is for the file it is at, and if it was
\* committed, so was its row.
ThisFile(r) == Txn(r).file = at[r] /\ Txn(r).checksum = Content(r)
ClientInv ==
    \A r \in Runners :
        /\ pc[r] \in {"script", "insert", "commit"} =>
               /\ at[r] \in Files /\ Content(r) \in Checksums
               /\ Txn(r).state = "active" /\ ThisFile(r)
               /\ Txn(r).row <=> pc[r] = "commit"
        /\ pc[r] = "committing" =>
               /\ at[r] \in Files /\ Content(r) \in Checksums
               /\ Txn(r).state \in {"committing", "committed", "rolledback"}
               /\ Txn(r).state # "rolledback" => ThisFile(r)
               /\ Txn(r).state = "committed" => history[at[r]] = Content(r)
        /\ pc[r] = "returned" => at[r] \notin Files

MigrateIInv ==
    /\ MigrateTypeOK /\ KeyInv /\ KnownInv /\ ClientInv
    /\ HistoryIsTrue /\ ReturnedMeansMigrated

-----------------------------------------------------------------------------
LEMMA MigrateInitInv == Init => MigrateIInv
  <1> SUFFICES ASSUME Init PROVE MigrateIInv
    OBVIOUS
  <1> USE MigrateAssumption DEF Init, Files, Runs, Contents, NoFiles
  <1>1. NoTxn \in Txns /\ NoTxn.state = "none"
    BY DEF Txns, States, NoTxn
  <1>2. MigrateTypeOK
    <2>1. dir \in [Runners -> [Files -> Contents]] /\ known \in [Runners -> [Files -> Contents]]
      OBVIOUS
    <2>2. txn \in [Runners -> [Runs -> Txns]] /\ history \in [Files -> Contents]
      BY <1>1
    <2>3. run \in [Runners -> 0..MaxRuns] /\ at \in [Runners -> 1..NumFiles + 1]
      OBVIOUS
    <2> QED
      BY <2>1, <2>2, <2>3 DEF MigrateTypeOK, PCs
  <1>3. KeyInv
    <2>1. \A r \in Runners, n \in Runs : txn[r][n] = NoTxn
      OBVIOUS
    <2>2. \A r \in Runners, n \in Runs : ~HasRow(r, n) /\ txn[r][n].state # "committing"
      BY <1>1, <2>1 DEF HasRow, Open
    <2> QED
      BY <2>2 DEF KeyInv
  <1>4. KnownInv /\ ClientInv
    BY DEF KnownInv, ClientInv
  <1>5. HistoryIsTrue /\ ReturnedMeansMigrated
    BY DEF HistoryIsTrue, ReturnedMeansMigrated
  <1> QED
    BY <1>2, <1>3, <1>4, <1>5 DEF MigrateIInv

LEMMA Settled == RolledBack \in Txns /\ RolledBack.state = "rolledback"
  <1>1. NoTxn \in Txns
    BY MigrateAssumption DEF NoTxn, Txns, States, Contents
  <1> QED
    BY <1>1 DEF RolledBack, Txns, States

LEMMA TxnSet ==
    ASSUME txn \in [Runners -> [Runs -> Txns]],
           NEW r \in Runners, run[r] \in Runs, NEW t \in Txns, SetTxn(r, t)
    PROVE  /\ txn' \in [Runners -> [Runs -> Txns]]
           /\ txn'[r][run[r]] = t
           /\ \A s \in Runners \ {r} : txn'[s] = txn[s]
           /\ \A m \in Runs \ {run[r]} : txn'[r][m] = txn[r][m]
  BY DEF SetTxn

\* A run that raises with its transaction settled or orphaned: the invariant
\* relates nothing of its runner to the database any more.
LEMMA Failing ==
    ASSUME MigrateIInv, NEW r \in Runners, Fails(r), run[r] \in Runs,
           UNCHANGED <<table, history, effects>>,
           NEW t \in Txns, SetTxn(r, t),
           \/ t.state \notin Open
           \/ t = Txn(r)
           \/ Txn(r).state = "active" /\ t = [Txn(r) EXCEPT !.state = "orphaned"]
    PROVE  MigrateIInv'
  <1> DEFINE n == run[r]
  <1>1. /\ txn' \in [Runners -> [Runs -> Txns]]
        /\ txn'[r][n] = t
        /\ \A s \in Runners \ {r} : txn'[s] = txn[s]
        /\ \A m \in Runs \ {n} : txn'[r][m] = txn[r][m]
    BY TxnSet DEF MigrateIInv, MigrateTypeOK
  <1>2. /\ pc' = [pc EXCEPT ![r] = "failed"]
        /\ dir' = [dir EXCEPT ![r] = NoFiles]
        /\ known' = [known EXCEPT ![r] = NoFiles]
        /\ at' = [at EXCEPT ![r] = 1]
        /\ UNCHANGED <<run, table, history, effects>>
    BY DEF Fails, Goto
  <1>3. NoFiles \in [Files -> Contents] /\ 1 \in 1..NumFiles + 1
    BY MigrateAssumption DEF NoFiles, Contents
  <1>4. MigrateTypeOK'
    BY <1>1, <1>2, <1>3 DEF MigrateIInv, MigrateTypeOK, PCs
  <1>5. \A s \in Runners, m \in Runs :
            /\ HasRow(s, m)' =>
                   /\ HasRow(s, m)
                   /\ txn'[s][m].file = txn[s][m].file
                   /\ txn'[s][m].checksum = txn[s][m].checksum
            /\ txn'[s][m].state = "committing" => txn[s][m] = txn'[s][m]
    <2>1. Txn(r) = txn[r][n] /\ Txn(r) \in Txns
      BY DEF Txn, MigrateIInv, MigrateTypeOK
    <2>2. \/ t.state \notin Open
          \/ t = txn[r][n]
          \/ /\ txn[r][n].state = "active"
             /\ t.state = "orphaned" /\ t.row = txn[r][n].row
             /\ t.file = txn[r][n].file /\ t.checksum = txn[r][n].checksum
      BY <2>1 DEF Txns
    <2> QED
      BY <1>1, <2>2 DEF HasRow, Open
  <1>6. KeyInv'
    BY <1>2, <1>5 DEF MigrateIInv, KeyInv
  <1>7. KnownInv'
    BY <1>2 DEF MigrateIInv, MigrateTypeOK, KnownInv, NoFiles
  <1>8. ClientInv'
    <2>1. \A s \in Runners \ {r} :
              pc'[s] = pc[s] /\ at'[s] = at[s] /\ Content(s)' = Content(s) /\ Txn(s)' = Txn(s)
      BY <1>1, <1>2 DEF MigrateIInv, MigrateTypeOK, Content, Txn
    <2>2. pc'[r] = "failed"
      BY <1>2 DEF MigrateIInv, MigrateTypeOK
    <2> QED
      BY <1>2, <2>1, <2>2 DEF MigrateIInv, ClientInv, ThisFile
  <1>9. HistoryIsTrue' /\ ReturnedMeansMigrated'
    BY <1>2 DEF MigrateIInv, MigrateTypeOK, HistoryIsTrue, ReturnedMeansMigrated
  <1> QED
    BY <1>4, <1>6, <1>7, <1>8, <1>9 DEF MigrateIInv

\* A step that only a runner's own variables change by.
OthersUnchanged(r) ==
    \A s \in Runners \ {r} : /\ pc'[s] = pc[s] /\ run'[s] = run[s] /\ dir'[s] = dir[s]
                             /\ known'[s] = known[s] /\ at'[s] = at[s] /\ txn'[s] = txn[s]

\* A step of a runner that has nothing to do with its transaction.
LEMMA Quiet ==
    ASSUME MigrateIInv, MigrateTypeOK', NEW r \in Runners, OthersUnchanged(r),
           UNCHANGED <<txn, history, effects>>,
           pc'[r] \notin {"script", "insert", "commit", "committing"},
           pc'[r] = "returned" => at'[r] \notin Files,
           \A f \in Files : known'[r][f] # None => history[f] = known'[r][f],
           pc'[r] # "failed" =>
               \A f \in Files : f < at'[r] /\ dir'[r][f] # None => history[f] = dir'[r][f]
    PROVE  MigrateIInv'
  <1>1. KeyInv'
    BY DEF MigrateIInv, KeyInv, HasRow
  <1>2. KnownInv'
    BY DEF MigrateIInv, KnownInv, OthersUnchanged
  <1>3. ClientInv'
    <2>1. \A s \in Runners \ {r} :
              pc'[s] = pc[s] /\ at'[s] = at[s] /\ Content(s)' = Content(s) /\ Txn(s)' = Txn(s)
      BY DEF Content, Txn, OthersUnchanged
    <2> QED
      BY <2>1 DEF MigrateIInv, ClientInv, ThisFile
  <1>4. HistoryIsTrue' /\ ReturnedMeansMigrated'
    BY DEF MigrateIInv, HistoryIsTrue, ReturnedMeansMigrated, OthersUnchanged
  <1> QED
    BY <1>1, <1>2, <1>3, <1>4 DEF MigrateIInv

\* A step of a runner inside its transaction, which stays open: it is at the same
\* file, and if the transaction now has the row, nobody else has one.
LEMMA Within ==
    ASSUME MigrateIInv, MigrateTypeOK', NEW r \in Runners, OthersUnchanged(r),
           UNCHANGED <<run, dir, known, at, table, history, effects>>,
           run[r] \in Runs, at[r] \in Files, Content(r) \in Checksums,
           pc[r] \notin {"failed", "idle"}, NEW t \in Txns, SetTxn(r, t),
           t.file = at[r], t.checksum = Content(r),
           \/ pc'[r] = "committing" /\ t.state = "committing" /\ t.row
           \/ /\ pc'[r] \in {"script", "insert", "commit"}
              /\ t.state = "active" /\ (t.row <=> pc'[r] = "commit"),
           t.row => /\ history[at[r]] = None
                    /\ \A s \in Runners, m \in Runs :
                           HasRow(s, m) /\ txn[s][m].file = at[r] => s = r /\ m = run[r]
    PROVE  MigrateIInv'
  <1> DEFINE n == run[r]
  <1>1. /\ txn'[r][n] = t
        /\ \A s \in Runners \ {r} : txn'[s] = txn[s]
        /\ \A m \in Runs \ {n} : txn'[r][m] = txn[r][m]
    BY TxnSet DEF MigrateIInv, MigrateTypeOK
  <1>2. KeyInv'
    <2>1. \A s \in Runners, m \in Runs :
              s # r \/ m # n => txn'[s][m] = txn[s][m] /\ (HasRow(s, m)' <=> HasRow(s, m))
      BY <1>1 DEF HasRow
    <2>2. HasRow(r, n)' => /\ txn'[r][n].file = at[r] /\ txn'[r][n].checksum \in Checksums
                           /\ t.row
      BY <1>1 DEF HasRow
    <2>3. txn'[r][n].state = "committing" => txn'[r][n].row
      BY <1>1
    <2>4. ASSUME NEW s \in Runners, NEW m \in Runs
          PROVE  /\ HasRow(s, m)' => /\ txn'[s][m].file \in Files
                                     /\ txn'[s][m].checksum \in Checksums
                                     /\ history'[txn'[s][m].file] = None
                 /\ txn'[s][m].state = "committing" => txn'[s][m].row
      <3>1. CASE s = r /\ m = n
        BY <2>2, <2>3, <3>1
      <3>2. CASE s # r \/ m # n
        BY <2>1, <3>2 DEF MigrateIInv, KeyInv
      <3> QED
        BY <3>1, <3>2
    <2>5. ASSUME NEW s \in Runners, NEW m \in Runs, NEW q \in Runners, NEW k \in Runs,
                 HasRow(s, m)', HasRow(q, k)', txn'[s][m].file = txn'[q][k].file
          PROVE  s = q /\ m = k
      BY <2>1, <2>2, <2>5 DEF MigrateIInv, KeyInv
    <2> QED
      BY <2>4, <2>5 DEF KeyInv
  <1>3. KnownInv'
    BY DEF MigrateIInv, KnownInv
  <1>4. ClientInv'
    <2>1. \A s \in Runners \ {r} :
              pc'[s] = pc[s] /\ at'[s] = at[s] /\ Content(s)' = Content(s) /\ Txn(s)' = Txn(s)
      BY <1>1 DEF Content, Txn, OthersUnchanged
    <2>2. Txn(r)' = t /\ at'[r] = at[r] /\ Content(r)' = Content(r)
      BY <1>1 DEF Txn, Content
    <2> QED
      BY <2>1, <2>2 DEF MigrateIInv, ClientInv, ThisFile
  <1>5. HistoryIsTrue' /\ ReturnedMeansMigrated'
    BY DEF MigrateIInv, HistoryIsTrue, ReturnedMeansMigrated, OthersUnchanged
  <1> QED
    BY <1>2, <1>3, <1>4, <1>5 DEF MigrateIInv

-----------------------------------------------------------------------------
(* The steps of a runner.                                                  *)

LEMMA RunnerStepInv ==
    ASSUME MigrateIInv, NEW r \in Runners,
           Runner(r) \/ Start(r) \/ TransactionFails(r) \/ Crashes(r)
    PROVE  MigrateIInv'
  <1> USE MigrateAssumption
  <1>t. /\ pc[r] \in PCs /\ run[r] \in 0..MaxRuns /\ (pc[r] # "idle" => run[r] \in Runs)
        /\ dir[r] \in [Files -> Contents] /\ known[r] \in [Files -> Contents]
        /\ at[r] \in 1..NumFiles + 1
    BY DEF MigrateIInv, MigrateTypeOK
  <1>k. /\ \A f \in Files : known[r][f] # None => history[f] = known[r][f]
        /\ pc[r] \notin {"idle", "failed"} =>
               \A f \in Files : f < at[r] /\ dir[r][f] # None => history[f] = dir[r][f]
    BY DEF MigrateIInv, KnownInv, ReturnedMeansMigrated
  <1>n. NoFiles \in [Files -> Contents] /\ (\A f \in Files : NoFiles[f] = None)
        /\ 1 \in 1..NumFiles + 1 /\ (\A f \in Files : ~(f < 1))
    BY DEF NoFiles, Contents, Files
  <1>1. CASE Start(r)
    <2>1. PICK d \in Directories : dir' = [dir EXCEPT ![r] = d]
      BY <1>1 DEF Start
    <2>2. /\ pc' = [pc EXCEPT ![r] = "ensure"] /\ run' = [run EXCEPT ![r] = run[r] + 1]
          /\ known' = [known EXCEPT ![r] = NoFiles] /\ at' = [at EXCEPT ![r] = 1]
          /\ UNCHANGED <<txn, table, history, effects>> /\ run[r] < MaxRuns
      BY <1>1 DEF Start, Goto, server
    <2>3. run' \in [Runners -> 0..MaxRuns] /\ run'[r] \in Runs
      BY <2>2, <1>t DEF Runs, MigrateIInv, MigrateTypeOK
    <2>4. dir' \in [Runners -> [Files -> Contents]] /\ d \in [Files -> Contents]
      BY <2>1 DEF MigrateIInv, MigrateTypeOK
    <2>5. MigrateTypeOK'
      BY <1>n, <2>2, <2>3, <2>4 DEF MigrateIInv, MigrateTypeOK, PCs
    <2>6. /\ OthersUnchanged(r) /\ pc'[r] = "ensure" /\ known'[r] = NoFiles /\ at'[r] = 1
          /\ UNCHANGED <<txn, history, effects>>
      BY <2>1, <2>2 DEF OthersUnchanged, MigrateIInv, MigrateTypeOK
    <2> QED
      BY <1>n, <2>5, <2>6, Quiet
  <1>2. ASSUME NEW to \in {"create", "read"}, pc[r] \in {"ensure", "create"},
               table' \in BOOLEAN, pc' = [pc EXCEPT ![r] = to],
               UNCHANGED <<run, dir, known, at, txn, history, effects>>
        PROVE  MigrateIInv'
    <2>1. MigrateTypeOK' /\ OthersUnchanged(r) /\ pc'[r] = to
      BY <1>2, <1>t DEF MigrateIInv, MigrateTypeOK, PCs, OthersUnchanged
    <2> QED
      BY <1>2, <1>k, <2>1, Quiet
  <1>3. CASE FindsHistory(r) \/ FindsNoHistory(r) \/ CreatesHistory(r)
    <2>1. table \in BOOLEAN
      BY DEF MigrateIInv, MigrateTypeOK
    <2> QED
      BY <1>2, <1>3, <2>1
      DEF FindsHistory, FindsNoHistory, CreatesHistory, Transition, Goto, server
  <1>4. CASE ReadsApplied(r)
    <2>1. /\ pc[r] = "read" /\ pc' = [pc EXCEPT ![r] = "loop"]
          /\ known' = [known EXCEPT ![r] = history]
          /\ UNCHANGED <<run, dir, at, txn, table, history, effects>>
      BY <1>4 DEF ReadsApplied, Transition, Goto, server
    <2>2. MigrateTypeOK' /\ OthersUnchanged(r) /\ pc'[r] = "loop" /\ known'[r] = history
      BY <2>1, <1>t DEF MigrateIInv, MigrateTypeOK, PCs, OthersUnchanged
    <2> QED
      BY <1>k, <2>1, <2>2, Quiet
  <1>5. CASE Skips(r)
    <2>1. /\ pc[r] = "loop" /\ at[r] \in Files /\ at' = [at EXCEPT ![r] = at[r] + 1]
          /\ dir[r][at[r]] = None \/ known[r][at[r]] = dir[r][at[r]]
          /\ UNCHANGED <<pc, run, dir, known, txn, table, history, effects>>
      BY <1>5 DEF Skips, NextFile, Content, server
    <2>2. at[r] + 1 \in 1..NumFiles + 1
      BY <2>1 DEF Files
    <2>3. MigrateTypeOK' /\ OthersUnchanged(r) /\ at'[r] = at[r] + 1
      BY <2>1, <2>2 DEF MigrateIInv, MigrateTypeOK, OthersUnchanged
    <2>4. \A f \in Files : f < at[r] + 1 /\ dir[r][f] # None => history[f] = dir[r][f]
      BY <2>1, <1>k, <1>t DEF Files
    <2> QED
      BY <1>k, <2>1, <2>3, <2>4, Quiet
  <1>6. CASE Returns(r)
    <2>1. /\ pc[r] = "loop" /\ pc' = [pc EXCEPT ![r] = "returned"] /\ at[r] \notin Files
          /\ UNCHANGED <<run, dir, known, at, txn, table, history, effects>>
      BY <1>6 DEF Returns, Transition, Goto, server
    <2>2. MigrateTypeOK' /\ OthersUnchanged(r) /\ pc'[r] = "returned"
      BY <2>1, <1>t DEF MigrateIInv, MigrateTypeOK, PCs, OthersUnchanged
    <2> QED
      BY <1>k, <2>1, <2>2, Quiet
  <1>7. ASSUME Fails(r), UNCHANGED server, pc[r] # "idle"
        PROVE  MigrateIInv'
    <2>1. Txn(r) \in Txns /\ SetTxn(r, Txn(r))
      BY <1>7, <1>t DEF MigrateIInv, MigrateTypeOK, Txn, SetTxn, server
    <2> QED
      BY <1>7, <1>t, <2>1, Failing DEF server
  <1>8. CASE CreateCollides(r) \/ RefusesChangedFile(r) \/ CommitFails(r)
    BY <1>7, <1>8 DEF CreateCollides, RefusesChangedFile, CommitFails
  <1>9. CASE InsertCollides(r) \/ TransactionFails(r)
    <2>1. RolledBack \in Txns /\ RolledBack.state \notin Open
      BY Settled DEF Open
    <2>2. /\ Fails(r) /\ SetTxn(r, RolledBack) /\ UNCHANGED <<table, history, effects>>
          /\ pc[r] # "idle"
      BY <1>9 DEF InsertCollides, TransactionFails
    <2> QED
      BY <1>t, <2>1, <2>2, Failing
  <1>10. CASE Crashes(r)
    <2> DEFINE t == [Txn(r) EXCEPT !.state = IF @ = "active" THEN "orphaned" ELSE @]
    <2>1. Txn(r) \in Txns /\ pc[r] # "idle"
      BY <1>10, <1>t DEF Crashes, MigrateIInv, MigrateTypeOK, Txn
    <2>2. t \in Txns
      BY <2>1 DEF Txns, States
    <2>3. \/ t = Txn(r)
          \/ Txn(r).state = "active" /\ t = [Txn(r) EXCEPT !.state = "orphaned"]
      <3>1. CASE Txn(r).state = "active"
        BY <3>1
      <3>2. CASE Txn(r).state # "active"
        BY <2>1, <3>2 DEF Txns
      <3> QED
        BY <3>1, <3>2
    <2>4. Fails(r) /\ SetTxn(r, t) /\ UNCHANGED <<table, history, effects>>
      BY <1>10 DEF Crashes
    <2> HIDE DEF t
    <2> QED
      BY <1>t, <2>1, <2>2, <2>3, <2>4, Failing
  <1>c. /\ pc[r] \in {"script", "insert", "commit"} =>
               /\ at[r] \in Files /\ Content(r) \in Checksums
               /\ Txn(r).state = "active" /\ Txn(r).file = at[r] /\ Txn(r).checksum = Content(r)
               /\ Txn(r).row <=> pc[r] = "commit"
        /\ Txn(r) = txn[r][run[r]] /\ Content(r) = dir[r][at[r]]
        /\ pc[r] # "idle" => Txn(r) \in Txns
    BY <1>t DEF MigrateIInv, MigrateTypeOK, ClientInv, ThisFile, Txn, Content
  <1>w. ASSUME NEW to \in PCs, pc[r] # "idle", pc' = [pc EXCEPT ![r] = to],
               NEW t \in Txns, SetTxn(r, t),
               UNCHANGED <<run, dir, known, at, table, history, effects>>
        PROVE  MigrateTypeOK' /\ OthersUnchanged(r) /\ pc'[r] = to
    <2>1. /\ txn' \in [Runners -> [Runs -> Txns]]
          /\ \A s \in Runners \ {r} : txn'[s] = txn[s]
      BY <1>w, <1>t, TxnSet DEF MigrateIInv, MigrateTypeOK
    <2> QED
      BY <1>w, <1>t, <2>1 DEF MigrateIInv, MigrateTypeOK, OthersUnchanged
  <1>11. CASE BeginsFile(r)
    <2> DEFINE t == [state |-> "active", file |-> at[r], checksum |-> Content(r), row |-> FALSE]
    <2>1. /\ pc[r] = "loop" /\ pc' = [pc EXCEPT ![r] = "script"]
          /\ at[r] \in Files /\ Content(r) # None /\ SetTxn(r, t)
          /\ UNCHANGED <<run, dir, known, at, table, history, effects>>
      BY <1>11 DEF BeginsFile, Transition, Goto
    <2>2. Content(r) \in Checksums
      BY <1>c, <1>t, <2>1 DEF Contents
    <2>3. t \in Txns /\ t.state = "active" /\ ~t.row /\ t.file = at[r] /\ t.checksum = Content(r)
      BY <2>1, <2>2 DEF Txns, States, Contents, Files
    <2> HIDE DEF t
    <2>4. MigrateTypeOK' /\ OthersUnchanged(r) /\ pc'[r] = "script"
      BY <2>1, <2>3, <1>w DEF PCs
    <2> QED
      BY <1>t, <2>1, <2>2, <2>3, <2>4, Within
  <1>12. CASE ScriptRuns(r)
    <2>1. /\ pc[r] = "script" /\ pc' = [pc EXCEPT ![r] = "insert"]
          /\ UNCHANGED <<run, dir, known, at, txn, table, history, effects>>
      BY <1>12 DEF ScriptRuns, Transition, Goto, server
    <2>2. SetTxn(r, Txn(r))
      BY <1>c, <1>t, <2>1 DEF SetTxn, MigrateIInv, MigrateTypeOK
    <2>3. MigrateTypeOK' /\ OthersUnchanged(r) /\ pc'[r] = "insert"
      BY <1>c, <2>1, <2>2, <1>w DEF PCs
    <2> QED
      BY <1>t, <1>c, <2>1, <2>2, <2>3, Within
  <1>13. CASE InsertsHistory(r)
    <2> DEFINE t == [Txn(r) EXCEPT !.row = TRUE]
    <2>1. /\ pc[r] = "insert" /\ pc' = [pc EXCEPT ![r] = "commit"] /\ SetTxn(r, t)
          /\ history[at[r]] = None /\ ~RowIsLocked(at[r])
          /\ UNCHANGED <<run, dir, known, at, table, history, effects>>
      BY <1>13 DEF InsertsHistory, Transition, Goto
    <2>2. t \in Txns /\ t.state = "active" /\ t.row /\ t.file = at[r] /\ t.checksum = Content(r)
      BY <1>c, <2>1 DEF Txns
    <2>3. \A s \in Runners, m \in Runs : ~(HasRow(s, m) /\ txn[s][m].file = at[r])
      BY <2>1 DEF RowIsLocked, HasRow, Open
    <2> HIDE DEF t
    <2>4. MigrateTypeOK' /\ OthersUnchanged(r) /\ pc'[r] = "commit"
      BY <2>1, <2>2, <1>w DEF PCs
    <2> QED
      BY <1>t, <1>c, <2>1, <2>2, <2>3, <2>4, Within
  <1>14. CASE SendsCommit(r)
    <2> DEFINE t == [Txn(r) EXCEPT !.state = "committing"]
    <2>1. /\ pc[r] = "commit" /\ pc' = [pc EXCEPT ![r] = "committing"] /\ SetTxn(r, t)
          /\ UNCHANGED <<run, dir, known, at, table, history, effects>>
      BY <1>14 DEF SendsCommit, Transition, Goto
    <2>2. t \in Txns /\ t.state = "committing" /\ t.row /\ t.file = at[r] /\ t.checksum = Content(r)
      BY <1>c, <2>1 DEF Txns, States
    <2>3. HasRow(r, run[r]) /\ txn[r][run[r]].file = at[r]
      BY <1>c, <2>1 DEF HasRow, Open
    <2>4. /\ history[at[r]] = None
          /\ \A s \in Runners, m \in Runs :
                 HasRow(s, m) /\ txn[s][m].file = at[r] => s = r /\ m = run[r]
      BY <1>t, <2>1, <2>3 DEF MigrateIInv, KeyInv
    <2> HIDE DEF t
    <2>5. MigrateTypeOK' /\ OthersUnchanged(r) /\ pc'[r] = "committing"
      BY <2>1, <2>2, <1>w DEF PCs
    <2> QED
      BY <1>t, <1>c, <2>1, <2>2, <2>4, <2>5, Within
  <1>15. CASE CommitSucceeds(r)
    <2>1. /\ pc[r] = "committing" /\ pc' = [pc EXCEPT ![r] = "loop"]
          /\ Txn(r).state = "committed" /\ at' = [at EXCEPT ![r] = at[r] + 1]
          /\ UNCHANGED <<run, dir, known, txn, table, history, effects>>
      BY <1>15 DEF CommitSucceeds, NextFile, Transition, Goto, server
    <2>2. at[r] \in Files /\ history[at[r]] = dir[r][at[r]]
      BY <2>1, <1>c DEF MigrateIInv, ClientInv
    <2>3. at[r] + 1 \in 1..NumFiles + 1
      BY <2>2 DEF Files
    <2>4. \A f \in Files : f < at[r] + 1 /\ dir[r][f] # None => history[f] = dir[r][f]
      BY <1>k, <1>t, <2>1, <2>2 DEF Files
    <2>5. MigrateTypeOK' /\ OthersUnchanged(r) /\ pc'[r] = "loop" /\ at'[r] = at[r] + 1
      BY <2>1, <2>3 DEF MigrateIInv, MigrateTypeOK, PCs, OthersUnchanged
    <2> QED
      BY <1>k, <2>1, <2>4, <2>5, Quiet
  <1> QED
    BY <1>1, <1>3, <1>4, <1>5, <1>6, <1>8, <1>9, <1>10, <1>11, <1>12, <1>13, <1>14, <1>15
    DEF Runner

-----------------------------------------------------------------------------
(* The steps of SQL Server.                                                *)

LEMMA ServerStepInv ==
    ASSUME MigrateIInv, NEW r \in Runners, NEW n \in Runs, Server(r, n)
    PROVE  MigrateIInv'
  <1> USE MigrateAssumption
  <1>t. txn \in [Runners -> [Runs -> Txns]] /\ txn[r][n] \in Txns
    BY DEF MigrateIInv, MigrateTypeOK
  <1>1. CASE ServerRollsBack(r, n)
    <2>1. /\ txn' = [txn EXCEPT ![r][n] = RolledBack] /\ txn[r][n].state \in {"orphaned", "committing"}
          /\ UNCHANGED <<pc, run, dir, known, at, table, history, effects>>
      BY <1>1 DEF ServerRollsBack
    <2>2. RolledBack \in Txns /\ RolledBack.state = "rolledback"
      BY Settled
    <2>3. /\ txn' \in [Runners -> [Runs -> Txns]] /\ txn'[r][n] = RolledBack
          /\ \A s \in Runners \ {r} : txn'[s] = txn[s]
          /\ \A m \in Runs \ {n} : txn'[r][m] = txn[r][m]
      BY <1>t, <2>1, <2>2
    <2>4. MigrateTypeOK'
      BY <2>1, <2>3 DEF MigrateIInv, MigrateTypeOK
    <2>5. \A s \in Runners, m \in Runs :
              /\ HasRow(s, m)' => HasRow(s, m) /\ txn'[s][m] = txn[s][m]
              /\ txn'[s][m].state = "committing" => txn'[s][m] = txn[s][m]
      BY <2>2, <2>3 DEF HasRow, Open
    <2>6. KeyInv'
      BY <2>1, <2>5 DEF MigrateIInv, KeyInv
    <2>7. ClientInv'
      <3>1. ASSUME NEW s \in Runners, Txn(s)' # Txn(s), pc[s] # "idle"
            PROVE  s = r /\ run[r] = n /\ Txn(r)' = RolledBack /\ Txn(r) = txn[r][n]
        BY <2>1, <2>3, <3>1 DEF Txn, MigrateIInv, MigrateTypeOK
      <3>2. \A s \in Runners : Content(s)' = Content(s)
        BY <2>1 DEF Content
      <3> QED
        BY <2>1, <2>2, <3>1, <3>2 DEF MigrateIInv, ClientInv, ThisFile
    <2>8. KnownInv' /\ HistoryIsTrue' /\ ReturnedMeansMigrated'
      BY <2>1 DEF MigrateIInv, KnownInv, HistoryIsTrue, ReturnedMeansMigrated
    <2> QED
      BY <2>4, <2>6, <2>7, <2>8 DEF MigrateIInv
  <1>2. CASE ServerCommits(r, n)
    <2> DEFINE t == txn[r][n]
               f == txn[r][n].file
               c == txn[r][n].checksum
               e == [by |-> r, run |-> n, file |-> f, checksum |-> c]
    <2>1. /\ t.state = "committing"
          /\ txn' = [txn EXCEPT ![r][n] = [t EXCEPT !.state = "committed"]]
          /\ effects' = effects \union {e}
          /\ history' = [history EXCEPT ![f] = c]
          /\ UNCHANGED <<pc, run, dir, known, at, table>>
      BY <1>2, <1>t DEF ServerCommits
    <2>2. /\ f \in Files /\ c \in Checksums /\ history[f] = None /\ c # None
          /\ \A s \in Runners, m \in Runs : HasRow(s, m) /\ txn[s][m].file = f => s = r /\ m = n
      BY <2>1 DEF MigrateIInv, KeyInv, HasRow, Open
    <2>3. /\ txn' \in [Runners -> [Runs -> Txns]]
          /\ txn'[r][n].state = "committed" /\ txn'[r][n].file = f /\ txn'[r][n].checksum = c
          /\ \A s \in Runners \ {r} : txn'[s] = txn[s]
          /\ \A m \in Runs \ {n} : txn'[r][m] = txn[r][m]
      BY <1>t, <2>1 DEF Txns, States
    <2>4. /\ history' \in [Files -> Contents] /\ history'[f] = c
          /\ \A g \in Files \ {f} : history'[g] = history[g]
      BY <2>1, <2>2 DEF MigrateIInv, MigrateTypeOK, Contents
    <2>5. MigrateTypeOK'
      BY <2>1, <2>2, <2>3, <2>4 DEF MigrateIInv, MigrateTypeOK, Effects
    <2>6. KeyInv'
      <3>1. \A s \in Runners, m \in Runs :
                /\ HasRow(s, m)' => HasRow(s, m) /\ txn'[s][m] = txn[s][m] /\ txn[s][m].file # f
                /\ txn'[s][m].state = "committing" => txn'[s][m] = txn[s][m]
        BY <2>2, <2>3 DEF HasRow, Open
      <3> QED
        BY <2>4, <3>1 DEF MigrateIInv, KeyInv
    <2>7. \A g \in Files : history[g] # None => history'[g] = history[g]
      BY <2>2, <2>4
    <2>8. KnownInv'
      BY <2>1, <2>7 DEF MigrateIInv, KnownInv
    <2>9. ReturnedMeansMigrated'
      BY <2>1, <2>7 DEF MigrateIInv, ReturnedMeansMigrated
    <2>10. ClientInv'
      <3>1. ASSUME NEW s \in Runners, s # r \/ run[s] # n, pc[s] # "idle"
            PROVE  Txn(s)' = Txn(s)
        BY <2>1, <2>3, <3>1 DEF Txn, MigrateIInv, MigrateTypeOK
      <3>2. ASSUME run[r] = n
            PROVE  /\ Txn(r)'.state = "committed" /\ Txn(r)'.file = f /\ Txn(r)'.checksum = c
                   /\ Txn(r).state = "committing" /\ Txn(r).file = f /\ Txn(r).checksum = c
        BY <2>1, <2>3, <3>2 DEF Txn
      <3>3. \A s \in Runners : Content(s)' = Content(s)
        BY <2>1 DEF Content
      <3>4. \A s \in Runners :
                at[s] \in Files /\ Content(s) \in Checksums /\ history[at[s]] = Content(s)
                    => history'[at[s]] = Content(s)
        BY <2>7
      <3>5. ASSUME NEW s \in Runners, s # r \/ run[s] # n
            PROVE  /\ pc[s] \in {"script", "insert", "commit"} =>
                          /\ at[s] \in Files /\ Content(s) \in Checksums
                          /\ Txn(s)'.state = "active" /\ ThisFile(s)'
                          /\ Txn(s)'.row <=> pc[s] = "commit"
                   /\ pc[s] = "committing" =>
                          /\ at[s] \in Files /\ Content(s) \in Checksums
                          /\ Txn(s)'.state \in {"committing", "committed", "rolledback"}
                          /\ Txn(s)'.state # "rolledback" => ThisFile(s)'
                          /\ Txn(s)'.state = "committed" => history'[at[s]] = Content(s)
                   /\ pc[s] = "returned" => at[s] \notin Files
        BY <2>1, <3>1, <3>3, <3>4, <3>5 DEF MigrateIInv, ClientInv, ThisFile
      <3>6. ASSUME run[r] = n
            PROVE  /\ pc[r] \notin {"script", "insert", "commit"}
                   /\ pc[r] = "committing" =>
                          /\ at[r] \in Files /\ Content(r) \in Checksums
                          /\ Txn(r)'.state = "committed" /\ ThisFile(r)'
                          /\ history'[at[r]] = Content(r)
                   /\ pc[r] = "returned" => at[r] \notin Files
        BY <2>1, <2>4, <3>2, <3>3, <3>6 DEF MigrateIInv, ClientInv, ThisFile
      <3> QED
        BY <2>1, <3>3, <3>5, <3>6 DEF ClientInv
    <2>11. HistoryIsTrue'
      <3>1. ASSUME NEW d \in effects PROVE d.file # f
        <4>1. d.checksum \in Checksums
          BY DEF MigrateIInv, MigrateTypeOK, Effects
        <4>2. d.file = f => history[f] = d.checksum
          BY <2>2, <4>1 DEF MigrateIInv, HistoryIsTrue
        <4> QED
          BY <2>2, <4>1, <4>2
      <3>2. e.file = f /\ e.checksum = c
        OBVIOUS
      <3>3. \A d, d2 \in effects' : d.file = d2.file => d = d2
        BY <2>1, <3>1, <3>2 DEF MigrateIInv, HistoryIsTrue
      <3>4. ASSUME NEW g \in Files, NEW x \in Checksums
            PROVE  history'[g] = x <=> \E d \in effects' : d.file = g /\ d.checksum = x
        <4>1. CASE g = f
          BY <2>1, <2>4, <3>1, <3>2, <4>1
        <4>2. CASE g # f
          BY <2>1, <2>4, <3>2, <4>2 DEF MigrateIInv, HistoryIsTrue
        <4> QED
          BY <4>1, <4>2
      <3> QED
        BY <3>3, <3>4 DEF HistoryIsTrue
    <2> QED
      BY <2>5, <2>6, <2>8, <2>9, <2>10, <2>11 DEF MigrateIInv
  <1> QED
    BY <1>1, <1>2 DEF Server

-----------------------------------------------------------------------------
LEMMA MigrateStepInv == MigrateIInv /\ [Next]_vars => MigrateIInv'
  <1>1. ASSUME MigrateIInv, UNCHANGED vars PROVE MigrateIInv'
    BY <1>1
    DEF vars, server, MigrateIInv, MigrateTypeOK, KeyInv, HasRow, KnownInv, ClientInv, ThisFile,
        Txn, Content, HistoryIsTrue, ReturnedMeansMigrated
  <1> QED
    BY <1>1, RunnerStepInv, ServerStepInv DEF Next

LEMMA MigrateInvariance == Spec => []MigrateIInv
  BY MigrateInitInv, MigrateStepInv, PTL DEF Spec

\* For any number of runners and restarts, and releases of any files: a file takes
\* effect at most once, and its row is there exactly when it did.
THEOREM TrueHistory == Spec => []HistoryIsTrue
  <1>1. MigrateIInv => HistoryIsTrue
    BY DEF MigrateIInv
  <1> QED
    BY <1>1, MigrateInvariance, PTL

\* A run that returns left the database with every file of its directory, and
\* none was applied before those in front of it.
THEOREM ReturnsMigrated == Spec => []ReturnedMeansMigrated
  <1>1. MigrateIInv => ReturnedMeansMigrated
    BY DEF MigrateIInv
  <1> QED
    BY <1>1, MigrateInvariance, PTL
=============================================================================
