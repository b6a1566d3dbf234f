------------------------------- MODULE Migrate -------------------------------
(***************************************************************************)
(* run_migrations (tools/migrate.py): runners that start at any time, on   *)
(* schema directories that need not be the same, apply the files that the  *)
(* history does not have, one transaction for each.  Nothing keeps two     *)
(* runners apart but the primary key of the history.                       *)
(*                                                                         *)
(* A runner may crash or lose its connection anywhere, and is started      *)
(* again; SQL Server may only later notice, or carry out the commit that   *)
(* was in flight.                                                          *)
(***************************************************************************)
EXTENDS Naturals, FiniteSets

CONSTANTS Runners,
          NumFiles,     \* file names, in their sorted order
          Checksums,    \* what a file may contain
          None,         \* no file of that name, or no row in the history
          Directories,  \* the directories that are deployed
          MaxRuns       \* how often each runner is started

Files == 1..NumFiles
Runs == 1..MaxRuns
Contents == Checksums \union {None}

ASSUME MigrateAssumption ==
    /\ NumFiles \in Nat /\ MaxRuns \in Nat
    /\ None \notin Checksums
    /\ Directories \subseteq [Files -> Contents]

VARIABLES pc,
          run,      \* number of the runner's current run, 0 before the first
          dir,      \* the directory it applies: the checksum of each file
          known,    \* `applied`: the history as the run read it
          at,       \* the file the loop is at
          txn,      \* the server's side of each run's last transaction
          table,    \* schema_migrations exists
          history,  \* its committed rows
          effects   \* the scripts whose effects are in the database

server == <<txn, table, history, effects>>
vars == <<pc, run, dir, known, at, server>>

NoFiles == [f \in Files |-> None]
NoTxn == [state |-> "none", file |-> 0, checksum |-> None, row |-> FALSE]
RolledBack == [NoTxn EXCEPT !.state = "rolledback"]

Init == /\ pc = [r \in Runners |-> "idle"]
        /\ run = [r \in Runners |-> 0]
        /\ dir = [r \in Runners |-> NoFiles]
        /\ known = [r \in Runners |-> NoFiles]
        /\ at = [r \in Runners |-> 1]
        /\ txn = [r \in Runners |-> [n \in Runs |-> NoTxn]]
        /\ table = FALSE
        /\ history = NoFiles
        /\ effects = {}

Goto(r, to) == pc' = [pc EXCEPT ![r] = to]
Transition(r, from, to) == pc[r] = from /\ Goto(r, to)

\* A run that raises: its variables are gone.
Fails(r) ==
    /\ Goto(r, "failed")
    /\ dir' = [dir EXCEPT ![r] = NoFiles]
    /\ known' = [known EXCEPT ![r] = NoFiles]
    /\ at' = [at EXCEPT ![r] = 1]
    /\ UNCHANGED run

Content(r) == dir[r][at[r]]
Txn(r) == txn[r][run[r]]
SetTxn(r, t) == txn' = [txn EXCEPT ![r][run[r]] = t]

-----------------------------------------------------------------------------
(* The history, and the snapshot of it.                                    *)

Start(r) ==
    /\ pc[r] \in {"idle", "failed", "returned"} /\ run[r] < MaxRuns
    /\ Goto(r, "ensure")
    /\ run' = [run EXCEPT ![r] = @ + 1]
    /\ \E d \in Directories : dir' = [dir EXCEPT ![r] = d]
    /\ known' = [known EXCEPT ![r] = NoFiles]
    /\ at' = [at EXCEPT ![r] = 1]
    /\ UNCHANGED server

FindsHistory(r) ==
    /\ Transition(r, "ensure", "read")
    /\ table
    /\ UNCHANGED <<run, dir, known, at, server>>

FindsNoHistory(r) ==
    /\ Transition(r, "ensure", "create")
    /\ ~table
    /\ UNCHANGED <<run, dir, known, at, server>>

CreatesHistory(r) ==
    /\ Transition(r, "create", "read")
    /\ ~table /\ table' = TRUE
    /\ UNCHANGED <<run, dir, known, at, txn, history, effects>>

\* Another runner created the table since checkfirst looked.
CreateCollides(r) ==
    /\ pc[r] = "create" /\ table
    /\ Fails(r)
    /\ UNCHANGED server

ReadsApplied(r) ==
    /\ Transition(r, "read", "loop")
    /\ known' = [known EXCEPT ![r] = history]
    /\ UNCHANGED <<run, dir, at, server>>

-----------------------------------------------------------------------------
(* The loop over the sorted files.                                         *)

NextFile(r) == at' = [at EXCEPT ![r] = @ + 1]

\* Faulty variant: a file is known by its name alone.
SkipsName(r) ==
    /\ pc[r] = "loop" /\ at[r] \in Files
    /\ Content(r) = None \/ known[r][at[r]] # None
    /\ NextFile(r)
    /\ UNCHANGED <<pc, run, dir, known, server>>

\* There is no file of this name, or it was applied as it is.
Skips(r) ==
    /\ pc[r] = "loop" /\ at[r] \in Files
    /\ Content(r) = None \/ known[r][at[r]] = Content(r)
    /\ NextFile(r)
    /\ UNCHANGED <<pc, run, dir, known, server>>

RefusesChangedFile(r) ==
    /\ pc[r] = "loop" /\ at[r] \in Files /\ Content(r) # None
    /\ known[r][at[r]] \notin {None, Content(r)}
    /\ Fails(r)
    /\ UNCHANGED server

BeginsFile(r) ==
    /\ Transition(r, "loop", "script")
    /\ at[r] \in Files /\ Content(r) # None
    /\ known[r][at[r]] = None
    /\ SetTxn(r, [state |-> "active", file |-> at[r], checksum |-> Content(r), row |-> FALSE])
    /\ UNCHANGED <<run, dir, known, at, table, history, effects>>

Returns(r) ==
    /\ Transition(r, "loop", "returned")
    /\ at[r] \notin Files
    /\ UNCHANGED <<run, dir, known, at, server>>

\* All batches of the script ran and every result was read.
ScriptRuns(r) ==
    /\ Transition(r, "script", "insert")
    /\ UNCHANGED <<run, dir, known, at, server>>

\* An insert of a primary key that an open transaction inserted has to wait.
RowIsLocked(f) ==
    \E r \in Runners, n \in Runs :
        /\ txn[r][n].state \in {"active", "orphaned", "committing"}
        /\ txn[r][n].row /\ txn[r][n].file = f

\* Faulty variant: a row that is there already is taken for the runner's own.
InsertsUnlessThere(r) ==
    /\ Transition(r, "insert", "commit")
    /\ ~RowIsLocked(at[r])
    /\ SetTxn(r, [Txn(r) EXCEPT !.row = TRUE])
    /\ UNCHANGED <<run, dir, known, at, table, history, effects>>

InsertsHistory(r) ==
    /\ Transition(r, "insert", "commit")
    /\ ~RowIsLocked(at[r]) /\ history[at[r]] = None
    /\ SetTxn(r, [Txn(r) EXCEPT !.row = TRUE])
    /\ UNCHANGED <<run, dir, known, at, table, history, effects>>

\* Faulty variant: the file is tried again, with the history as it was read.
StartsFileOver(r) ==
    /\ Transition(r, "insert", "script")
    /\ ~RowIsLocked(at[r]) /\ history[at[r]] # None
    /\ SetTxn(r, [Txn(r) EXCEPT !.row = FALSE])
    /\ UNCHANGED <<run, dir, known, at, table, history, effects>>

\* Another runner has applied a file of this name since `applied` was read.
InsertCollides(r) ==
    /\ pc[r] = "insert" /\ ~RowIsLocked(at[r]) /\ history[at[r]] # None
    /\ SetTxn(r, RolledBack)
    /\ Fails(r)
    /\ UNCHANGED <<table, history, effects>>

\* A statement is rejected, which is rolled back.
TransactionFails(r) ==
    /\ pc[r] \in {"script", "insert"}
    /\ SetTxn(r, RolledBack)
    /\ Fails(r)
    /\ UNCHANGED <<table, history, effects>>

SendsCommit(r) ==
    /\ Transition(r, "commit", "committing")
    /\ SetTxn(r, [Txn(r) EXCEPT !.state = "committing"])
    /\ UNCHANGED <<run, dir, known, at, table, history, effects>>

CommitSucceeds(r) ==
    /\ Transition(r, "committing", "loop")
    /\ Txn(r).state = "committed"
    /\ NextFile(r)
    /\ UNCHANGED <<run, dir, known, server>>

\* The process dies, or the connection is lost, at any point.
Crashes(r) ==
    /\ pc[r] \notin {"idle", "failed", "returned"}
    /\ SetTxn(r, [Txn(r) EXCEPT !.state = IF @ = "active" THEN "orphaned" ELSE @])
    /\ Fails(r)
    /\ UNCHANGED <<table, history, effects>>

-----------------------------------------------------------------------------
(* SQL Server.                                                             *)

ServerCommits(r, n) ==
    LET t == txn[r][n] IN
    /\ t.state = "committing"
    /\ txn' = [txn EXCEPT ![r][n].state = "committed"]
    /\ effects' = effects \union {[by |-> r, run |-> n, file |-> t.file, checksum |-> t.checksum]}
    /\ history' = [history EXCEPT ![t.file] = t.checksum]
    /\ UNCHANGED <<pc, run, dir, known, at, table>>

\* A commit that never arrived, or a transaction whose client is gone.
ServerRollsBack(r, n) ==
    /\ txn[r][n].state \in {"orphaned", "committing"}
    /\ txn' = [txn EXCEPT ![r][n] = RolledBack]
    /\ UNCHANGED <<pc, run, dir, known, at, table, history, effects>>

CommitFails(r) ==
    /\ pc[r] = "committing" /\ Txn(r).state = "rolledback"
    /\ Fails(r)
    /\ UNCHANGED server

-----------------------------------------------------------------------------
Runner(r) ==
    \/ FindsHistory(r) \/ FindsNoHistory(r) \/ CreatesHistory(r) \/ CreateCollides(r)
    \/ ReadsApplied(r)
    \/ Skips(r) \/ RefusesChangedFile(r) \/ BeginsFile(r) \/ Returns(r)
    \/ ScriptRuns(r) \/ InsertsHistory(r) \/ InsertCollides(r)
    \/ SendsCommit(r) \/ CommitSucceeds(r) \/ CommitFails(r)

Server(r, n) == ServerCommits(r, n) \/ ServerRollsBack(r, n)

Next ==
    \E r \in Runners :
        \/ Runner(r) \/ Start(r) \/ TransactionFails(r) \/ Crashes(r)
        \/ \E n \in Runs : Server(r, n)

Spec == Init /\ [][Next]_vars

\* A runner keeps going, and SQL Server settles every transaction.  Nobody has
\* to start a runner, and nothing has to fail.
FairSpec == /\ Spec
            /\ \A r \in Runners : WF_vars(Runner(r))
            /\ \A r \in Runners : \A n \in Runs : WF_vars(Server(r, n))

-----------------------------------------------------------------------------
(* Properties.                                                             *)

\* Whatever runners, crashes, late commits and changed files there were: a row
\* is in the history exactly when the effects of that very content are in the
\* database, and no file has taken effect twice.
HistoryIsTrue ==
    /\ \A f \in Files, c \in Checksums :
           history[f] = c <=> \E e \in effects : e.file = f /\ e.checksum = c
    /\ \A d, e \in effects : d.file = e.file => d = e

\* A run that returns has every file of its directory applied as it is there, and
\* no file takes effect before those that sort before it in its directory.
ReturnedMeansMigrated ==
    \A r \in Runners :
        pc[r] \notin {"idle", "failed"} =>
            \A f \in Files :
                (f < at[r] /\ dir[r][f] # None) => history[f] = dir[r][f]

\* Every run ends, whoever holds a row it waits for.
EveryRunEnds == \A r \in Runners : (pc[r] = "ensure") ~> (pc[r] \in {"failed", "returned"})
=============================================================================
