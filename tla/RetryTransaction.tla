--------------------------- MODULE RetryTransaction ---------------------------
(***************************************************************************)
(* retry_on_transient_conflict (core/db.py): a decorated write runs in a   *)
(* transaction of its own, is rolled back when it raises, and runs again,  *)
(* at most MaxAttempts times, after a failure that certainly left nothing  *)
(* behind.                                                                 *)
(*                                                                         *)
(* The client (the decorator, SQLAlchemy and pyodbc) and SQL Server are    *)
(* separate: txn holds what the SERVER did with each attempt, and the      *)
(* client learns of it only through replies and failures.  A connection    *)
(* can drop at any point, the server may notice only later, and a commit   *)
(* request in flight may be carried out after the client gave up on it.    *)
(***************************************************************************)
EXTENDS SqlErrors

CONSTANTS Calls,        \* decorated calls, each with its own Session
          MaxAttempts,  \* stop_after_attempt
          HiddenKills   \* calls that leave result sets unread, see KillMidResults

ASSUME MaxAttemptsAssumption == MaxAttempts \in Nat \ {0}
ASSUME HiddenKillsAssumption == HiddenKills \subseteq Calls

VARIABLES pc,        \* where each call is
          sessions,  \* how many Session arguments it was given
          inTx,      \* session.in_transaction()
          attempt,   \* number of the current attempt, 0 before the first
          raised,    \* the exception being handled, or the one it ended with
          txn        \* the server's side of each attempt's transaction

vars == <<pc, sessions, inTx, attempt, raised, txn>>

Attempts == 1..MaxAttempts

PCs == {"call", "begin", "body", "committing", "rollback", "decide", "done"}

(***************************************************************************)
(* "orphaned": the client's connection is gone, or given up, and the       *)
(* server has not noticed: the transaction and its locks are still there;  *)
(* "killed": the server ended the session and the client has not noticed;  *)
(* "hidden": the same, and the driver took it for the end of the results;  *)
(* "committing": a commit request was sent and is not yet carried out.     *)
(***************************************************************************)
TxnStates == {"none", "active", "orphaned", "killed", "hidden",
              "committing", "committed", "rolledback"}

Init == /\ pc = [c \in Calls |-> "call"]
        /\ sessions \in [Calls -> 0..2]
        /\ inTx \in [Calls -> BOOLEAN]
        /\ attempt = [c \in Calls |-> 0]
        /\ raised = [c \in Calls |-> NoException]
        /\ txn = [c \in Calls |-> [a \in Attempts |-> "none"]]

Txn(c) == txn[c][attempt[c]]
SetTxn(c, a, state) == txn' = [txn EXCEPT ![c][a] = state]
Disconnected(state) == IF state = "active" THEN "orphaned" ELSE state

Transition(c, from, to) == pc[c] = from /\ pc' = [pc EXCEPT ![c] = to]

Raise(c, exc) == raised' = [raised EXCEPT ![c] = exc]

-----------------------------------------------------------------------------
(* The wrapper: _transaction_session checks the arguments, and every       *)
(* attempt is one `with session.begin()`.                                  *)

WrongSessionCount(c) ==
    /\ Transition(c, "call", "done")
    /\ sessions[c] # 1
    /\ Raise(c, OtherException("TypeError"))
    /\ UNCHANGED <<sessions, inTx, attempt, txn>>

AlreadyInTransaction(c) ==
    /\ Transition(c, "call", "done")
    /\ sessions[c] = 1 /\ inTx[c]
    /\ Raise(c, OtherException("RuntimeError"))
    /\ UNCHANGED <<sessions, inTx, attempt, txn>>

Accept(c) ==
    /\ Transition(c, "call", "begin")
    /\ sessions[c] = 1 /\ ~inTx[c]
    /\ UNCHANGED <<sessions, inTx, attempt, raised, txn>>

Begin(c) ==
    /\ Transition(c, "begin", "body")
    /\ attempt' = [attempt EXCEPT ![c] = @ + 1]
    /\ inTx' = [inTx EXCEPT ![c] = TRUE]
    /\ Raise(c, NoException)
    /\ UNCHANGED <<sessions, txn>>

-----------------------------------------------------------------------------
(* The decorated function: any number of statements, of which the first    *)
(* checks a connection out and opens the server's transaction.             *)

StatementSucceeds(c) ==
    /\ pc[c] = "body" /\ Txn(c) \in {"none", "active"}
    /\ SetTxn(c, attempt[c], "active")
    /\ UNCHANGED <<pc, sessions, inTx, attempt, raised>>

\* The server answers with an error.  A deadlock or a snapshot conflict ends the
\* whole transaction.  A lock timeout does not, but SQLAlchemy takes it for a lost
\* connection and closes that, and the server unwinds the session afterwards.
StatementRejected(c, driver) ==
    /\ Transition(c, "body", "rollback")
    /\ Txn(c) \in {"none", "active"}
    /\ Raise(c, Raised(driver))
    /\ SetTxn(c, attempt[c],
              IF driver \in {Deadlock, RcsiConflict} THEN "rolledback"
              ELSE IF Raised(driver).invalidated THEN "orphaned" ELSE "active")
    /\ UNCHANGED <<sessions, inTx, attempt>>

CannotConnect(c) ==
    /\ Transition(c, "body", "rollback")
    /\ Txn(c) = "none"
    /\ Raise(c, Raised(LostConnecting))
    /\ UNCHANGED <<sessions, inTx, attempt, txn>>

\* The connection drops; the server keeps the transaction until it notices.
ConnectionLost(c, driver) ==
    /\ Transition(c, "body", "rollback")
    /\ Txn(c) \in {"active", "killed", "hidden"}
    /\ driver = TerminatedByServer => Txn(c) = "killed"
    /\ Raise(c, Raised(driver))
    /\ SetTxn(c, attempt[c], Disconnected(Txn(c)))
    /\ UNCHANGED <<sessions, inTx, attempt>>

\* Faulty variant: the transaction is committed even if the function raises.
CommitDespiteException(c) ==
    /\ Transition(c, "body", "committing")
    /\ Raise(c, OtherException("Exception"))
    /\ SetTxn(c, attempt[c], IF Txn(c) = "active" THEN "committing" ELSE Txn(c))
    /\ UNCHANGED <<sessions, inTx, attempt>>

FunctionRaises(c) ==
    /\ Transition(c, "body", "rollback")
    /\ Raise(c, OtherException("Exception"))
    /\ UNCHANGED <<sessions, inTx, attempt, txn>>

\* The function returns and the context manager asks for the commit.  A write
\* has executed a statement by then: the flush in commit is the last one.
FunctionReturns(c) ==
    /\ Transition(c, "body", "committing")
    /\ Txn(c) \in {"active", "killed", "hidden"}
    /\ SetTxn(c, attempt[c], IF Txn(c) = "active" THEN "committing" ELSE Txn(c))
    /\ UNCHANGED <<sessions, inTx, attempt, raised>>

-----------------------------------------------------------------------------
(* The end of the transaction.                                             *)

CommitSucceeds(c) ==
    /\ Transition(c, "committing", "done")
    /\ Txn(c) \in {"committed", "hidden"}
    /\ inTx' = [inTx EXCEPT ![c] = FALSE]
    /\ UNCHANGED <<sessions, attempt, raised, txn>>

\* Wherever the request got to, the client only sees the connection go.
CommitFails(c) ==
    /\ Transition(c, "committing", "rollback")
    /\ Raise(c, Raised(LostEndingTran))
    /\ UNCHANGED <<sessions, inTx, attempt, txn>>

\* SQLAlchemy sends nothing over an invalidated connection, or over none.
RollbackWithoutServer(c) ==
    /\ Transition(c, "rollback", "decide")
    /\ raised[c].invalidated \/ Txn(c) = "none"
    /\ inTx' = [inTx EXCEPT ![c] = FALSE]
    /\ UNCHANGED <<sessions, attempt, raised, txn>>

\* Faulty variant: the session forgets its transaction, the server does not.
RollbackForgotten(c) ==
    /\ Transition(c, "rollback", "decide")
    /\ ~raised[c].invalidated /\ Txn(c) \in {"active", "hidden", "rolledback"}
    /\ inTx' = [inTx EXCEPT ![c] = FALSE]
    /\ UNCHANGED <<sessions, attempt, raised, txn>>

RollbackSucceeds(c) ==
    /\ Transition(c, "rollback", "decide")
    /\ ~raised[c].invalidated /\ Txn(c) \in {"active", "hidden", "rolledback"}
    /\ inTx' = [inTx EXCEPT ![c] = FALSE]
    /\ SetTxn(c, attempt[c], "rolledback")
    /\ UNCHANGED <<sessions, attempt, raised>>

\* The failure to roll back replaces the exception that asked for it.
RollbackFails(c) ==
    /\ Transition(c, "rollback", "decide")
    /\ ~raised[c].invalidated /\ Txn(c) # "none"
    /\ inTx' = [inTx EXCEPT ![c] = FALSE]
    /\ Raise(c, Raised(LostEndingTran))
    /\ SetTxn(c, attempt[c], Disconnected(Txn(c)))
    /\ UNCHANGED <<sessions, attempt>>

-----------------------------------------------------------------------------
(* tenacity: retry_if_exception, stop_after_attempt, reraise.              *)

\* Faulty variants: one attempt too many, and a retry whatever was raised.
RetryOnceMore(c) ==
    /\ Transition(c, "decide", "begin")
    /\ IsTransientConflict(raised[c]) /\ attempt[c] <= MaxAttempts
    /\ UNCHANGED <<sessions, inTx, attempt, raised, txn>>

RetryAnything(c) ==
    /\ Transition(c, "decide", "begin")
    /\ attempt[c] < MaxAttempts
    /\ UNCHANGED <<sessions, inTx, attempt, raised, txn>>

Retry(c) ==
    /\ Transition(c, "decide", "begin")
    /\ IsTransientConflict(raised[c]) /\ attempt[c] < MaxAttempts
    /\ UNCHANGED <<sessions, inTx, attempt, raised, txn>>

\* Faulty variant: the last attempt's transient failure is never raised.
GiveUpUnlessTransient(c) ==
    /\ Transition(c, "decide", "done")
    /\ ~IsTransientConflict(raised[c])
    /\ UNCHANGED <<sessions, inTx, attempt, raised, txn>>

GiveUp(c) ==
    /\ Transition(c, "decide", "done")
    /\ ~IsTransientConflict(raised[c]) \/ attempt[c] = MaxAttempts
    /\ UNCHANGED <<sessions, inTx, attempt, raised, txn>>

-----------------------------------------------------------------------------
(* SQL Server.                                                             *)

ServerCommits(c, a) ==
    /\ txn[c][a] = "committing"
    /\ SetTxn(c, a, "committed")
    /\ UNCHANGED <<pc, sessions, inTx, attempt, raised>>

\* The commit request never arrived, or the server failed before obeying it.
ServerDropsCommit(c, a) ==
    /\ txn[c][a] = "committing"
    /\ SetTxn(c, a, "rolledback")
    /\ UNCHANGED <<pc, sessions, inTx, attempt, raised>>

ServerNoticesLoss(c, a) ==
    /\ txn[c][a] = "orphaned"
    /\ SetTxn(c, a, "rolledback")
    /\ UNCHANGED <<pc, sessions, inTx, attempt, raised>>

\* An administrator's KILL, or an error of severity 20 or more.
Kill(c) ==
    /\ pc[c] = "body" /\ Txn(c) = "active"
    /\ SetTxn(c, attempt[c], "killed")
    /\ UNCHANGED <<pc, sessions, inTx, attempt, raised>>

\* The same while the call has result sets left to read: pyodbc reports their
\* end and a successful commit, and only a further statement would fail.
KillMidResults(c) ==
    /\ c \in HiddenKills
    /\ pc[c] = "body" /\ Txn(c) = "active"
    /\ SetTxn(c, attempt[c], "hidden")
    /\ UNCHANGED <<pc, sessions, inTx, attempt, raised>>

-----------------------------------------------------------------------------
Client(c) ==
    \/ WrongSessionCount(c)
    \/ AlreadyInTransaction(c)
    \/ Accept(c)
    \/ Begin(c)
    \/ StatementSucceeds(c)
    \/ \E driver \in {Deadlock, RcsiConflict, LockTimeout, DuplicateKey} :
           StatementRejected(c, driver)
    \/ CannotConnect(c)
    \/ \E driver \in {LostExecuting, TerminatedByServer} :
           ConnectionLost(c, driver)
    \/ FunctionRaises(c)
    \/ FunctionReturns(c)
    \/ CommitSucceeds(c)
    \/ CommitFails(c)
    \/ RollbackWithoutServer(c)
    \/ RollbackSucceeds(c)
    \/ RollbackFails(c)
    \/ Retry(c)
    \/ GiveUp(c)

Server(c) ==
    \/ \E a \in Attempts : \/ ServerCommits(c, a)
                           \/ ServerDropsCommit(c, a)
                           \/ ServerNoticesLoss(c, a)
    \/ Kill(c)
    \/ KillMidResults(c)

Next == \E c \in Calls : Client(c) \/ Server(c)

Spec == Init /\ [][Next]_vars

\* The function and every driver call end or time out, and the server settles
\* a commit it was asked for and notices a connection that is gone.  Nobody is
\* ever obliged to kill a session.
FairSpec ==
    /\ Spec
    /\ \A c \in Calls : WF_vars(Client(c))
    /\ \A c \in Calls : \A a \in Attempts :
           /\ WF_vars(ServerCommits(c, a) \/ ServerDropsCommit(c, a))
           /\ WF_vars(ServerNoticesLoss(c, a))

-----------------------------------------------------------------------------
(* Properties.                                                             *)

Exceptions ==
    {Raised(d) : d \in {Deadlock, RcsiConflict, LockTimeout, DuplicateKey, LostConnecting,
                        LostExecuting, LostEndingTran, TerminatedByServer}}
    \union {OtherException(x) : x \in {"none", "TypeError", "RuntimeError", "Exception"}}

\* Every variable keeps its type; in particular no call begins a fourth attempt.
TypeOK ==
    /\ pc \in [Calls -> PCs]
    /\ sessions \in [Calls -> 0..2]
    /\ inTx \in [Calls -> BOOLEAN]
    /\ attempt \in [Calls -> 0..MaxAttempts]
    /\ raised \in [Calls -> Exceptions]
    /\ txn \in [Calls -> [Attempts -> TxnStates]]

\* No two attempts of a call ever both take effect, or could both still do so:
\* a commit whose outcome the client does not know is never tried again, even
\* if the request is only carried out after the caller was answered.
AppliedAtMostOnce ==
    \A c \in Calls : \A a, b \in Attempts :
        /\ txn[c][a] \in {"committing", "committed"}
        /\ txn[c][b] \in {"committing", "committed"}
        => a = b

\* Between two attempts (while the decorator sleeps) and after the call, its
\* session is out of its transaction, and no connection that is still alive has
\* one open on the server: locks survive an attempt only where the connection was
\* lost, or given up, and the server has yet to notice.
NothingHeldBetweenAttempts ==
    \A c \in Calls :
        attempt[c] > 0 /\ pc[c] \in {"begin", "done"} =>
            /\ ~inTx[c]
            /\ \A a \in Attempts : txn[c][a] # "active"

\* A call ends with a contention error, or with a connection lost before any
\* commit was asked for, only after its last attempt.
NoEarlyGiveUp ==
    \A c \in Calls :
        pc[c] = "done" /\ raised[c].orig \in {Deadlock, RcsiConflict, LockTimeout,
              LostConnecting, LostExecuting, TerminatedByServer}
        => attempt[c] = MaxAttempts

\* What the caller is told, and whether the write is in the database.
ReplyTo(c) ==
    IF pc[c] # "done" THEN "none"
    ELSE IF raised[c] = NoException THEN "ok"
    ELSE IF DuringCommit(raised[c].orig) THEN "unknown"
    ELSE "failed"

Applied(c) == \E a \in Attempts : txn[c][a] = "committed"

\* The calls the driver keeps no kill from.
Informed == Calls \ HiddenKills

Promise == INSTANCE AtomicCalls
               WITH Calls   <- Informed,
                    applied <- {c \in Informed : Applied(c)},
                    reply   <- [c \in Informed |-> ReplyTo(c)]

\* The decorator keeps the promise of AtomicCalls to every call whose driver
\* reports a killed session: returned means applied, failed means never applied.
KeepsPromise == Promise!Spec

\* A call that returns is in the database.  (db.py:155 and transactions.md say
\* that a terminated session is treated as a lost connection.)
ReturnedMeansApplied ==
    \A c \in Calls : ReplyTo(c) = "ok" => Applied(c)

\* Every call ends, and the server settles every transaction it was left with.
EverythingSettles ==
    <>[] \A c \in Calls :
            /\ pc[c] = "done"
            /\ \A a \in Attempts : txn[c][a] \notin {"active", "orphaned", "committing"}
=============================================================================
