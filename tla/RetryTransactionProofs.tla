------------------------ MODULE RetryTransactionProofs ------------------------
(***************************************************************************)
(* Theorems about RetryTransaction, for any calls and any MaxAttempts.     *)
(***************************************************************************)
EXTENDS RetryTransaction, TLAPS

-----------------------------------------------------------------------------
(* How the exceptions of the model are classified.                         *)

TransientDrivers == {Deadlock, RcsiConflict, LockTimeout,
                     LostConnecting, LostExecuting, TerminatedByServer}

Drivers == TransientDrivers \union {DuplicateKey, LostEndingTran}

Ambiguous(exc) == DuringCommit(exc.orig)

LEMMA DiagnosticsOfMessage ==
    ASSUME NEW native, NEW fn, NEW phrases, NEW state
    PROVE  /\ DuringCommit(DriverError(state, Message(native, fn, phrases))) <=> fn = "SQLEndTran"
           /\ NativeCode(DriverError(state, Message(native, fn, phrases))) = native
  <1> DEFINE d == DriverError(state, Message(native, fn, phrases))
  <1>1. d.message.diagnostics = << [native |-> native, fn |-> fn] >>
    BY DEF DriverError, Message
  <1>2. Len(d.message.diagnostics) = 1 /\ d.message.diagnostics[1] = [native |-> native, fn |-> fn]
    BY <1>1
  <1>3. 1..1 = {1} /\ d.message.diagnostics # << >>
    BY <1>1
  <1> QED
    BY <1>2, <1>3 DEF DuringCommit, NativeCode

\* The failure that the end of a transaction leaves is ambiguous and not
\* retried; every other one leaves no doubt, and the transient ones are retried.
LEMMA Classification ==
    /\ Ambiguous(Raised(LostEndingTran))
    /\ Raised(LostEndingTran).invalidated
    /\ ~IsTransientConflict(Raised(LostEndingTran))
    /\ \A d \in TransientDrivers \union {DuplicateKey} : ~Ambiguous(Raised(d))
    /\ \A d \in TransientDrivers : IsTransientConflict(Raised(d))
    /\ \A d \in Drivers : Raised(d).class = "DBAPIError" /\ Raised(d).orig = d
  <1>1. /\ DuringCommit(LostEndingTran)
        /\ ~DuringCommit(Deadlock) /\ ~DuringCommit(RcsiConflict) /\ ~DuringCommit(LockTimeout)
        /\ ~DuringCommit(LostConnecting) /\ ~DuringCommit(LostExecuting)
        /\ ~DuringCommit(TerminatedByServer)
    <2>1. DuringCommit(LostEndingTran)
      BY DiagnosticsOfMessage DEF LostEndingTran
    <2>2. ~DuringCommit(Deadlock)
      BY DiagnosticsOfMessage DEF Deadlock
    <2>3. ~DuringCommit(RcsiConflict)
      BY DiagnosticsOfMessage DEF RcsiConflict
    <2>4. ~DuringCommit(LockTimeout)
      BY DiagnosticsOfMessage DEF LockTimeout
    <2>5. ~DuringCommit(LostConnecting)
      BY DiagnosticsOfMessage DEF LostConnecting
    <2>6. ~DuringCommit(LostExecuting)
      BY DiagnosticsOfMessage DEF LostExecuting
    <2>7. ~DuringCommit(TerminatedByServer)
      <3>1. PICK phrases : phrases = {"terminated by the server"}
        OBVIOUS
      <3>2. TerminatedByServer = DriverError("HY000", Message(0, "SQLExecDirectW", phrases))
        BY <3>1 DEF TerminatedByServer
      <3> QED
        BY <3>2, DiagnosticsOfMessage
    <2> QED
      BY <2>1, <2>2, <2>3, <2>4, <2>5, <2>6, <2>7
  <1>2. ~DuringCommit(DuplicateKey)
    BY DEF DuplicateKey, DuringCommit, DriverError
  <1>3. /\ NativeCode(Deadlock) = 1205 /\ NativeCode(RcsiConflict) = 3960
        /\ NativeCode(LockTimeout) = 1222 /\ NativeCode(LostEndingTran) = 10054
    BY DiagnosticsOfMessage DEF Deadlock, RcsiConflict, LockTimeout, LostEndingTran
  <1>4. /\ ErrorType(Deadlock) = "deadlock" /\ ErrorType(RcsiConflict) = "rcsi_conflict"
        /\ ErrorType(LockTimeout) = "lock_timeout" /\ ErrorType(LostEndingTran) = "unknown"
    <2>1. ErrorType(Deadlock) = "deadlock"
      BY <1>3 DEF ErrorType
    <2>2. ErrorType(RcsiConflict) = "rcsi_conflict"
      BY <1>3 DEF ErrorType
    <2>3. ErrorType(LockTimeout) = "lock_timeout"
      BY <1>3 DEF ErrorType
    <2>4. ErrorType(LostEndingTran) = "unknown"
      BY <1>3 DEF ErrorType
    <2> QED
      BY <2>1, <2>2, <2>3, <2>4
  <1>5. /\ DialectIsDisconnect(LostConnecting) /\ DialectIsDisconnect(LostExecuting)
        /\ DialectIsDisconnect(LostEndingTran) /\ DetectTerminatedSession(TerminatedByServer)
    <2>1. /\ LostConnecting.sqlstate = "08001" /\ LostExecuting.sqlstate = "08S01"
          /\ LostEndingTran.sqlstate = "08S01"
      BY DEF LostConnecting, LostExecuting, LostEndingTran, DriverError
    <2>2. TerminatedByServer.sqlstate = "HY000"
      BY DEF TerminatedByServer, DriverError
    <2>3. "terminated by the server" \in TerminatedByServer.message.phrases
      BY DEF TerminatedByServer, DriverError, Message
    <2> QED
      BY <2>1, <2>2, <2>3 DEF DialectIsDisconnect, DetectTerminatedSession
  <1>6. ASSUME NEW d
        PROVE  /\ Raised(d).class = "DBAPIError" /\ Raised(d).orig = d
               /\ Raised(d).invalidated <=> DialectIsDisconnect(d) \/ DetectTerminatedSession(d)
    BY DEF Raised
  <1>7. ~IsTransientConflict(Raised(LostEndingTran))
    BY <1>1, <1>4, <1>6
    DEF IsTransientConflict, IsRetryableDisconnect, TransientTypes
  <1>8. \A d \in TransientDrivers : IsTransientConflict(Raised(d))
    BY <1>1, <1>4, <1>5, <1>6
    DEF TransientDrivers, IsTransientConflict, IsRetryableDisconnect, IsDisconnectError,
        TransientTypes
  <1> QED
    BY <1>1, <1>2, <1>5, <1>6, <1>7, <1>8 DEF Ambiguous, TransientDrivers, Drivers

\* The exceptions of the model, those that are not database errors included.
LEMMA ExceptionFacts ==
    /\ \A d \in Drivers : Raised(d) \in Exceptions /\ Raised(d) # NoException
    /\ \A x \in {"none", "TypeError", "RuntimeError", "Exception"} :
           OtherException(x) \in Exceptions
    /\ \A x \in {"TypeError", "RuntimeError", "Exception"} : OtherException(x) # NoException
    /\ \A x \in {"TypeError", "RuntimeError", "Exception"} :
           /\ ~OtherException(x).invalidated /\ ~Ambiguous(OtherException(x))
           /\ ~IsTransientConflict(OtherException(x))
    /\ ~NoException.invalidated /\ ~Ambiguous(NoException) /\ ~IsTransientConflict(NoException)
    /\ \A e \in Exceptions : IsTransientConflict(e) => ~Ambiguous(e)
    /\ \A e \in Exceptions : e.orig \in TransientDrivers => IsTransientConflict(e)
  <1>1. ASSUME NEW x
        PROVE  /\ OtherException(x).class = x /\ ~OtherException(x).invalidated
               /\ OtherException(x).orig = NoDriverError
    BY DEF OtherException
  <1>2. ~DuringCommit(NoDriverError) /\ NoDriverError.sqlstate = "none"
    BY DEF NoDriverError, DriverError, NoMessage, DuringCommit
  <1>3. \A d \in TransientDrivers : d.sqlstate # "none"
    <2>1. ASSUME NEW state, NEW message
          PROVE  DriverError(state, message).sqlstate = state
      BY DEF DriverError
    <2>2. /\ Deadlock.sqlstate = "40001" /\ RcsiConflict.sqlstate = "40001"
          /\ LockTimeout.sqlstate = "HYT00" /\ LostConnecting.sqlstate = "08001"
          /\ LostExecuting.sqlstate = "08S01"
      BY <2>1 DEF Deadlock, RcsiConflict, LockTimeout, LostConnecting, LostExecuting
    <2>3. TerminatedByServer.sqlstate = "HY000"
      BY DEF TerminatedByServer, DriverError
    <2> QED
      BY <2>2, <2>3 DEF TransientDrivers
  <1>4. NoException.class = "none" /\ ~NoException.invalidated /\ NoException.orig = NoDriverError
    BY <1>1 DEF NoException
  <1>6. Exceptions = {Raised(d) : d \in Drivers}
                     \union {OtherException(x) :
                                  x \in {"none", "TypeError", "RuntimeError", "Exception"}}
    BY DEF Exceptions, Drivers, TransientDrivers
  <1>7. \A e \in Exceptions : IsTransientConflict(e) => ~Ambiguous(e)
    <2> SUFFICES ASSUME NEW e \in Exceptions, IsTransientConflict(e)
                 PROVE  ~Ambiguous(e)
      OBVIOUS
    <2>1. e.class = "DBAPIError"
      BY DEF IsTransientConflict
    <2>2. PICK d \in Drivers : e = Raised(d)
      BY <1>1, <1>6, <2>1
    <2>3. d \in TransientDrivers \union {DuplicateKey}
      BY <2>2, Classification DEF Drivers
    <2> QED
      BY <2>2, <2>3, Classification
  <1>8. \A e \in Exceptions : e.orig \in TransientDrivers => IsTransientConflict(e)
    <2> SUFFICES ASSUME NEW e \in Exceptions, e.orig \in TransientDrivers
                 PROVE  IsTransientConflict(e)
      OBVIOUS
    <2>1. PICK d \in Drivers : e = Raised(d)
      BY <1>1, <1>2, <1>3, <1>6
    <2> QED
      BY <2>1, Classification
  <1>9. \A d \in Drivers : Raised(d) \in Exceptions /\ Raised(d) # NoException
    BY <1>4, <1>6, Classification
  <1>10. /\ ~IsTransientConflict(NoException)
         /\ \A x \in {"TypeError", "RuntimeError", "Exception"} :
                ~IsTransientConflict(OtherException(x))
    BY <1>1, <1>4 DEF IsTransientConflict
  <1> QED
    BY <1>1, <1>2, <1>4, <1>6, <1>7, <1>8, <1>9, <1>10 DEF Ambiguous

-----------------------------------------------------------------------------
(* The inductive invariant.                                                *)

\* States of a transaction that will never be committed and that holds no
\* lock over a connection that is still alive.
Over == {"none", "orphaned", "killed", "hidden", "rolledback"}

\* What is known of call c and its attempts, by where the call is.
AttemptsInv(c) ==
    /\ pc[c] = "call" => attempt[c] = 0
    /\ pc[c] = "begin" => attempt[c] < MaxAttempts
    /\ pc[c] \in {"body", "committing", "rollback", "decide"} => attempt[c] > 0
    /\ \A a \in Attempts : a < attempt[c] => txn[c][a] \in Over
    /\ \A a \in Attempts : a > attempt[c] => txn[c][a] = "none"
    /\ \A a \in Attempts : txn[c][a] = "hidden" => c \in HiddenKills

CurrentInv(c) ==
    \A a \in Attempts : a = attempt[c] =>
        /\ pc[c] = "body" => txn[c][a] \in {"none", "active", "killed", "hidden"}
        /\ pc[c] = "committing" =>
               txn[c][a] \in {"killed", "hidden", "committing", "committed", "rolledback"}
        /\ pc[c] = "rollback" =>
               /\ ~Ambiguous(raised[c]) => txn[c][a] \in Over \union {"active"}
               /\ raised[c].invalidated => txn[c][a] # "active"
        /\ pc[c] = "begin" => txn[c][a] \in Over
        /\ pc[c] \in {"decide", "done"} =>
               /\ txn[c][a] # "active"
               /\ raised[c] # NoException /\ ~Ambiguous(raised[c]) => txn[c][a] \in Over
               /\ raised[c] = NoException => txn[c][a] \in {"committed", "hidden"}

RaisedInv(c) ==
    /\ pc[c] \in {"body", "committing"} => raised[c] = NoException
    /\ pc[c] \in {"rollback", "decide"} => raised[c] # NoException
    /\ pc[c] = "done" /\ attempt[c] = 0 => raised[c] # NoException /\ ~Ambiguous(raised[c])
    /\ pc[c] = "done" /\ IsTransientConflict(raised[c]) => attempt[c] = MaxAttempts

SessionInv(c) ==
    pc[c] \in {"begin", "decide", "done"} /\ attempt[c] > 0 => ~inTx[c]

CallInv(c) == AttemptsInv(c) /\ CurrentInv(c) /\ RaisedInv(c) /\ SessionInv(c)

IInv == TypeOK /\ \A c \in Calls : CallInv(c)

\* A step of call c leaves the other calls as they were.
Untouched(d) ==
    /\ pc'[d] = pc[d] /\ inTx'[d] = inTx[d] /\ attempt'[d] = attempt[d]
    /\ raised'[d] = raised[d] /\ txn'[d] = txn[d]

Keeps(c) == TypeOK' /\ CallInv(c)' /\ \A d \in Calls \ {c} : Untouched(d)

LEMMA UntouchedKeepsInv ==
    ASSUME NEW d \in Calls, CallInv(d), Untouched(d)
    PROVE  CallInv(d)'
  BY DEF CallInv, AttemptsInv, CurrentInv, RaisedInv, SessionInv, Untouched, Ambiguous

LEMMA InitIInv == Init => IInv
  <1> SUFFICES ASSUME Init PROVE IInv
    OBVIOUS
  <1>1. TypeOK
    BY ExceptionFacts, MaxAttemptsAssumption
    DEF Init, TypeOK, NoException, PCs, TxnStates, Attempts
  <1>2. \A c \in Calls : CallInv(c)
    BY MaxAttemptsAssumption
    DEF Init, CallInv, AttemptsInv, CurrentInv, RaisedInv, SessionInv, Attempts
  <1> QED
    BY <1>1, <1>2 DEF IInv

LEMMA ClientStep ==
    ASSUME IInv, NEW c \in Calls, Client(c)
    PROVE  Keeps(c)
  <1> USE ExceptionFacts, Classification, MaxAttemptsAssumption
      DEF Keeps, IInv, TypeOK, CallInv, AttemptsInv, CurrentInv, RaisedInv, SessionInv, Over,
          Untouched, Attempts, PCs, TxnStates, Transition, Txn, SetTxn, Raise,
          Drivers, TransientDrivers
  <1>1. ASSUME WrongSessionCount(c) PROVE Keeps(c)
    <2>1. TypeOK'
      BY <1>1 DEF WrongSessionCount
    <2>2. CallInv(c)'
      BY <1>1 DEF WrongSessionCount
    <2>3. \A d \in Calls \ {c} : Untouched(d)
      BY <1>1 DEF WrongSessionCount
    <2> QED
      BY <2>1, <2>2, <2>3
  <1>2. ASSUME AlreadyInTransaction(c) PROVE Keeps(c)
    <2>1. TypeOK'
      BY <1>2 DEF AlreadyInTransaction
    <2>2. CallInv(c)'
      BY <1>2 DEF AlreadyInTransaction
    <2>3. \A d \in Calls \ {c} : Untouched(d)
      BY <1>2 DEF AlreadyInTransaction
    <2> QED
      BY <2>1, <2>2, <2>3
  <1>3. ASSUME Accept(c) PROVE Keeps(c)
    <2>1. TypeOK'
      BY <1>3 DEF Accept
    <2>2. CallInv(c)'
      BY <1>3 DEF Accept
    <2>3. \A d \in Calls \ {c} : Untouched(d)
      BY <1>3 DEF Accept
    <2> QED
      BY <2>1, <2>2, <2>3
  <1>4. ASSUME Begin(c) PROVE Keeps(c)
    <2>1. /\ attempt'[c] = attempt[c] + 1 /\ attempt'[c] \in 1..MaxAttempts
          /\ pc[c] = "begin" /\ pc'[c] = "body" /\ raised'[c] = NoException
          /\ txn' = txn
      <3>1. pc[c] = "begin" /\ attempt[c] \in 0..MaxAttempts /\ attempt[c] < MaxAttempts
        BY <1>4 DEF Begin
      <3>2. pc'[c] = "body" /\ raised'[c] = NoException /\ txn' = txn
        BY <1>4 DEF Begin
      <3>3. attempt'[c] = attempt[c] + 1
        BY <1>4 DEF Begin
      <3>4. attempt'[c] \in 1..MaxAttempts
        BY ONLY <3>1, <3>3, MaxAttemptsAssumption
      <3> QED
        BY <3>1, <3>2, <3>3, <3>4
    <2>2. TypeOK'
      <3>1. attempt' = [attempt EXCEPT ![c] = attempt'[c]]
        BY <1>4, <2>1 DEF Begin
      <3>2. attempt'[c] \in 0..MaxAttempts
        BY ONLY <2>1, MaxAttemptsAssumption
      <3>3. attempt' \in [Calls -> 0..MaxAttempts]
        BY <3>1, <3>2
      <3>4. raised' = [raised EXCEPT ![c] = NoException] /\ NoException \in Exceptions
        BY <1>4 DEF Begin, NoException
      <3>5. raised' \in [Calls -> Exceptions]
        BY <3>4
      <3>6. pc' \in [Calls -> PCs] /\ inTx' \in [Calls -> BOOLEAN]
        BY <1>4 DEF Begin
      <3>7. sessions' = sessions /\ txn' = txn
        BY <1>4 DEF Begin
      <3> QED
        BY <3>3, <3>5, <3>6, <3>7
    <2>3. \A a \in Attempts : a < attempt'[c] => txn'[c][a] \in Over
      <3> SUFFICES ASSUME NEW a \in Attempts, a < attempt'[c] PROVE txn[c][a] \in Over
        BY <2>1
      <3>1. a < attempt[c] \/ a = attempt[c]
        BY <2>1
      <3> QED
        BY <2>1, <3>1
    <2>4. \A a \in Attempts : a >= attempt'[c] => txn'[c][a] = "none"
      BY <2>1
    <2>5. AttemptsInv(c)'
      BY <2>1, <2>3, <2>4
    <2>6. CurrentInv(c)' /\ RaisedInv(c)' /\ SessionInv(c)'
      BY <2>1, <2>4
    <2>7. \A d \in Calls \ {c} : Untouched(d)
      BY <1>4 DEF Begin
    <2> QED
      BY <2>2, <2>5, <2>6, <2>7
  <1>5. ASSUME StatementSucceeds(c) PROVE Keeps(c)
    <2>1. TypeOK'
      BY <1>5 DEF StatementSucceeds
    <2>2. CallInv(c)'
      BY <1>5 DEF StatementSucceeds
    <2>3. \A d \in Calls \ {c} : Untouched(d)
      BY <1>5 DEF StatementSucceeds
    <2> QED
      BY <2>1, <2>2, <2>3
  <1>6. ASSUME NEW driver \in {Deadlock, RcsiConflict, LockTimeout, DuplicateKey},
              StatementRejected(c, driver)
       PROVE  Keeps(c)
    <2>1. TypeOK'
      BY <1>6 DEF StatementRejected
    <2>2. CallInv(c)'
      BY <1>6 DEF StatementRejected
    <2>3. \A d \in Calls \ {c} : Untouched(d)
      BY <1>6 DEF StatementRejected
    <2> QED
      BY <2>1, <2>2, <2>3
  <1>7. ASSUME CannotConnect(c) PROVE Keeps(c)
    <2>1. TypeOK'
      BY <1>7 DEF CannotConnect
    <2>2. CallInv(c)'
      BY <1>7 DEF CannotConnect
    <2>3. \A d \in Calls \ {c} : Untouched(d)
      BY <1>7 DEF CannotConnect
    <2> QED
      BY <2>1, <2>2, <2>3
  <1>8. ASSUME NEW driver \in {LostExecuting, TerminatedByServer}, ConnectionLost(c, driver)
       PROVE  Keeps(c)
    <2>1. TypeOK'
      BY <1>8 DEF ConnectionLost, Disconnected
    <2>2. CallInv(c)'
      BY <1>8 DEF ConnectionLost, Disconnected
    <2>3. \A d \in Calls \ {c} : Untouched(d)
      BY <1>8 DEF ConnectionLost, Disconnected
    <2> QED
      BY <2>1, <2>2, <2>3
  <1>9. ASSUME FunctionRaises(c) PROVE Keeps(c)
    <2>1. TypeOK'
      BY <1>9 DEF FunctionRaises
    <2>2. CallInv(c)'
      BY <1>9 DEF FunctionRaises
    <2>3. \A d \in Calls \ {c} : Untouched(d)
      BY <1>9 DEF FunctionRaises
    <2> QED
      BY <2>1, <2>2, <2>3
  <1>10. ASSUME FunctionReturns(c) PROVE Keeps(c)
    <2>1. TypeOK'
      BY <1>10 DEF FunctionReturns
    <2>2. CallInv(c)'
      BY <1>10 DEF FunctionReturns
    <2>3. \A d \in Calls \ {c} : Untouched(d)
      BY <1>10 DEF FunctionReturns
    <2> QED
      BY <2>1, <2>2, <2>3
  <1>11. ASSUME CommitSucceeds(c) PROVE Keeps(c)
    <2>1. TypeOK'
      BY <1>11 DEF CommitSucceeds
    <2>2. CallInv(c)'
      BY <1>11 DEF CommitSucceeds
    <2>3. \A d \in Calls \ {c} : Untouched(d)
      BY <1>11 DEF CommitSucceeds
    <2> QED
      BY <2>1, <2>2, <2>3
  <1>12. ASSUME CommitFails(c) PROVE Keeps(c)
    <2>1. TypeOK'
      BY <1>12 DEF CommitFails
    <2>2. /\ pc[c] = "committing" /\ pc'[c] = "rollback"
          /\ raised'[c] = Raised(LostEndingTran)
          /\ attempt' = attempt /\ txn' = txn
      BY <1>12 DEF CommitFails
    <2>4. AttemptsInv(c)' /\ RaisedInv(c)' /\ SessionInv(c)'
      BY <2>2
    <2>5. CurrentInv(c)'
      BY <2>2
    <2>6. CallInv(c)'
      BY <2>4, <2>5
    <2>3. \A d \in Calls \ {c} : Untouched(d)
      BY <1>12 DEF CommitFails
    <2> QED
      BY <2>1, <2>3, <2>6
  <1>13. ASSUME RollbackWithoutServer(c) PROVE Keeps(c)
    <2>1. TypeOK'
      BY <1>13 DEF RollbackWithoutServer
    <2>2. CallInv(c)'
      BY <1>13 DEF RollbackWithoutServer
    <2>3. \A d \in Calls \ {c} : Untouched(d)
      BY <1>13 DEF RollbackWithoutServer
    <2> QED
      BY <2>1, <2>2, <2>3
  <1>14. ASSUME RollbackSucceeds(c) PROVE Keeps(c)
    <2>1. TypeOK'
      BY <1>14 DEF RollbackSucceeds
    <2>2. CallInv(c)'
      BY <1>14 DEF RollbackSucceeds
    <2>3. \A d \in Calls \ {c} : Untouched(d)
      BY <1>14 DEF RollbackSucceeds
    <2> QED
      BY <2>1, <2>2, <2>3
  <1>15. ASSUME RollbackFails(c) PROVE Keeps(c)
    <2>1. TypeOK'
      BY <1>15 DEF RollbackFails, Disconnected
    <2>2. CallInv(c)'
      BY <1>15 DEF RollbackFails, Disconnected
    <2>3. \A d \in Calls \ {c} : Untouched(d)
      BY <1>15 DEF RollbackFails, Disconnected
    <2> QED
      BY <2>1, <2>2, <2>3
  <1>16. ASSUME Retry(c) PROVE Keeps(c)
    <2>1. TypeOK'
      BY <1>16 DEF Retry
    <2>2. CallInv(c)'
      BY <1>16 DEF Retry
    <2>3. \A d \in Calls \ {c} : Untouched(d)
      BY <1>16 DEF Retry
    <2> QED
      BY <2>1, <2>2, <2>3
  <1>17. ASSUME GiveUp(c) PROVE Keeps(c)
    <2>1. TypeOK'
      BY <1>17 DEF GiveUp
    <2>2. CallInv(c)'
      BY <1>17 DEF GiveUp
    <2>3. \A d \in Calls \ {c} : Untouched(d)
      BY <1>17 DEF GiveUp
    <2> QED
      BY <2>1, <2>2, <2>3
  <1> HIDE ExceptionFacts, Classification, MaxAttemptsAssumption
      DEF Keeps, IInv, TypeOK, CallInv, AttemptsInv, CurrentInv, RaisedInv, SessionInv, Over,
          Untouched
  <1> QED
    BY <1>1, <1>2, <1>3, <1>4, <1>5, <1>6, <1>7, <1>8, <1>9, <1>10, <1>11, <1>12, <1>13, <1>14,
       <1>15, <1>16, <1>17
    DEF Client

LEMMA ServerStep ==
    ASSUME IInv, NEW c \in Calls, Server(c)
    PROVE  Keeps(c)
  <1> USE ExceptionFacts, Classification, MaxAttemptsAssumption
      DEF Keeps, IInv, TypeOK, CallInv, AttemptsInv, CurrentInv, RaisedInv, SessionInv, Over,
          Untouched, Attempts, PCs, TxnStates, Transition, Txn, SetTxn, Raise,
          Drivers, TransientDrivers
  <1>1. ASSUME NEW b \in Attempts, ServerCommits(c, b) PROVE Keeps(c)
    <2>1. TypeOK'
      BY <1>1 DEF ServerCommits
    <2>2. CallInv(c)'
      BY <1>1 DEF ServerCommits
    <2>3. \A d \in Calls \ {c} : Untouched(d)
      BY <1>1 DEF ServerCommits
    <2> QED
      BY <2>1, <2>2, <2>3
  <1>2. ASSUME NEW b \in Attempts, ServerDropsCommit(c, b) PROVE Keeps(c)
    <2>1. TypeOK'
      BY <1>2 DEF ServerDropsCommit
    <2>2. CallInv(c)'
      BY <1>2 DEF ServerDropsCommit
    <2>3. \A d \in Calls \ {c} : Untouched(d)
      BY <1>2 DEF ServerDropsCommit
    <2> QED
      BY <2>1, <2>2, <2>3
  <1>3. ASSUME NEW b \in Attempts, ServerNoticesLoss(c, b) PROVE Keeps(c)
    <2>1. TypeOK'
      BY <1>3 DEF ServerNoticesLoss
    <2>2. CallInv(c)'
      BY <1>3 DEF ServerNoticesLoss
    <2>3. \A d \in Calls \ {c} : Untouched(d)
      BY <1>3 DEF ServerNoticesLoss
    <2> QED
      BY <2>1, <2>2, <2>3
  <1>4. ASSUME Kill(c) PROVE Keeps(c)
    <2>1. TypeOK'
      BY <1>4 DEF Kill
    <2>2. CallInv(c)'
      BY <1>4 DEF Kill
    <2>3. \A d \in Calls \ {c} : Untouched(d)
      BY <1>4 DEF Kill
    <2> QED
      BY <2>1, <2>2, <2>3
  <1>5. ASSUME KillMidResults(c) PROVE Keeps(c)
    <2>1. TypeOK'
      BY <1>5 DEF KillMidResults
    <2>2. CallInv(c)'
      BY <1>5 DEF KillMidResults
    <2>3. \A d \in Calls \ {c} : Untouched(d)
      BY <1>5 DEF KillMidResults
    <2> QED
      BY <2>1, <2>2, <2>3
  <1> HIDE ExceptionFacts, Classification, MaxAttemptsAssumption
      DEF Keeps, IInv, TypeOK, CallInv, AttemptsInv, CurrentInv, RaisedInv, SessionInv, Over,
          Untouched
  <1> QED
    BY <1>1, <1>2, <1>3, <1>4, <1>5 DEF Server

-----------------------------------------------------------------------------
(* The theorems.                                                           *)

LEMMA StepKeepsIInv == IInv /\ [Next]_vars => IInv'
  <1> SUFFICES ASSUME IInv, [Next]_vars PROVE IInv'
    OBVIOUS
  <1>1. CASE UNCHANGED vars
    BY <1>1 DEF vars, IInv, TypeOK, CallInv, AttemptsInv, CurrentInv, RaisedInv, SessionInv,
                Ambiguous
  <1>2. ASSUME NEW c \in Calls, Client(c) \/ Server(c) PROVE IInv'
    <2>1. Keeps(c)
      BY <1>2, ClientStep, ServerStep
    <2>2. \A d \in Calls : CallInv(d)'
      BY <2>1, UntouchedKeepsInv DEF Keeps, IInv
    <2> QED
      BY <2>1, <2>2 DEF Keeps, IInv
  <1> QED
    BY <1>1, <1>2 DEF Next

LEMMA Invariance == Spec => []IInv
  BY InitIInv, StepKeepsIInv, PTL DEF Spec

\* Type correctness of the decorator and of the server's transactions: in
\* particular stop_after_attempt keeps the attempts within MaxAttempts.
THEOREM TypeCorrect == Spec => []TypeOK
  <1>1. IInv => TypeOK
    BY DEF IInv
  <1> QED
    BY <1>1, Invariance, PTL

LEMMA InvariantAppliesOnce == IInv => AppliedAtMostOnce
  <1> SUFFICES ASSUME IInv, NEW c \in Calls, NEW a \in Attempts, NEW b \in Attempts,
                      txn[c][a] \in {"committing", "committed"},
                      txn[c][b] \in {"committing", "committed"}
               PROVE  a = b
    BY DEF AppliedAtMostOnce
  <1>1. attempt[c] \in Nat /\ a \in Nat /\ b \in Nat
    BY MaxAttemptsAssumption DEF IInv, TypeOK, Attempts
  <1>2. \A x \in {a, b} : ~(x < attempt[c]) /\ ~(x > attempt[c])
    BY DEF IInv, CallInv, AttemptsInv, Over
  <1> QED
    BY <1>1, <1>2

\* No two attempts of a decorated call can both take effect, whatever the
\* moment at which connections drop, sessions are killed and commits land:
\* every attempt but the current one is over.
THEOREM AtMostOnce == Spec => []AppliedAtMostOnce
  BY InvariantAppliesOnce, Invariance, PTL

\* While the decorator sleeps, and after the call, its session is out of its
\* transaction and nothing is open over a living connection.
THEOREM NothingHeld == Spec => []NothingHeldBetweenAttempts
  <1>1. IInv => NothingHeldBetweenAttempts
    <2> SUFFICES ASSUME IInv, NEW c \in Calls, attempt[c] > 0, pc[c] \in {"begin", "done"}
                 PROVE  ~inTx[c] /\ \A a \in Attempts : txn[c][a] # "active"
      BY DEF NothingHeldBetweenAttempts
    <2>1. ~inTx[c]
      BY DEF IInv, CallInv, SessionInv
    <2>2. ASSUME NEW a \in Attempts PROVE txn[c][a] # "active"
      <3>1. attempt[c] \in Nat /\ a \in Nat
        BY MaxAttemptsAssumption DEF IInv, TypeOK, Attempts
      <3>2. a < attempt[c] \/ a > attempt[c] => txn[c][a] # "active"
        BY DEF IInv, CallInv, AttemptsInv, Over
      <3>3. a = attempt[c] => txn[c][a] # "active"
        BY DEF IInv, CallInv, CurrentInv, Over
      <3> QED
        BY <3>1, <3>2, <3>3
    <2> QED
      BY <2>1, <2>2
  <1> QED
    BY <1>1, Invariance, PTL

\* A failure that certainly left nothing behind reaches the caller only after
\* the last attempt.
THEOREM Persistence == Spec => []NoEarlyGiveUp
  <1>1. IInv => NoEarlyGiveUp
    <2> SUFFICES ASSUME IInv, NEW c \in Calls, pc[c] = "done", raised[c].orig \in TransientDrivers
                 PROVE  attempt[c] = MaxAttempts
      BY DEF NoEarlyGiveUp, TransientDrivers
    <2>1. IsTransientConflict(raised[c])
      BY ExceptionFacts DEF IInv, TypeOK
    <2> QED
      BY <2>1 DEF IInv, CallInv, RaisedInv
  <1> QED
    BY <1>1, Invariance, PTL

-----------------------------------------------------------------------------
(* The decorator implements AtomicCalls.                                   *)

\* An answer other than "unknown" is true, and no commit is left in flight.
AnswerIsTrue(c) ==
    /\ ReplyTo(c) = "ok" => Applied(c)
    /\ ReplyTo(c) = "failed" => ~Applied(c)
    /\ ReplyTo(c) \in {"ok", "failed"} => \A a \in Attempts : txn[c][a] # "committing"

LEMMA AnswersAreTrue == IInv => \A c \in Informed : AnswerIsTrue(c)
  <1> SUFFICES ASSUME IInv, NEW c \in Informed PROVE AnswerIsTrue(c)
    OBVIOUS
  <1>1. c \in Calls /\ c \notin HiddenKills
    BY DEF Informed
  <1>2. attempt[c] \in 0..MaxAttempts
    BY <1>1 DEF IInv, TypeOK
  <1>3. \A a \in Attempts : a # attempt[c] => txn[c][a] \in Over
    <2> SUFFICES ASSUME NEW a \in Attempts, a # attempt[c] PROVE txn[c][a] \in Over
      OBVIOUS
    <2>1. a < attempt[c] \/ a > attempt[c]
      BY <1>2, MaxAttemptsAssumption DEF Attempts
    <2> QED
      BY <1>1, <2>1 DEF IInv, CallInv, AttemptsInv, Over
  <1>4. CASE ReplyTo(c) = "ok"
    <2>1. pc[c] = "done" /\ raised[c] = NoException
      BY <1>4 DEF ReplyTo
    <2>2. attempt[c] \in Attempts
      BY <1>1, <1>2, <2>1, MaxAttemptsAssumption DEF IInv, CallInv, RaisedInv, Attempts
    <2>3. txn[c][attempt[c]] = "committed"
      BY <1>1, <2>1, <2>2 DEF IInv, CallInv, CurrentInv, AttemptsInv
    <2> QED
      BY <1>3, <1>4, <2>2, <2>3 DEF AnswerIsTrue, Applied, Over
  <1>5. CASE ReplyTo(c) = "failed"
    <2>1. pc[c] = "done" /\ raised[c] # NoException /\ ~Ambiguous(raised[c])
      BY <1>5 DEF ReplyTo, Ambiguous
    <2>2. \A a \in Attempts : txn[c][a] \in Over
      BY <1>1, <1>3, <2>1 DEF IInv, CallInv, CurrentInv
    <2> QED
      BY <1>5, <2>2 DEF AnswerIsTrue, Applied, Over
  <1> QED
    BY <1>4, <1>5 DEF AnswerIsTrue

\* Only the server makes a write take effect, and only before the caller is
\* answered, or after an answer of "unknown".
LEMMA ClientAppliesNothing ==
    ASSUME IInv, NEW c \in Calls, Client(c)
    PROVE  pc[c] # "done" /\ (Applied(c)' <=> Applied(c))
  <1>1. attempt[c] \in 0..MaxAttempts /\ txn \in [Calls -> [Attempts -> TxnStates]]
    BY DEF IInv, TypeOK
  <1>2. pc[c] = "rollback" => attempt[c] \in Attempts
    BY <1>1, MaxAttemptsAssumption DEF IInv, CallInv, AttemptsInv, Attempts
  <1>3. pc[c] # "done"
    BY DEF Client, Transition, WrongSessionCount, AlreadyInTransaction, Accept, Begin,
           StatementSucceeds, StatementRejected, CannotConnect, ConnectionLost, FunctionRaises,
           FunctionReturns, CommitSucceeds, CommitFails, RollbackWithoutServer,
           RollbackSucceeds, RollbackFails, Retry, GiveUp
  <1> DEFINE Moves == \E state \in TxnStates : /\ SetTxn(c, attempt[c], state)
                                               /\ state = "committed" <=> Txn(c) = "committed"
  <1>4. txn' = txn \/ Moves
    <2>1. CASE \/ WrongSessionCount(c) \/ AlreadyInTransaction(c) \/ Accept(c) \/ Begin(c)
               \/ CannotConnect(c) \/ FunctionRaises(c) \/ CommitSucceeds(c) \/ CommitFails(c)
               \/ RollbackWithoutServer(c) \/ Retry(c) \/ GiveUp(c)
      BY <2>1 DEF WrongSessionCount, AlreadyInTransaction, Accept, Begin, CannotConnect,
                  FunctionRaises, CommitSucceeds, CommitFails, RollbackWithoutServer, Retry, GiveUp
    <2>2. CASE StatementSucceeds(c)
      BY <2>2 DEF StatementSucceeds, TxnStates
    <2>3. ASSUME NEW driver, StatementRejected(c, driver) PROVE Moves
      BY <2>3 DEF StatementRejected, TxnStates
    <2>4. ASSUME NEW driver, ConnectionLost(c, driver) PROVE Moves
      BY <2>4 DEF ConnectionLost, Disconnected, TxnStates
    <2>5. CASE FunctionReturns(c)
      BY <2>5 DEF FunctionReturns, TxnStates
    <2>6. CASE RollbackSucceeds(c)
      BY <2>6 DEF RollbackSucceeds, TxnStates
    <2>7. CASE RollbackFails(c)
      <3>1. Txn(c) = "active" \/ Txn(c) \in TxnStates
        BY <1>1, <1>2, <2>7 DEF RollbackFails, Txn, Transition
      <3> QED
        BY <2>7, <3>1 DEF RollbackFails, Disconnected, TxnStates
    <2> HIDE DEF Moves
    <2> QED
      BY <2>1, <2>2, <2>3, <2>4, <2>5, <2>6, <2>7 DEF Client
  <1>5. ASSUME NEW state \in TxnStates, SetTxn(c, attempt[c], state),
               state = "committed" <=> Txn(c) = "committed"
        PROVE  Applied(c)' <=> Applied(c)
    BY <1>1, <1>5 DEF SetTxn, Txn, Applied
  <1> QED
    BY <1>3, <1>4, <1>5 DEF Applied

LEMMA ServerAnswersNobody ==
    ASSUME IInv, NEW c \in Calls, Server(c)
    PROVE  /\ pc' = pc /\ raised' = raised
           /\ \/ Applied(c)' <=> Applied(c)
              \/ /\ ~Applied(c) /\ Applied(c)'
                 /\ \E a \in Attempts : txn[c][a] = "committing"
  <1>1. pc' = pc /\ raised' = raised
    BY DEF Server, ServerCommits, ServerDropsCommit, ServerNoticesLoss, Kill, KillMidResults
  <1>2. attempt[c] \in 0..MaxAttempts /\ txn \in [Calls -> [Attempts -> TxnStates]]
    BY DEF IInv, TypeOK
  <1>3. ASSUME NEW a \in Attempts, ServerCommits(c, a)
        PROVE  /\ ~Applied(c) /\ Applied(c)'
               /\ \E b \in Attempts : txn[c][b] = "committing"
    <2>1. txn[c][a] = "committing" /\ txn'[c][a] = "committed"
      BY <1>2, <1>3 DEF ServerCommits, SetTxn
    <2>2. AppliedAtMostOnce
      BY InvariantAppliesOnce
    <2>3. ~Applied(c)
      BY <2>1, <2>2 DEF Applied, AppliedAtMostOnce
    <2> QED
      BY <2>1, <2>3 DEF Applied
  <1>4. ASSUME NEW a \in Attempts, ServerDropsCommit(c, a) \/ ServerNoticesLoss(c, a)
        PROVE  Applied(c)' <=> Applied(c)
    BY <1>2, <1>4 DEF ServerDropsCommit, ServerNoticesLoss, SetTxn, Applied
  <1>5. ASSUME Kill(c) \/ KillMidResults(c)
        PROVE  Applied(c)' <=> Applied(c)
    BY <1>2, <1>5 DEF Kill, KillMidResults, Txn, SetTxn, Applied
  <1> QED
    BY <1>1, <1>3, <1>4, <1>5 DEF Server

LEMMA CallKeepsPromise ==
    ASSUME IInv, IInv', NEW c \in Calls, Client(c) \/ Server(c),
           \A d \in Informed : AnswerIsTrue(d) /\ AnswerIsTrue(d)'
    PROVE  [Promise!Next]_(Promise!vars)
  <1> DEFINE applied == {d \in Informed : Applied(d)}
             reply == [d \in Informed |-> ReplyTo(d)]
  <1>1. \A d \in Informed \ {c} : (Applied(d)' <=> Applied(d)) /\ ReplyTo(d)' = ReplyTo(d)
    <2>1. \A d \in Calls \ {c} : Untouched(d)
      BY ClientStep, ServerStep DEF Keeps
    <2> QED
      BY <2>1 DEF Informed, Untouched, Applied, ReplyTo
  <1>2. CASE c \notin Informed \/ ((Applied(c)' <=> Applied(c)) /\ ReplyTo(c)' = ReplyTo(c))
    <2>1. applied' = applied /\ reply' = reply
      BY <1>1, <1>2
    <2> QED
      BY <2>1 DEF Promise!vars
  <1>3. CASE /\ c \in Informed
             /\ Applied(c)' <=> Applied(c)
             /\ ReplyTo(c) = "none" /\ ReplyTo(c)' # "none"
    <2>1. applied' = applied
      BY <1>1, <1>3
    <2>2. reply' = [reply EXCEPT ![c] = ReplyTo(c)']
      <3> DEFINE next(d) == ReplyTo(d)'
      <3>1. \A d \in Informed : next(d) = IF d = c THEN next(c) ELSE ReplyTo(d)
        BY <1>1
      <3> HIDE DEF next
      <3>2. [d \in Informed |-> next(d)] = [reply EXCEPT ![c] = next(c)]
        BY <3>1
      <3> QED
        BY <3>2 DEF next
    <2>3. ReplyTo(c)' \in Promise!Replies \ {"none"}
      BY <1>3 DEF ReplyTo, Promise!Replies
    <2>4. Promise!Reply(c, ReplyTo(c)')
      BY <1>3, <2>1, <2>2 DEF Promise!Reply, AnswerIsTrue
    <2> QED
      BY <1>3, <2>3, <2>4 DEF Promise!Next
  <1>4. CASE /\ c \in Informed
             /\ ~Applied(c) /\ Applied(c)'
             /\ ReplyTo(c)' = ReplyTo(c)
             /\ \E a \in Attempts : txn[c][a] = "committing"
    <2>1. applied' = applied \union {c}
      BY <1>1, <1>4
    <2>2. reply' = reply
      BY <1>1, <1>4
    <2>3. ReplyTo(c) \in {"none", "unknown"}
      BY <1>4 DEF AnswerIsTrue, ReplyTo
    <2>4. Promise!Apply(c)
      BY <1>4, <2>1, <2>2, <2>3 DEF Promise!Apply
    <2> QED
      BY <1>4, <2>4 DEF Promise!Next
  <1>5. CASE Client(c)
    BY <1>2, <1>3, <1>5, ClientAppliesNothing DEF ReplyTo
  <1>6. CASE Server(c)
    BY <1>2, <1>4, <1>6, ServerAnswersNobody DEF ReplyTo
  <1> QED
    BY <1>5, <1>6

\* The decorator implements AtomicCalls for every call whose driver reports a
\* killed session: a return means that the write is in the database, a failure
\* not marked as happening during a commit that it is not and never will be.
THEOREM Refinement == Spec => KeepsPromise
  <1>1. Init => Promise!Init
    BY MaxAttemptsAssumption
    DEF Init, Promise!Init, Applied, ReplyTo, Informed, Attempts
  <1>2. IInv /\ IInv' /\ [Next]_vars /\ (\A d \in Informed : AnswerIsTrue(d) /\ AnswerIsTrue(d)')
        => [Promise!Next]_(Promise!vars)
    <2>1. CASE UNCHANGED vars
      BY <2>1 DEF vars, Promise!vars, Applied, ReplyTo
    <2> QED
      BY <2>1, CallKeepsPromise DEF Next
  <1>3. IInv => \A d \in Informed : AnswerIsTrue(d)
    BY AnswersAreTrue
  <1>4. (\A d \in Informed : AnswerIsTrue(d)) /\ (\A d \in Informed : AnswerIsTrue(d))'
        => \A d \in Informed : AnswerIsTrue(d) /\ AnswerIsTrue(d)'
    OBVIOUS
  <1> QED
    BY <1>1, <1>2, <1>3, <1>4, Invariance, PTL DEF Spec, KeepsPromise, Promise!Spec
=============================================================================
