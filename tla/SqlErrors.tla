------------------------------ MODULE SqlErrors ------------------------------
(***************************************************************************)
(* How grad_pylib.core.db classifies the failures pyodbc reports.          *)
(*                                                                         *)
(* A driver error is pyodbc's args: the SQLSTATE (args[0]) and the message *)
(* (args[1]), abstracted to what the code looks for in it: the diagnostics *)
(* in order, each with its native code and the ODBC function that failed,  *)
(* and the set of telling phrases the text contains.                       *)
(***************************************************************************)
EXTENDS Naturals, Sequences

\* _driver_message is "" when the driver error has no second argument.
NoMessage == [diagnostics |-> << >>, phrases |-> {}]
DriverError(sqlstate, message) == [sqlstate |-> sqlstate, message |-> message]
NoDriverError == DriverError("none", NoMessage)

Message(native, fn, phrases) ==
    [diagnostics |-> << [native |-> native, fn |-> fn] >>, phrases |-> phrases]

\* "(SQLEndTran" in the message: the ODBC call that commits, and also the one
\* that rolls back.
DuringCommit(driver) ==
    \E i \in 1..Len(driver.message.diagnostics) :
        driver.message.diagnostics[i].fn = "SQLEndTran"

\* External: the SQLSTATEs the mssql+pyodbc dialect takes for a lost connection.
\* HYT00, an ODBC timeout, is one of them, and is how a lock timeout is reported.
DialectIsDisconnect(driver) ==
    driver.sqlstate \in {"08S01", "01000", "01002", "08003", "08007", "08S02", "08001",
                         "HYT00", "HY010", "10054"}

\* Faulty variant: only the dialect's own SQLSTATEs count.
IgnoreTermination(driver) == FALSE

\* A session the server ended is reported as a general HY000 error.
DetectTerminatedSession(driver) ==
    driver.sqlstate = "HY000" /\ "terminated by the server" \in driver.message.phrases

(***************************************************************************)
(* The exception a caller sees.  SQLAlchemy wraps a driver error after the *)
(* handle_error listeners ran, and invalidates the connection when the     *)
(* dialect or the first listener called it a disconnect.                   *)
(***************************************************************************)
Raised(driver) ==
    [class       |-> "DBAPIError",
     invalidated |-> DialectIsDisconnect(driver) \/ DetectTerminatedSession(driver),
     orig        |-> driver]

\* Any exception that is not a DBAPIError, and the absence of one.
OtherException(class) == [class |-> class, invalidated |-> FALSE, orig |-> NoDriverError]
NoException == OtherException("none")

IsDisconnectError(exc) == exc.class = "DBAPIError" /\ exc.invalidated

\* Faulty variant: a connection lost during commit counts as safe to retry.
RetryAnyDisconnect(exc) == IsDisconnectError(exc)

IsRetryableDisconnect(exc) == IsDisconnectError(exc) /\ ~DuringCommit(exc.orig)

(***************************************************************************)
(* parse_mssql_error: the first native diagnostic decides.                 *)
(***************************************************************************)
NativeCode(driver) ==
    IF driver.message.diagnostics = << >> THEN 0
    ELSE driver.message.diagnostics[1].native

ErrorType(driver) ==
    LET code == NativeCode(driver) IN
    CASE code = 1205                   -> "deadlock"
      [] code = 1222                   -> "lock_timeout"
      [] code = 3960                   -> "rcsi_conflict"
      [] code \in {2601, 2627}         -> "duplicate_key"
      [] code = 547                    -> IF "CHECK constraint" \in driver.message.phrases
                                          THEN "check_constraint" ELSE "foreign_key"
      [] code = 515                    -> "not_null"
      [] code \in {2628, 8152}         -> "data_truncation"
      [] code \in {241, 245, 8114}     -> "data_conversion"
      [] code \in {220, 8115}          -> "arithmetic_overflow"
      [] code = 8134                   -> "divide_by_zero"
      [] code = 207                    -> "invalid_column"
      [] code = 208                    -> "invalid_object"
      [] code = 229                    -> "permission_denied"
      [] code = 18456                  -> "login_failed"
      [] OTHER                         -> "unknown"

TransientTypes == {"deadlock", "lock_timeout", "rcsi_conflict"}

\* Faulty variant: lost connections are left to the caller.
RetryContentionOnly(exc) ==
    exc.class = "DBAPIError" /\ ErrorType(exc.orig) \in TransientTypes

IsTransientConflict(exc) ==
    /\ exc.class = "DBAPIError"
    /\ \/ IsRetryableDisconnect(exc)
       \/ ErrorType(exc.orig) \in TransientTypes

(***************************************************************************)
(* Driver errors the models raise.                                         *)
(***************************************************************************)
Deadlock        == DriverError("40001", Message(1205, "SQLExecDirectW", {}))
RcsiConflict    == DriverError("40001", Message(3960, "SQLExecDirectW", {}))
LockTimeout     == DriverError("HYT00", Message(1222, "SQLExecDirectW", {}))
\* SQL Server appends 3621 ("the statement has been terminated") to the primary code.
DuplicateKey    == DriverError("23000",
                     [diagnostics |-> << [native |-> 2627, fn |-> "SQLExecDirectW"],
                                         [native |-> 3621, fn |-> "SQLExecDirectW"] >>,
                      phrases |-> {}])
LostConnecting  == DriverError("08001", Message(10060, "SQLDriverConnect", {}))
LostExecuting   == DriverError("08S01", Message(10054, "SQLExecDirectW", {}))
LostFetching    == DriverError("08S01", Message(0, "SQLMoreResults", {}))
LostEndingTran  == DriverError("08S01", Message(10054, "SQLEndTran", {}))
TerminatedByServer ==
    DriverError("HY000", Message(0, "SQLExecDirectW", {"terminated by the server"}))
BusyConnection  == DriverError("HY000", Message(0, "SQLExecDirectW", {}))
=============================================================================
