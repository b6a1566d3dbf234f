# grad-pylib in TLA+

`grad_pylib` is a library that FastAPI services share: access to SQL Server
through SQLAlchemy and pyodbc, retries, an upsert, caches, authorization, query
building, migrations and test databases. This directory holds TLA+ models of
its code, the TLC configurations that check them, and proofs checked by TLAPS.
Paths below are relative to the repository; `core/` is `src/grad_pylib/core/`.

## 1. The system

| Part | Code | State it keeps | Operations | Hard because |
|---|---|---|---|---|
| Error classification | `core/db.py` 71-116, 144-149, 627-758 | none | `is_disconnect_error`, `is_retryable_disconnect`, `parse_mssql_error`, `_is_transient_conflict` | every decision to retry rests on it |
| Retry decorators | `core/db.py` 761-881 | attempt number; the session's transaction | `retry_on_transient_conflict`, `retry_on_disconnect` | lost connections, late commits, failing rollbacks |
| ORM upsert | `core/db.py` 884-967 | the session's identity map, row locks on the server | `orm_upsert` | concurrent upserts, deadlocks, stale objects |
| Pool and listeners | `core/db.py` 52-195, 296-335 | connections, `info` flags, server sessions | checkout, errors, reset and return | what one user leaves to the next; silent drops |
| Runtimes | `core/db.py` 338-624 | engine, session factory, a lock for each | `get_engine`, `get_session_factory`, `session`, `background_session` | double-checked locking, failing resolvers |
| Lazy cache | `core/cache.py` | value, lock | `get`, `invalidate` | a change while a load is in progress |
| Settings cache | `core/config.py` 106-127 | factory, `lru_cache` | `configure_settings_factory`, `get_settings` | replaced only before requests are served |
| Batches and result sets | `core/db.py` 198-335, `core/multiquery.py` | the position in a batch's results | `mssql_skip_rowcounts`, `read_all_result_sets`, `execute_script_batch` | errors behind unread results; closing once |
| Migrations | `tools/migrate.py` | history table | `run_migrations` | two runners, crashes |
| Test databases | `testing/fixtures.py` | container, databases, application lock | provisioning, per-test cleanup | parallel workers, partial failure |
| Authorization | `core/auth.py` | request state, the request's session | policy dependency, override, evaluation | what an early step leaves for a later one |
| Querying and filtering | `core/querying.py`, `core/filtering.py` | none | filters, sorts, pages | two builders that must agree; edges |
| Exception handlers | `core/exceptions.py` | none | 503 for lost connections | an unknown outcome told to a client |
| Request logging | `core/logging.py` | context variables | `bind_request_id_context` | isolated by asyncio |
| The rest | `core/params.py`, `schemas.py`, `decimal.py`, `time.py`, `testclient.py`, `tools/` generators, `testing/` parity | none | declarations, file output | nothing concurrent |

How they interact. An endpoint gets a session from a `NamedDatabase`, which
asks its `DatabaseRuntime` for the session factory and through it for the
engine; the engine's pool hands out connections, and the listeners installed on
the engine see every error (`handle_error`) and every return to the pool
(`reset`). A write function decorated with `retry_on_transient_conflict` owns
the session's transaction and may call `orm_upsert` any number of times; the
decorator decides by the error classification whether to run it again. Before
the endpoint, the authorization dependency may have used the same session, and
must have ended its transaction. Errors nobody handles reach the 503 handler.

What makes each part correct:

* **Classification and decorator.** A write takes effect at most once; a
  return means it did; a failure other than one while the transaction was
  ending means it never will; transient failures are retried up to the limit;
  nothing stays open while the decorator sleeps.
* **Upsert.** Transactions of upserts behave as if they ran one at a time;
  `insert_only` values never touch an existing row; edits are not lost;
  deadlocks are survived within the attempts there are.
* **Pool.** Nobody inherits an open transaction or a failed batch's settings;
  a dead session fails one statement; no silently dropped connection is used.
* **Runtimes.** One engine each, shared only when complete, and a failing
  resolver blocks nobody.
* **Caches.** No value older than the last invalidate; one load shared.
* **Batches.** An error of any statement is reported; cursors closed once.
* **Migrations, provisioning.** Each script takes effect once, across runners
  and crashes.
* **Authorization.** A request is let through only by roles that survived the
  override, leaves no stale user behind and returns its session clean.

`PROJECT.json` lists every component with its status and, under `hazards`, the
places where the code could go wrong in ways a test hardly reaches.

## 2. Modules

| Module | Models | Runs | Proofs |
|---|---|---|---|
| `SqlErrors` | classification; what pyodbc's errors look like | through the next three | lemmas in `RetryTransactionProofs` |
| `AtomicCalls` | abstract: what the decorator promises | refined by `RetryTransaction` | yes |
| `RetryTransaction` | `retry_on_transient_conflict` and the server behind it | `retry`, `retry_hidden_kill` | `RetryTransactionProofs` |
| `SerialUpserts` | abstract: transactions of upserts, one at a time | refined by `OrmUpsert` | `OrmUpsertProofs` |
| `OrmUpsert` | `orm_upsert`, extending `RetryTransaction` | `upsert` | `OrmUpsertProofs` |
| `ConnectionPool` | pool, listeners, driver pooling | `pool` | `SharedStateProofs` |
| `DatabaseRuntime` | runtimes and named databases | `runtime` | `SharedStateProofs` |
| `LazyValueCache` | the lazy cache | `cache` | `SharedStateProofs` |
| `Comprehensions` | what a comprehension keeps of a sequence | through `Auth` and `Filters` | lemmas in `RequestProofs` |
| `Auth` | the decisions of `core/auth.py` that keep no state | through `Request` | lemmas in `RequestProofs` |
| `Request` | one request: policies, endpoint, handlers; composes `Auth`, `SqlErrors` and `AtomicCalls` | `request` | `RequestProofs` |
| `MultiResult` | a batch with several results over one cursor | `results` | `MultiResultProofs` |
| `Migrate` | concurrent runners of `run_migrations` and the server behind them | `migrate` | `MigrateProofs` |
| `Provisioning` | the test container and the setup lock | `provision` | `ProvisioningProofs` |
| `Filters` | keys, conditions, sorting, pagination, as operators | through `Querying` | lemmas in `QueryingProofs` |
| `Querying` | requests answered by the three query builders | `query`, `filter_keys` | `QueryingProofs` |

`MC*` modules give constants that a `.cfg` cannot write. Operators whose comment
starts with *Faulty variant* belong to no specification: each is a plausible bug
that is put in the place of the definition after it to show that a property
notices it (`PROJECT.json`, `mutants`).

### SqlErrors

A driver error is pyodbc's `args`: a SQLSTATE and a message. Of the message we
keep what the code searches for: the diagnostics in order, each with its native
code and its failing ODBC function, and a set of phrases. `Raised` is the
`DBAPIError` SQLAlchemy makes of it after the listeners ran. What the dialect
takes for a disconnect is external. pyodbc names `SQLEndTran` for a rollback
too, so a connection lost during a rollback is reported as lost "during commit"
and is not retried although it safely could be: the model keeps this. The dialect counts
the SQLSTATE HYT00 among its disconnects, which a lock timeout (error 1222) has too: its
connection is given up although it works.

### RetryTransaction

The client and the server are separate. `pc`, `attempt`, `raised` and `inTx` are
what the decorator, the session and tenacity know; `txn[c][a]` is what SQL
Server did with attempt `a` of call `c`. A connection can be lost at any
statement, while committing, or while rolling back, or be given up for a rejected
statement's SQLSTATE; the server then keeps the transaction (`orphaned`) until it notices; a commit request in flight
(`committing`) is obeyed or dropped at any later time, even after the caller was
answered; an administrator can kill the session, which the client learns at its
next statement, or, with result sets unread, not at all (`hidden`).

| Code | Actions |
|---|---|
| `_transaction_session` | `WrongSessionCount`, `AlreadyInTransaction`, `Accept` |
| `attempt`: `with session.begin()` | `Begin`, `FunctionReturns`, `FunctionRaises`, `Rollback*`, `Commit*` |
| the decorated function | `StatementSucceeds`, `StatementRejected`, `CannotConnect`, `ConnectionLost` |
| tenacity's `retry`, `stop`, `reraise` | `Retry`, `GiveUp` |
| SQL Server and the network | `ServerCommits`, `ServerDropsCommit`, `ServerNoticesLoss`, `Kill`, `KillMidResults` |

The waits between attempts have no effect on the state and are left out: any
other call's steps may happen at `begin`. `AtomicCalls` is the promise, and
`KeepsPromise` its refinement, with `applied` and `reply` computed from the
server's and the caller's side. It covers the calls whose kills the driver
reports; `HiddenKills` are the others.

### OrmUpsert

Extends `RetryTransaction` with the committed table, the locks and uncommitted
writes of each attempt, and each session's identity map (`loaded`, `pending`).
`Lookup` is the flush of pending edits and the locking, refreshing query;
`Store` is the update or insert with its flush, and the edit the caller may make
to the record it gets back. The lookup's `UPDLOCK` conflicts with other lookups
of the row and `HOLDLOCK` with those of the gap where a missing row would be, so
one lock on the key stands for both. A call waits in line for a lock; a cycle of
waiters is a deadlock, and one of them gets error 1205 as `DeadlockVictim`. An
abandoned session (its connection is lost, the server has not noticed) holds its locks
but waits for none, so it is in no cycle: others, a later attempt of the same call among
them, wait until the server unwinds it.
A session may come with objects it loaded in an earlier transaction, as the
factory sets `expire_on_commit=False`, and a rollback expires them.
`SerialUpserts` runs whole transactions one at a time; `Serializable` says the
table and the set of applied calls change only like that.

### ConnectionPool

Each slot is a connection record with its physical connection. `left` is what
the server session holds: an open transaction, settings a failed batch did not
restore (`failed`), and settings a batch left on purpose (`kept`), which a clean
return keeps by design. `HandleError` is the three `handle_error` listeners in
the order they are installed in and what SQLAlchemy does with the verdict: a
lost connection is closed and every other one of the pool is marked for
replacement; after any other error the record is flagged for a reset. `Return*`
is `_reset_after_error` and SQLAlchemy's rollback. A connection can be killed, or
dropped silently by a firewall once it has been idle long enough. Closing a
connection would `park` its session with the driver manager if pyodbc's pooling
were on. An application that opens a pyodbc connection before the first engine
is outside the contract that `disable_pyodbc_pooling` documents, and outside the
model. So are detached connections (`terminate_only`) and the wording of
`_log_disconnect`.

### DatabaseRuntime

Every read and write of shared state is a step, also the unlocked first looks.
`get_session_factory` calls `get_engine` while it holds its own lock; the engine
is built by `Disable`, `Create`, four `Install` steps and `Publish`; the resolver
may raise, for any reason and any number of times, which leaves both `with`
blocks. Each named database is a runtime of its own; `pooling` is shared by the
process.

### LazyValueCache

`get` is split at every shared access: the unlocked look, the lock, the second
look, the load, which reads its source and then takes its time, and the store.
Writers change the source and then invalidate. The cache has one value whatever
the arguments (`get("second")` returns what `get("first")` loaded, as its test
says), so arguments are left out.

### Auth and Request

A text is a word and how it is written (case, surrounding space), so that the
normalisation of roles, keys and environments is modelled by what it does and
compares. `Auth` has the operators: claims, identities, roles, the API key's four
refusals in their order, from the hosts the application allows, the conditions under
which an application starts.

`Request` is one HTTP request from start-up on. FastAPI runs the policy
dependencies one after the other; each has the Azure scheme in front of it, which
FastAPI calls once for each scheme and request (`SchemeIsCached`: the policies
with and without overrides have a scheme each). What the upstream scheme rejects, it
rejects with 401 or 403.

| Code | Actions |
|---|---|
| `AuthConfiguration`, `build_auth_runtime`, `require_policy` | `RefusesToStart`, `BuildsRuntimes` |
| the Azure scheme of `build_azure_scheme` | `KeepsAzureUser`, `SchemeRejects`, `SchemeReturnsNone`, `SchemeReturnsUser` |
| `authenticate_with_api_key`, the bearer branch | `RejectKey`, `AcceptKey`, `RejectMissingToken`, `RejectClaims`, `AcceptToken` |
| `_apply_override` and the override loader | `NoOverride`, `LoadOverride`, `OverrideLoaded`, `OverrideRaises`, `OverrideRollbackFails` |
| `_evaluate_policy` | `RefuseText`, `Grant`, `Deny` |
| `retry_on_disconnect` | `BeginRead`, `Query*`, `Read*`, `RollBackToRetry`, `NoRetry`, `RollbackSession*` |
| the decorated write | `Write*`, by its promise `AtomicCalls` |
| `core/exceptions.py`, session dependencies | `DatabaseDisconnectHandler`, `ApiErrorHandler`, `DefaultHandler`, `CloseSessions` |

The decorated write is not modelled a second time: `Request` uses the abstract
`AtomicCalls`, which `RetryTransaction` is proved to implement. That is why a
write whose outcome is unknown may still be applied after the answer
(`WriteApplied`). The application's own code is external: its override loader may
return any user (`with_roles_override` makes a list of a single text's characters; a user
that carries the text itself is refused by `_evaluate_policy`), begin a transaction or
not, and raise; its endpoints may raise
anything.

### MultiResult

A batch is a sequence of statements, each of which will produce a row count or a
rowset and may fail. The server runs ahead of the client (`ServerRunsAhead`), and an
error is only raised at the place in the results where it belongs. The functions
differ in `mode`: `skip` is the `mssql_skip_rowcounts` option while SQLAlchemy
executes, `read` is `read_all_result_sets` on the result it made, `script` is
`execute_script_batch`. `ReadAllFails` and `CloseAfterFailure` are the ways the
cursor is closed after an error. A session killed while results are unread looks
to the driver like the end of the results (`AdvanceSeesEnd`); `NothingLost` and
`DataIsComplete` except it, since the code cannot know, and the run
`retry_hidden_kill` is about what follows from it. Rows are counted, not
modelled; mapping them to sections and models happens on complete data.

### Migrate

Each runner is a program counter along `run_migrations`; every file is one
transaction with its script and its history row. The server's side is `txn`, as in
`RetryTransaction`: a runner that crashes leaves a transaction that is noticed
later, or a commit that is carried out later, possibly after the runner was
started again and has read the history. Runners may be deployed with different
directories, one of which has an edited file. Nothing in the code keeps two runners
apart; what does is the primary key of the history (`RowIsLocked`,
`InsertCollides`), and `HistoryIsTrue` shows that this is enough. Scripts that end
the transaction themselves are outside the model, as the code's contract excludes
them: their effects could not be undone.

### Provisioning

Processes of a parallel test run provision one database in the container that the
controller started. The lock of `sp_getapplock` belongs to the session, so the model
is about sessions: one that its client has lost stays on the server until it is
noticed, keeps the lock, and may still carry out the batch that was in flight.
The script runs in AUTOCOMMIT, so what a failed run did stays: the next process
finds the database and returns. `ReturnedMeansProvisioned` says exactly when the
database may be incomplete (its creator failed or lost its session halfway), which
the code accepts for databases that tests create anew.

### Filters and Querying

`Filters` translates the pure functions: keys and their parsing, coercion of
values, the conditions that `apply_filters`, `where_fragment` and
`build_where_clause` build, the parameters of raw SQL, sorting and pagination. A
name is the sequence of its parts, because the separator is found in it. A WHERE is
a set of clauses and a clause a set of predicates: the code joins them with AND in the
order of the request, which decides nothing. What does follow the request's order, the
number in a generated parameter's name, is kept. Fixed clauses only name parameters the
query has a value for, as a statement with an unbound one does not run.
`Querying` lets a request collect filters in any order and a page, and answers it
in all three ways. `SelectsTheSameRows` compares each with the rows that are
*meant*, by a definition of its own that knows nothing of clauses or parameters.

Two things it showed besides the finding below. A sort that is not empty but blank
(`","`, or spaces) is truthy, so that `_sort_clauses` does not fall back on the default
sort, and names no field. A page then has an OFFSET without an ORDER BY, which does not
compile for SQL Server, and `order_by_fragment` renders nothing although its docstring
says that it does so only when neither sort is set. `OffsetsHaveAnOrder` exempts a blank
sort by name, and no property covers it; it is a hazard of its own. And raw SQL renders `ilike` as ILIKE, which SQL Server does
not have; `QUERYING.md` says so, and `SelectsTheSameRows` exempts it.

## 3. Runs

| Run | Instance | Distinct states |
|---|---|---|
| `retry` | 2 calls, 2 attempts, one of the calls in `HiddenKills`, sessions 0..2 | 131 thousand |
| `retry_hidden_kill` | the same, 3 attempts | stops at the violation, after 1 thousand |
| `upsert` | 2 transactions of 3 and 2 upserts over 2 keys in opposite orders, 4 attempts, 1 lost connection | 116 thousand |
| `pool` | 2 users, 2 records, 1 idle connection kept, recycle after 1 tick, firewall after 2 | 66 thousand |
| `runtime` | 3 threads, 2 runtimes, 3 engine identities, 1 call each | 126 thousand |
| `cache` | 2 readers with 3 gets, 2 writers, 3 versions | 43 thousand |
| `request` | 12 applications (6 start), 5 endpoints with one or two policies, 18 requests | 42 thousand |
| `results` | batches of up to 3 statements, rowsets of up to 2 rows, fetched one by one, 3 dialects | 952 thousand |
| `migrate` | 2 runners, 2 runs each, 2 files, 3 releases | 277 thousand |
| `provision` | 3 processes, a script of 3 batches, 2 starts of the container | 413 thousand |
| `query` | 2 columns, 3 values and NULL, up to 2 of 24 filters, 5 sorts, 2 limits and none, 5 offsets | 286 thousand |
| `filter_keys` | a model with a field `class_` | stops at the violation |

What they show, and why the bounds are enough:

* `retry`. Two attempts are the fewest with a retry and a last attempt, so that
  `AppliedAtMostOnce` and `NoEarlyGiveUp` can fail. Calls do not interact here
  (each has a session of its own), so two show the difference between a call in
  `HiddenKills` and one that is not. The proofs cover every number of both.
* `upsert`. Two calls over two keys in opposite orders are the smallest
  deadlock. One plan upserts a key twice with an edit between; one payload
  equals what an old row holds (an update that sends nothing). Each key may have
  a row or none, each session may have loaded them or not. `MaxLosses` bounds
  connections lost while executing, so that `ContentionIsBounded` can say how
  many attempts contention alone takes: two calls over two keys deadlock at most
  once, as the survivor has both rows and the victim's next attempt finds it done.
  With one lost connection the bound is three attempts, so four are allowed.
  With a third key or call the same call can be the victim until its attempts run
  out, so the property is about two of each.
* `pool`. Two users and two records are the fewest in which a connection passes
  from one to another while a second one is invalidated by the first one's
  error. `PoolSize` 1 makes the second an overflow connection. Ages saturate one
  tick above the firewall's limit: beyond it nothing tells them apart. The run
  uses symmetry of users and records: no property names one, and none is a
  liveness property.
* `runtime`. Three threads let two race in one runtime while a third one is in
  the other, or all three race in one. Engine identities are not reused, and one
  more than the code should need is there for `OneEngine` to fail.
* `cache`. Three versions and two writers allow a change during a load that a
  first change caused. Three gets let a reader come back after both.

* `request`. Two roles, one of them configured in two spellings, and applications
  that differ in one setting each, so that every refusal to start and every
  refusal of a key happens. One of them allows keys from a host of its own, written in
another case than the request's. Two policies with and without overrides in both orders
  are the fewest in which one dependency meets what another one left. A read with
  two sessions can fail to roll back the second one; two attempts are all
  `retry_on_disconnect` makes.
* `results`. Three statements allow a failing one before, between and behind two
  others; two rows with a fetch size of one make a rowset take several fetches
  and a failure come after the first.
* `migrate`. Two files are the fewest with an order; two runs for each runner
  allow a restart that meets the first run's late commit. A third runner adds
  nothing that a second run of one does not: `MigrateProofs` covers every number.
* `provision`. Three processes let one wait while a second one takes over from a
  first one that died. The database is created by the second of three batches,
  so that a script can fail before, at and after it.
* `query`. Two filters are the fewest whose parameters, or an OR in front of
  them, can meet. One column has a name that is no SQL identifier. Values on both
  sides of the one that is compared with, and NULL, tell all operators apart.

`retry_hidden_kill` is a disagreement between code and documentation: the
docstring of `install_terminated_session_detection` and
`references/transactions.md` say without exception that a terminated session is
treated as a lost connection; when result sets are left unread, pyodbc hides it
and a decorated write returns without having been applied.
`DB-IMPLEMENTATION.md` and an integration test know the driver's behaviour.

`filter_keys` is a bug: `filter_key` joins a field and an operator with `__`, and
`_parse_filter_key` takes the key apart at the first `__`. A field whose name ends in
an underscore (`class_`), or has two inside, is declared, documented in the API, and
refused with 400, although `create_filter_model` promises filters that are suitable
for `apply_query`.

Runs without deadlock checking stop on purpose: calls, requests, runs and processes
end, and nobody has to make another. In `pool` somebody can always do something, and deadlock is checked.

## 4. Fairness

Only weak fairness is used.

* `RetryTransaction`, `OrmUpsert`: each call's client keeps going, since every
  statement and driver call ends or times out and tenacity makes a bounded
  number of attempts; SQL Server settles a commit it was sent and notices a lost
  connection. Nobody has to kill a session. For upserts, SQL Server queues
  waiters for a lock and its monitor always picks a victim.
* `DatabaseRuntime`, `LazyValueCache`: a thread that can run is scheduled, and
  loaders and resolvers end. Python's locks are not fair, so a waiting thread
  may be overtaken; it gets the lock in the end because calls are finite
  (`MaxCalls`, `MaxGets`, `MaxVersion`), and in the code because an engine or a
  cached value, once there, keeps callers from the lock. Nobody has to call.
* `Request`: every dependency, query, loader and handler returns or raises, and a
  decorated write is answered, which `EverythingSettles` shows of
  `RetryTransaction`. A commit that was given up on need never be carried out.
* `Migrate`: a runner that was started keeps going, and SQL Server settles every
  transaction. Nobody has to start a runner; crashes and failures need not happen.
* `Provisioning`: processes keep going, pytest configures and unconfigures, and the
  server notices lost connections. `Kill`, `Crash` and a batch still being carried
  out are not fair.
* `MultiResult` and `Querying` state no liveness: their loops are bounded by the
  batch and by the request.
* `ConnectionPool` states no liveness: checking out, failing and returning are
  the users' choice.

## 5. Proofs

Checked by TLAPS for every value of the constants (any number of calls,
attempts, users and records), from the named assumptions of the modules:
`MaxAttemptsAssumption`, `HiddenKillsAssumption`, `PoolAssumption`,
`RecycleAssumption`, `CacheAssumption`, `RuntimeAssumption`,
`MigrateAssumption`, `UpsertAssumption`, `MultiResultAssumption`,
`ProvisioningAssumption`, `RequestAssumption` and `QueryingAssumption`.

**`RetryTransactionProofs`.** The properties relate attempts that are over, the
current one and those not yet made, and none is inductive. `IInv` adds, for each
call: every earlier attempt's transaction is over for good (it neither is nor can
become committed), later ones have not begun, and `pc` says what the current one
can be: nothing is active once its attempt is decided, and a commit is only in
flight while, or after, the client asked for it. That last part ties the server
to the client's knowledge: a call that is about to retry failed with an
exception that excludes a commit in flight (`ExceptionFacts`, from the
classification lemmas). The proof goes call by call: a step of one call leaves
the others' invariants alone (`UntouchedKeepsInv`), and a step of its own keeps
them, one case for each action of the client (`ClientStep`) and of the server
(`ServerStep`). From `Spec => []IInv` follow `TypeCorrect`, `AtMostOnce`,
`NothingHeld` and `Persistence`, and `Refinement`: a client's step never changes
`applied` and a server's never changes `reply`; a reply is given where the
invariant says it is true; a commit that lands adds a call that was told
nothing yet, or "unknown".

**`SharedStateProofs`.** Three components that the threads of a process share; no
specification has a variable of another one's.

* `ConnectionPool`. The invariant has three independent parts for each record:
  `ResetInv` (what a failed batch left is flagged for reset, an idle connection holds
  neither it nor a transaction, and nothing is parked), `AgeInv` (a connection has
  been idle no longer than it is old, so one that a firewall may have dropped is past
  recycling) and `FailureInv` (a connection that has failed since it ended is closed).
  They give `PoolTypeCorrect`, `NothingInherited`, `OneFailure` and `NoBlockingPing`.
* `DatabaseRuntime`. `LockInv` says which thread has each of the two locks at every
  step, so that at most one builds a runtime's engine. `EngineInv` then says where an
  engine can be: created by nobody, the one its runtime shares, or in the hands of the
  thread that builds it while the runtime shares none; and what is installed on it by
  then. `GotInv` carries this to what a thread returns. They give `RtTypeCorrect`,
  `OnlyEngine` and `SharedWhenReady`.
* `LazyValueCache`. `FreshAfterInvalidate` needs to know how old the value in the
  cache can be. `VersionsInOrder` says that the value, and what a loader that holds
  the lock is about to store, is at least as new as the last invalidate: an invalidate
  cannot come between a load and its store, as it needs the same lock.
  `LoaderIsFirst` (while someone loads, the cache is empty) gives `OneLoad`.

**`MigrateProofs`.** Neither property is inductive: a commit in flight may change the
history at any time. `KeyInv` is the primary key's part: a row that an open
transaction has inserted is of a file that the history does not have, no two
transactions have one of the same file, and every commit in flight brings one. So a
commit adds the first effect of its file. `KnownInv` (what a runner has read stays
true, since rows are never changed) justifies every `Skips`, and `ClientInv` ties a
runner that waits for its commit to the row it will find. Steps that leave the
transaction alone, stay inside it, or fail have a lemma each (`Quiet`, `Within`,
`Failing`).

**`OrmUpsertProofs`.** A step of an upsert is a step of `RetryTransaction` or leaves it
alone (`UpsertStepIsStep`), so everything proved of the decorator holds of the
composition (`UpsertsRetry`, and `UpsertsApplyOnce` as the case that matters most).
`DecisionStillHolds` is not inductive, as a commit of another call replaces rows.
`LocksInv` says that no two transactions hold a key and that each has locked what
it has written; `DecisionInv` that a call between its lookup and its store holds the
key and that its transaction is alive. So the commit wrote another key
(`CommitsStep`). `PendingInv` (unflushed edits are of rows that exist and are locked)
is what makes the flush write rows, and is needed for the types. They give
`UpsertTypeCorrect` and `DecisionHolds`.

`UpsertsAreSerializable` is the refinement of `SerialUpserts`: a commit that is carried
out is that transaction's step, every other step a stutter. `ProgressInv` says of each
call what it has written so far: for every key, what a serial transaction cut off
behind its last store would have left of the row *as it is in the table now*. That is
stable because the key is locked (`LocksInv`), so nobody else's commit can replace the
row under it. `CommitInv` says that a commit in flight has written all of its plan, so
what lands is `After`. A transaction's effect on a row is stated in closed form (to
upsert a row again changes nothing more): a fold over the plan would be a recursive
definition that the provers cannot follow for plans of any length.

`Contention` is about two calls and two rows. Its invariant says which call is *ahead*:
one past its upserts for good, or one in them that has, or is the next to lock
(`Reserved`), every row. `ContentionInv` allows a call the second attempt only while
another one is ahead. Who is ahead stays ahead unless it loses its own connection
(`AheadStays`: a reserved lock goes to who waits for it, and a call that has a row nobody
else holds is in no cycle), and only a deadlock or a lost connection costs an attempt
(`TriesStay`). In a deadlock of two, each has the row the other wants, so neither is
ahead yet, and the victim's locks make the other one so (`SurvivorIsAhead`). The plans
may be of any length and repeat rows in any order; `MaxAttempts` and `MaxLosses` are
arbitrary. The theorem supposes finite sets of calls and rows, without which their
cardinality means nothing.

**`MultiResultProofs`.** `NothingLost` speaks of outcomes; the invariant says what the
client knows on the way. `CleanInv`: it has passed no statement that failed without
raising; `SkipInv`: while it skips row counts it has passed no rowset; `PositionInv`:
it is nowhere the server has not been. All three only as long as the driver has not
taken a killed session for the end of the results (`Told`). `CursorInv` ties the
cursor to the place in the code. Steps fall into three kinds: those that leave the
cursor where it is (`StayingStep`), the driver's moves (`AdvancingStep`) and the
server's (`AheadStep`). They give `NoErrorLost` and `OneClose`.

`ReadsAllResultSets` adds `DataInv`: the result sets collected so far are those of the
rowsets the client has passed, in order and complete, and the rows it is fetching are
the front of the one it is at. When the results end, what was passed is the whole
batch.

**`RequestProofs`.** Eight parts make the invariant `RequestInv`. `FlowInv` says which
dependency runs where; `GrantsInv` that each dependency before it was granted once, and
that a refusal is the last record and ends the request (`EveryOutcomeAudited`).
`RaisedInv` ties exceptions and answers to the outcome that was recorded; `WriteInv`
ties the write's reply, its effect and the answer, from `AtomicCalls` (`AnswerIsTrue`).
`UserInv` says that `request.state` holds the identity that is being evaluated or
nothing (`UserIsCurrent`). `TxInv` says which of the request's sessions may have a
transaction, or a lost connection, at each step (`SessionsAreClean`). `IdentityInv` and
`JustifiedInv` carry where the roles of a user come from to the record of its grant:
the roles the provider issued, or those its own dependency's override left behind
(`GrantsAreJustified`). The lemmas about roles say what `ParseRoles` keeps: each kept
position is the least one with its word, and the n-th of the kept positions exists by
the growth of a cardinality in steps of one. Each action's step is shown for the parts
it disturbs; the others follow from what it leaves alone.

**`QueryingProofs`.** A request with any number of filters is answered at once, so the
invariant only says that an answer is the operators' value for the request as it stands;
the work is in the operators. `ParsedBySplit` takes a key apart at its least separator
(least elements by well-founded induction), `SaysIsParsed` says that a key stands for a
name and an operator exactly if it is parsed into them, `Understands` and
`ConditionsMean` that a filter is normalised exactly if it is usable, and into a
condition that is true of the values the operator is meant for, NULL included.
`ConditionsSelect` puts this together for clauses that are part of the statement. For
raw SQL, `OwnParameter` shows that the parameter of a filter has its value (two filters
have two positions, whatever columns they share), `SayableIsSafe` that nothing else than
the listed reasons makes `build_where_clause` or `bind` refuse, and `TextSelects` that
the text selects the same rows. They give `ThreeWaysSelectTheSameRows`. Its hypothesis
`CleanNames` (no filterable name has two underscores in a row or ends in one) is what
`filter_keys` shows to be needed. `PagesHaveAnOrder` needs no such hypothesis: a sort
that is not blank keeps a token, so its order is not empty. `QueryingAssumption` types
the requests: values have the type of their column, operators other than `in` take one
of them, and a default sort names a field. Fixed clauses have no ILIKE, which SQL Server
lacks, and no IN with a list for its parameter, which would need a binding of its own.

**`ProvisioningProofs`.** A process may still write after it is gone, by the batch in
flight on its abandoned session. `OwnerInv` says that whoever may write
(`Writing`) owns the lock, also then, and so there is one at a time; `TailInv` that
the writer's batches are the last ones of the log, and that no other process has got
as far as creating the database; `ProgressInv` that a process has logged exactly the
batches it has passed. `Provisioned` is kept by every step once it is true. They
give `NoInterleaving` and `ReturnsProvisioned`.

Only model-checked: the violations of `retry_hidden_kill` and `filter_keys`, and every liveness property. TLAPS cannot do liveness under fairness or
`ENABLED`.

## 6. What is not modelled

* The settings cache. `configure_settings_factory` and `get_settings` are three
  statements that run at start-up or in a test's set-up, before threads serve
  requests, so that no load can be in progress while the factory is replaced.
* Parts of modelled components: the names `NamedDatabases` checks, idempotency
  markers of duplicate keys, detached connections, rows split into sections and
  mapped to models, `load_azure_openid_config`, per-test cleanup and
  `create_database`, the E2E server's process, `escape_like`.
* Not at all: declarations without state (`params`, `schemas`, `decimal`,
  `time`), logging set-up (the request ID lives in context variables that
  asyncio keeps apart), code generators and OpenAPI export (file output), model
  parity and the test client (helpers of tests).
* External, by how the code uses them: SQL Server, pyodbc and the driver
  manager, SQLAlchemy's pool, session and exception wrapping, tenacity.
* Simplified: message texts; payload values (a value is who wrote it); a table
  of one model; at most one connection for each user of the pool; time in ticks.

## 7. Plan

The components with logic of their own are modelled, and their safety properties are
proved. Worth doing next: how often contention alone can make a call try again among
any number of transactions and rows, where the same call can be the victim until its
attempts run out; and type invariants as theorems for `Migrate`, `Provisioning` and
`MultiResult`, whose inductive invariants contain them.
