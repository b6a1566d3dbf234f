------------------------------- MODULE Request -------------------------------
(***************************************************************************)
(* One HTTP request of an application built on grad_pylib: start-up wires  *)
(* the policies (core/auth.py), the policy dependencies of the endpoint    *)
(* run one after the other, each behind its Azure scheme, then the         *)
(* endpoint, a read under retry_on_disconnect or a write under             *)
(* retry_on_transient_conflict (core/db.py), and the exception handlers    *)
(* (core/exceptions.py) make an answer of what was raised.                 *)
(*                                                                         *)
(* The override loader reads through the session of `get_session`, which   *)
(* may be the endpoint's own.  The decorated write is AtomicCalls, which   *)
(* RetryTransaction implements.                                            *)
(***************************************************************************)
EXTENDS Auth, SqlErrors

CONSTANTS Apps,      \* applications: settings, roles, policies and auth wiring
          Endpoints, \* policies in their order, kind, Session arguments
          Arriving   \* requests: token, claims, API key, role header, peer

Sessions == {"auth", "main", "other"}

Texts == [word : STRING, spelling : STRING, padded : BOOLEAN]
TextValues == {Nothing, Other} \union [kind : {"text", "list"}, items : Seq(Texts)]

ASSUME RequestAssumption ==
    /\ \A a \in Apps : a.valid_roles \in Seq(Texts)
    /\ \A e \in Endpoints :
           /\ e.dependencies \in Seq([policy : STRING, overrides : BOOLEAN]) \ {<< >>}
           /\ e.sessions \in Seq(Sessions)
    /\ \A r \in Arriving :
           {r.claims.roles, r.claims.role, r.role_header} \subseteq TextValues

VARIABLES pc,
          app, endpoint, request,
          dep,       \* number of the policy dependency that runs
          azure,     \* what the current Azure scheme returned: a user, or none
          user,      \* request.state.user: at most one user
          identity,  \* the user the dependency is about to authorize
          audit,     \* what grad_pylib.audit.auth was told
          tx,        \* each session's transaction: "none", "active", or "broken"
                     \* by a lost connection until it is rolled back
          attempt,   \* how often the read was begun
          raised,    \* the exception on its way to the handlers
          answer,    \* the HTTP status, 0 before there is one
          applied, reply   \* of AtomicCalls

input == <<app, endpoint, request>>
auth == <<dep, azure, user, identity, audit>>
write == <<applied, reply>>
vars == <<pc, input, auth, tx, attempt, raised, answer, write>>

\* The user fastapi-azure-auth stores, with its raw token and claims, and none.
TokenBearing == BaseUser(Email("token bearing", ""), << >>)
Nobody == BaseUser(NoEmail, << >>)

Write == INSTANCE AtomicCalls WITH Calls <- {"write"}

Init == /\ pc = "startup"
        /\ app \in Apps /\ endpoint \in Endpoints /\ request \in Arriving
        /\ dep = 1 /\ azure = FALSE /\ user = {} /\ identity = Nobody /\ audit = << >>
        /\ tx = [s \in Sessions |-> "none"]
        /\ attempt = 0 /\ raised = NoException /\ answer = 0
        /\ Write!Init

Transition(from, to) == pc = from /\ pc' = to

Valid == ValidRoles(app.valid_roles)
Policy == endpoint.dependencies[dep]
Required == PolicyRoles(app.policies, Valid)[Policy.policy]
AuthSession == IF app.shares_session THEN "main" ELSE "auth"

\* HTTPException and ApiError are their status.
Raise(exc) == raised' = exc /\ UNCHANGED <<answer>>
Unauthorized == OtherException("401")
Forbidden == OtherException("403")

Audit(event, before, after) ==
    audit' = Append(audit, [event |-> event, dep |-> dep, before |-> before, after |-> after])

-----------------------------------------------------------------------------
(* Start-up: AuthConfiguration, build_auth_runtime and require_policy for  *)
(* every endpoint.                                                         *)

Starts ==
    /\ ValidSettings(app.settings)
    /\ ValidConfiguration(app.valid_roles, app.policies)
    /\ CanBuildScheme(app.settings, app.allow_placeholders)
    /\ \A i \in DOMAIN endpoint.dependencies :
           endpoint.dependencies[i].policy \in DOMAIN app.policies

RefusesToStart ==
    /\ Transition("startup", "done")
    /\ ~Starts
    /\ UNCHANGED <<input, auth, tx, attempt, raised, answer, write>>

BuildsRuntimes ==
    /\ Transition("startup", "scheme")
    /\ Starts
    /\ UNCHANGED <<input, auth, tx, attempt, raised, answer, write>>

-----------------------------------------------------------------------------
(* The Azure scheme.  with_overrides and without_overrides build runtimes  *)
(* with a scheme each; FastAPI calls a scheme once for each request.       *)

SchemeIsCached ==
    \E i \in 1..dep - 1 : endpoint.dependencies[i].overrides = Policy.overrides

KeepsAzureUser ==
    /\ Transition("scheme", "policy")
    /\ SchemeIsCached
    /\ UNCHANGED <<input, auth, tx, attempt, raised, answer, write>>

\* The upstream scheme chooses the status.
SchemeRejects ==
    /\ Transition("scheme", "raised")
    /\ ~SchemeIsCached /\ request.token # "good" /\ AutoError(app.settings)
    /\ user' = {}
    /\ Audit("failed", Nobody, Nobody)
    /\ \E status \in {Unauthorized, Forbidden} : Raise(status)
    /\ UNCHANGED <<input, dep, azure, identity, tx, attempt, write>>

\* Development leaves a missing or bad token to the policy dependency.
SchemeReturnsNone ==
    /\ Transition("scheme", "policy")
    /\ ~SchemeIsCached /\ request.token # "good" /\ ~AutoError(app.settings)
    /\ user' = {} /\ azure' = FALSE
    /\ UNCHANGED <<input, dep, identity, audit, tx, attempt, raised, answer, write>>

\* Faulty variant: the upstream user stays in request.state.
SchemeLeavesUser ==
    /\ Transition("scheme", "policy")
    /\ ~SchemeIsCached /\ request.token = "good"
    /\ user' = {TokenBearing} /\ azure' = TRUE
    /\ UNCHANGED <<input, dep, identity, audit, tx, attempt, raised, answer, write>>

\* The upstream scheme stores its user, and the override clears it again.
SchemeReturnsUser ==
    /\ Transition("scheme", "policy")
    /\ ~SchemeIsCached /\ request.token = "good"
    /\ user' = {} /\ azure' = TRUE
    /\ UNCHANGED <<input, dep, identity, audit, tx, attempt, raised, answer, write>>

-----------------------------------------------------------------------------
(* The policy dependency: authentication.                                  *)

KeyRefusal == ApiKeyRefusal(app.settings, app, request.host, request.key)

Authenticates(who) ==
    /\ Transition("policy", "override")
    /\ user' = {} /\ identity' = who
    /\ UNCHANGED <<input, dep, azure, tx, attempt, raised, answer, write>>

Rejects(event) ==
    /\ Transition("policy", "raised")
    /\ user' = {} /\ identity' = Nobody
    /\ Audit(event, Nobody, Nobody)
    /\ Raise(Unauthorized)
    /\ UNCHANGED <<input, dep, azure, tx, attempt, write>>

HasKey == request.key # "absent"

RejectKey == HasKey /\ KeyRefusal # "none" /\ Rejects("failed")

\* External: the application's builder makes a user of the role header.
KeyUser == BaseUser(Email("developer", "illinois.edu"),
                    ParseRoles(ClaimList(request.role_header), Valid))

AcceptKey ==
    /\ HasKey /\ KeyRefusal = "none"
    /\ Audit("bypass", Nobody, Nobody)
    /\ Authenticates(KeyUser)

\* Faulty variant: a request without a token is turned away without a record.
RejectSilently ==
    /\ ~HasKey /\ ~azure
    /\ Transition("policy", "raised")
    /\ user' = {} /\ identity' = Nobody
    /\ Raise(Unauthorized)
    /\ UNCHANGED <<input, dep, azure, audit, tx, attempt, write>>

RejectMissingToken == ~HasKey /\ ~azure /\ Rejects("failed")

RejectClaims == ~HasKey /\ azure /\ ~AcceptsClaims(request.claims) /\ Rejects("rejected")

AcceptToken ==
    /\ ~HasKey /\ azure /\ AcceptsClaims(request.claims)
    /\ Authenticates(UserFromClaims(request.claims, Valid))
    /\ UNCHANGED audit

-----------------------------------------------------------------------------
(* The policy dependency: the role override, which reads the database.     *)

NoOverride ==
    /\ Transition("override", "evaluate")
    /\ ~Policy.overrides
    /\ user' = {identity}
    /\ UNCHANGED <<input, dep, azure, identity, audit, tx, attempt, raised, answer, write>>

\* The loader's query begins a transaction, or it answers without one.
LoadOverride ==
    /\ Transition("override", "loading")
    /\ Policy.overrides
    /\ \E state \in {"none", "active"} : tx' = [tx EXCEPT ![AuthSession] = state]
    /\ UNCHANGED <<input, auth, attempt, raised, answer, write>>

\* External: what a loader can make of a user, also one text in place of a list of
\* roles, by with_roles_override or past it.
LoadedUsers(who) ==
    {who, [who EXCEPT !.override = OneText(Head(Valid))]}
    \union {[who EXCEPT !.email = email] :
                email \in {Email("other", "illinois.edu"), Email(who.email.local, "uillinois.edu")}}
    \union {WithRolesOverride(who, value) :
                value \in {List(<< >>), OneText(Head(Valid)), List(<<Head(Valid)>>)}}

OverrideLoaded(after) ==
    /\ Transition("loading", "evaluate")
    /\ tx' = [tx EXCEPT ![AuthSession] = "none"]
    /\ identity' = after /\ user' = {after}
    /\ IF OverrideChanges(identity, after) THEN Audit("overridden", identity, after)
       ELSE UNCHANGED audit
    /\ UNCHANGED <<input, dep, azure, attempt, raised, answer, write>>

\* The loader raises: `finally` rolls back, also over a lost connection.
OverrideRaises(exc) ==
    /\ Transition("loading", "raised")
    /\ exc.invalidated => tx[AuthSession] = "active"
    /\ tx' = [tx EXCEPT ![AuthSession] = "none"]
    /\ Raise(exc)
    /\ UNCHANGED <<input, auth, attempt, write>>

\* The rollback itself loses the connection, whatever the loader did.
OverrideRollbackFails ==
    /\ Transition("loading", "raised")
    /\ tx[AuthSession] = "active"
    /\ tx' = [tx EXCEPT ![AuthSession] = "none"]
    /\ Raise(Raised(LostEndingTran))
    /\ UNCHANGED <<input, auth, attempt, write>>

-----------------------------------------------------------------------------
(* The policy dependency: _evaluate_policy.                                *)

RolesAreText == EffectiveRoles(identity).kind = "text"

RefuseText ==
    /\ Transition("evaluate", "raised")
    /\ RolesAreText
    /\ Raise(OtherException("TypeError"))
    /\ UNCHANGED <<input, auth, tx, attempt, write>>

Grant ==
    /\ pc = "evaluate" /\ ~RolesAreText
    /\ Grants(identity, Required)
    /\ Audit("granted", identity, identity)
    /\ IF dep = Len(endpoint.dependencies)
       THEN pc' = "endpoint" /\ UNCHANGED dep
       ELSE pc' = "scheme" /\ dep' = dep + 1
    /\ UNCHANGED <<input, azure, user, identity, tx, attempt, raised, answer, write>>

Deny ==
    /\ Transition("evaluate", "raised")
    /\ ~RolesAreText /\ ~Grants(identity, Required)
    /\ Audit("denied", identity, identity)
    /\ Raise(Forbidden)
    /\ UNCHANGED <<input, dep, azure, user, identity, tx, attempt, write>>

-----------------------------------------------------------------------------
(* A read under retry_on_disconnect.                                       *)

Arguments == endpoint.sessions

BeginRead ==
    /\ Transition("endpoint", "reading")
    /\ endpoint.kind = "read"
    /\ attempt' = attempt + 1
    /\ UNCHANGED <<input, auth, tx, raised, answer, write>>

Query(s) ==
    /\ pc = "reading" /\ s \in ToSet(Arguments)
    /\ tx[s] = "none"
    /\ tx' = [tx EXCEPT ![s] = "active"]
    /\ UNCHANGED <<pc, input, auth, attempt, raised, answer, write>>

QueryFails(s, driver) ==
    /\ Transition("reading", "caught")
    /\ s \in ToSet(Arguments) /\ tx[s] \in {"none", "active"}
    /\ tx' = [tx EXCEPT ![s] = IF Raised(driver).invalidated THEN "broken" ELSE "active"]
    /\ Raise(Raised(driver))
    /\ UNCHANGED <<input, auth, attempt, write>>

ReadRaises ==
    /\ Transition("reading", "caught")
    /\ \E class \in {"404", "Exception"} : Raise(OtherException(class))
    /\ UNCHANGED <<input, auth, tx, attempt, write>>

ReadReturns ==
    /\ Transition("reading", "closing")
    /\ answer' = 200
    /\ UNCHANGED <<input, auth, tx, attempt, raised, write>>

RollBackToRetry ==
    /\ Transition("caught", "rollback")
    /\ attempt = 1 /\ IsRetryableDisconnect(raised)
    /\ UNCHANGED <<input, auth, tx, attempt, raised, answer, write>>

NoRetry ==
    /\ Transition("caught", "raised")
    /\ attempt = 2 \/ ~IsRetryableDisconnect(raised)
    /\ UNCHANGED <<input, auth, tx, attempt, raised, answer, write>>

\* Faulty variant: only the first Session argument is rolled back.
RollbackFirst ==
    /\ Transition("rollback", "reading")
    /\ tx' = [tx EXCEPT ![Head(Arguments)] = "none"]
    /\ attempt' = attempt + 1
    /\ Raise(NoException)
    /\ UNCHANGED <<input, auth, write>>

\* Faulty variant: the read is tried again without an end.
RollbackUncounted ==
    /\ Transition("rollback", "reading")
    /\ tx' = [s \in Sessions |-> IF s \in ToSet(Arguments) THEN "none" ELSE tx[s]]
    /\ Raise(NoException)
    /\ UNCHANGED <<input, auth, attempt, write>>

RollbackSessions ==
    /\ Transition("rollback", "reading")
    /\ tx' = [s \in Sessions |-> IF s \in ToSet(Arguments) THEN "none" ELSE tx[s]]
    /\ attempt' = attempt + 1
    /\ Raise(NoException)
    /\ UNCHANGED <<input, auth, write>>

\* Arguments are rolled back in their order; the first failure, over another
\* connection that was lost, is raised instead of the first attempt's.
RollbackSessionFails(i) ==
    /\ Transition("rollback", "raised")
    /\ i \in DOMAIN Arguments /\ tx[Arguments[i]] = "active"
    /\ tx' = [s \in Sessions |->
                 IF \E j \in 1..i : Arguments[j] = s THEN "none" ELSE tx[s]]
    /\ Raise(Raised(LostEndingTran))
    /\ UNCHANGED <<input, auth, attempt, write>>

-----------------------------------------------------------------------------
(* A write under retry_on_transient_conflict, by what it promises.         *)

WriteBegins ==
    /\ Transition("endpoint", "writing")
    /\ endpoint.kind = "write" /\ tx["main"] = "none"
    /\ UNCHANGED <<input, auth, tx, attempt, raised, answer, write>>

WriteApplied ==
    /\ pc = "writing" \/ reply["write"] = "unknown"
    /\ Write!Apply("write")
    /\ UNCHANGED <<pc, input, auth, tx, attempt, raised, answer>>

WriteReturns ==
    /\ Transition("writing", "closing")
    /\ Write!Reply("write", "ok")
    /\ answer' = 200
    /\ UNCHANGED <<input, auth, tx, attempt, raised>>

\* What the decorator raises last: contention, a connection lost before any
\* commit, or what the function raised.
WriteFails(exc) ==
    /\ Transition("writing", "raised")
    /\ Write!Reply("write", "failed")
    /\ Raise(exc)
    /\ UNCHANGED <<input, auth, tx, attempt>>

WriteOutcomeUnknown ==
    /\ Transition("writing", "raised")
    /\ Write!Reply("write", "unknown")
    /\ Raise(Raised(LostEndingTran))
    /\ UNCHANGED <<input, auth, tx, attempt>>

-----------------------------------------------------------------------------
(* Exception handlers, and the end of the request's session dependencies.  *)

Answer(status) ==
    /\ Transition("raised", "closing")
    /\ answer' = status
    /\ UNCHANGED <<input, auth, tx, attempt, raised, write>>

DatabaseDisconnectHandler == IsDisconnectError(raised) /\ Answer(503)

ApiErrors == {<<"401", 401>>, <<"403", 403>>, <<"404", 404>>, <<"409", 409>>}

ApiErrorHandler ==
    \E error \in ApiErrors : raised = OtherException(error[1]) /\ Answer(error[2])

\* Faulty variant: what may not be retried is an internal error.
AnswersUnretryable ==
    /\ ~IsRetryableDisconnect(raised)
    /\ raised.class \in {"DBAPIError", "TypeError", "Exception"}
    /\ Answer(500)

DefaultHandler ==
    /\ ~IsDisconnectError(raised)
    /\ raised.class \in {"DBAPIError", "TypeError", "Exception"}
    /\ Answer(500)

CloseSessions ==
    /\ Transition("closing", "done")
    /\ tx' = [s \in Sessions |-> "none"]
    /\ UNCHANGED <<input, auth, attempt, raised, answer, write>>

-----------------------------------------------------------------------------
Authorize ==
    \/ RefusesToStart \/ BuildsRuntimes
    \/ KeepsAzureUser \/ SchemeRejects \/ SchemeReturnsNone \/ SchemeReturnsUser
    \/ RejectKey \/ AcceptKey
    \/ RejectMissingToken \/ RejectClaims \/ AcceptToken
    \/ NoOverride \/ LoadOverride
    \/ \E after \in LoadedUsers(identity) : OverrideLoaded(after)
    \/ \E exc \in {Raised(LostExecuting), OtherException("Exception")} : OverrideRaises(exc)
    \/ OverrideRollbackFails
    \/ RefuseText \/ Grant \/ Deny

Read ==
    \/ BeginRead
    \/ \E s \in Sessions : Query(s)
    \/ \E s \in Sessions, driver \in {LostExecuting, LostFetching, LockTimeout,
                                    BusyConnection} :
           QueryFails(s, driver)
    \/ ReadRaises \/ ReadReturns
    \/ RollBackToRetry \/ NoRetry
    \/ RollbackSessions
    \/ \E i \in DOMAIN Arguments : RollbackSessionFails(i)

DecoratedWrite ==
    \/ WriteBegins
    \/ WriteReturns
    \/ \E exc \in {Raised(Deadlock), Raised(LockTimeout), Raised(LostExecuting),
                  OtherException("409")} :
           WriteFails(exc)
    \/ WriteOutcomeUnknown

Handle ==
    DatabaseDisconnectHandler \/ ApiErrorHandler \/ DefaultHandler \/ CloseSessions

Step == Authorize \/ Read \/ DecoratedWrite \/ Handle

Next == Step \/ WriteApplied

Spec == Init /\ [][Next]_vars

\* Every dependency, query and handler returns or raises, and a decorated write
\* is answered (EverythingSettles of RetryTransaction).  A commit request that
\* was given up on need never be carried out.
FairSpec == Spec /\ WF_vars(Step)

-----------------------------------------------------------------------------
(* Properties.                                                             *)

Granted(d) == {i \in DOMAIN audit : audit[i].event = "granted" /\ audit[i].dep = d}
Failures == {"failed", "rejected", "denied"}

\* The words of the roles the caller came with that the application knows.
IssuedWords ==
    LET words(claim) == {claim.items[i].word : i \in DOMAIN claim.items}
        given(claim) == claim.items # << >> /\ claim # OneText(Lower(""))
        known == {app.valid_roles[i].word : i \in DOMAIN app.valid_roles}
    IN  known \intersect
            (IF HasKey THEN words(request.role_header)
             ELSE IF given(request.claims.roles) THEN words(request.claims.roles)
             ELSE words(request.claims.role))

\* A policy is only granted to a caller whose roles, as the override that ran for
\* this policy left them or else as the identity provider issued them, have one
\* that the policy names in any spelling.  A request with an API key never gets
\* in as the Azure user it may be as well, and outside development never at all.
GrantsAreJustified ==
    \A i \in DOMAIN audit :
        audit[i].event = "granted" =>
            LET g == audit[i]
                policy == endpoint.dependencies[g.dep]
                words == {r.word : r \in RolesOf(g.after)}
                overridden == i > 1 /\ audit[i - 1].event = "overridden"
                                    /\ audit[i - 1].dep = g.dep
            IN  /\ words \intersect {r.word : r \in app.policies[policy.policy]} # {}
                /\ IF overridden THEN policy.overrides /\ g.after = audit[i - 1].after
                   ELSE words \subseteq IssuedWords
                /\ HasKey => /\ IsDevelopment(app.settings)
                             /\ request.key = app.settings.dev_api_key
                             /\ request.host.word \in {h.word : h \in app.allowed_hosts}
                /\ ~HasKey => request.token = "good" /\ request.claims.upn # NoEmail

\* The endpoint only runs when each of its policies was granted once, and whoever
\* is answered 401 or 403 has as the last record of the audit log the reason.
EveryOutcomeAudited ==
    /\ pc \in {"endpoint", "reading", "caught", "rollback", "writing"} =>
           \A d \in DOMAIN endpoint.dependencies : Cardinality(Granted(d)) = 1
    /\ answer \in {401, 403} => audit # << >> /\ Last(audit).event \in Failures
    /\ \A i \in DOMAIN audit : audit[i].event \in Failures => i = Len(audit)

\* request.state never holds the token-bearing Azure user, nor a user whom a
\* later dependency has not confirmed: whoever is turned away before a policy was
\* evaluated leaves none, and the endpoint sees the one its last policy authorized.
UserIsCurrent ==
    /\ user \subseteq {identity}
    /\ pc \in {"override", "loading"} => user = {}
    /\ answer \in {401, 403} /\ Last(audit).event # "denied" => user = {}
    /\ pc = "endpoint" => user = {Last(audit).after}

\* What the authorization did with the session is over when the endpoint begins,
\* so that a decorated write is never refused, and a read never runs over a
\* session whose connection an earlier attempt has lost.
SessionsAreClean ==
    /\ pc = "endpoint" => \A s \in Sessions : tx[s] = "none"
    /\ pc = "reading" => \A s \in Sessions : tx[s] # "broken"

\* A success is a write that was applied; any other answer than 503 is one that
\* was not and never will be; 503 is only given for a lost connection or a timeout.
AnswerIsTrue ==
    /\ answer = 200 /\ endpoint.kind = "write" => applied = {"write"}
    /\ answer \notin {0, 200, 503} => applied = {} /\ reply["write"] # "unknown"
    /\ answer = 503 => raised.orig.sqlstate \in {"08S01", "08001", "HY000", "HYT00"}

\* The client of an application that started is answered, and its sessions are
\* closed.
EveryRequestEnds == <>(pc = "done" /\ (Starts => answer # 0))
=============================================================================
