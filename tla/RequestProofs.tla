---------------------------- MODULE RequestProofs ----------------------------
(***************************************************************************)
(* Theorems about Request, for any applications, endpoints with any number *)
(* of policies and sessions, and requests.                                 *)
(***************************************************************************)
EXTENDS Request, FiniteSetTheorems, WellFoundedInduction, TLAPS

-----------------------------------------------------------------------------
(* Roles: what is parsed is what was there.                                *)

Less == {ss \in Nat \X Nat : ss[1] < ss[2]}

LEMMA LessIsWellFounded == IsWellFoundedOn(Less, Nat)
  BY NatLessThanWellFounded DEF OpToRel, Less

LEMMA Least ==
    ASSUME NEW T \in SUBSET Nat, T # {}
    PROVE  \E x \in T : \A y \in T : x <= y
  <1>1. PICK x \in T : \A y \in T : ~(<<y, x>> \in Less)
    BY LessIsWellFounded, WFMin
  <1>2. ASSUME NEW y \in T PROVE ~(y < x)
    BY <1>1 DEF Less
  <1> QED
    BY <1>2

LEMMA LeastIsMin ==
    ASSUME NEW T \in SUBSET Nat, T # {}
    PROVE  Min(T) \in T
  BY Least DEF Min

Upto(kept, i) == {j \in kept : j <= i}

\* The number of kept positions grows by at most one from each to the next.
LEMMA UptoGrows ==
    ASSUME NEW m \in Nat, NEW kept \in SUBSET (1..m)
    PROVE  /\ IsFiniteSet(kept) /\ Cardinality(kept) \in Nat
           /\ \A i \in Nat : Cardinality(Upto(kept, i)) \in Nat
           /\ Cardinality(Upto(kept, 0)) = 0
           /\ Upto(kept, m) = kept
           /\ \A i \in Nat : Cardinality(Upto(kept, i + 1)) =
                  IF i + 1 \in kept THEN Cardinality(Upto(kept, i)) + 1
                  ELSE Cardinality(Upto(kept, i))
  <1>1. \A j \in kept : j \in Nat /\ 0 < j /\ j <= m
    OBVIOUS
  <1>2. IsFiniteSet(1..m)
    BY FS_Interval
  <1>3. IsFiniteSet(kept)
    BY <1>2, FS_Subset
  <1>4. \A i \in Nat : IsFiniteSet(Upto(kept, i))
    BY <1>3, FS_Subset DEF Upto
  <1>5. \A i \in Nat : Cardinality(Upto(kept, i)) \in Nat
    BY <1>4, FS_CardinalityType
  <1>6. Upto(kept, 0) = {} /\ Upto(kept, m) = kept
    <2>1. \A j \in kept : ~(j <= 0) /\ j <= m
      BY <1>1
    <2> QED
      BY <2>1 DEF Upto
  <1>7. ASSUME NEW i \in Nat
        PROVE  Cardinality(Upto(kept, i + 1)) = IF i + 1 \in kept THEN Cardinality(Upto(kept, i)) + 1
                                                ELSE Cardinality(Upto(kept, i))
    <2>0. \A j \in kept : j <= i + 1 <=> j <= i \/ j = i + 1
      BY <1>1
    <2>1. CASE i + 1 \in kept
      <3>1. Upto(kept, i + 1) = Upto(kept, i) \union {i + 1}
        BY <2>1, <2>0 DEF Upto
      <3>2. i + 1 \notin Upto(kept, i)
        BY DEF Upto
      <3> QED
        BY <3>1, <3>2, <1>4, <2>1, FS_AddElement
    <2>2. CASE i + 1 \notin kept
      <3>1. Upto(kept, i + 1) = Upto(kept, i)
        BY <2>2, <2>0 DEF Upto
      <3> QED
        BY <3>1, <2>2
    <2> QED
      BY <2>1, <2>2
  <1> QED
    BY <1>3, <1>5, <1>6, <1>7, FS_EmptySet, FS_CardinalityType

LEMMA NthIsKept ==
    ASSUME NEW m \in Nat, NEW kept \in SUBSET (1..m), NEW n \in 1..Cardinality(kept)
    PROVE  Nth(kept, n) \in kept
  <1> DEFINE Enough == {i \in Nat : n <= Cardinality(Upto(kept, i))}
  <1>1. m \in Enough
    BY UptoGrows
  <1>2. PICK x \in Enough : \A y \in Enough : x <= y
    BY <1>1, Least
  <1>3. x \in Nat /\ x # 0 /\ n <= Cardinality(Upto(kept, x))
    BY <1>2, UptoGrows
  <1>4. PICK y \in Nat : x = y + 1
    <2>1. x - 1 \in Nat /\ x = (x - 1) + 1
      BY <1>3
    <2> QED
      BY <2>1
  <1>5. Cardinality(Upto(kept, y)) \in Nat /\ Cardinality(Upto(kept, y)) < n
    <2>1. y \notin Enough
      BY <1>2, <1>4
    <2>2. Cardinality(Upto(kept, y)) \in Nat
      BY UptoGrows
    <2> QED
      BY <2>1, <2>2
  <1>6. Cardinality(Upto(kept, x)) = IF x \in kept THEN Cardinality(Upto(kept, y)) + 1
                                     ELSE Cardinality(Upto(kept, y))
    <2>1. Cardinality(Upto(kept, y + 1)) = IF y + 1 \in kept THEN Cardinality(Upto(kept, y)) + 1
                                           ELSE Cardinality(Upto(kept, y))
      BY UptoGrows
    <2> QED
      BY <2>1, <1>4
  <1>7. x \in kept /\ Cardinality(Upto(kept, x)) = n
    BY <1>3, <1>5, <1>6
  <1> QED
    BY <1>7 DEF Nth, Upto

\* A comprehension is a sequence of what was there.
LEMMA OnlyWhatWasThere ==
    ASSUME NEW S, NEW seq \in Seq(S), NEW kept \in SUBSET DOMAIN seq
    PROVE  /\ Only(seq, kept) \in Seq(S)
           /\ \A x \in ToSet(Only(seq, kept)) : \E i \in kept : x = seq[i]
  <1>1. DOMAIN seq = 1..Len(seq) /\ Len(seq) \in Nat
    OBVIOUS
  <1>2. Cardinality(kept) \in Nat
    BY <1>1, UptoGrows
  <1>3. \A n \in 1..Cardinality(kept) : Nth(kept, n) \in kept
    BY <1>1, NthIsKept
  <1>4. \A n \in 1..Cardinality(kept) : Only(seq, kept)[n] = seq[Nth(kept, n)]
    BY DEF Only
  <1>5. DOMAIN Only(seq, kept) = 1..Cardinality(kept)
    BY DEF Only
  <1>6. Only(seq, kept) \in [1..Cardinality(kept) -> S]
    BY <1>1, <1>3 DEF Only
  <1> QED
    BY <1>2, <1>3, <1>4, <1>5, <1>6 DEF ToSet

LEMMA DistinctWhatWasThere ==
    ASSUME NEW S, NEW seq \in Seq(S)
    PROVE  Distinct(seq) \in Seq(S) /\ ToSet(Distinct(seq)) \subseteq ToSet(seq)
  <1> DEFINE kept == {i \in DOMAIN seq : seq[i] \notin {seq[j] : j \in 1..i - 1}}
  <1>1. kept \in SUBSET DOMAIN seq /\ Distinct(seq) = Only(seq, kept)
    BY DEF Distinct
  <1> HIDE DEF kept
  <1>2. /\ Only(seq, kept) \in Seq(S)
        /\ \A x \in ToSet(Only(seq, kept)) : \E i \in kept : x = seq[i]
    BY <1>1, OnlyWhatWasThere
  <1> QED
    BY <1>1, <1>2 DEF ToSet

\* A role that is known has the word of what was asked for.
LEMMA NormalizedRole ==
    ASSUME NEW S, NEW valid \in Seq(S), NEW value, NormalizeRole(value, valid) # NoRole
    PROVE  /\ NormalizeRole(value, valid) \in ToSet(valid)
           /\ NormalizeRole(value, valid).word = value.word
  <1> DEFINE matches == {i \in DOMAIN valid : valid[i].word = value.word}
  <1>1. matches # {} /\ NormalizeRole(value, valid) = valid[Min(matches)]
    BY DEF NormalizeRole
  <1>2. Min(matches) \in matches
    <2>1. matches \in SUBSET Nat
      OBVIOUS
    <2> QED
      BY <2>1, <1>1, LeastIsMin
  <1> QED
    BY <1>1, <1>2 DEF ToSet

LEMMA ParsedRole ==
    ASSUME NEW S, NEW valid \in Seq(S), NEW values, NEW V, values \in Seq(V),
           NEW role \in ToSet(ParseRoles(values, valid))
    PROVE  /\ role \in ToSet(valid)
           /\ \E i \in DOMAIN values : role.word = values[i].word
  <1> DEFINE roles == [i \in DOMAIN values |-> NormalizeRole(values[i], valid)]
             R == {NormalizeRole(values[i], valid) : i \in DOMAIN values}
             kept == {i \in DOMAIN roles : roles[i] # NoRole}
  <1>1. roles \in Seq(R) /\ DOMAIN roles = DOMAIN values
    OBVIOUS
  <1>2. WithoutEmpty(roles) = Only(roles, kept)
    BY DEF WithoutEmpty
  <1>3. ParseRoles(values, valid) = Distinct(Only(roles, kept))
    BY <1>2 DEF ParseRoles
  <1>4. \A i \in DOMAIN values : roles[i] = NormalizeRole(values[i], valid)
    OBVIOUS
  <1>5. kept \in SUBSET DOMAIN roles
    OBVIOUS
  <1> HIDE DEF roles, R
  <1>6. /\ Only(roles, kept) \in Seq(R)
        /\ \A x \in ToSet(Only(roles, kept)) : \E i \in kept : x = roles[i]
    BY <1>1, <1>5, OnlyWhatWasThere
  <1>7. role \in ToSet(Only(roles, kept))
    BY <1>3, <1>6, DistinctWhatWasThere
  <1>8. PICK i \in kept : role = roles[i]
    BY <1>6, <1>7
  <1> QED
    BY <1>1, <1>4, <1>8, NormalizedRole

\* The roles of an application are the ones it configures.
LEMMA ValidRole ==
    ASSUME NEW configured \in Seq(Texts)
    PROVE  /\ ValidRoles(configured) \in Seq(Texts)
           /\ \A role \in ToSet(ValidRoles(configured)) :
                  \E i \in DOMAIN configured : role.word = configured[i].word
  <1>1. ASSUME NEW t \in Texts PROVE Strip(t) \in Texts /\ Strip(t).word = t.word
    BY DEF Texts, Strip
  <1>2. DOMAIN StripAll(configured) = DOMAIN configured
    BY DEF StripAll
  <1>3. \A i \in DOMAIN configured : StripAll(configured)[i] = Strip(configured[i])
    BY DEF StripAll
  <1>4. StripAll(configured) \in Seq(Texts)
    BY <1>1 DEF StripAll
  <1>5. ValidRoles(configured) = Distinct(StripAll(configured))
    BY DEF ValidRoles
  <1> QED
    BY <1>1, <1>2, <1>3, <1>4, <1>5, DistinctWhatWasThere DEF ToSet


-----------------------------------------------------------------------------
(* The inductive invariant.                                                *)

AuthPCs == {"startup", "scheme", "policy", "override", "loading", "evaluate"}
EndpointPCs == {"endpoint", "reading", "caught", "rollback", "writing"}
EndedPCs == {"raised", "closing", "done"}

Exceptions ==
    {Raised(driver) : driver \in {LostExecuting, LostFetching, LostEndingTran,
                                  LockTimeout, BusyConnection, Deadlock}}
    \union {OtherException(class) :
               class \in {"none", "401", "403", "404", "409", "Exception", "TypeError"}}

FlowInv ==
    /\ pc \in AuthPCs \union EndpointPCs \union EndedPCs
    /\ app \in Apps /\ endpoint \in Endpoints /\ request \in Arriving
    /\ dep \in DOMAIN endpoint.dependencies
    /\ pc \in EndpointPCs => dep = Len(endpoint.dependencies)
    /\ pc \notin {"startup", "done"} \/ audit # << >> => Starts
    /\ audit \in Seq({audit[i] : i \in DOMAIN audit})

\* Exceptions are raised once the outcome is recorded, and answered for what
\* they are.
RaisedInv ==
    /\ raised \in Exceptions
    /\ pc \in AuthPCs \union {"endpoint", "reading", "writing"} => raised = NoException
    /\ pc \notin {"closing", "done"} => answer = 0
    /\ raised.class \in {"401", "403"} =>
           pc \in EndedPCs /\ audit # << >> /\ Last(audit).event \in Failures
    /\ raised.class \in {"401", "403"} /\ Last(audit).event # "denied" => user = {}
    /\ answer = 401 => raised.class = "401"
    /\ answer = 403 => raised.class = "403"
    /\ answer = 503 => IsDisconnectError(raised)

WriteInv ==
    /\ applied \subseteq {"write"} /\ reply \in [{"write"} -> Write!Replies]
    /\ pc \in AuthPCs \union (EndpointPCs \ {"writing"}) =>
           applied = {} /\ reply["write"] = "none"
    /\ pc = "writing" => reply["write"] = "none" /\ endpoint.kind = "write"
    /\ pc \in {"reading", "caught", "rollback"} => endpoint.kind = "read"
    /\ endpoint.kind = "read" => applied = {} /\ reply["write"] = "none"
    /\ pc \in EndedPCs /\ reply["write"] = "none" => applied = {}
    /\ reply["write"] = "ok" => applied = {"write"} /\ answer = 200 
    /\ reply["write"] = "failed" => applied = {}
    /\ reply["write"] = "unknown" => raised = Raised(LostEndingTran) /\ answer \in {0, 503}
    /\ answer = 200 /\ endpoint.kind = "write" => reply["write"] = "ok"

UserInv ==
    /\ user \subseteq {identity}
    /\ pc \in {"override", "loading"} => user = {}
    /\ pc = "evaluate" => user = {identity}
    /\ pc \in EndpointPCs =>
           user = {identity} /\ audit # << >> /\ Last(audit).after = identity

TxInv ==
    /\ tx \in [Sessions -> {"none", "active", "broken"}]
    /\ pc \in {"startup", "scheme", "policy", "override", "evaluate", "endpoint"} =>
           \A s \in Sessions : tx[s] = "none"
    /\ pc = "loading" => /\ tx[AuthSession] # "broken"
                         /\ \A s \in Sessions \ {AuthSession} : tx[s] = "none"
    /\ pc = "reading" => \A s \in Sessions : tx[s] # "broken"
    /\ pc \in {"caught", "rollback"} =>
           \A s \in Sessions : tx[s] = "broken" => s \in ToSet(Arguments)

\* Each dependency before the current one was granted once, and a refusal ends
\* the request.
GrantsInv ==
    /\ pc \in AuthPCs =>
           \A d \in DOMAIN endpoint.dependencies :
               IF d < dep THEN Cardinality(Granted(d)) = 1 ELSE Granted(d) = {}
    /\ pc \in EndpointPCs =>
           \A d \in DOMAIN endpoint.dependencies : Cardinality(Granted(d)) = 1
    /\ \A i \in DOMAIN audit :
           audit[i].event \in Failures => i = Len(audit) /\ pc \in EndedPCs

Words(u) == {r.word : r \in RolesOf(u)}

ByKey == /\ IsDevelopment(app.settings)
         /\ request.key = app.settings.dev_api_key
         /\ request.host.word \in {h.word : h \in app.allowed_hosts}
ByToken == request.token = "good" /\ request.claims.upn # NoEmail

\* The user that is evaluated is the one the override of this very dependency
\* left, or one with no other roles than were issued.
OverriddenNow ==
    audit # << >> /\ Last(audit).event = "overridden" /\ Last(audit).dep = dep

IdentityInv ==
    /\ azure => request.token = "good"
    /\ pc \in {"override", "loading", "evaluate"} => IF HasKey THEN ByKey ELSE ByToken
    /\ \A i \in DOMAIN audit : audit[i].event = "overridden" =>
           audit[i].dep \in 1..dep /\ (pc \in AuthPCs \ {"evaluate"} => audit[i].dep # dep)
    /\ pc = "loading" => Policy.overrides
    /\ pc \in {"override", "loading"} => Words(identity) \subseteq IssuedWords
    /\ pc = "evaluate" =>
           IF OverriddenNow THEN Policy.overrides /\ Last(audit).after = identity
           ELSE Words(identity) \subseteq IssuedWords

\* What makes the grant that is record i of the log a justified one.
Overridden(i) == i > 1 /\ audit[i - 1].event = "overridden" /\ audit[i - 1].dep = audit[i].dep

PolicyWords(d) == {r.word : r \in app.policies[endpoint.dependencies[d].policy]}

Justified(i) ==
    /\ Words(audit[i].after) \intersect PolicyWords(audit[i].dep) # {}
    /\ IF Overridden(i)
       THEN endpoint.dependencies[audit[i].dep].overrides /\ audit[i].after = audit[i - 1].after
       ELSE Words(audit[i].after) \subseteq IssuedWords
    /\ IF HasKey THEN ByKey ELSE ByToken

JustifiedInv == \A i \in DOMAIN audit : audit[i].event = "granted" => Justified(i)

RequestInv ==
    /\ FlowInv /\ RaisedInv /\ WriteInv /\ UserInv /\ TxInv
    /\ GrantsInv /\ IdentityInv /\ JustifiedInv

-----------------------------------------------------------------------------
(* Facts about the exceptions and the log.                                 *)

LEMMA ExceptionFacts ==
    /\ NoException \in Exceptions
    /\ \A driver \in {LostExecuting, LostFetching, LostEndingTran, LockTimeout, BusyConnection, Deadlock} :
           Raised(driver) \in Exceptions /\ Raised(driver).class = "DBAPIError"
                                        /\ Raised(driver).orig = driver
    /\ \A class \in {"none", "401", "403", "404", "409", "Exception", "TypeError"} :
           OtherException(class) \in Exceptions /\ OtherException(class).class = class
    /\ NoException.class = "none"
    /\ IsDisconnectError(Raised(LostEndingTran))
    /\ \A exc \in Exceptions :
           /\ IsDisconnectError(exc) => exc.orig.sqlstate \in {"08S01", "08001", "HY000", "HYT00"}
           /\ exc.class # "DBAPIError" => ~IsDisconnectError(exc)
  <1>1. /\ \A driver : Raised(driver).class = "DBAPIError" /\ Raised(driver).orig = driver
        /\ \A class : OtherException(class).class = class
    BY DEF Raised, OtherException
  <1>0. /\ \A s, m : DriverError(s, m).sqlstate = s
        /\ \A driver : Raised(driver).invalidated <=>
                          DialectIsDisconnect(driver) \/ DetectTerminatedSession(driver)
    BY DEF DriverError, Raised
  <1>2. Raised(LostEndingTran).invalidated
    BY <1>0 DEF LostEndingTran, DialectIsDisconnect
  <1>3. \A driver \in {LostExecuting, LostFetching, LostEndingTran, LockTimeout, BusyConnection, Deadlock} :
            driver.sqlstate \in {"08S01", "HY000", "HYT00", "40001"} /\
            (driver.sqlstate = "40001" => ~Raised(driver).invalidated)
    <2>1. /\ LostExecuting.sqlstate = "08S01" /\ LostFetching.sqlstate = "08S01"
          /\ LostEndingTran.sqlstate = "08S01" /\ BusyConnection.sqlstate = "HY000"
          /\ Deadlock.sqlstate = "40001" /\ LockTimeout.sqlstate = "HYT00"
      BY <1>0 DEF LostExecuting, LostFetching, LostEndingTran, BusyConnection, Deadlock, LockTimeout
    <2>2. \A driver : driver.sqlstate = "40001" => ~Raised(driver).invalidated
      BY <1>0 DEF DialectIsDisconnect, DetectTerminatedSession
    <2> QED
      BY <2>1, <2>2
  <1>4. \A exc \in Exceptions : IsDisconnectError(exc) => exc.orig.sqlstate \in {"08S01", "HY000", "HYT00"}
    <2> SUFFICES ASSUME NEW exc \in Exceptions, IsDisconnectError(exc)
                 PROVE  exc.orig.sqlstate \in {"08S01", "HY000", "HYT00"}
      OBVIOUS
    <2>1. exc.class = "DBAPIError" /\ exc.invalidated
      BY DEF IsDisconnectError
    <2>2. PICK driver \in {LostExecuting, LostFetching, LostEndingTran, LockTimeout, BusyConnection, Deadlock} :
              exc = Raised(driver)
      BY <2>1, <1>1 DEF Exceptions
    <2> QED
      BY <2>1, <2>2, <1>1, <1>3
  <1> QED
    BY <1>1, <1>2, <1>4 DEF Exceptions, NoException, IsDisconnectError

\* Only the last record of the log is new.
LEMMA AuditFacts ==
    ASSUME FlowInv, NEW event, NEW before, NEW after, Audit(event, before, after)
    PROVE  /\ Len(audit) \in Nat /\ DOMAIN audit = 1..Len(audit)
           /\ Len(audit') = Len(audit) + 1 /\ audit' # << >>
           /\ DOMAIN audit' = 1..Len(audit) + 1
           /\ audit' \in Seq({audit'[i] : i \in DOMAIN audit'})
           /\ \A i \in DOMAIN audit : audit'[i] = audit[i]
           /\ Last(audit') = audit'[Len(audit) + 1]
           /\ Last(audit').event = event /\ Last(audit').dep = dep
           /\ Last(audit').before = before /\ Last(audit').after = after
  <1> DEFINE S == {audit[i] : i \in DOMAIN audit}
             r == [event |-> event, dep |-> dep, before |-> before, after |-> after]
  <1>1. audit \in Seq(S) /\ audit' = Append(audit, r)
    BY DEF FlowInv, Audit
  <1>2. PICK T : T = S \union {r}
    OBVIOUS
  <1>3. PICK x : x = r
    OBVIOUS
  <1>4. x.event = event /\ x.dep = dep /\ x.before = before /\ x.after = after
    BY <1>3
  <1> HIDE DEF S, r
  <1>5. audit \in Seq(T) /\ x \in T /\ audit' = Append(audit, x)
    BY <1>1, <1>2, <1>3
  <1>6. /\ Len(audit) \in Nat /\ DOMAIN audit = 1..Len(audit)
        /\ audit' \in Seq(T)
        /\ Len(audit') = Len(audit) + 1
        /\ DOMAIN audit' = 1..Len(audit) + 1
        /\ \A i \in DOMAIN audit : audit'[i] = audit[i]
        /\ audit'[Len(audit) + 1] = x
    BY <1>5
  <1>7. audit' \in Seq({audit'[i] : i \in DOMAIN audit'})
    BY <1>6
  <1>8. Last(audit') = x /\ audit' # << >>
    BY <1>6 DEF Last
  <1> QED
    BY <1>4, <1>6, <1>7, <1>8

LEMMA Begins == RequestAssumption /\ Init => RequestInv
  <1> SUFFICES ASSUME RequestAssumption, Init PROVE RequestInv
    OBVIOUS
  <1>1. endpoint.dependencies \in Seq([policy : STRING, overrides : BOOLEAN]) \ {<< >>}
    BY DEF RequestAssumption, Init
  <1>2. 1 \in DOMAIN endpoint.dependencies
    BY <1>1
  <1>3. FlowInv
    BY <1>2 DEF Init, FlowInv, AuthPCs, EndpointPCs
  <1>4. RaisedInv
    BY ExceptionFacts DEF Init, RaisedInv, AuthPCs
  <1>5. WriteInv
    BY DEF Init, WriteInv, AuthPCs, EndpointPCs, EndedPCs, Write!Init, Write!Replies
  <1>6. UserInv
    BY DEF Init, UserInv, EndpointPCs
  <1>7. TxInv
    BY DEF Init, TxInv, Sessions
  <1>8. GrantsInv
    <2>1. \A d : Granted(d) = {}
      BY DEF Init, Granted
    <2>2. \A d \in DOMAIN endpoint.dependencies : ~(d < dep)
      BY <1>1 DEF Init
    <2> QED
      BY <2>1, <2>2 DEF Init, GrantsInv, AuthPCs, EndpointPCs
  <1>9. IdentityInv
    BY DEF Init, IdentityInv, AuthPCs
  <1>10. JustifiedInv
    BY DEF Init, JustifiedInv
  <1> QED
    BY <1>3, <1>4, <1>5, <1>6, <1>7, <1>8, <1>9, <1>10 DEF RequestInv

LEMMA FlowStep ==
    ASSUME RequestAssumption, FlowInv, [Next]_vars
    PROVE  FlowInv'
  <1> USE DEF FlowInv, AuthPCs, EndpointPCs, EndedPCs
  <1>0. CASE UNCHANGED vars
    BY <1>0 DEF vars, input, auth, Starts
  <1>1. ASSUME NEW event, NEW before, NEW after, Audit(event, before, after)
        PROVE  audit' \in Seq({audit'[i] : i \in DOMAIN audit'}) /\ audit' # << >>
    BY <1>1, AuditFacts
  <1>2. CASE Authorize
    <2> USE DEF Transition, input, auth, write
    <2>1. ASSUME UNCHANGED <<input, auth>>, pc' \in AuthPCs \union EndedPCs, 
                 pc' # "startup", pc' = "done" \/ Starts
          PROVE  FlowInv'
      BY <2>1 DEF Starts
    <2>2. CASE RefusesToStart \/ BuildsRuntimes \/ KeepsAzureUser \/ LoadOverride \/ OverrideRollbackFails \/ RefuseText
      BY <2>1, <2>2 DEF RefusesToStart, BuildsRuntimes, KeepsAzureUser, LoadOverride, OverrideRollbackFails, RefuseText
    <2>3. CASE SchemeRejects
      BY <2>3, <1>1 DEF SchemeRejects, Starts
    <2>4. CASE SchemeReturnsNone \/ SchemeReturnsUser \/ AcceptToken \/ NoOverride
      BY <2>4 DEF SchemeReturnsNone, SchemeReturnsUser, AcceptToken, Authenticates, NoOverride, Starts
    <2>5. CASE RejectKey \/ AcceptKey \/ RejectMissingToken \/ RejectClaims
      BY <2>5, <1>1 DEF RejectKey, AcceptKey, RejectMissingToken, RejectClaims, Rejects, Authenticates, Starts
    <2>6. ASSUME NEW after \in LoadedUsers(identity), OverrideLoaded(after)
          PROVE  FlowInv'
      BY <2>6, <1>1 DEF OverrideLoaded, Starts
    <2>7. ASSUME NEW exc, OverrideRaises(exc) PROVE FlowInv'
      BY <2>1, <2>7 DEF OverrideRaises
    <2>8. CASE Grant
      <3>1. endpoint.dependencies \in Seq([policy : STRING, overrides : BOOLEAN])
        BY DEF RequestAssumption
      <3>2. dep' \in DOMAIN endpoint.dependencies /\ (pc' = "endpoint" => dep' = Len(endpoint.dependencies))
        BY <2>8, <3>1 DEF Grant
      <3> QED
        BY <2>8, <1>1, <3>2 DEF Grant, Starts
    <2>9. CASE Deny
      BY <2>9, <1>1 DEF Deny, Starts
    <2> QED
      BY <1>2, <2>2, <2>3, <2>4, <2>5, <2>6, <2>7, <2>8, <2>9 DEF Authorize
  <1>3. ASSUME UNCHANGED <<input, auth>>, pc \notin {"startup", "done"},
               (pc' \in EndpointPCs /\ pc \in EndpointPCs) \/ pc' \in EndedPCs
        PROVE  FlowInv'
    BY <1>3 DEF input, auth, Starts
  <1>4. CASE Read
    BY <1>3, <1>4 DEF Read, BeginRead, Query, QueryFails, ReadRaises, ReadReturns, RollBackToRetry,
        NoRetry, RollbackSessions, RollbackSessionFails, Transition
  <1>5. CASE DecoratedWrite \/ Handle
    BY <1>3, <1>5 DEF DecoratedWrite, WriteBegins, WriteReturns, WriteFails, WriteOutcomeUnknown,
        Handle, DatabaseDisconnectHandler, ApiErrorHandler, DefaultHandler, Answer, CloseSessions, Transition
  <1>6. CASE WriteApplied
    BY <1>6 DEF WriteApplied, input, auth, Starts
  <1> QED
    BY <1>0, <1>2, <1>4, <1>5, <1>6 DEF Next, Step

LEMMA RaisedStep ==
    ASSUME FlowInv, RaisedInv, WriteInv, [Next]_vars
    PROVE  RaisedInv'
  <1> USE ExceptionFacts DEF RaisedInv, AuthPCs, EndedPCs, Transition, Raise, write
  <1>0. CASE UNCHANGED vars
    BY <1>0 DEF vars, auth
  <1>1. ASSUME NEW event, NEW before, NEW after, Audit(event, before, after)
        PROVE  audit' # << >> /\ Last(audit').event = event
    BY <1>1, AuditFacts
  <1>2. ASSUME pc' \in AuthPCs \union {"endpoint", "reading", "writing", "done"},
               pc \in AuthPCs \union {"endpoint", "reading", "writing"},
               UNCHANGED <<raised, answer>>
        PROVE  RaisedInv'
    BY <1>2
  <1>3. ASSUME UNCHANGED <<auth, answer>>, raised' \in Exceptions,
               raised'.class \notin {"401", "403"}, pc \notin {"closing", "done"},
               pc' \in AuthPCs \union {"endpoint", "reading", "writing"} => raised' = NoException
        PROVE  RaisedInv'
    BY <1>3
  <1>4. ASSUME pc \notin {"closing", "done"}, pc' = "raised", UNCHANGED answer,
               audit' # << >>, Last(audit').event \in Failures,
               raised' \in {OtherException("401"), OtherException("403")},
               user' = {} \/ Last(audit').event = "denied"
        PROVE  RaisedInv'
    BY <1>4
  <1>5. CASE Authorize
    <2>1. CASE RefusesToStart \/ BuildsRuntimes \/ KeepsAzureUser \/ SchemeReturnsNone
               \/ SchemeReturnsUser \/ AcceptKey \/ AcceptToken \/ NoOverride \/ LoadOverride
      BY <1>2, <2>1 DEF RefusesToStart, BuildsRuntimes, KeepsAzureUser, SchemeReturnsNone,
          SchemeReturnsUser, AcceptKey, AcceptToken, Authenticates, NoOverride, LoadOverride
    <2>2. CASE Grant \/ \E after \in LoadedUsers(identity) : OverrideLoaded(after)
      BY <1>2, <2>2 DEF Grant, OverrideLoaded
    <2>3. CASE SchemeRejects
      BY <1>1, <1>4, <2>3 DEF SchemeRejects, Unauthorized, Forbidden, Failures
    <2>4. CASE RejectKey \/ RejectMissingToken \/ RejectClaims
      BY <1>1, <1>4, <2>4 DEF RejectKey, RejectMissingToken, RejectClaims, Rejects, Unauthorized, Failures
    <2>5. CASE Deny
      BY <1>1, <1>4, <2>5 DEF Deny, Forbidden, Failures
    <2>6. CASE OverrideRollbackFails \/ RefuseText
      BY <1>3, <2>6 DEF OverrideRollbackFails, RefuseText
    <2>7. ASSUME NEW exc \in {Raised(LostExecuting), OtherException("Exception")}, OverrideRaises(exc)
          PROVE  RaisedInv'
      BY <1>3, <2>7 DEF OverrideRaises
    <2> QED
      BY <1>5, <2>1, <2>2, <2>3, <2>4, <2>5, <2>6, <2>7 DEF Authorize
  <1>6. CASE Read
    <2>1. CASE BeginRead \/ \E s \in Sessions : Query(s)
      BY <1>2, <2>1 DEF BeginRead, Query
    <2>2. CASE ReadRaises \/ \E s \in Sessions, driver \in {LostExecuting, LostFetching,
                                                              LockTimeout, BusyConnection} :
                                 QueryFails(s, driver)
      BY <1>3, <2>2 DEF ReadRaises, QueryFails
    <2>3. CASE ReadReturns
      BY <2>3 DEF ReadReturns, auth
    <2>4. CASE RollBackToRetry \/ NoRetry
      BY <2>4 DEF RollBackToRetry, NoRetry, auth
    <2>5. CASE RollbackSessions \/ \E i \in DOMAIN Arguments : RollbackSessionFails(i)
      BY <1>3, <2>5 DEF RollbackSessions, RollbackSessionFails
    <2> QED
      BY <1>6, <2>1, <2>2, <2>3, <2>4, <2>5 DEF Read
  <1>7. CASE DecoratedWrite
    <2>1. CASE WriteBegins
      BY <1>2, <2>1 DEF WriteBegins
    <2>2. CASE WriteReturns
      BY <2>2 DEF WriteReturns, auth
    <2>3. ASSUME NEW exc \in {Raised(Deadlock), Raised(LockTimeout), Raised(LostExecuting),
                             OtherException("409")},
                 WriteFails(exc)
          PROVE  RaisedInv'
      BY <1>3, <2>3 DEF WriteFails
    <2>4. CASE WriteOutcomeUnknown
      BY <1>3, <2>4 DEF WriteOutcomeUnknown
    <2> QED
      BY <1>7, <2>1, <2>2, <2>3, <2>4 DEF DecoratedWrite
  <1>8. CASE Handle
    <2>1. CASE DatabaseDisconnectHandler
      BY <2>1 DEF DatabaseDisconnectHandler, Answer, auth
    <2>2. CASE ApiErrorHandler
      BY <2>2 DEF ApiErrorHandler, ApiErrors, Answer, auth
    <2>3. CASE DefaultHandler
      BY <2>3 DEF DefaultHandler, Answer, auth
    <2>4. CASE CloseSessions
      BY <2>4 DEF CloseSessions, auth
    <2> QED
      BY <1>8, <2>1, <2>2, <2>3, <2>4 DEF Handle
  <1>9. CASE WriteApplied
    BY <1>9 DEF WriteApplied, auth
  <1> QED
    BY <1>0, <1>5, <1>6, <1>7, <1>8, <1>9 DEF Next, Step

LEMMA WriteStep ==
    ASSUME FlowInv, RaisedInv, WriteInv, [Next]_vars
    PROVE  WriteInv'
  <1> USE DEF WriteInv, AuthPCs, EndpointPCs, EndedPCs, Transition, write, input
  <1>0. CASE UNCHANGED vars
    BY <1>0 DEF vars
  <1>1. ASSUME pc \in AuthPCs \union (EndpointPCs \ {"writing"}), UNCHANGED <<input, answer, write>>,
               pc' \in AuthPCs \union EndpointPCs \union {"raised", "done"},
               pc' \in {"reading", "caught", "rollback"} => endpoint.kind = "read",
               pc' = "writing" => endpoint.kind = "write"
        PROVE  WriteInv'
    BY <1>1 DEF RaisedInv
  <1>2. CASE Authorize
    <2>1. pc \in AuthPCs
      BY <1>2 DEF Authorize, RefusesToStart, BuildsRuntimes, KeepsAzureUser, SchemeRejects,
          SchemeReturnsNone, SchemeReturnsUser, RejectKey, AcceptKey, RejectMissingToken,
          RejectClaims, AcceptToken, Rejects, Authenticates, NoOverride, LoadOverride,
          OverrideLoaded, OverrideRaises, OverrideRollbackFails, RefuseText, Grant, Deny
    <2>2. pc' \in AuthPCs \union {"endpoint", "raised", "done"}
      BY <1>2 DEF Authorize, RefusesToStart, BuildsRuntimes, KeepsAzureUser, SchemeRejects,
          SchemeReturnsNone, SchemeReturnsUser, RejectKey, AcceptKey, RejectMissingToken,
          RejectClaims, AcceptToken, Rejects, Authenticates, NoOverride, LoadOverride,
          OverrideLoaded, OverrideRaises, OverrideRollbackFails, RefuseText, Grant, Deny
    <2>3. UNCHANGED <<input, answer, write>>
      BY <1>2 DEF Authorize, RefusesToStart, BuildsRuntimes, KeepsAzureUser, SchemeRejects,
          SchemeReturnsNone, SchemeReturnsUser, RejectKey, AcceptKey, RejectMissingToken,
          RejectClaims, AcceptToken, Rejects, Authenticates, NoOverride, LoadOverride,
          OverrideLoaded, OverrideRaises, OverrideRollbackFails, RefuseText, Grant, Deny, Raise
    <2> QED
      BY <1>1, <2>1, <2>2, <2>3
  <1>3. CASE Read
    <2>1. CASE ReadReturns
      BY <2>1 DEF ReadReturns
    <2>2. CASE ~ReadReturns
      BY <1>1, <1>3, <2>2 DEF Read, BeginRead, Query, QueryFails, ReadRaises, RollBackToRetry,
          NoRetry, RollbackSessions, RollbackSessionFails, Raise
    <2> QED
      BY <2>1, <2>2
  <1>4. CASE DecoratedWrite
    <2>1. CASE WriteBegins
      BY <1>1, <2>1 DEF WriteBegins
    <2>2. CASE WriteReturns
      <3>1. applied = {"write"} /\ applied' = applied /\ pc = "writing" /\ pc' = "closing"
        <4>1. "write" \in applied /\ applied \subseteq {"write"}
          BY <2>2 DEF WriteReturns, Write!Reply
        <4>2. applied' = applied /\ pc = "writing" /\ pc' = "closing"
          BY <2>2 DEF WriteReturns, Write!Reply
        <4>3. applied = {"write"}
          <5> HIDE DEF WriteInv
          <5> QED
            BY <4>1
        <4> QED
          BY <4>2, <4>3
      <3>2. reply' = [reply EXCEPT !["write"] = "ok"] /\ answer' = 200 /\ UNCHANGED input
        BY <2>2 DEF WriteReturns, Write!Reply
      <3>3. reply' \in [{"write"} -> Write!Replies] /\ reply'["write"] = "ok"
        BY <3>2 DEF Write!Replies
      <3> QED
        BY <3>1, <3>2, <3>3
    <2>3. ASSUME NEW exc, WriteFails(exc) PROVE WriteInv'
      BY <2>3 DEF WriteFails, Write!Reply, Write!Replies, Raise, RaisedInv
    <2>4. CASE WriteOutcomeUnknown
      BY <2>4 DEF WriteOutcomeUnknown, Write!Reply, Write!Replies, Raise, RaisedInv
    <2> QED
      BY <1>4, <2>1, <2>2, <2>3, <2>4 DEF DecoratedWrite
  <1>5. CASE Handle
    <2>1. CASE CloseSessions
      BY <2>1 DEF CloseSessions
    <2>2. CASE DatabaseDisconnectHandler
      BY <2>2 DEF DatabaseDisconnectHandler, Answer, RaisedInv
    <2>3. CASE ApiErrorHandler \/ DefaultHandler
      <3>1. ~IsDisconnectError(raised) /\ raised # Raised(LostEndingTran)
        <4>1. CASE ApiErrorHandler
          <5>1. raised.class \in {"401", "403", "404", "409"}
            BY <4>1, ExceptionFacts DEF ApiErrorHandler, ApiErrors
          <5>2. raised.class # "DBAPIError" /\ raised \in Exceptions
            BY <5>1 DEF RaisedInv
          <5> QED
            BY <5>2, ExceptionFacts
        <4>2. CASE DefaultHandler
          BY <4>2, ExceptionFacts DEF DefaultHandler
        <4> QED
          BY <2>3, <4>1, <4>2
      <3>2. answer' \in {401, 403, 404, 409, 500}
        BY <2>3 DEF ApiErrorHandler, ApiErrors, DefaultHandler, Answer
      <3>3. pc = "raised" /\ pc' = "closing" /\ UNCHANGED <<input, raised, write>>
        BY <2>3 DEF ApiErrorHandler, DefaultHandler, Answer
      <3>4. reply["write"] \in {"none", "failed"} /\ applied = {}
        <4>1. answer = 0 /\ reply["write"] \in Write!Replies
          BY <3>3 DEF RaisedInv
        <4> QED
          BY <4>1, <3>1, <3>3 DEF Write!Replies
      <3> QED
        BY <3>2, <3>3, <3>4
    <2> QED
      BY <1>5, <2>1, <2>2, <2>3 DEF Handle
  <1>6. CASE WriteApplied
    BY <1>6 DEF WriteApplied, Write!Apply, RaisedInv
  <1> QED
    BY <1>0, <1>2, <1>3, <1>4, <1>5, <1>6 DEF Next, Step

LEMMA UserStep ==
    ASSUME FlowInv, UserInv, [Next]_vars
    PROVE  UserInv'
  <1> USE DEF UserInv, EndpointPCs, Transition
  <1>0. CASE UNCHANGED vars
    BY <1>0 DEF vars, auth
  <1>1. ASSUME UNCHANGED auth, pc' \notin {"override", "evaluate", "endpoint"},
               pc' = "loading" => pc = "override",
               pc' \in EndpointPCs => pc \in EndpointPCs
        PROVE  UserInv'
    BY <1>1 DEF auth
  <1>2. CASE Authorize
    <2>1. CASE RefusesToStart \/ BuildsRuntimes \/ KeepsAzureUser \/ LoadOverride
               \/ OverrideRollbackFails \/ RefuseText
      BY <1>1, <2>1 DEF RefusesToStart, BuildsRuntimes, KeepsAzureUser, LoadOverride,
          OverrideRollbackFails, RefuseText
    <2>2. CASE SchemeRejects \/ SchemeReturnsNone \/ SchemeReturnsUser
      BY <2>2 DEF SchemeRejects, SchemeReturnsNone, SchemeReturnsUser
    <2>3. CASE RejectKey \/ AcceptKey \/ RejectMissingToken \/ RejectClaims \/ AcceptToken
      BY <2>3 DEF RejectKey, AcceptKey, RejectMissingToken, RejectClaims, AcceptToken,
          Rejects, Authenticates
    <2>4. CASE NoOverride
      BY <2>4 DEF NoOverride
    <2>5. ASSUME NEW after, OverrideLoaded(after) PROVE UserInv'
      BY <2>5 DEF OverrideLoaded
    <2>6. ASSUME NEW exc, OverrideRaises(exc) PROVE UserInv'
      BY <1>1, <2>6 DEF OverrideRaises
    <2>7. CASE Grant
      <3>1. audit' # << >> /\ Last(audit').after = identity
        BY <2>7, AuditFacts DEF Grant
      <3> QED
        BY <2>7, <3>1 DEF Grant
    <2>8. CASE Deny
      BY <2>8 DEF Deny
    <2> QED
      BY <1>2, <2>1, <2>2, <2>3, <2>4, <2>5, <2>6, <2>7, <2>8 DEF Authorize
  <1>3. CASE Read
    BY <1>1, <1>3 DEF Read, BeginRead, Query, QueryFails, ReadRaises, ReadReturns, RollBackToRetry,
        NoRetry, RollbackSessions, RollbackSessionFails
  <1>4. CASE DecoratedWrite \/ Handle
    BY <1>1, <1>4 DEF DecoratedWrite, WriteBegins, WriteReturns, WriteFails, WriteOutcomeUnknown,
        Handle, DatabaseDisconnectHandler, ApiErrorHandler, DefaultHandler, Answer, CloseSessions
  <1>5. CASE WriteApplied
    BY <1>5 DEF WriteApplied, auth
  <1> QED
    BY <1>0, <1>2, <1>3, <1>4, <1>5 DEF Next, Step

LEMMA TxStep ==
    ASSUME FlowInv, TxInv, [Next]_vars
    PROVE  TxInv'
  <1> USE DEF TxInv, Transition
  <1>7. AuthSession \in Sessions /\ (UNCHANGED input => UNCHANGED <<AuthSession, Arguments>>)
    BY DEF AuthSession, Sessions, Arguments, input
  <1>0. CASE UNCHANGED vars
    BY <1>0, <1>7 DEF vars
  <1>1. ASSUME UNCHANGED <<input, tx>>,
               \/ pc' \in {"raised", "writing", "closing", "done"}
               \/ /\ pc \in {"startup", "scheme", "policy", "override", "evaluate"}
                  /\ pc' \in {"scheme", "policy", "override", "evaluate", "endpoint"}
               \/ pc = "endpoint" /\ pc' = "reading"
               \/ pc = "reading" /\ pc' = "caught"
               \/ pc = "caught" /\ pc' = "rollback"
               \/ pc' = pc
        PROVE  TxInv'
    BY <1>1, <1>7
  <1>2. CASE Authorize
    <2>1. CASE LoadOverride
      BY <1>7, <2>1 DEF LoadOverride
    <2>2. ASSUME NEW after, OverrideLoaded(after) PROVE TxInv'
      BY <1>7, <2>2 DEF OverrideLoaded
    <2>3. ASSUME NEW exc, OverrideRaises(exc) PROVE TxInv'
      BY <1>7, <2>3 DEF OverrideRaises
    <2>4. CASE OverrideRollbackFails
      BY <1>7, <2>4 DEF OverrideRollbackFails
    <2>5. CASE \/ RefusesToStart \/ BuildsRuntimes \/ KeepsAzureUser \/ SchemeRejects
               \/ SchemeReturnsNone \/ SchemeReturnsUser
      BY <1>1, <2>5 DEF RefusesToStart, BuildsRuntimes, KeepsAzureUser, SchemeRejects,
          SchemeReturnsNone, SchemeReturnsUser
    <2>6. CASE RejectKey \/ AcceptKey \/ RejectMissingToken \/ RejectClaims \/ AcceptToken
      BY <1>1, <2>6 DEF RejectKey, AcceptKey, RejectMissingToken, RejectClaims, AcceptToken,
          Rejects, Authenticates
    <2>7. CASE NoOverride \/ RefuseText \/ Grant \/ Deny
      BY <1>1, <2>7 DEF NoOverride, RefuseText, Grant, Deny
    <2> QED
      BY <1>2, <2>1, <2>2, <2>3, <2>4, <2>5, <2>6, <2>7 DEF Authorize
  <1>3. CASE Read
    <2>1. CASE BeginRead \/ ReadRaises \/ ReadReturns \/ RollBackToRetry \/ NoRetry
      BY <1>1, <2>1 DEF BeginRead, ReadRaises, ReadReturns, RollBackToRetry, NoRetry
    <2>2. ASSUME NEW s \in Sessions, Query(s) PROVE TxInv'
      BY <2>2 DEF Query, input
    <2>3. ASSUME NEW s \in Sessions, NEW driver, QueryFails(s, driver) PROVE TxInv'
      <3>1. /\ pc = "reading" /\ pc' = "caught" /\ s \in ToSet(Arguments)
            /\ \E state \in {"broken", "active"} : tx' = [tx EXCEPT ![s] = state]
            /\ UNCHANGED input
        BY <2>3 DEF QueryFails
      <3>2. UNCHANGED Arguments
        BY <3>1 DEF input, Arguments
      <3>3. tx' \in [Sessions -> {"none", "active", "broken"}]
        BY <3>1
      <3>4. ASSUME NEW r \in Sessions, tx'[r] = "broken" PROVE r \in ToSet(Arguments)
        BY <3>1, <3>4
      <3> QED
        BY <3>1, <3>2, <3>3, <3>4
    <2>4. CASE RollbackSessions
      <3>1. pc = "rollback" /\ pc' = "reading"
        BY <2>4 DEF RollbackSessions
      <3>2. tx' = [s \in Sessions |-> IF s \in ToSet(Arguments) THEN "none" ELSE tx[s]]
        BY <2>4 DEF RollbackSessions
      <3>3. tx' \in [Sessions -> {"none", "active", "broken"}]
        BY <3>2
      <3>4. \A s \in Sessions : tx'[s] # "broken"
        BY <3>1, <3>2
      <3> QED
        BY <3>1, <3>3, <3>4
    <2>5. ASSUME NEW i \in DOMAIN Arguments, RollbackSessionFails(i) PROVE TxInv'
      BY <2>5 DEF RollbackSessionFails, input
    <2> QED
      BY <1>3, <2>1, <2>2, <2>3, <2>4, <2>5 DEF Read
  <1>4. CASE DecoratedWrite
    BY <1>1, <1>4 DEF DecoratedWrite, WriteBegins, WriteReturns, WriteFails, WriteOutcomeUnknown
  <1>5. CASE Handle
    <2>1. CASE CloseSessions
      BY <2>1 DEF CloseSessions, input
    <2>2. CASE ~CloseSessions
      BY <1>1, <1>5, <2>2 DEF Handle, DatabaseDisconnectHandler, ApiErrorHandler, DefaultHandler, Answer
    <2> QED
      BY <2>1, <2>2
  <1>6. CASE WriteApplied
    BY <1>1, <1>6 DEF WriteApplied
  <1> QED
    BY <1>0, <1>2, <1>3, <1>4, <1>5, <1>6 DEF Next, Step

\* A grant is the only record that counts as one.
LEMMA GrantedFacts ==
    ASSUME FlowInv, NEW event, NEW before, NEW after, Audit(event, before, after), NEW d
    PROVE  Granted(d)' = IF event = "granted" /\ d = dep THEN Granted(d) \union {Len(audit) + 1}
                         ELSE Granted(d)
  <1>1. /\ Len(audit) \in Nat /\ DOMAIN audit = 1..Len(audit)
        /\ DOMAIN audit' = 1..Len(audit) + 1
        /\ \A i \in DOMAIN audit : audit'[i] = audit[i]
        /\ audit'[Len(audit) + 1].event = event /\ audit'[Len(audit) + 1].dep = dep
    BY AuditFacts
  <1>2. DOMAIN audit' = DOMAIN audit \union {Len(audit) + 1}
    BY <1>1
  <1>3. Granted(d)' = {i \in DOMAIN audit' : audit'[i].event = "granted" /\ audit'[i].dep = d}
    BY DEF Granted
  <1>4. Granted(d) \subseteq DOMAIN audit
    BY DEF Granted
  <1>5. ASSUME NEW i \in DOMAIN audit PROVE i \in Granted(d)' <=> i \in Granted(d)
    BY <1>1, <1>2, <1>3 DEF Granted
  <1>6. Len(audit) + 1 \in Granted(d)' <=> event = "granted" /\ d = dep
    BY <1>1, <1>2, <1>3
  <1>7. Len(audit) + 1 \notin DOMAIN audit
    BY <1>1
  <1>8. Granted(d)' \subseteq DOMAIN audit \union {Len(audit) + 1}
    BY <1>2, <1>3
  <1> QED
    BY <1>4, <1>5, <1>6, <1>7, <1>8

LEMMA GrantsStep ==
    ASSUME RequestAssumption, FlowInv, GrantsInv, [Next]_vars
    PROVE  GrantsInv'
  <1> USE DEF Transition, AuthPCs, EndpointPCs, EndedPCs, Failures
  <1>1. ASSUME UNCHANGED <<endpoint, dep, audit>>,
               pc' \in AuthPCs => pc \in AuthPCs,
               pc' \in EndpointPCs => pc \in EndpointPCs,
               pc \in EndedPCs => pc' \in EndedPCs
        PROVE  GrantsInv'
    BY <1>1 DEF GrantsInv, Granted
  <1>2. ASSUME NEW event \in Failures \union {"bypass", "overridden"}, NEW before, NEW after,
               Audit(event, before, after), UNCHANGED <<endpoint, dep>>, pc \in AuthPCs,
               pc' \in AuthPCs \union {"raised"}, event \in Failures => pc' = "raised"
        PROVE  GrantsInv'
    <2>1. \A d : Granted(d)' = Granted(d)
      BY <1>2, GrantedFacts
    <2>2. /\ Len(audit') = Len(audit) + 1 /\ Len(audit) \in Nat
          /\ DOMAIN audit' = 1..Len(audit) + 1 /\ DOMAIN audit = 1..Len(audit)
          /\ \A i \in DOMAIN audit : audit'[i] = audit[i]
          /\ audit'[Len(audit) + 1].event = event
      BY <1>2, AuditFacts
    <2>3. \A i \in DOMAIN audit : audit[i].event \notin Failures
      BY <1>2 DEF GrantsInv
    <2>4. ASSUME NEW i \in DOMAIN audit', audit'[i].event \in Failures
          PROVE  i = Len(audit') /\ pc' \in EndedPCs
      <3>1. i \notin DOMAIN audit
        BY <2>2, <2>3, <2>4
      <3>2. i = Len(audit) + 1
        BY <2>2, <3>1
      <3> QED
        BY <1>2, <2>2, <2>4, <3>2
    <2> QED
      BY <1>2, <2>1, <2>4 DEF GrantsInv
  <1>3. CASE Grant
    <2> DEFINE n == Len(endpoint.dependencies)
    <2>1. n \in Nat /\ DOMAIN endpoint.dependencies = 1..n /\ dep \in 1..n
      BY DEF FlowInv, RequestAssumption
    <2>2. /\ pc = "evaluate" /\ UNCHANGED endpoint /\ Audit("granted", identity, identity)
          /\ \/ dep = n /\ pc' = "endpoint" /\ dep' = dep
             \/ dep # n /\ pc' = "scheme" /\ dep' = dep + 1
      BY <1>3 DEF Grant, input
    <2>3. \A d : Granted(d)' = IF d = dep THEN Granted(d) \union {Len(audit) + 1} ELSE Granted(d)
      BY <2>2, GrantedFacts
    <2>4. \A d \in 1..n : IF d < dep THEN Cardinality(Granted(d)) = 1 ELSE Granted(d) = {}
      BY <2>1, <2>2 DEF GrantsInv
    <2>5. ASSUME NEW d, d = dep PROVE Cardinality(Granted(d)') = 1
      <3>1. Granted(d) = {}
        BY <2>1, <2>4, <2>5
      <3>2. Granted(d)' = Granted(d) \union {Len(audit) + 1}
        BY <2>3, <2>5
      <3>3. Granted(d)' = {Len(audit) + 1}
        BY <3>1, <3>2
      <3> QED
        BY <3>3, FS_Singleton
    <2>6. \A d \in 1..n : d < dep => Cardinality(Granted(d)') = 1
      BY <2>1, <2>3, <2>4
    <2>7. \A d \in 1..n : dep < d => Granted(d)' = {}
      BY <2>1, <2>3, <2>4
    <2>8. /\ DOMAIN audit' = 1..Len(audit) + 1 /\ DOMAIN audit = 1..Len(audit) /\ Len(audit) \in Nat
          /\ \A i \in DOMAIN audit : audit'[i] = audit[i]
          /\ audit'[Len(audit) + 1].event = "granted"
      BY <2>2, AuditFacts
    <2>9. \A i \in DOMAIN audit' : audit'[i].event \notin Failures
      <3>1. \A i \in DOMAIN audit : audit[i].event \notin Failures
        BY <2>2 DEF GrantsInv
      <3> QED
        BY <2>8, <3>1
    <2> QED
      BY <2>1, <2>2, <2>5, <2>6, <2>7, <2>9 DEF GrantsInv
  <1>4. CASE Authorize
    <2> USE DEF input, auth
    <2>1. CASE RefusesToStart \/ BuildsRuntimes \/ KeepsAzureUser \/ SchemeReturnsNone
               \/ SchemeReturnsUser \/ AcceptToken
      BY <1>1, <2>1 DEF RefusesToStart, BuildsRuntimes, KeepsAzureUser, SchemeReturnsNone,
          SchemeReturnsUser, AcceptToken, Authenticates
    <2>2. CASE NoOverride \/ LoadOverride \/ OverrideRollbackFails \/ RefuseText
      BY <1>1, <2>2 DEF NoOverride, LoadOverride, OverrideRollbackFails, RefuseText
    <2>3. CASE SchemeRejects
      <3>1. /\ Audit("failed", Nobody, Nobody) /\ UNCHANGED <<endpoint, dep>>
            /\ pc \in AuthPCs /\ pc' = "raised"
        BY <2>3 DEF SchemeRejects
      <3> QED
        BY <1>2, <3>1
    <2>7. CASE AcceptKey
      BY <1>2, <2>7 DEF AcceptKey, Authenticates
    <2>8. CASE Deny
      BY <1>2, <2>8 DEF Deny
    <2>4. CASE RejectKey \/ RejectMissingToken \/ RejectClaims
      <3>1. ASSUME NEW event, event \in {"failed", "rejected"}, Rejects(event)
            PROVE  GrantsInv'
        BY <1>2, <3>1 DEF Rejects
      <3> QED
        BY <2>4, <3>1 DEF RejectKey, RejectMissingToken, RejectClaims
    <2>5. ASSUME NEW after, OverrideLoaded(after) PROVE GrantsInv'
      BY <1>1, <1>2, <2>5 DEF OverrideLoaded
    <2>6. ASSUME NEW exc, OverrideRaises(exc) PROVE GrantsInv'
      BY <1>1, <2>6 DEF OverrideRaises
    <2> QED
      BY <1>3, <1>4, <2>1, <2>2, <2>3, <2>4, <2>5, <2>6, <2>7, <2>8 DEF Authorize
  <1>5. CASE Read \/ DecoratedWrite \/ Handle \/ WriteApplied \/ UNCHANGED vars
    BY <1>1, <1>5 DEF Read, BeginRead, Query, QueryFails, ReadRaises, ReadReturns, RollBackToRetry,
        NoRetry, RollbackSessions, RollbackSessionFails, DecoratedWrite, WriteBegins, WriteReturns,
        WriteFails, WriteOutcomeUnknown, Handle, DatabaseDisconnectHandler, ApiErrorHandler,
        DefaultHandler, Answer, CloseSessions, WriteApplied, vars, input, auth
  <1> QED
    BY <1>4, <1>5 DEF Next, Step

-----------------------------------------------------------------------------
(* Who the identity is.                                                    *)

\* A role that is parsed is one that was presented and that is configured.
LEMMA IssuedRole ==
    ASSUME NEW configured \in Seq(Texts), NEW values \in Seq(Texts), NEW email
    PROVE  Words(BaseUser(email, ParseRoles(values, ValidRoles(configured)))) \subseteq
               {configured[i].word : i \in DOMAIN configured}
                   \intersect {values[i].word : i \in DOMAIN values}
  <1> DEFINE roles == ParseRoles(values, ValidRoles(configured))
  <1>1. ASSUME NEW role \in ToSet(roles)
        PROVE  /\ role.word \in {configured[i].word : i \in DOMAIN configured}
               /\ role.word \in {values[i].word : i \in DOMAIN values}
    <2>1. ValidRoles(configured) \in Seq(Texts)
      BY ValidRole
    <2>2. /\ role \in ToSet(ValidRoles(configured))
          /\ \E i \in DOMAIN values : role.word = values[i].word
      BY <2>1, ParsedRole
    <2> QED
      BY <2>2, ValidRole
  <1> HIDE DEF roles
  <1>2. RolesOf(BaseUser(email, roles)) = ToSet(roles)
    BY DEF RolesOf, EffectiveRoles, BaseUser, List
  <1> QED
    BY <1>1, <1>2 DEF Words, roles

\* A claim is a sequence of texts, those of its value or none.
LEMMA Presented ==
    ASSUME NEW value \in TextValues
    PROVE  /\ ClaimList(value) = IF value = OneText(Lower("")) THEN << >> ELSE value.items
           /\ ClaimList(value) \in Seq(Texts)
  <1>1. CASE value = Nothing
    BY <1>1 DEF ClaimList, Nothing
  <1>2. CASE value = Other
    BY <1>2 DEF ClaimList, Other
  <1>3. CASE value \in [kind : {"text", "list"}, items : Seq(Texts)]
    <2>1. value.kind \in {"text", "list"} /\ value.items \in Seq(Texts) /\ << >> \in Seq(Texts)
      BY <1>3
    <2>2. CASE value = OneText(Lower(""))
      <3>1. ClaimList(value) = << >>
        BY <2>2, Zenon DEF ClaimList
      <3> QED
        BY <2>1, <2>2, <3>1
    <2>3. CASE value # OneText(Lower(""))
      <3>1. ClaimList(value) = value.items
        BY <2>1, <2>3, Zenon DEF ClaimList
      <3> QED
        BY <2>1, <2>3, <3>1
    <2> QED
      BY <2>2, <2>3
  <1> QED
    BY <1>1, <1>2, <1>3 DEF TextValues

Known == {app.valid_roles[i].word : i \in DOMAIN app.valid_roles}
ClaimedWords(items) == {items[i].word : i \in DOMAIN items}

\* A claim's items carry no words that were not presented.
LEMMA SubsetOfClaim ==
    ASSUME NEW value \in TextValues
    PROVE  ClaimedWords(ClaimList(value)) \subseteq ClaimedWords(value.items)
  <1>1. CASE ClaimList(value) = << >>
    <2>1. DOMAIN ClaimList(value) = {}
      BY <1>1
    <2> QED
      BY <2>1, Zenon DEF ClaimedWords
  <1>2. CASE ClaimList(value) = value.items
    BY <1>2, Zenon
  <1> QED
    BY <1>1, <1>2, Presented, Zenon

LEMMA KeyUserIsIssued ==
    ASSUME RequestAssumption, FlowInv, HasKey
    PROVE  Words(KeyUser) \subseteq IssuedWords
  <1>1. request.role_header \in TextValues /\ app.valid_roles \in Seq(Texts)
    BY DEF RequestAssumption, FlowInv
  <1>2. ClaimedWords(ClaimList(request.role_header))
            \subseteq ClaimedWords(request.role_header.items)
    BY <1>1, Presented, SubsetOfClaim
  <1>3. PICK email : email = Email("developer", "illinois.edu")
    OBVIOUS
  <1>4. KeyUser =
            BaseUser(email, ParseRoles(ClaimList(request.role_header), ValidRoles(app.valid_roles)))
    BY <1>3, Zenon DEF KeyUser, Valid
  <1>5. ClaimList(request.role_header) \in Seq(Texts)
    BY <1>1, Presented
  <1>6. Words(KeyUser) \subseteq
            Known \intersect ClaimedWords(ClaimList(request.role_header))
    BY <1>1, <1>4, <1>5, IssuedRole DEF Known, ClaimedWords
  <1> QED
    BY <1>2, <1>6 DEF IssuedWords, Known, ClaimedWords

LEMMA TokenUserIsIssued ==
    ASSUME RequestAssumption, FlowInv, ~HasKey
    PROVE  Words(UserFromClaims(request.claims, Valid)) \subseteq IssuedWords
  <1>1. /\ request.claims.roles \in TextValues /\ request.claims.role \in TextValues
        /\ app.valid_roles \in Seq(Texts)
    BY DEF RequestAssumption, FlowInv
  <1>2. PICK email : email = ClaimValue(request.claims, << "upn" >>)
    OBVIOUS
  <1>3. ASSUME NEW claim \in {request.claims.roles, request.claims.role},
               UserFromClaims(request.claims, Valid) =
                   BaseUser(email, ParseRoles(ClaimList(claim), ValidRoles(app.valid_roles)))
        PROVE  Words(UserFromClaims(request.claims, Valid)) \subseteq
                   Known \intersect ClaimedWords(claim.items)
    <2>1. ClaimList(claim) \in Seq(Texts)
      BY <1>1, Presented
    <2>2. Words(UserFromClaims(request.claims, Valid)) \subseteq
              Known \intersect ClaimedWords(ClaimList(claim))
      BY <1>1, <1>3, <2>1, IssuedRole DEF Known, ClaimedWords
    <2> QED
      BY <1>1, <2>2, Presented, SubsetOfClaim
  <1>4. CASE ClaimList(request.claims.roles) # << >>
    <2>1. UserFromClaims(request.claims, Valid) =
              BaseUser(email, ParseRoles(ClaimList(request.claims.roles), ValidRoles(app.valid_roles)))
      BY <1>2, <1>4 DEF UserFromClaims, Valid
    <2>2. /\ request.claims.roles.items # << >>
          /\ request.claims.roles # OneText(Lower(""))
      BY <1>1, <1>4, Presented
    <2> QED
      BY <1>3, <2>1, <2>2 DEF IssuedWords, Known, ClaimedWords
  <1>5. CASE ClaimList(request.claims.roles) = << >>
    <2>1. UserFromClaims(request.claims, Valid) =
              BaseUser(email, ParseRoles(ClaimList(request.claims.role), ValidRoles(app.valid_roles)))
      BY <1>2, <1>5 DEF UserFromClaims, Valid
    <2>2. \/ request.claims.roles.items = << >>
          \/ request.claims.roles = OneText(Lower(""))
      BY <1>1, <1>5, Presented
    <2> QED
      BY <1>3, <2>1, <2>2 DEF IssuedWords, Known, ClaimedWords
  <1> QED
    BY <1>4, <1>5

\* Only a text is a UPN that has a netid.
LEMMA AcceptedUpn ==
    ASSUME NEW claims, AcceptsClaims(claims)
    PROVE  claims.upn # NoEmail
  <1> DEFINE names == << "upn" >>
             texts == {i \in DOMAIN names : claims[names[i]] # NoEmail}
  <1>1. NetidFromEmail(NoEmail) = ""
    BY DEF NetidFromEmail, NoEmail, Email, InstitutionalEmailDomains
  <1>2. texts # {}
    BY <1>1 DEF AcceptsClaims, ClaimValue
  <1>3. \A i \in DOMAIN names : names[i] = "upn"
    OBVIOUS
  <1> QED
    BY <1>2, <1>3

\* What the request, the application and the endpoint are does not change.
LEMMA InputIsConstant == [Next]_vars => UNCHANGED input
  <1>1. Authorize => UNCHANGED input
    BY DEF Authorize, RefusesToStart, BuildsRuntimes, KeepsAzureUser, SchemeRejects,
        SchemeReturnsNone, SchemeReturnsUser, RejectKey, AcceptKey, RejectMissingToken,
        RejectClaims, AcceptToken, Rejects, Authenticates, NoOverride, LoadOverride,
        OverrideLoaded, OverrideRaises, OverrideRollbackFails, RefuseText, Grant, Deny
  <1>2. Read \/ DecoratedWrite \/ Handle \/ WriteApplied => UNCHANGED input
    BY DEF Read, BeginRead, Query, QueryFails, ReadRaises, ReadReturns, RollBackToRetry,
        NoRetry, RollbackSessions, RollbackSessionFails, DecoratedWrite, WriteBegins, WriteReturns,
        WriteFails, WriteOutcomeUnknown, Handle, DatabaseDisconnectHandler, ApiErrorHandler,
        DefaultHandler, Answer, CloseSessions, WriteApplied
  <1> QED
    BY <1>1, <1>2 DEF Next, Step, vars

\* Nothing but the authorization writes to the log or knows of the identity.
LEMMA AuthIsConstant ==
    [Next]_vars /\ ~Authorize =>
        UNCHANGED auth /\ pc' \notin AuthPCs \ {pc}
  BY DEF Read, BeginRead, Query, QueryFails, ReadRaises, ReadReturns, RollBackToRetry,
      NoRetry, RollbackSessions, RollbackSessionFails, DecoratedWrite, WriteBegins, WriteReturns,
      WriteFails, WriteOutcomeUnknown, Handle, DatabaseDisconnectHandler, ApiErrorHandler,
      DefaultHandler, Answer, CloseSessions, WriteApplied, Next, Step, vars, Transition, AuthPCs

\* The record before the evaluation is only an override of this dependency when
\* the override has just run.
LEMMA NotYetOverridden ==
    ASSUME FlowInv, IdentityInv, pc \in AuthPCs \ {"evaluate"}
    PROVE  ~OverriddenNow
  <1> SUFFICES ASSUME OverriddenNow PROVE FALSE
    OBVIOUS
  <1>1. audit # << >> /\ audit \in Seq({audit[i] : i \in DOMAIN audit})
    BY DEF OverriddenNow, FlowInv
  <1>2. Len(audit) \in DOMAIN audit /\ Last(audit) = audit[Len(audit)]
    BY <1>1 DEF Last
  <1>3. Last(audit).event = "overridden" /\ Last(audit).dep = dep
    BY DEF OverriddenNow
  <1> QED
    BY <1>2, <1>3 DEF IdentityInv

LEMMA IdentityStep ==
    ASSUME RequestAssumption, FlowInv, IdentityInv, [Next]_vars
    PROVE  IdentityInv'
  <1> USE DEF Transition, AuthPCs
  <1>1. dep \in Nat \ {0}
    <2>1. endpoint.dependencies \in Seq([policy : STRING, overrides : BOOLEAN])
      BY DEF RequestAssumption, FlowInv
    <2> QED
      BY <2>1 DEF FlowInv
  <1>2. /\ UNCHANGED <<request, HasKey, ByKey, ByToken, IssuedWords>>
        /\ UNCHANGED dep => UNCHANGED Policy
    BY InputIsConstant DEF input, HasKey, ByKey, ByToken, IssuedWords, Policy
  <1>3. ASSUME UNCHANGED <<dep, azure, identity, audit>>,
               pc' \notin {"override", "evaluate"},
               pc' = "loading" => pc = "override" /\ Policy.overrides,
               pc' \in AuthPCs \ {"evaluate"} => pc \in AuthPCs \ {"evaluate"}
        PROVE  IdentityInv'
    BY <1>2, <1>3 DEF IdentityInv, Words
  <1>4. ASSUME UNCHANGED <<dep, audit>>, pc \in AuthPCs \ {"evaluate"}, pc' \in AuthPCs
        PROVE  \A i \in DOMAIN audit' : audit'[i].event = "overridden" =>
                   audit'[i].dep \in 1..dep' /\ (pc' \in AuthPCs \ {"evaluate"} => audit'[i].dep # dep')
    BY <1>4 DEF IdentityInv
  <1>5. ASSUME NEW event \in {"failed", "rejected", "denied", "bypass"}, NEW before, NEW after,
               Audit(event, before, after), UNCHANGED dep, pc \in AuthPCs,
               pc' \in AuthPCs => pc' = "override" /\ pc = "policy"
        PROVE  \A i \in DOMAIN audit' : audit'[i].event = "overridden" =>
                   audit'[i].dep \in 1..dep' /\ (pc' \in AuthPCs \ {"evaluate"} => audit'[i].dep # dep')
    <2>1. /\ DOMAIN audit' = 1..Len(audit) + 1 /\ DOMAIN audit = 1..Len(audit) /\ Len(audit) \in Nat
          /\ \A i \in DOMAIN audit : audit'[i] = audit[i]
          /\ audit'[Len(audit) + 1].event = event
      BY <1>5, AuditFacts
    <2>2. \A i \in DOMAIN audit' : audit'[i].event = "overridden" => i \in DOMAIN audit
      BY <2>1
    <2> QED
      BY <1>5, <2>1, <2>2 DEF IdentityInv
  <1>6. CASE Authorize
    <2>1. CASE RefusesToStart \/ BuildsRuntimes \/ KeepsAzureUser \/ LoadOverride
               \/ OverrideRollbackFails \/ RefuseText
      BY <1>3, <2>1 DEF RefusesToStart, BuildsRuntimes, KeepsAzureUser, LoadOverride,
          OverrideRollbackFails, RefuseText, auth
    <2>2. CASE SchemeReturnsNone \/ SchemeReturnsUser
      BY <1>2, <2>2 DEF SchemeReturnsNone, SchemeReturnsUser, IdentityInv
    <2>3. CASE SchemeRejects \/ Deny
      BY <1>2, <1>5, <2>3 DEF SchemeRejects, Deny, IdentityInv
    <2>4. ASSUME NEW event \in {"failed", "rejected"}, Rejects(event) PROVE IdentityInv'
      BY <1>2, <1>5, <2>4 DEF Rejects, IdentityInv
    <2>5. CASE AcceptKey
      <3>1. /\ HasKey /\ KeyRefusal = "none" /\ identity' = KeyUser /\ pc = "policy" /\ pc' = "override"
            /\ Audit("bypass", Nobody, Nobody) /\ UNCHANGED <<dep, azure>>
        BY <2>5 DEF AcceptKey, Authenticates
      <3>2. ByKey
        BY <3>1 DEF ByKey, KeyRefusal, ApiKeyRefusal, IsAllowedApiKeyClient, ConstantTimeEquals
      <3>3. Words(identity)' \subseteq IssuedWords
        BY <3>1, KeyUserIsIssued DEF Words
      <3> QED
        BY <1>2, <1>5, <3>1, <3>2, <3>3 DEF IdentityInv
    <2>6. CASE AcceptToken
      <3>1. /\ ~HasKey /\ azure /\ AcceptsClaims(request.claims)
            /\ identity' = UserFromClaims(request.claims, Valid)
            /\ pc = "policy" /\ pc' = "override" /\ UNCHANGED <<dep, azure, audit>>
        BY <2>6 DEF AcceptToken, Authenticates
      <3>2. ByToken
        BY <3>1, AcceptedUpn DEF ByToken, IdentityInv
      <3>3. Words(identity)' \subseteq IssuedWords
        BY <3>1, TokenUserIsIssued DEF Words
      <3> QED
        BY <1>2, <1>4, <3>1, <3>2, <3>3 DEF IdentityInv
    <2>7. CASE NoOverride
      <3>1. /\ pc = "override" /\ pc' = "evaluate" /\ UNCHANGED <<dep, azure, identity, audit>>
        BY <2>7 DEF NoOverride
      <3>2. ~OverriddenNow'
        BY <3>1, NotYetOverridden DEF OverriddenNow
      <3> QED
        BY <1>2, <1>4, <3>1, <3>2 DEF IdentityInv, Words
    <2>8. ASSUME NEW after, OverrideLoaded(after) PROVE IdentityInv'
      <3>1. /\ pc = "loading" /\ pc' = "evaluate" /\ identity' = after /\ UNCHANGED <<dep, azure>>
        BY <2>8 DEF OverrideLoaded
      <3>2. CASE OverrideChanges(identity, after)
        <4>1. Audit("overridden", identity, after)
          BY <2>8, <3>2 DEF OverrideLoaded
        <4>2. /\ DOMAIN audit' = 1..Len(audit) + 1 /\ DOMAIN audit = 1..Len(audit) /\ Len(audit) \in Nat
              /\ \A i \in DOMAIN audit : audit'[i] = audit[i]
              /\ audit'[Len(audit) + 1].dep = dep
              /\ audit' # << >> /\ Last(audit').event = "overridden"
              /\ Last(audit').dep = dep /\ Last(audit').after = after
          BY <4>1, AuditFacts
        <4>3. \A i \in DOMAIN audit' : audit'[i].event = "overridden" => audit'[i].dep \in 1..dep'
          BY <1>1, <3>1, <4>2 DEF IdentityInv
        <4>4. Policy.overrides
          BY <3>1 DEF IdentityInv
        <4> QED
          BY <1>2, <3>1, <4>2, <4>3, <4>4 DEF IdentityInv, OverriddenNow
      <3>3. CASE ~OverrideChanges(identity, after)
        <4>1. UNCHANGED audit
          BY <2>8, <3>3 DEF OverrideLoaded
        <4>2. Words(after) = Words(identity)
          BY <3>3 DEF OverrideChanges, Words, RolesOf
        <4>3. ~OverriddenNow'
          BY <3>1, <4>1, NotYetOverridden DEF OverriddenNow
        <4> QED
          BY <1>2, <1>4, <3>1, <4>1, <4>2, <4>3 DEF IdentityInv, Words
      <3> QED
        BY <3>2, <3>3
    <2>9. ASSUME NEW exc, OverrideRaises(exc) PROVE IdentityInv'
      BY <1>3, <2>9 DEF OverrideRaises, auth
    <2>10. CASE Grant
      <3>1. /\ pc = "evaluate" /\ Audit("granted", identity, identity) /\ UNCHANGED <<azure, identity>>
            /\ \/ pc' = "endpoint" /\ dep' = dep
               \/ pc' = "scheme" /\ dep' = dep + 1
        BY <2>10 DEF Grant
      <3>2. /\ DOMAIN audit' = 1..Len(audit) + 1 /\ DOMAIN audit = 1..Len(audit) /\ Len(audit) \in Nat
            /\ \A i \in DOMAIN audit : audit'[i] = audit[i]
            /\ audit'[Len(audit) + 1].event = "granted"
        BY <3>1, AuditFacts
      <3>3. \A i \in DOMAIN audit' : audit'[i].event = "overridden" => i \in DOMAIN audit
        BY <3>2
      <3>4. \A i \in DOMAIN audit' : audit'[i].event = "overridden" => audit'[i].dep \in 1..dep
        BY <3>2, <3>3 DEF IdentityInv
      <3> QED
        BY <1>1, <1>2, <3>1, <3>4 DEF IdentityInv
    <2> QED
      BY <1>6, <2>1, <2>2, <2>3, <2>4, <2>5, <2>6, <2>7, <2>8, <2>9, <2>10
      DEF Authorize, RejectKey, RejectMissingToken, RejectClaims
  <1>7. CASE ~Authorize
    <2>1. UNCHANGED auth /\ pc' \notin AuthPCs \ {pc}
      BY <1>7, AuthIsConstant
    <2> QED
      BY <1>2, <2>1 DEF auth, IdentityInv, Words, OverriddenNow
  <1> QED
    BY <1>6, <1>7

LEMMA JustifiedStep ==
    ASSUME RequestAssumption, FlowInv, IdentityInv, JustifiedInv, [Next]_vars
    PROVE  JustifiedInv'
  <1>1. /\ UNCHANGED <<app, endpoint, HasKey, ByKey, ByToken, IssuedWords>>
        /\ \A d : PolicyWords(d)' = PolicyWords(d)
    BY InputIsConstant DEF input, HasKey, ByKey, ByToken, IssuedWords, PolicyWords
  <1>2. CASE UNCHANGED audit
    BY <1>1, <1>2 DEF JustifiedInv, Justified, Overridden, Words
  \* A record does not change those before it.
  <1>3. ASSUME NEW event, NEW before, NEW after, Audit(event, before, after)
        PROVE  /\ DOMAIN audit' = DOMAIN audit \union {Len(audit) + 1}
               /\ audit'[Len(audit) + 1].event = event
               /\ \A i \in DOMAIN audit : audit'[i].event = "granted" => Justified(i)'
    <2>1. /\ DOMAIN audit' = 1..Len(audit) + 1 /\ DOMAIN audit = 1..Len(audit) /\ Len(audit) \in Nat
          /\ \A i \in DOMAIN audit : audit'[i] = audit[i]
          /\ audit'[Len(audit) + 1].event = event
      BY <1>3, AuditFacts
    <2>2. ASSUME NEW i \in DOMAIN audit, audit'[i].event = "granted" PROVE Justified(i)'
      <3>1. audit'[i] = audit[i] /\ Justified(i)
        BY <2>1, <2>2 DEF JustifiedInv
      <3>2. i > 1 => audit'[i - 1] = audit[i - 1]
        BY <2>1
      <3>3. Overridden(i)' = Overridden(i)
        BY <3>1, <3>2 DEF Overridden
      <3>4. Overridden(i) => i > 1
        BY DEF Overridden
      <3> QED
        BY <1>1, <3>1, <3>2, <3>3, <3>4 DEF Justified, Words
    <2> QED
      BY <2>1, <2>2
  <1>4. ASSUME NEW event, NEW before, NEW after, Audit(event, before, after), event # "granted"
        PROVE  JustifiedInv'
    BY <1>3, <1>4 DEF JustifiedInv
  <1>5. CASE Grant
    <2>1. /\ pc = "evaluate" /\ Audit("granted", identity, identity)
          /\ Grants(identity, Required)
      BY <1>5 DEF Grant
    <2>2. /\ DOMAIN audit' = 1..Len(audit) + 1 /\ DOMAIN audit = 1..Len(audit) /\ Len(audit) \in Nat
          /\ \A i \in DOMAIN audit : audit'[i] = audit[i]
          /\ audit'[Len(audit) + 1] = Last(audit')
          /\ Last(audit').dep = dep /\ Last(audit').after = identity
      BY <2>1, AuditFacts
    <2>3. PICK n \in Nat : n = Len(audit) + 1
      BY <2>2
    <2>4. audit'[n].dep = dep /\ audit'[n].after = identity
      BY <2>2, <2>3
    <2>5. Words(identity) \intersect PolicyWords(dep) # {}
      <3>1. /\ ValidConfiguration(app.valid_roles, app.policies)
            /\ Policy.policy \in DOMAIN app.policies
        BY <2>1 DEF FlowInv, Starts, Policy
      <3>2. PICK role \in RolesOf(identity) : role \in Required
        BY <2>1 DEF Grants
      <3>3. Required = {NormalizeRole(r, Valid) : r \in app.policies[Policy.policy]}
        BY <3>1 DEF Required, PolicyRoles
      <3>4. NoRole \notin Required
        BY <3>1 DEF ValidConfiguration, Required, Valid
      <3>5. PICK r \in app.policies[Policy.policy] : role = NormalizeRole(r, Valid)
        BY <3>2, <3>3
      <3>6. Valid \in Seq(Texts)
        BY ValidRole DEF FlowInv, RequestAssumption, Valid
      <3>7. role.word = r.word
        BY <3>2, <3>4, <3>5, <3>6, NormalizedRole
      <3> QED
        BY <3>2, <3>5, <3>7 DEF Words, PolicyWords, Policy
    <2>6. IF HasKey THEN ByKey ELSE ByToken
      BY <2>1 DEF IdentityInv
    <2>7. Overridden(n)' <=> OverriddenNow
      <3>1. audit \in Seq({audit[i] : i \in DOMAIN audit})
        BY DEF FlowInv
      <3>2. n > 1 <=> audit # << >>
        BY <2>2, <2>3, <3>1
      <3>3. n > 1 => audit'[n - 1] = audit[Len(audit)]
        BY <2>2, <2>3
      <3>4. Last(audit) = audit[Len(audit)]
        BY DEF Last
      <3> QED
        BY <2>4, <3>2, <3>3, <3>4 DEF Overridden, OverriddenNow
    <2>8. OverriddenNow => audit'[n - 1] = Last(audit)
      <3>1. audit \in Seq({audit[i] : i \in DOMAIN audit})
        BY DEF FlowInv
      <3> QED
        BY <2>2, <2>3, <3>1 DEF OverriddenNow, Last
    <2>9. IF OverriddenNow THEN Policy.overrides /\ Last(audit).after = identity
          ELSE Words(identity) \subseteq IssuedWords
      BY <2>1 DEF IdentityInv
    <2>10. Justified(n)'
      BY <1>1, <2>4, <2>5, <2>6, <2>7, <2>8, <2>9 DEF Justified, Policy, Words
    <2>11. \A i \in DOMAIN audit : audit'[i].event = "granted" => Justified(i)'
      BY <2>1, <1>3
    <2>12. \A i \in DOMAIN audit' : i \in DOMAIN audit \/ i = n
      BY <2>2, <2>3
    <2> QED
      BY <2>10, <2>11, <2>12 DEF JustifiedInv
  <1>6. CASE Authorize
    <2>1. CASE RefusesToStart \/ BuildsRuntimes \/ KeepsAzureUser \/ SchemeReturnsNone
               \/ SchemeReturnsUser \/ AcceptToken
      BY <1>2, <2>1 DEF RefusesToStart, BuildsRuntimes, KeepsAzureUser, SchemeReturnsNone,
          SchemeReturnsUser, AcceptToken, auth
    <2>2. CASE NoOverride \/ LoadOverride \/ OverrideRollbackFails \/ RefuseText
      BY <1>2, <2>2 DEF NoOverride, LoadOverride, OverrideRollbackFails, RefuseText, auth
    <2>3. CASE SchemeRejects \/ AcceptKey \/ Deny
      BY <1>4, <2>3 DEF SchemeRejects, AcceptKey, Deny
    <2>4. CASE RejectKey \/ RejectMissingToken \/ RejectClaims
      BY <1>4, <2>4 DEF RejectKey, RejectMissingToken, RejectClaims, Rejects
    <2>5. ASSUME NEW after, OverrideLoaded(after) PROVE JustifiedInv'
      BY <1>2, <1>4, <2>5 DEF OverrideLoaded
    <2>6. ASSUME NEW exc, OverrideRaises(exc) PROVE JustifiedInv'
      BY <1>2, <2>6 DEF OverrideRaises, auth
    <2> QED
      BY <1>5, <1>6, <2>1, <2>2, <2>3, <2>4, <2>5, <2>6 DEF Authorize
  <1>7. CASE ~Authorize
    BY <1>2, <1>7, AuthIsConstant DEF auth
  <1> QED
    BY <1>6, <1>7

-----------------------------------------------------------------------------
(* The theorems.                                                           *)

LEMMA RequestInvariant == Spec => []RequestInv
  <1>1. RequestInv /\ [Next]_vars => RequestInv'
    BY RequestAssumption, FlowStep, RaisedStep, WriteStep, UserStep, TxStep, GrantsStep,
       IdentityStep, JustifiedStep DEF RequestInv
  <1>2. Init => RequestInv
    BY RequestAssumption, Begins
  <1> QED
    BY <1>1, <1>2, PTL DEF Spec

\* Every policy that was granted was granted to someone with one of its roles, as
\* they were issued or as the override of that policy left them, and who came in
\* by a token with a UPN or by the development key of a development application.
THEOREM RequestGrantsAreJustified == Spec => []GrantsAreJustified
  <1>1. RequestInv => GrantsAreJustified
    BY DEF RequestInv, JustifiedInv, Justified, Overridden, PolicyWords, Words, ByKey, ByToken,
        GrantsAreJustified
  <1> QED
    BY <1>1, RequestInvariant, PTL

\* The endpoint runs behind one grant of each policy, and whoever is turned away
\* finds the reason at the end of the log, and nowhere else.
THEOREM RequestEveryOutcomeAudited == Spec => []EveryOutcomeAudited
  <1>1. RequestInv => EveryOutcomeAudited
    BY DEF RequestInv, GrantsInv, RaisedInv, EveryOutcomeAudited, EndpointPCs
  <1> QED
    BY <1>1, RequestInvariant, PTL

\* request.state only ever holds the user that the running dependency confirmed.
THEOREM RequestUserIsCurrent == Spec => []UserIsCurrent
  <1>1. RequestInv => UserIsCurrent
    BY DEF RequestInv, UserInv, RaisedInv, UserIsCurrent, EndpointPCs
  <1> QED
    BY <1>1, RequestInvariant, PTL

\* The endpoint begins without an open transaction, and a read never runs over
\* a session whose connection was lost.
THEOREM RequestSessionsAreClean == Spec => []SessionsAreClean
  <1>1. RequestInv => SessionsAreClean
    BY DEF RequestInv, TxInv, SessionsAreClean
  <1> QED
    BY <1>1, RequestInvariant, PTL

\* The status that the client gets tells what became of the write.
THEOREM RequestAnswerIsTrue == Spec => []AnswerIsTrue
  <1>1. RequestInv => AnswerIsTrue
    <2>1. ASSUME RequestInv, answer = 503 PROVE raised.orig.sqlstate \in {"08S01", "08001", "HY000", "HYT00"}
      BY <2>1, ExceptionFacts DEF RequestInv, RaisedInv
    <2>2. ASSUME RequestInv, answer \notin {0, 200, 503}
          PROVE  applied = {} /\ reply["write"] # "unknown"
      <3>1. pc \in EndedPCs
        BY <2>2 DEF RequestInv, RaisedInv, FlowInv, EndedPCs
      <3>2. reply["write"] \in {"none", "failed"}
        BY <2>2 DEF RequestInv, WriteInv, Write!Replies
      <3> QED
        BY <2>2, <3>1, <3>2 DEF RequestInv, WriteInv
    <2>3. ASSUME RequestInv, answer = 200, endpoint.kind = "write" PROVE applied = {"write"}
      BY <2>3 DEF RequestInv, WriteInv
    <2> QED
      BY <2>1, <2>2, <2>3 DEF AnswerIsTrue
  <1> QED
    BY <1>1, RequestInvariant, PTL

=============================================================================
