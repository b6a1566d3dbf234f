--------------------------------- MODULE Auth ---------------------------------
(***************************************************************************)
(* The decisions of core/auth.py that keep no state: role names, claims,   *)
(* development API keys, and whether a user may pass a policy.             *)
(*                                                                         *)
(* A text is the word that is left of it without case and surrounding      *)
(* space, and how it is written: padded or not, and its spelling.  A value *)
(* from outside is what Python would make of it: nothing, one text, a list *)
(* of texts, or something that must not be iterated.                       *)
(***************************************************************************)
EXTENDS Comprehensions, FiniteSetsExt, SequencesExt

Text(word, spelling, padded) == [word |-> word, spelling |-> spelling, padded |-> padded]
Lower(word) == Text(word, "lower", FALSE)
NoRole == Lower("")

Nothing      == [kind |-> "missing", items |-> << >>]
OneText(t)   == [kind |-> "text", items |-> << t >>]
List(texts)  == [kind |-> "list", items |-> texts]
Other        == [kind |-> "other", items |-> << >>]   \* a mapping, bytes, a number

Strip(text) == [text EXCEPT !.padded = FALSE]

\* dict.fromkeys and the `seen` sets: the first of equal values stays.
Distinct(seq) == Only(seq, {i \in DOMAIN seq : seq[i] \notin {seq[j] : j \in 1..i - 1}})

StripAll(texts) == [i \in DOMAIN texts |-> Strip(texts[i])]

-----------------------------------------------------------------------------
(* Roles and policies.                                                     *)

\* NoRole stands for None: no valid role is a text without a word.
NormalizeRole(value, valid) ==
    LET matches == {i \in DOMAIN valid : valid[i].word = value.word}
    IN  IF matches = {} THEN NoRole ELSE valid[Min(matches)]

WithoutEmpty(texts) == Only(texts, {i \in DOMAIN texts : texts[i] # NoRole})

ParseRoles(values, valid) ==
    Distinct(WithoutEmpty([i \in DOMAIN values |-> NormalizeRole(values[i], valid)]))

ParseDistinctStrings(values) == Distinct(WithoutEmpty(StripAll(values)))

ValidRoles(configured) == Distinct(StripAll(configured))

\* policy_roles after validation.
PolicyRoles(policies, valid) ==
    [p \in DOMAIN policies |-> {NormalizeRole(role, valid) : role \in policies[p]}]

\* AuthConfiguration is only built from roles and policies that can match.
ValidConfiguration(configured, policies) ==
    /\ \A i \in DOMAIN configured : configured[i].word # ""
    /\ \A p \in DOMAIN policies :
           policies[p] # {} /\ NoRole \notin PolicyRoles(policies, ValidRoles(configured))[p]

-----------------------------------------------------------------------------
(* Identities.                                                             *)

InstitutionalEmailDomains == {"illinois.edu", "uillinois.edu"}

Email(local, domain) == [local |-> local, domain |-> domain]
NoEmail == Email("", "")

\* "" stands for None.
NetidFromEmail(email) ==
    IF email.domain \in InstitutionalEmailDomains THEN email.local ELSE ""

\* A single text is not taken apart, an empty one is no item, and no other
\* container is iterated.
ClaimList(value) ==
    IF value.kind \in {"text", "list"} /\ value # OneText(Lower("")) THEN value.items ELSE << >>

\* The first of the named claims that is a text.
ClaimValue(claims, names) ==
    LET texts == {i \in DOMAIN names : claims[names[i]] # NoEmail}
    IN  IF texts = {} THEN NoEmail ELSE claims[names[Min(texts)]]

\* roles_override is None unless it is a list.
BaseUser(email, roles) ==
    [email |-> email, roles |-> List(roles), override |-> Nothing]

\* tuple() makes a list of a text's characters, none of which names a role.
Characters(text) == IF text = Lower("") THEN << >> ELSE << Lower("one character") >>

WithRolesOverride(user, value) ==
    [user EXCEPT !.override = IF value.kind = "text" THEN List(Characters(value.items[1]))
                              ELSE value]

EffectiveRoles(user) == IF user.override = Nothing THEN user.roles ELSE user.override

\* The netid, which is a text without a domain, or else the e-mail address.
SubjectOf(user) ==
    LET netid == NetidFromEmail(user.email)
    IN  IF netid # "" THEN Email(netid, "") ELSE user.email

\* default_claims_to_user, for claims that AcceptsClaims accepts.
AcceptsClaims(claims) == NetidFromEmail(ClaimValue(claims, << "upn" >>)) # ""

UserFromClaims(claims, valid) ==
    LET roles == ClaimList(claims.roles)
    IN  BaseUser(ClaimValue(claims, << "upn" >>),
                 ParseRoles(IF roles # << >> THEN roles ELSE ClaimList(claims.role), valid))

-----------------------------------------------------------------------------
(* Settings: the development bypass and the Azure scheme.                  *)

LoopbackClientHosts ==
    {Lower("127.0.0.1"), Lower("::1"), Lower("localhost"), Lower("testclient")}

DevelopmentEnvironments == {"development", "local", "test"}

IsDevelopment(settings) == settings.environment.word \in DevelopmentEnvironments

\* Settings that enable the bypass elsewhere cannot be constructed.
ValidSettings(settings) == settings.enable_dev_api_key => IsDevelopment(settings)

\* Unlike is_development, this ignores case but not space.
DevApiKeyEnabledFor(settings, allowedEnvironments) ==
    /\ settings.enable_dev_api_key
    /\ settings.dev_api_key # ""
    /\ settings.environment.word \in allowedEnvironments /\ ~settings.environment.padded

NoHost == Lower("")   \* a request without a peer address

\* Case is ignored, space is not.
IsAllowedApiKeyClient(host, allowedHosts) ==
    /\ host # NoHost
    /\ \E allowed \in allowedHosts : allowed.word = host.word /\ allowed.padded = host.padded

ConstantTimeEquals(presented, expected) == expected # "" /\ presented = expected

AzureAdConfigured(settings) == settings.azure_ids = {"client", "tenant"}

WithAzureDevelopmentPlaceholders(settings) ==
    IF AzureAdConfigured(settings) \/ ~IsDevelopment(settings) THEN settings
    ELSE [settings EXCEPT !.azure_ids = {"client", "tenant"}]

\* build_azure_scheme raises ValueError when an identifier is missing.
CanBuildScheme(settings, allowPlaceholders) ==
    AzureAdConfigured(IF allowPlaceholders THEN WithAzureDevelopmentPlaceholders(settings)
                      ELSE settings)

AutoError(settings) == ~IsDevelopment(settings)

-----------------------------------------------------------------------------
(* Policies.                                                               *)

\* What each condition of authenticate_with_api_key finds wrong, in its order.
ApiKeyRefusal(settings, wiring, host, key) ==
    CASE ~(wiring.builder /\ IsDevelopment(settings)
           /\ DevApiKeyEnabledFor(settings, wiring.environments)) -> "dev_api_key_disabled"
      [] ~IsAllowedApiKeyClient(host, wiring.allowed_hosts)       -> "non_local_client"
      [] ~ConstantTimeEquals(key, settings.dev_api_key)           -> "invalid_api_key"
      [] OTHER                                                    -> "none"

\* tuple() and set() of a single text would be its characters.
RolesOf(user) == ToSet(EffectiveRoles(user).items)

OverrideChanges(before, after) ==
    \/ EffectiveRoles(before) # EffectiveRoles(after)
    \/ SubjectOf(before) # SubjectOf(after)

\* Faulty variant: the roles the identity provider issued are evaluated.
GrantsIssuedRoles(user, required) == ToSet(user.roles.items) \intersect required # {}

Grants(user, required) == RolesOf(user) \intersect required # {}
=============================================================================
