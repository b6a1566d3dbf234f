------------------------------ MODULE MCRequest ------------------------------
(* Two roles, one of them configured in two spellings; applications that    *)
(* start and some that cannot; endpoints with one or two policies.          *)
EXTENDS Request

Admin == Text("admin", "capital", FALSE)
AdminAgain == Lower("admin")
Viewer == Lower("viewer")

Settings(environment, enabled, key, ids) ==
    [environment |-> environment, enable_dev_api_key |-> enabled, dev_api_key |-> key,
     azure_ids |-> ids]

BothIds == {"client", "tenant"}
Production == Settings(Lower("production"), FALSE, "", BothIds)
Local == Settings(Text("local", "capital", FALSE), TRUE, "secret", BothIds)

App(settings) ==
    [settings |-> settings,
     valid_roles |-> <<Text("admin", "capital", TRUE), AdminAgain, Viewer>>,
     policies |-> [manage |-> {AdminAgain}, read |-> {Text("viewer", "capital", TRUE), Admin}],
     allow_placeholders |-> FALSE, builder |-> TRUE, environments |-> {"local", "test"},
     allowed_hosts |-> LoopbackClientHosts, shares_session |-> TRUE]

MCApps ==
    {App(Production), App(Local),
     [App(Local) EXCEPT !.shares_session = FALSE],
     \* Keys are accepted from another machine, and from no local client.
     [App(Local) EXCEPT !.allowed_hosts = {Text("builds", "capital", FALSE)}],
     \* The key is enabled, but its environment is not recognised.
     App(Settings(Text("local", "lower", TRUE), TRUE, "secret", BothIds)),
     \* Placeholders make up for a missing identifier, in development only.
     [App(Settings(Lower("test"), FALSE, "", {"client"})) EXCEPT !.allow_placeholders = TRUE],
     \* These do not start.
     App(Settings(Lower("test"), FALSE, "", {})),
     App(Settings(Lower("production"), TRUE, "secret", BothIds)),
     [App(Production) EXCEPT !.valid_roles = <<Admin, Lower("")>>],
     [App(Production) EXCEPT !.policies = [manage |-> {Lower("typo")}]],
     [App(Production) EXCEPT !.policies = [manage |-> {}]],
     [App(Production) EXCEPT !.policies = [read |-> {Viewer}]]}

Dependency(policy, overrides) == [policy |-> policy, overrides |-> overrides]

MCEndpoints ==
    {[dependencies |-> <<Dependency("manage", TRUE)>>,
      kind |-> "read", sessions |-> <<"main", "other">>]}
    \union
    {[dependencies |-> d, kind |-> "write", sessions |-> <<"main">>] :
        d \in {<<Dependency("manage", TRUE)>>,
               <<Dependency("read", FALSE), Dependency("manage", FALSE)>>,
               <<Dependency("manage", FALSE), Dependency("read", TRUE)>>,
               <<Dependency("read", TRUE), Dependency("manage", FALSE)>>}}

Claims(upn, roles, role) == [upn |-> upn, roles |-> roles, role |-> role]
Ana == Email("ana", "illinois.edu")

AnaWith(roles) ==
    [token |-> "good", claims |-> Claims(Ana, roles, OneText(AdminAgain)),
     key |-> "absent", role_header |-> Nothing, host |-> Lower("10.1.2.3")]

WithKey(key, header, host) ==
    [AnaWith(List(<<Admin>>)) EXCEPT !.key = key, !.role_header = header, !.host = Lower(host)]

MCArriving ==
    {AnaWith(roles) :
        roles \in {Nothing, Other, OneText(Viewer), OneText(Lower("")),
                   List(<<Text("admin", "capital", TRUE), Lower("typo")>>),
                   List(<<Viewer, AdminAgain, Admin>>)}}
    \union {[AnaWith(Nothing) EXCEPT !.token = t] : t \in {"none", "bad"}}
    \union {[AnaWith(Nothing) EXCEPT !.claims.upn = u] :
                u \in {NoEmail, Email("", "illinois.edu"), Email("ana", "gmail.com")}}
    \union {WithKey("secret", header, "127.0.0.1") :
                header \in {Nothing, OneText(Viewer), OneText(Admin)}}
    \union {WithKey("guess", OneText(Admin), "127.0.0.1"),
            WithKey("secret", OneText(Admin), "10.1.2.3"),
            WithKey("secret", OneText(Admin), "builds"),
            WithKey("secret", OneText(Admin), "")}
=============================================================================
