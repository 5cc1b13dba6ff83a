--------------------------- MODULE ProfileSettings ---------------------------
(***************************************************************************)
(* The settings of one access profile under "fsoc config set", "create"    *)
(* and "delete" (cmd/config) and under the logins that fill it in          *)
(* (platform/api).  A command applies the settings it is given in a fixed  *)
(* order, and each one clears the fields that depend on it, according to   *)
(* a table per authentication method; --patch turns the clearing off.  A   *)
(* command that fails at any setting exits and saves nothing.              *)
(*                                                                         *)
(* A token, a refresh token and a user name are represented by what they   *)
(* were obtained for: the method, URL and tenant of the profile then; a    *)
(* secret file by the method it was given for.                             *)
(***************************************************************************)
EXTENDS FiniteSets

CONSTANTS
    Methods,   \* authentication methods
    ProdURLs,  \* URLs of hosts in .observe.appdynamics.com
    DevURLs,   \* other URLs
    Tenants,   \* tenant IDs
    Unset      \* a setting the command line does not have

AllMethods == {"none", "local", "jwt", "service-principal", "agent-principal", "oauth"}

\* A login makes "service-principal" of an empty method.
ASSUME MethodsAssumption ==
    /\ Methods \subseteq AllMethods
    /\ "service-principal" \in Methods
ASSUME URLsAssumption ==
    /\ ProdURLs \cap DevURLs = {} /\ Unset \notin {"", "given"}
    /\ {"", Unset} \cap (ProdURLs \cup DevURLs \cup Tenants \cup AllMethods) = {}

VARIABLES
    exists,   \* the profile is in the config file
    profile,  \* its settings
    patched,  \* --patch was used since the method was last set without it (history)
    lost      \* settings given to the last command that it did not keep (history)

vars == <<exists, profile, patched, lost>>

URLs == ProdURLs \cup DevURLs
Principals == {"service-principal", "agent-principal"}
Credential == [method : Methods, url : URLs \cup {""}, tenant : Tenants \cup {""}]
NoCredential == [method |-> "", url |-> "", tenant |-> ""]
Credentials == Credential \cup {NoCredential}

\* An older fsoc kept the credentials of a service principal in CsvFile: csv.  Secret "csv" is
\* that file moved to SecretFile.
Profile ==
    [auth : Methods \cup {""}, envtype : {"", "prod", "dev"}, url : URLs \cup {""},
     tenant : Tenants \cup {""}, user : Credentials, token : Credentials, refresh : Credentials,
     secret : Methods \cup {"", "csv"}, csv : BOOLEAN]

EmptyProfile ==
    [auth |-> "", envtype |-> "", url |-> "", tenant |-> "", user |-> NoCredential,
     token |-> NoCredential, refresh |-> NoCredential, secret |-> "", csv |-> FALSE]

\* Profiles of an older fsoc.
LegacyProfile ==
    [auth : {"service-principal"}, envtype : {""}, url : URLs \cup {""},
     tenant : Tenants \cup {""}, user : {NoCredential}, token : {NoCredential},
     refresh : {NoCredential}, secret : {""}, csv : {TRUE}]

\* What a command line sets: a value, or Unset.  An empty tenant or token is set like another;
\* an empty URL or environment type is refused; a secret file is never empty, since it is made
\* an absolute path.  (The appd-... settings only matter to "local" and touch nothing.)
Arguments ==
    [auth : Methods \cup {"", Unset}, envtype : {"prod", "dev", Unset}, url : URLs \cup {Unset},
     tenant : Tenants \cup {"", Unset}, token : {"given", "", Unset}, secret : BOOLEAN]

Init ==
    /\ \/ exists = FALSE /\ profile = EmptyProfile
       \/ exists = TRUE /\ profile \in LegacyProfile
    /\ patched = FALSE /\ lost = {}

-----------------------------------------------------------------------------
(* The tables of set-fields.go                                             *)

\* getAuthFieldWritePermissions
Writable(method) ==
    CASE method = "jwt" -> {"url", "tenant", "token", "user"}
      [] method \in Principals -> {"url", "tenant", "secret-file"}
      [] OTHER -> {"url"}  \* so that any other setting is refused without a method

\* getAuthFieldClearConfig: what setting the field clears
KeepTokenOnURL(method, field) ==
    CASE method = "oauth" /\ field = "url" -> {"tenant", "user", "refresh-token", "secret-file"}
      [] method = "jwt" /\ field = "url" -> {"token", "tenant", "user"}
      [] method = "jwt" /\ field = "tenant" -> {"token", "user"}
      [] method \in Principals /\ field = "url" -> {"tenant", "user", "refresh-token"}
      [] method \in Principals /\ field = "secret-file" ->
             {"url", "tenant", "user", "token", "refresh-token"}
      [] OTHER -> {}

KeepRefreshTokenOnURL(method, field) ==
    CASE method = "oauth" /\ field = "url" -> {"tenant", "user", "token", "secret-file"}
      [] method = "jwt" /\ field = "url" -> {"token", "tenant", "user"}
      [] method = "jwt" /\ field = "tenant" -> {"token", "user"}
      [] method \in Principals /\ field = "url" -> {"tenant", "user", "token"}
      [] method \in Principals /\ field = "secret-file" -> {"url", "tenant", "user", "token"}
      [] OTHER -> {}

Dependent(method, field) ==
    CASE method = "oauth" /\ field = "url" ->
             {"tenant", "user", "token", "refresh-token", "secret-file"}
      [] method = "jwt" /\ field = "url" -> {"token", "tenant", "user"}
      [] method = "jwt" /\ field = "tenant" -> {"token", "user"}
      [] method \in Principals /\ field = "url" -> {"tenant", "user", "token", "refresh-token"}
      [] method \in Principals /\ field = "secret-file" ->
             {"url", "tenant", "user", "token", "refresh-token"}
      [] OTHER -> {}

\* The list that setting the method clears; clearFields knows no "refresh_token", and leaves
\* the CSV file alone.
OnAuth == {"url", "server", "tenant", "user", "token", "refresh_token", "secret-file"}

ClearFields(p, fields) ==
    [p EXCEPT
        !.url = IF "url" \in fields THEN "" ELSE @,
        !.tenant = IF "tenant" \in fields THEN "" ELSE @,
        !.user = IF "user" \in fields THEN NoCredential ELSE @,
        !.token = IF "token" \in fields THEN NoCredential ELSE @,
        !.refresh = IF "refresh-token" \in fields THEN NoCredential ELSE @,
        !.secret = IF "secret-file" \in fields THEN "" ELSE @]

\* automatedFieldClearing, unless --patch
Clearing(p, field, patch) ==
    IF patch THEN p ELSE ClearFields(p, Dependent(p.auth, field))

-----------------------------------------------------------------------------
(* Applying settings, in the order of configSetContext and                 *)
(* updateCoreSettings                                                      *)

Obtained(p) == [method |-> p.auth, url |-> p.url, tenant |-> p.tenant]

SetAuth(p, a, patch) ==
    IF a.auth = Unset THEN p
    ELSE LET q == [p EXCEPT !.auth = a.auth]
         IN IF patch THEN q ELSE ClearFields(q, OnAuth)

SetEnvtype(p, a) == IF a.envtype = Unset THEN p ELSE [p EXCEPT !.envtype = a.envtype]

\* "create" derives an environment type from the URL if there is none; "set" does so if
\* there is one.
SetURL(p, a, patch, create) ==
    IF a.url = Unset THEN p
    ELSE Clearing([p EXCEPT
                      !.url = a.url,
                      !.envtype = IF a.url \in DevURLs /\ (create <=> @ = "") THEN "dev" ELSE @],
                  "url", patch)

SetTenant(p, a, patch) ==
    IF a.tenant = Unset THEN p ELSE Clearing([p EXCEPT !.tenant = a.tenant], "tenant", patch)

SetToken(p, a, patch) ==
    IF a.token = Unset THEN p
    ELSE Clearing([p EXCEPT !.token = IF a.token = "" THEN NoCredential ELSE Obtained(p)],
                  "token", patch)

SetSecretFile(p, a, patch) ==
    IF ~a.secret THEN p
    ELSE Clearing([p EXCEPT !.secret = p.auth, !.csv = FALSE], "secret-file", patch)

\* "upgrade config format from CsvFile to SecretFile", at the end of every command
Upgraded(p) ==
    IF p.secret = "" /\ p.csv THEN [p EXCEPT !.secret = "csv", !.csv = FALSE] ELSE p

TokenFirst(p, a, patch, create) ==
    LET p1 == SetURL(SetEnvtype(SetAuth(p, a, patch), a), a, patch, create)
        p2 == SetTenant(SetToken(p1, a, patch), a, patch)
    IN Upgraded(SetSecretFile(p2, a, patch))

Applied(p, a, patch, create) ==
    LET p1 == SetURL(SetEnvtype(SetAuth(p, a, patch), a), a, patch, create)
        p2 == SetToken(SetTenant(p1, a, patch), a, patch)
    IN Upgraded(SetSecretFile(p2, a, patch))

AcceptedWithoutMethod(p, a) ==
    LET method == IF a.auth = Unset THEN p.auth ELSE a.auth
    IN method # "" => /\ a.tenant # Unset => "tenant" \in Writable(method)
                      /\ a.token # Unset => "token" \in Writable(method)
                      /\ a.secret => "secret-file" \in Writable(method)

\* validateWriteReq: no setting that the method does not allow.
Accepted(p, a) ==
    LET method == IF a.auth = Unset THEN p.auth ELSE a.auth
    IN /\ a.tenant # Unset => "tenant" \in Writable(method)
       /\ a.token # Unset => "token" \in Writable(method)
       /\ a.secret => "secret-file" \in Writable(method)

\* The settings of a command line that the resulting profile does not have.
Lost(a, p) ==
    {f \in {"auth", "envtype", "url", "tenant", "token", "secret-file"} :
        \/ f = "auth" /\ a.auth # Unset /\ p.auth # a.auth
        \/ f = "envtype" /\ a.envtype # Unset /\ p.envtype # a.envtype
        \/ f = "url" /\ a.url # Unset /\ p.url # a.url
        \/ f = "tenant" /\ a.tenant # Unset /\ p.tenant # a.tenant
        \/ f = "token" /\ a.token = "given" /\ p.token # Obtained(p)
        \/ f = "token" /\ a.token = "" /\ p.token # NoCredential
        \/ f = "secret-file" /\ a.secret /\ p.secret # p.auth}

\* configSetContext: the profile is created if need be.
ConfigSet(a, patch) ==
    /\ Accepted(profile, a)
    /\ exists' = TRUE
    /\ profile' = Applied(profile, a, patch, FALSE)
    /\ lost' = Lost(a, profile')
    /\ patched' = IF patch THEN TRUE ELSE IF a.auth # Unset THEN FALSE ELSE patched

\* configCreateContext
ConfigCreate(a) ==
    /\ ~exists
    /\ a.auth # ""
    /\ Accepted(profile, a)
    /\ exists' = TRUE
    /\ profile' = Applied(profile, a, FALSE, TRUE)
    /\ lost' = Lost(a, profile')
    /\ UNCHANGED patched

ConfigDelete ==
    /\ exists
    /\ exists' = FALSE /\ profile' = EmptyProfile /\ patched' = FALSE /\ lost' = {}

-----------------------------------------------------------------------------
(* Logins (api.Login, or the login of any API call)                        *)

\* The user name is taken from the access token, if it can be.
WithTokens(p, refresh) ==
    {[p EXCEPT !.token = Obtained(p), !.refresh = IF refresh THEN Obtained(p) ELSE @, !.user = u] :
        u \in {p.user, Obtained(p)}}

\* oauthLogin: the tenant is looked up by the URL if the profile has none.
OAuthLogin ==
    /\ exists /\ profile.auth = "oauth" /\ profile.url # ""
    /\ \E t \in IF profile.tenant = "" THEN Tenants ELSE {profile.tenant} :
           profile' \in WithTokens([profile EXCEPT !.tenant = t], TRUE)
    /\ lost' = {}
    /\ UNCHANGED <<exists, patched>>

\* agentOrServicePrincipalLogin: the tenant and the URL come from the credentials if the
\* profile has none.  An empty method becomes "service-principal".  checkConfigForAuth asks for
\* a SecretFile, so that the login never gets to the CSV file in its place.
PrincipalLogin ==
    /\ exists /\ profile.auth \in Principals \cup {""} /\ profile.secret # ""
    /\ \E t \in IF profile.tenant = "" THEN Tenants ELSE {profile.tenant},
          u \in IF profile.url = "" THEN ProdURLs ELSE {profile.url} :
           profile' \in WithTokens([profile EXCEPT !.tenant = t, !.url = u,
                                        !.auth = IF @ = "" THEN "service-principal" ELSE @], FALSE)
    /\ lost' = {}
    /\ UNCHANGED <<exists, patched>>

Login == OAuthLogin \/ PrincipalLogin

Next ==
    \/ \E a \in Arguments : ConfigCreate(a) \/ \E patch \in BOOLEAN : ConfigSet(a, patch)
    \/ ConfigDelete
    \/ Login

Spec == Init /\ [][Next]_vars

-----------------------------------------------------------------------------
(* Properties                                                              *)

\* Every variable stays in its domain; without a method there is no token.
TypeOK ==
    /\ exists \in BOOLEAN
    /\ profile \in Profile
    /\ patched \in BOOLEAN
    /\ lost \subseteq {"auth", "envtype", "url", "tenant", "token", "secret-file"}
    /\ ~patched /\ profile.auth = "" => profile.token = NoCredential

\* Whatever sequence of commands and logins the profile goes through, as long as --patch
\* is not used, the access token, the user name and the secret file are those of its
\* method and the token was obtained from its URL; and, where the tenant cannot be changed
\* under a token, for its tenant.  The exception is the credentials file of an older fsoc,
\* a service principal's: clearFields leaves CsvFile alone, and the upgrade at the end of
\* the command that changes the method makes it the new one's secret file.
Belongs(c) ==
    c # NoCredential =>
        /\ c.method = profile.auth
        /\ c.url = profile.url
        /\ profile.auth \in {"oauth", "jwt"} => c.tenant = profile.tenant

CredentialsBelong ==
    ~patched =>
        /\ Belongs(profile.token) /\ Belongs(profile.user)
        /\ profile.secret \in {"", profile.auth, "csv"}

\* A refresh token outlives a change of method, but a login never offers it to another
\* server than the one it comes from.
RefreshTokenStaysHome ==
    ~patched /\ profile.auth = "oauth" /\ profile.url # "" /\ profile.refresh # NoCredential =>
        profile.refresh = [method |-> "oauth", url |-> profile.url, tenant |-> profile.tenant]

\* Settings given on one command line are there afterwards: none is cleared or replaced
\* because of another given with it ("fsoc config create agent2 auth=agent-principal
\* secret-file=client-values.json tenant=123456 url=...", an example in create.go).
SettingsKept == lost = {}

\* It holds but for two rules: a secret file comes last and clears the URL and the tenant,
\* and "set" replaces the environment type when the URL is a development one.
OtherSettingsKept ==
    /\ lost \subseteq {"url", "tenant", "envtype"}
    /\ lost \cap {"url", "tenant"} # {} => profile.auth \in Principals /\ profile.secret = profile.auth
    /\ "envtype" \in lost => profile.url \in DevURLs \/ "url" \in lost
=============================================================================
