------------------------ MODULE ProfileSettings_proofs ------------------------
(***************************************************************************)
(* Proofs about ProfileSettings, for any authentication methods, URLs and  *)
(* tenants.  A command applies its settings one after another, so each     *)
(* setting is shown to keep a predicate of the PROFILE (Sound), and the    *)
(* chain of them and the logins to keep the invariant of the state.        *)
(***************************************************************************)
EXTENDS ProfileSettings, TLAPS

\* The methods that no login is made with.
Passive == {"", "none", "local"}

\* What the invariant says of a profile, whether or not it is the one in the file.
BelongsTo(c, p) ==
    c # NoCredential =>
        /\ c.method = p.auth
        /\ c.url = p.url
        /\ p.auth \in {"oauth", "jwt"} => c.tenant = p.tenant

RefreshHome(p) ==
    p.auth = "oauth" /\ p.url # "" /\ p.refresh # NoCredential => p.refresh = Obtained(p)

\* A user name comes from a login, which leaves the URL known and, with "oauth", the tenant.
\* Without this a login that looks up the tenant would part the user name from it.
UserFromLogin(p) ==
    p.user # NoCredential => /\ p.auth \notin Passive
                             /\ p.url # ""
                             /\ p.auth = "oauth" => p.tenant # ""

TokenFromMethod(p) == p.auth \in Passive => p.token = NoCredential

Sound(p) ==
    /\ BelongsTo(p.token, p)
    /\ BelongsTo(p.user, p)
    /\ p.secret \in {"", p.auth, "csv"}
    /\ RefreshHome(p)
    /\ UserFromLogin(p)
    /\ TokenFromMethod(p)

\* Only a principal has a secret file, with --patch or without, unless it was a CSV file.
SecretOfPrincipal(p) == p.secret \in Principals \cup {"", "csv"}

\* What OtherSettingsKept says, of any profile and the settings that it lacks.
OthersKept(gone, p) ==
    /\ gone \subseteq {"url", "tenant", "envtype"}
    /\ gone \cap {"url", "tenant"} # {} => p.auth \in Principals /\ p.secret = p.auth
    /\ "envtype" \in gone => p.url \in DevURLs \/ "url" \in gone

\* The invariant: without --patch the profile is sound; one that is not in the file is empty.
StateSound(there, p, patch, gone) ==
    /\ there \in BOOLEAN
    /\ p \in Profile
    /\ patch \in BOOLEAN
    /\ SecretOfPrincipal(p)
    /\ ~patch => Sound(p)
    /\ ~there => p = EmptyProfile /\ ~patch
    /\ OthersKept(gone, p)

ProfileInv == StateSound(exists, profile, patched, lost)

-----------------------------------------------------------------------------
(* The tables                                                              *)

\* Only "jwt" takes a token, only the principals a secret file, and these a tenant.
LEMMA WritableIs ==
    ASSUME NEW m
    PROVE  /\ "tenant" \in Writable(m) => m \in Principals \cup {"jwt"}
           /\ "token" \in Writable(m) => m = "jwt"
           /\ "secret-file" \in Writable(m) => m \in Principals
<1>1. CASE m = "jwt"
  <2>1. Writable(m) = {"url", "tenant", "token", "user"}
    BY <1>1 DEF Writable, Principals
  <2> QED BY <2>1, <1>1
<1>2. CASE m \in Principals
  <2>1. Writable(m) = {"url", "tenant", "secret-file"}
    BY <1>2 DEF Writable, Principals
  <2> QED BY <2>1, <1>2
<1>3. CASE m \notin Principals \cup {"jwt"}
  <2>1. Writable(m) = {"url"}
    BY <1>3 DEF Writable, Principals
  <2> QED BY <2>1
<1> QED BY <1>1, <1>2, <1>3

\* What a new URL clears, method by method.
LEMMA DependentOnURL ==
    ASSUME NEW m
    PROVE  /\ "url" \notin Dependent(m, "url")
           /\ m \in Principals \cup {"jwt", "oauth"} => {"tenant", "user", "token"} \subseteq Dependent(m, "url")
           /\ m = "oauth" => "refresh-token" \in Dependent(m, "url")
           /\ m \notin Principals \cup {"jwt", "oauth"} => Dependent(m, "url") = {}
<1>1. CASE m = "oauth"
  <2>1. Dependent(m, "url") = {"tenant", "user", "token", "refresh-token", "secret-file"}
    BY <1>1 DEF Dependent, Principals
  <2> QED BY <2>1, <1>1 DEF Principals
<1>2. CASE m = "jwt"
  <2>1. Dependent(m, "url") = {"token", "tenant", "user"}
    BY <1>2 DEF Dependent, Principals
  <2> QED BY <2>1, <1>2 DEF Principals
<1>3. CASE m \in Principals
  <2>1. Dependent(m, "url") = {"tenant", "user", "token", "refresh-token"}
    BY <1>3 DEF Dependent, Principals
  <2> QED BY <2>1, <1>3 DEF Principals
<1>4. CASE m \notin Principals \cup {"jwt", "oauth"}
  <2>1. Dependent(m, "url") = {}
    BY <1>4 DEF Dependent, Principals
  <2> QED BY <2>1, <1>4
<1> QED BY <1>1, <1>2, <1>3, <1>4

\* What a new tenant, token and secret file clear.
LEMMA DependentOnOthers ==
    /\ Dependent("jwt", "tenant") = {"token", "user"}
    /\ \A m \in Principals : Dependent(m, "tenant") = {}
    /\ Dependent("jwt", "token") = {}
    /\ \A m \in Principals :
           Dependent(m, "secret-file") = {"url", "tenant", "user", "token", "refresh-token"}
BY DEF Dependent, Principals

-----------------------------------------------------------------------------
(* Clearing and setting fields                                             *)

LEMMA EmptyProfileIs ==
    EmptyProfile \in Profile /\ Sound(EmptyProfile) /\ SecretOfPrincipal(EmptyProfile)
BY DEF EmptyProfile, Profile, Sound, BelongsTo, RefreshHome, UserFromLogin, TokenFromMethod,
       Credentials, NoCredential, SecretOfPrincipal

\* The profile c is p without the given fields.
Cleared(c, p, fields) ==
    /\ c \in Profile
    /\ c.auth = p.auth
    /\ c.envtype = p.envtype
    /\ c.url = IF "url" \in fields THEN "" ELSE p.url
    /\ c.tenant = IF "tenant" \in fields THEN "" ELSE p.tenant
    /\ c.user = IF "user" \in fields THEN NoCredential ELSE p.user
    /\ c.token = IF "token" \in fields THEN NoCredential ELSE p.token
    /\ c.refresh = IF "refresh-token" \in fields THEN NoCredential ELSE p.refresh
    /\ c.secret = IF "secret-file" \in fields THEN "" ELSE p.secret
    /\ c.csv = p.csv

LEMMA ClearFieldsIs ==
    ASSUME NEW p \in Profile, NEW fields
    PROVE  Cleared(ClearFields(p, fields), p, fields)
<1> DEFINE url == IF "url" \in fields THEN "" ELSE p.url
           tenant == IF "tenant" \in fields THEN "" ELSE p.tenant
           user == IF "user" \in fields THEN NoCredential ELSE p.user
           token == IF "token" \in fields THEN NoCredential ELSE p.token
           refresh == IF "refresh-token" \in fields THEN NoCredential ELSE p.refresh
           secret == IF "secret-file" \in fields THEN "" ELSE p.secret
<1>1. /\ url \in URLs \cup {""} /\ tenant \in Tenants \cup {""} /\ secret \in Methods \cup {"", "csv"}
      /\ user \in Credentials /\ token \in Credentials /\ refresh \in Credentials
  BY DEF Profile, Credentials
<1>2. ClearFields(p, fields) =
          [p EXCEPT !.url = url, !.tenant = tenant, !.user = user, !.token = token,
                    !.refresh = refresh, !.secret = secret]
  BY DEF ClearFields, Profile
<1> HIDE DEF url, tenant, user, token, refresh, secret
<1>3. /\ ClearFields(p, fields) \in Profile
      /\ ClearFields(p, fields).auth = p.auth
      /\ ClearFields(p, fields).envtype = p.envtype
      /\ ClearFields(p, fields).url = url
      /\ ClearFields(p, fields).tenant = tenant
      /\ ClearFields(p, fields).user = user
      /\ ClearFields(p, fields).token = token
      /\ ClearFields(p, fields).refresh = refresh
      /\ ClearFields(p, fields).secret = secret
      /\ ClearFields(p, fields).csv = p.csv
  BY <1>1, <1>2 DEF Profile
<1> QED BY <1>3 DEF url, tenant, user, token, refresh, secret, Cleared

\* Setting the method clears everything that came with another one, so the profile is sound
\* afterwards whatever it was before; it keeps a refresh token, but no URL to send it to.
LEMMA SetAuthIs ==
    ASSUME NEW p \in Profile, NEW a \in Arguments, NEW patch \in BOOLEAN
    PROVE  /\ SetAuth(p, a, patch) \in Profile
           /\ SetAuth(p, a, patch).auth = IF a.auth = Unset THEN p.auth ELSE a.auth
           /\ SetAuth(p, a, patch).secret = "" \/ SetAuth(p, a, patch).secret = p.secret
           /\ a.auth # Unset /\ ~patch => Sound(SetAuth(p, a, patch))
<1>1. CASE a.auth = Unset
  BY <1>1 DEF SetAuth
<1>2. CASE a.auth # Unset
  <2> DEFINE q == [p EXCEPT !.auth = a.auth]
  <2>1. a.auth \in Methods \cup {""}
    BY <1>2 DEF Arguments
  <2>2. q \in Profile /\ q.auth = a.auth /\ q.secret = p.secret
    BY <2>1 DEF Profile
  <2>3. SetAuth(p, a, patch) = IF patch THEN q ELSE ClearFields(q, OnAuth)
    BY <1>2 DEF SetAuth
  <2> HIDE DEF q
  <2>4. CASE patch
    BY <1>2, <2>2, <2>3, <2>4
  <2>5. CASE ~patch
    <3> DEFINE c == ClearFields(q, OnAuth)
    <3>1. /\ c \in Profile /\ c.auth = a.auth
          /\ c.url = "" /\ c.user = NoCredential /\ c.token = NoCredential /\ c.secret = ""
      <4>1. Cleared(c, q, OnAuth)
        BY <2>2, ClearFieldsIs
      <4>2. {"url", "user", "token", "secret-file"} \subseteq OnAuth
        BY DEF OnAuth
      <4> HIDE DEF c
      <4> QED BY <2>2, <4>1, <4>2 DEF Cleared
    <3>2. SetAuth(p, a, patch) = c
      BY <2>3, <2>5
    <3> HIDE DEF c
    <3>3. Sound(c)
      BY <3>1 DEF Sound, BelongsTo, RefreshHome, UserFromLogin, TokenFromMethod
    <3> QED BY <1>2, <3>1, <3>2, <3>3
  <2> QED BY <2>4, <2>5
<1> QED BY <1>1, <1>2

LEMMA SetEnvtypeIs ==
    ASSUME NEW p \in Profile, NEW a \in Arguments
    PROVE  /\ SetEnvtype(p, a) \in Profile
           /\ SetEnvtype(p, a).auth = p.auth
           /\ SetEnvtype(p, a).secret = p.secret
           /\ a.envtype # Unset => SetEnvtype(p, a).envtype = a.envtype
           /\ Sound(p) => Sound(SetEnvtype(p, a))
<1>1. CASE a.envtype = Unset
  BY <1>1 DEF SetEnvtype
<1>2. CASE a.envtype # Unset
  <2> DEFINE q == [p EXCEPT !.envtype = a.envtype]
  <2>1. a.envtype \in {"prod", "dev"}
    BY <1>2 DEF Arguments
  <2>2. /\ q \in Profile /\ q.envtype = a.envtype /\ q.auth = p.auth /\ q.url = p.url
        /\ q.tenant = p.tenant /\ q.user = p.user /\ q.token = p.token
        /\ q.refresh = p.refresh /\ q.secret = p.secret
    BY <2>1 DEF Profile
  <2>3. SetEnvtype(p, a) = q
    BY <1>2 DEF SetEnvtype
  <2> HIDE DEF q
  <2>4. Sound(p) => Sound(q)
    BY <2>2 DEF Sound, BelongsTo, RefreshHome, UserFromLogin, TokenFromMethod, Obtained
  <2> QED BY <2>2, <2>3, <2>4
<1> QED BY <1>1, <1>2

\* Only a development URL changes the environment type of the profile p.
EnvtypeKept(q, p, a) == ~(a.url # Unset /\ a.url \in DevURLs) => q.envtype = p.envtype

\* A new URL clears what was obtained from the old one.
LEMMA SetURLIs ==
    ASSUME NEW p \in Profile, NEW a \in Arguments, NEW patch \in BOOLEAN, NEW create \in BOOLEAN
    PROVE  /\ SetURL(p, a, patch, create) \in Profile
           /\ SetURL(p, a, patch, create).auth = p.auth
           /\ \/ SetURL(p, a, patch, create).secret = ""
              \/ SetURL(p, a, patch, create).secret = p.secret
           /\ a.url # Unset => SetURL(p, a, patch, create).url = a.url
           /\ EnvtypeKept(SetURL(p, a, patch, create), p, a)
           /\ Sound(p) /\ ~patch => Sound(SetURL(p, a, patch, create))
<1>1. CASE a.url = Unset
  BY <1>1 DEF SetURL, EnvtypeKept
<1>2. CASE a.url # Unset
  <2> DEFINE env == IF a.url \in DevURLs /\ (create <=> p.envtype = "") THEN "dev" ELSE p.envtype
             q == [p EXCEPT !.url = a.url, !.envtype = env]
  <2>1. a.url \in URLs
    BY <1>2 DEF Arguments
  <2>2. env \in {"", "prod", "dev"} /\ (env = p.envtype \/ a.url \in DevURLs)
    BY DEF Profile
  <2>3. SetURL(p, a, patch, create) = Clearing(q, "url", patch)
    BY <1>2 DEF SetURL, Profile
  <2> HIDE DEF env
  <2>4. /\ q \in Profile /\ q.url = a.url /\ q.envtype = env /\ q.auth = p.auth
        /\ q.tenant = p.tenant /\ q.user = p.user /\ q.token = p.token
        /\ q.refresh = p.refresh /\ q.secret = p.secret
    BY <2>1, <2>2 DEF Profile
  <2> HIDE DEF q
  <2>5. CASE patch
    <3>1. SetURL(p, a, patch, create) = q
      BY <2>3, <2>5 DEF Clearing
    <3> QED BY <1>2, <2>2, <2>4, <2>5, <3>1 DEF EnvtypeKept
  <2>6. CASE ~patch
    <3> DEFINE fields == Dependent(q.auth, "url")
               c == ClearFields(q, fields)
    <3>1. SetURL(p, a, patch, create) = c
      BY <2>3, <2>6 DEF Clearing
    <3>2. /\ "url" \notin fields
          /\ p.auth \in Principals \cup {"jwt", "oauth"} => {"user", "token"} \subseteq fields
          /\ p.auth = "oauth" => "refresh-token" \in fields
      <4>1. fields = Dependent(p.auth, "url")
        BY <2>4
      <4> HIDE DEF fields
      <4> QED BY <4>1, DependentOnURL
    <3> HIDE DEF fields
    <3>3. Cleared(c, q, fields)
      BY <2>4, ClearFieldsIs
    <3> HIDE DEF c
    <3>4. /\ c.url = a.url
          /\ c.secret \in {"", p.secret}
          /\ c.user \in {NoCredential, p.user} /\ c.token \in {NoCredential, p.token}
          /\ c.refresh \in {NoCredential, p.refresh}
      BY <2>4, <3>2, <3>3 DEF Cleared
    <3>5. p.auth \in Principals \cup {"jwt", "oauth"} =>
              c.user = NoCredential /\ c.token = NoCredential
      BY <2>4, <3>2, <3>3 DEF Cleared
    <3>6. p.auth = "oauth" => c.refresh = NoCredential
      BY <2>4, <3>2, <3>3 DEF Cleared
    <3>7. p.auth \in AllMethods \cup {""}
      BY MethodsAssumption DEF Profile
    <3>8. p.auth \notin Principals \cup {"jwt", "oauth"} => p.auth \in Passive
      BY <3>7 DEF AllMethods, Passive, Principals
    <3>9. Sound(p) => c.user = NoCredential /\ c.token = NoCredential
      BY <3>4, <3>5, <3>8 DEF Sound, TokenFromMethod, UserFromLogin
    <3>10. Sound(p) => Sound(c)
      BY <2>4, <3>3, <3>4, <3>6, <3>9
         DEF Cleared, Sound, BelongsTo, RefreshHome, UserFromLogin, TokenFromMethod
    <3> QED BY <1>2, <2>2, <2>4, <3>1, <3>3, <3>4, <3>10 DEF Cleared, EnvtypeKept
  <2> QED BY <2>5, <2>6
<1> QED BY <1>1, <1>2

\* Clearing, with or without --patch, is clearing some set of fields.
LEMMA ClearingIs ==
    ASSUME NEW p \in Profile, NEW field, NEW patch \in BOOLEAN
    PROVE  Cleared(Clearing(p, field, patch), p, IF patch THEN {} ELSE Dependent(p.auth, field))
<1>1. CASE patch
  BY <1>1 DEF Clearing, Cleared
<1>2. CASE ~patch
  <2>1. Cleared(ClearFields(p, Dependent(p.auth, field)), p, Dependent(p.auth, field))
    BY ClearFieldsIs
  <2> QED BY <1>2, <2>1 DEF Clearing
<1> QED BY <1>1, <1>2

\* A new tenant clears the token where it belongs to a tenant.
LEMMA SetTenantIs ==
    ASSUME NEW p \in Profile, NEW a \in Arguments, NEW patch \in BOOLEAN,
           a.tenant # Unset => p.auth \in Principals \cup {"jwt"}
    PROVE  /\ SetTenant(p, a, patch) \in Profile
           /\ SetTenant(p, a, patch).auth = p.auth
           /\ SetTenant(p, a, patch).secret = p.secret
           /\ SetTenant(p, a, patch).url = p.url
           /\ SetTenant(p, a, patch).envtype = p.envtype
           /\ a.tenant # Unset => SetTenant(p, a, patch).tenant = a.tenant
           /\ Sound(p) /\ ~patch => Sound(SetTenant(p, a, patch))
<1>1. CASE a.tenant = Unset
  BY <1>1 DEF SetTenant
<1>2. CASE a.tenant # Unset
  <2> DEFINE q == [p EXCEPT !.tenant = a.tenant]
             fields == IF patch THEN {} ELSE Dependent(p.auth, "tenant")
             c == Clearing(q, "tenant", patch)
  <2>1. a.tenant \in Tenants \cup {""}
    BY <1>2 DEF Arguments
  <2>2. /\ q \in Profile /\ q.url = p.url /\ q.envtype = p.envtype /\ q.auth = p.auth
        /\ q.tenant = a.tenant /\ q.user = p.user /\ q.token = p.token
        /\ q.refresh = p.refresh /\ q.secret = p.secret
    BY <2>1 DEF Profile
  <2>3. SetTenant(p, a, patch) = c
    BY <1>2 DEF SetTenant
  <2> HIDE DEF q
  <2>4. Cleared(c, q, fields)
    BY <2>2, ClearingIs
  <2>5. /\ "tenant" \notin fields /\ "url" \notin fields /\ "secret-file" \notin fields
        /\ ~patch /\ p.auth = "jwt" => {"token", "user"} \subseteq fields
    <3>1. p.auth \in Principals \/ p.auth = "jwt"
      BY <1>2
    <3>2. CASE p.auth \in Principals
      BY <3>2, DependentOnOthers DEF Principals
    <3>3. CASE p.auth = "jwt"
      BY <3>3, DependentOnOthers
    <3> QED BY <3>1, <3>2, <3>3
  <2> HIDE DEF fields, c
  <2>6. /\ c \in Profile /\ c.auth = p.auth /\ c.url = p.url /\ c.envtype = p.envtype
        /\ c.tenant = a.tenant /\ c.secret = p.secret
        /\ c.user \in {NoCredential, p.user} /\ c.token \in {NoCredential, p.token}
        /\ ~patch /\ p.auth = "jwt" => c.token = NoCredential /\ c.user = NoCredential
    BY <2>2, <2>4, <2>5 DEF Cleared
  <2>7. p.auth # "oauth" /\ p.auth \notin Passive
    BY <1>2 DEF Principals, Passive
  <2>8. Sound(p) /\ ~patch => Sound(c)
    BY <2>6, <2>7 DEF Sound, BelongsTo, RefreshHome, UserFromLogin, TokenFromMethod
  <2> QED BY <1>2, <2>3, <2>6, <2>8
<1> QED BY <1>1, <1>2

\* A token given on the command line is taken to be the method's, URL's and tenant's.
LEMMA SetTokenIs ==
    ASSUME NEW p \in Profile, NEW a \in Arguments, NEW patch \in BOOLEAN,
           a.token # Unset => p.auth = "jwt"
    PROVE  /\ SetToken(p, a, patch) \in Profile
           /\ SetToken(p, a, patch).auth = p.auth
           /\ SetToken(p, a, patch).secret = p.secret
           /\ SetToken(p, a, patch).url = p.url
           /\ SetToken(p, a, patch).envtype = p.envtype
           /\ SetToken(p, a, patch).tenant = p.tenant
           /\ a.token = "given" => SetToken(p, a, patch).token = Obtained(p)
           /\ a.token = "" => SetToken(p, a, patch).token = NoCredential
           /\ Sound(p) => Sound(SetToken(p, a, patch))
<1>1. CASE a.token = Unset
  BY <1>1, URLsAssumption DEF SetToken
<1>2. CASE a.token # Unset
  <2> DEFINE token == IF a.token = "" THEN NoCredential ELSE Obtained(p)
             q == [p EXCEPT !.token = token]
             c == Clearing(q, "token", patch)
  <2>1. token \in Credentials
    BY <1>2 DEF Profile, Obtained, Credentials, Credential
  <2> HIDE DEF token
  <2>2. /\ q \in Profile /\ q.url = p.url /\ q.envtype = p.envtype /\ q.auth = "jwt"
        /\ q.tenant = p.tenant /\ q.user = p.user /\ q.token = token
        /\ q.refresh = p.refresh /\ q.secret = p.secret
    BY <1>2, <2>1 DEF Profile
  <2>3. SetToken(p, a, patch) = c
    BY <1>2 DEF SetToken, token
  <2> HIDE DEF q
  <2>4. Cleared(c, q, {})
    <3>1. Cleared(c, q, IF patch THEN {} ELSE Dependent(q.auth, "token"))
      BY <2>2, ClearingIs
    <3>2. (IF patch THEN {} ELSE Dependent(q.auth, "token")) = {}
      BY <2>2, DependentOnOthers
    <3> QED BY <3>1, <3>2
  <2> HIDE DEF c
  <2>5. /\ c \in Profile /\ c.auth = p.auth /\ c.url = p.url /\ c.envtype = p.envtype
        /\ c.tenant = p.tenant /\ c.secret = p.secret /\ c.user = p.user
        /\ c.token = token
    BY <1>2, <2>2, <2>4 DEF Cleared
  <2>6. Sound(p) => Sound(c)
    <3>1. BelongsTo(c.token, c)
      <4>1. token = NoCredential \/ token = [method |-> c.auth, url |-> c.url, tenant |-> c.tenant]
        BY <2>5 DEF Obtained, token
      <4> QED BY <2>5, <4>1 DEF BelongsTo
    <3>2. Sound(p) => BelongsTo(c.user, c)
      BY <2>5 DEF BelongsTo, Sound
    <3>3. Sound(p) => c.secret \in {"", c.auth, "csv"} /\ UserFromLogin(c)
      BY <2>5 DEF Sound, UserFromLogin
    <3>4. RefreshHome(c) /\ TokenFromMethod(c)
      BY <1>2, <2>5 DEF RefreshHome, TokenFromMethod, Passive
    <3> QED BY <3>1, <3>2, <3>3, <3>4 DEF Sound
  <2> QED BY <1>2, <2>3, <2>5, <2>6 DEF token
<1> QED BY <1>1, <1>2

\* A secret file clears all that its principal may have obtained.
LEMMA SetSecretFileIs ==
    ASSUME NEW p \in Profile, NEW a \in Arguments, NEW patch \in BOOLEAN,
           a.secret => p.auth \in Principals
    PROVE  /\ SetSecretFile(p, a, patch) \in Profile
           /\ SetSecretFile(p, a, patch).auth = p.auth
           /\ SetSecretFile(p, a, patch).envtype = p.envtype
           /\ ~a.secret => SetSecretFile(p, a, patch) = p
           /\ a.secret => SetSecretFile(p, a, patch).secret = p.auth
           /\ Sound(p) /\ ~patch => Sound(SetSecretFile(p, a, patch))
<1>1. CASE ~a.secret
  BY <1>1 DEF SetSecretFile
<1>2. CASE a.secret
  <2> DEFINE q == [p EXCEPT !.secret = p.auth, !.csv = FALSE]
             fields == IF patch THEN {} ELSE Dependent(p.auth, "secret-file")
             c == Clearing(q, "secret-file", patch)
  <2>1. /\ q \in Profile /\ q.url = p.url /\ q.envtype = p.envtype /\ q.auth = p.auth
        /\ q.tenant = p.tenant /\ q.user = p.user /\ q.token = p.token
        /\ q.refresh = p.refresh /\ q.secret = p.auth
    BY DEF Profile
  <2>2. SetSecretFile(p, a, patch) = c
    BY <1>2 DEF SetSecretFile
  <2> HIDE DEF q
  <2>3. Cleared(c, q, fields)
    BY <2>1, ClearingIs
  <2>4. "secret-file" \notin fields /\ (~patch => {"user", "token"} \subseteq fields)
    BY <1>2, DependentOnOthers
  <2> HIDE DEF fields, c
  <2>5. /\ c \in Profile /\ c.auth = p.auth /\ c.envtype = p.envtype /\ c.secret = p.auth
        /\ ~patch => c.token = NoCredential /\ c.user = NoCredential
    BY <2>1, <2>3, <2>4 DEF Cleared
  <2>6. ~patch => Sound(c)
    BY <1>2, <2>5
       DEF Sound, BelongsTo, RefreshHome, UserFromLogin, TokenFromMethod, Principals
  <2> QED BY <1>2, <2>2, <2>5, <2>6
<1> QED BY <1>1, <1>2

\* The upgrade of an older profile makes a secret file of its CSV file if it has none.
LEMMA UpgradedIs ==
    ASSUME NEW p \in Profile
    PROVE  /\ Upgraded(p) \in Profile
           /\ Upgraded(p).auth = p.auth /\ Upgraded(p).envtype = p.envtype
           /\ Upgraded(p).url = p.url /\ Upgraded(p).tenant = p.tenant
           /\ Upgraded(p).token = p.token
           /\ Upgraded(p).secret = p.secret \/ (p.secret = "" /\ Upgraded(p).secret = "csv")
           /\ Sound(p) => Sound(Upgraded(p))
<1>1. CASE ~(p.secret = "" /\ p.csv)
  BY <1>1 DEF Upgraded
<1>2. CASE p.secret = "" /\ p.csv
  <2> DEFINE q == [p EXCEPT !.secret = "csv", !.csv = FALSE]
  <2>1. /\ q \in Profile /\ q.url = p.url /\ q.envtype = p.envtype /\ q.auth = p.auth
        /\ q.tenant = p.tenant /\ q.user = p.user /\ q.token = p.token
        /\ q.refresh = p.refresh /\ q.secret = "csv"
    BY DEF Profile
  <2>2. Upgraded(p) = q
    BY <1>2 DEF Upgraded
  <2> HIDE DEF q
  <2>3. Sound(p) => Sound(q)
    BY <2>1 DEF Sound, BelongsTo, RefreshHome, UserFromLogin, TokenFromMethod, Obtained
  <2> QED BY <1>2, <2>1, <2>2, <2>3
<1> QED BY <1>1, <1>2

-----------------------------------------------------------------------------
(* A whole command                                                         *)

\* What a command that is accepted makes of a profile: it is sound if it was, or if the method
\* is set, and a setting is lost only to a secret file or to a development URL.
LEMMA AppliedIs ==
    ASSUME NEW p \in Profile, NEW a \in Arguments, NEW patch \in BOOLEAN, NEW create \in BOOLEAN,
           Accepted(p, a)
    PROVE  /\ Applied(p, a, patch, create) \in Profile
           /\ SecretOfPrincipal(p) => SecretOfPrincipal(Applied(p, a, patch, create))
           /\ ~patch /\ (Sound(p) \/ a.auth # Unset) => Sound(Applied(p, a, patch, create))
           /\ OthersKept(Lost(a, Applied(p, a, patch, create)), Applied(p, a, patch, create))
<1> DEFINE method == IF a.auth = Unset THEN p.auth ELSE a.auth
           p1 == SetAuth(p, a, patch)
           p2 == SetEnvtype(p1, a)
           p3 == SetURL(p2, a, patch, create)
           p4 == SetTenant(p3, a, patch)
           p5 == SetToken(p4, a, patch)
           p6 == SetSecretFile(p5, a, patch)
           p7 == Upgraded(p6)
<1>1. Applied(p, a, patch, create) = p7
  BY DEF Applied
<1>2. /\ a.tenant # Unset => method \in Principals \cup {"jwt"}
      /\ a.token # Unset => method = "jwt"
      /\ a.secret => method \in Principals
  BY WritableIs DEF Accepted
<1>3. /\ p1 \in Profile /\ p1.auth = method /\ (p1.secret = "" \/ p1.secret = p.secret)
      /\ ~patch /\ (Sound(p) \/ a.auth # Unset) => Sound(p1)
  <2>1. p1 \in Profile /\ p1.auth = method
    BY SetAuthIs
  <2>2. p1.secret = "" \/ p1.secret = p.secret
    BY SetAuthIs, Zenon
  <2>3. ~patch /\ (Sound(p) \/ a.auth # Unset) => Sound(p1)
    <3>1. ~patch /\ a.auth # Unset => Sound(p1)
      BY SetAuthIs, Zenon
    <3>2. a.auth = Unset => p1 = p
      BY DEF SetAuth
    <3> QED BY <3>1, <3>2
  <2> QED BY <2>1, <2>2, <2>3
<1>4. a.auth # Unset => method = a.auth
  OBVIOUS
<1> HIDE DEF method, p1
<1>5. /\ p2 \in Profile /\ p2.auth = method /\ p2.secret = p1.secret
      /\ a.envtype # Unset => p2.envtype = a.envtype
      /\ Sound(p1) => Sound(p2)
  BY <1>3, SetEnvtypeIs
<1> HIDE DEF p2
<1>6. /\ p3 \in Profile /\ p3.auth = method /\ (p3.secret = "" \/ p3.secret = p2.secret)
      /\ a.url # Unset => p3.url = a.url
      /\ p3.envtype = p2.envtype \/ (a.url # Unset /\ a.url \in DevURLs)
      /\ Sound(p2) /\ ~patch => Sound(p3)
  <2>1. p3 \in Profile /\ p3.auth = p2.auth
    BY <1>5, SetURLIs, ZenonT(30)
  <2>2. a.url # Unset => p3.url = a.url
    BY <1>5, SetURLIs, ZenonT(30)
  <2>3. p3.secret = "" \/ p3.secret = p2.secret
    BY <1>5, SetURLIs, ZenonT(30)
  <2>4. ~(a.url # Unset /\ a.url \in DevURLs) => p3.envtype = p2.envtype
    <3>1. EnvtypeKept(p3, p2, a)
      BY <1>5, SetURLIs, ZenonT(30)
    <3> QED BY <3>1 DEF EnvtypeKept
  <2>5. Sound(p2) /\ ~patch => Sound(p3)
    BY <1>5, SetURLIs, ZenonT(30)
  <2> HIDE DEF p3
  <2> QED BY <1>5, <2>1, <2>2, <2>3, <2>4, <2>5
<1> HIDE DEF p3
<1>7. /\ p4 \in Profile /\ p4.auth = method /\ p4.url = p3.url /\ p4.envtype = p3.envtype
      /\ a.tenant # Unset => p4.tenant = a.tenant
      /\ p4.secret = p3.secret
      /\ Sound(p3) /\ ~patch => Sound(p4)
  BY <1>2, <1>6, SetTenantIs
<1> HIDE DEF p4
<1>8. /\ p5 \in Profile /\ p5.auth = method /\ p5.url = p4.url /\ p5.envtype = p4.envtype
      /\ p5.tenant = p4.tenant /\ p5.secret = p4.secret
      /\ a.token = "given" => p5.token = Obtained(p4)
      /\ a.token = "" => p5.token = NoCredential
      /\ Sound(p4) => Sound(p5)
  BY <1>2, <1>7, SetTokenIs
<1> HIDE DEF p5
<1>9. /\ p6 \in Profile /\ p6.auth = method /\ p6.envtype = p5.envtype
      /\ ~a.secret => p6 = p5
      /\ a.secret => p6.secret = method
      /\ Sound(p5) /\ ~patch => Sound(p6)
  BY <1>2, <1>8, SetSecretFileIs
<1> HIDE DEF p6
<1>9a. /\ p7 \in Profile /\ p7.auth = method /\ p7.envtype = p5.envtype
       /\ ~a.secret => p7.url = p5.url /\ p7.tenant = p5.tenant /\ p7.token = p5.token
       /\ a.secret => p7.secret = method
       /\ p7.secret = p6.secret \/ p7.secret = "csv"
       /\ Sound(p6) => Sound(p7)
  <2>1. a.secret => p6.secret # ""
    BY <1>2, <1>9 DEF Principals
  <2>2. /\ p7 \in Profile /\ p7.auth = p6.auth /\ p7.envtype = p6.envtype
        /\ p7.url = p6.url /\ p7.tenant = p6.tenant /\ p7.token = p6.token
        /\ p7.secret = p6.secret \/ (p6.secret = "" /\ p7.secret = "csv")
        /\ Sound(p6) => Sound(p7)
    BY <1>9, UpgradedIs
  <2> HIDE DEF p7
  <2> QED BY <1>9, <2>1, <2>2
<1> HIDE DEF p7
<1>10. ~patch /\ (Sound(p) \/ a.auth # Unset) => Sound(p7)
  BY <1>3, <1>5, <1>6, <1>7, <1>8, <1>9, <1>9a
<1>11. OthersKept(Lost(a, p7), p7)
  <2>1. "auth" \notin Lost(a, p7)
    BY <1>4, <1>9a DEF Lost
  <2>2. "token" \notin Lost(a, p7)
    <3>1. a.token # Unset => ~a.secret
      BY <1>2 DEF Principals
    <3>2. ~a.secret => Obtained(p7) = Obtained(p4)
      BY <1>7, <1>8, <1>9a DEF Obtained
    <3>3. a.token = "given" => p7.token = Obtained(p7)
      BY <1>8, <1>9a, <3>1, <3>2, URLsAssumption
    <3>4. a.token = "" => p7.token = NoCredential
      BY <1>8, <1>9a, <3>1, URLsAssumption
    <3> QED BY <3>3, <3>4 DEF Lost
  <2>3. "secret-file" \notin Lost(a, p7)
    BY <1>9a DEF Lost
  <2>4. "url" \in Lost(a, p7) \/ "tenant" \in Lost(a, p7) => a.secret
    <3>1. ~a.secret => /\ a.url # Unset => p7.url = a.url
                       /\ a.tenant # Unset => p7.tenant = a.tenant
      BY <1>6, <1>7, <1>8, <1>9a
    <3> QED BY <3>1 DEF Lost
  <2>5. "envtype" \in Lost(a, p7) => a.url # Unset /\ a.url \in DevURLs
    <3>1. a.envtype # Unset =>
              p7.envtype = a.envtype \/ (a.url # Unset /\ a.url \in DevURLs)
      BY <1>5, <1>6, <1>7, <1>8, <1>9a
    <3> QED BY <3>1 DEF Lost
  <2>6. a.url # Unset /\ "url" \notin Lost(a, p7) => p7.url = a.url
    BY DEF Lost
  <2>7. Lost(a, p7) \subseteq {"auth", "envtype", "url", "tenant", "token", "secret-file"}
    BY DEF Lost
  <2> HIDE DEF Lost
  <2>8. Lost(a, p7) \subseteq {"url", "tenant", "envtype"}
    BY <2>1, <2>2, <2>3, <2>7
  <2>9. Lost(a, p7) \cap {"url", "tenant"} # {} => p7.auth \in Principals /\ p7.secret = p7.auth
    BY <1>2, <1>9a, <2>4
  <2>10. "envtype" \in Lost(a, p7) => p7.url \in DevURLs \/ "url" \in Lost(a, p7)
    BY <2>5, <2>6
  <2> QED BY <2>8, <2>9, <2>10 DEF OthersKept
<1>12. SecretOfPrincipal(p) => SecretOfPrincipal(p7)
  BY <1>2, <1>3, <1>5, <1>6, <1>7, <1>8, <1>9, <1>9a DEF SecretOfPrincipal
<1> QED BY <1>1, <1>9a, <1>10, <1>11, <1>12

-----------------------------------------------------------------------------
(* Every action keeps the invariant                                        *)

LEMMA InitInv == Init => ProfileInv
<1> SUFFICES ASSUME Init PROVE ProfileInv
  OBVIOUS
<1>1. OthersKept({}, profile)
  BY DEF OthersKept
<1>2. CASE exists = FALSE /\ profile = EmptyProfile
  BY <1>1, <1>2, EmptyProfileIs DEF Init, ProfileInv, StateSound
<1>3. CASE exists = TRUE /\ profile \in LegacyProfile
  <2>1. profile \in Profile
    BY <1>3, MethodsAssumption DEF LegacyProfile, Profile, Credentials
  <2>2. /\ profile.auth = "service-principal" /\ profile.secret = ""
        /\ profile.user = NoCredential /\ profile.token = NoCredential
        /\ profile.refresh = NoCredential
    BY <1>3 DEF LegacyProfile
  <2>3. Sound(profile) /\ SecretOfPrincipal(profile)
    BY <2>2 DEF Sound, BelongsTo, RefreshHome, UserFromLogin, TokenFromMethod, SecretOfPrincipal
  <2> QED BY <1>1, <1>3, <2>1, <2>3 DEF Init, ProfileInv, StateSound
<1> QED BY <1>2, <1>3 DEF Init

LEMMA SetKeepsInv ==
    ASSUME ProfileInv, NEW a \in Arguments, NEW patch \in BOOLEAN, ConfigSet(a, patch)
    PROVE  ProfileInv'
<1> DEFINE q == Applied(profile, a, patch, FALSE)
<1>1. /\ profile' = q /\ exists' = TRUE /\ lost' = Lost(a, q)
      /\ patched' = IF patch THEN TRUE ELSE IF a.auth # Unset THEN FALSE ELSE patched
  BY DEF ConfigSet
<1>2. /\ profile \in Profile /\ patched \in BOOLEAN
      /\ SecretOfPrincipal(profile) /\ (~patched => Sound(profile))
  BY DEF ProfileInv, StateSound
<1>3. /\ q \in Profile /\ SecretOfPrincipal(q)
      /\ ~patch /\ (Sound(profile) \/ a.auth # Unset) => Sound(q)
      /\ OthersKept(Lost(a, q), q)
  BY <1>2, AppliedIs DEF ConfigSet
<1> HIDE DEF q
<1>4. patched' \in BOOLEAN /\ (~patched' => Sound(q))
  BY <1>1, <1>2, <1>3
<1> QED BY <1>1, <1>3, <1>4 DEF ProfileInv, StateSound

LEMMA CreateKeepsInv ==
    ASSUME ProfileInv, NEW a \in Arguments, ConfigCreate(a)
    PROVE  ProfileInv'
<1> DEFINE q == Applied(profile, a, FALSE, TRUE)
<1>1. profile' = q /\ exists' = TRUE /\ lost' = Lost(a, q) /\ patched' = patched
  BY DEF ConfigCreate
<1>2. /\ profile \in Profile /\ ~patched /\ patched \in BOOLEAN
      /\ SecretOfPrincipal(profile) /\ Sound(profile)
  BY DEF ProfileInv, StateSound, ConfigCreate
<1>3. q \in Profile /\ Sound(q) /\ SecretOfPrincipal(q) /\ OthersKept(Lost(a, q), q)
  BY <1>2, AppliedIs DEF ConfigCreate
<1> HIDE DEF q
<1> QED BY <1>1, <1>2, <1>3 DEF ProfileInv, StateSound

LEMMA DeleteKeepsInv == ProfileInv /\ ConfigDelete => ProfileInv'
<1>1. OthersKept({}, EmptyProfile)
  BY DEF OthersKept
<1> QED BY <1>1, EmptyProfileIs DEF ConfigDelete, ProfileInv, StateSound

\* The tokens of a login belong to the profile that it completed.
LEMMA WithTokensIs ==
    ASSUME NEW p \in Profile, p.auth \in Methods, NEW refresh \in BOOLEAN,
           NEW q \in WithTokens(p, refresh)
    PROVE  /\ q \in Profile
           /\ q.auth = p.auth /\ q.url = p.url /\ q.tenant = p.tenant /\ q.secret = p.secret
           /\ q.token = Obtained(p) /\ q.user \in {p.user, Obtained(p)}
           /\ q.refresh = IF refresh THEN Obtained(p) ELSE p.refresh
<1> DEFINE r == IF refresh THEN Obtained(p) ELSE p.refresh
<1>1. Obtained(p) \in Credentials
  BY DEF Profile, Obtained, Credentials, Credential
<1>2. PICK u \in {p.user, Obtained(p)} :
          q = [p EXCEPT !.token = Obtained(p), !.refresh = r, !.user = u]
  BY DEF WithTokens, Profile
<1>3. r \in Credentials /\ u \in Credentials
  BY <1>1 DEF Profile
<1> HIDE DEF r
<1>4. /\ q \in Profile /\ q.token = Obtained(p) /\ q.refresh = r /\ q.user = u
      /\ q.auth = p.auth /\ q.url = p.url /\ q.tenant = p.tenant /\ q.secret = p.secret
  BY <1>1, <1>2, <1>3 DEF Profile
<1> QED BY <1>4 DEF r

LEMMA OAuthLoginKeepsInv == ProfileInv /\ OAuthLogin => ProfileInv'
<1> SUFFICES ASSUME ProfileInv, OAuthLogin PROVE ProfileInv'
  OBVIOUS
<1>1. PICK t \in IF profile.tenant = "" THEN Tenants ELSE {profile.tenant} :
          profile' \in WithTokens([profile EXCEPT !.tenant = t], TRUE)
  BY DEF OAuthLogin
<1> DEFINE p == [profile EXCEPT !.tenant = t]
<1>2. /\ profile \in Profile /\ profile.auth = "oauth" /\ profile.url # ""
      /\ patched \in BOOLEAN /\ SecretOfPrincipal(profile) /\ (~patched => Sound(profile))
  BY DEF ProfileInv, StateSound, OAuthLogin
<1>3. t \in Tenants /\ t # "" /\ (profile.tenant # "" => t = profile.tenant)
  BY <1>2, URLsAssumption DEF Profile
<1>4. /\ p \in Profile /\ p.auth = "oauth" /\ p.url = profile.url /\ p.tenant = t
      /\ p.secret = profile.secret /\ p.user = profile.user /\ p.auth \in Methods
  BY <1>2, <1>3 DEF Profile
<1>5. profile' \in WithTokens(p, TRUE)
  BY <1>1
<1> HIDE DEF p
<1>6. /\ profile' \in Profile
      /\ profile'.auth = "oauth" /\ profile'.url = profile.url /\ profile'.tenant = t
      /\ profile'.secret = profile.secret
      /\ profile'.token = Obtained(p) /\ profile'.user \in {profile.user, Obtained(p)}
      /\ profile'.refresh = Obtained(p)
  BY <1>4, <1>5, WithTokensIs
<1>7. /\ Obtained(p) = Obtained(profile')
      /\ Obtained(p).method = profile'.auth /\ Obtained(p).url = profile'.url
      /\ Obtained(p).tenant = profile'.tenant
  BY <1>4, <1>6 DEF Obtained
<1>8. ASSUME ~patched PROVE Sound(profile')
  <2>1. BelongsTo(profile'.token, profile') /\ RefreshHome(profile')
    BY <1>6, <1>7 DEF BelongsTo, RefreshHome
  <2>2. BelongsTo(profile'.user, profile')
    <3>1. CASE profile'.user = Obtained(p)
      BY <1>7, <3>1 DEF BelongsTo
    <3>2. CASE profile'.user = profile.user
      BY <1>2, <1>3, <1>6, <1>8, <3>2 DEF Sound, BelongsTo, UserFromLogin
    <3> QED BY <1>6, <3>1, <3>2
  <2>3. UserFromLogin(profile') /\ TokenFromMethod(profile')
    BY <1>2, <1>3, <1>6 DEF UserFromLogin, TokenFromMethod, Passive
  <2> QED BY <1>2, <1>6, <1>8, <2>1, <2>2, <2>3 DEF Sound
<1>9. OthersKept({}, profile')
  BY DEF OthersKept
<1> QED BY <1>2, <1>6, <1>8, <1>9 DEF OAuthLogin, ProfileInv, StateSound, SecretOfPrincipal

\* A principal's login fills in a method only if --patch has parted the secret file from it, or
\* if it is an older profile whose method was emptied: neither then has a token or a user name.
LEMMA PrincipalLoginKeepsInv == ProfileInv /\ PrincipalLogin => ProfileInv'
<1> SUFFICES ASSUME ProfileInv, PrincipalLogin PROVE ProfileInv'
  OBVIOUS
<1>1. PICK t \in IF profile.tenant = "" THEN Tenants ELSE {profile.tenant},
           u \in IF profile.url = "" THEN ProdURLs ELSE {profile.url} :
          profile' \in WithTokens([profile EXCEPT !.tenant = t, !.url = u,
                                       !.auth = IF @ = "" THEN "service-principal" ELSE @], FALSE)
  BY DEF PrincipalLogin
<1> DEFINE m == IF profile.auth = "" THEN "service-principal" ELSE profile.auth
           p == [profile EXCEPT !.tenant = t, !.url = u, !.auth = m]
<1>2. /\ profile \in Profile /\ profile.auth \in Principals \cup {""} /\ profile.secret # ""
      /\ patched \in BOOLEAN /\ SecretOfPrincipal(profile) /\ (~patched => Sound(profile))
  BY DEF ProfileInv, StateSound, PrincipalLogin
<1>3. /\ t \in Tenants /\ t # "" /\ (profile.tenant # "" => t = profile.tenant)
      /\ u \in URLs /\ u # "" /\ (profile.url # "" => u = profile.url)
  BY <1>2, URLsAssumption DEF Profile, URLs
<1>4. /\ m \in Methods /\ m \in Principals
      /\ ~patched => m = profile.auth \/ profile.user = NoCredential
      /\ ~patched => profile.secret \in {m, "csv"}
  <2>1. ~patched /\ profile.auth = "" => profile.user = NoCredential
    BY <1>2 DEF Sound, UserFromLogin, Passive
  <2>2. ~patched => profile.secret \in {profile.auth, "csv"}
    BY <1>2 DEF Sound
  <2> QED BY <1>2, <2>1, <2>2, MethodsAssumption DEF Profile, Principals
<1>5. profile' \in WithTokens(p, FALSE)
  BY <1>1, <1>2 DEF Profile
<1> HIDE DEF m
<1>6. /\ p \in Profile /\ p.auth = m /\ p.url = u /\ p.tenant = t
      /\ p.secret = profile.secret /\ p.user = profile.user
  BY <1>2, <1>3, <1>4 DEF Profile
<1> HIDE DEF p
<1>7. /\ profile' \in Profile
      /\ profile'.auth = m /\ profile'.url = u /\ profile'.tenant = t
      /\ profile'.secret = profile.secret
      /\ profile'.token = Obtained(p) /\ profile'.user \in {profile.user, Obtained(p)}
  BY <1>4, <1>5, <1>6, WithTokensIs
<1>8. /\ Obtained(p) = Obtained(profile')
      /\ Obtained(p).method = profile'.auth /\ Obtained(p).url = profile'.url
      /\ Obtained(p).tenant = profile'.tenant
  BY <1>6, <1>7 DEF Obtained
<1>9. ASSUME ~patched PROVE Sound(profile')
  <2>1. BelongsTo(profile'.token, profile')
    BY <1>7, <1>8 DEF BelongsTo
  <2>2. BelongsTo(profile'.user, profile')
    <3>1. CASE profile'.user = Obtained(p)
      BY <1>8, <3>1 DEF BelongsTo
    <3>2. CASE profile'.user = profile.user
      BY <1>2, <1>3, <1>4, <1>7, <1>9, <3>2 DEF Sound, BelongsTo, UserFromLogin, Principals
    <3> QED BY <1>7, <3>1, <3>2
  <2>3. RefreshHome(profile') /\ UserFromLogin(profile') /\ TokenFromMethod(profile')
    BY <1>3, <1>4, <1>7 DEF RefreshHome, UserFromLogin, TokenFromMethod, Passive, Principals
  <2> QED BY <1>2, <1>4, <1>7, <1>9, <2>1, <2>2, <2>3 DEF Sound
<1>10. OthersKept({}, profile')
  BY DEF OthersKept
<1> QED BY <1>2, <1>7, <1>9, <1>10 DEF PrincipalLogin, ProfileInv, StateSound, SecretOfPrincipal

LEMMA ProfileInvariant == Spec => []ProfileInv
<1>1. ProfileInv /\ [Next]_vars => ProfileInv'
  <2> SUFFICES ASSUME ProfileInv, [Next]_vars PROVE ProfileInv'
    OBVIOUS
  <2>1. ASSUME NEW a \in Arguments, ConfigCreate(a) PROVE ProfileInv'
    BY <2>1, CreateKeepsInv
  <2>2. ASSUME NEW a \in Arguments, NEW patch \in BOOLEAN, ConfigSet(a, patch) PROVE ProfileInv'
    BY <2>2, SetKeepsInv
  <2>3. CASE ConfigDelete
    BY <2>3, DeleteKeepsInv
  <2>4. CASE Login
    BY <2>4, OAuthLoginKeepsInv, PrincipalLoginKeepsInv DEF Login
  <2>5. CASE UNCHANGED vars
    BY <2>5 DEF vars, ProfileInv
  <2> QED BY <2>1, <2>2, <2>3, <2>4, <2>5 DEF Next
<1> QED BY InitInv, <1>1, PTL DEF Spec

-----------------------------------------------------------------------------

\* Type correctness: whatever settings and logins a profile goes through, its fields are
\* settings that the command line accepts, or credentials obtained for a known method; and
\* without a method there is no token, unless --patch was used.
THEOREM SettingsTypesCorrect == Spec => []TypeOK
<1>1. ProfileInv => TypeOK
  BY DEF ProfileInv, StateSound, OthersKept, TypeOK, Sound, TokenFromMethod, Passive
<1> QED BY <1>1, ProfileInvariant, PTL

\* The tables of set-fields.go clear enough: without --patch no sequence of commands and
\* logins leaves a token, user name or secret file with a method or URL it is not for.
THEOREM ProfilesHoldTheirOwnCredentials == Spec => []CredentialsBelong
<1>1. ProfileInv => CredentialsBelong
  BY DEF ProfileInv, StateSound, Sound, BelongsTo, CredentialsBelong, Belongs
<1> QED BY <1>1, ProfileInvariant, PTL

\* oauthLogin offers a refresh token only to the server that issued it, although
\* "refresh_token", misspelt in the list that a change of method clears, is not cleared by it:
\* a profile that gets back to "oauth" has no URL until one is set, which clears the token.
THEOREM RefreshTokensStayHome == Spec => []RefreshTokenStaysHome
<1>1. ProfileInv => RefreshTokenStaysHome
  BY DEF ProfileInv, StateSound, Sound, RefreshHome, RefreshTokenStaysHome, Obtained
<1> QED BY <1>1, ProfileInvariant, PTL

\* Only a secret file or a development URL makes a command lose a setting given with it: the
\* order of configSetContext and updateCoreSettings is right for all others.
THEOREM OnlyTheseSettingsAreLost == Spec => []OtherSettingsKept
<1>1. ProfileInv => OtherSettingsKept
  BY DEF ProfileInv, StateSound, OthersKept, OtherSettingsKept
<1> QED BY <1>1, ProfileInvariant, PTL
=============================================================================
