------------------------------ MODULE ApiCall ------------------------------
(***************************************************************************)
(* Calls of the platform API from fsoc commands: httpRequest with its      *)
(* login and retry (platform/api/call.go, login.go, oauth.go,              *)
(* service_principal.go, tenant.go), and the access profile in which the   *)
(* session is kept (config).                                               *)
(*                                                                         *)
(* A command makes its calls one after another or, in "solution status"    *)
(* and "solution zap", in goroutines: nothing orders the calls of Calls.   *)
(* Every call works on a private copy of the profile (GetCurrentContext    *)
(* returns a copy) and meets the others only in the profile store and at   *)
(* the platform.                                                           *)
(*                                                                         *)
(* Tokens are numbers in the order the platform issues them, 0 is "no      *)
(* token"; one number names the access token and the refresh token of one  *)
(* answer.  The platform is external: it accepts a refresh token once.     *)
(***************************************************************************)
EXTENDS Naturals, FiniteSets

CONSTANTS
    Calls,    \* the API calls
    Methods,  \* the authentication methods a profile may have
    Nobody,   \* holds the callback address when it is free
    Outsider  \* holds it when a program other than this process does

ASSUME MethodsAssumption ==
    Methods \subseteq {"", "none", "local", "jwt", "service-principal", "agent-principal", "oauth"}

ASSUME HoldersAssumption == {Nobody, Outsider} \cap Calls = {} /\ Nobody # Outsider

NoToken == 0

VARIABLES
    method,      \* Context.AuthMethod of the profile in use
    configured,  \* the settings requiredSettings lists for it are there
    store,       \* the rest of the profile, as the config package keeps it
    cfg,         \* cfg[c]: callCtx.cfg, the copy call c works on
    pc,          \* pc[c]: where call c is in httpRequest and login
    sends,       \* sends[c]: requests sent (history)
    first,       \* first[c]: the token of the first request (history)
    reply,       \* reply[c]: resp.StatusCode, by class
    spent,       \* spent[c]: the last refresh token the platform took from c (history)
    consumed,    \* refresh tokens the platform has accepted once
    port,        \* who listens on oauthRedirectUri
    issued       \* number of tokens issued

platform == <<consumed, issued>>
Holders == Calls \cup {Nobody, Outsider}
vars == <<method, configured, store, cfg, pc, sends, first, reply, spent, consumed, port, issued>>

Profile == [token : Nat, refresh : Nat, tenant : BOOLEAN]

Returned == {"ok", "error", "killed"}
LoginSteps == {"login", "tenant", "tokens", "interactive", "browser", "exchange", "blocked",
               "principal", "save", "reload"}
Locations == {"idle", "prepare", "wait", "answered"} \cup LoginSteps \cup Returned

Init ==
    /\ method \in Methods
    /\ configured \in BOOLEAN
    /\ issued \in {0, 1}          \* a fresh profile, or one with a session (or a JWT)
    /\ consumed = {}
    /\ port \in {Nobody, Outsider}
    /\ store \in [token : {issued}, refresh : {IF method = "oauth" THEN issued ELSE NoToken},
                  tenant : BOOLEAN]
    /\ cfg = [c \in Calls |-> [token |-> NoToken, refresh |-> NoToken, tenant |-> FALSE]]
    /\ pc = [c \in Calls |-> "idle"]
    /\ sends = [c \in Calls |-> 0]
    /\ first = [c \in Calls |-> NoToken]
    /\ reply = [c \in Calls |-> "none"]
    /\ spent = [c \in Calls |-> NoToken]

Goto(c, l) == pc' = [pc EXCEPT ![c] = l]

-----------------------------------------------------------------------------
(* httpRequest up to the first login                                       *)

\* newCallContext: a private copy of the current profile; log in if it has no token.
NewCallContext(c) ==
    /\ pc[c] = "idle"
    /\ cfg' = [cfg EXCEPT ![c] = store]
    /\ Goto(c, IF store.token = NoToken THEN "login" ELSE "prepare")
    /\ UNCHANGED <<method, configured, port, store, sends, first, reply, spent, platform>>

-----------------------------------------------------------------------------
(* login: check, obtain tokens by method, save, reload                     *)

\* An empty auth method means a service principal (checkConfigForAuth).
AuthMethod == IF method = "" THEN "service-principal" ELSE method

\* The methods whose login obtains a token from the platform.
Issuing == AuthMethod \in {"service-principal", "agent-principal", "oauth"}

RequiredPresent(c) == configured /\ (AuthMethod = "jwt" => cfg[c].token # NoToken)

\* Where oauthLogin goes once the tenant is known.
OAuthStep(c) == IF cfg[c].refresh # NoToken THEN "tokens" ELSE "interactive"

\* checkConfigForAuth and the switch on the method; local, none and jwt do nothing.
CheckConfigForAuth(c) ==
    /\ pc[c] = "login"
    /\ Goto(c, CASE ~RequiredPresent(c) -> "error"
                 [] RequiredPresent(c) /\ ~Issuing -> "save"
                 [] RequiredPresent(c) /\ AuthMethod = "oauth" ->
                        IF cfg[c].tenant THEN OAuthStep(c) ELSE "tenant"
                 [] OTHER -> "principal")
    /\ UNCHANGED <<method, configured, port, store, cfg, sends, first, reply, spent, platform>>

\* resolveTenant: the URL's host has no resolver, or the lookup fails, or it answers.
ResolveTenant(c) ==
    /\ pc[c] = "tenant"
    /\ \/ /\ cfg' = [cfg EXCEPT ![c] = [@ EXCEPT !.tenant = TRUE]]
          /\ Goto(c, OAuthStep(c))
       \/ /\ Goto(c, "error")
          /\ UNCHANGED cfg
    /\ UNCHANGED <<method, configured, port, store, sends, first, reply, spent, platform>>

\* The platform answers a token request with a new token.
Issue == issued' = issued + 1

\* oauthRefreshToken, answered: both tokens of the copy are replaced.
OAuthRefreshToken(c) ==
    /\ pc[c] = "tokens"
    /\ cfg[c].refresh \notin consumed
    /\ Issue
    /\ consumed' = consumed \cup {cfg[c].refresh}
    /\ spent' = [spent EXCEPT ![c] = cfg[c].refresh]
    /\ cfg' = [cfg EXCEPT ![c] = [@ EXCEPT !.token = issued', !.refresh = issued']]
    /\ Goto(c, "save")
    /\ UNCHANGED <<method, configured, port, store, sends, first, reply>>

\* oauthRefreshToken fails after the platform has taken the token: the answer is lost.
RefreshAnswerLost(c) ==
    /\ pc[c] = "tokens"
    /\ cfg[c].refresh \notin consumed
    /\ Issue
    /\ consumed' = consumed \cup {cfg[c].refresh}
    /\ spent' = [spent EXCEPT ![c] = cfg[c].refresh]
    /\ Goto(c, "interactive")
    /\ UNCHANGED <<method, configured, port, store, cfg, sends, first, reply>>

RetryRefresh(c) ==
    /\ pc[c] = "tokens"
    /\ Goto(c, "tokens")
    /\ UNCHANGED <<method, configured, port, store, cfg, sends, first, reply, spent, platform>>

\* oauthRefreshToken fails otherwise (stale token, no connection): "going for a new login".
RefreshRejected(c) ==
    /\ pc[c] = "tokens"
    /\ Goto(c, "interactive")
    /\ UNCHANGED <<method, configured, port, store, cfg, sends, first, reply, spent, platform>>

\* startCallbackServer: the callback address is fixed.  If another login or program has
\* it, the failure is only logged and getAuthorizationCodes waits for a callback that
\* never comes.
StartCallbackServer(c) ==
    /\ pc[c] = "interactive"
    /\ \/ port = Nobody /\ port' = c /\ Goto(c, "browser")
       \/ port # Nobody /\ UNCHANGED port /\ Goto(c, "blocked")
    /\ UNCHANGED <<method, configured, store, cfg, sends, first, reply, spent, platform>>

\* The browser calls back and the server is stopped; the nonce may not match (the callback of
\* another login).
ReceiveCallback(c) ==
    /\ pc[c] = "browser"
    /\ port' = Nobody
    /\ Goto(c, "exchange") \/ Goto(c, "error")
    /\ UNCHANGED <<method, configured, store, cfg, sends, first, reply, spent, platform>>

\* exchangeCodeForToken, when the port is free for another login
FinishInteractiveLogin(c) ==
    /\ pc[c] = "exchange"
    /\ \/ /\ Issue
          /\ cfg' = [cfg EXCEPT ![c] = [@ EXCEPT !.token = issued', !.refresh = issued']]
          /\ Goto(c, "save")
       \/ /\ Goto(c, "error")
          /\ UNCHANGED <<cfg, issued>>
    /\ UNCHANGED <<method, configured, port, store, sends, first, reply, spent, consumed>>

\* agentOrServicePrincipalLogin: the tenant comes from the credentials if the profile has
\* none; the refresh token, if there is one, is left alone.
PrincipalLogin(c) ==
    /\ pc[c] = "principal"
    /\ \/ /\ Issue
          /\ cfg' = [cfg EXCEPT ![c] = [@ EXCEPT !.token = issued', !.tenant = TRUE]]
          /\ Goto(c, "save")
       \/ /\ Goto(c, "error")
          /\ UNCHANGED <<cfg, issued>>
    /\ UNCHANGED <<method, configured, port, store, sends, first, reply, spent, consumed>>

\* config.ReplaceCurrentContext(cfg): the whole profile becomes this call's copy of it.
SaveNothing(c) ==
    /\ pc[c] = "save"
    /\ Goto(c, "reload")
    /\ UNCHANGED <<method, configured, port, store, cfg, sends, first, reply, spent, platform>>

SaveAccessTokenOnly(c) ==
    /\ pc[c] = "save"
    /\ store' = [cfg[c] EXCEPT !.refresh = store.refresh]
    /\ Goto(c, "reload")
    /\ UNCHANGED <<method, configured, port, cfg, sends, first, reply, spent, platform>>

ReplaceCurrentContext(c) ==
    /\ pc[c] = "save"
    /\ store' = cfg[c]
    /\ Goto(c, "reload")
    /\ UNCHANGED <<method, configured, port, cfg, sends, first, reply, spent, platform>>

\* callCtx.cfg = config.GetCurrentContext(): what another call saved meanwhile, if it did.
ReloadContext(c) ==
    /\ pc[c] = "reload"
    /\ cfg' = [cfg EXCEPT ![c] = store]
    /\ Goto(c, "prepare")
    /\ UNCHANGED <<method, configured, port, store, sends, first, reply, spent, platform>>

-----------------------------------------------------------------------------
(* httpRequest: send, one retry after a 403, return                        *)

\* prepareHTTPRequest builds the request, body included, anew for each send.
PrepareHTTPRequest(c) ==
    /\ pc[c] = "prepare"
    /\ \/ /\ Goto(c, "wait")
          /\ sends' = [sends EXCEPT ![c] = @ + 1]
          /\ first' = [first EXCEPT ![c] = IF sends[c] = 0 THEN cfg[c].token ELSE @]
          /\ reply' = [reply EXCEPT ![c] = "pending"]
       \/ /\ Goto(c, "error")
          /\ UNCHANGED <<sends, first, reply>>
    /\ UNCHANGED <<method, configured, port, store, cfg, spent, platform>>

\* Nothing succeeds without a token unless the method needs none.  Any other request may
\* be refused: the token has expired or been revoked, or the caller lacks a permission.
Replies(c) ==
    IF cfg[c].token # NoToken \/ AuthMethod \in {"none", "local"}
    THEN {"success", "forbidden", "failure"} ELSE {"forbidden", "failure"}

PlatformAnswers(c) ==
    /\ pc[c] = "wait"
    /\ \E r \in Replies(c) : reply' = [reply EXCEPT ![c] = r]
    /\ Goto(c, "answered")
    /\ UNCHANGED <<method, configured, port, store, cfg, sends, first, spent, platform>>

\* A 403 to the first send: log in and retry.
RetryOnEvery403(c) ==
    /\ pc[c] = "answered"
    /\ reply[c] = "forbidden"
    /\ Goto(c, "login")
    /\ UNCHANGED <<method, configured, port, store, cfg, sends, first, reply, spent, platform>>

RetryAfterLogin(c) ==
    /\ pc[c] = "answered"
    /\ sends[c] = 1
    /\ reply[c] = "forbidden"
    /\ Goto(c, "login")
    /\ UNCHANGED <<method, configured, port, store, cfg, sends, first, reply, spent, platform>>

\* Any other answer is final.  A success may still be an error to the caller: the body
\* is not the JSON expected, or a file that cannot be named or saved.
ReturnSuccess(c) ==
    /\ pc[c] = "answered"
    /\ reply[c] = "success"
    /\ Goto(c, "ok")
    /\ UNCHANGED <<method, configured, port, store, cfg, sends, first, reply, spent, platform>>

ReturnError(c) ==
    /\ pc[c] = "answered"
    /\ reply[c] = "forbidden" => sends[c] = 2
    /\ Goto(c, "error")
    /\ UNCHANGED <<method, configured, port, store, cfg, sends, first, reply, spent, platform>>

-----------------------------------------------------------------------------
(* The environment                                                         *)

\* The process dies: the user interrupts it, log.Fatal in another goroutine, or the Go
\* runtime stops two goroutines that write the unguarded map in viper.  What was saved
\* stays; the calls still idle belong to a later process.
Kill ==
    /\ \E c \in Calls : pc[c] \notin Returned \cup {"idle"}
    /\ pc' = [c \in Calls |-> IF pc[c] \in Returned \cup {"idle"} THEN pc[c] ELSE "killed"]
    /\ port' = IF port \in Calls THEN Nobody ELSE port
    /\ UNCHANGED <<method, configured, store, cfg, sends, first, reply, spent, platform>>

Login(c) ==
    \/ CheckConfigForAuth(c) \/ ResolveTenant(c) \/ OAuthRefreshToken(c)
    \/ RefreshAnswerLost(c) \/ RefreshRejected(c) \/ StartCallbackServer(c)
    \/ ReceiveCallback(c) \/ FinishInteractiveLogin(c) \/ PrincipalLogin(c)
    \/ ReplaceCurrentContext(c) \/ ReloadContext(c)

HttpRequest(c) ==
    \/ NewCallContext(c) \/ PrepareHTTPRequest(c) \/ PlatformAnswers(c)
    \/ RetryAfterLogin(c) \/ ReturnSuccess(c) \/ ReturnError(c)

\* A call that is "blocked" stays so: nothing in the code ends its wait.
Done == (\A c \in Calls : pc[c] \in Returned \cup {"blocked"}) /\ UNCHANGED vars

Next ==
    \/ \E c \in Calls : Login(c) \/ HttpRequest(c)
    \/ Kill
    \/ Done

Spec == Init /\ [][Next]_vars

\* A goroutine runs until it blocks, the platform answers or the connection breaks, and
\* the user answers the browser: every step of a call is weakly fair.  Only the start of
\* a call and the death of the process are not.
Fairness ==
    \A c \in Calls : WF_vars(Login(c)) /\ WF_vars(pc[c] # "idle" /\ HttpRequest(c))

FairSpec == Spec /\ Fairness

-----------------------------------------------------------------------------
(* Properties                                                              *)

\* Every variable stays in its domain.
TypeOK ==
    /\ method \in Methods
    /\ configured \in BOOLEAN
    /\ store \in Profile
    /\ cfg \in [Calls -> Profile]
    /\ pc \in [Calls -> Locations]
    /\ sends \in [Calls -> 0..2]
    /\ first \in [Calls -> Nat]
    /\ reply \in [Calls -> {"none", "pending", "forbidden", "success", "failure"}]
    /\ spent \in [Calls -> Nat]
    /\ consumed \subseteq Nat
    /\ port \in Holders
    /\ issued \in Nat

\* A retry never repeats the token that was just refused, whatever the other calls save
\* between this call's save and its reload: that is what the login before a retry is for.
RetryCarriesNewToken ==
    \A c \in Calls : Issuing /\ pc[c] = "wait" /\ sends[c] = 2 => cfg[c].token # first[c]

\* The refresh token in the profile is one the platform has not yet taken, except while
\* the call that used it is on its way to save the new one or ended before it could: the
\* user is not sent to the browser because two calls overwrote each other's session.
NotSaved == {"interactive", "browser", "exchange", "blocked", "save", "error", "killed"}
SessionNotLost ==
    store.refresh \in consumed =>
        \E c \in Calls : spent[c] = store.refresh /\ pc[c] \in NotSaved

\* Once started a call returns: it does not hang, nor retry for ever.
EveryCallReturns == \A c \in Calls : pc[c] # "idle" ~> pc[c] \in Returned

\* The wait for a callback to an address that another login or program has is the only
\* place in login and httpRequest where a call can stay for ever.
OnlyTheCallbackBlocks == \A c \in Calls : pc[c] # "idle" ~> pc[c] \in Returned \cup {"blocked"}

Stage(c) ==
    CASE pc[c] = "idle" -> "idle"
      [] pc[c] = "ok" -> "succeeded"
      [] pc[c] \in {"error", "killed"} -> "failed"
      [] OTHER -> "working"

\* A call of httpRequest keeps the contract of an API call.
Contract ==
    INSTANCE CallContract WITH
        stage <- [c \in Calls |-> Stage(c)], attempts <- sends, verdict <- reply
ImplementsCallContract == Contract!Spec
=============================================================================
