------------------------------ MODULE ApiProxy ------------------------------
(***************************************************************************)
(* The transport of "fsoc proxy" (apiRetriableTransport.RoundTrip in       *)
(* platform/api/proxy.go) for a profile with OAuth.  The proxy serves each *)
(* request in a goroutine of its own, and all of them share ONE call       *)
(* context: callCtx.cfg is a pointer which every login reads, writes       *)
(* through and finally replaces, with no lock.  The model keeps the        *)
(* contexts in a heap and takes a step per access to what is shared.       *)
(***************************************************************************)
EXTENDS Naturals, FiniteSets

CONSTANTS
    Requests,  \* the requests proxied
    Startup,   \* names the context that RunProxyServer created
    Nobody     \* holds the callback address when it is free

ASSUME NamesAssumption == Startup \notin Requests /\ Nobody \notin Requests

NoToken == 0

VARIABLES
    heap,      \* the contexts: Startup's, and the one each login reloads
    ctx,       \* callCtx.cfg: which of them the transport uses
    store,     \* the profile in the config package
    pc,        \* pc[r]: where r is in RoundTrip and login
    held,      \* held[r]: "cfg := callCtx.cfg" of r's login
    answer,    \* answer[r]: the number of the tokens r's login received
    offered,   \* offered[r]: the refresh token r sent to the platform
    header,    \* header[r]: the token in r's Authorization header
    body,      \* body[r]: what is left of the request's body
    sends,     \* sends[r]: requests sent (history)
    first,     \* first[r]: the token sent first (history)
    reply,     \* reply[r]: the answer to the last send
    consumed,  \* refresh tokens the platform has accepted once
    issued,    \* number of tokens issued
    port,      \* who listens on oauthRedirectUri
    overlapped \* two logins were under way at once (history)

tokens == <<heap, ctx, store>>
request == <<header, body, sends, first, reply>>
login == <<held, answer, offered>>
platform == <<consumed, issued>>
proxyVars == <<heap, ctx, store, pc, held, answer, offered, header, body, sends, first, reply,
               consumed, issued, port, overlapped>>

Contexts == Requests \cup {Startup}
Session == [token : Nat, refresh : Nat]
LoginSteps == {"login", "refresh", "refreshing", "interactive", "browser", "exchange", "blocked",
               "token", "refreshtoken", "save", "reload", "assign"}
Returned == {"responded"}
Locations == {"idle", "accepted", "wait", "answered", "retry"} \cup LoginSteps \cup Returned

\* RunProxyServer has logged in: the profile has a token.
Init ==
    /\ issued = 1
    /\ consumed = {}
    /\ store = [token |-> 1, refresh |-> 1]
    /\ heap = [x \in Contexts |-> store]
    /\ ctx = Startup
    /\ pc = [r \in Requests |-> "idle"]
    /\ held = [r \in Requests |-> Startup]
    /\ answer = [r \in Requests |-> NoToken]
    /\ offered = [r \in Requests |-> NoToken]
    /\ header = [r \in Requests |-> NoToken]
    /\ body \in [Requests -> {"none", "whole"}]
    /\ sends = [r \in Requests |-> 0]
    /\ first = [r \in Requests |-> NoToken]
    /\ reply = [r \in Requests |-> "none"]
    /\ port = Nobody
    /\ overlapped = FALSE

Goto(r, l) == pc' = [pc EXCEPT ![r] = l]

\* Attach the shared context's token and send; the transport reads the body.
Send(r) ==
    /\ header' = [header EXCEPT ![r] = heap[ctx].token]
    /\ first' = [first EXCEPT ![r] = IF sends[r] = 0 THEN heap[ctx].token ELSE @]
    /\ sends' = [sends EXCEPT ![r] = @ + 1]
    /\ reply' = [reply EXCEPT ![r] = "pending"]
    /\ Goto(r, "wait")
    /\ UNCHANGED <<tokens, login, body, platform, overlapped, port>>

\* The server accepts a request and the ReverseProxy hands it to the transport.
Accept(r) ==
    /\ pc[r] = "idle"
    /\ Goto(r, "accepted")
    /\ UNCHANGED <<tokens, login, request, platform, overlapped, port>>

RoundTrip(r) == pc[r] = "accepted" /\ Send(r)

\* The body was read by the first send and closed: a second send of it fails, unless the
\* platform refuses the request before it gets there.
PlatformAnswers(r) ==
    /\ pc[r] = "wait"
    /\ \E v \in IF body[r] = "read" THEN {"forbidden", "failure"}
                                    ELSE {"success", "forbidden", "failure"} :
           reply' = [reply EXCEPT ![r] = v]
    /\ body' = [body EXCEPT ![r] = IF @ = "whole" THEN "read" ELSE @]
    /\ Goto(r, "answered")
    /\ UNCHANGED <<tokens, login, header, sends, first, platform, overlapped, port>>

\* The answer goes back to the client of the proxy, whatever it is.
Respond(r) ==
    /\ pc[r] = "answered"
    /\ reply[r] = "forbidden" => sends[r] = 2
    /\ Goto(r, "responded")
    /\ UNCHANGED <<tokens, login, request, platform, overlapped, port>>

\* login(t.callContext): its local "cfg" is the pointer as it is now.
LoginOnEvery403(r) ==
    /\ pc[r] = "answered"
    /\ reply[r] = "forbidden"
    /\ held' = [held EXCEPT ![r] = ctx]
    /\ Goto(r, "refresh")
    /\ overlapped' = (overlapped \/ \E q \in Requests \ {r} : pc[q] \in LoginSteps)
    /\ UNCHANGED <<tokens, answer, offered, request, platform, port>>

LoginOn403(r) ==
    /\ pc[r] = "answered"
    /\ reply[r] = "forbidden"
    /\ sends[r] = 1
    /\ held' = [held EXCEPT ![r] = ctx]
    /\ Goto(r, "refresh")
    /\ overlapped' = (overlapped \/ \E q \in Requests \ {r} : pc[q] \in LoginSteps)
    /\ UNCHANGED <<tokens, answer, offered, request, platform, port>>

\* oauthRefreshToken reads ctx.cfg.RefreshToken into the form it posts.
PostRefreshToken(r) ==
    /\ pc[r] = "refresh"
    /\ offered' = [offered EXCEPT ![r] = heap[ctx].refresh]
    /\ Goto(r, "refreshing")
    /\ UNCHANGED <<tokens, held, answer, request, platform, overlapped, port>>

\* The platform takes the refresh token and answers, or its answer is lost, or it rejects
\* the token.
RefreshAccepted(r) ==
    /\ pc[r] = "refreshing"
    /\ offered[r] \notin consumed
    /\ consumed' = consumed \cup {offered[r]}
    /\ issued' = issued + 1
    /\ answer' = [answer EXCEPT ![r] = issued']
    /\ Goto(r, "token")
    /\ UNCHANGED <<tokens, held, offered, request, overlapped, port>>

RefreshAnswerLost(r) ==
    /\ pc[r] = "refreshing"
    /\ offered[r] \notin consumed
    /\ consumed' = consumed \cup {offered[r]}
    /\ issued' = issued + 1
    /\ Goto(r, "interactive")
    /\ UNCHANGED <<tokens, login, request, overlapped, port>>

RefreshRejected(r) ==
    /\ pc[r] = "refreshing"
    /\ Goto(r, "interactive")
    /\ UNCHANGED <<tokens, login, request, platform, overlapped, port>>

\* startCallbackServer: the callback address is fixed.  If it is taken, the failure is
\* only logged and the login waits for a callback that never comes.
StartCallbackServer(r) ==
    /\ pc[r] = "interactive"
    /\ \/ port = Nobody /\ port' = r /\ Goto(r, "browser")
       \/ port # Nobody /\ UNCHANGED port /\ Goto(r, "blocked")
    /\ UNCHANGED <<tokens, login, request, platform, overlapped>>

\* The browser calls back and the server is closed; the nonce may not match.
ReceiveCallback(r) ==
    /\ pc[r] = "browser"
    /\ port' = Nobody
    /\ Goto(r, "exchange") \/ Goto(r, "responded")
    /\ UNCHANGED <<tokens, login, request, platform, overlapped>>

\* The code is exchanged, when the port is free for another login; on any failure of a login
\* RoundTrip returns the original 403.
FinishInteractiveLogin(r) ==
    /\ pc[r] = "exchange"
    /\ \/ /\ issued' = issued + 1
          /\ answer' = [answer EXCEPT ![r] = issued']
          /\ Goto(r, "token")
       \/ /\ Goto(r, "responded")
          /\ UNCHANGED <<answer, issued>>
    /\ UNCHANGED <<tokens, held, port, offered, request, consumed, overlapped>>

\* ctx.cfg.Token = ...: through the shared pointer, not through held[r].
SetToken(r) ==
    /\ pc[r] = "token"
    /\ heap' = [heap EXCEPT ![ctx].token = answer[r]]
    /\ Goto(r, "refreshtoken")
    /\ UNCHANGED <<ctx, store, login, request, platform, overlapped, port>>

\* ctx.cfg.RefreshToken = ...
KeepRefreshToken(r) ==
    /\ pc[r] = "refreshtoken"
    /\ Goto(r, "save")
    /\ UNCHANGED <<tokens, login, request, platform, overlapped, port>>

SetRefreshToken(r) ==
    /\ pc[r] = "refreshtoken"
    /\ heap' = [heap EXCEPT ![ctx].refresh = answer[r]]
    /\ Goto(r, "save")
    /\ UNCHANGED <<ctx, store, login, request, platform, overlapped, port>>

\* config.ReplaceCurrentContext(cfg), with the pointer taken when the login began.
SaveHeld(r) ==
    /\ pc[r] = "save"
    /\ store' = heap[held[r]]
    /\ Goto(r, "reload")
    /\ UNCHANGED <<heap, ctx, login, request, platform, overlapped, port>>

\* config.GetCurrentContext() makes a new copy of the profile...
Reload(r) ==
    /\ pc[r] = "reload"
    /\ heap' = [heap EXCEPT ![r] = store]
    /\ Goto(r, "assign")
    /\ UNCHANGED <<ctx, store, login, request, platform, overlapped, port>>

\* ... and the shared pointer is set to it.
AssignContext(r) ==
    /\ pc[r] = "assign"
    /\ ctx' = r
    /\ Goto(r, "retry")
    /\ UNCHANGED <<heap, store, login, request, platform, overlapped, port>>

Retry(r) == pc[r] = "retry" /\ Send(r)

Login(r) ==
    \/ LoginOn403(r) \/ PostRefreshToken(r) \/ RefreshAccepted(r) \/ RefreshAnswerLost(r)
    \/ RefreshRejected(r)
    \/ StartCallbackServer(r) \/ ReceiveCallback(r) \/ FinishInteractiveLogin(r) \/ SetToken(r)
    \/ SetRefreshToken(r) \/ SaveHeld(r) \/ Reload(r) \/ AssignContext(r)

Serve(r) == RoundTrip(r) \/ PlatformAnswers(r) \/ Respond(r) \/ Login(r) \/ Retry(r)

\* A request that is "blocked" stays so: nothing in the code ends its wait.
Settled == \A r \in Requests : pc[r] \in Returned \cup {"blocked"}

Next ==
    \/ \E r \in Requests : Accept(r) \/ Serve(r)
    \/ Settled /\ UNCHANGED proxyVars

Spec == Init /\ [][Next]_proxyVars

-----------------------------------------------------------------------------
(* Properties                                                              *)

\* Every variable stays in its domain.
TransportTypeOK ==
    /\ heap \in [Contexts -> Session]
    /\ ctx \in Contexts
    /\ store \in Session
    /\ pc \in [Requests -> Locations]
    /\ held \in [Requests -> Contexts]
    /\ answer \in [Requests -> Nat]
    /\ offered \in [Requests -> Nat]
    /\ header \in [Requests -> Nat]
    /\ body \in [Requests -> {"none", "whole", "read"}]
    /\ sends \in [Requests -> 0..2]
    /\ first \in [Requests -> Nat]
    /\ reply \in [Requests -> {"none", "pending", "forbidden", "success", "failure"}]
    /\ consumed \subseteq Nat
    /\ issued \in Nat
    /\ port \in Requests \cup {Nobody}
    /\ overlapped \in BOOLEAN

\* "Retry the request with the new token" (proxy.go): the token a retry carries is not the
\* one the platform has just refused.
RetryCarriesNewToken ==
    \A r \in Requests : pc[r] = "wait" /\ sends[r] = 2 => header[r] # first[r]

\* While no login is under way, the profile holds a refresh token that is still good, so
\* that the next login need not ask the user; unless the answer to the login that used it
\* was lost on the way.
SavedSessionUsable ==
    (\A r \in Requests : pc[r] \notin LoginSteps) /\ store.refresh \in consumed =>
        \E r \in Requests : offered[r] = store.refresh /\ answer[r] = NoToken

\* Both hold as long as no two requests log in at the same time, however the requests
\* themselves overlap: sharing the context is safe for everything but the login.
SequentialLoginsAreSafe ==
    ~overlapped => RetryCarriesNewToken /\ SavedSessionUsable

\* The proxy keeps the contract of an API call for every request it forwards.
Stage(r) ==
    CASE pc[r] = "idle" -> "idle"
      [] pc[r] = "responded" -> IF reply[r] = "success" THEN "succeeded" ELSE "failed"
      [] OTHER -> "working"

Contract ==
    INSTANCE CallContract WITH
        Calls <- Requests, stage <- [r \in Requests |-> Stage(r)],
        attempts <- sends, verdict <- reply
ImplementsCallContract == Contract!Spec
=============================================================================
