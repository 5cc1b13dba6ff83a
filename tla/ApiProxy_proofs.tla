---------------------------- MODULE ApiProxy_proofs ----------------------------
(***************************************************************************)
(* Proofs about ApiProxy for any set of requests: as long as no two of     *)
(* them log in at once, the one context that they share is safe, and they  *)
(* keep the contract of an API call even when logins overlap.              *)
(*                                                                         *)
(* The argument for the first: tokens are numbered as they are issued, so  *)
(* a token is new if its number is larger.  While one login is under way   *)
(* the number it was given is the last one issued, and the pointer that    *)
(* it took when it began is still the shared one, so that what it saves is *)
(* what it received.  Requests that are sent meanwhile only read.          *)
(***************************************************************************)
EXTENDS ApiProxy, TLAPS

\* How often a request was sent, and with which answer, by where it is in RoundTrip.
SendsOf(r) ==
    /\ pc[r] \in {"idle", "accepted"} => sends[r] = 0
    /\ pc[r] \in {"wait", "answered"} => sends[r] \in {1, 2}
    /\ pc[r] \in {"retry"} \cup LoginSteps => sends[r] = 1 /\ reply[r] = "forbidden"
    /\ pc[r] = "wait" => reply[r] = "pending"

\* A request has no tokens of its own before its login, and then those it was answered.
AnswerOf(r) ==
    \/ answer[r] = NoToken
    \/ pc[r] \in {"token", "refreshtoken", "save", "reload", "assign", "retry", "responded"}
    \/ sends[r] = 2

RequestInv == TransportTypeOK /\ \A r \in Requests : SendsOf(r) /\ AnswerOf(r)

\* Every token there is was issued.
TokensIssued ==
    /\ \A x \in Contexts : heap[x].token <= issued /\ heap[x].refresh <= issued
    /\ store.refresh <= issued /\ store.token <= issued
    /\ \A r \in Requests : answer[r] <= issued /\ offered[r] <= issued /\ first[r] <= issued
    /\ \A t \in consumed : t <= issued

\* The login that is under way, and the shared context that it holds.
HoldsContext(r) ==
    /\ pc[r] \in LoginSteps =>
           held[r] = ctx /\ \A q \in Requests : pc[q] \in LoginSteps => q = r
    /\ pc[r] = "refreshing" => offered[r] = store.refresh
    /\ pc[r] \in {"token", "refreshtoken", "save"} => answer[r] = issued /\ answer[r] \notin consumed
    /\ pc[r] = "save" => heap[ctx].refresh = answer[r]
    /\ pc[r] = "assign" => heap[r] = store

\* The token that the platform refused is older than the one that a login has set.
RefusedIsOlder(r) ==
    /\ pc[r] = "token" => first[r] < answer[r]
    /\ pc[r] \in {"refreshtoken", "save", "reload", "assign", "retry"} => first[r] < heap[ctx].token
    /\ pc[r] = "wait" /\ sends[r] = 2 => header[r] # first[r]

\* The profile is the shared context, except between SetToken and SaveHeld.
ContextIsSaved ==
    (\A r \in Requests : pc[r] \notin {"refreshtoken", "save"}) => heap[ctx] = store

\* A used refresh token is in the profile only until its answer is saved, or if that was lost.
UsedTokenIsReplaced ==
    (\A r \in Requests : pc[r] \notin {"token", "refreshtoken", "save"}) /\ store.refresh \in consumed =>
        \E r \in Requests : offered[r] = store.refresh /\ answer[r] = NoToken

Sequential ==
    /\ \A r \in Requests : HoldsContext(r) /\ RefusedIsOlder(r)
    /\ ContextIsSaved
    /\ UsedTokenIsReplaced

ProxyInv == RequestInv /\ TokensIssued /\ (~overlapped => Sequential)

-----------------------------------------------------------------------------
(* Types, and what the locations tell                                      *)

LEMMA InitRequestInv == Init => RequestInv
<1> SUFFICES ASSUME Init PROVE RequestInv
  OBVIOUS
<1>1. store \in Session /\ heap \in [Contexts -> Session] /\ ctx \in Contexts
  BY DEF Init, Session, Contexts
<1>2. body \in [Requests -> {"none", "whole", "read"}]
  BY DEF Init
<1>3. TransportTypeOK
  <2>1. /\ pc \in [Requests -> Locations] /\ held \in [Requests -> Contexts]
        /\ answer \in [Requests -> Nat] /\ offered \in [Requests -> Nat]
        /\ header \in [Requests -> Nat] /\ first \in [Requests -> Nat]
    BY DEF Init, Contexts, Locations, NoToken
  <2>2. /\ sends \in [Requests -> 0..2]
        /\ reply \in [Requests -> {"none", "pending", "forbidden", "success", "failure"}]
        /\ consumed \subseteq Nat /\ issued \in Nat /\ port \in Requests \cup {Nobody}
    BY DEF Init
  <2>3. overlapped \in BOOLEAN
    BY DEF Init
  <2> QED BY <1>1, <1>2, <2>1, <2>2, <2>3 DEF TransportTypeOK
<1> QED BY <1>3 DEF Init, RequestInv, SendsOf, AnswerOf, LoginSteps

LEMMA SendKeepsRequestInv ==
    ASSUME RequestInv, NEW r \in Requests, Send(r), pc[r] \in {"accepted", "retry"}
    PROVE  RequestInv'
<1> USE DEF RequestInv, Send, Goto, SendsOf, tokens, login, platform
<1>1. TransportTypeOK'
  <2>1. heap[ctx].token \in Nat
    BY DEF TransportTypeOK, Session
  <2>2. header' \in [Requests -> Nat] /\ first' \in [Requests -> Nat]
    BY <2>1 DEF TransportTypeOK
  <2>3. sends' \in [Requests -> 0..2]
    BY DEF TransportTypeOK
  <2>4. pc' \in [Requests -> Locations]
    BY DEF TransportTypeOK, Locations
  <2> QED BY <2>2, <2>3, <2>4 DEF TransportTypeOK
<1>2. ASSUME NEW q \in Requests PROVE SendsOf(q)'
  BY DEF TransportTypeOK, LoginSteps
<1>3. ASSUME NEW q \in Requests PROVE AnswerOf(q)'
  BY DEF TransportTypeOK, AnswerOf
<1> QED BY <1>1, <1>2, <1>3

\* The steps of a request that is not logging in.
LEMMA ServeKeepsRequestInv ==
    ASSUME RequestInv, NEW r \in Requests,
           Accept(r) \/ PlatformAnswers(r) \/ Respond(r)
    PROVE  RequestInv'
<1> USE DEF RequestInv, Goto, SendsOf, AnswerOf, TransportTypeOK, Locations, LoginSteps, Returned,
        tokens, login, request, platform
<1>1. CASE Accept(r)
  BY <1>1 DEF Accept
<1>2. CASE PlatformAnswers(r)
  <2>1. PICK v \in {"success", "forbidden", "failure"} : reply' = [reply EXCEPT ![r] = v]
    BY <1>2 DEF PlatformAnswers
  <2>2. body' \in [Requests -> {"none", "whole", "read"}]
    BY <1>2 DEF PlatformAnswers
  <2> QED BY <1>2, <2>1, <2>2 DEF PlatformAnswers
<1>3. CASE Respond(r)
  BY <1>3 DEF Respond
<1> QED BY <1>1, <1>2, <1>3

\* A login does not touch what was sent and answered.
LEMMA LoginKeepsRequestInv ==
    ASSUME RequestInv, NEW r \in Requests, Login(r)
    PROVE  RequestInv'
<1> USE DEF RequestInv, Goto, tokens, login, request, platform
<1>1. UNCHANGED <<header, body, sends, first, reply>>
  BY DEF Login, LoginOn403, PostRefreshToken, RefreshAccepted, RefreshAnswerLost, RefreshRejected,
         StartCallbackServer, ReceiveCallback, FinishInteractiveLogin, SetToken, SetRefreshToken, SaveHeld, Reload,
         AssignContext
<1>2. PICK l \in LoginSteps \cup {"retry", "responded"} : pc' = [pc EXCEPT ![r] = l]
  BY DEF Login, LoginOn403, PostRefreshToken, RefreshAccepted, RefreshAnswerLost, RefreshRejected,
         StartCallbackServer, ReceiveCallback, FinishInteractiveLogin, SetToken, SetRefreshToken, SaveHeld, Reload,
         AssignContext, LoginSteps
<1>3. sends[r] = 1 /\ reply[r] = "forbidden"
  BY DEF SendsOf, Login, LoginOn403, PostRefreshToken, RefreshAccepted, RefreshAnswerLost,
         RefreshRejected, StartCallbackServer, ReceiveCallback, FinishInteractiveLogin, SetToken, SetRefreshToken,
         SaveHeld, Reload, AssignContext, LoginSteps
<1>4. pc' \in [Requests -> Locations]
  BY <1>2 DEF TransportTypeOK, Locations, LoginSteps, Returned
<1>5. ASSUME NEW q \in Requests PROVE SendsOf(q)'
  BY <1>1, <1>2, <1>3 DEF SendsOf, TransportTypeOK, LoginSteps
<1>6. heap' \in [Contexts -> Session] /\ store' \in Session /\ ctx' \in Contexts
  <2>1. CASE UNCHANGED tokens
    BY <2>1 DEF TransportTypeOK
  <2>2. CASE SetToken(r)
    BY <2>2 DEF SetToken, TransportTypeOK, Session
  <2>3. CASE SetRefreshToken(r)
    BY <2>3 DEF SetRefreshToken, TransportTypeOK, Session
  <2>4. CASE SaveHeld(r)
    BY <2>4 DEF SaveHeld, TransportTypeOK
  <2>5. CASE Reload(r)
    BY <2>5 DEF Reload, TransportTypeOK
  <2>6. CASE AssignContext(r)
    BY <2>6 DEF AssignContext, TransportTypeOK, Contexts
  <2> QED BY <2>1, <2>2, <2>3, <2>4, <2>5, <2>6
          DEF Login, LoginOn403, PostRefreshToken, RefreshAccepted, RefreshAnswerLost,
              RefreshRejected, StartCallbackServer, ReceiveCallback, FinishInteractiveLogin
<1>7. /\ held' \in [Requests -> Contexts] /\ offered' \in [Requests -> Nat]
      /\ consumed' \subseteq Nat /\ issued' \in Nat
      /\ port' \in Requests \cup {Nobody} /\ overlapped' \in BOOLEAN
  <2> USE DEF TransportTypeOK
  <2>1. CASE LoginOn403(r)
    BY <2>1 DEF LoginOn403
  <2>2. CASE PostRefreshToken(r)
    <3>1. heap[ctx].refresh \in Nat
      BY DEF Session
    <3> QED BY <2>2, <3>1 DEF PostRefreshToken
  <2>3. CASE RefreshAccepted(r) \/ RefreshAnswerLost(r)
    <3>1. /\ consumed' = consumed \cup {offered[r]} /\ issued' = issued + 1
          /\ UNCHANGED <<held, offered, port, overlapped>>
      BY <2>3 DEF RefreshAccepted, RefreshAnswerLost
    <3>2. offered[r] \in Nat
      OBVIOUS
    <3>3. consumed' \subseteq Nat /\ issued' \in Nat
      <4>1. consumed \subseteq Nat /\ issued \in Nat
        OBVIOUS
      <4>2. issued' \in Nat
        BY <3>1, <4>1
      <4>3. consumed' \subseteq Nat
        BY <3>1, <3>2, <4>1
      <4> QED BY <4>2, <4>3
    <3>4. held' \in [Requests -> Contexts] /\ offered' \in [Requests -> Nat]
      BY <3>1
    <3>5. port' \in Requests \cup {Nobody} /\ overlapped' \in BOOLEAN
      BY <3>1
    <3> QED BY <3>3, <3>4, <3>5
  <2>4. CASE RefreshRejected(r) \/ StartCallbackServer(r) \/ ReceiveCallback(r)
    BY <2>4 DEF RefreshRejected, StartCallbackServer, ReceiveCallback
  <2>5. CASE FinishInteractiveLogin(r)
    BY <2>5 DEF FinishInteractiveLogin
  <2>6. CASE SetToken(r) \/ SetRefreshToken(r) \/ SaveHeld(r) \/ Reload(r) \/ AssignContext(r)
    BY <2>6 DEF SetToken, SetRefreshToken, SaveHeld, Reload, AssignContext
  <2> QED BY <2>1, <2>2, <2>3, <2>4, <2>5, <2>6 DEF Login
<1>8. \/ UNCHANGED answer
      \/ answer' = [answer EXCEPT ![r] = issued'] /\ pc'[r] = "token"
  BY DEF Login, LoginOn403, PostRefreshToken, RefreshAccepted, RefreshAnswerLost, RefreshRejected,
         StartCallbackServer, ReceiveCallback, FinishInteractiveLogin, SetToken, SetRefreshToken, SaveHeld, Reload,
         AssignContext, TransportTypeOK
<1>9. answer' \in [Requests -> Nat]
  BY <1>7, <1>8 DEF TransportTypeOK
<1>10. ASSUME NEW q \in Requests PROVE AnswerOf(q)'
  <2>1. pc[r] \in {"token", "refreshtoken", "save", "reload", "assign"} =>
            pc'[r] \in {"refreshtoken", "save", "reload", "assign", "retry"}
    BY DEF Login, LoginOn403, PostRefreshToken, RefreshAccepted, RefreshAnswerLost, RefreshRejected,
           StartCallbackServer, ReceiveCallback, FinishInteractiveLogin, SetToken, SetRefreshToken, SaveHeld,
           Reload, AssignContext, TransportTypeOK
  <2>2. pc[r] \notin {"retry", "responded"}
    BY DEF Login, LoginOn403, PostRefreshToken, RefreshAccepted, RefreshAnswerLost, RefreshRejected,
           StartCallbackServer, ReceiveCallback, FinishInteractiveLogin, SetToken, SetRefreshToken, SaveHeld,
           Reload, AssignContext
  <2>3. AnswerOf(q)
    OBVIOUS
  <2>4. CASE q = r
    BY <1>1, <1>3, <1>8, <2>1, <2>2, <2>3, <2>4 DEF AnswerOf, TransportTypeOK
  <2>5. CASE q # r
    BY <1>1, <1>2, <1>8, <2>3, <2>5 DEF AnswerOf, TransportTypeOK
  <2> QED BY <2>4, <2>5
<1> QED BY <1>1, <1>4, <1>5, <1>6, <1>7, <1>9, <1>10 DEF TransportTypeOK

\* A stutter, or a step of one request.
LEMMA NextRequestInv == RequestInv /\ [Next]_proxyVars => RequestInv'
<1> SUFFICES ASSUME RequestInv, [Next]_proxyVars PROVE RequestInv'
  OBVIOUS
<1>1. ASSUME NEW r \in Requests, Accept(r) PROVE RequestInv'
  BY <1>1, ServeKeepsRequestInv
<1>2. ASSUME NEW r \in Requests, Serve(r) PROVE RequestInv'
  <2>1. CASE RoundTrip(r) \/ Retry(r)
    BY <2>1, SendKeepsRequestInv DEF RoundTrip, Retry
  <2>2. CASE PlatformAnswers(r) \/ Respond(r)
    BY <2>2, ServeKeepsRequestInv
  <2>3. CASE Login(r)
    BY <2>3, LoginKeepsRequestInv
  <2> QED BY <1>2, <2>1, <2>2, <2>3 DEF Serve
<1>3. CASE UNCHANGED proxyVars
  BY <1>3 DEF proxyVars, RequestInv, TransportTypeOK, SendsOf, AnswerOf
<1> QED BY <1>1, <1>2, <1>3 DEF Next

-----------------------------------------------------------------------------
(* The numbers of tokens                                                   *)

\* The facts that the next lemmas are about.
LEMMA TypesOf ==
    ASSUME RequestInv
    PROVE  /\ heap \in [Contexts -> Session] /\ store \in Session /\ ctx \in Contexts
           /\ pc \in [Requests -> Locations] /\ held \in [Requests -> Contexts]
           /\ answer \in [Requests -> Nat] /\ offered \in [Requests -> Nat]
           /\ header \in [Requests -> Nat] /\ first \in [Requests -> Nat]
           /\ sends \in [Requests -> 0..2]
           /\ consumed \subseteq Nat /\ issued \in Nat
           /\ heap[ctx] \in Session /\ heap[ctx].token \in Nat /\ heap[ctx].refresh \in Nat
           /\ \A x \in Contexts : heap[x].token \in Nat /\ heap[x].refresh \in Nat
BY DEF RequestInv, TransportTypeOK, Session

LEMMA NextTokensIssued ==
    RequestInv /\ TokensIssued /\ [Next]_proxyVars => TokensIssued'
<1> SUFFICES ASSUME RequestInv, TokensIssued, [Next]_proxyVars PROVE TokensIssued'
  OBVIOUS
<1> USE TypesOf DEF TokensIssued, Goto, tokens, login, request, platform
<1>1. ASSUME NEW r \in Requests, Accept(r) \/ PlatformAnswers(r) \/ Respond(r) PROVE TokensIssued'
  BY <1>1 DEF Accept, PlatformAnswers, Respond
<1>2. ASSUME NEW r \in Requests, Send(r) PROVE TokensIssued'
  BY <1>2 DEF Send
<1>3. ASSUME NEW r \in Requests, LoginOn403(r) \/ RefreshRejected(r) \/ StartCallbackServer(r) \/ ReceiveCallback(r)
      PROVE  TokensIssued'
  BY <1>3 DEF LoginOn403, RefreshRejected, StartCallbackServer, ReceiveCallback
<1>4. ASSUME NEW r \in Requests, PostRefreshToken(r) PROVE TokensIssued'
  BY <1>4 DEF PostRefreshToken
\* A new number is larger than all those before.
<1>5. ASSUME NEW r \in Requests, issued' = issued + 1, UNCHANGED <<tokens, offered, first>>,
             answer' = answer \/ answer' = [answer EXCEPT ![r] = issued'],
             consumed' = consumed \/ consumed' = consumed \cup {offered[r]}
      PROVE  TokensIssued'
  <2>1. \A n \in Nat : n <= issued => n <= issued'
    BY <1>5
  <2>2. \A x \in Contexts : heap'[x].token <= issued' /\ heap'[x].refresh <= issued'
    BY <1>5, <2>1
  <2>3. store'.refresh <= issued' /\ store'.token <= issued'
    BY <1>5, <2>1 DEF Session
  <2>4. \A q \in Requests : answer'[q] <= issued' /\ offered'[q] <= issued' /\ first'[q] <= issued'
    BY <1>5, <2>1
  <2>5. \A t \in consumed' : t <= issued'
    BY <1>5, <2>1
  <2> QED BY <2>2, <2>3, <2>4, <2>5
<1>6. ASSUME NEW r \in Requests, RefreshAccepted(r) \/ RefreshAnswerLost(r) PROVE TokensIssued'
  BY <1>5, <1>6 DEF RefreshAccepted, RefreshAnswerLost
<1>7. ASSUME NEW r \in Requests, FinishInteractiveLogin(r) PROVE TokensIssued'
  BY <1>5, <1>7 DEF FinishInteractiveLogin
<1>8. ASSUME NEW r \in Requests, SetToken(r) \/ SetRefreshToken(r) PROVE TokensIssued'
  <2>1. CASE SetToken(r)
    <3>1. heap' = [heap EXCEPT ![ctx] = [heap[ctx] EXCEPT !.token = answer[r]]]
      BY <2>1 DEF SetToken
    <3> QED BY <2>1, <3>1 DEF SetToken, Session
  <2>2. CASE SetRefreshToken(r)
    <3>1. heap' = [heap EXCEPT ![ctx] = [heap[ctx] EXCEPT !.refresh = answer[r]]]
      BY <2>2 DEF SetRefreshToken
    <3> QED BY <2>2, <3>1 DEF SetRefreshToken, Session
  <2> QED BY <1>8, <2>1, <2>2
<1>9. ASSUME NEW r \in Requests, SaveHeld(r) \/ Reload(r) \/ AssignContext(r) PROVE TokensIssued'
  BY <1>9 DEF SaveHeld, Reload, AssignContext
<1>10. CASE UNCHANGED proxyVars
  BY <1>10 DEF proxyVars
<1> QED BY <1>1, <1>2, <1>3, <1>4, <1>6, <1>7, <1>8, <1>9, <1>10
        DEF Next, Serve, Login, RoundTrip, Retry

-----------------------------------------------------------------------------
(* One login at a time                                                     *)

LEMMA InitProxyInv == Init => ProxyInv
<1> SUFFICES ASSUME Init PROVE ProxyInv
  OBVIOUS
<1>1. TokensIssued
  BY DEF Init, TokensIssued, NoToken
<1>2. Sequential
  BY DEF Init, Sequential, HoldsContext, RefusedIsOlder, ContextIsSaved, UsedTokenIsReplaced,
         Contexts, LoginSteps
<1> QED BY <1>1, <1>2, InitRequestInv DEF ProxyInv

\* Steps of a request that is not logging in change nothing that a login relies on.
LEMMA QuietKeepsSequential ==
    ASSUME RequestInv, Sequential, NEW r \in Requests,
           Accept(r) \/ PlatformAnswers(r) \/ Respond(r)
    PROVE  Sequential'
<1> USE TypesOf DEF Sequential, Goto, tokens, login, request, platform
<1>1. PICK l \in {"accepted", "answered", "responded"} : pc' = [pc EXCEPT ![r] = l]
  BY DEF Accept, PlatformAnswers, Respond
<1>2. pc[r] \notin LoginSteps \cup {"retry"}
  BY DEF Accept, PlatformAnswers, Respond, LoginSteps
<1>3. UNCHANGED <<heap, ctx, store, held, answer, offered, header, sends, first, consumed, issued>>
  BY DEF Accept, PlatformAnswers, Respond
<1>4. ASSUME NEW q \in Requests PROVE HoldsContext(q)' /\ RefusedIsOlder(q)'
  BY <1>1, <1>2, <1>3 DEF HoldsContext, RefusedIsOlder, LoginSteps
<1>5. ContextIsSaved' /\ UsedTokenIsReplaced'
  BY <1>1, <1>2, <1>3 DEF ContextIsSaved, UsedTokenIsReplaced, LoginSteps
<1> QED BY <1>4, <1>5

\* A send reads the shared context; a retry finds a newer token in it.
LEMMA SendKeepsSequential ==
    ASSUME RequestInv, Sequential, NEW r \in Requests, Send(r), pc[r] \in {"accepted", "retry"}
    PROVE  Sequential'
<1> USE TypesOf DEF Sequential, Send, Goto, tokens, login, platform
<1>1. pc[r] = "accepted" => sends[r] = 0
  BY DEF RequestInv, SendsOf
<1>2. pc[r] = "retry" => sends[r] = 1 /\ first[r] < heap[ctx].token
  BY DEF RequestInv, SendsOf, RefusedIsOlder
<1>3. ASSUME NEW q \in Requests PROVE HoldsContext(q)'
  BY DEF HoldsContext, LoginSteps
<1>4. ASSUME NEW q \in Requests PROVE RefusedIsOlder(q)'
  <2>1. CASE q = r
    BY <1>1, <1>2, <2>1 DEF RefusedIsOlder
  <2>2. CASE q # r
    BY <2>2 DEF RefusedIsOlder
  <2> QED BY <2>1, <2>2
<1>5. ContextIsSaved' /\ UsedTokenIsReplaced'
  BY DEF ContextIsSaved, UsedTokenIsReplaced
<1> QED BY <1>3, <1>4, <1>5

\* A login begins when there is no other.
LEMMA LoginOn403KeepsSequential ==
    ASSUME RequestInv, Sequential, NEW r \in Requests, LoginOn403(r), ~overlapped'
    PROVE  Sequential'
<1> USE TypesOf DEF Sequential, LoginOn403, Goto, tokens, request, platform
<1>1. \A q \in Requests \ {r} : pc[q] \notin LoginSteps
  OBVIOUS
<1>2. ASSUME NEW q \in Requests PROVE HoldsContext(q)' /\ RefusedIsOlder(q)'
  BY <1>1 DEF HoldsContext, RefusedIsOlder, LoginSteps
<1>3. ContextIsSaved' /\ UsedTokenIsReplaced'
  BY DEF ContextIsSaved, UsedTokenIsReplaced
<1> QED BY <1>2, <1>3

\* What the next lemmas use of the only login.
LEMMA OnlyLogin ==
    ASSUME Sequential, NEW r \in Requests, pc[r] \in LoginSteps
    PROVE  /\ held[r] = ctx
           /\ \A q \in Requests \ {r} : pc[q] \notin LoginSteps
BY DEF Sequential, HoldsContext

LEMMA PostRefreshTokenKeepsSequential ==
    ASSUME RequestInv, Sequential, NEW r \in Requests, PostRefreshToken(r)
    PROVE  Sequential'
<1> USE TypesOf DEF Sequential, PostRefreshToken, Goto, tokens, request, platform
<1>1. \A q \in Requests \ {r} : pc[q] \notin LoginSteps
  BY OnlyLogin DEF LoginSteps
<1>2. heap[ctx] = store
  BY <1>1 DEF ContextIsSaved, LoginSteps
<1>3. answer[r] = NoToken
  BY DEF RequestInv, AnswerOf, SendsOf, LoginSteps
<1>4. ASSUME NEW q \in Requests PROVE HoldsContext(q)' /\ RefusedIsOlder(q)'
  BY <1>1, <1>2 DEF HoldsContext, RefusedIsOlder, LoginSteps
<1>5. ContextIsSaved' /\ UsedTokenIsReplaced'
  BY <1>1, <1>2, <1>3 DEF ContextIsSaved, UsedTokenIsReplaced
<1> QED BY <1>4, <1>5

\* A refresh token that is accepted is on its way to be replaced by a newer one; if the answer
\* is lost, the login that lost it tells of it.
LEMMA RefreshKeepsSequential ==
    ASSUME RequestInv, TokensIssued, Sequential, NEW r \in Requests,
           RefreshAccepted(r) \/ RefreshAnswerLost(r)
    PROVE  Sequential'
<1> USE TypesOf DEF Sequential, Goto, tokens, login, request
<1>1. pc[r] = "refreshing" /\ \A q \in Requests \ {r} : pc[q] \notin LoginSteps
  BY OnlyLogin DEF RefreshAccepted, RefreshAnswerLost, LoginSteps
<1>2. heap[ctx] = store /\ offered[r] = store.refresh
  BY <1>1 DEF ContextIsSaved, HoldsContext, LoginSteps
<1>3. answer[r] = NoToken
  BY <1>1 DEF RequestInv, AnswerOf, SendsOf, LoginSteps
<1>4. /\ issued' = issued + 1 /\ consumed' = consumed \cup {offered[r]}
      /\ UNCHANGED <<heap, ctx, store, held, offered, header, sends, first>>
  BY DEF RefreshAccepted, RefreshAnswerLost
<1>5. issued' \notin consumed' /\ first[r] < issued'
  BY <1>4 DEF TokensIssued
<1>6. CASE RefreshAccepted(r)
  <2>1. answer' = [answer EXCEPT ![r] = issued'] /\ pc' = [pc EXCEPT ![r] = "token"]
    BY <1>6 DEF RefreshAccepted
  <2>2. ASSUME NEW q \in Requests PROVE HoldsContext(q)' /\ RefusedIsOlder(q)'
    BY <1>1, <1>4, <1>5, <2>1 DEF HoldsContext, RefusedIsOlder, LoginSteps
  <2>3. ContextIsSaved' /\ UsedTokenIsReplaced'
    BY <1>1, <1>2, <1>4, <2>1 DEF ContextIsSaved, UsedTokenIsReplaced, LoginSteps
  <2> QED BY <2>2, <2>3
<1>7. CASE RefreshAnswerLost(r)
  <2>1. answer' = answer /\ pc' = [pc EXCEPT ![r] = "interactive"]
    BY <1>7 DEF RefreshAnswerLost
  <2>2. ASSUME NEW q \in Requests PROVE HoldsContext(q)' /\ RefusedIsOlder(q)'
    BY <1>1, <1>4, <2>1 DEF HoldsContext, RefusedIsOlder, LoginSteps
  <2>3. ContextIsSaved' /\ UsedTokenIsReplaced'
    BY <1>1, <1>2, <1>3, <1>4, <2>1 DEF ContextIsSaved, UsedTokenIsReplaced, LoginSteps
  <2> QED BY <2>2, <2>3
<1> QED BY <1>6, <1>7

LEMMA InteractiveKeepsSequential ==
    ASSUME RequestInv, TokensIssued, Sequential, NEW r \in Requests,
           RefreshRejected(r) \/ StartCallbackServer(r) \/ ReceiveCallback(r)
           \/ FinishInteractiveLogin(r)
    PROVE  Sequential'
<1> USE TypesOf DEF Sequential, Goto, tokens, login, request
<1>1. /\ pc[r] \in {"refreshing", "interactive", "browser", "exchange"}
      /\ \A q \in Requests \ {r} : pc[q] \notin LoginSteps
  BY OnlyLogin DEF RefreshRejected, StartCallbackServer, ReceiveCallback, FinishInteractiveLogin, LoginSteps
<1>2. heap[ctx] = store
  BY <1>1 DEF ContextIsSaved, LoginSteps
<1>3. UNCHANGED <<heap, ctx, store, held, offered, header, sends, first, consumed>>
  BY DEF RefreshRejected, StartCallbackServer, ReceiveCallback, FinishInteractiveLogin, platform
<1>4. ASSUME UNCHANGED <<answer, issued>>,
             NEW l \in {"interactive", "browser", "exchange", "blocked", "responded"},
             pc' = [pc EXCEPT ![r] = l]
      PROVE  Sequential'
  <2>1. ASSUME NEW q \in Requests PROVE HoldsContext(q)' /\ RefusedIsOlder(q)'
    BY <1>1, <1>3, <1>4 DEF HoldsContext, RefusedIsOlder, LoginSteps
  <2>2. ContextIsSaved' /\ UsedTokenIsReplaced'
    BY <1>1, <1>2, <1>3, <1>4 DEF ContextIsSaved, UsedTokenIsReplaced, LoginSteps
  <2> QED BY <2>1, <2>2
<1>5. ASSUME issued' = issued + 1, answer' = [answer EXCEPT ![r] = issued'],
             pc' = [pc EXCEPT ![r] = "token"]
      PROVE  Sequential'
  <2>1. issued' \notin consumed' /\ first[r] < issued'
    BY <1>3, <1>5 DEF TokensIssued
  <2>2. ASSUME NEW q \in Requests PROVE HoldsContext(q)' /\ RefusedIsOlder(q)'
    BY <1>1, <1>3, <1>5, <2>1 DEF HoldsContext, RefusedIsOlder, LoginSteps
  <2>3. ContextIsSaved' /\ UsedTokenIsReplaced'
    BY <1>1, <1>2, <1>3, <1>5 DEF ContextIsSaved, UsedTokenIsReplaced, LoginSteps
  <2> QED BY <2>2, <2>3
<1>6. CASE RefreshRejected(r) \/ StartCallbackServer(r) \/ ReceiveCallback(r)
  BY <1>4, <1>6 DEF RefreshRejected, StartCallbackServer, ReceiveCallback, platform
<1>7. CASE FinishInteractiveLogin(r)
  BY <1>4, <1>5, <1>7 DEF FinishInteractiveLogin
<1> QED BY <1>6, <1>7

\* The token that is set is the newest there is.
LEMMA SetTokenKeepsSequential ==
    ASSUME RequestInv, TokensIssued, Sequential, NEW r \in Requests, SetToken(r)
    PROVE  Sequential'
<1> USE TypesOf DEF Sequential, SetToken, Goto, login, request, platform
<1>1. pc[r] = "token" /\ \A q \in Requests \ {r} : pc[q] \notin LoginSteps
  BY OnlyLogin DEF LoginSteps
<1>2. answer[r] = issued /\ first[r] < answer[r] /\ answer[r] \notin consumed
  BY <1>1 DEF HoldsContext, RefusedIsOlder
<1>3. heap'[ctx].token = answer[r]
  BY DEF Session
<1>4. heap[ctx].token <= answer[r]
  BY <1>2 DEF TokensIssued
<1>5. ASSUME NEW q \in Requests PROVE HoldsContext(q)'
  BY <1>1, <1>2 DEF HoldsContext, LoginSteps
<1>6. ASSUME NEW q \in Requests PROVE RefusedIsOlder(q)'
  <2>1. CASE q = r
    BY <1>2, <1>3, <2>1 DEF RefusedIsOlder
  <2>2. CASE q # r
    BY <1>1, <1>3, <1>4, <2>2 DEF RefusedIsOlder, LoginSteps
  <2> QED BY <2>1, <2>2
<1>7. ContextIsSaved' /\ UsedTokenIsReplaced'
  BY <1>1 DEF ContextIsSaved, UsedTokenIsReplaced
<1> QED BY <1>5, <1>6, <1>7

LEMMA SetRefreshTokenKeepsSequential ==
    ASSUME RequestInv, Sequential, NEW r \in Requests, SetRefreshToken(r)
    PROVE  Sequential'
<1> USE TypesOf DEF Sequential, SetRefreshToken, Goto, login, request, platform
<1>1. pc[r] = "refreshtoken" /\ \A q \in Requests \ {r} : pc[q] \notin LoginSteps
  BY OnlyLogin DEF LoginSteps
<1>2. heap'[ctx].refresh = answer[r] /\ heap'[ctx].token = heap[ctx].token
  BY DEF Session
<1>3. ASSUME NEW q \in Requests PROVE HoldsContext(q)'
  BY <1>1, <1>2 DEF HoldsContext, LoginSteps
<1>4. ASSUME NEW q \in Requests PROVE RefusedIsOlder(q)'
  BY <1>1, <1>2 DEF RefusedIsOlder, LoginSteps
<1>5. ContextIsSaved' /\ UsedTokenIsReplaced'
  BY <1>1 DEF ContextIsSaved, UsedTokenIsReplaced
<1> QED BY <1>3, <1>4, <1>5

\* What the login saves through its own pointer is what it set through the shared one.
LEMMA SaveHeldKeepsSequential ==
    ASSUME RequestInv, Sequential, NEW r \in Requests, SaveHeld(r)
    PROVE  Sequential'
<1> USE TypesOf DEF Sequential, SaveHeld, Goto, login, request, platform
<1>1. pc[r] = "save" /\ held[r] = ctx /\ \A q \in Requests \ {r} : pc[q] \notin LoginSteps
  BY OnlyLogin DEF LoginSteps
<1>2. store' = heap[ctx]
  BY <1>1
<1>3. store'.refresh \notin consumed
  BY <1>1, <1>2 DEF HoldsContext
<1>4. ASSUME NEW q \in Requests PROVE HoldsContext(q)' /\ RefusedIsOlder(q)'
  BY <1>1 DEF HoldsContext, RefusedIsOlder, LoginSteps
<1>5. ContextIsSaved' /\ UsedTokenIsReplaced'
  BY <1>2, <1>3 DEF ContextIsSaved, UsedTokenIsReplaced
<1> QED BY <1>4, <1>5

LEMMA ReloadKeepsSequential ==
    ASSUME RequestInv, Sequential, NEW r \in Requests, Reload(r)
    PROVE  Sequential'
<1> USE TypesOf DEF Sequential, Reload, Goto, login, request, platform
<1>1. pc[r] = "reload" /\ \A q \in Requests \ {r} : pc[q] \notin LoginSteps
  BY OnlyLogin DEF LoginSteps
<1>2. heap[ctx] = store
  BY <1>1 DEF ContextIsSaved, LoginSteps
<1>3. heap'[r] = store /\ heap'[ctx] = store
  BY <1>2 DEF Contexts
<1>4. ASSUME NEW q \in Requests PROVE HoldsContext(q)' /\ RefusedIsOlder(q)'
  BY <1>1, <1>2, <1>3 DEF HoldsContext, RefusedIsOlder, LoginSteps
<1>5. ContextIsSaved' /\ UsedTokenIsReplaced'
  BY <1>1, <1>3 DEF ContextIsSaved, UsedTokenIsReplaced, LoginSteps
<1> QED BY <1>4, <1>5

LEMMA AssignContextKeepsSequential ==
    ASSUME RequestInv, Sequential, NEW r \in Requests, AssignContext(r)
    PROVE  Sequential'
<1> USE TypesOf DEF Sequential, AssignContext, Goto, login, request, platform
<1>1. pc[r] = "assign" /\ \A q \in Requests \ {r} : pc[q] \notin LoginSteps
  BY OnlyLogin DEF LoginSteps
<1>2. heap[ctx] = store /\ heap[r] = store
  BY <1>1 DEF ContextIsSaved, HoldsContext, LoginSteps
<1>3. heap'[ctx'] = store
  BY <1>2
<1>4. ASSUME NEW q \in Requests PROVE HoldsContext(q)' /\ RefusedIsOlder(q)'
  BY <1>1, <1>2, <1>3 DEF HoldsContext, RefusedIsOlder, LoginSteps
<1>5. ContextIsSaved' /\ UsedTokenIsReplaced'
  BY <1>1, <1>3 DEF ContextIsSaved, UsedTokenIsReplaced, LoginSteps
<1> QED BY <1>4, <1>5

\* Once two logins have overlapped this is history.
LEMMA OverlapIsHistory == RequestInv /\ [Next]_proxyVars /\ ~overlapped' => ~overlapped
<1> SUFFICES ASSUME [Next]_proxyVars, overlapped PROVE overlapped'
  BY DEF RequestInv, TransportTypeOK
<1>1. ASSUME NEW r \in Requests, Accept(r) \/ Serve(r) PROVE overlapped'
  BY <1>1 DEF Accept, Serve, RoundTrip, Retry, Send, PlatformAnswers, Respond, Login, LoginOn403,
              PostRefreshToken, RefreshAccepted, RefreshAnswerLost, RefreshRejected,
              StartCallbackServer, ReceiveCallback, FinishInteractiveLogin, SetToken, SetRefreshToken, SaveHeld,
              Reload, AssignContext
<1>2. CASE UNCHANGED proxyVars
  BY <1>2 DEF proxyVars
<1> QED BY <1>1, <1>2 DEF Next

LEMMA ProxyInvariant == Spec => []ProxyInv
<1>1. ProxyInv /\ [Next]_proxyVars => ProxyInv'
  <2> SUFFICES ASSUME ProxyInv, [Next]_proxyVars, ~overlapped' PROVE Sequential'
    BY NextRequestInv, NextTokensIssued DEF ProxyInv
  <2>0. RequestInv /\ TokensIssued /\ Sequential
    BY OverlapIsHistory DEF ProxyInv
  <2>1. ASSUME NEW r \in Requests, Accept(r) \/ PlatformAnswers(r) \/ Respond(r) PROVE Sequential'
    BY <2>0, <2>1, QuietKeepsSequential
  <2>2. ASSUME NEW r \in Requests, RoundTrip(r) \/ Retry(r) PROVE Sequential'
    BY <2>0, <2>2, SendKeepsSequential DEF RoundTrip, Retry
  <2>3. ASSUME NEW r \in Requests, Login(r) PROVE Sequential'
    BY <2>0, <2>3, LoginOn403KeepsSequential, PostRefreshTokenKeepsSequential,
       RefreshKeepsSequential, InteractiveKeepsSequential, SetTokenKeepsSequential,
       SetRefreshTokenKeepsSequential, SaveHeldKeepsSequential, ReloadKeepsSequential,
       AssignContextKeepsSequential
       DEF Login
  <2>4. CASE UNCHANGED proxyVars
    BY <2>0, <2>4 DEF proxyVars, Sequential, HoldsContext, RefusedIsOlder, ContextIsSaved,
                      UsedTokenIsReplaced
  <2> QED BY <2>1, <2>2, <2>3, <2>4 DEF Next, Serve
<1> QED BY InitProxyInv, <1>1, PTL DEF Spec

\* Type correctness: the handlers of the proxy keep what they share and what is theirs in its
\* domain, whatever their interleaving; no request is sent more than twice (RoundTrip).
THEOREM TransportTypesCorrect == Spec => []TransportTypeOK
<1>1. ProxyInv => TransportTypeOK
  BY DEF ProxyInv, RequestInv
<1> QED BY <1>1, ProxyInvariant, PTL

\* Sharing one call context among the handlers, with no lock, is safe as long as no two of them
\* log in at once: a retry carries a newer token than the one refused, and the profile is left
\* with a refresh token that was not used yet, or whose answer was lost.
THEOREM LoginsOneByOneAreSafe == Spec => []SequentialLoginsAreSafe
<1>1. ProxyInv => SequentialLoginsAreSafe
  BY DEF ProxyInv, Sequential, RefusedIsOlder, UsedTokenIsReplaced, SequentialLoginsAreSafe,
         RetryCarriesNewToken, SavedSessionUsable, LoginSteps
<1> QED BY <1>1, ProxyInvariant, PTL

-----------------------------------------------------------------------------
(* The contract of an API call                                             *)

StageMap == [r \in Requests |-> Stage(r)]

\* The stage of a request follows from where it is and what it was answered.
StageAt(l, v) ==
    IF l = "idle" THEN "idle"
    ELSE IF l # "responded" THEN "working"
    ELSE IF v = "success" THEN "succeeded" ELSE "failed"

LEMMA StageOfLocation == \A r : Stage(r) = StageAt(pc[r], reply[r])
BY DEF Stage, StageAt

\* What a step that takes r to location l, with answer v, does to the stages.
LEMMA StageMoves ==
    ASSUME NEW r \in Requests, NEW l, NEW v,
           pc \in [Requests -> Locations], pc' = [pc EXCEPT ![r] = l],
           reply' = [reply EXCEPT ![r] = v],
           reply \in [Requests -> {"none", "pending", "forbidden", "success", "failure"}]
    PROVE  StageMap' = [StageMap EXCEPT ![r] = StageAt(l, v)]
<1>1. StageMap = [q \in Requests |-> StageAt(pc[q], reply[q])]
  BY StageOfLocation DEF StageMap
<1>2. StageMap' = [q \in Requests |-> StageAt(pc'[q], reply'[q])]
  BY DEF StageMap, Stage, StageAt
<1> QED BY <1>1, <1>2

LEMMA NextContract == RequestInv /\ [Next]_proxyVars => [Contract!Next]_(Contract!vars)
<1> SUFFICES ASSUME RequestInv, [Next]_proxyVars PROVE [Contract!Next]_(Contract!vars)
  OBVIOUS
<1>0. /\ pc \in [Requests -> Locations] /\ sends \in [Requests -> 0..2]
      /\ reply \in [Requests -> {"none", "pending", "forbidden", "success", "failure"}]
  BY DEF RequestInv, TransportTypeOK
<1>1. ASSUME NEW r \in Requests PROVE StageMap[r] = StageAt(pc[r], reply[r])
  BY StageOfLocation DEF StageMap
\* A step of r within "working" that leaves its answer alone does not show.
<1>2. ASSUME NEW r \in Requests, NEW l, pc' = [pc EXCEPT ![r] = l],
             pc[r] \notin {"idle", "responded"}, l \notin {"idle", "responded"},
             UNCHANGED <<sends, reply>>
      PROVE  UNCHANGED Contract!vars
  <2>1. reply' = [reply EXCEPT ![r] = reply[r]]
    BY <1>0, <1>2
  <2>2. StageMap' = [StageMap EXCEPT ![r] = StageAt(l, reply[r])]
    BY <1>0, <1>2, <2>1, StageMoves
  <2>3. StageMap[r] = StageAt(l, reply[r])
    BY <1>1, <1>2 DEF StageAt
  <2>4. StageMap' = StageMap
    BY <2>2, <2>3 DEF StageMap
  <2> QED BY <1>2, <2>4 DEF Contract!vars, StageMap
<1>3. ASSUME NEW r \in Requests, Accept(r) PROVE Contract!Begin(r)
  <2>1. pc' = [pc EXCEPT ![r] = "accepted"] /\ reply' = [reply EXCEPT ![r] = reply[r]]
    BY <1>0, <1>3 DEF Accept, Goto, request
  <2>2. StageMap' = [StageMap EXCEPT ![r] = StageAt("accepted", reply[r])]
    BY <1>0, <2>1, StageMoves
  <2>3. StageMap[r] = "idle" /\ StageAt("accepted", reply[r]) = "working"
    BY <1>1, <1>3 DEF StageAt, Accept
  <2>4. UNCHANGED <<sends, reply>>
    BY <1>3 DEF Accept, request
  <2> QED BY <2>2, <2>3, <2>4 DEF Contract!Begin, StageMap
<1>4. ASSUME NEW r \in Requests, Send(r), pc[r] \in {"accepted", "retry"} PROVE Contract!Send(r)
  <2>1. pc' = [pc EXCEPT ![r] = "wait"] /\ reply' = [reply EXCEPT ![r] = "pending"]
    BY <1>4 DEF Send, Goto
  <2>2. StageMap' = [StageMap EXCEPT ![r] = StageAt("wait", "pending")]
    BY <1>0, <2>1, StageMoves
  <2>3. StageMap[r] = "working" /\ StageAt("wait", "pending") = "working"
    BY <1>1, <1>4 DEF StageAt
  <2>4. StageMap' = StageMap
    BY <2>2, <2>3 DEF StageMap
  <2>5. sends[r] = 0 \/ (sends[r] = 1 /\ reply[r] = "forbidden")
    BY <1>4 DEF RequestInv, SendsOf
  <2>6. sends' = [sends EXCEPT ![r] = @ + 1]
    BY <1>4 DEF Send
  <2> QED BY <2>1, <2>3, <2>4, <2>5, <2>6 DEF Contract!Send, StageMap
<1>5. ASSUME NEW r \in Requests, PlatformAnswers(r) PROVE Contract!Answer(r)
  <2>1. PICK v \in {"forbidden", "success", "failure"} : reply' = [reply EXCEPT ![r] = v]
    BY <1>5 DEF PlatformAnswers
  <2>2. StageMap' = [StageMap EXCEPT ![r] = StageAt("answered", v)]
    BY <1>0, <1>5, <2>1, StageMoves DEF PlatformAnswers, Goto
  <2>3. StageMap[r] = "working" /\ StageAt("answered", v) = "working"
    BY <1>1, <1>5 DEF StageAt, PlatformAnswers
  <2>4. StageMap' = StageMap
    BY <2>2, <2>3 DEF StageMap
  <2>5. reply[r] = "pending" /\ UNCHANGED sends
    BY <1>5 DEF PlatformAnswers, RequestInv, SendsOf
  <2> QED BY <2>1, <2>3, <2>4, <2>5 DEF Contract!Answer, StageMap
\* The answer goes back to the client: the end of the call.
<1>6. ASSUME NEW r \in Requests, pc[r] \notin {"idle", "responded"}, Goto(r, "responded"),
             UNCHANGED <<sends, reply>>
      PROVE  Contract!Succeed(r) \/ Contract!Fail(r)
  <2>1. pc' = [pc EXCEPT ![r] = "responded"] /\ reply' = [reply EXCEPT ![r] = reply[r]]
    BY <1>0, <1>6 DEF Goto
  <2>2. StageMap' = [StageMap EXCEPT ![r] = StageAt("responded", reply[r])]
    BY <1>0, <2>1, StageMoves
  <2>3. StageMap[r] = "working"
    BY <1>1, <1>6 DEF StageAt
  <2>4. CASE reply[r] = "success"
    BY <1>6, <2>2, <2>3, <2>4 DEF Contract!Succeed, StageMap, StageAt
  <2>5. CASE reply[r] # "success"
    BY <1>6, <2>2, <2>3, <2>5 DEF Contract!Fail, StageMap, StageAt
  <2> QED BY <2>4, <2>5
<1>7. ASSUME NEW r \in Requests, Login(r) PROVE [Contract!Next]_(Contract!vars)
  <2>1. /\ UNCHANGED <<sends, reply>>
        /\ pc[r] \notin {"idle", "responded"}
    BY <1>7 DEF Login, LoginOn403, PostRefreshToken, RefreshAccepted, RefreshAnswerLost,
                RefreshRejected, StartCallbackServer, ReceiveCallback, FinishInteractiveLogin, SetToken,
                SetRefreshToken, SaveHeld, Reload, AssignContext, request
  <2>2. PICK l \in (LoginSteps \cup {"retry", "responded"}) : Goto(r, l)
    BY <1>7 DEF Login, LoginOn403, PostRefreshToken, RefreshAccepted, RefreshAnswerLost,
                RefreshRejected, StartCallbackServer, ReceiveCallback, FinishInteractiveLogin, SetToken,
                SetRefreshToken, SaveHeld, Reload, AssignContext, LoginSteps
  <2>3. CASE l = "responded"
    BY <1>6, <2>1, <2>2, <2>3 DEF Contract!Next
  <2>4. CASE l # "responded"
    BY <1>2, <2>1, <2>2, <2>4 DEF Goto, LoginSteps
  <2> QED BY <2>3, <2>4
<1>8. ASSUME NEW r \in Requests, Respond(r) PROVE Contract!Succeed(r) \/ Contract!Fail(r)
  BY <1>6, <1>8 DEF Respond, request
<1>9. CASE UNCHANGED proxyVars
  BY <1>9 DEF proxyVars, Contract!vars, Stage
<1> QED
  BY <1>3, <1>4, <1>5, <1>7, <1>8, <1>9
  DEF Next, Serve, RoundTrip, Retry, Contract!Next

\* The proxy keeps the contract of an API call for every request it forwards, and even when
\* logins overlap: RoundTrip sends it at most twice, the second time only after a 403 and a
\* login, and answers the client with what the last send was answered.
THEOREM ForwardedRequestsKeepTheContract == Spec => ImplementsCallContract
<1>1. Init => Contract!Init
  BY StageOfLocation DEF Init, Contract!Init, StageAt
<1>2. Spec => []RequestInv
  BY InitRequestInv, NextRequestInv, PTL DEF Spec
<1> QED
  BY <1>1, <1>2, NextContract, PTL DEF Spec, ImplementsCallContract, Contract!Spec
=============================================================================
