--------------------------- MODULE ApiCall_proofs ---------------------------
(***************************************************************************)
(* Proofs about ApiCall, for any number of concurrent calls and any set of *)
(* authentication methods.                                                 *)
(***************************************************************************)
EXTENDS ApiCall, TLAPS

-----------------------------------------------------------------------------
(* The inductive invariant                                                 *)

\* No third send: what a call may still do bounds what it has sent.
SendsBounded ==
    \A c \in Calls :
        /\ pc[c] = "idle" => sends[c] = 0
        /\ pc[c] \in {"prepare"} \cup LoginSteps => sends[c] \in {0, 1}

TypeInv == TypeOK /\ SendsBounded

\* Every token known to fsoc or consumed by the platform has been issued.
TokensIssued ==
    /\ store.token <= issued /\ store.refresh <= issued
    /\ \A c \in Calls :
           /\ cfg[c].token <= issued /\ cfg[c].refresh <= issued
           /\ first[c] <= issued
    /\ \A t \in consumed : t <= issued

\* The steps of a login belong to the methods that have them.
StepsOfMethod ==
    /\ \A c \in Calls :
           /\ pc[c] \in {"tenant", "tokens", "interactive", "browser", "exchange", "blocked"} =>
                  AuthMethod = "oauth"
           /\ pc[c] = "principal" => AuthMethod # "oauth"
    /\ AuthMethod # "oauth" => consumed = {}

\* A call about to save is the only one to know its access token: neither the profile nor
\* another call has it, and no request was first sent with it.
AboutToSave(c) ==
    /\ cfg[c].token # store.token
    /\ \A d \in Calls : first[d] # cfg[c].token
    /\ \A d \in Calls \ {c} : cfg[d].token # cfg[c].token

UnsharedToken == \A c \in Calls : Issuing /\ pc[c] = "save" => AboutToSave(c)

\* From the save to the second send, what the call will use is not what it used first.
NewTokenOnTheWay ==
    \A c \in Calls : Issuing =>
        /\ pc[c] = "reload" /\ sends[c] = 1 => store.token # first[c]
        /\ pc[c] = "prepare" /\ sends[c] = 1 => cfg[c].token # first[c]
        /\ pc[c] = "wait" /\ sends[c] = 2 => cfg[c].token # first[c]

\* The same for the refresh token, which moreover is not yet consumed.
UnsharedRefreshToken ==
    \A c \in Calls : AuthMethod = "oauth" /\ pc[c] = "save" =>
        /\ cfg[c].refresh \notin consumed
        /\ \A d \in Calls \ {c} : cfg[d].refresh # cfg[c].refresh
        /\ cfg[c].refresh # store.refresh

-----------------------------------------------------------------------------
(* Type correctness                                                        *)

\* What the logins make of a profile is one, with these tokens.
LEMMA ProfileLogin ==
    ASSUME NEW p \in Profile, NEW t \in Nat
    PROVE  /\ [p EXCEPT !.tenant = TRUE] \in Profile
           /\ [p EXCEPT !.token = t, !.refresh = t] \in Profile
           /\ [p EXCEPT !.token = t, !.tenant = TRUE] \in Profile
  BY DEF Profile

LEMMA ProfileTokens ==
    ASSUME NEW p \in Profile, NEW t \in Nat
    PROVE  /\ p.token \in Nat /\ p.refresh \in Nat
           /\ [p EXCEPT !.tenant = TRUE].token = p.token
           /\ [p EXCEPT !.tenant = TRUE].refresh = p.refresh
           /\ [p EXCEPT !.token = t, !.refresh = t].token = t
           /\ [p EXCEPT !.token = t, !.refresh = t].refresh = t
           /\ [p EXCEPT !.token = t, !.tenant = TRUE].token = t
           /\ [p EXCEPT !.token = t, !.tenant = TRUE].refresh = p.refresh
  BY DEF Profile

LEMMA InitTypeInv == Init => TypeInv
  BY HoldersAssumption DEF Init, TypeInv, TypeOK, SendsBounded, Profile, Locations, LoginSteps,
     Returned, Holders, NoToken

\* One step per action; all but Kill and Done move the one call c.
LEMMA NextTypeInv == TypeInv /\ [Next]_vars => TypeInv'
<1> SUFFICES ASSUME TypeInv, [Next]_vars PROVE TypeInv'
  OBVIOUS
<1> USE DEF TypeInv, TypeOK, SendsBounded, Locations, LoginSteps, Returned, Holders,
            Goto, platform
<1>1. ASSUME NEW c \in Calls, NewCallContext(c) PROVE TypeInv'
  BY <1>1 DEF NewCallContext
<1>2. ASSUME NEW c \in Calls, CheckConfigForAuth(c) PROVE TypeInv'
  BY <1>2 DEF CheckConfigForAuth, OAuthStep
<1>3. ASSUME NEW c \in Calls, ResolveTenant(c) PROVE TypeInv'
  <2>0. issued' \in Nat /\ cfg[c] \in Profile
    BY <1>3 DEF ResolveTenant
  <2>1. cfg' \in [Calls -> Profile]
    <3>1. [cfg[c] EXCEPT !.tenant = TRUE] \in Profile
      BY <2>0, ProfileLogin
    <3>2. cfg' = cfg \/ cfg' = [cfg EXCEPT ![c] = [cfg[c] EXCEPT !.tenant = TRUE]]
      BY <1>3 DEF ResolveTenant
    <3>3. cfg \in [Calls -> Profile]
      OBVIOUS
    <3> HIDE DEF TypeInv, TypeOK
    <3> QED
      BY <3>1, <3>2, <3>3
  <2>2. pc' \in [Calls -> Locations]
    BY <1>3 DEF ResolveTenant, OAuthStep
  <2>3. SendsBounded'
    BY <1>3 DEF ResolveTenant, OAuthStep
  <2>4. issued' \in Nat /\ consumed' \subseteq Nat /\ spent' \in [Calls -> Nat]
    BY <1>3 DEF ResolveTenant, OAuthStep
  <2> QED
    BY <1>3, <2>1, <2>2, <2>3, <2>4 DEF ResolveTenant, OAuthStep
<1>4. ASSUME NEW c \in Calls, OAuthRefreshToken(c) PROVE TypeInv'
  <2>0. issued' \in Nat /\ cfg[c] \in Profile
    BY <1>4 DEF OAuthRefreshToken, Issue
  <2>1. cfg' \in [Calls -> Profile]
    <3>1. [cfg[c] EXCEPT !.token = issued', !.refresh = issued'] \in Profile
      BY <2>0, ProfileLogin
    <3> QED
      BY <1>4, <3>1 DEF OAuthRefreshToken, Issue
  <2>2. pc' \in [Calls -> Locations]
    BY <1>4 DEF OAuthRefreshToken, Issue
  <2>3. SendsBounded'
    BY <1>4 DEF OAuthRefreshToken, Issue
  <2>4. cfg[c].refresh \in Nat
    BY <2>0 DEF Profile
  <2>5. consumed' \subseteq Nat /\ spent' \in [Calls -> Nat]
    BY <1>4, <2>4 DEF OAuthRefreshToken
  <2> QED
    BY <1>4, <2>0, <2>1, <2>2, <2>3, <2>5 DEF OAuthRefreshToken
<1>5. ASSUME NEW c \in Calls, RefreshAnswerLost(c) PROVE TypeInv'
  <2>1. pc' \in [Calls -> Locations]
    BY <1>5 DEF RefreshAnswerLost
  <2>2. SendsBounded'
    BY <1>5 DEF RefreshAnswerLost
  <2>3. cfg[c] \in Profile /\ cfg[c].refresh \in Nat
    BY DEF Profile
  <2>4. issued' \in Nat
    BY <1>5 DEF RefreshAnswerLost, Issue
  <2>5. consumed' \subseteq Nat
    BY <1>5, <2>3 DEF RefreshAnswerLost
  <2>6. spent' \in [Calls -> Nat]
    BY <1>5, <2>3 DEF RefreshAnswerLost
  <2> QED
    BY <1>5, <2>1, <2>2, <2>4, <2>5, <2>6 DEF RefreshAnswerLost
<1>6. ASSUME NEW c \in Calls, RefreshRejected(c) PROVE TypeInv'
  BY <1>6 DEF RefreshRejected
<1>7. ASSUME NEW c \in Calls, StartCallbackServer(c) \/ ReceiveCallback(c) PROVE TypeInv'
  BY <1>7 DEF StartCallbackServer, ReceiveCallback
<1>8. ASSUME NEW c \in Calls, FinishInteractiveLogin(c) PROVE TypeInv'
  <2>0. issued' \in Nat /\ cfg[c] \in Profile
    BY <1>8 DEF FinishInteractiveLogin, Issue
  <2>1. cfg' \in [Calls -> Profile]
    <3>1. [cfg[c] EXCEPT !.token = issued', !.refresh = issued'] \in Profile
      BY <2>0, ProfileLogin
    <3> QED
      BY <1>8, <3>1 DEF FinishInteractiveLogin, Issue
  <2>2. pc' \in [Calls -> Locations]
    BY <1>8 DEF FinishInteractiveLogin, Issue
  <2>3. SendsBounded'
    BY <1>8 DEF FinishInteractiveLogin, Issue
  <2>4. issued' \in Nat /\ consumed' \subseteq Nat /\ spent' \in [Calls -> Nat]
    BY <1>8 DEF FinishInteractiveLogin, Issue
  <2> QED
    BY <1>8, <2>1, <2>2, <2>3, <2>4 DEF FinishInteractiveLogin, Issue
<1>9. ASSUME NEW c \in Calls, PrincipalLogin(c) PROVE TypeInv'
  <2>0. issued' \in Nat /\ cfg[c] \in Profile
    BY <1>9 DEF PrincipalLogin, Issue
  <2>1. cfg' \in [Calls -> Profile]
    <3>1. [cfg[c] EXCEPT !.token = issued', !.tenant = TRUE] \in Profile
      BY <2>0, ProfileLogin
    <3>2. cfg' = cfg \/ cfg' = [cfg EXCEPT ![c] = [cfg[c] EXCEPT !.token = issued', !.tenant = TRUE]]
      BY <1>9 DEF PrincipalLogin
    <3>3. cfg \in [Calls -> Profile]
      OBVIOUS
    <3> HIDE DEF TypeInv, TypeOK
    <3> QED
      BY <3>1, <3>2, <3>3
  <2>2. pc' \in [Calls -> Locations]
    BY <1>9 DEF PrincipalLogin, Issue
  <2>3. SendsBounded'
    BY <1>9 DEF PrincipalLogin, Issue
  <2>4. issued' \in Nat /\ consumed' \subseteq Nat /\ spent' \in [Calls -> Nat]
    BY <1>9 DEF PrincipalLogin, Issue
  <2> QED
    BY <1>9, <2>1, <2>2, <2>3, <2>4 DEF PrincipalLogin, Issue
<1>10. ASSUME NEW c \in Calls, ReplaceCurrentContext(c) PROVE TypeInv'
  BY <1>10 DEF ReplaceCurrentContext
<1>11. ASSUME NEW c \in Calls, ReloadContext(c) PROVE TypeInv'
  BY <1>11 DEF ReloadContext
<1>12. ASSUME NEW c \in Calls, PrepareHTTPRequest(c) PROVE TypeInv'
  <2>1. pc' \in [Calls -> Locations]
    BY <1>12 DEF PrepareHTTPRequest
  <2>2. SendsBounded'
    BY <1>12 DEF PrepareHTTPRequest
  <2>3. sends' \in [Calls -> 0..2]
    BY <1>12 DEF PrepareHTTPRequest
  <2>4. cfg[c].token \in Nat
    BY DEF Profile
  <2>5. first' \in [Calls -> Nat]
    BY <1>12, <2>4 DEF PrepareHTTPRequest
  <2>6. reply' \in [Calls -> {"none", "pending", "forbidden", "success", "failure"}]
    BY <1>12 DEF PrepareHTTPRequest
  <2> QED
    BY <1>12, <2>1, <2>2, <2>3, <2>5, <2>6 DEF PrepareHTTPRequest
<1>13. ASSUME NEW c \in Calls, PlatformAnswers(c) PROVE TypeInv'
  BY <1>13 DEF PlatformAnswers, Replies
<1>14. ASSUME NEW c \in Calls, RetryAfterLogin(c) PROVE TypeInv'
  BY <1>14 DEF RetryAfterLogin
<1>15. ASSUME NEW c \in Calls, ReturnSuccess(c) PROVE TypeInv'
  BY <1>15 DEF ReturnSuccess
<1>16. ASSUME NEW c \in Calls, ReturnError(c) PROVE TypeInv'
  BY <1>16 DEF ReturnError
<1>17. ASSUME Kill PROVE TypeInv'
  BY <1>17 DEF Kill
<1>18. ASSUME UNCHANGED vars PROVE TypeInv'
  BY <1>18 DEF vars
<1> QED
  BY <1>1, <1>2, <1>3, <1>4, <1>5, <1>6, <1>7, <1>8, <1>9, <1>10, <1>11, <1>12, <1>13, <1>14,
     <1>15, <1>16, <1>17, <1>18 DEF Next, Login, HttpRequest, Done

\* Every variable stays in its domain; in particular no call of httpRequest sends its
\* request more than twice.
THEOREM TypeCorrect == Spec => []TypeOK
<1>1. Spec => []TypeInv
  BY InitTypeInv, NextTypeInv, PTL DEF Spec
<1>2. TypeInv => TypeOK
  BY DEF TypeInv
<1> QED
  BY <1>1, <1>2, PTL

-----------------------------------------------------------------------------
(* Tokens are issued before they are known                                 *)

\* The actions that issue a token give it to the copy of the call that asked.
LEMMA IssuedTo ==
    ASSUME TypeInv, NEW c \in Calls,
           OAuthRefreshToken(c) \/ FinishInteractiveLogin(c) \/ PrincipalLogin(c),
           cfg' # cfg
    PROVE  /\ issued' = issued + 1
           /\ cfg'[c].token = issued'
           /\ cfg'[c].refresh = IF PrincipalLogin(c) THEN cfg[c].refresh ELSE issued'
           /\ \A d \in Calls \ {c} : cfg'[d] = cfg[d]
<1> DEFINE both == [cfg[c] EXCEPT !.token = issued', !.refresh = issued']
           one == [cfg[c] EXCEPT !.token = issued', !.tenant = TRUE]
<1>1. cfg \in [Calls -> Profile] /\ cfg[c] \in Profile /\ issued + 1 \in Nat
  BY DEF TypeInv, TypeOK
<1>2. issued' = issued + 1
  BY DEF OAuthRefreshToken, FinishInteractiveLogin, PrincipalLogin, Issue
<1>3. /\ both.token = issued' /\ both.refresh = issued'
      /\ one.token = issued' /\ one.refresh = cfg[c].refresh
  BY <1>1, <1>2, ProfileTokens
<1>4. CASE OAuthRefreshToken(c) \/ FinishInteractiveLogin(c)
  <2>1. cfg' = [cfg EXCEPT ![c] = both] /\ ~PrincipalLogin(c)
    BY <1>4 DEF OAuthRefreshToken, FinishInteractiveLogin, PrincipalLogin
  <2> HIDE DEF both, one
  <2> QED
    BY <1>1, <1>2, <1>3, <2>1
<1>5. CASE PrincipalLogin(c)
  <2>1. cfg' = [cfg EXCEPT ![c] = one]
    BY <1>5 DEF PrincipalLogin
  <2> HIDE DEF both, one
  <2> QED
    BY <1>1, <1>2, <1>3, <1>5, <2>1
<1> QED
  BY <1>4, <1>5

\* The steps that change none of the tokens known.
Quiet ==
    \/ \E c \in Calls :
           \/ CheckConfigForAuth(c) \/ RefreshRejected(c) \/ StartCallbackServer(c)
           \/ ReceiveCallback(c)
           \/ PlatformAnswers(c) \/ RetryAfterLogin(c) \/ ReturnSuccess(c) \/ ReturnError(c)
    \/ Kill
    \/ UNCHANGED vars

LEMMA QuietKeepsTokens ==
    Quiet => UNCHANGED <<method, store, cfg, first, sends, spent, consumed, issued>>
  BY DEF Quiet, CheckConfigForAuth, RefreshRejected, StartCallbackServer, ReceiveCallback, PlatformAnswers,
         RetryAfterLogin, ReturnSuccess, ReturnError, Kill, vars, platform

LEMMA NextTokensIssued == TypeInv /\ TokensIssued /\ [Next]_vars => TokensIssued'
<1> SUFFICES ASSUME TypeInv, TokensIssued, [Next]_vars PROVE TokensIssued'
  OBVIOUS
<1>0. /\ store.token \in Nat /\ store.refresh \in Nat /\ issued \in Nat /\ consumed \subseteq Nat
      /\ cfg \in [Calls -> Profile] /\ first \in [Calls -> Nat]
      /\ \A c \in Calls : cfg[c] \in Profile /\ cfg[c].token \in Nat /\ cfg[c].refresh \in Nat
  BY ProfileTokens DEF TypeInv, TypeOK
<1>1. CASE Quiet
  BY <1>1, QuietKeepsTokens DEF TokensIssued
<1>2. ASSUME NEW c \in Calls, NewCallContext(c) \/ ReloadContext(c) PROVE TokensIssued'
  BY <1>0, <1>2 DEF TokensIssued, NewCallContext, ReloadContext, platform
<1>3. ASSUME NEW c \in Calls, ReplaceCurrentContext(c) PROVE TokensIssued'
  BY <1>0, <1>3 DEF TokensIssued, ReplaceCurrentContext, platform
<1>4. ASSUME NEW c \in Calls, PrepareHTTPRequest(c) PROVE TokensIssued'
  BY <1>0, <1>4 DEF TokensIssued, PrepareHTTPRequest, platform
<1>5. ASSUME NEW c \in Calls, ResolveTenant(c) PROVE TokensIssued'
  <2> DEFINE p == [cfg[c] EXCEPT !.tenant = TRUE]
  <2>1. p.token = cfg[c].token /\ p.refresh = cfg[c].refresh
    BY <1>0, ProfileTokens
  <2>2. cfg' = cfg \/ cfg' = [cfg EXCEPT ![c] = p]
    BY <1>5 DEF ResolveTenant
  <2>3. UNCHANGED <<store, first, issued, consumed>>
    BY <1>5 DEF ResolveTenant, platform
  <2> HIDE DEF p
  <2> QED
    BY <1>0, <2>1, <2>2, <2>3 DEF TokensIssued
<1>6. ASSUME NEW c \in Calls, RefreshAnswerLost(c) PROVE TokensIssued'
  BY <1>0, <1>6 DEF TokensIssued, RefreshAnswerLost, Issue
<1>7. ASSUME NEW c \in Calls,
             OAuthRefreshToken(c) \/ FinishInteractiveLogin(c) \/ PrincipalLogin(c)
      PROVE TokensIssued'
  <2>1. /\ UNCHANGED <<store, first>>
        /\ consumed' \subseteq consumed \cup {cfg[c].refresh}
        /\ issued' \in {issued, issued + 1}
    BY <1>7 DEF OAuthRefreshToken, FinishInteractiveLogin, PrincipalLogin, Issue
  <2>2. CASE cfg' = cfg
    BY <1>0, <2>1, <2>2 DEF TokensIssued
  <2>3. CASE cfg' # cfg
    <3>1. /\ issued' = issued + 1 /\ cfg'[c].token = issued'
          /\ cfg'[c].refresh \in {issued', cfg[c].refresh}
          /\ \A d \in Calls \ {c} : cfg'[d] = cfg[d]
      BY <1>7, <2>3, IssuedTo
    <3> QED
      BY <1>0, <2>1, <3>1 DEF TokensIssued
  <2> QED
    BY <2>2, <2>3
<1> QED
  BY <1>1, <1>2, <1>3, <1>4, <1>5, <1>6, <1>7 DEF Next, Login, HttpRequest, Done, Quiet

-----------------------------------------------------------------------------
(* The steps of a login belong to its method                               *)

LEMMA NextStepsOfMethod == TypeInv /\ StepsOfMethod /\ [Next]_vars => StepsOfMethod'
<1> SUFFICES ASSUME TypeInv, StepsOfMethod, [Next]_vars PROVE StepsOfMethod'
  OBVIOUS
<1>0. pc \in [Calls -> Locations]
  BY DEF TypeInv, TypeOK
<1>1. AuthMethod' = AuthMethod
  BY Zenon DEF Next, Login, HttpRequest, Done, Kill, vars, AuthMethod, NewCallContext,
     CheckConfigForAuth, ResolveTenant, OAuthRefreshToken, RefreshAnswerLost, RefreshRejected,
     StartCallbackServer, ReceiveCallback, FinishInteractiveLogin, PrincipalLogin, ReplaceCurrentContext,
     ReloadContext, PrepareHTTPRequest, PlatformAnswers, RetryAfterLogin, ReturnSuccess,
     ReturnError
<1>2. ASSUME NEW c \in Calls, CheckConfigForAuth(c) PROVE StepsOfMethod'
  BY <1>0, <1>1, <1>2 DEF StepsOfMethod, CheckConfigForAuth, Goto, platform, OAuthStep, Issuing
<1>3. ASSUME NEW c \in Calls,
             ResolveTenant(c) \/ RefreshRejected(c) \/ StartCallbackServer(c) \/ ReceiveCallback(c)
      PROVE StepsOfMethod'
  BY <1>0, <1>1, <1>3 DEF StepsOfMethod, ResolveTenant, RefreshRejected, StartCallbackServer, ReceiveCallback,
     Goto, platform, OAuthStep
<1>4. ASSUME NEW c \in Calls, OAuthRefreshToken(c) \/ RefreshAnswerLost(c) PROVE StepsOfMethod'
  BY <1>0, <1>1, <1>4 DEF StepsOfMethod, OAuthRefreshToken, RefreshAnswerLost, Goto, Issue
<1>5. ASSUME NEW c \in Calls, FinishInteractiveLogin(c) \/ PrincipalLogin(c)
      PROVE StepsOfMethod'
  BY <1>0, <1>1, <1>5 DEF StepsOfMethod, FinishInteractiveLogin, PrincipalLogin, Goto
<1>6. ASSUME NEW c \in Calls, ReplaceCurrentContext(c) \/ ReloadContext(c) \/ NewCallContext(c)
      PROVE StepsOfMethod'
  BY <1>0, <1>1, <1>6 DEF StepsOfMethod, ReplaceCurrentContext, ReloadContext, NewCallContext,
     Goto, platform
<1>7. ASSUME NEW c \in Calls,
             PrepareHTTPRequest(c) \/ PlatformAnswers(c) \/ RetryAfterLogin(c)
             \/ ReturnSuccess(c) \/ ReturnError(c)
      PROVE StepsOfMethod'
  BY <1>0, <1>1, <1>7 DEF StepsOfMethod, PrepareHTTPRequest, PlatformAnswers, RetryAfterLogin,
     ReturnSuccess, ReturnError, Goto, platform
<1>8. CASE Kill
  BY <1>0, <1>1, <1>8 DEF StepsOfMethod, Kill, platform
<1>9. CASE UNCHANGED vars
  BY <1>1, <1>9 DEF StepsOfMethod, vars
<1> QED
  BY <1>2, <1>3, <1>4, <1>5, <1>6, <1>7, <1>8, <1>9 DEF Next, Login, HttpRequest, Done

-----------------------------------------------------------------------------
(* A retry carries a new token                                             *)

TokensOnTheWay == UnsharedToken /\ NewTokenOnTheWay

LEMMA NextTokensOnTheWay ==
    TypeInv /\ TokensIssued /\ StepsOfMethod /\ TokensOnTheWay /\ [Next]_vars => TokensOnTheWay'
<1> SUFFICES ASSUME TypeInv, TokensIssued, StepsOfMethod, TokensOnTheWay, [Next]_vars
             PROVE TokensOnTheWay'
  OBVIOUS
<1>0. /\ store.token \in Nat /\ issued \in Nat
      /\ pc \in [Calls -> Locations] /\ sends \in [Calls -> 0..2]
      /\ cfg \in [Calls -> Profile] /\ first \in [Calls -> Nat]
      /\ \A c \in Calls : cfg[c] \in Profile /\ cfg[c].token \in Nat
  BY ProfileTokens DEF TypeInv, TypeOK
<1>1. Issuing' = Issuing
  BY Zenon DEF Next, Login, HttpRequest, Done, Kill, vars, AuthMethod, Issuing, NewCallContext,
     CheckConfigForAuth, ResolveTenant, OAuthRefreshToken, RefreshAnswerLost, RefreshRejected,
     StartCallbackServer, ReceiveCallback, FinishInteractiveLogin, PrincipalLogin, ReplaceCurrentContext,
     ReloadContext, PrepareHTTPRequest, PlatformAnswers, RetryAfterLogin, ReturnSuccess,
     ReturnError
<1>a. SUFFICES ASSUME Issuing PROVE TokensOnTheWay'
  BY <1>1 DEF TokensOnTheWay, UnsharedToken, NewTokenOnTheWay
<1> USE DEF TokensOnTheWay, UnsharedToken, NewTokenOnTheWay, AboutToSave, Goto
\* These start no save, reload or send.
<1>2. CASE Quiet
  <2>1. UNCHANGED <<store, cfg, first, sends>>
    BY <1>2, QuietKeepsTokens
  <2>2. \A c \in Calls : pc'[c] \in {"save", "reload", "prepare", "wait"} => pc'[c] = pc[c]
    BY <1>0, <1>2, <1>a DEF Quiet, CheckConfigForAuth, OAuthStep, RefreshRejected,
       StartCallbackServer, ReceiveCallback, PlatformAnswers, RetryAfterLogin, ReturnSuccess, ReturnError,
       Kill, vars
  <2> QED
    BY <1>a, <1>1, <2>1, <2>2
<1>3. ASSUME NEW c \in Calls, NewCallContext(c) PROVE TokensOnTheWay'
  <2>1. sends[c] = 0
    BY <1>3 DEF TypeInv, SendsBounded, NewCallContext
  <2> QED
    BY <1>0, <1>1, <1>a, <1>3, <2>1 DEF NewCallContext, platform
<1>4. ASSUME NEW c \in Calls, ReloadContext(c) PROVE TokensOnTheWay'
  BY <1>0, <1>1, <1>a, <1>4 DEF ReloadContext, platform
<1>5. ASSUME NEW c \in Calls, ReplaceCurrentContext(c) PROVE TokensOnTheWay'
  BY <1>0, <1>1, <1>a, <1>5 DEF ReplaceCurrentContext, platform
<1>6. ASSUME NEW c \in Calls, PrepareHTTPRequest(c) PROVE TokensOnTheWay'
  BY <1>0, <1>1, <1>a, <1>6 DEF PrepareHTTPRequest, platform
<1>7. ASSUME NEW c \in Calls, ResolveTenant(c) PROVE TokensOnTheWay'
  <2> DEFINE p == [cfg[c] EXCEPT !.tenant = TRUE]
  <2>1. p.token = cfg[c].token
    BY <1>0, ProfileTokens
  <2>2. cfg' = cfg \/ cfg' = [cfg EXCEPT ![c] = p]
    BY <1>7 DEF ResolveTenant
  <2>3. UNCHANGED <<store, first, sends>>
    BY <1>7 DEF ResolveTenant, platform
  <2>4. \A d \in Calls : pc'[d] \in {"save", "reload", "prepare", "wait"} => pc'[d] = pc[d]
    BY <1>0, <1>7 DEF ResolveTenant, OAuthStep
  <2>5. \A d \in Calls : cfg'[d].token = cfg[d].token
    <3> HIDE DEF p
    <3> QED BY <1>0, <2>1, <2>2
  <2> QED
    BY <1>0, <1>1, <1>a, <2>3, <2>4, <2>5
<1>8. ASSUME NEW c \in Calls, RefreshAnswerLost(c) PROVE TokensOnTheWay'
  BY <1>0, <1>1, <1>a, <1>8 DEF RefreshAnswerLost
<1>9. ASSUME NEW c \in Calls,
             OAuthRefreshToken(c) \/ FinishInteractiveLogin(c) \/ PrincipalLogin(c)
      PROVE TokensOnTheWay'
  <2>1. UNCHANGED <<store, first, sends>>
    BY <1>9 DEF OAuthRefreshToken, FinishInteractiveLogin, PrincipalLogin
  <2>2. CASE pc'[c] = "save"
    <3>1. cfg' # cfg
      <4>1. cfg[c].token # issued + 1
        BY <1>0 DEF TokensIssued
      <4>2. cfg'[c].token = issued + 1
        <5> DEFINE both == [cfg[c] EXCEPT !.token = issued', !.refresh = issued']
                   one == [cfg[c] EXCEPT !.token = issued', !.tenant = TRUE]
        <5>1. issued' = issued + 1 /\ (cfg' = [cfg EXCEPT ![c] = both] \/ cfg' = [cfg EXCEPT ![c] = one])
          BY <1>0, <1>9, <2>2 DEF OAuthRefreshToken, FinishInteractiveLogin, PrincipalLogin, Issue
        <5>2. both.token = issued' /\ one.token = issued'
          BY <1>0, <5>1, ProfileTokens
        <5> HIDE DEF both, one
        <5> QED BY <1>0, <5>1, <5>2
      <4> QED BY <4>1, <4>2
    <3>2. /\ cfg'[c].token = issued + 1
          /\ \A d \in Calls \ {c} : cfg'[d] = cfg[d]
      BY <1>9, <3>1, IssuedTo
    <3>3. \A d \in Calls \ {c} : pc'[d] = pc[d]
      BY <1>0, <1>9 DEF OAuthRefreshToken, FinishInteractiveLogin, PrincipalLogin
    <3> QED
      BY <1>0, <1>1, <1>a, <2>1, <2>2, <3>2, <3>3 DEF TokensIssued
  <2>3. CASE pc'[c] # "save"
    <3>1. cfg' = cfg
      BY <1>0, <1>9, <2>3 DEF OAuthRefreshToken, FinishInteractiveLogin, PrincipalLogin
    <3>2. pc' = [pc EXCEPT ![c] = "error"]
      BY <1>0, <1>9, <2>3 DEF OAuthRefreshToken, FinishInteractiveLogin, PrincipalLogin
    <3> QED
      BY <1>0, <1>1, <1>a, <2>1, <3>1, <3>2
  <2> QED
    BY <2>2, <2>3
<1> QED
  BY <1>2, <1>3, <1>4, <1>5, <1>6, <1>7, <1>8, <1>9 DEF Next, Login, HttpRequest, Done, Quiet

\* Whatever the interleaving of any number of calls, the request that a call repeats
\* after a 403 and a login does not carry the token that was refused.
THEOREM RetriesCarryNewTokens == Spec => []RetryCarriesNewToken
<1>1. Init => TokensIssued /\ StepsOfMethod /\ TokensOnTheWay
  BY DEF Init, TokensIssued, StepsOfMethod, TokensOnTheWay, UnsharedToken, NewTokenOnTheWay,
     NoToken
<1>2. Spec => [](TypeInv /\ TokensIssued /\ StepsOfMethod /\ TokensOnTheWay)
  BY <1>1, InitTypeInv, NextTypeInv, NextTokensIssued, NextStepsOfMethod, NextTokensOnTheWay,
     PTL DEF Spec
<1>3. TokensOnTheWay => RetryCarriesNewToken
  BY DEF TokensOnTheWay, NewTokenOnTheWay, RetryCarriesNewToken
<1> QED
  BY <1>2, <1>3, PTL

-----------------------------------------------------------------------------
(* The session is not lost                                                 *)

Session == UnsharedRefreshToken /\ SessionNotLost

LEMMA NextSession ==
    TypeInv /\ TokensIssued /\ StepsOfMethod /\ Session /\ [Next]_vars => Session'
<1> SUFFICES ASSUME TypeInv, TokensIssued, StepsOfMethod, Session, [Next]_vars PROVE Session'
  OBVIOUS
<1>0. /\ store.refresh \in Nat /\ issued \in Nat /\ consumed \subseteq Nat
      /\ pc \in [Calls -> Locations] /\ spent \in [Calls -> Nat]
      /\ cfg \in [Calls -> Profile]
      /\ \A c \in Calls : cfg[c] \in Profile /\ cfg[c].refresh \in Nat
  BY ProfileTokens DEF TypeInv, TypeOK
<1>1. AuthMethod' = AuthMethod
  BY Zenon DEF Next, Login, HttpRequest, Done, Kill, vars, AuthMethod, NewCallContext,
     CheckConfigForAuth, ResolveTenant, OAuthRefreshToken, RefreshAnswerLost, RefreshRejected,
     StartCallbackServer, ReceiveCallback, FinishInteractiveLogin, PrincipalLogin, ReplaceCurrentContext,
     ReloadContext, PrepareHTTPRequest, PlatformAnswers, RetryAfterLogin, ReturnSuccess,
     ReturnError
\* Only OAuth consumes refresh tokens.
<1>a. CASE AuthMethod # "oauth"
  <2>1. consumed' = {}
    BY <1>1, <1>a, NextStepsOfMethod DEF StepsOfMethod
  <2> QED
    BY <1>1, <1>a, <2>1 DEF Session, UnsharedRefreshToken, SessionNotLost
<1>b. CASE AuthMethod = "oauth"
  <2> USE <1>b DEF Session, UnsharedRefreshToken, SessionNotLost, NotSaved, Goto
  <2>1. CASE Quiet
    <3>1. UNCHANGED <<store, cfg, spent, consumed>>
      BY <2>1, QuietKeepsTokens
    <3>2. \A c \in Calls : pc'[c] = "save" => pc[c] = "save"
      BY <1>0, <2>1 DEF Quiet, CheckConfigForAuth, OAuthStep, Issuing, RefreshRejected,
         StartCallbackServer, ReceiveCallback, PlatformAnswers, RetryAfterLogin, ReturnSuccess, ReturnError,
         Kill, vars
    <3>3. \A c \in Calls : pc[c] \in NotSaved => pc'[c] \in NotSaved
      BY <1>0, <2>1 DEF Quiet, CheckConfigForAuth, OAuthStep, Issuing, RefreshRejected,
         StartCallbackServer, ReceiveCallback, PlatformAnswers, RetryAfterLogin, ReturnSuccess, ReturnError,
         Kill, vars, Returned
    <3> QED
      BY <1>1, <3>1, <3>2, <3>3
  <2>2. ASSUME NEW c \in Calls, NewCallContext(c) \/ ReloadContext(c) PROVE Session'
    BY <1>0, <1>1, <2>2 DEF NewCallContext, ReloadContext, platform
  <2>3. ASSUME NEW c \in Calls, ReplaceCurrentContext(c) PROVE Session'
    BY <1>0, <1>1, <2>3 DEF ReplaceCurrentContext, platform
  <2>4. ASSUME NEW c \in Calls, PrepareHTTPRequest(c) PROVE Session'
    BY <1>0, <1>1, <2>4 DEF PrepareHTTPRequest, platform
  <2>5. ASSUME NEW c \in Calls, ResolveTenant(c) PROVE Session'
    <3> DEFINE p == [cfg[c] EXCEPT !.tenant = TRUE]
    <3>1. p.refresh = cfg[c].refresh
      BY <1>0, ProfileTokens
    <3>2. cfg' = cfg \/ cfg' = [cfg EXCEPT ![c] = p]
      BY <2>5 DEF ResolveTenant
    <3>3. UNCHANGED <<store, spent, consumed>>
      BY <2>5 DEF ResolveTenant, platform
    <3>4. \A d \in Calls : pc[d] \in NotSaved => pc'[d] \in NotSaved
      BY <1>0, <2>5 DEF ResolveTenant, OAuthStep
    <3>5. \A d \in Calls : cfg'[d].refresh = cfg[d].refresh
      <4> HIDE DEF p
      <4> QED BY <1>0, <3>1, <3>2
    <3>6. \A d \in Calls : pc'[d] = "save" => pc[d] = "save"
      BY <1>0, <2>5 DEF ResolveTenant, OAuthStep
    <3>7. UnsharedRefreshToken'
      BY <1>1, <3>3, <3>5, <3>6
    <3>8. SessionNotLost'
      BY <1>0, <3>3, <3>4
    <3> QED
      BY <3>7, <3>8
  <2>6. ASSUME NEW c \in Calls, RefreshAnswerLost(c) PROVE Session'
    BY <1>0, <1>1, <2>6 DEF RefreshAnswerLost
  <2>7. ASSUME NEW c \in Calls, OAuthRefreshToken(c) PROVE Session'
    <3> DEFINE both == [cfg[c] EXCEPT !.token = issued', !.refresh = issued']
    <3>1. cfg' = [cfg EXCEPT ![c] = both] /\ issued' = issued + 1
      BY <2>7 DEF OAuthRefreshToken, Issue
    <3>2. both.refresh = issued + 1
      BY <1>0, <3>1, ProfileTokens
    <3>3. cfg'[c].refresh = issued + 1 /\ \A d \in Calls \ {c} : cfg'[d] = cfg[d]
      <4> HIDE DEF both
      <4> QED BY <1>0, <3>1, <3>2
    <3>4. /\ pc[c] = "tokens" /\ pc'[c] = "save"
          /\ \A d \in Calls \ {c} : pc'[d] = pc[d] /\ spent'[d] = spent[d]
          /\ store' = store
          /\ consumed' = consumed \cup {cfg[c].refresh} /\ spent'[c] = cfg[c].refresh
      BY <1>0, <2>7 DEF OAuthRefreshToken
    <3>5. UnsharedRefreshToken'
      BY <1>0, <1>1, <3>3, <3>4 DEF TokensIssued
    <3>6. SessionNotLost'
      BY <1>0, <3>4
    <3> QED
      BY <3>5, <3>6
  <2>8. ASSUME NEW c \in Calls, FinishInteractiveLogin(c) PROVE Session'
    <3> DEFINE both == [cfg[c] EXCEPT !.token = issued', !.refresh = issued']
    <3>0. UNCHANGED <<store, spent, consumed>>
      BY <2>8 DEF FinishInteractiveLogin
    <3>1. CASE cfg' = cfg /\ Goto(c, "error")
      BY <1>0, <1>1, <2>8, <3>0, <3>1 DEF FinishInteractiveLogin
    <3>2. CASE Issue /\ cfg' = [cfg EXCEPT ![c] = both] /\ Goto(c, "save")
      <4>1. both.refresh = issued + 1
        BY <1>0, <3>2, ProfileTokens DEF Issue
      <4>2. cfg'[c].refresh = issued + 1 /\ \A d \in Calls \ {c} : cfg'[d] = cfg[d]
        <5> HIDE DEF both
        <5> QED BY <1>0, <3>2, <4>1
      <4>3. pc[c] = "exchange" /\ pc' = [pc EXCEPT ![c] = "save"]
        BY <2>8, <3>2 DEF FinishInteractiveLogin
      <4> HIDE DEF both
      <4> QED
        BY <1>0, <1>1, <3>0, <4>2, <4>3 DEF TokensIssued
    <3> QED
      BY <2>8, <3>1, <3>2 DEF FinishInteractiveLogin
  <2>9. ASSUME NEW c \in Calls, PrincipalLogin(c) PROVE Session'
    BY <2>9 DEF PrincipalLogin, StepsOfMethod
  <2> QED
    BY <2>1, <2>2, <2>3, <2>4, <2>5, <2>6, <2>7, <2>8, <2>9 DEF Next, Login, HttpRequest, Done, Quiet
<1> QED
  BY <1>a, <1>b

\* Whatever the interleaving of any number of calls, the refresh token in the profile is
\* one the platform has not taken, unless the call that used it is still to save its
\* answer, or ended before it could.
THEOREM SessionsAreNotLost == Spec => []SessionNotLost
<1>1. Init => TokensIssued /\ StepsOfMethod /\ Session
  BY DEF Init, TokensIssued, StepsOfMethod, Session, UnsharedRefreshToken, SessionNotLost,
     NoToken
<1>2. Spec => [](TypeInv /\ TokensIssued /\ StepsOfMethod /\ Session)
  BY <1>1, InitTypeInv, NextTypeInv, NextTokensIssued, NextStepsOfMethod, NextSession,
     PTL DEF Spec
<1>3. Session => SessionNotLost
  BY DEF Session
<1> QED
  BY <1>2, <1>3, PTL

-----------------------------------------------------------------------------
(* The contract of an API call                                             *)

\* What a call that is to send once more has been told, and what one that waits has.
ReplyKnown ==
    \A c \in Calls :
        /\ pc[c] \in {"prepare"} \cup LoginSteps /\ sends[c] = 1 => reply[c] = "forbidden"
        /\ pc[c] = "wait" => reply[c] = "pending"

LEMMA NextReplyKnown == TypeInv /\ ReplyKnown /\ [Next]_vars => ReplyKnown'
<1> SUFFICES ASSUME TypeInv, ReplyKnown, [Next]_vars PROVE ReplyKnown'
  OBVIOUS
<1>0. /\ pc \in [Calls -> Locations] /\ sends \in [Calls -> 0..2]
      /\ reply \in [Calls -> {"none", "pending", "forbidden", "success", "failure"}]
      /\ \A c \in Calls : pc[c] = "idle" => sends[c] = 0
  BY DEF TypeInv, TypeOK, SendsBounded
<1> USE DEF ReplyKnown, Goto, LoginSteps
<1>1. ASSUME NEW c \in Calls, NewCallContext(c) PROVE ReplyKnown'
  BY <1>0, <1>1 DEF NewCallContext
<1>2. ASSUME NEW c \in Calls, PrepareHTTPRequest(c) PROVE ReplyKnown'
  BY <1>0, <1>2 DEF PrepareHTTPRequest
<1>3. ASSUME NEW c \in Calls, PlatformAnswers(c) PROVE ReplyKnown'
  BY <1>0, <1>3 DEF PlatformAnswers, Replies
<1>4. ASSUME NEW c \in Calls, RetryAfterLogin(c) PROVE ReplyKnown'
  BY <1>0, <1>4 DEF RetryAfterLogin
<1>5. ASSUME NEW c \in Calls, ReturnSuccess(c) \/ ReturnError(c) PROVE ReplyKnown'
  BY <1>0, <1>5 DEF ReturnSuccess, ReturnError
<1>6. ASSUME NEW c \in Calls, Login(c) PROVE ReplyKnown'
  <2>1. UNCHANGED <<sends, reply>>
    BY <1>6 DEF Login, CheckConfigForAuth, ResolveTenant, OAuthRefreshToken, RefreshAnswerLost,
       RefreshRejected, StartCallbackServer, ReceiveCallback, FinishInteractiveLogin, PrincipalLogin,
       ReplaceCurrentContext, ReloadContext
  <2>2. pc[c] \in LoginSteps /\ \A d \in Calls \ {c} : pc'[d] = pc[d]
    BY <1>0, <1>6 DEF Login, CheckConfigForAuth, ResolveTenant, OAuthRefreshToken, RefreshAnswerLost,
       RefreshRejected, StartCallbackServer, ReceiveCallback, FinishInteractiveLogin, PrincipalLogin,
       ReplaceCurrentContext, ReloadContext
  <2>3. pc'[c] # "wait"
    BY <1>0, <1>6 DEF Login, CheckConfigForAuth, OAuthStep, ResolveTenant, OAuthRefreshToken,
       RefreshAnswerLost, RefreshRejected, StartCallbackServer, ReceiveCallback, FinishInteractiveLogin,
       PrincipalLogin, ReplaceCurrentContext, ReloadContext
  <2> QED
    BY <2>1, <2>2, <2>3
<1>7. CASE Kill
  BY <1>0, <1>7 DEF Kill, Returned
<1>8. CASE UNCHANGED vars
  BY <1>8 DEF vars
<1> QED
  BY <1>1, <1>2, <1>3, <1>4, <1>5, <1>6, <1>7, <1>8 DEF Next, HttpRequest, Done

\* A call is at the stage of its location.
StageAt(l) ==
    IF l = "idle" THEN "idle" ELSE IF l = "ok" THEN "succeeded"
    ELSE IF l \in {"error", "killed"} THEN "failed" ELSE "working"

LEMMA StageOfLocation == \A c : Stage(c) = StageAt(pc[c])
BY DEF Stage, StageAt

StageMap == [c \in Calls |-> StageAt(pc[c])]

\* What moves one call to location l does to the stages.
LEMMA StageMoves ==
    ASSUME NEW c \in Calls, NEW l, pc \in [Calls -> Locations], pc' = [pc EXCEPT ![c] = l]
    PROVE  StageMap' = [StageMap EXCEPT ![c] = StageAt(l)]
BY DEF StageMap

\* A step within "working" does not show.
LEMMA StageStays ==
    ASSUME NEW c \in Calls, NEW l, pc \in [Calls -> Locations], pc' = [pc EXCEPT ![c] = l],
           StageAt(l) = StageAt(pc[c])
    PROVE  StageMap' = StageMap
BY StageMoves DEF StageMap

LEMMA NextContract == TypeInv /\ ReplyKnown /\ [Next]_vars => [Contract!Next]_(Contract!vars)
<1> SUFFICES ASSUME TypeInv, ReplyKnown, [Next]_vars PROVE [Contract!Next]_(Contract!vars)
  OBVIOUS
<1>0. /\ pc \in [Calls -> Locations] /\ sends \in [Calls -> 0..2]
      /\ reply \in [Calls -> {"none", "pending", "forbidden", "success", "failure"}]
      /\ \A c \in Calls : pc[c] = "idle" => sends[c] = 0
      /\ \A c \in Calls : pc[c] \in {"prepare"} \cup LoginSteps => sends[c] \in {0, 1}
  BY DEF TypeInv, TypeOK, SendsBounded
<1>a. [c \in Calls |-> Stage(c)] = StageMap /\ [c \in Calls |-> Stage(c)]' = StageMap'
  BY DEF StageMap, Stage, StageAt
<1>b. ASSUME UNCHANGED <<StageMap, sends, reply>> PROVE UNCHANGED Contract!vars
  BY <1>a, <1>b DEF Contract!vars
\* A step of c that fails the call.
<1>c. ASSUME NEW c \in Calls, pc' = [pc EXCEPT ![c] = "error"], StageAt(pc[c]) = "working",
             UNCHANGED <<sends, reply>>
      PROVE Contract!Fail(c)
  <2>1. StageMap' = [StageMap EXCEPT ![c] = "failed"]
    BY <1>0, <1>c, StageMoves DEF StageAt
  <2>2. StageMap[c] = "working"
    BY <1>c DEF StageMap
  <2> QED
    BY <1>a, <1>c, <2>1, <2>2 DEF Contract!Fail
<1>1. ASSUME NEW c \in Calls, NewCallContext(c) PROVE Contract!Begin(c)
  <2>1. PICK l \in {"login", "prepare"} : pc' = [pc EXCEPT ![c] = l]
    BY <1>1 DEF NewCallContext, Goto
  <2>2. StageMap' = [StageMap EXCEPT ![c] = "working"]
    BY <1>0, <2>1, StageMoves DEF StageAt
  <2>3. StageMap[c] = "idle" /\ UNCHANGED <<sends, reply>>
    BY <1>1 DEF StageMap, StageAt, NewCallContext
  <2> QED
    BY <1>a, <2>2, <2>3 DEF Contract!Begin
<1>2. ASSUME NEW c \in Calls, PrepareHTTPRequest(c) PROVE Contract!Send(c) \/ Contract!Fail(c)
  <2>1. StageAt(pc[c]) = "working" /\ StageMap[c] = "working"
    BY <1>2 DEF PrepareHTTPRequest, StageAt, StageMap
  <2>2. CASE Goto(c, "error") /\ UNCHANGED <<sends, first, reply>>
    BY <1>c, <2>1, <2>2 DEF Goto
  <2>3. CASE /\ Goto(c, "wait") /\ sends' = [sends EXCEPT ![c] = @ + 1]
             /\ reply' = [reply EXCEPT ![c] = "pending"]
    <3>1. StageMap' = StageMap
      BY <1>0, <2>1, <2>3, StageStays DEF StageAt, Goto
    <3>2. sends[c] = 0 \/ (sends[c] = 1 /\ reply[c] = "forbidden")
      BY <1>0, <1>2 DEF PrepareHTTPRequest, ReplyKnown
    <3> QED
      BY <1>a, <2>1, <2>3, <3>1, <3>2 DEF Contract!Send
  <2> QED
    BY <1>2, <2>2, <2>3 DEF PrepareHTTPRequest
<1>3. ASSUME NEW c \in Calls, PlatformAnswers(c) PROVE Contract!Answer(c)
  <2>1. StageMap' = StageMap /\ StageMap[c] = "working"
    BY <1>0, <1>3, StageStays DEF PlatformAnswers, StageAt, Goto, StageMap
  <2>2. reply[c] = "pending"
    BY <1>3 DEF PlatformAnswers, ReplyKnown
  <2>3. PICK r \in {"forbidden", "success", "failure"} : reply' = [reply EXCEPT ![c] = r]
    BY <1>3 DEF PlatformAnswers, Replies
  <2> QED
    BY <1>3, <1>a, <2>1, <2>2, <2>3 DEF Contract!Answer, PlatformAnswers
<1>4. ASSUME NEW c \in Calls, RetryAfterLogin(c) PROVE UNCHANGED Contract!vars
  <2>1. StageMap' = StageMap
    BY <1>0, <1>4, StageStays DEF RetryAfterLogin, StageAt, Goto
  <2> QED
    BY <1>4, <1>b, <2>1 DEF RetryAfterLogin
<1>5. ASSUME NEW c \in Calls, ReturnSuccess(c) PROVE Contract!Succeed(c)
  <2>1. StageMap' = [StageMap EXCEPT ![c] = "succeeded"] /\ StageMap[c] = "working"
    BY <1>0, <1>5, StageMoves DEF ReturnSuccess, StageAt, Goto, StageMap
  <2> QED
    BY <1>5, <1>a, <2>1 DEF Contract!Succeed, ReturnSuccess
<1>6. ASSUME NEW c \in Calls, ReturnError(c) PROVE Contract!Fail(c)
  BY <1>6, <1>c DEF ReturnError, StageAt, Goto
<1>7. ASSUME NEW c \in Calls, Login(c) PROVE Contract!Fail(c) \/ UNCHANGED Contract!vars
  <2>1. UNCHANGED <<sends, reply>>
    BY <1>7 DEF Login, CheckConfigForAuth, ResolveTenant, OAuthRefreshToken, RefreshAnswerLost,
       RefreshRejected, StartCallbackServer, ReceiveCallback, FinishInteractiveLogin, PrincipalLogin,
       ReplaceCurrentContext, ReloadContext
  <2>2. StageAt(pc[c]) = "working"
    BY <1>7 DEF StageAt, Login, CheckConfigForAuth, ResolveTenant, OAuthRefreshToken,
       RefreshAnswerLost, RefreshRejected, StartCallbackServer, ReceiveCallback, FinishInteractiveLogin,
       PrincipalLogin, ReplaceCurrentContext, ReloadContext
  <2>3. PICK l \in LoginSteps \cup {"prepare", "error"} : pc' = [pc EXCEPT ![c] = l]
    BY <1>7 DEF LoginSteps, Goto, Login, CheckConfigForAuth, OAuthStep, ResolveTenant,
       OAuthRefreshToken, RefreshAnswerLost, RefreshRejected, StartCallbackServer, ReceiveCallback,
       FinishInteractiveLogin, PrincipalLogin, ReplaceCurrentContext, ReloadContext
  <2>4. CASE l = "error"
    BY <1>c, <2>1, <2>2, <2>3, <2>4
  <2>5. CASE l # "error"
    <3>1. StageMap' = StageMap
      BY <1>0, <2>2, <2>3, <2>5, StageStays DEF StageAt, LoginSteps
    <3> QED
      BY <1>b, <2>1, <3>1
  <2> QED
    BY <2>4, <2>5
<1>8. CASE Kill
  <2>1. StageMap' = [c \in Calls |-> IF StageMap[c] = "working" THEN "failed" ELSE StageMap[c]]
    BY <1>0, <1>8 DEF Kill, StageMap, StageAt, Returned
  <2> QED
    BY <1>8, <1>a, <2>1 DEF Kill, Contract!Stop, Contract!Next
<1>9. CASE UNCHANGED vars
  BY <1>9, <1>b DEF vars, StageMap
<1> QED
  BY <1>1, <1>2, <1>3, <1>4, <1>5, <1>6, <1>7, <1>8, <1>9
  DEF Next, HttpRequest, Done, Contract!Next

\* Calls of httpRequest, any number of them with their logins, each keep the contract of an
\* API call: two sends at most, the second only after a 403, success only on a success.
THEOREM CallsKeepTheContract == Spec => ImplementsCallContract
<1>1. Init => Contract!Init /\ ReplyKnown
  BY StageOfLocation DEF Init, Contract!Init, ReplyKnown, LoginSteps, StageAt
<1>2. Spec => [](TypeInv /\ ReplyKnown)
  BY <1>1, InitTypeInv, NextTypeInv, NextReplyKnown, PTL DEF Spec
<1> QED
  BY <1>1, <1>2, NextContract, PTL DEF Spec, ImplementsCallContract, Contract!Spec
=============================================================================
