---------------------------- MODULE CallContract ----------------------------
(***************************************************************************)
(* What one call of the platform API promises its caller, whichever part   *)
(* of fsoc makes it: the command line (platform/api/call.go) or the local  *)
(* proxy (platform/api/proxy.go).  A call sends its request once; only an  *)
(* answer "403 Forbidden" earns it a second send, after a login, and never *)
(* a third; it succeeds only on a successful answer to the last send.      *)
(***************************************************************************)
EXTENDS Naturals

CONSTANTS Calls   \* the API calls made

VARIABLES
    stage,     \* stage[c]: "idle", "working", or how the call ended
    attempts,  \* attempts[c]: how many times the request was sent
    verdict    \* verdict[c]: what is known of the last send's answer

vars == <<stage, attempts, verdict>>

Verdicts == {"none", "pending", "forbidden", "success", "failure"}

Init ==
    /\ stage = [c \in Calls |-> "idle"]
    /\ attempts = [c \in Calls |-> 0]
    /\ verdict = [c \in Calls |-> "none"]

Begin(c) ==
    /\ stage[c] = "idle"
    /\ stage' = [stage EXCEPT ![c] = "working"]
    /\ UNCHANGED <<attempts, verdict>>

Send(c) ==
    /\ stage[c] = "working"
    /\ \/ attempts[c] = 0
       \/ attempts[c] = 1 /\ verdict[c] = "forbidden"
    /\ attempts' = [attempts EXCEPT ![c] = @ + 1]
    /\ verdict' = [verdict EXCEPT ![c] = "pending"]
    /\ UNCHANGED stage

Answer(c) ==
    /\ stage[c] = "working"
    /\ verdict[c] = "pending"
    /\ \E v \in {"forbidden", "success", "failure"} :
           verdict' = [verdict EXCEPT ![c] = v]
    /\ UNCHANGED <<stage, attempts>>

Succeed(c) ==
    /\ stage[c] = "working"
    /\ verdict[c] = "success"
    /\ stage' = [stage EXCEPT ![c] = "succeeded"]
    /\ UNCHANGED <<attempts, verdict>>

Fail(c) ==
    /\ stage[c] = "working"
    /\ stage' = [stage EXCEPT ![c] = "failed"]
    /\ UNCHANGED <<attempts, verdict>>

\* The process ends: every call that is under way ends with it.
Stop ==
    /\ stage' = [c \in Calls |-> IF stage[c] = "working" THEN "failed" ELSE stage[c]]
    /\ UNCHANGED <<attempts, verdict>>

Next == Stop \/ \E c \in Calls : Begin(c) \/ Send(c) \/ Answer(c) \/ Succeed(c) \/ Fail(c)

Spec == Init /\ [][Next]_vars
=============================================================================
