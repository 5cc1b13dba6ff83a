-------------------------- MODULE ProxyServer_proofs --------------------------
(***************************************************************************)
(* Proofs about ProxyServer for any set of requests and any number of      *)
(* signals: how far the goroutines that shut the server down agree on      *)
(* when it is drained.  The argument is that a server that is "closed"     *)
(* has no handler at work, because only Shutdown closes it, after the last *)
(* handler has returned, and nothing is accepted afterwards; and that with *)
(* a command the main goroutine is the only one that calls Shutdown, as    *)
(* the two receivers of signals are never started.                         *)
(***************************************************************************)
EXTENDS ProxyServer, TLAPS

\* A server that is shut down has no request under way.
ClosedIsDrained == server = "closed" => Active = {}

\* With a command nobody waits for signals, and main leaves "shutdown" only when the
\* Shutdown that it called has closed the server.
CommandShutsDown ==
    command => /\ waiter = "none"
               /\ main # "waiting"
               /\ main = "shutdown" => server = "draining"
               /\ main = "returned" => server = "closed"

\* Signals are buffered only for the receivers, which main starts when there is no command.
SignalsHaveReceivers == main = "start" => waiter = "none" /\ signals = 0

ServerInv == ServerTypeOK /\ ClosedIsDrained /\ CommandShutsDown /\ SignalsHaveReceivers

-----------------------------------------------------------------------------
(* Every action keeps the invariant                                        *)

\* The end of the process drops the requests under way.
LEMMA ExitDropsHandlers ==
    ASSUME ServerTypeOK, ExitProcess
    PROVE  /\ main' = "exited"
           /\ handler' \in [Handlers -> {"idle", "working", "answered", "dropped"}]
           /\ Active' = {}
BY DEF ServerTypeOK, ExitProcess, Active

LEMMA InitInv == ServerInit => ServerInv
BY MaxSignalsAssumption
   DEF ServerInit, ServerInv, ServerTypeOK, ClosedIsDrained, CommandShutsDown, SignalsHaveReceivers

LEMMA ListenKeepsInv == ServerInv /\ ListenAndServe => ServerInv'
<1> SUFFICES ASSUME ServerInv, ListenAndServe PROVE ServerInv'
  OBVIOUS
<1> USE DEF ServerInv, ListenAndServe, Alive
<1>1. CASE server' = "listening" /\ UNCHANGED <<main, handler>>
  BY <1>1 DEF ServerTypeOK, ClosedIsDrained, CommandShutsDown, SignalsHaveReceivers
<1>2. CASE ExitProcess /\ UNCHANGED server
  BY <1>2, ExitDropsHandlers DEF ServerTypeOK, ClosedIsDrained, CommandShutsDown, SignalsHaveReceivers
<1> QED BY <1>1, <1>2

LEMMA AcceptKeepsInv == ASSUME ServerInv, NEW r \in Handlers, Connect(r) PROVE ServerInv'
BY DEF ServerInv, ServerTypeOK, ClosedIsDrained, CommandShutsDown, SignalsHaveReceivers, Connect

\* A handler that returns leaves fewer requests under way.
LEMMA RespondKeepsInv == ASSUME ServerInv, NEW r \in Handlers, HandlerReturns(r) PROVE ServerInv'
<1> USE DEF ServerInv, HandlerReturns
<1>1. ServerTypeOK'
  BY DEF ServerTypeOK
<1>2. Active' \subseteq Active
  BY DEF Active, ServerTypeOK
<1>3. ClosedIsDrained'
  BY <1>2 DEF ClosedIsDrained
<1> QED BY <1>1, <1>3 DEF CommandShutsDown, SignalsHaveReceivers

LEMMA RunCommandKeepsInv == ServerInv /\ RunCommand => ServerInv'
<1> SUFFICES ASSUME ServerInv, RunCommand PROVE ServerInv'
  OBVIOUS
<1> USE DEF ServerInv, RunCommand
<1>1. CASE main' = "shutdown" /\ server' = "draining" /\ UNCHANGED handler
  BY <1>1 DEF ServerTypeOK, ClosedIsDrained, CommandShutsDown, SignalsHaveReceivers
<1>2. CASE ExitProcess /\ UNCHANGED server
  BY <1>2, ExitDropsHandlers DEF ServerTypeOK, ClosedIsDrained, CommandShutsDown, SignalsHaveReceivers
<1> QED BY <1>1, <1>2

LEMMA SignalKeepsInv == ServerInv /\ Signal => ServerInv'
<1> SUFFICES ASSUME ServerInv, Signal PROVE ServerInv'
  OBVIOUS
<1> USE DEF ServerInv, Signal
<1>1. sent' \in 0..MaxSignals
  BY MaxSignalsAssumption DEF ServerTypeOK
<1>2. CASE waiter = "none"
  BY <1>1, <1>2, ExitDropsHandlers
     DEF ServerTypeOK, ClosedIsDrained, CommandShutsDown, SignalsHaveReceivers
<1>3. CASE waiter # "none"
  BY <1>1, <1>3 DEF ServerTypeOK, ClosedIsDrained, CommandShutsDown, SignalsHaveReceivers, Active
<1> QED BY <1>2, <1>3

LEMMA ExitKeepsInv == ServerInv /\ Exit => ServerInv'
BY ExitDropsHandlers
   DEF ServerInv, Exit, ServerTypeOK, ClosedIsDrained, CommandShutsDown, SignalsHaveReceivers

\* The receivers of signals and the return of Shutdown leave the handlers alone.
LEMMA ShutdownKeepsInv ==
    ServerInv /\ (ServeForeground \/ WaiterReceives \/ MainReceives \/ ShutdownReturns) => ServerInv'
<1> SUFFICES ASSUME ServerInv,
                    ServeForeground \/ WaiterReceives \/ MainReceives \/ ShutdownReturns
             PROVE  ServerInv'
  OBVIOUS
<1> USE DEF ServerInv, ServerTypeOK, ClosedIsDrained, CommandShutsDown, SignalsHaveReceivers, Active
<1>1. CASE ServeForeground
  BY <1>1 DEF ServeForeground
<1>2. CASE WaiterReceives
  BY <1>2 DEF WaiterReceives
<1>3. CASE MainReceives
  BY <1>3 DEF MainReceives
<1>4. CASE ShutdownReturns
  BY <1>4 DEF ShutdownReturns
<1> QED BY <1>1, <1>2, <1>3, <1>4

LEMMA ServerInvariant == ServerSpec => []ServerInv
<1>1. ServerInv /\ [ServerNext]_serverVars => ServerInv'
  <2> SUFFICES ASSUME ServerInv, [ServerNext]_serverVars PROVE ServerInv'
    OBVIOUS
  <2>1. CASE ListenAndServe
    BY <2>1, ListenKeepsInv
  <2>2. CASE ServeForeground
    BY <2>2, ShutdownKeepsInv
  <2>3. CASE Signal
    BY <2>3, SignalKeepsInv
  <2>4. CASE Shutdown
    BY <2>4, RunCommandKeepsInv, ShutdownKeepsInv, ExitKeepsInv DEF Shutdown
  <2>5. ASSUME NEW r \in Handlers, Connect(r) \/ HandlerReturns(r) PROVE ServerInv'
    BY <2>5, AcceptKeepsInv, RespondKeepsInv
  <2>6. CASE UNCHANGED serverVars
    BY <2>6 DEF serverVars, ServerInv, ServerTypeOK, ClosedIsDrained, CommandShutsDown,
                SignalsHaveReceivers, Active
  <2> QED BY <2>1, <2>2, <2>3, <2>4, <2>5, <2>6 DEF ServerNext, Quiet
<1> QED BY InitInv, <1>1, PTL DEF ServerSpec

-----------------------------------------------------------------------------

\* Type correctness: every variable of the process stays in its domain (RunProxyServer,
\* platform/api/proxy.go); signalChan holds at most its capacity of one.
THEOREM ServerTypesCorrect == ServerSpec => []ServerTypeOK
<1>1. ServerInv => ServerTypeOK
  BY DEF ServerInv
<1> QED BY <1>1, ServerInvariant, PTL

\* RunProxyServer with a command returns the exit code of the command only after
\* server.Shutdown has seen every handler return: whatever the interleaving of the command's
\* requests, the listener and the signals, none is still under way.
THEOREM CommandsReturnDrained == ServerSpec => []CommandReturnsDrained
<1>1. ServerInv => CommandReturnsDrained
  BY DEF ServerInv, CommandReturnsDrained, ReturnsDrained, ClosedIsDrained, CommandShutsDown
<1> QED BY <1>1, ServerInvariant, PTL
=============================================================================
