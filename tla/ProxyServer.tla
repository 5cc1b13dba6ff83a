----------------------------- MODULE ProxyServer -----------------------------
(***************************************************************************)
(* "fsoc proxy" as a process: RunProxyServer (platform/api/proxy.go) and   *)
(* the command around it (cmd/proxy/proxy.go).  Four kinds of goroutines   *)
(* share the server: the one that listens, a handler per request, the one  *)
(* that waits for a signal to shut the server down, and the main one,      *)
(* which either runs a command or waits for a signal itself - on the SAME  *)
(* channel.  What a handler does is in ApiProxy; here it is a request that *)
(* is under way until it is answered, which may be never (its login may    *)
(* wait for a browser).  The net/http server and OS signals are external.  *)
(***************************************************************************)
EXTENDS Naturals, FiniteSets

CONSTANTS
    Handlers,    \* the handlers, one for each request made to the proxy
    MaxSignals   \* bounds the signals the user sends

ASSUME MaxSignalsAssumption == MaxSignals \in Nat

VARIABLES
    command,   \* a command was given on the command line
    handler,   \* handler[r]: "idle", "working", "answered" or "dropped"
    server,    \* "new", "listening", "draining" (in Shutdown) or "closed"
    main,      \* the main goroutine
    waiter,    \* the goroutine that shuts the server down on a signal
    signals,   \* signals buffered in signalChan, capacity 1
    sent       \* signals sent

serverVars == <<command, handler, server, main, waiter, signals, sent>>

ServerInit ==
    /\ command \in BOOLEAN
    /\ handler = [r \in Handlers |-> "idle"]
    /\ server = "new"
    /\ main = "start"
    /\ waiter = "none"
    /\ signals = 0
    /\ sent = 0

Active == {r \in Handlers : handler[r] = "working"}
Alive == main # "exited"

\* os.Exit, log.Fatal or the return of main: the requests under way are lost with the
\* process.
ExitProcess ==
    /\ main' = "exited"
    /\ handler' = [r \in Handlers |-> IF r \in Active THEN "dropped" ELSE handler[r]]

\* The listening goroutine; log.Fatalf if the port cannot be used.
ListenAndServe ==
    /\ Alive /\ server = "new"
    /\ \/ /\ server' = "listening"
          /\ UNCHANGED <<main, handler>>
       \/ ExitProcess /\ UNCHANGED server
    /\ UNCHANGED <<command, waiter, signals, sent>>

\* A new request is accepted only while the server listens...
Connect(r) ==
    /\ Alive /\ server = "listening" /\ handler[r] = "idle"
    /\ handler' = [handler EXCEPT ![r] = "working"]
    /\ UNCHANGED <<command, server, main, waiter, signals, sent>>

\* ... and a handler returns whenever its transport has an answer.
HandlerReturns(r) ==
    /\ Alive /\ handler[r] = "working"
    /\ handler' = [handler EXCEPT ![r] = "answered"]
    /\ UNCHANGED <<command, server, main, waiter, signals, sent>>

\* runCommand: the command runs to its end and RunProxyServer begins to shut down, or it
\* cannot be started and RunProxyServer returns the error, on which the caller exits.
RunCommand ==
    /\ main = "start" /\ command
    /\ \/ /\ main' = "shutdown"
          /\ server' = "draining"
          /\ UNCHANGED handler
       \/ ExitProcess /\ UNCHANGED server
    /\ UNCHANGED <<command, waiter, signals, sent>>

\* No command: register for signals, start the waiter, wait.
ServeForeground ==
    /\ main = "start" /\ ~command
    /\ main' = "waiting"
    /\ waiter' = "receiving"
    /\ UNCHANGED <<handler, command, server, signals, sent>>

\* A signal: buffered or dropped once registered, fatal to the process before.
Signal ==
    /\ Alive /\ sent < MaxSignals
    /\ sent' = sent + 1
    /\ IF waiter = "none"
       THEN ExitProcess /\ UNCHANGED signals
       ELSE signals' = 1 /\ UNCHANGED <<main, handler>>
    /\ UNCHANGED <<command, server, waiter>>

\* Mutant: the waiter does not shut the server down.
WaiterLosesSignal ==
    /\ Alive /\ waiter = "receiving" /\ signals = 1
    /\ signals' = 0
    /\ waiter' = "done"
    /\ UNCHANGED <<handler, command, server, main, sent>>

\* "sig := <-signalChan" in the waiter, then server.Shutdown: no more connections.
WaiterReceives ==
    /\ Alive /\ waiter = "receiving" /\ signals = 1
    /\ signals' = 0
    /\ waiter' = "shutdown"
    /\ server' = "draining"
    /\ UNCHANGED <<handler, command, main, sent>>

\* "<-signalChan" in main, then "Proxy server has successfully shut down".
MainReceives ==
    /\ main = "waiting" /\ signals = 1
    /\ signals' = 0
    /\ main' = "returned"
    /\ UNCHANGED <<handler, command, server, waiter, sent>>

\* Mutant: Shutdown does not wait for the handlers.
ShutdownEarly ==
    /\ Alive /\ server = "draining"
    /\ server' = "closed"
    /\ main' = IF main = "shutdown" THEN "returned" ELSE main
    /\ waiter' = IF waiter = "shutdown" THEN "done" ELSE waiter
    /\ UNCHANGED <<handler, command, signals, sent>>

\* Shutdown returns once the handlers have returned; whoever called it goes on.
ShutdownReturns ==
    /\ Alive /\ server = "draining" /\ Active = {}
    /\ server' = "closed"
    /\ main' = IF main = "shutdown" THEN "returned" ELSE main
    /\ waiter' = IF waiter = "shutdown" THEN "done" ELSE waiter
    /\ UNCHANGED <<handler, command, signals, sent>>

Exit ==
    /\ main = "returned"
    /\ ExitProcess
    /\ UNCHANGED <<command, server, waiter, signals, sent>>

\* The process has ended, or waits for more signals than the bound allows.
Quiet ==
    /\ ~Alive \/ sent = MaxSignals
    /\ UNCHANGED serverVars

Shutdown == RunCommand \/ WaiterReceives \/ MainReceives \/ ShutdownReturns \/ Exit

ServerNext ==
    \/ ListenAndServe \/ ServeForeground \/ Signal \/ Shutdown \/ Quiet
    \/ \E r \in Handlers : Connect(r) \/ HandlerReturns(r)

\* Goroutines run: a receiver that is ready takes a signal, Shutdown returns when it may,
\* the process exits after main returns.  Nothing makes a handler or the user act.
ServerSpec == ServerInit /\ [][ServerNext]_serverVars /\ WF_serverVars(Shutdown)

-----------------------------------------------------------------------------
(* Properties                                                              *)

\* Every variable stays in its domain.
ServerTypeOK ==
    /\ command \in BOOLEAN
    /\ handler \in [Handlers -> {"idle", "working", "answered", "dropped"}]
    /\ server \in {"new", "listening", "draining", "closed"}
    /\ main \in {"start", "shutdown", "waiting", "returned", "exited"}
    /\ waiter \in {"none", "receiving", "shutdown", "done"}
    /\ signals \in 0..1
    /\ sent \in 0..MaxSignals

\* When the proxy reports that it "has successfully shut down", or returns after its
\* command, it has: no request that it accepted is still under way.
ReturnsDrained == main = "returned" => server = "closed" /\ Active = {}

\* With a command this holds: its requests are answered before fsoc exits with its code.
CommandReturnsDrained == command => ReturnsDrained

\* A signal that reaches the channel stops the proxy from taking more requests, whichever
\* of the two receivers gets it.
SignalStopsServing == signals = 1 ~> server \in {"draining", "closed"} \/ main = "exited"

\* "Run the proxy server in foreground until terminated with Ctrl-C" (cmd/proxy/proxy.go) and
\* "gracefully shut down the server when received" (proxy.go:113): once a server that
\* listens has been sent a signal it is shut down and the process ends, if its requests are
\* answered.
SignalShutsDown ==
    sent > 0 /\ server = "listening" ~> \/ main = "exited" /\ server = "closed"
                                        \/ Active # {}
=============================================================================
