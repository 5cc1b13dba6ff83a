------------------------------- MODULE MCProxy -------------------------------
(* The two views of fsoc proxy: the transport (ApiProxy) with two concurrent *)
(* requests, each with or without a body, and the process around it          *)
(* (ProxyServer) with two handlers and up to two signals.  They share no     *)
(* variable, so one of them moves in a behaviour.                            *)
EXTENDS ApiProxy, ProxyServer

MCInit == Init /\ ServerInit
MCNext ==
    \/ ServerInit /\ ~command /\ Next /\ UNCHANGED serverVars
    \/ Init /\ ServerNext /\ UNCHANGED proxyVars
MCSpec == MCInit /\ [][MCNext]_<<proxyVars, serverVars>> /\ WF_serverVars(Shutdown)
=============================================================================
