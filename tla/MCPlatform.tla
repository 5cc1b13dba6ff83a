----------------------------- MODULE MCPlatform -----------------------------
(* The commands that show and change the data of the platform.  They share *)
(* no state, so one of the three parts moves in a behaviour;               *)
(* an object there from the start matters to the third only.               *)
EXTENDS UqlResponse, EventQueries, Optimizers

\* An object of another ID that is suspended and ignores a hard blocker.
MCHandWritten ==
  {[id |-> "other", desired |-> "started", suspensions |-> SuspensionIds, ignored |-> {"hard"}]}

Init == UqlInit /\ EventsInit /\ OptimizersInit
Next ==
  \/ EventsInit /\ OptimizersInit /\ Existing = {} /\ UqlNext /\ UNCHANGED <<eventVars, optimizerVars>>
  \/ UqlInit /\ OptimizersInit /\ Existing = {} /\ EventsNext /\ UNCHANGED <<uqlVars, optimizerVars>>
  \/ UqlInit /\ EventsInit /\ OptimizersNext /\ UNCHANGED <<uqlVars, eventVars>>
Spec == Init /\ [][Next]_<<uqlVars, eventVars, optimizerVars>> /\ EventsFairness

(* Every part's state is of the shape the code can produce.                *)
PlatformTypeOK == UqlTypeOK /\ EventsTypeOK /\ OptimizersTypeOK
=============================================================================
