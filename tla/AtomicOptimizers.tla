-------------------------- MODULE AtomicOptimizers --------------------------
(***************************************************************************)
(* What the commands that change an optimizer promise together: each takes *)
(* effect at one moment between its begin and its end, on the object as it *)
(* is then, or not at all.  They read the object and write it in different *)
(* requests (src/cmd/optimize/management.go, src/cmd/knowledge/edit.go),   *)
(* and an optimize command may be overtaken in between; then it overwrites *)
(* what it has not seen, which is counted as one of the outcomes.          *)
(***************************************************************************)
CONSTANTS Users, SuspensionIds, Ids,
          Operations, None  \* the commands, and none of them

VARIABLES objects,      \* ID -> the object, or Absent
          asked,        \* user -> the command under way, or None
          overwritten   \* an object was overwritten with changes that were not seen

vars == <<objects, asked, overwritten>>

New == [id |-> "own", desired |-> "stopped", suspensions |-> {}, ignored |-> {}, notes |-> {}, override |-> "none"]
Absent == [New EXCEPT !.desired = "none"]
Is(id) == objects[id] # Absent

\* But by hand, no hard blocker is ignored without the override for it, and none at all
\* without an override.
Lawful(ignored, override) == override # "hand" =>
  /\ ignored # {} => override # "none"
  /\ "hard" \in ignored => override = "hard"

Objects ==
  {o \in [id : Ids, desired : {"started", "stopped"}, suspensions : SUBSET SuspensionIds, ignored : SUBSET {"soft", "hard"},
          notes : SUBSET Users, override : {"none", "soft", "hard", "hand"}] : Lawful(o.ignored, o.override)}

Init ==
  /\ objects \in [Ids -> {New, Absent}]
  /\ asked = [u \in Users |-> None]
  /\ overwritten = FALSE

Begin(u) ==
  /\ asked[u] = None
  /\ \E c \in Operations : asked' = [asked EXCEPT ![u] = c]
  /\ UNCHANGED <<objects, overwritten>>

\* A refusal, or a failure before the write.
GiveUp(u) ==
  /\ asked[u] # None
  /\ asked' = [asked EXCEPT ![u] = None]
  /\ UNCHANGED <<objects, overwritten>>

-----------------------------------------------------------------------------
(* The effects.  A command that names an ID is about that object; one that *)
(* names a workload is about an object of it.  Those of `optimize` find an *)
(* object by the ID in it.                                                 *)

Asks(u, op) == asked[u] # None /\ asked[u].op = op
Names(u, id) == asked[u].by = "id" => asked[u].id = id
Manages(u, id) == Names(u, id) /\ Is(id) /\ objects[id].id = id
Takes(u, id, o) ==
  /\ objects' = [objects EXCEPT ![id] = o]
  /\ asked' = [asked EXCEPT ![u] = None]

Start(u, id) ==
  /\ Asks(u, "start") /\ Manages(u, id)
  /\ objects[id].desired # "started" \/ asked[u].restart
  /\ Takes(u, id, [objects[id] EXCEPT !.desired = "started"])

Stop(u, id) ==
  /\ Asks(u, "stop") /\ Manages(u, id)
  /\ objects[id].desired # "stopped"
  /\ Takes(u, id, [objects[id] EXCEPT !.desired = "stopped"])

Suspend(u, id) ==
  /\ Asks(u, "suspend") /\ Manages(u, id)
  /\ asked[u].arg \notin objects[id].suspensions
  /\ Takes(u, id, [objects[id] EXCEPT !.suspensions = @ \cup {asked[u].arg}])

Unsuspend(u, id) ==
  /\ Asks(u, "unsuspend") /\ Manages(u, id)
  /\ asked[u].arg \in objects[id].suspensions
  /\ Takes(u, id, [objects[id] EXCEPT !.suspensions = @ \ {asked[u].arg}])

\* What a file or the editor makes of an object.
ByHand(c, o) ==
  CASE c.file = "none"     -> o
    [] c.file = "settings" -> [o EXCEPT !.id = c.hand.id, !.desired = c.hand.desired,
                                        !.suspensions = c.hand.suspensions]
    [] c.file = "all"      -> [o EXCEPT !.id = c.hand.id, !.desired = c.hand.desired,
                                        !.suspensions = c.hand.suspensions,
                                        !.ignored = c.hand.ignored, !.override = "hand"]

Edit(u, id) ==
  /\ Asks(u, "edit") /\ Names(u, id) /\ Is(id)
  /\ Takes(u, id, [ByHand(asked[u], objects[id]) EXCEPT !.notes = @ \cup {u}])

\* configure makes the object anew, under the ID of its report or of its file.
Configure(u, id) ==
  /\ Asks(u, "configure") /\ (asked[u].create <=> ~Is(id))
  /\ \E ignored \in SUBSET {"soft", "hard"} :
       LET made == [New EXCEPT !.desired = IF asked[u].start THEN "started" ELSE "stopped",
                               !.ignored = ignored, !.override = asked[u].override]
       IN  /\ Lawful(ignored, asked[u].override)
           /\ ByHand(asked[u], made).id = id
           /\ Takes(u, id, ByHand(asked[u], made))

Replace(u, id) == Asks(u, "update") /\ Names(u, id) /\ Is(id) /\ Takes(u, id, ByHand(asked[u], New))
Insert(u, id)  == /\ Asks(u, "insert") /\ ByHand(asked[u], New).id = id /\ ~Is(id)
                  /\ Takes(u, id, ByHand(asked[u], New))
Delete(u, id)  == Asks(u, "delete") /\ Names(u, id) /\ Is(id) /\ Takes(u, id, Absent)

\* An optimize command writes the object that it read, with its change, over a later one,
\* or over another if that is whose ID is in it.
Does(c, o) ==
  CASE c.op = "start"     -> o.desired = "started"
    [] c.op = "stop"      -> o.desired = "stopped"
    [] c.op = "suspend"   -> c.arg \in o.suspensions
    [] c.op = "unsuspend" -> c.arg \notin o.suspensions

Overwrite(u, id) ==
  /\ \E op \in {"start", "stop", "suspend", "unsuspend"} : Asks(u, op)
  /\ Is(id)
  /\ objects'[id] \in Objects /\ objects'[id].id = id /\ Does(asked[u], objects'[id])
  /\ Takes(u, id, objects'[id])

Next ==
  \E u \in Users :
    \/ Begin(u) \/ GiveUp(u)
    \/ \E id \in Ids :
         \/ /\ \/ Start(u, id) \/ Stop(u, id) \/ Suspend(u, id) \/ Unsuspend(u, id) \/ Edit(u, id)
               \/ Configure(u, id) \/ Replace(u, id) \/ Insert(u, id) \/ Delete(u, id)
            /\ UNCHANGED overwritten
         \/ Overwrite(u, id) /\ overwritten' = TRUE

Spec == Init /\ [][Next]_vars
=============================================================================
