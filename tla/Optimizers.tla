----------------------------- MODULE Optimizers -----------------------------
(***************************************************************************)
(* The optimizer objects of the knowledge store and the commands that      *)
(* change them: `fsoc optimize start, stop, suspend, unsuspend, delete,    *)
(* configure` (src/cmd/optimize) and `fsoc knowledge create, update, edit, *)
(* delete` (src/cmd/knowledge), run by several users for one workload.     *)
(* The optimize commands read the object, change the copy and write all of *)
(* it back; only `knowledge edit` sends the version it read along.         *)
(***************************************************************************)
EXTENDS Integers, FiniteSets, Sequences

CONSTANTS Users, SuspensionIds,
          HandWritten,   \* what users write in a file or in the editor
          MaxOperations  \* bound: commands begun

\* The ID built from the report, and one that a file or an older deployment gave.
Ids == {"own", "other"}

ASSUME HandWrittenAssumption ==
  HandWritten \subseteq [id : Ids, desired : {"started", "stopped"}, suspensions : SUBSET SuspensionIds,
                        ignored : SUBSET {"soft", "hard"}]
ASSUME MaxOperationsAssumption == MaxOperations \in Nat

\* The blockers a report names; fsoc has no description of an unknown one.
Blockers == {"soft", "hard", "unknown"}
Reports == {{}, {"soft"}, {"soft", "hard"}, {"unknown"}}

VARIABLES store,     \* ID -> the object, or NoObject
          version,   \* writes so far: the entity tag of an object is that of its last write
          busy,      \* user -> the command, or NoOperation
          todo,      \* user -> what the command has still to do
          copy,      \* user -> the object read and its ID
          report,    \* user -> the blockers of the report read
          begun,
          due,       \* ID -> suspensions a user was told of and nobody lifted since
          kept,      \* ID -> users told that their edit is made, not replaced since
          blind      \* an object was written over from a copy that was stale

optimizerVars == <<store, version, busy, todo, copy, report, begun, due, kept, blind>>

\* id: the optimizer ID in the data, which need not be the one it is stored under;
\* notes: the edits in the object; override: how its ignored blockers came to be so,
\* "hand" being a file or the editor.
NewObject == [id |-> "own", desired |-> "stopped", suspensions |-> {}, ignored |-> {}, notes |-> {},
              override |-> "none", etag |-> 0]
NoObject == [NewObject EXCEPT !.desired = "none"]
Existing == {id \in Ids : store[id] # NoObject}

\* file: what the file or the editor says of the object.
Operations ==
  [op : {"start"}, by : {"id"}, id : {"own"}, restart : BOOLEAN] \cup
  [op : {"start"}, by : {"workload"}, id : {"own"}, restart : {FALSE}] \cup
  [op : {"stop"}, by : {"workload"}, id : {"own"}] \cup
  [op : {"suspend", "unsuspend"}, by : {"id"}, id : {"own"}, arg : SuspensionIds] \cup
  [op : {"configure"}, by : {"id"}, id : {"other"}, create : {FALSE}, start : {FALSE},
   override : {"soft", "hard"}, file : {"none"}] \cup
  [op : {"configure"}, by : {"workload"}, id : {"own"}, create : BOOLEAN, start : {TRUE},
   override : {"none", "soft", "hard"}, file : {"none"}] \cup
  [op : {"configure"}, by : {"workload"}, id : {"own"}, create : BOOLEAN, start : {FALSE},
   override : {"soft"}, file : {"settings", "all"}, hand : HandWritten] \cup
  [op : {"edit"}, by : {"id"}, id : {"own"}, file : {"none"}] \cup
  [op : {"edit"}, by : {"id"}, id : {"own"}, file : {"settings", "all"}, hand : HandWritten] \cup
  [op : {"update"}, by : {"id"}, id : {"own"}, file : {"all"}, hand : HandWritten] \cup
  [op : {"insert"}, by : {"file"}, id : {"own"}, file : {"all"}, hand : HandWritten] \cup
  [op : {"delete"}, by : {"id"}, id : Ids]

NoOperation == [op |-> "none"]

OptimizersInit ==
  /\ \E own \in {NewObject, NoObject} : store = [id \in Ids |-> IF id = "own" THEN own ELSE NoObject]
  /\ version = 0 /\ begun = 0 /\ blind = FALSE
  /\ busy = [u \in Users |-> NoOperation] /\ todo = [u \in Users |-> <<>>]
  /\ copy = [u \in Users |-> [id |-> "own", object |-> NoObject]]
  /\ report = [u \in Users |-> {}]
  /\ due = [id \in Ids |-> {}] /\ kept = [id \in Ids |-> {}]

-----------------------------------------------------------------------------
(* What the commands do, in order; configure finds the workload of an      *)
(* optimizer in its object, else the object by the workload.               *)
Steps(c) ==
  CASE c.op \in {"start", "stop", "suspend", "unsuspend", "edit"} -> <<"read", "write">>
    [] c.op = "configure" /\ c.by = "id"       -> <<"read", "report", "write">>
    [] c.op = "configure" /\ c.by = "workload" -> <<"report", "read", "write">>
    [] OTHER -> <<"write">>

BeginOperation(u, c) ==
  /\ busy[u] = NoOperation /\ begun < MaxOperations /\ begun' = begun + 1
  /\ busy' = [busy EXCEPT ![u] = c]
  /\ todo' = [todo EXCEPT ![u] = Steps(c)]
  /\ UNCHANGED <<store, version, copy, report, due, kept, blind>>

Has(u, what) == todo[u] # <<>> /\ Head(todo[u]) = what
Ended(u) ==
  /\ busy' = [busy EXCEPT ![u] = NoOperation] /\ todo' = [todo EXCEPT ![u] = <<>>]
  /\ copy' = [copy EXCEPT ![u] = [id |-> "own", object |-> NoObject]]
  /\ report' = [report EXCEPT ![u] = {}]

\* A refusal, a failure of a request, or the user's interrupt.
Abandon(u) ==
  /\ busy[u] # NoOperation /\ Ended(u)
  /\ UNCHANGED <<store, version, begun, due, kept, blind>>

\* getOptimizerConfig, editObject: the object of the ID, or the only one of the workload;
\* with --create there must be none.
Found(c) == IF c.by = "id" THEN {c.id} \cap Existing ELSE Existing
Creates(c) == c.op = "configure" /\ c.create
ReadObject(u) ==
  /\ Has(u, "read")
  /\ LET c == busy[u]
     IN  IF Creates(c) THEN Found(c) = {} /\ UNCHANGED copy
         ELSE /\ Cardinality(Found(c)) = 1
              /\ \E id \in Found(c) : copy' = [copy EXCEPT ![u] = [id |-> id, object |-> store[id]]]
  /\ todo' = [todo EXCEPT ![u] = Tail(@)]
  /\ UNCHANGED <<store, version, busy, report, begun, due, kept, blind>>

\* getProfilerReport; the profiler reports anew all the time.
ReadReport(u) ==
  /\ Has(u, "report")
  /\ \E blockers \in Reports : report' = [report EXCEPT ![u] = blockers]
  /\ todo' = [todo EXCEPT ![u] = Tail(@)]
  /\ UNCHANGED <<store, version, busy, copy, begun, due, kept, blind>>

-----------------------------------------------------------------------------
(* The object a command writes, and whether it goes that far.              *)

\* Mutant: any blocker that can be overridden makes all of them so.
CheckHardBlockersAll(blockers) == "soft" \notin blockers /\ "hard" \in blockers

\* Mutant: nothing is dropped.
KnownAll(blockers) == blockers

\* assignToBlocker drops what it does not know; checkHardBlockers sees the rest.
Known(blockers) == blockers \ {"unknown"}
CheckHardBlockers(blockers) == "hard" \in Known(blockers)

BlockersPass(blockers, override) ==
  \/ blockers = {}
  \/ override = "hard"
  \/ override = "soft" /\ ~CheckHardBlockers(blockers)

Accepts(u) ==
  LET c == busy[u]  o == copy[u].object
  IN  CASE c.op = "start"     -> o.desired # "started" \/ c.restart
        [] c.op = "stop"      -> o.desired # "stopped"
        [] c.op = "suspend"   -> c.arg \notin o.suspensions
        [] c.op = "unsuspend" -> c.arg \in o.suspensions
        [] c.op = "configure" -> BlockersPass(report[u], c.override)
        [] OTHER -> TRUE

\* Mutant: the object is built anew, as configure does.
StartedAnew(o) == [NewObject EXCEPT !.desired = "started"]
Started(o) == [o EXCEPT !.desired = "started"]

\* yaml.Unmarshal of the file over what configure made, after its check of the blockers;
\* an object from a file of its own; what the user made of an object in the editor.
ByHand(c, o) ==
  CASE c.file = "none"     -> o
    [] c.file = "settings" -> [o EXCEPT !.id = c.hand.id, !.desired = c.hand.desired,
                                        !.suspensions = c.hand.suspensions]
    [] c.file = "all"      -> [o EXCEPT !.id = c.hand.id, !.desired = c.hand.desired,
                                        !.suspensions = c.hand.suspensions,
                                        !.ignored = c.hand.ignored, !.override = "hand"]

Configured(c, blockers) ==
  [NewObject EXCEPT !.desired = IF c.start THEN "started" ELSE "stopped",
                    !.ignored = Known(blockers), !.override = c.override]

Written(u) ==
  LET c == busy[u]  o == copy[u].object
  IN  CASE c.op = "start"     -> Started(o)
        [] c.op = "stop"      -> [o EXCEPT !.desired = "stopped"]
        [] c.op = "suspend"   -> [o EXCEPT !.suspensions = @ \cup {c.arg}]
        [] c.op = "unsuspend" -> [o EXCEPT !.suspensions = @ \ {c.arg}]
        [] c.op = "configure" -> ByHand(c, Configured(c, report[u]))
        [] c.op = "edit"      -> [ByHand(c, o) EXCEPT !.notes = @ \cup {u}]
        [] c.op \in {"update", "insert"} -> ByHand(c, NewObject)
        [] c.op = "delete"    -> NoObject

\* The optimize commands and an insertion write to the ID in the data, wherever they
\* read it; `edit`, `update` and `delete` to the ID on the command line.
Target(u) == IF busy[u].op \in {"edit", "update", "delete"} THEN busy[u].id ELSE Written(u).id

\* Mutant: the version is not sent along.
NoSentVersion(u) == 0..version

\* The store creates what is not there and changes what is; with an If-Match
\* header it changes only the version that was read.
SentVersion(u) == IF busy[u].op = "edit" THEN {copy[u].object.etag} ELSE 0..version

StoreTakes(u) ==
  IF busy[u].op = "insert" \/ Creates(busy[u]) THEN Target(u) \notin Existing
  ELSE Target(u) \in Existing /\ store[Target(u)].etag \in SentVersion(u)

\* The copy written back is not that of the object as it is.
Stale(u) == /\ busy[u].op \in {"start", "stop", "suspend", "unsuspend"}
            /\ Target(u) # copy[u].id \/ store[Target(u)].etag # copy[u].object.etag

\* A suspension lifted, or an object replaced, is no longer due; nor is one that its
\* user wrote over in the editor.
DueNow(u, id, heard) ==
  LET c == busy[u]
  IN  CASE c.op = "unsuspend" -> due[id] \ {c.arg}
        [] c.op = "suspend" /\ heard -> due[id] \cup {c.arg}
        [] c.op \in {"configure", "update", "insert", "delete"} -> {}
        [] c.op = "edit" /\ c.file # "none" -> {}
        [] OTHER -> due[id]
KeptNow(u, id, heard) ==
  LET c == busy[u]
  IN  CASE c.op = "edit" /\ heard -> kept[id] \cup {u}
        [] c.op \in {"configure", "update", "insert", "delete"} -> {}
        [] OTHER -> kept[id]

\* The write; when its answer is lost the user is told that it failed.
WriteObject(u) ==
  /\ Has(u, "write") /\ Accepts(u) /\ StoreTakes(u)
  /\ version' = version + 1
  /\ LET id == Target(u)
         new == Written(u)
     IN  \E heard \in BOOLEAN :
           /\ store' = [store EXCEPT ![id] =
                          IF new = NoObject THEN new ELSE [new EXCEPT !.etag = version + 1]]
           /\ due'   = [due EXCEPT ![id] = DueNow(u, id, heard)]
           /\ kept'  = [kept EXCEPT ![id] = KeptNow(u, id, heard)]
  /\ blind' = (blind \/ Stale(u))
  /\ Ended(u)
  /\ UNCHANGED begun

OptimizersNext ==
  \E u \in Users :
    \/ \E c \in Operations : BeginOperation(u, c)
    \/ Abandon(u) \/ ReadObject(u) \/ ReadReport(u) \/ WriteObject(u)

OptimizersSpec == OptimizersInit /\ [][OptimizersNext]_optimizerVars

-----------------------------------------------------------------------------
OptimizersTypeOK ==
  /\ \A id \in Ids : /\ store[id].id \in Ids
                     /\ store[id].desired \in {"none", "started", "stopped"}
                     /\ store[id].suspensions \subseteq SuspensionIds
                     /\ store[id].ignored \subseteq Blockers \ {"unknown"}
                     /\ store[id].notes \subseteq Users
                     /\ store[id].etag \in 0..version
  /\ version \in 0..MaxOperations /\ begun \in 0..MaxOperations /\ blind \in BOOLEAN
  /\ \A u \in Users : busy[u] \in Operations \cup {NoOperation}

(* As long as no optimize command wrote over an object from a stale copy,  *)
(* or over another than it read, a suspension that its user was told of is *)
(* in the object until somebody lifts it, replaces the object or edits its *)
(* settings: through starts, stops, other suspensions, lost answers and    *)
(* edits in any order.  What is lost otherwise ImplementsAtomic counts.    *)
SuspensionsSurvive ==
  ~blind => \A id \in Ids : due[id] \subseteq store[id].suspensions

(* Likewise every edit its user was told of is in the object, however many *)
(* users edit at a time: the version read goes with the write (edit.go).   *)
EditsAllKept ==
  ~blind => \A id \in Ids : kept[id] \subseteq store[id].notes

(* Unless its ignored blockers were written by hand, an optimizer ignores  *)
(* none that was not let pass by an override, and a hard one only if that  *)
(* for hard blockers was given: through all that is done to it afterwards, *)
(* from stale copies and by edits of everything else.  By hand they may be *)
(* anything: with `knowledge create`, `update` and `edit`, and with        *)
(* `configure --file`, which lays the file over the object after the check *)
(* (configure.go:395).  A hard blocker that fsoc does not know is none:    *)
(* assignToBlocker drops it before the check.                              *)
HardBlockersStop ==
  \A id \in Ids : store[id].override # "hand" =>
    /\ store[id].ignored # {} => store[id].override # "none"
    /\ "hard" \in store[id].ignored => store[id].override = "hard"

\* The object as its readers see it.
Contents(o) == [id |-> o.id, desired |-> o.desired, suspensions |-> o.suspensions, ignored |-> o.ignored,
                notes |-> o.notes, override |-> o.override]

\* The commands as they would be if each were one step.
Atomic ==
  INSTANCE AtomicOptimizers WITH
    None <- NoOperation, objects <- [id \in Ids |-> Contents(store[id])],
    asked <- busy, overwritten <- blind

(* Each command takes effect at one moment, on the object as it is then,   *)
(* although it reads and writes it in different requests; only an optimize *)
(* command may instead write over changes that it has not seen, and the    *)
(* flag tells (management.go:93, edit.go:65).                              *)
ImplementsAtomic == Atomic!Spec
=============================================================================
