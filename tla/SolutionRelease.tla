--------------------------- MODULE SolutionRelease ---------------------------
(***************************************************************************)
(* Users who push, validate, zap, delete, subscribe to and unsubscribe     *)
(* from a solution, and the platform which installs and deletes solutions  *)
(* in its own time.                                                        *)
(***************************************************************************)
EXTENDS SolutionTag, Sequences

CONSTANTS
    Users,
    Templated,     \* the users whose manifest has a template for a name
    EnvType,       \* the environment of their profiles, "dev" or another
    System,        \* the solution objects that are marked as system solutions
    Version,       \* the version in a user's manifest, which bump has set
    MaxCommands,   \* bound on the commands started, bump aside
    MaxUploads,    \* bound on the uploads that the platform accepts
    MaxDeletions   \* bound on the deletions that it records

ASSUME VersionAssumption == Version \in [Users -> Nat]

VARIABLES
    job,           \* the command that a user runs
    started,       \* the number of commands started
    uploads,       \* the uploads, with what became of them (platform)
    objects,       \* the solution objects (platform)
    subscribed,    \* those that the tenant is subscribed to (platform)
    requested,     \* deletions requested and not yet recorded (platform)
    deletions      \* the recorded deletions (platform)

platform == <<uploads, objects, subscribed, requested, deletions>>
vars == <<job, started, platform>>

SolutionNames == {"", "dev"} \cup CustomTags

\* The plans of an upload for each kind of manifest.
Plans == [t \in BOOLEAN |-> UploadPlans(t, EnvType)]

\* A command: what it is about and what it has seen.  Options are decided when they are used.
Idle == [at |-> "idle", success |-> FALSE, name |-> "", tag |-> "", version |-> 0, own |-> 0,
         id |-> <<"", "">>, subscribe |-> FALSE, seen |-> 0, left |-> {}]

\* The solution was uploaded and deleted before.
Earlier == <<[name |-> "", tag |-> "stable", status |-> "successful"]>>

Init ==
    /\ job = [u \in Users |-> Idle] /\ started = 0
    /\ uploads = <<>> /\ objects = {} /\ subscribed = {} /\ requested = {}
    /\ deletions = Earlier

At(u, place) == job[u].at = place

\* The command goes on with some of its record changed, ends, or ends with a report of success.
Continue(u, j) ==
    /\ job' = [job EXCEPT ![u] = j]
    /\ started' = started + IF job[u].at = "idle" THEN 1 ELSE 0
    /\ started' <= MaxCommands
End(u) == Continue(u, Idle)
Report(u, success) == Continue(u, [Idle EXCEPT !.success = success])

\* A command that fails at once leaves nothing behind and is not seen here, such as one about a
\* solution that was never uploaded.
Start(u, j) == At(u, "idle") /\ Continue(u, j)

\* log.Fatal after a call that failed, the last try of a subscription, a validation, a command
\* without --wait, the end of a wait for which there is a limit.
Fail(u) ==
    /\ ~At(u, "idle")
    /\ End(u)
    /\ UNCHANGED platform

-----------------------------------------------------------------------------
(* push, validate                                                          *)

Live(i) == uploads[i].state # "gone"
SameSolution(i, name, header) == uploads[i].name = name /\ uploads[i].header = header

\* The platform takes the versions of a solution in increasing order, and no name or tag that
\* is not one.
Accepts(name, header, v) ==
    /\ name # Raw /\ header # ""
    /\ \A i \in DOMAIN uploads : Live(i) /\ SameSolution(i, name, header) => uploads[i].version < v

\* A request of uploadSolution that is accepted, and where the command may go on.
Send(u, name, tag, header, v, places) ==
    /\ Accepts(name, header, v)
    /\ Len(uploads) < MaxUploads
    /\ uploads' = Append(uploads, [name |-> name, tag |-> tag, header |-> header, version |-> v,
                                   state |-> "pending"])
    /\ \E place \in places : Continue(u, [Idle EXCEPT !.at = place, !.own = Len(uploads')])
    /\ UNCHANGED <<objects, subscribed, requested, deletions>>

\* push: all that uploadSolution reads before the request is the user's own.  A bundle may
\* neither be waited for nor subscribed to (push.go:75): pushed under the header that its
\* directory would be, it is a push that ends here; under other headers it is left out.
Push(u) ==
    /\ At(u, "idle")
    /\ \E p \in {[name |-> p.name, tag |-> p.tag, header |-> p.header] : p \in Plans[(u \in Templated)]} :
           Send(u, p.name, p.tag, p.header, Version[u], {"subscribe", "wait"})

\* One of the tries of push --subscribe that finds the object; others change nothing.
SubscribeUploaded(u) ==
    LET id == SubscriptionId(uploads[job[u].own].name, uploads[job[u].own].header, EnvType)
    IN  /\ At(u, "subscribe")
        /\ id \in objects
        /\ subscribed' = subscribed \cup {id}
        /\ Continue(u, [job[u] EXCEPT !.at = "wait"])
        /\ UNCHANGED <<uploads, objects, requested, deletions>>

MatchingAnyVersion(own) ==
    {i \in DOMAIN uploads : /\ uploads[i].state \in {"installed", "failed"}
                            /\ SameSolution(i, own.name, own.header)}

MatchingRequestedTag(own) ==
    {i \in DOMAIN uploads : /\ uploads[i].state \in {"installed", "failed"}
                            /\ uploads[i].name = own.name /\ uploads[i].header = own.tag
                            /\ uploads[i].version = own.version}

\* The install records that match the filter of the wait.
Matching(own) ==
    {i \in DOMAIN uploads : /\ uploads[i].state \in {"installed", "failed"}
                            /\ SameSolution(i, own.name, own.header)
                            /\ uploads[i].version = own.version}

\* The wait ends when the last record is there.
PollInstall(u) ==
    LET found == Matching(uploads[job[u].own])
    IN  /\ At(u, "wait")
        /\ found # {}
        /\ Report(u, uploads[Max(found)].state = "installed")
        /\ UNCHANGED platform

-----------------------------------------------------------------------------
(* zap                                                                     *)

Zap(u) ==
    /\ \E name \in SolutionNames, tag \in SolutionTags \ {"stable"} :
           /\ ZapId(name, tag) \in objects
           /\ Start(u, [Idle EXCEPT !.at = "zap", !.name = name, !.tag = tag, !.left = {"install", "object"}])
    /\ UNCHANGED platform

\* The version after the last one installed, under the ID that the command believes in.
NextZapVersion(name, tag) ==
    LET installed == {i \in DOMAIN uploads : /\ uploads[i].state \in {"installed", "failed"}
                                             /\ SolutionId(uploads[i].name, uploads[i].header) = ZapId(name, tag)
                                             /\ uploads[i].header = tag}
    IN  1 + IF installed = {} THEN 0 ELSE uploads[Max(installed)].version

\* The two queries run in goroutines ...
ZapQuery(u) ==
    LET j == job[u]
    IN  /\ At(u, "zap")
        /\ \/ /\ "install" \in j.left
              /\ Continue(u, [j EXCEPT !.left = @ \ {"install"}, !.version = NextZapVersion(j.name, j.tag)])
           \/ /\ "object" \in j.left
              /\ ZapId(j.name, j.tag) \in objects
              /\ Continue(u, [j EXCEPT !.left = @ \ {"object"}])
        /\ UNCHANGED platform

\* ... and when both have answered, an empty solution is uploaded.
ZapUpload(u) ==
    /\ At(u, "zap") /\ job[u].left = {}
    /\ Send(u, job[u].name, job[u].tag, job[u].tag, job[u].version, {"wait"})

-----------------------------------------------------------------------------
(* delete                                                                  *)

\* The last recorded deletion of a solution, 0 if there is none.
LastDeletion(name, tag) ==
    Max({0} \cup {i \in DOMAIN deletions : deletions[i].name = name /\ deletions[i].tag = tag})

\* getSolutionDeletionObject: a deletion in progress is joined.
Delete(u) ==
    /\ \E name \in SolutionNames, tag \in SolutionTags :
           /\ \E i \in DOMAIN uploads : SameSolution(i, name, tag)
           /\ LET last == LastDeletion(name, tag)
                  j == [Idle EXCEPT !.name = name, !.tag = tag, !.own = Len(uploads)]
              IN  IF last # 0 /\ deletions[last].status = "inProgress"
                  THEN Start(u, [j EXCEPT !.at = "delete wait"])
                  ELSE Start(u, [j EXCEPT !.at = "delete send", !.seen = last])
    /\ UNCHANGED platform

SendDelete(u) ==
    /\ At(u, "delete send")
    /\ \E i \in DOMAIN uploads : Live(i) /\ SameSolution(i, job[u].name, job[u].tag)
    /\ Len(deletions) + Cardinality(requested) < MaxDeletions
    /\ requested' = requested \cup {[name |-> job[u].name, tag |-> job[u].tag]}
    /\ Continue(u, [job[u] EXCEPT !.at = "delete wait"])
    /\ UNCHANGED <<uploads, objects, subscribed, deletions>>

PollDeleteAnyRecord(u) ==
    LET last == LastDeletion(job[u].name, job[u].tag)
    IN  /\ At(u, "delete wait")
        /\ last # 0
        /\ deletions[last].status # "inProgress"
        /\ Report(u, deletions[last].status = "successful")
        /\ UNCHANGED platform

\* The wait ends with a record other than the one seen before that is not in progress.
PollDelete(u) ==
    LET last == LastDeletion(job[u].name, job[u].tag)
    IN  /\ At(u, "delete wait")
        /\ last # 0 /\ last # job[u].seen
        /\ deletions[last].status # "inProgress"
        /\ Report(u, deletions[last].status = "successful")
        /\ UNCHANGED platform

-----------------------------------------------------------------------------
(* subscribe, unsubscribe                                                  *)

\* An unsubscription looks at the solution object first.
Located(subscribe) == IF subscribe THEN "manage" ELSE "check"

\* manageSubscription; without a tag, and for "stable" and "dev", the name is the ID.
ManageSubscription(u) ==
    /\ \E tag \in CustomTags \cup {""}, subscribe \in BOOLEAN :
           Start(u, [Idle EXCEPT !.at = IF LocateNative(tag) THEN "locate" ELSE Located(subscribe),
                                 !.tag = tag, !.subscribe = subscribe])
    /\ UNCHANGED platform

\* Any error of the request for the native object leads to the pseudo-isolated one, whether
\* the native one is there or not.
LocateSolution(u) ==
    /\ At(u, "locate")
    /\ \E id \in {NativeId("", job[u].tag), PseudoId("", job[u].tag, EnvType)} :
           /\ id = NativeId("", job[u].tag) => id \in objects
           /\ Continue(u, [job[u] EXCEPT !.at = Located(job[u].subscribe), !.id = id])
    /\ UNCHANGED platform

\* isSystemSolution: nobody unsubscribes from one.
CheckSystem(u) ==
    /\ At(u, "check")
    /\ job[u].id \in objects
    /\ IF job[u].id \in System THEN End(u) ELSE Continue(u, [job[u] EXCEPT !.at = "manage"])
    /\ UNCHANGED platform

PatchSubscriptionBlindly(u) ==
    /\ At(u, "manage")
    /\ subscribed' = IF job[u].subscribe THEN subscribed \cup {job[u].id} ELSE subscribed \ {job[u].id}
    /\ Report(u, TRUE)
    /\ UNCHANGED <<uploads, objects, requested, deletions>>

\* The update of the solution object, which may be gone since it was looked at.
PatchSubscription(u) ==
    /\ At(u, "manage")
    /\ job[u].id \in objects
    /\ subscribed' = IF job[u].subscribe THEN subscribed \cup {job[u].id} ELSE subscribed \ {job[u].id}
    /\ Report(u, TRUE)
    /\ UNCHANGED <<uploads, objects, requested, deletions>>

-----------------------------------------------------------------------------
(* The platform                                                            *)

\* The solution object of an upload appears before it is installed.
CreateObject ==
    /\ \E i \in DOMAIN uploads :
           /\ uploads[i].state = "pending"
           /\ objects' = objects \cup {SolutionId(uploads[i].name, uploads[i].header)}
    /\ UNCHANGED <<job, started, uploads, subscribed, requested, deletions>>

\* Uploads of a solution are installed in order, or fail to.
Install ==
    /\ \E i \in DOMAIN uploads, state \in {"installed", "failed"} :
           /\ uploads[i].state = "pending"
           /\ SolutionId(uploads[i].name, uploads[i].header) \in objects
           /\ \A k \in 1..(i - 1) : SameSolution(k, uploads[i].name, uploads[i].header) => uploads[k].state # "pending"
           /\ uploads' = [uploads EXCEPT ![i].state = state]
    /\ UNCHANGED <<job, started, objects, subscribed, requested, deletions>>

RecordDeletion ==
    /\ \E r \in requested :
           /\ requested' = requested \ {r}
           /\ deletions' = Append(deletions, [name |-> r.name, tag |-> r.tag, status |-> "inProgress"])
    /\ UNCHANGED <<job, started, uploads, objects, subscribed>>

\* A deletion removes all that there is of the solution.
FinishDeletion ==
    /\ \E i \in DOMAIN deletions :
           LET d == deletions[i]
               id == SolutionId(d.name, d.tag)
           IN  /\ d.status = "inProgress"
               /\ \/ /\ deletions' = [deletions EXCEPT ![i].status = "successful"]
                     /\ uploads' = [k \in DOMAIN uploads |->
                            IF SameSolution(k, d.name, d.tag) THEN [uploads[k] EXCEPT !.state = "gone"] ELSE uploads[k]]
                     /\ objects' = objects \ {id} /\ subscribed' = subscribed \ {id}
                  \/ /\ deletions' = [deletions EXCEPT ![i].status = "failed"]
                     /\ UNCHANGED <<uploads, objects, subscribed>>
    /\ UNCHANGED <<job, started, requested>>

Platform == CreateObject \/ Install \/ RecordDeletion \/ FinishDeletion

Command(u) ==
    \/ Push(u) \/ SubscribeUploaded(u) \/ PollInstall(u)
    \/ Zap(u) \/ ZapQuery(u) \/ ZapUpload(u)
    \/ Delete(u) \/ SendDelete(u) \/ PollDelete(u)
    \/ ManageSubscription(u) \/ LocateSolution(u) \/ CheckSystem(u) \/ PatchSubscription(u)
    \/ Fail(u)

Next == Platform \/ \E u \in Users : Command(u)

Spec == Init /\ [][Next]_vars

\* A command that waits keeps asking.
FairSpec == Spec /\ \A u \in Users : WF_vars(PollInstall(u)) /\ WF_vars(PollDelete(u))
-----------------------------------------------------------------------------
(* Properties                                                              *)

Places == {"idle", "subscribe", "wait", "zap", "delete send", "delete wait", "locate",
           "check", "manage"}

\* Every variable stays in its domain: versions do not go down for a solution that lives
\* (upload.go:264), and a tenant is subscribed to nothing that does not exist (delete.go:52).
TypeOK ==
    /\ \A u \in Users : job[u].at \in Places
    /\ \A i, k \in DOMAIN uploads :
           i < k /\ Live(i) /\ SameSolution(i, uploads[k].name, uploads[k].header) =>
               uploads[i].version < uploads[k].version
    /\ subscribed \subseteq objects

\* A push sends the tag that the sources plainly ask for: what it decides twice it decides
\* alike (upload.go:92, 152).
DecisionsAgree ==
    \A u \in Users : At(u, "idle") => \A plan \in Plans[(u \in Templated)] :
        plan.asked # "" => plan.tag = plan.asked /\ plan.header # ""

\* What a push or zap reports to be installed is what it uploaded, or the same version of the
\* same solution uploaded again later, never something older (upload.go:303).
InstalledIsUploaded ==
    [][\A u \in Users : At(u, "wait") /\ job'[u].success =>
           \E i \in DOMAIN uploads : /\ i >= job[u].own /\ uploads[i].state = "installed"
                                     /\ SameSolution(i, uploads[job[u].own].name, uploads[job[u].own].header)
                                     /\ uploads[i].version = uploads[job[u].own].version]_vars

\* When a deletion is reported as successful, nothing is left of what was there when the
\* command started, also if others delete and upload at the same time (delete.go:138).
DeletedIsGone ==
    [][\A u \in Users : At(u, "delete wait") /\ job'[u].success =>
           \A i \in 1..job[u].own : SameSolution(i, job[u].name, job[u].tag) => ~Live(i)]_vars

\* A subscription on the command line changes the object of a solution that was uploaded with
\* the tag given there, whichever way it was isolated (subscribe.go:108).
SubscribesTagAsked ==
    [][\A u \in Users : At(u, "manage") /\ job'[u].success /\ LocateNative(job[u].tag) =>
           \E i \in DOMAIN uploads :
               uploads[i].tag = job[u].tag /\ SolutionId(uploads[i].name, uploads[i].header) = job[u].id]_vars

\* A wait without a limit ends once what was uploaded is installed or has failed to be,
\* unless somebody deletes it first (upload.go:303).
ProcessedPushReturns ==
    \A u \in Users :
        At(u, "wait") /\ uploads[job[u].own].state \in {"installed", "failed"} ~>
            At(u, "idle") \/ \E i \in DOMAIN uploads : ~Live(i)
=============================================================================
