------------------------ MODULE SolutionRelease_proofs ------------------------
(***************************************************************************)
(* Proofs about SolutionRelease, for any users, tags, manifests and        *)
(* environment, and for any number of commands, uploads and deletions.     *)
(***************************************************************************)
EXTENDS SolutionRelease, SequenceTheorems, WellFoundedInduction, TLAPS

-----------------------------------------------------------------------------
(* Largest elements and sequences                                          *)

LEMMA MaxExists ==
    ASSUME NEW n \in Nat, NEW S \in SUBSET (0..n), S # {}
    PROVE  /\ Max(S) \in S
           /\ \A y \in S : Max(S) >= y
<1> DEFINE R == {ss \in Nat \X Nat : ss[1] < ss[2]}
           T == {n - x : x \in S}
<1>1. IsWellFoundedOn(R, Nat)
  BY NatLessThanWellFounded DEF OpToRel
<1>2. \A x \in S : x \in 0..n
  OBVIOUS
<1>3. T \subseteq Nat 
  BY <1>2
<1>4. T # {}
  OBVIOUS
<1>5. \A a \in Nat, b \in Nat : a < b => <<a, b>> \in R
  BY Zenon
<1>6. \A t \in T : \E x \in S : t = n - x
  OBVIOUS
<1>7. \A x \in S : n - x \in T
  OBVIOUS
<1> HIDE DEF R, T
<1>8. PICK t \in T : \A y \in T : ~ (<<y, t>> \in R)
  BY <1>1, <1>3, <1>4, WFMin
<1>9. \A y \in T : y >= t
  <2>1. ASSUME NEW y \in T PROVE ~ (y < t)
    BY <1>3, <1>5, <1>8, Zenon
  <2> QED BY <1>3, <2>1
<1>10. \E x \in S : \A y \in S : x >= y
  BY <1>2, <1>3, <1>9, <1>6, <1>7
<1> QED BY <1>10 DEF Max

LEMMA MaxIs ==
    ASSUME NEW S \in SUBSET Int, NEW x \in S, \A y \in S : x >= y
    PROVE  Max(S) = x
<1>1. \A z \in S : (\A y \in S : z >= y) => z = x
  OBVIOUS
<1> QED BY <1>1 DEF Max

IsSequence(s) == \E S : s \in Seq(S)

LEMMA SequenceDomain ==
    ASSUME NEW s, IsSequence(s)
    PROVE  Len(s) \in Nat /\ DOMAIN s = 1..Len(s)
BY LenProperties DEF IsSequence

LEMMA AppendIsSequence ==
    ASSUME NEW s, IsSequence(s), NEW e
    PROVE  /\ IsSequence(Append(s, e))
           /\ Len(Append(s, e)) = Len(s) + 1
           /\ \A i \in 1..Len(s) : Append(s, e)[i] = s[i]
           /\ Append(s, e)[Len(s) + 1] = e
<1>1. PICK S : s \in Seq(S)
  BY DEF IsSequence
<1>2. s \in Seq(S \cup {e})
  BY <1>1, SeqMonotonic
<1> QED BY <1>2, AppendProperties DEF IsSequence

LEMMA FunctionIsSequence ==
    ASSUME NEW n \in Nat, NEW f, DOMAIN f = 1..n, f = [i \in 1..n |-> f[i]]
    PROVE  IsSequence(f) /\ Len(f) = n
<1>1. f \in [1..n -> {f[i] : i \in 1..n}]
  OBVIOUS
<1>2. f \in Seq({f[i] : i \in 1..n})
  BY <1>1, SeqDef, SMTT(20)
<1> QED BY <1>2, LenProperties DEF IsSequence

-----------------------------------------------------------------------------
(* The inductive invariant                                                 *)

UploadStates == {"pending", "installed", "failed", "gone"}

\* What an upload under a tag of somebody's own says of that tag: with native isolation the
\* platform is told the tag, with pseudo-isolation the tag is the name.
TagTells(r) ==
    /\ r.header \in CustomTags => r.tag = r.header
    /\ r.name \in CustomTags /\ r.header = SupportedTag(r.name, EnvType) => r.tag = r.name
    /\ r.name \in CustomTags /\ EnvType # "dev" => r.header # "stable"

IsUpload(r) ==
    /\ r = [name |-> r.name, tag |-> r.tag, header |-> r.header, version |-> r.version,
            state |-> r.state]
    /\ r.version \in Nat /\ r.state \in UploadStates
    /\ r.header # "" /\ TagTells(r)

IsDeletion(d) ==
    /\ d = [name |-> d.name, tag |-> d.tag, status |-> d.status]
    /\ d.status \in {"inProgress", "successful", "failed"}

UploadsOK == IsSequence(uploads) /\ \A i \in DOMAIN uploads : IsUpload(uploads[i])
DeletionsOK == IsSequence(deletions) /\ \A i \in DOMAIN deletions : IsDeletion(deletions[i])

VersionsGrow ==
    \A i, k \in DOMAIN uploads :
        i < k /\ Live(i) /\ SameSolution(i, uploads[k].name, uploads[k].header) =>
            uploads[i].version < uploads[k].version

ObjectsUploaded ==
    \A o \in objects : \E i \in DOMAIN uploads : o = SolutionId(uploads[i].name, uploads[i].header)

JobTags == SolutionTags \cup {""}
Jobs == [at : Places, success : BOOLEAN, name : SolutionNames, tag : JobTags, version : Nat,
         own : Nat, id : JobTags \X JobTags, subscribe : BOOLEAN, seen : Nat,
         left : SUBSET {"install", "object"}]

\* What a command has in mind, when there are n uploads.
JobSound(j, n) ==
    /\ j.at # "idle" => ~j.success
    /\ j.own \in 0..n
    /\ j.at \in {"subscribe", "wait"} => j.own # 0
    /\ j.at = "zap" => j.tag # "stable" /\ (j.name \in CustomTags => j.tag # SupportedTag(j.name, EnvType))
    /\ j.at \in {"check", "manage"} /\ LocateNative(j.tag) =>
           j.id = NativeId("", j.tag) \/ j.id = PseudoId("", j.tag, EnvType)

LastOf(ds, name, tag) ==
    Max({0} \cup {i \in DOMAIN ds : ds[i].name = name /\ ds[i].tag = tag})

AllGone(us, n, name, tag) ==
    \A i \in 1..n : us[i].name = name /\ us[i].header = tag => us[i].state = "gone"

\* The last deletion, unless the command saw it before it started, took place while the
\* command waited: nothing is left of what there was before.
DeletionSound(j, us, ds) ==
    LET last == LastOf(ds, j.name, j.tag)
    IN  /\ j.at \in {"delete send", "delete wait"}
        /\ last # 0 /\ last # j.seen
        /\ ds[last].status = "successful"
        => AllGone(us, j.own, j.name, j.tag)

JobsOK ==
    /\ job \in [Users -> Jobs]
    /\ \A u \in Users : JobSound(job[u], Len(uploads)) /\ DeletionSound(job[u], uploads, deletions)

ReleaseInv ==
    UploadsOK /\ DeletionsOK /\ VersionsGrow /\ ObjectsUploaded /\ JobsOK /\ subscribed \subseteq objects

LEMMA LastDeletionIs == \A name, tag : LastDeletion(name, tag) = LastOf(deletions, name, tag)
BY DEF LastDeletion, LastOf

\* If a deletion is the last of its solution, it is one of that solution.
LEMMA LastOfIs ==
    ASSUME NEW ds, IsSequence(ds), NEW name, NEW tag, NEW last, last = LastOf(ds, name, tag)
    PROVE  /\ last \in 0..Len(ds)
           /\ last # 0 => last \in DOMAIN ds /\ ds[last].name = name /\ ds[last].tag = tag
<1> DEFINE S == {0} \cup {i \in DOMAIN ds : ds[i].name = name /\ ds[i].tag = tag}
<1>1. Len(ds) \in Nat /\ DOMAIN ds = 1..Len(ds)
  BY SequenceDomain
<1>2. S \in SUBSET (0..Len(ds)) /\ S # {}
  BY <1>1
<1>3. last = Max(S)
  BY DEF LastOf
<1>4. last \in S
  BY <1>1, <1>2, <1>3, MaxExists
<1> QED BY <1>2, <1>4

LEMMA IdleSound == Idle \in Jobs /\ \A n \in Nat : JobSound(Idle, n)
<1>1. Idle \in Jobs
  BY DEF Idle, Jobs, JobTags, Places, SolutionNames
<1>2. \A n \in Nat : JobSound(Idle, n)
  BY DEF Idle, JobSound
<1> QED BY <1>1, <1>2

LEMMA InitReleaseInv == Init => ReleaseInv
<1> SUFFICES ASSUME Init PROVE ReleaseInv
  OBVIOUS
<1>1. UploadsOK /\ VersionsGrow /\ ObjectsUploaded /\ subscribed \subseteq objects /\ Len(uploads) = 0
  BY EmptySeq DEF Init, UploadsOK, VersionsGrow, ObjectsUploaded, IsSequence
<1>2. DeletionsOK
  <2> DEFINE d == [name |-> "", tag |-> "stable", status |-> "successful"]
  <2>1. IsDeletion(d) /\ deletions = <<d>>
    BY DEF Init, Earlier, IsDeletion
  <2> HIDE DEF d
  <2>2. <<d>> \in Seq({d})
    OBVIOUS
  <2>3. \A i \in DOMAIN <<d>> : <<d>>[i] = d
    OBVIOUS
  <2> QED BY <2>1, <2>2, <2>3 DEF DeletionsOK, IsSequence
<1>3. Idle \in Jobs /\ JobSound(Idle, 0)
  BY IdleSound
<1>4. DeletionSound(Idle, uploads, deletions)
  BY DEF Idle, DeletionSound
<1>5. JobsOK
  BY <1>1, <1>3, <1>4 DEF Init, JobsOK
<1> QED BY <1>1, <1>2, <1>5 DEF ReleaseInv

-----------------------------------------------------------------------------
(* Steps of a command that upload nothing                                  *)

LEMMA JobStep ==
    ASSUME ReleaseInv, UNCHANGED <<uploads, objects, deletions>>, subscribed' \subseteq objects,
           NEW u \in Users, NEW j \in Jobs, job' = [job EXCEPT ![u] = j],
           JobSound(j, Len(uploads)), DeletionSound(j, uploads, deletions)
    PROVE  ReleaseInv'
<1>1. UploadsOK' /\ DeletionsOK'
  BY DEF ReleaseInv, UploadsOK, DeletionsOK
<1>2. VersionsGrow' /\ ObjectsUploaded'
  BY DEF ReleaseInv, VersionsGrow, ObjectsUploaded, Live, SameSolution
<1>3. JobsOK'
  BY DEF ReleaseInv, JobsOK
<1> QED BY <1>1, <1>2, <1>3 DEF ReleaseInv

\* A command that ends.
LEMMA EndStep ==
    ASSUME ReleaseInv, UNCHANGED <<uploads, objects, deletions>>, subscribed' \subseteq objects,
           NEW u \in Users, NEW j \in Jobs, j.at = "idle", j.own = 0, Continue(u, j)
    PROVE  ReleaseInv'
<1>1. Len(uploads) \in Nat
  BY SequenceDomain DEF ReleaseInv, UploadsOK
<1>2. job' = [job EXCEPT ![u] = j]
  BY DEF Continue
<1>3. JobSound(j, Len(uploads))
  BY <1>1 DEF JobSound
<1>4. DeletionSound(j, uploads, deletions)
  BY DEF DeletionSound
<1> QED BY <1>2, <1>3, <1>4, JobStep

LEMMA IdleJob ==
    ASSUME NEW success \in BOOLEAN, NEW j, j = [Idle EXCEPT !.success = success]
    PROVE  j \in Jobs /\ j.at = "idle" /\ j.own = 0
BY IdleSound DEF Jobs, Idle

LEMMA FailStep ==
    ASSUME ReleaseInv, NEW u \in Users, Fail(u)
    PROVE  ReleaseInv'
<1>1. Continue(u, Idle) /\ UNCHANGED <<uploads, objects, subscribed, deletions>>
  BY DEF Fail, End, platform
<1>2. Idle \in Jobs /\ Idle.at = "idle" /\ Idle.own = 0
  BY IdleSound DEF Idle
<1> QED BY <1>1, <1>2, EndStep DEF ReleaseInv

LEMMA ReportStep ==
    ASSUME ReleaseInv, UNCHANGED <<uploads, objects, deletions>>, subscribed' \subseteq objects,
           NEW u \in Users, NEW success \in BOOLEAN, Report(u, success)
    PROVE  ReleaseInv'
<1> DEFINE j == [Idle EXCEPT !.success = success]
<1>1. Continue(u, j)
  BY DEF Report
<1> QED BY <1>1, IdleJob, EndStep

LEMMA PollStep ==
    ASSUME ReleaseInv, NEW u \in Users, PollInstall(u) \/ PollDelete(u)
    PROVE  ReleaseInv'
<1>1. PICK success \in BOOLEAN : Report(u, success) /\ UNCHANGED platform
  BY DEF PollInstall, PollDelete
<1> QED BY <1>1, ReportStep DEF platform, ReleaseInv

LEMMA PatchStep ==
    ASSUME ReleaseInv, NEW u \in Users, PatchSubscription(u)
    PROVE  ReleaseInv'
<1>1. Report(u, TRUE) /\ UNCHANGED <<uploads, objects, deletions>>
  BY DEF PatchSubscription
<1>2. subscribed' \subseteq objects
  BY DEF PatchSubscription, ReleaseInv
<1> QED BY <1>1, <1>2, ReportStep

LEMMA SubscribeStep ==
    ASSUME ReleaseInv, NEW u \in Users, SubscribeUploaded(u)
    PROVE  ReleaseInv'
<1> DEFINE j == [job[u] EXCEPT !.at = "wait"]
<1>1. job[u] \in Jobs /\ JobSound(job[u], Len(uploads)) /\ job[u].at = "subscribe"
  BY DEF ReleaseInv, JobsOK, SubscribeUploaded, At
<1>2. j \in Jobs /\ j.at = "wait" /\ j.own = job[u].own /\ j.success = job[u].success
  BY <1>1 DEF Jobs, Places
<1>3. job' = [job EXCEPT ![u] = j] /\ UNCHANGED <<uploads, objects, deletions>>
  BY DEF SubscribeUploaded, Continue
<1>4. subscribed' \subseteq objects
  BY DEF SubscribeUploaded, ReleaseInv
<1> HIDE DEF j
<1>5. JobSound(j, Len(uploads))
  BY <1>1, <1>2 DEF JobSound
<1>6. DeletionSound(j, uploads, deletions)
  BY <1>2 DEF DeletionSound
<1> QED BY <1>2, <1>3, <1>4, <1>5, <1>6, JobStep

LEMMA ZapStep ==
    ASSUME ReleaseInv, NEW u \in Users, Zap(u)
    PROVE  ReleaseInv'
<1>1. PICK name \in SolutionNames, tag \in SolutionTags \ {"stable"} :
         /\ ZapId(name, tag) \in objects
         /\ Start(u, [Idle EXCEPT !.at = "zap", !.name = name, !.tag = tag,
                                  !.left = {"install", "object"}])
  BY DEF Zap
<1> DEFINE j == [Idle EXCEPT !.at = "zap", !.name = name, !.tag = tag,
                             !.left = {"install", "object"}]
<1>2. /\ j \in Jobs /\ j.at = "zap" /\ j.own = 0 /\ ~j.success /\ j.name = name /\ j.tag = tag
  BY IdleSound DEF Jobs, JobTags, Places, Idle
<1>3. job' = [job EXCEPT ![u] = j] /\ UNCHANGED <<uploads, objects, subscribed, deletions>>
  BY <1>1 DEF Start, Continue, Zap, platform
<1>4. Len(uploads) \in Nat
  BY SequenceDomain DEF ReleaseInv, UploadsOK
\* A copy of somebody's own is zapped under the tag that it was uploaded with.
<1>5. ASSUME name \in CustomTags, tag = SupportedTag(name, EnvType) PROVE FALSE
  <2>1. tag = "dev" /\ EnvType # "dev"
    BY <1>5 DEF SupportedTag
  <2>2. <<name, "">> \in objects
    BY <1>1, <2>1 DEF ZapId
  <2>3. PICK i \in DOMAIN uploads : <<name, "">> = SolutionId(uploads[i].name, uploads[i].header)
    BY <2>2 DEF ReleaseInv, ObjectsUploaded
  <2>4. uploads[i].name = name /\ (uploads[i].header = "stable" \/ uploads[i].header = "")
    BY <2>3 DEF SolutionId
  <2>5. uploads[i].header # "" /\ TagTells(uploads[i])
    BY <2>3 DEF ReleaseInv, UploadsOK, IsUpload
  <2> QED BY <1>5, <2>1, <2>4, <2>5 DEF TagTells
<1> HIDE DEF j
<1>6. JobSound(j, Len(uploads))
  BY <1>2, <1>4, <1>5 DEF JobSound
<1>7. DeletionSound(j, uploads, deletions)
  BY <1>2 DEF DeletionSound
<1> QED BY <1>2, <1>3, <1>6, <1>7, JobStep DEF ReleaseInv

\* The version for an empty solution is a number.
LEMMA ZapVersionIs ==
    ASSUME UploadsOK, NEW name, NEW tag
    PROVE  NextZapVersion(name, tag) \in Nat
<1> DEFINE installed == {i \in DOMAIN uploads :
              /\ uploads[i].state \in {"installed", "failed"}
              /\ SolutionId(uploads[i].name, uploads[i].header) = ZapId(name, tag)
              /\ uploads[i].header = tag}
<1>1. Len(uploads) \in Nat /\ DOMAIN uploads = 1..Len(uploads)
  BY SequenceDomain DEF UploadsOK
<1>2. NextZapVersion(name, tag) =
         1 + IF installed = {} THEN 0 ELSE uploads[Max(installed)].version
  BY DEF NextZapVersion
<1>3. installed \in SUBSET (0..Len(uploads)) /\ installed \subseteq DOMAIN uploads
  BY <1>1
<1> HIDE DEF installed
<1>4. installed # {} => Max(installed) \in DOMAIN uploads
  BY <1>1, <1>3, MaxExists
<1>5. installed # {} => uploads[Max(installed)].version \in Nat
  BY <1>4 DEF UploadsOK, IsUpload
<1> QED BY <1>2, <1>5

LEMMA ZapQueryStep ==
    ASSUME ReleaseInv, NEW u \in Users, ZapQuery(u)
    PROVE  ReleaseInv'
<1>1. job[u] \in Jobs /\ JobSound(job[u], Len(uploads)) /\ job[u].at = "zap"
  BY DEF ReleaseInv, JobsOK, ZapQuery, At
<1>2. NextZapVersion(job[u].name, job[u].tag) \in Nat
  BY ZapVersionIs DEF ReleaseInv
<1>3. PICK j \in Jobs :
         /\ job' = [job EXCEPT ![u] = j]
         /\ j.at = "zap" /\ j.own = job[u].own /\ j.success = job[u].success
         /\ j.name = job[u].name /\ j.tag = job[u].tag
  <2> DEFINE k == [job[u] EXCEPT !.left = @ \ {"install"},
                                 !.version = NextZapVersion(job[u].name, job[u].tag)]
             l == [job[u] EXCEPT !.left = @ \ {"object"}]
  <2>1. /\ k \in Jobs /\ k.at = "zap" /\ k.own = job[u].own /\ k.success = job[u].success
        /\ k.name = job[u].name /\ k.tag = job[u].tag
    BY <1>1, <1>2 DEF Jobs
  <2>2. /\ l \in Jobs /\ l.at = "zap" /\ l.own = job[u].own /\ l.success = job[u].success
        /\ l.name = job[u].name /\ l.tag = job[u].tag
    BY <1>1 DEF Jobs
  <2>3. Continue(u, k) \/ Continue(u, l)
    BY DEF ZapQuery
  <2> HIDE DEF k, l
  <2> QED BY <2>1, <2>2, <2>3 DEF Continue
<1>4. UNCHANGED <<uploads, objects, subscribed, deletions>>
  BY DEF ZapQuery, platform
<1>5. JobSound(j, Len(uploads))
  BY <1>1, <1>3 DEF JobSound
<1>6. DeletionSound(j, uploads, deletions)
  BY <1>3 DEF DeletionSound
<1> QED BY <1>3, <1>4, <1>5, <1>6, JobStep DEF ReleaseInv

LEMMA PlainJobSound ==
    ASSUME NEW j, NEW n \in Nat, j.own \in 0..n, ~j.success,
           j.at \notin {"subscribe", "wait", "zap"},
           j.at \notin {"check", "manage"} \/ ~LocateNative(j.tag)
    PROVE  JobSound(j, n)
BY DEF JobSound

LEMMA DeleteStep ==
    ASSUME ReleaseInv, NEW u \in Users, Delete(u)
    PROVE  ReleaseInv'
<1>1. PICK name \in SolutionNames, tag \in SolutionTags :
         LET last == LastDeletion(name, tag)
             j == [Idle EXCEPT !.name = name, !.tag = tag, !.own = Len(uploads)]
         IN  IF last # 0 /\ deletions[last].status = "inProgress"
             THEN Start(u, [j EXCEPT !.at = "delete wait"])
             ELSE Start(u, [j EXCEPT !.at = "delete send", !.seen = last])
  BY DEF Delete
<1> DEFINE last == LastDeletion(name, tag)
           i == [Idle EXCEPT !.name = name, !.tag = tag, !.own = Len(uploads)]
           k == [i EXCEPT !.at = "delete wait"]
           l == [i EXCEPT !.at = "delete send", !.seen = last]
<1>2. UNCHANGED <<uploads, objects, subscribed, deletions>>
  BY DEF Delete, platform
<1>3. Len(uploads) \in Nat /\ Len(deletions) \in Nat
  BY SequenceDomain DEF ReleaseInv, UploadsOK, DeletionsOK
<1>4. last = LastOf(deletions, name, tag) /\ last \in Nat
  BY <1>3, LastDeletionIs, LastOfIs DEF ReleaseInv, DeletionsOK
<1> HIDE DEF last
<1>5. i \in Jobs /\ i.name = name /\ i.tag = tag /\ i.own = Len(uploads) /\ ~i.success /\ i.seen = 0
  BY <1>3, IdleSound DEF Jobs, JobTags, Idle
<1> HIDE DEF i
<1>6. /\ k \in Jobs /\ k.at = "delete wait" /\ k.name = name /\ k.tag = tag
      /\ k.own = Len(uploads) /\ ~k.success
  BY <1>5 DEF Jobs, Places
<1>7. /\ l \in Jobs /\ l.at = "delete send" /\ l.name = name /\ l.tag = tag
      /\ l.own = Len(uploads) /\ ~l.success /\ l.seen = last
  BY <1>4, <1>5 DEF Jobs, Places
<1>8. IF last # 0 /\ deletions[last].status = "inProgress"
      THEN job' = [job EXCEPT ![u] = k] ELSE job' = [job EXCEPT ![u] = l]
  BY <1>1 DEF Start, Continue, i, last
<1> HIDE DEF k, l
<1>9. JobSound(k, Len(uploads))
  <2>1. k.own \in 0..Len(uploads)
    <3>1. k.own = Len(uploads)
      BY <1>6
    <3> QED BY <1>3, <3>1
  <2>2. k.at \notin {"subscribe", "wait", "zap"} /\ k.at \notin {"check", "manage"}
    BY <1>6
  <2> QED BY <1>3, <1>6, <2>1, <2>2, PlainJobSound, Zenon
<1>10. JobSound(l, Len(uploads))
  <2>1. l.own \in 0..Len(uploads)
    <3>1. l.own = Len(uploads)
      BY <1>7
    <3> QED BY <1>3, <3>1
  <2>2. l.at \notin {"subscribe", "wait", "zap"} /\ l.at \notin {"check", "manage"}
    BY <1>7
  <2> QED BY <1>3, <1>7, <2>1, <2>2, PlainJobSound, Zenon
\* A deletion in progress is joined; one that is over is what has been seen.
<1>11. deletions[last].status = "inProgress" => DeletionSound(k, uploads, deletions)
  BY <1>4, <1>6 DEF DeletionSound
<1>12. DeletionSound(l, uploads, deletions)
  BY <1>4, <1>7 DEF DeletionSound
<1>13. CASE last # 0 /\ deletions[last].status = "inProgress"
  <2>1. job' = [job EXCEPT ![u] = k]
    BY <1>8, <1>13, Zenon
  <2> QED BY <1>2, <1>6, <1>9, <1>11, <1>13, <2>1, JobStep DEF ReleaseInv
<1>14. CASE ~ (last # 0 /\ deletions[last].status = "inProgress")
  <2>1. job' = [job EXCEPT ![u] = l]
    BY <1>8, <1>14, Zenon
  <2> QED BY <1>2, <1>7, <1>10, <1>12, <2>1, JobStep DEF ReleaseInv
<1> QED BY <1>13, <1>14

LEMMA SendDeleteStep ==
    ASSUME ReleaseInv, NEW u \in Users, SendDelete(u)
    PROVE  ReleaseInv'
<1> DEFINE j == [job[u] EXCEPT !.at = "delete wait"]
<1>1. /\ job[u] \in Jobs /\ job[u].at = "delete send"
      /\ JobSound(job[u], Len(uploads)) /\ DeletionSound(job[u], uploads, deletions)
  BY DEF ReleaseInv, JobsOK, SendDelete, At
<1>2. /\ j \in Jobs /\ j.at = "delete wait" /\ j.own = job[u].own /\ j.success = job[u].success
      /\ j.name = job[u].name /\ j.tag = job[u].tag /\ j.seen = job[u].seen
  BY <1>1 DEF Jobs, Places
<1>3. job' = [job EXCEPT ![u] = j] /\ UNCHANGED <<uploads, objects, subscribed, deletions>>
  BY DEF SendDelete, Continue
<1> HIDE DEF j
<1>4. JobSound(j, Len(uploads))
  BY <1>1, <1>2 DEF JobSound
<1>5. DeletionSound(j, uploads, deletions)
  BY <1>1, <1>2 DEF DeletionSound
<1> QED BY <1>2, <1>3, <1>4, <1>5, JobStep DEF ReleaseInv

LEMMA ManageStep ==
    ASSUME ReleaseInv, NEW u \in Users, ManageSubscription(u)
    PROVE  ReleaseInv'
<1>0. Len(uploads) \in Nat /\ 0 \in 0..Len(uploads)
  BY SequenceDomain DEF ReleaseInv, UploadsOK
<1>1. PICK tag \in CustomTags \cup {""}, subscribe \in BOOLEAN :
         Start(u, [Idle EXCEPT !.at = IF LocateNative(tag) THEN "locate" ELSE Located(subscribe),
                               !.tag = tag, !.subscribe = subscribe])
  BY DEF ManageSubscription
<1> DEFINE place == IF LocateNative(tag) THEN "locate" ELSE Located(subscribe)
           j == [Idle EXCEPT !.at = place, !.tag = tag, !.subscribe = subscribe]
<1>2. /\ place \in Places /\ place \in {"locate", "check", "manage"}
      /\ place \notin {"check", "manage"} \/ ~LocateNative(tag)
  BY DEF Places, Located
<1>3. job' = [job EXCEPT ![u] = j] /\ UNCHANGED <<uploads, objects, subscribed, deletions>>
  BY <1>1 DEF Start, Continue, ManageSubscription, platform
<1> HIDE DEF place
<1>4. j \in Jobs /\ j.at = place /\ j.own = 0 /\ ~j.success /\ j.tag = tag
  BY <1>2, IdleSound DEF Jobs, JobTags, SolutionTags, Idle
<1> HIDE DEF j
<1>6. JobSound(j, Len(uploads))
  <2>1. j.own \in 0..Len(uploads)
    <3>1. j.own = 0
      BY <1>4
    <3> QED BY <1>0, <3>1, Zenon
  <2>2. j.at \notin {"subscribe", "wait", "zap"}
    BY <1>2, <1>4
  <2>3. (j.at \notin {"check", "manage"} \/ ~LocateNative(j.tag)) /\ ~j.success
    BY <1>2, <1>4, Zenon
  <2> QED BY <1>0, <2>1, <2>2, <2>3, PlainJobSound, Zenon
<1>7. DeletionSound(j, uploads, deletions)
  BY <1>2, <1>4 DEF DeletionSound
<1> QED BY <1>3, <1>4, <1>6, <1>7, JobStep DEF ReleaseInv

LEMMA LocateStep ==
    ASSUME ReleaseInv, NEW u \in Users, LocateSolution(u)
    PROVE  ReleaseInv'
<1> DEFINE tag == job[u].tag
           place == Located(job[u].subscribe)
<1>1. job[u] \in Jobs /\ JobSound(job[u], Len(uploads)) /\ job[u].at = "locate"
  BY DEF ReleaseInv, JobsOK, LocateSolution, At
<1>2. tag \in JobTags
  BY <1>1 DEF Jobs
<1>3. place \in {"check", "manage"} /\ place \in Places
  BY DEF Located, Places
<1>4. PICK id \in {NativeId("", tag), PseudoId("", tag, EnvType)} :
          Continue(u, [job[u] EXCEPT !.at = place, !.id = id])
  BY Zenon DEF LocateSolution
<1> DEFINE j == [job[u] EXCEPT !.at = place, !.id = id]
<1>5. job' = [job EXCEPT ![u] = j] /\ UNCHANGED <<uploads, objects, subscribed, deletions>>
  BY <1>4 DEF LocateSolution, Continue, platform
<1> HIDE DEF tag, place
<1>6. id \in JobTags \X JobTags
  <2>1. NativeId("", tag) \in JobTags \X JobTags
    BY <1>2 DEF NativeId, JobTags, SolutionTags
  <2>2. PseudoId("", tag, EnvType) \in JobTags \X JobTags
    BY <1>2 DEF PseudoId, JobTags, SolutionTags
  <2> QED BY <1>4, <2>1, <2>2, Zenon
<1>7. /\ j \in Jobs /\ j.at = place /\ j.id = id /\ j.own = job[u].own
      /\ j.success = job[u].success /\ j.tag = tag
  BY <1>1, <1>3, <1>6 DEF Jobs, tag
<1> HIDE DEF j
<1>8. JobSound(j, Len(uploads))
  BY <1>1, <1>3, <1>4, <1>7 DEF JobSound
<1>9. DeletionSound(j, uploads, deletions)
  BY <1>3, <1>7 DEF DeletionSound
<1> QED BY <1>5, <1>7, <1>8, <1>9, JobStep DEF ReleaseInv

LEMMA CheckStep ==
    ASSUME ReleaseInv, NEW u \in Users, CheckSystem(u)
    PROVE  ReleaseInv'
<1>1. job[u] \in Jobs /\ JobSound(job[u], Len(uploads)) /\ job[u].at = "check"
  BY DEF ReleaseInv, JobsOK, CheckSystem, At
<1>2. UNCHANGED <<uploads, objects, subscribed, deletions>>
  BY DEF CheckSystem, platform
<1>3. CASE End(u)
  <2>1. Continue(u, Idle) /\ Idle \in Jobs /\ Idle.at = "idle" /\ Idle.own = 0
    BY <1>3, IdleSound DEF End, Idle
  <2> QED BY <1>2, <2>1, EndStep DEF ReleaseInv
<1> DEFINE j == [job[u] EXCEPT !.at = "manage"]
<1>4. CASE Continue(u, j)
  <2>1. job' = [job EXCEPT ![u] = j]
    BY <1>4 DEF Continue
  <2>2. /\ j \in Jobs /\ j.at = "manage" /\ j.id = job[u].id /\ j.own = job[u].own
        /\ j.success = job[u].success /\ j.tag = job[u].tag
    BY <1>1 DEF Jobs, Places
  <2> HIDE DEF j
  <2>3. JobSound(j, Len(uploads))
    BY <1>1, <2>2 DEF JobSound
  <2>4. DeletionSound(j, uploads, deletions)
    BY <2>2 DEF DeletionSound
  <2> QED BY <1>2, <2>1, <2>2, <2>3, <2>4, JobStep DEF ReleaseInv
<1> QED BY <1>3, <1>4 DEF CheckSystem

-----------------------------------------------------------------------------
(* Uploads                                                                 *)

\* The name, tag and header that a directory and its sources lead to agree on a tag of
\* somebody's own.
LEMMA IsolateTells ==
    ASSUME NEW s, NEW templated \in BOOLEAN, NEW noIsolate \in BOOLEAN,
           NEW q \in EmbeddedConditionalIsolate(s, templated, noIsolate, EnvType)
    PROVE  TagTells(q)
<1> USE TagsAssumption
<1>1. CASE templated /\ ~noIsolate
  <2>1. PICK t : /\ t \notin {"", NoTag}
                 /\ q = [name |-> ToSuffix(t), tag |-> t, header |-> SupportedTag(t, EnvType)]
    BY <1>1 DEF EmbeddedConditionalIsolate
  <2>2. q.name = ToSuffix(t) /\ q.tag = t /\ q.header = SupportedTag(t, EnvType)
    BY <2>1
  <2>3. q.header \notin CustomTags
    BY <2>2 DEF SupportedTag
  <2>4. q.name \in CustomTags => q.name = t /\ t # "stable"
    BY <2>2 DEF ToSuffix
  <2>5. q.name \in CustomTags /\ EnvType # "dev" => q.header # "stable"
    BY <2>2, <2>4 DEF SupportedTag
  <2> QED BY <2>2, <2>3, <2>4, <2>5 DEF TagTells
<1>2. CASE ~ (templated /\ ~noIsolate)
  <2>1. PICK t : q = [name |-> IF templated THEN Raw ELSE "", tag |-> t, header |-> t]
    BY <1>2 DEF EmbeddedConditionalIsolate
  <2>2. q.tag = q.header
    BY <2>1
  <2>3. q.name \notin CustomTags
    BY <2>1 DEF Raw
  <2> QED BY <2>2, <2>3 DEF TagTells
<1> QED BY <1>1, <1>2

\* An upload that the platform accepts; what waits for it waits for something younger than
\* all that was there.
LEMMA SendStep ==
    ASSUME ReleaseInv, NEW u \in Users, NEW name, NEW tag, NEW header, NEW v \in Nat,
           NEW places \in SUBSET {"subscribe", "wait"}, Send(u, name, tag, header, v, places),
           TagTells([name |-> name, tag |-> tag, header |-> header, version |-> v,
                     state |-> "pending"])
    PROVE  ReleaseInv'
<1> DEFINE r == [name |-> name, tag |-> tag, header |-> header, version |-> v, state |-> "pending"]
           n == Len(uploads)
<1>0. n \in Nat /\ DOMAIN uploads = 1..n /\ IsSequence(uploads)
  BY SequenceDomain DEF ReleaseInv, UploadsOK
<1>1. /\ r.name = name /\ r.tag = tag /\ r.header = header /\ r.version = v
      /\ r.state = "pending" /\ TagTells(r)
      /\ r = [name |-> r.name, tag |-> r.tag, header |-> r.header, version |-> r.version,
              state |-> r.state]
  OBVIOUS
<1>2. uploads' = Append(uploads, r) /\ UNCHANGED <<objects, subscribed, deletions>>
  BY DEF Send
<1>3. /\ header # ""
      /\ \A i \in DOMAIN uploads : Live(i) /\ SameSolution(i, name, header) => uploads[i].version < v
  BY DEF Send, Accepts
<1> HIDE DEF r
<1>4. IsUpload(r)
  BY <1>1, <1>3 DEF IsUpload, UploadStates
<1>5. /\ IsSequence(uploads') /\ Len(uploads') = n + 1 /\ DOMAIN uploads' = 1..(n + 1)
      /\ \A i \in 1..n : uploads'[i] = uploads[i]
      /\ uploads'[n + 1] = r
  BY <1>0, <1>2, AppendIsSequence, SequenceDomain
<1>6. UploadsOK'
  BY <1>0, <1>4, <1>5 DEF ReleaseInv, UploadsOK
<1>7. VersionsGrow'
  <2> SUFFICES ASSUME NEW i \in 1..(n + 1), NEW k \in 1..(n + 1), i < k,
                      uploads'[i].state # "gone", uploads'[i].name = uploads'[k].name,
                      uploads'[i].header = uploads'[k].header
               PROVE  uploads'[i].version < uploads'[k].version
    BY <1>5 DEF VersionsGrow, Live, SameSolution
  <2>1. i \in 1..n
    BY <1>0
  <2>2. CASE k = n + 1
    BY <1>0, <1>1, <1>3, <1>5, <2>1, <2>2 DEF Live, SameSolution
  <2>3. CASE k # n + 1
    <3>1. k \in 1..n
      BY <1>0, <2>3
    <3> QED BY <1>0, <1>5, <2>1, <3>1 DEF ReleaseInv, VersionsGrow, Live, SameSolution
  <2> QED BY <2>2, <2>3
<1>8. ObjectsUploaded'
  BY <1>0, <1>2, <1>5 DEF ReleaseInv, ObjectsUploaded
<1>9. DeletionsOK' /\ (subscribed \subseteq objects)'
  BY <1>2 DEF ReleaseInv, DeletionsOK
<1>10. PICK place \in places : Continue(u, [Idle EXCEPT !.at = place, !.own = Len(uploads')])
  BY DEF Send
<1> DEFINE j == [Idle EXCEPT !.at = place, !.own = n + 1]
<1>11. j \in Jobs /\ j.at = place /\ ~j.success
  <2>1. n + 1 \in Nat
    BY <1>0
  <2>2. place \in Places
    BY DEF Places
  <2> HIDE DEF n
  <2>3. j \in Jobs
    BY <2>1, <2>2, IdleSound DEF Jobs, Idle
  <2> QED BY <2>3 DEF Idle
<1>12. j.own = n + 1
  BY DEF Idle
<1>13. job' = [job EXCEPT ![u] = j]
  BY <1>5, <1>10 DEF Continue
<1> HIDE DEF j
<1>14. JobSound(j, n + 1)
  <2>1. j.own \in 0..(n + 1) /\ j.own # 0
    BY <1>0, <1>12
  <2>2. j.at # "zap" /\ j.at \notin {"check", "manage"}
    BY <1>11
  <2> QED BY <1>11, <2>1, <2>2 DEF JobSound
<1>15. DeletionSound(j, uploads', deletions)
  BY <1>11 DEF DeletionSound
<1>16. ASSUME NEW w \in Users PROVE JobSound(job[w], n + 1)
  <2>1. JobSound(job[w], n)
    BY DEF ReleaseInv, JobsOK
  <2>2. job[w].own \in 0..(n + 1)
    <3>1. job[w].own \in 0..n
      BY <2>1 DEF JobSound
    <3> QED BY <1>0, <3>1
  <2> HIDE DEF n
  <2> QED BY <2>1, <2>2 DEF JobSound
<1>17. ASSUME NEW w \in Users PROVE DeletionSound(job[w], uploads', deletions)
  <2>1. DeletionSound(job[w], uploads, deletions) /\ JobSound(job[w], n)
    BY DEF ReleaseInv, JobsOK
  <2>2. \A i \in 1..job[w].own : uploads'[i] = uploads[i]
    <3>1. job[w].own \in 0..n
      BY <2>1 DEF JobSound
    <3> QED BY <1>0, <1>5, <3>1
  <2>3. AllGone(uploads, job[w].own, job[w].name, job[w].tag)
            => AllGone(uploads', job[w].own, job[w].name, job[w].tag)
    BY <2>2 DEF AllGone
  <2> QED BY <2>1, <2>3 DEF DeletionSound
<1>18. JobsOK'
  BY <1>2, <1>5, <1>11, <1>13, <1>14, <1>15, <1>16, <1>17 DEF ReleaseInv, JobsOK
<1> QED BY <1>6, <1>7, <1>8, <1>9, <1>18 DEF ReleaseInv

LEMMA PushStep ==
    ASSUME ReleaseInv, NEW u \in Users, Push(u)
    PROVE  ReleaseInv'
<1>0. PICK templated \in BOOLEAN : \E p \in Plans[templated] :
         Send(u, p.name, p.tag, p.header, Version[u], {"subscribe", "wait"})
  <2> DEFINE b == u \in Templated
  <2>1. \E p \in Plans[b] :
           Send(u, p.name, p.tag, p.header, Version[u], {"subscribe", "wait"})
    BY DEF Push
  <2>2. b \in BOOLEAN
    OBVIOUS
  <2> HIDE DEF b
  <2> QED BY <2>1, <2>2
<1>1. PICK p \in Plans[templated] :
         Send(u, p.name, p.tag, p.header, Version[u], {"subscribe", "wait"})
  BY <1>0
<1>2. PICK s \in Sources, noIsolate \in BOOLEAN :
         \E q \in EmbeddedConditionalIsolate(s, templated, noIsolate, EnvType) :
             p = [name |-> q.name, tag |-> q.tag, header |-> q.header, asked |-> AskedTag(s)]
  BY DEF Plans, UploadPlans
<1>3. PICK q \in EmbeddedConditionalIsolate(s, templated, noIsolate, EnvType) :
         p.name = q.name /\ p.tag = q.tag /\ p.header = q.header
  BY <1>2
<1>4. TagTells(q)
  BY IsolateTells
<1> DEFINE r == [name |-> p.name, tag |-> p.tag, header |-> p.header, version |-> Version[u],
                 state |-> "pending"]
<1>5. r.name = q.name /\ r.tag = q.tag /\ r.header = q.header
  BY <1>3
<1>6. Version[u] \in Nat
  BY VersionAssumption
<1>7. TagTells(r)
  BY <1>4, <1>5 DEF TagTells
<1> QED BY <1>1, <1>6, <1>7, SendStep

LEMMA ZapUploadStep ==
    ASSUME ReleaseInv, NEW u \in Users, ZapUpload(u)
    PROVE  ReleaseInv'
<1> DEFINE j == job[u]
           r == [name |-> j.name, tag |-> j.tag, header |-> j.tag, version |-> j.version,
                 state |-> "pending"]
<1>1. j \in Jobs /\ JobSound(j, Len(uploads)) /\ j.at = "zap"
  BY DEF ReleaseInv, JobsOK, ZapUpload, At
<1>2. j.version \in Nat /\ Send(u, j.name, j.tag, j.tag, j.version, {"wait"})
  BY <1>1 DEF Jobs, ZapUpload
<1>3. j.tag # "stable" /\ (j.name \in CustomTags => j.tag # SupportedTag(j.name, EnvType))
  BY <1>1 DEF JobSound
<1> HIDE DEF j
<1>4. r.name = j.name /\ r.tag = j.tag /\ r.header = j.tag
  OBVIOUS
<1>5. TagTells(r)
  BY <1>3, <1>4 DEF TagTells
<1> QED BY <1>2, <1>5, SendStep

-----------------------------------------------------------------------------
(* Steps of the platform                                                   *)

LEMMA CreateObjectStep == ReleaseInv /\ CreateObject => ReleaseInv'
<1> SUFFICES ASSUME ReleaseInv, CreateObject PROVE ReleaseInv'
  OBVIOUS
<1>1. PICK i \in DOMAIN uploads :
         objects' = objects \cup {SolutionId(uploads[i].name, uploads[i].header)}
  BY DEF CreateObject
<1>2. UNCHANGED <<job, uploads, subscribed, deletions>>
  BY DEF CreateObject
<1>3. UploadsOK' /\ DeletionsOK' /\ JobsOK'
  BY <1>2 DEF ReleaseInv, UploadsOK, DeletionsOK, JobsOK
<1>4. VersionsGrow'
  BY <1>2 DEF ReleaseInv, VersionsGrow, Live, SameSolution
<1>5. ObjectsUploaded' /\ (subscribed \subseteq objects)'
  BY <1>1, <1>2 DEF ReleaseInv, ObjectsUploaded
<1> QED BY <1>3, <1>4, <1>5 DEF ReleaseInv

\* Uploads of which only the state changes, and which do not come back.
Progress ==
    /\ IsSequence(uploads') /\ Len(uploads') = Len(uploads)
    /\ \A i \in DOMAIN uploads :
           /\ IsUpload(uploads'[i])
           /\ uploads'[i].name = uploads[i].name /\ uploads'[i].tag = uploads[i].tag
           /\ uploads'[i].header = uploads[i].header /\ uploads'[i].version = uploads[i].version
           /\ uploads[i].state = "gone" => uploads'[i].state = "gone"

LEMMA ProgressIsSound ==
    ASSUME ReleaseInv, Progress
    PROVE  /\ UploadsOK' /\ VersionsGrow'
           /\ objects' \subseteq objects => ObjectsUploaded'
           /\ \A n \in 0..Len(uploads) : \A name, tag :
                  AllGone(uploads, n, name, tag) => AllGone(uploads', n, name, tag)
<1>1. /\ IsSequence(uploads') /\ Len(uploads') = Len(uploads) /\ Len(uploads) \in Nat
      /\ DOMAIN uploads = 1..Len(uploads) /\ DOMAIN uploads' = 1..Len(uploads)
  BY SequenceDomain DEF Progress, ReleaseInv, UploadsOK
<1>2. UploadsOK'
  BY <1>1 DEF Progress, UploadsOK
<1>3. VersionsGrow'
  BY <1>1 DEF Progress, ReleaseInv, VersionsGrow, Live, SameSolution
<1>4. objects' \subseteq objects => ObjectsUploaded'
  BY <1>1 DEF Progress, ReleaseInv, ObjectsUploaded
<1>5. ASSUME NEW n \in 0..Len(uploads), NEW name, NEW tag, AllGone(uploads, n, name, tag)
      PROVE  AllGone(uploads', n, name, tag)
  <2>1. \A i \in 1..n : i \in DOMAIN uploads
    BY <1>1
  <2> QED BY <1>5, <2>1 DEF Progress, AllGone
<1> QED BY <1>2, <1>3, <1>4, <1>5

\* An upload in another state.
LEMMA UploadInState ==
    ASSUME NEW r, IsUpload(r), NEW state \in UploadStates,
           NEW t, t = [r EXCEPT !.state = state]
    PROVE  /\ IsUpload(t) /\ t.state = state
           /\ t.name = r.name /\ t.tag = r.tag /\ t.header = r.header /\ t.version = r.version
<1>1. t = [name |-> r.name, tag |-> r.tag, header |-> r.header, version |-> r.version,
           state |-> state]
  BY DEF IsUpload
<1>2. /\ t.name = r.name /\ t.tag = r.tag /\ t.header = r.header /\ t.version = r.version
      /\ t.state = state
  BY <1>1
<1>3. TagTells(t)
  BY <1>2 DEF IsUpload, TagTells
<1> QED BY <1>1, <1>2, <1>3 DEF IsUpload

LEMMA InstallStep == ReleaseInv /\ Install => ReleaseInv'
<1> SUFFICES ASSUME ReleaseInv, Install PROVE ReleaseInv'
  OBVIOUS
<1>1. PICK i \in DOMAIN uploads, state \in {"installed", "failed"} :
         uploads[i].state = "pending" /\ uploads' = [uploads EXCEPT ![i].state = state]
  BY DEF Install
<1>2. UNCHANGED <<job, objects, subscribed, deletions>>
  BY DEF Install
<1>3. /\ IsSequence(uploads) /\ Len(uploads) \in Nat /\ DOMAIN uploads = 1..Len(uploads)
      /\ \A k \in DOMAIN uploads : IsUpload(uploads[k])
  BY SequenceDomain DEF ReleaseInv, UploadsOK
<1>4. DOMAIN uploads' = 1..Len(uploads) /\ uploads' = [k \in 1..Len(uploads) |-> uploads'[k]]
  BY <1>1, <1>3
<1>5. IsSequence(uploads') /\ Len(uploads') = Len(uploads)
  BY <1>3, <1>4, FunctionIsSequence
<1>6. uploads'[i] = [uploads[i] EXCEPT !.state = state]
  BY <1>1
<1>7. \A k \in DOMAIN uploads : k # i => uploads'[k] = uploads[k]
  BY <1>1
<1>8. state \in UploadStates
  BY DEF UploadStates
<1>9. Progress
  BY <1>1, <1>3, <1>5, <1>6, <1>7, <1>8, UploadInState DEF Progress
<1>10. ASSUME NEW w \in Users
       PROVE  JobSound(job[w], Len(uploads)) /\ DeletionSound(job[w], uploads', deletions)
  <2>1. JobSound(job[w], Len(uploads)) /\ DeletionSound(job[w], uploads, deletions)
    BY DEF ReleaseInv, JobsOK
  <2>2. job[w].own \in 0..Len(uploads)
    BY <2>1 DEF JobSound
  <2> QED BY <1>9, <2>1, <2>2, ProgressIsSound DEF DeletionSound
<1>11. JobsOK'
  BY <1>2, <1>5, <1>10 DEF ReleaseInv, JobsOK
<1>12. DeletionsOK' /\ (subscribed \subseteq objects)' /\ objects' \subseteq objects
  BY <1>2 DEF ReleaseInv, DeletionsOK
<1> QED BY <1>9, <1>11, <1>12, ProgressIsSound DEF ReleaseInv

LEMMA RecordDeletionStep == ReleaseInv /\ RecordDeletion => ReleaseInv'
<1> SUFFICES ASSUME ReleaseInv, RecordDeletion PROVE ReleaseInv'
  OBVIOUS
<1>1. PICK r \in requested :
         deletions' = Append(deletions, [name |-> r.name, tag |-> r.tag, status |-> "inProgress"])
  BY DEF RecordDeletion
<1>2. UNCHANGED <<job, uploads, objects, subscribed>>
  BY DEF RecordDeletion
<1> DEFINE d == [name |-> r.name, tag |-> r.tag, status |-> "inProgress"]
           n == Len(deletions)
<1>3. IsDeletion(d) /\ d.status = "inProgress" /\ deletions' = Append(deletions, d)
  BY <1>1 DEF IsDeletion
<1> HIDE DEF d
<1>4. n \in Nat /\ DOMAIN deletions = 1..n /\ IsSequence(deletions)
  BY SequenceDomain DEF ReleaseInv, DeletionsOK
<1>5. /\ IsSequence(deletions') /\ DOMAIN deletions' = 1..(n + 1)
      /\ \A i \in 1..n : deletions'[i] = deletions[i]
      /\ deletions'[n + 1] = d
  BY <1>3, <1>4, AppendIsSequence, SequenceDomain
<1>6. DeletionsOK'
  BY <1>3, <1>4, <1>5 DEF ReleaseInv, DeletionsOK
\* The last deletion of a solution is the new one, which is in progress, or the one it was.
<1>7. ASSUME NEW name, NEW tag
      PROVE  \/ LastOf(deletions', name, tag) = n + 1
             \/ LastOf(deletions', name, tag) = LastOf(deletions, name, tag)
  <2> DEFINE S(ds) == {0} \cup {i \in DOMAIN ds : ds[i].name = name /\ ds[i].tag = tag}
  <2>1. CASE d.name = name /\ d.tag = tag
    <3>1. n + 1 \in S(deletions') /\ S(deletions') \in SUBSET Int
      BY <1>4, <1>5, <2>1
    <3>2. \A i \in S(deletions') : n + 1 >= i
      BY <1>4, <1>5
    <3> HIDE DEF S
    <3>3. Max(S(deletions')) = n + 1
      BY <3>1, <3>2, MaxIs
    <3> QED BY <3>3 DEF S, LastOf
  <2>2. CASE ~ (d.name = name /\ d.tag = tag)
    <3>1. S(deletions') = S(deletions)
      BY <1>4, <1>5, <2>2
    <3> HIDE DEF S
    <3>2. Max(S(deletions')) = Max(S(deletions))
      BY <3>1
    <3> QED BY <3>2 DEF S, LastOf
  <2> QED BY <2>1, <2>2
<1>8. ASSUME NEW w \in Users PROVE DeletionSound(job[w], uploads, deletions')
  <2> DEFINE j == job[w]
             last == LastOf(deletions, j.name, j.tag)
  <2>1. DeletionSound(j, uploads, deletions)
    BY DEF ReleaseInv, JobsOK
  <2>2. CASE LastOf(deletions', j.name, j.tag) = n + 1
    BY <1>3, <1>5, <2>2 DEF DeletionSound
  <2>3. CASE LastOf(deletions', j.name, j.tag) = last
    <3>1. last \in 0..n
      BY <1>4, LastOfIs
    <3>2. last # 0 => deletions'[last] = deletions[last]
      BY <1>4, <1>5, <3>1
    <3> QED BY <2>1, <2>3, <3>2 DEF DeletionSound
  <2> QED BY <1>7, <2>2, <2>3
<1>9. JobsOK'
  BY <1>2, <1>8 DEF ReleaseInv, JobsOK
<1>10. UploadsOK' /\ ObjectsUploaded' /\ (subscribed \subseteq objects)'
  BY <1>2 DEF ReleaseInv, UploadsOK, ObjectsUploaded
<1>11. VersionsGrow'
  BY <1>2 DEF ReleaseInv, VersionsGrow, Live, SameSolution
<1> QED BY <1>6, <1>9, <1>10, <1>11 DEF ReleaseInv

LEMMA DeletionInStatus ==
    ASSUME NEW d, IsDeletion(d), NEW status \in {"successful", "failed"},
           NEW e, e = [d EXCEPT !.status = status]
    PROVE  IsDeletion(e) /\ e.status = status /\ e.name = d.name /\ e.tag = d.tag
<1>1. e = [name |-> d.name, tag |-> d.tag, status |-> status]
  BY DEF IsDeletion
<1>2. e.name = d.name /\ e.tag = d.tag /\ e.status = status
  BY <1>1
<1> QED BY <1>1, <1>2 DEF IsDeletion

LEMMA FinishDeletionStep == ReleaseInv /\ FinishDeletion => ReleaseInv'
<1> SUFFICES ASSUME ReleaseInv, FinishDeletion PROVE ReleaseInv'
  OBVIOUS
<1> DEFINE m == Len(uploads)
           n == Len(deletions)
<1>1. /\ m \in Nat /\ DOMAIN uploads = 1..m /\ IsSequence(uploads)
      /\ \A k \in DOMAIN uploads : IsUpload(uploads[k])
  BY SequenceDomain DEF ReleaseInv, UploadsOK
<1>2. /\ n \in Nat /\ DOMAIN deletions = 1..n /\ IsSequence(deletions)
      /\ \A k \in DOMAIN deletions : IsDeletion(deletions[k])
  BY SequenceDomain DEF ReleaseInv, DeletionsOK
<1>3. job' = job
  BY DEF FinishDeletion
<1>4. PICK i \in DOMAIN deletions, status \in {"successful", "failed"} :
         /\ deletions' = [deletions EXCEPT ![i].status = status]
         /\ status = "successful" =>
                uploads' = [k \in DOMAIN uploads |->
                    IF SameSolution(k, deletions[i].name, deletions[i].tag)
                    THEN [uploads[k] EXCEPT !.state = "gone"] ELSE uploads[k]]
         /\ status = "failed" => uploads' = uploads
         /\ objects' \subseteq objects /\ (subscribed \subseteq objects)'
  BY DEF FinishDeletion, ReleaseInv
<1> DEFINE d == deletions[i]
<1>5. /\ IsSequence(deletions') /\ DOMAIN deletions' = 1..n
      /\ \A k \in 1..n : k # i => deletions'[k] = deletions[k]
      /\ deletions'[i] = [d EXCEPT !.status = status]
  <2>1. DOMAIN deletions' = 1..n /\ deletions' = [k \in 1..n |-> deletions'[k]]
    BY <1>2, <1>4
  <2>2. IsSequence(deletions')
    BY <1>2, <2>1, FunctionIsSequence
  <2> QED BY <1>2, <1>4, <2>1, <2>2
<1>6. /\ IsDeletion(deletions'[i]) /\ deletions'[i].status = status
      /\ deletions'[i].name = d.name /\ deletions'[i].tag = d.tag
  BY <1>2, <1>5, DeletionInStatus
<1>7. DeletionsOK'
  BY <1>2, <1>5, <1>6 DEF DeletionsOK
<1>8. Progress /\ (status = "successful" => \A k \in 1..m :
                      uploads[k].name = d.name /\ uploads[k].header = d.tag => uploads'[k].state = "gone")
  <2>1. CASE status = "failed"
    BY <1>1, <1>4, <2>1 DEF Progress
  <2>2. CASE status = "successful"
    <3>1. DOMAIN uploads' = 1..m /\ uploads' = [k \in 1..m |-> uploads'[k]]
      BY <1>1, <1>4, <2>2
    <3>2. IsSequence(uploads') /\ Len(uploads') = m
      BY <1>1, <3>1, FunctionIsSequence
    <3>3. ASSUME NEW k \in 1..m
          PROVE  /\ IsUpload(uploads'[k])
                 /\ uploads'[k].name = uploads[k].name /\ uploads'[k].tag = uploads[k].tag
                 /\ uploads'[k].header = uploads[k].header /\ uploads'[k].version = uploads[k].version
                 /\ uploads[k].state = "gone" => uploads'[k].state = "gone"
                 /\ SameSolution(k, d.name, d.tag) => uploads'[k].state = "gone"
      <4>1. CASE SameSolution(k, d.name, d.tag)
        <5>1. uploads'[k] = [uploads[k] EXCEPT !.state = "gone"]
          BY <1>1, <1>4, <2>2, <4>1
        <5>2. "gone" \in UploadStates
          BY DEF UploadStates
        <5> QED BY <1>1, <5>1, <5>2, UploadInState
      <4>2. CASE ~ SameSolution(k, d.name, d.tag)
        <5>1. uploads'[k] = uploads[k]
          BY <1>1, <1>4, <2>2, <4>2
        <5> QED BY <1>1, <4>2, <5>1
      <4> QED BY <4>1, <4>2
    <3>4. Progress
      BY <1>1, <3>2, <3>3 DEF Progress
    <3> QED BY <3>3, <3>4 DEF SameSolution
  <2> QED BY <2>1, <2>2
<1>9. ASSUME NEW name, NEW tag PROVE LastOf(deletions', name, tag) = LastOf(deletions, name, tag)
  <2>1. \A k \in 1..n : deletions'[k].name = deletions[k].name /\ deletions'[k].tag = deletions[k].tag
    BY <1>5, <1>6
  <2>2. {k \in DOMAIN deletions' : deletions'[k].name = name /\ deletions'[k].tag = tag}
          = {k \in DOMAIN deletions : deletions[k].name = name /\ deletions[k].tag = tag}
    BY <1>2, <1>5, <2>1
  <2> QED BY <2>2 DEF LastOf
<1>10. ASSUME NEW w \in Users
       PROVE  JobSound(job[w], m) /\ DeletionSound(job[w], uploads', deletions')
  <2> DEFINE j == job[w]
             last == LastOf(deletions, j.name, j.tag)
  <2>1. JobSound(j, m) /\ DeletionSound(j, uploads, deletions)
    BY DEF ReleaseInv, JobsOK
  <2>2. j.own \in 0..m
    BY <2>1 DEF JobSound
  <2>3. LastOf(deletions', j.name, j.tag) = last
    BY <1>9
  <2>4. /\ last \in 0..n
        /\ last # 0 => deletions[last].name = j.name /\ deletions[last].tag = j.tag
    BY <1>2, LastOfIs
  <2> HIDE DEF last, j
  <2>5. CASE last # i
    <3>1. last # 0 => deletions'[last] = deletions[last]
      BY <1>2, <1>5, <2>4, <2>5
    <3>2. AllGone(uploads, j.own, j.name, j.tag) => AllGone(uploads', j.own, j.name, j.tag)
      BY <1>8, <2>2, ProgressIsSound
    <3>3. DeletionSound(j, uploads', deletions')
      BY <2>1, <2>3, <3>1, <3>2 DEF DeletionSound, last
    <3> QED BY <2>1, <3>3 DEF j
  \* This is the deletion that the command waits for, or it is over.
  <2>6. CASE last = i
    <3>1. d.name = j.name /\ d.tag = j.tag
      BY <1>2, <1>4, <2>4, <2>6
    <3>2. status = "successful" => AllGone(uploads', j.own, j.name, j.tag)
      <4>1. \A k \in 1..j.own : k \in 1..m
        BY <1>1, <2>2
      <4>2. \A k \in 1..m : uploads'[k].name = uploads[k].name /\ uploads'[k].header = uploads[k].header
        BY <1>1, <1>8 DEF Progress
      <4> QED BY <1>8, <3>1, <4>1, <4>2 DEF AllGone
    <3>3. DeletionSound(j, uploads', deletions')
      BY <1>6, <2>3, <2>6, <3>2 DEF DeletionSound
    <3> QED BY <2>1, <3>3 DEF j
  <2> QED BY <2>5, <2>6
<1>11. JobsOK'
  BY <1>3, <1>8, <1>10 DEF ReleaseInv, JobsOK, Progress
<1> QED BY <1>4, <1>7, <1>8, <1>11, ProgressIsSound DEF ReleaseInv

-----------------------------------------------------------------------------
(* The invariant and what it says                                          *)

LEMMA CommandStep ==
    ASSUME ReleaseInv, NEW u \in Users, Command(u)
    PROVE  ReleaseInv'
BY PushStep, SubscribeStep, PollStep, ZapStep, ZapQueryStep, ZapUploadStep, DeleteStep,
   SendDeleteStep, ManageStep, LocateStep, CheckStep, PatchStep, FailStep DEF Command

LEMMA ReleaseInvariant == Spec => []ReleaseInv
<1>1. ReleaseInv /\ [Next]_vars => ReleaseInv'
  <2> SUFFICES ASSUME ReleaseInv, [Next]_vars PROVE ReleaseInv'
    OBVIOUS
  <2>1. CASE Platform
    BY <2>1, CreateObjectStep, InstallStep, RecordDeletionStep, FinishDeletionStep DEF Platform
  <2>2. CASE \E u \in Users : Command(u)
    BY <2>2, CommandStep
  <2>3. CASE UNCHANGED vars
    <3>1. UNCHANGED <<job, uploads, objects, subscribed, deletions>>
      BY <2>3 DEF vars, platform
    <3> QED BY <3>1 DEF ReleaseInv, UploadsOK, DeletionsOK, VersionsGrow, Live, SameSolution,
                        ObjectsUploaded, JobsOK
  <2> QED BY <2>1, <2>2, <2>3 DEF Next
<1> QED BY <1>1, InitReleaseInv, PTL DEF Spec

\* The platform never has two versions of a living solution in the wrong order, and a tenant is
\* subscribed to nothing that does not exist (uploadSolution, manageSubscription).
THEOREM ReleaseTypesCorrect == Spec => []TypeOK
<1>1. ReleaseInv => TypeOK
  <2> SUFFICES ASSUME ReleaseInv PROVE TypeOK
    OBVIOUS
  <2>1. \A u \in Users : job[u].at \in Places
    BY DEF ReleaseInv, JobsOK, Jobs
  <2> QED BY <2>1 DEF ReleaseInv, VersionsGrow, TypeOK
<1> QED BY <1>1, ReleaseInvariant, PTL

\* Only what waits for an answer reports.
LEMMA Reporters ==
    ASSUME ReleaseInv, Next, NEW u \in Users, job[u].at # "idle", job'[u].success
    PROVE  PollInstall(u) \/ PollDelete(u) \/ PatchSubscription(u)
<1>1. job \in [Users -> Jobs] /\ ~job[u].success
  BY DEF ReleaseInv, JobsOK, JobSound
<1>2. job' # job
  BY <1>1
<1>3. ~ Platform
  BY <1>2 DEF Platform, CreateObject, Install, RecordDeletion, FinishDeletion
<1>4. PICK w \in Users : Command(w)
  BY <1>3, Zenon DEF Next
<1>5. \E j : job' = [job EXCEPT ![w] = j]
  BY <1>4, Zenon DEF Command, Push, SubscribeUploaded, PollInstall, Zap, ZapQuery, ZapUpload, Delete,
     SendDelete, PollDelete, ManageSubscription, LocateSolution, CheckSystem, PatchSubscription, Fail,
     Send, Start, Continue, Report, End
<1>6. w = u
  BY <1>1, <1>5
<1>7. ~ Push(u) /\ ~ Zap(u) /\ ~ Delete(u) /\ ~ ManageSubscription(u)
  BY DEF Push, Zap, Delete, ManageSubscription, Start, At
<1>8. \A place : ~ [job[u] EXCEPT !.at = place].success
  BY <1>1 DEF Jobs
<1>9. ~ SubscribeUploaded(u) /\ ~ SendDelete(u)
  BY <1>1, <1>8 DEF SubscribeUploaded, SendDelete, Continue
<1>10. ~ ZapQuery(u)
  <2> SUFFICES ASSUME ZapQuery(u) PROVE FALSE
    OBVIOUS
  <2> DEFINE k == [job[u] EXCEPT !.left = @ \ {"install"},
                                 !.version = NextZapVersion(job[u].name, job[u].tag)]
             l == [job[u] EXCEPT !.left = @ \ {"object"}]
  <2>1. ~ k.success /\ ~ l.success
    BY <1>1 DEF Jobs
  <2>2. job' = [job EXCEPT ![u] = k] \/ job' = [job EXCEPT ![u] = l]
    BY DEF ZapQuery, Continue
  <2> HIDE DEF k, l
  <2> QED BY <1>1, <2>1, <2>2
<1>11. ~ LocateSolution(u)
  <2> SUFFICES ASSUME LocateSolution(u) PROVE FALSE
    OBVIOUS
  <2>1. PICK place, id : job' = [job EXCEPT ![u] = [job[u] EXCEPT !.at = place, !.id = id]]
    BY Zenon DEF LocateSolution, Continue
  <2>2. ~ [job[u] EXCEPT !.at = place, !.id = id].success
    BY <1>1 DEF Jobs
  <2> QED BY <1>1, <2>1, <2>2
<1>12. ~ ZapUpload(u)
  <2> SUFFICES ASSUME ZapUpload(u) PROVE FALSE
    OBVIOUS
  <2>1. PICK place, own : job' = [job EXCEPT ![u] = [Idle EXCEPT !.at = place, !.own = own]]
    BY Zenon DEF ZapUpload, Send, Continue
  <2>2. ~ [Idle EXCEPT !.at = place, !.own = own].success
    BY DEF Idle
  <2> QED BY <1>1, <2>1, <2>2
<1>13. ~ Fail(u)
  <2>1. ~ Idle.success
    BY DEF Idle
  <2> QED BY <1>1, <2>1 DEF Fail, End, Continue
<1>14. ~ CheckSystem(u)
  <2>1. ~ Idle.success /\ ~ [job[u] EXCEPT !.at = "manage"].success
    BY <1>8 DEF Idle
  <2> QED BY <1>1, <2>1 DEF CheckSystem, End, Continue
<1> QED BY <1>4, <1>6, <1>7, <1>9, <1>10, <1>11, <1>12, <1>13, <1>14 DEF Command

\* No push or zap reports an older installation of the solution as its own: a wait that ends
\* well has found what it uploaded itself or what somebody uploaded since (upload.go:303).
THEOREM WaitsForItsOwn == Spec => InstalledIsUploaded
<1>1. ReleaseInv /\ [Next]_vars =>
        [\A u \in Users : At(u, "wait") /\ job'[u].success =>
            \E i \in DOMAIN uploads :
                /\ i >= job[u].own /\ uploads[i].state = "installed"
                /\ SameSolution(i, uploads[job[u].own].name, uploads[job[u].own].header)
                /\ uploads[i].version = uploads[job[u].own].version]_vars
  <2> SUFFICES ASSUME ReleaseInv, Next, NEW u \in Users, At(u, "wait"), job'[u].success
               PROVE  \E i \in DOMAIN uploads :
                /\ i >= job[u].own /\ uploads[i].state = "installed"
                /\ SameSolution(i, uploads[job[u].own].name, uploads[job[u].own].header)
                /\ uploads[i].version = uploads[job[u].own].version
    OBVIOUS
  <2> DEFINE own == job[u].own
             found == Matching(uploads[own])
  <2>1. job \in [Users -> Jobs] /\ JobSound(job[u], Len(uploads)) /\ job[u].at = "wait"
    BY DEF ReleaseInv, JobsOK, At
  <2>2. Len(uploads) \in Nat /\ DOMAIN uploads = 1..Len(uploads)
    BY SequenceDomain DEF ReleaseInv, UploadsOK
  <2>3. own \in 1..Len(uploads)
    <3>1. own \in 0..Len(uploads) /\ own # 0
      BY <2>1 DEF JobSound
    <3> QED BY <2>2, <3>1
  <2>4. PollInstall(u)
    BY <2>1, Reporters DEF PollDelete, PatchSubscription, At
  <2>5. found # {} /\ job' = [job EXCEPT ![u] = [Idle EXCEPT !.success = uploads[Max(found)].state = "installed"]]
    BY <2>4 DEF PollInstall, Report, Continue
  <2>6. found \in SUBSET (0..Len(uploads))
    BY <2>2 DEF Matching
  <2>7. Max(found) \in found
    BY <2>2, <2>5, <2>6, MaxExists
  <2> DEFINE i == Max(found)
  <2>8. uploads[i].state = "installed"
    <3>1. [Idle EXCEPT !.success = uploads[i].state = "installed"].success = (uploads[i].state = "installed")
      BY DEF Idle
    <3> QED BY <2>1, <2>5, <3>1, Zenon
  <2> HIDE DEF found
  <2>9. /\ i \in DOMAIN uploads /\ SameSolution(i, uploads[own].name, uploads[own].header)
        /\ uploads[i].version = uploads[own].version
    BY <2>7, Zenon DEF found, Matching
  \* An older upload that is still there has an older version.
  <2>10. i >= own
    <3> SUFFICES ASSUME i < own PROVE FALSE
      BY <2>2, <2>3, <2>9
    <3>1. uploads[i].version < uploads[own].version
      BY <2>2, <2>3, <2>8, <2>9 DEF ReleaseInv, VersionsGrow, Live
    <3>2. uploads[own].version \in Nat
      BY <2>2, <2>3 DEF ReleaseInv, UploadsOK, IsUpload
    <3> QED BY <2>9, <3>1, <3>2
  <2> QED BY <2>8, <2>9, <2>10
<1> QED BY <1>1, ReleaseInvariant, PTL DEF Spec, InstalledIsUploaded

\* A deletion that is reported as successful has removed all that was there when the command
\* started, whether the command requested it or joined it (getSolutionDeletionObject).
THEOREM DeletionsDelete == Spec => DeletedIsGone
<1>1. ReleaseInv /\ [Next]_vars =>
        [\A u \in Users : At(u, "delete wait") /\ job'[u].success =>
            \A i \in 1..job[u].own : SameSolution(i, job[u].name, job[u].tag) => ~Live(i)]_vars
  <2> SUFFICES ASSUME ReleaseInv, Next, NEW u \in Users, At(u, "delete wait"), job'[u].success
               PROVE  \A i \in 1..job[u].own : SameSolution(i, job[u].name, job[u].tag) => ~Live(i)
    OBVIOUS
  <2> DEFINE last == LastDeletion(job[u].name, job[u].tag)
  <2>1. job \in [Users -> Jobs] /\ DeletionSound(job[u], uploads, deletions) /\ job[u].at = "delete wait"
    BY DEF ReleaseInv, JobsOK, At
  <2>2. PollDelete(u)
    BY <2>1, Reporters DEF PollInstall, PatchSubscription, At
  <2>3. /\ last # 0 /\ last # job[u].seen
        /\ job' = [job EXCEPT ![u] = [Idle EXCEPT !.success = deletions[last].status = "successful"]]
    BY <2>2 DEF PollDelete, Report, Continue
  <2>4. deletions[last].status = "successful"
    <3> HIDE DEF last
    <3>1. [Idle EXCEPT !.success = deletions[last].status = "successful"].success
             = (deletions[last].status = "successful")
      BY DEF Idle
    <3> QED BY <2>1, <2>3, <3>1
  <2>5. AllGone(uploads, job[u].own, job[u].name, job[u].tag)
    BY <2>1, <2>3, <2>4, LastDeletionIs DEF DeletionSound
  <2> QED BY <2>5 DEF AllGone, SameSolution, Live
<1> QED BY <1>1, ReleaseInvariant, PTL DEF Spec, DeletedIsGone

\* A subscription finds the copy that was uploaded under the tag given, be it isolated natively
\* or by its name (locateSolutionUrl).
THEOREM SubscriptionsFindTheCopy == Spec => SubscribesTagAsked
<1>1. ReleaseInv /\ [Next]_vars =>
        [\A u \in Users : At(u, "manage") /\ job'[u].success /\ LocateNative(job[u].tag) =>
            \E i \in DOMAIN uploads :
               uploads[i].tag = job[u].tag /\ SolutionId(uploads[i].name, uploads[i].header) = job[u].id]_vars
  <2> SUFFICES ASSUME ReleaseInv, Next, NEW u \in Users, At(u, "manage"), job'[u].success,
                      LocateNative(job[u].tag)
               PROVE  \E i \in DOMAIN uploads :
               uploads[i].tag = job[u].tag /\ SolutionId(uploads[i].name, uploads[i].header) = job[u].id
    OBVIOUS
  <2> DEFINE tag == job[u].tag
             id == job[u].id
  <2>1. job[u] \in Jobs /\ JobSound(job[u], Len(uploads)) /\ job[u].at = "manage"
    BY DEF ReleaseInv, JobsOK, At
  <2>2. tag \in JobTags
    BY <2>1 DEF Jobs
  <2>3. tag \in CustomTags
    BY <2>2 DEF LocateNative, JobTags, SolutionTags
  <2>4. id = NativeId("", tag) \/ id = PseudoId("", tag, EnvType)
    BY <2>1 DEF JobSound
  <2>5. PatchSubscription(u)
    BY <2>1, Reporters DEF PollInstall, PollDelete, At
  <2>6. id \in objects
    BY <2>5 DEF PatchSubscription
  <2> HIDE DEF id, tag
  <2>7. PICK i \in DOMAIN uploads : id = SolutionId(uploads[i].name, uploads[i].header)
    BY <2>6 DEF ReleaseInv, ObjectsUploaded
  <2> DEFINE r == uploads[i]
  <2>8. TagTells(r) /\ r.header # ""
    BY <2>7 DEF ReleaseInv, UploadsOK, IsUpload
  <2>9. id = SolutionId(r.name, r.header)
    BY <2>7
  <2> HIDE DEF r
  <2>10. tag \notin {"", "stable", "dev"}
    BY <2>3, TagsAssumption
  <2> DEFINE env == IF r.header = "stable" THEN "" ELSE r.header
             pseudo == IF EnvType = "dev" THEN "" ELSE "dev"
  <2>11. id = <<r.name, env>>
    BY <2>9 DEF SolutionId
  <2>12. PseudoId("", tag, EnvType) = <<tag, pseudo>> /\ NativeId("", tag) = <<"", tag>>
    BY DEF PseudoId, NativeId
  <2>13. CASE id = NativeId("", tag)
    <3>1. tag = env
      <4> HIDE DEF env
      <4>1. <<r.name, env>> = <<"", tag>>
        BY <2>13, <2>11, <2>12, Zenon
      <4> QED BY <4>1
    <3> QED BY <2>3, <2>7, <2>8, <2>10, <3>1 DEF TagTells, r, id, tag
  <2>14. CASE id = PseudoId("", tag, EnvType)
    <3>1. r.name = tag /\ env = pseudo
      <4> HIDE DEF env, pseudo
      <4>1. <<r.name, env>> = <<tag, pseudo>>
        BY <2>14, <2>11, <2>12, Zenon
      <4> QED BY <4>1
    <3>2. r.header = SupportedTag(tag, EnvType)
      BY <2>8, <2>10, <3>1 DEF SupportedTag
    <3> QED BY <2>3, <2>7, <2>8, <3>1, <3>2 DEF TagTells, r, id, tag
  <2> QED BY <2>4, <2>13, <2>14
<1> QED BY <1>1, ReleaseInvariant, PTL DEF Spec, SubscribesTagAsked

-----------------------------------------------------------------------------
(* The two decisions about the tag                                         *)

LEMMA MinIs ==
    ASSUME NEW S \in SUBSET Int, NEW x \in S, \A y \in S : x <= y
    PROVE  Min(S) = x
<1>1. \A z \in S : (\A y \in S : z <= y) => z = x
  OBVIOUS
<1> QED BY <1>1 DEF Min

LEMMA FirstIs ==
    ASSUME NEW S, NEW candidates, DOMAIN candidates \in SUBSET Int, NEW i \in DOMAIN candidates,
           candidates[i] \notin S, \A k \in DOMAIN candidates : k < i => candidates[k] \in S
    PROVE  FirstNotIn(S, candidates) = candidates[i]
<1> DEFINE there == {k \in DOMAIN candidates : candidates[k] \notin S}
<1>1. there \in SUBSET Int /\ i \in there
  OBVIOUS
<1>2. \A k \in there : i <= k
  <2> SUFFICES ASSUME NEW k \in there, ~ (i <= k) PROVE FALSE
    OBVIOUS
  <2>1. k < i /\ k \in DOMAIN candidates
    OBVIOUS
  <2> QED BY <2>1
<1> HIDE DEF there
<1>3. Min(there) = i
  BY <1>1, <1>2, MinIs
<1> QED BY <1>3 DEF FirstNotIn, there

\* first is the first of five that is not in S, if there is one.
First(S, first, a, b, c, d, e) ==
    /\ a \notin S => first = a
    /\ a \in S /\ b \notin S => first = b
    /\ a \in S /\ b \in S /\ c \notin S => first = c
    /\ a \in S /\ b \in S /\ c \in S /\ d \notin S => first = d
    /\ a \in S /\ b \in S /\ c \in S /\ d \in S /\ e \notin S => first = e

LEMMA FirstOfFive ==
    ASSUME NEW S, NEW s, NEW n \in Nat, n >= 5, DOMAIN s = 1..n
    PROVE  First(S, FirstNotIn(S, s), s[1], s[2], s[3], s[4], s[5])
<1>1. \A i \in 1..n : s[i] \notin S /\ (\A k \in 1..n : k < i => s[k] \in S) =>
                         FirstNotIn(S, s) = s[i]
  BY FirstIs
<1>2. s[1] \notin S => FirstNotIn(S, s) = s[1]
  BY <1>1
<1>3. s[1] \in S /\ s[2] \notin S => FirstNotIn(S, s) = s[2]
  BY <1>1
<1>4. s[1] \in S /\ s[2] \in S /\ s[3] \notin S => FirstNotIn(S, s) = s[3]
  BY <1>1
<1>5. s[1] \in S /\ s[2] \in S /\ s[3] \in S /\ s[4] \notin S => FirstNotIn(S, s) = s[4]
  BY <1>1
<1>6. s[1] \in S /\ s[2] \in S /\ s[3] \in S /\ s[4] \in S /\ s[5] \notin S => FirstNotIn(S, s) = s[5]
  BY <1>1
<1> QED BY <1>2, <1>3, <1>4, <1>5, <1>6 DEF First

LEMMA SourceFields ==
    ASSUME NEW s \in Sources
    PROVE  /\ s.flag \in Optional /\ s.variable \in Optional /\ s.tagFile \in Optional
           /\ s.stable => s.flag = Absent
           /\ s.stable \in BOOLEAN /\ s.envFlag \in BOOLEAN
BY DEF Sources

LEMMA EmbeddedIs ==
    ASSUME NEW s
    PROVE  First({Absent, ""}, GetEmbeddedTag(s), s.flag, Unless(~s.stable, "stable"), s.variable,
                 s.tagFile, NoTag)
<1> DEFINE five == <<s.flag, Unless(~s.stable, "stable"), s.variable, s.tagFile, NoTag>>
<1>1. DOMAIN five = 1..5
  BY DEF NoTag
<1>2. /\ five[1] = s.flag /\ five[2] = Unless(~s.stable, "stable") /\ five[3] = s.variable
      /\ five[4] = s.tagFile /\ five[5] = NoTag
  OBVIOUS
<1>3. GetEmbeddedTag(s) = FirstNotIn({Absent, ""}, five)
  BY DEF GetEmbeddedTag
<1> HIDE DEF five
<1>4. First({Absent, ""}, FirstNotIn({Absent, ""}, five), five[1], five[2], five[3], five[4], five[5])
  <2>1. 5 \in Nat /\ 5 >= 5
    OBVIOUS
  <2> QED BY <1>1, <2>1, FirstOfFive, Zenon
<1> QED BY <1>2, <1>3, <1>4, Zenon

LEMMA DeterminedIs ==
    ASSUME NEW s, ~s.envFlag
    PROVE  First({Absent}, DetermineTagEnvFile(s), s.flag, Unless(~s.stable, "stable"), s.variable,
                 s.tagFile, Unless(s.envTag = Absent, EnvFile))
<1> DEFINE six == <<s.flag, Unless(~s.stable, "stable"), Unless(s.envFlag, s.variable),
                    Unless(s.envFlag, s.tagFile), Unless(s.envTag = Absent, EnvFile), NoTag>>
<1>1. DOMAIN six = 1..6
  BY DEF NoTag
<1>2. /\ six[1] = s.flag /\ six[2] = Unless(~s.stable, "stable")
      /\ six[3] = Unless(s.envFlag, s.variable) /\ six[4] = Unless(s.envFlag, s.tagFile)
      /\ six[5] = Unless(s.envTag = Absent, EnvFile)
  OBVIOUS
<1>3. DetermineTagEnvFile(s) = FirstNotIn({Absent}, six)
  BY DEF DetermineTagEnvFile
<1>4. Unless(s.envFlag, s.variable) = s.variable /\ Unless(s.envFlag, s.tagFile) = s.tagFile
  BY DEF Unless
<1> HIDE DEF six
<1>5. First({Absent}, FirstNotIn({Absent}, six), six[1], six[2], six[3], six[4], six[5])
  <2>1. 6 \in Nat /\ 6 >= 5
    OBVIOUS
  <2> QED BY <1>1, <2>1, FirstOfFive, Zenon
<1> QED BY <1>2, <1>3, <1>4, <1>5, Zenon

LEMMA SameFirst ==
    ASSUME NEW T, NEW absent, NEW empty, NEW none, absent \notin T, empty \notin T, none \notin T,
           none # absent, none # empty, absent # empty,
           NEW a \in T \cup {absent}, NEW b \in T \cup {absent}, NEW c \in T \cup {absent},
           NEW d \in T \cup {absent}, NEW e, NEW x, NEW y, x # none,
           First({absent, empty}, x, a, b, c, d, none), First({absent}, y, a, b, c, d, e)
    PROVE  y = x /\ x \in T
<1>1. CASE a # absent
  BY <1>1 DEF First
<1>2. CASE a = absent /\ b # absent
  BY <1>2 DEF First
<1>3. CASE a = absent /\ b = absent /\ c # absent
  BY <1>3 DEF First
<1>4. CASE a = absent /\ b = absent /\ c = absent /\ d # absent
  BY <1>4 DEF First
<1>5. CASE a = absent /\ b = absent /\ c = absent /\ d = absent
  BY <1>5 DEF First
<1> QED BY <1>1, <1>2, <1>3, <1>4, <1>5

\* Unless the sources have a value that is empty, or an env file was asked for, the two decisions
\* are the same tag.
LEMMA DecideAlike ==
    ASSUME NEW s \in Sources, s.flag # "", s.variable # "", s.tagFile # "", ~s.envFlag,
           GetEmbeddedTag(s) # NoTag
    PROVE  DetermineTagEnvFile(s) = GetEmbeddedTag(s) /\ GetEmbeddedTag(s) \in SolutionTags
<1> DEFINE st == Unless(~s.stable, "stable")
<1>1. First({Absent, ""}, GetEmbeddedTag(s), s.flag, st, s.variable, s.tagFile, NoTag)
  BY EmbeddedIs
<1>2. First({Absent}, DetermineTagEnvFile(s), s.flag, st, s.variable, s.tagFile,
            Unless(s.envTag = Absent, EnvFile))
  BY DeterminedIs
<1>3. st \in SolutionTags \cup {Absent}
  BY DEF Unless, SolutionTags
<1>4. /\ s.flag \in SolutionTags \cup {Absent} /\ s.variable \in SolutionTags \cup {Absent}
      /\ s.tagFile \in SolutionTags \cup {Absent}
  BY SourceFields DEF Optional
<1>5. Absent \notin SolutionTags /\ "" \notin SolutionTags /\ NoTag \notin SolutionTags
  BY TagsAssumption DEF SolutionTags, Absent, NoTag
<1>6. NoTag # Absent /\ NoTag # "" /\ Absent # ""
  BY DEF Absent, NoTag
<1> HIDE DEF st
<1> QED BY <1>1, <1>2, <1>3, <1>4, <1>5, <1>6, SameFirst, Zenon

LEMMA PlannedFrom ==
    ASSUME NEW templated, NEW plan \in UploadPlans(templated, EnvType)
    PROVE  \E s \in Sources, noIsolate \in BOOLEAN :
              /\ GetEmbeddedTag(s) # NoTag
              /\ \E p \in EmbeddedConditionalIsolate(s, templated, noIsolate, EnvType) :
                    plan = [name |-> p.name, tag |-> p.tag, header |-> p.header, asked |-> AskedTag(s)]
<1> DEFINE Tagged(s) == GetEmbeddedTag(s) # NoTag
<1> HIDE DEF Tagged
<1>1. PICK s \in Sources, noIsolate \in BOOLEAN :
         /\ Tagged(s)
         /\ \E p \in EmbeddedConditionalIsolate(s, templated, noIsolate, EnvType) :
               plan = [name |-> p.name, tag |-> p.tag, header |-> p.header, asked |-> AskedTag(s)]
  <2>1. UploadPlans(templated, EnvType) =
           UNION {{[name |-> p.name, tag |-> p.tag, header |-> p.header, asked |-> AskedTag(s)] :
                      p \in EmbeddedConditionalIsolate(s, templated, noIsolate, EnvType)} :
                     s \in {x \in Sources : Tagged(x)}, noIsolate \in BOOLEAN}
    BY DEF UploadPlans, Tagged
  <2> QED BY <2>1
<1> QED BY <1>1 DEF Tagged

\* What a push uploads carries the tag that its sources ask for, for every set of tags, every
\* environment and with or without isolation (getEmbeddedTag, embeddedConditionalIsolate).
THEOREM TheTwoDecisionsAgree == Spec => []DecisionsAgree
<1>1. ASSUME NEW templated \in BOOLEAN, NEW plan \in UploadPlans(templated, EnvType), plan.asked # ""
      PROVE  plan.tag = plan.asked /\ plan.header # ""
  <2>1. PICK s \in Sources, noIsolate \in BOOLEAN :
           /\ GetEmbeddedTag(s) # NoTag
           /\ \E p \in EmbeddedConditionalIsolate(s, templated, noIsolate, EnvType) :
                 plan = [name |-> p.name, tag |-> p.tag, header |-> p.header, asked |-> AskedTag(s)]
    BY PlannedFrom
  <2>2. PICK q \in EmbeddedConditionalIsolate(s, templated, noIsolate, EnvType) :
           plan = [name |-> q.name, tag |-> q.tag, header |-> q.header, asked |-> AskedTag(s)]
    BY <2>1
  <2>3. plan.tag = q.tag /\ plan.header = q.header /\ plan.asked = AskedTag(s)
    BY <2>2
  <2>4. s \in Sources /\ GetEmbeddedTag(s) # NoTag
    BY <2>1
  <2> DEFINE t == GetEmbeddedTag(s)
  <2>5. AskedTag(s) # ""
    BY <1>1, <2>3, Zenon
  <2>6. "" \notin {s.flag, s.variable, s.tagFile} /\ ~s.envFlag /\ AskedTag(s) = t
    BY <2>5 DEF AskedTag
  <2>7. DetermineTagEnvFile(s) = t /\ t \in SolutionTags
    BY <2>4, <2>6, DecideAlike
  <2>8. t \notin {"", EnvFile, NoTag}
    BY <2>7, TagsAssumption DEF SolutionTags, EnvFile, NoTag
  <2>9. IsolationTag(s) = t
    BY <2>7, <2>8 DEF IsolationTag
  <2> HIDE DEF t
  <2>10. q.tag = t /\ q.header # ""
    <3>1. CASE templated /\ ~noIsolate
      <4>1. PICK w \in {IsolationTag(s)} \ {"", NoTag} :
                q = [name |-> ToSuffix(w), tag |-> w, header |-> SupportedTag(w, EnvType)]
        BY <2>2, <3>1 DEF EmbeddedConditionalIsolate
      <4>2. q.tag = w /\ q.header = SupportedTag(w, EnvType)
        BY <4>1
      <4> QED BY <2>9, <4>1, <4>2 DEF SupportedTag
    <3>2. CASE ~ (templated /\ ~noIsolate)
      <4>1. EmbeddedConditionalIsolate(s, templated, noIsolate, EnvType)
              = {[name |-> IF templated THEN Raw ELSE "", tag |-> w, header |-> w] :
                   w \in IF DetermineTagEnvFile(s) = EnvFile THEN {""} ELSE {DetermineTagEnvFile(s)} \ {NoTag}}
        BY <3>2 DEF EmbeddedConditionalIsolate
      <4>2. (IF DetermineTagEnvFile(s) = EnvFile THEN {""} ELSE {DetermineTagEnvFile(s)} \ {NoTag}) = {t}
        BY <2>7, <2>8
      <4>3. q = [name |-> IF templated THEN Raw ELSE "", tag |-> t, header |-> t]
        BY <2>2, <4>1, <4>2
      <4>4. q.tag = t /\ q.header = t
        BY <4>3
      <4> QED BY <2>8, <4>4
    <3> QED BY <3>1, <3>2
  <2> QED BY <2>3, <2>6, <2>10
<1>2. DecisionsAgree
  <2> SUFFICES ASSUME NEW u \in Users
               PROVE  \A p \in Plans[(u \in Templated)] :
                          p.asked # "" => p.tag = p.asked /\ p.header # ""
    BY DEF DecisionsAgree
  <2> DEFINE b == u \in Templated
  <2>1. b \in BOOLEAN
    OBVIOUS
  <2> HIDE DEF b
  <2>2. Plans[b] = UploadPlans(b, EnvType)
    BY <2>1 DEF Plans
  <2>3. \A p \in Plans[b] : p.asked # "" => p.tag = p.asked /\ p.header # ""
    BY <1>1, <2>1, <2>2, Zenon
  <2> QED BY <2>3 DEF b
<1> QED BY <1>2, PTL
=============================================================================
