----------------------------- MODULE SolutionTag -----------------------------
(***************************************************************************)
(* How fsoc decides the tag of a solution, the name that goes with it and  *)
(* the solution object that stands for the two.                            *)
(*                                                                         *)
(* A solution's name is what is appended to a base name: "" for the name   *)
(* as it is in the manifest, a tag for a pseudo-isolated copy.  The ID of  *)
(* a solution object is such a name and what follows it after a dot.       *)
(***************************************************************************)
EXTENDS Integers, FiniteSetsExt

CONSTANT CustomTags    \* tags other than "stable" and "dev"

Absent  == "absent"    \* a source of the tag that is not there
EnvFile == "env file"  \* the tag is to be read from the env file
NoTag   == "no tag"
Raw     == "${}"       \* a name whose template has not been filled in

ASSUME TagsAssumption ==
    CustomTags \cap {"", "stable", "dev", Absent, EnvFile, NoTag, Raw} = {}

SolutionTags == CustomTags \cup {"stable", "dev"}

Optional == SolutionTags \cup {Absent, ""}

\* Where a tag may come from: flags, an environment variable, files of the directory.
\* All but the env file may be there and empty.
Sources ==
    {s \in [flag : Optional, variable : Optional, tagFile : Optional, stable : BOOLEAN,
            envFlag : BOOLEAN, envTag : CustomTags \cup {Absent}] :
        /\ ~(s.stable /\ s.envFlag)
        /\ s.stable \/ s.envFlag => s.flag = Absent}

FirstNotIn(S, candidates) == candidates[Min({i \in DOMAIN candidates : candidates[i] \notin S})]

Unless(condition, t) == IF condition THEN Absent ELSE t

\* The first of the sources that is there and not empty ...
GetEmbeddedTag(s) ==
    FirstNotIn({Absent, ""}, <<s.flag, Unless(~s.stable, "stable"), s.variable, s.tagFile, NoTag>>)

DetermineTagFileFirst(s) ==
    FirstNotIn({Absent},
        <<s.flag, Unless(~s.stable, "stable"), Unless(s.envFlag, s.tagFile),
          Unless(s.envFlag, s.variable), Unless(s.envTag = Absent, EnvFile), NoTag>>)

\* ... and the first that is there, empty or not, an env file given as a flag hiding the
\* variable and the file: commands make both decisions.
DetermineTagEnvFile(s) ==
    FirstNotIn({Absent},
        <<s.flag, Unless(~s.stable, "stable"), Unless(s.envFlag, s.variable),
          Unless(s.envFlag, s.tagFile), Unless(s.envTag = Absent, EnvFile), NoTag>>)

\* The tag that the sources ask for, if none is there without a value and no env file is
\* given (history).
AskedTag(s) ==
    IF "" \in {s.flag, s.variable, s.tagFile} \/ s.envFlag THEN "" ELSE GetEmbeddedTag(s)

-----------------------------------------------------------------------------
(* Pseudo-isolation                                                        *)

\* $toSuffix: what the template of a name appends for a tag.
ToSuffix(tag) == IF tag = "stable" THEN "" ELSE tag

\* isolateSolution: the tag comes from the sources or from the env file.
IsolationTag(s) == IF DetermineTagEnvFile(s) = EnvFile THEN s.envTag ELSE DetermineTagEnvFile(s)

\* The tag that the API is told for a pseudo-isolated solution.
SupportedTag(tag, env) == IF tag # "stable" /\ env # "dev" THEN "dev" ELSE "stable"

\* embeddedConditionalIsolate: the name and tag of a solution directory, when it can tell them.
EmbeddedConditionalIsolate(s, templated, noIsolate, env) ==
    IF templated /\ ~noIsolate
    THEN {[name |-> ToSuffix(t), tag |-> t, header |-> SupportedTag(t, env)] :
             t \in {IsolationTag(s)} \ {"", NoTag}}
    ELSE {[name |-> IF templated THEN Raw ELSE "", tag |-> t, header |-> t] :
             t \in IF DetermineTagEnvFile(s) = EnvFile THEN {""} ELSE {DetermineTagEnvFile(s)} \ {NoTag}}

\* What uploadSolution makes of the sources: the second decision replaces the first.
UploadPlans(templated, env) ==
    UNION {{[name |-> p.name, tag |-> p.tag, header |-> p.header, asked |-> AskedTag(s)] :
               p \in EmbeddedConditionalIsolate(s, templated, noIsolate, env)} :
              s \in {x \in Sources : GetEmbeddedTag(x) # NoTag}, noIsolate \in BOOLEAN}

-----------------------------------------------------------------------------
(* Solution objects                                                        *)

\* The rule of the platform.
SolutionId(name, header) == <<name, IF header = "stable" THEN "" ELSE header>>

\* The object that push --subscribe subscribes to.
SubscriptionId(name, header, env) ==
    <<name, IF header # "stable" /\ env # "dev" THEN "dev" ELSE "">>

\* locateSolutionUrl: the object for a name and a tag on the command line, by native isolation
\* if there is one and by pseudo-isolation if not.
LocateNative(tag) == tag \notin {"", "stable", "dev"}
NativeId(name, tag) == <<name, tag>>
PseudoIdByName(name, tag, env) == <<name, IF env = "dev" THEN "" ELSE "dev">>
PseudoId(name, tag, env) == <<tag, IF env = "dev" THEN "" ELSE "dev">>

\* The ID by which zap looks for what is installed.
ZapId(name, tag) == <<name, IF tag = "dev" THEN "" ELSE tag>>
=============================================================================
