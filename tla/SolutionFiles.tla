---------------------------- MODULE SolutionFiles ----------------------------
(***************************************************************************)
(* The directory of a solution and the commands that write it: init,       *)
(* extend, bump, fix, package and fork.  A command reads what it needs     *)
(* when it starts and then makes its changes to files one by one; it may   *)
(* die between any two of them.  A manifest with templates, for the        *)
(* isolation that fsoc does itself, is packaged for the tag "stable", for  *)
(* which the template of a name yields nothing.                            *)
(***************************************************************************)
EXTENDS Naturals, Sequences, SequencesExt, FiniteSets, Functions, Bags

CONSTANTS
    Entities,      \* names for components
    Kinds,         \* what extend is asked for
    Templated,     \* what may be a template in a manifest that was written by hand
    MaxCommands,   \* bound on the commands that are run
    MaxCrashes     \* bound on those that die

AllKinds == {"knowledge", "service", "entity", "metric", "event", "resourceMapping",
             "associationDeclarations", "ecpList", "ecpDetails", "ecpHome"}

\* What may be a template: the name of the solution, and its dependencies on the owners of types.
Templates == {"name", "fmm", "dashui", "zodiac"}

ASSUME KindsAssumption == Kinds \subseteq AllKinds
ASSUME TemplatedAssumption == Templated \subseteq SUBSET Templates
ASSUME BoundsAssumption == MaxCommands \in Nat /\ MaxCrashes \in Nat

VARIABLES
    disk,       \* the files there are, with their contents
    bundle,     \* the last package made of the solution: files and contents
    running,    \* the command that runs, with the changes it is still to make
    crashed,    \* the number of commands that died
    started     \* the number of commands started

vars == <<disk, bundle, running, crashed, started>>

Formats == {"json", "yaml"}
Original == "fleet"    \* the name of the solution
Fork     == "copy"     \* the name of its fork

(* A file is [root, dir, name, format]; the root is the solution, the fork or the place for *)
(* temporary files.  Contents are a manifest, a component, a tag, or nothing.                *)
File(root, dir, name, format) == [root |-> root, dir |-> dir, name |-> name, format |-> format]
ManifestFile(root, format) == File(root, <<>>, <<"manifest">>, format)
Backup == File("temp", <<>>, <<"manifest">>, "any")
TagFile(root) == File(root, <<>>, <<".tag">>, "")

Component(type, name, refs) ==
    [kind |-> "component", type |-> type, name |-> name, refs |-> refs, solution |-> Original]
Empty == [kind |-> "empty"]
Gone  == [kind |-> "gone"]
Tag   == [kind |-> "tag"]

\* createInitialSolutionManifest
InitialManifest(format) ==
    [kind |-> "manifest", solution |-> Original, version |-> 0, manifestVersion |-> "1.1.0",
     format |-> format, templates |-> {}, types |-> EmptyBag, objects |-> EmptyBag]

\* A manifest written by hand, in the old version and with templates or without.
HandMade(templates) ==
    [InitialManifest("json") EXCEPT !.manifestVersion = "1.0.0", !.templates = templates]

Init ==
    /\ disk \in {<<>>} \cup {[f \in {ManifestFile("solution", "json")} |-> HandMade(t)] : t \in Templated}
    /\ bundle = <<>>
    /\ running = [command |-> <<>>, changes |-> <<>>]
    /\ crashed = 0 /\ started = 0

-----------------------------------------------------------------------------
(* Changes                                                                 *)

Change(file, contents) == <<[file |-> file, contents |-> contents]>>

\* os.Create and a write: the file is empty in between.
Write(file, contents) == Change(file, Empty) \o Change(file, contents)

Apply(files, c) ==
    IF c.contents = Gone THEN Restrict(files, DOMAIN files \ {c.file})
                         ELSE [f \in DOMAIN files \cup {c.file} |->
                                  IF f = c.file THEN c.contents ELSE files[f]]

Idle == running.changes = <<>>

Run(command, changes) ==
    /\ Idle /\ started < MaxCommands
    /\ started' = started + 1
    /\ running' = [command |-> command, changes |-> changes]
    /\ UNCHANGED <<disk, bundle, crashed>>

Step ==
    /\ ~Idle
    /\ disk' = Apply(disk, Head(running.changes))
    /\ running' = [running EXCEPT !.changes = Tail(@)]
    /\ UNCHANGED <<bundle, crashed, started>>

\* A kill, or log.Fatal when a change fails.
Crash ==
    /\ ~Idle /\ crashed < MaxCrashes
    /\ crashed' = crashed + 1
    /\ running' = [running EXCEPT !.command = <<>>, !.changes = <<>>]
    /\ UNCHANGED <<disk, bundle, started>>

-----------------------------------------------------------------------------
(* The manifest                                                            *)

ManifestsIn(files, root) ==
    {f \in {ManifestFile(root, format) : format \in Formats} : f \in DOMAIN files}

GetManifestJsonFirst(files, root) ==
    LET found == ManifestsIn(files, root)
    IN  {files[f] : f \in {f \in found : f.format = "json" \/ Cardinality(found) = 1}} \ {Empty}

\* getSolutionManifest: the manifest if there is one that can be read; two are an error, and an
\* empty one ends the program.
GetManifest(files, root) ==
    IF Cardinality(ManifestsIn(files, root)) = 1
    THEN {files[f] : f \in ManifestsIn(files, root)} \ {Empty}
    ELSE {}

\* saveSolutionManifest, in the manifest's format.
SaveManifest(m) == Write(ManifestFile("solution", m.format), m)

\* createNewSolution, in a directory of its own.
InitSolution ==
    /\ disk = <<>>
    /\ \E format \in Formats : Run(<<"init">>, SaveManifest(InitialManifest(format)))

\* bumpSolutionVersion; the version is followed up to 1.
Bump ==
    \E m \in GetManifest(disk, "solution") :
        m.version = 0 /\ Run(<<"bump">>, SaveManifest([m EXCEPT !.version = 1]))

\* upgradeManifestVersion and changeManifestFormat, which never changes to YAML.
Fixed(m, upgrade, format) ==
    [m EXCEPT !.manifestVersion = IF upgrade THEN "1.1.0" ELSE @,
              !.format = IF format = "json" THEN "json" ELSE @]

RemoveOld(m, old) ==
    IF m.format # old.format THEN Change(ManifestFile("solution", old.format), Gone) ELSE <<>>

FixInPlace(m, fixed) ==
    (IF fixed = m THEN <<>> ELSE SaveManifest(fixed) \o RemoveOld(fixed, m)) \o Write(Backup, m)

\* The original is backed up first and, if the format has changed, removed last.
FixChanges(m, fixed) ==
    Write(Backup, m) \o (IF fixed = m THEN <<>> ELSE SaveManifest(fixed) \o RemoveOld(fixed, m))

\* solutionFix
Fix ==
    \E m \in GetManifest(disk, "solution"), upgrade \in BOOLEAN, format \in {"", "json"} :
        /\ upgrade \/ format # ""
        /\ Run(<<"fix">>, FixChanges(m, Fixed(m, upgrade, format)))

-----------------------------------------------------------------------------
(* extend                                                                  *)

FolderOfObjects(kind, name) ==
    IF kind \in {"ecpList", "ecpDetails"} THEN <<"templates", name>> ELSE <<"objects", kind>>

\* The folder of a kind of component.
Folder(kind, name) ==
    CASE kind = "knowledge" -> <<"types">>
      [] kind \in {"ecpList", "ecpDetails"} -> <<"templates", name>>
      [] OTHER -> <<"objects", kind>>

HasPseudoIsolation(m) == "name" \in m.templates

\* The owner of a type, before the colon in its name.
OwnerOf(type) ==
    CASE type = "zodiac:function" -> "zodiac"
      [] type \in {"dashui:template", "dashui:templatePropsExtension"} -> "dashui"
      [] OTHER -> "fmm"

\* A type is looked for as a template if its owner is one, but extend never lists it so.
LookedForAsTemplate(m, type) == HasPseudoIsolation(m) /\ OwnerOf(type) \in m.templates

\* GetComponentDefs: the directories that the manifest is found to list for a type.
ListedDirs(m, type) ==
    {o.dir : o \in {o \in DOMAIN m.objects : o.type = type /\ ~LookedForAsTemplate(m, type)}}

\* getFmmEntitiesFromFile, getDashuiTemplatesFromFile: the components in files of listed directories.
Defined(m, type) ==
    {disk[f].name : f \in {f \in DOMAIN disk : /\ f.root = "solution" /\ f.dir \in ListedDirs(m, type)
                                              /\ disk[f].kind = "component"}}

\* A listed directory that is not there ends the program.
Readable(m, type) ==
    \A dir \in ListedDirs(m, type) : \E f \in DOMAIN disk : f.root = "solution" /\ f.dir = dir

\* getKnowledgeComponent, getEntityComponent, ...: what a new component is made of.
Knowledge(name) == Component("type", <<"knowledge", name>>, {})
Service(name)   == Component("zodiac:function", <<"service", name>>, {})
Entity(name)    == Component("fmm:entity", <<"entity", name>>, {})
Metric(name)    == Component("fmm:metric", <<"metric", name>>, {})
Event(name)     == Component("fmm:event", <<"event", name>>, {})
ResourceMap(e)  == Component("fmm:resourceMapping", <<e, "resourceMapping">>, {})
AssociationDeclarations(e) == Component("fmm:associationDeclaration", <<e, "associationDeclarations">>, {})
EcpHome == Component("dashui:templatePropsExtension", <<"ecpHome">>, {})

\* The templates of an entity, each with the templates of that entity that it is an instance of.
Template(part, e, refs) == Component("dashui:template", <<part, e>>, {<<r, e>> : r \in refs})
EcpList(e)             == Template("ecpList", e, {"GridTable"})
DashuiGridTable(e)     == Template("GridTable", e, {})
RelationshipMap(e)     == Template("ecpRelationshipMap", e, {})
EcpListInspector(e)    == Template("ecpListInspector", e, {"InspectorWidget"})
EcpDetails(e)          == Template("ecpDetails", e, {"DetailsList"})
DashuiDetailsList(e)   == Template("DetailsList", e, {})
EcpDetailsInspector(e) == Template("ecpDetailsInspector", e, {"InspectorWidget"})
EcpInspectorWidget(e)  == Template("InspectorWidget", e, {})
EcpName(e)             == Template("ecpName", e, {})

ListTemplates(e)    == <<EcpList(e), DashuiGridTable(e), RelationshipMap(e), EcpListInspector(e)>>
DetailsTemplates(e) == <<EcpDetails(e), DashuiDetailsList(e), EcpDetailsInspector(e)>>

\* Those that lists and details have in common are made once.
IfMissing(m, t) == IF t.name \in Defined(m, "dashui:template") THEN <<>> ELSE <<t>>
SharedTemplates(m, e) == IfMissing(m, EcpInspectorWidget(e)) \o IfMissing(m, EcpName(e))

NewTemplatesUnshared(m, kind, e) ==
    IF kind = "ecpList" THEN ListTemplates(e) \o SharedTemplates(m, e) ELSE DetailsTemplates(e)

NewTemplates(m, kind, e) ==
    (IF kind = "ecpList" THEN ListTemplates(e) ELSE DetailsTemplates(e)) \o SharedTemplates(m, e)

NewComponents(m, kind, name) ==
    CASE kind = "service" -> <<Service(name)>>
      [] kind = "entity"  -> <<Entity(name)>>
      [] kind = "metric"  -> <<Metric(name)>>
      [] kind = "event"   -> <<Event(name)>>
      [] kind = "resourceMapping" -> <<ResourceMap(name)>>
      [] kind = "associationDeclarations" -> <<AssociationDeclarations(name)>>
      [] kind = "ecpHome" -> <<EcpHome>>
      [] kind \in {"ecpList", "ecpDetails"} -> NewTemplates(m, kind, name)

\* addCompDefToManifest: a directory is listed once for a type.
AddCompDefAlways(m, type, dir) == [m EXCEPT !.objects = @ (+) SetToBag({[type |-> type, dir |-> dir]})]
AddCompDef(m, type, dir) ==
    IF dir \in ListedDirs(m, type) THEN m ELSE AddCompDefAlways(m, type, dir)
SaveIfChanged(m, old) == IF m = old THEN <<>> ELSE SaveManifest(m)

\* What a command has made of the manifest so far, and the changes of files.
Edit(m, changes) == [manifest |-> m, changes |-> changes]

\* checkCreateSolutionNamespace: only if no object of the type is listed.
NamespaceDir == <<"objects", "namespaces">>
NamespaceEdit(m) ==
    LET listed == AddCompDef(m, "fmm:namespace", NamespaceDir)
        file   == File("solution", NamespaceDir, <<m.solution>>, m.format)
    IN  IF \E o \in DOMAIN m.objects : o.type = "fmm:namespace" THEN Edit(m, <<>>)
        ELSE Edit(listed, SaveManifest(listed) \o
                          IF file \in DOMAIN disk THEN <<>>
                          ELSE Write(file, Component("fmm:namespace", <<"namespace">>, {})))

Fmm(kind) == kind \in {"entity", "metric", "event", "resourceMapping", "associationDeclarations"}

\* componentFileName
ComponentFile(c, kind, name, format) == File("solution", Folder(kind, name), c.name, format)

\* addNewComponent: for each component the manifest first, then the file.
ComponentChanges(m, kind, name, format) ==
    LET Add(edit, c) ==
            LET listed == AddCompDef(edit.manifest, c.type, Folder(kind, name))
            IN  Edit(listed, edit.changes \o SaveIfChanged(listed, edit.manifest) \o
                             Write(ComponentFile(c, kind, name, format), c))
    IN  FoldLeft(Add, IF Fmm(kind) THEN NamespaceEdit(m) ELSE Edit(m, <<>>), NewComponents(m, kind, name)).changes

\* addNewKnowledgeComponent: the file first; the list, which has paths, is searched for a name.
KnowledgeChanges(m, name, format) ==
    LET file == ComponentFile(Knowledge(name), "knowledge", name, format)
    IN  Write(file, Knowledge(name)) \o
        SaveManifest([m EXCEPT !.types = @ (+) SetToBag({[file EXCEPT !.root = "any"]})])

\* findEntity, and the directories that are read for a kind.
Addable(m, kind, name) ==
    /\ kind \in {"resourceMapping", "associationDeclarations", "ecpList", "ecpDetails"} =>
           Readable(m, "fmm:entity") /\ <<"entity", name>> \in Defined(m, "fmm:entity")
    /\ kind = "ecpHome" => Readable(m, "fmm:entity")
    /\ kind \in {"ecpList", "ecpDetails"} => Readable(m, "dashui:template")
    /\ kind = "ecpDetails" => Readable(m, "fmm:metric")

\* extendSolution with one of its flags; several are as many commands one after the other.
Extend(kind, name, format) ==
    \E m \in GetManifest(disk, "solution") :
        IF kind = "knowledge"
        THEN /\ ComponentFile(Knowledge(name), kind, name, format) \notin DOMAIN disk
             /\ Run(<<kind, name>>, KnowledgeChanges(m, name, format))
        ELSE Addable(m, kind, name) /\ Run(<<kind, name>>, ComponentChanges(m, kind, name, format))

\* The namespace is made before the entity is looked for, and stays when there is none.
ExtendRefused(kind, name) ==
    \E m \in GetManifest(disk, "solution") :
        /\ Fmm(kind) /\ ~Addable(m, kind, name) /\ NamespaceEdit(m).changes # <<>>
        /\ Run(<<"refused">>, NamespaceEdit(m).changes)

-----------------------------------------------------------------------------
(* What the author does, package, fork                                     *)

\* The author sets the tag of the solution with an editor; the commands only read it.
SetTag ==
    /\ GetManifest(disk, "solution") # {}
    /\ Run(<<"tag">>, Write(TagFile("solution"), Tag))

\* The author removes the file of a type, to have it made anew.
RemoveType ==
    /\ Idle
    /\ \E f \in DOMAIN disk : /\ f.root = "solution" /\ f.dir = <<"types">>
                             /\ disk' = Restrict(disk, DOMAIN disk \ {f})
    /\ UNCHANGED <<bundle, running, crashed, started>>

\* generateZip: the files of the solution's directory, under the name of that directory.
IsAllowedPath(f) == f.name # <<".tag">>
Zipped(files) ==
    LET packed == {f \in DOMAIN files : f.root = "solution" /\ IsAllowedPath(f)}
    IN  [z \in {[f EXCEPT !.root = "zip", !.dir = <<Original>> \o @] : f \in packed} |->
            files[[z EXCEPT !.root = "solution", !.dir = Tail(@)]]]

\* UnzipToAferoFs: without the top directory of each path.
Unzipped(archive) ==
    [f \in {[z EXCEPT !.root = "solution", !.dir = Tail(@)] : z \in DOMAIN archive} |->
        archive[[f EXCEPT !.root = "zip", !.dir = <<Original>> \o @]]]

\* annotateFile, annotateDirectory: what the manifest lists is there.
TypesPresent(files, m, root) == \A f \in DOMAIN m.types : [f EXCEPT !.root = root] \in DOMAIN files
ObjectsPresent(files, m, root) ==
    \A o \in DOMAIN m.objects : \E f \in DOMAIN files : f.root = root /\ f.dir = o.dir
Complete(files, m, root) == TypesPresent(files, m, root) /\ ObjectsPresent(files, m, root)

\* isolateManifest, isolateFiles: a copy of what the manifest lists, and of nothing else, in which
\* the templates are replaced.
Listed(f, m) == [f EXCEPT !.root = "any"] \in DOMAIN m.types \/ \E o \in DOMAIN m.objects : o.dir = f.dir
IsolatedCopy(files, m) ==
    LET manifest == ManifestFile("solution", "json")
    IN  [f \in {f \in DOMAIN files : f.root = "solution" /\ Listed(f, m)} \cup {manifest} |->
            IF f = manifest THEN [m EXCEPT !.templates = {}] ELSE files[f]]

\* packageSolution: the directory as it is if the name is not a template or with --no-isolate, else a
\* copy, for which the manifest must be JSON and all that it lists be there.
Package ==
    /\ Idle /\ started < MaxCommands
    /\ started' = started + 1
    /\ \E m \in GetManifest(disk, "solution") :
           \/ bundle' = Zipped(disk)
           \/ /\ HasPseudoIsolation(m) /\ m.format = "json" /\ Complete(disk, m, "solution")
              /\ bundle' = Zipped(IsolatedCopy(disk, m))
    /\ UNCHANGED <<disk, running, crashed>>

\* forkFileInBuffer: an empty file is not JSON, but it is YAML.
Decodes(files, f) == f.format = "json" => files[f] # Empty

ForkedFileUnrenamed(files, f) == [f EXCEPT !.root = "fork"]

\* The namespace file has the name of the solution, and is given the new one.
ForkedFile(files, f) ==
    [f EXCEPT !.root = "fork",
              !.name = IF files[f].kind = "component" /\ files[f].type = "fmm:namespace" /\ @ = <<Original>>
                       THEN <<Fork>> ELSE @]

\* replaceValues
ForkedContents(c) == IF c.kind = "component" THEN [c EXCEPT !.solution = Fork] ELSE c

\* forkFromDisk and Write: all files, in some order, the manifest last.  What a manifest lists is relative
\* to it.  The tag file is among them: the walk that is to delete it retains it (processor.go:503).
ForkChanges(files, m) ==
    LET others == {f \in DOMAIN files : f.root = "solution" /\ f \notin ManifestsIn(files, "solution")}
        copied == FoldSet(LAMBDA f, changes : changes \o Change(ForkedFile(files, f), ForkedContents(files[f])), <<>>, others)
    IN  copied \o
        Write(ManifestFile("fork", m.format), [m EXCEPT !.solution = Fork, !.version = 0])

\* solutionForkCommand, from a directory or from a package that was downloaded and unpacked.
ForkSolution ==
    /\ \A f \in DOMAIN disk : f.root # "fork"
    /\ \E files \in {disk, Unzipped(bundle)} : \E m \in GetManifest(files, "solution") :
           /\ Complete(files, m, "solution")
           /\ \A f \in DOMAIN files : f.root = "solution" => Decodes(files, f)
           /\ Run(<<"fork">>, ForkChanges(files, m))

\* A file of a directory that cannot be written is left out of the fork.
LoseFile ==
    /\ ~Idle /\ crashed < MaxCrashes
    /\ running.command = <<"fork">> /\ Head(running.changes).contents.kind = "component"
    /\ running' = [running EXCEPT !.changes = Tail(@)]
    /\ crashed' = crashed + 1
    /\ UNCHANGED <<disk, bundle, started>>

-----------------------------------------------------------------------------
Next ==
    \/ InitSolution \/ Bump \/ Fix \/ SetTag \/ RemoveType \/ Package \/ ForkSolution
    \/ \E kind \in Kinds, name \in Entities, format \in Formats :
           Extend(kind, name, format) \/ ExtendRefused(kind, name)
    \/ Step \/ LoseFile \/ Crash

Spec == Init /\ [][Next]_vars
-----------------------------------------------------------------------------
(* Properties                                                              *)

\* The last change of a command is made.
Ends(command) == running.command = command /\ Len(running.changes) = 1 /\ running'.command # <<>> /\ running'.changes = <<>>

\* Every variable stays in its domain; what is listed as a type's file is a file for types.
TypeOK ==
    /\ crashed \in 0..MaxCrashes /\ started \in 0..MaxCommands
    /\ \A f \in DOMAIN disk :
           /\ f.root \in {"solution", "fork", "temp"}
           /\ disk[f].kind \in {"empty", "tag", "component", "manifest"}
           /\ disk[f].kind = "manifest" => \A t \in DOMAIN disk[f].types : t.dir = <<"types">>

\* As long as no command dies and no file is removed by hand, the solution between two commands
\* has one manifest, all that it lists is there and no directory is listed twice for a type, unless
\* the type is looked for as a template (extend.go:408, fix.go:132).
ManifestHolds ==
    Idle /\ crashed = 0 /\ disk # <<>> =>
        \E m \in GetManifest(disk, "solution") :
            /\ \A o \in DOMAIN m.objects : \E f \in DOMAIN disk : f.root = "solution" /\ f.dir = o.dir
            /\ \A o \in DOMAIN m.objects : ~LookedForAsTemplate(m, o.type) => m.objects[o] = 1

\* What extend makes whatever is there already.
Own(kind, name) ==
    CASE kind = "ecpList"    -> ToSet(ListTemplates(name))
      [] kind = "ecpDetails" -> ToSet(DetailsTemplates(name))
      [] OTHER -> ToSet(NewComponents(InitialManifest("json"), kind, name))

\* When extend ends, what it was to add is there, is listed, and all templates that it refers to are
\* there too, although they are made only if they are missing, and whatever died before
\* (extend.go:344).
ExtendDelivers ==
    [][\A kind \in Kinds \ {"knowledge"}, name \in Entities : Ends(<<kind, name>>) =>
           LET there == {disk'[f] : f \in {f \in DOMAIN disk' : f.root = "solution" /\ f.dir = Folder(kind, name)}} \ {Empty}
           IN  \A c \in Own(kind, name) :
                   /\ c \in there
                   /\ c.refs \subseteq {d.name : d \in there}
                   /\ \E m \in GetManifest(disk', "solution") : \E o \in DOMAIN m.objects :
                          o.dir = Folder(kind, name) /\ o.type = c.type]_vars

\* If there are two manifests, a fix died and they describe the same solution, since nothing
\* changes either of them: removing one of the two repairs it (fix.go:140).
TwoManifestsAgree ==
    Idle /\ ManifestsIn(disk, "solution") = {ManifestFile("solution", f) : f \in Formats} =>
        LET both == {disk[f] : f \in ManifestsIn(disk, "solution")} \ {Empty}
        IN  \A m, n \in both : <<m.types, m.objects, m.version>> = <<n.types, n.objects, n.version>>

\* A fix that dies leaves the manifest that it found, in its place or in the backup, whenever it has
\* started to change anything (fix.go:84).
FixKeepsOriginal ==
    [][running.command = <<"fix">> /\ running'.command = <<>> =>
           \/ GetManifest(disk', "solution") # {}
           \/ Backup \in DOMAIN disk' /\ disk'[Backup] # Empty]_vars

\* A fork that ends has a manifest and all that it lists, under the new name, unless a file was lost
\* on the way (processor.go:173).
ForkIsComplete ==
    [][Ends(<<"fork">>) /\ crashed = 0 =>
           \E m \in GetManifest(disk', "fork") :
               /\ m.solution = Fork /\ Complete(disk', m, "fork")
               /\ \A f \in DOMAIN disk' : f.root = "fork" /\ disk'[f].kind = "component" =>
                      disk'[f].solution = Fork /\ f.name # <<Original>>]_vars
=============================================================================
