------------------------- MODULE SolutionFiles_proofs -------------------------
(***************************************************************************)
(* What the commands that write the directory of a solution keep, for any  *)
(* number of commands, of names and of deaths.                             *)
(***************************************************************************)
EXTENDS SolutionFiles, SequenceTheorems, FiniteSetTheorems, TLAPS

-----------------------------------------------------------------------------
(* Folds                                                                   *)

\* What is so for the empty set, and for a set whenever it is so without one of its
\* elements, is so for every finite set.
LEMMA FoldInduction ==
    ASSUME NEW S, IsFiniteSet(S), NEW good, {} \in good,
           \A T \in SUBSET S : T # {} => \E x \in T : T \ {x} \in good => T \in good
    PROVE  \A T \in SUBSET S : T \in good
<1> DEFINE R == StrictSubsetOrdering(S)
           bad == {T \in SUBSET S : T \notin good}
<1>1. SUFFICES ASSUME bad # {} PROVE FALSE
  OBVIOUS
<1>2. FiniteSubsetsOf(S) = SUBSET S
  BY FS_Subset DEF FiniteSubsetsOf
<1>3. IsWellFoundedOn(R, SUBSET S)
  BY <1>2, FS_StrictSubsetOrderingWellFounded
<1>4. bad \subseteq SUBSET S
  OBVIOUS
<1> HIDE DEF R
<1>5. PICK T \in bad : \A U \in bad : ~ (<<U, T>> \in R)
  BY <1>1, <1>3, <1>4, WFMin
<1>6. T \in SUBSET S /\ T \notin good /\ T # {}
  OBVIOUS
<1>7. PICK x \in T : T \ {x} \in good => T \in good
  BY <1>6
<1>8. T \ {x} \in bad
  BY <1>6, <1>7
<1>9. <<T \ {x}, T>> \in R
  BY <1>6, <1>7 DEF R, StrictSubsetOrdering
<1> QED BY <1>5, <1>8, <1>9

Chooses(choice, S) == \A T \in SUBSET S : T # {} => choice[T] \in T
FoldsTo(f, S, base, choice, step) ==
    \A T \in SUBSET S : f[T] = IF T = {} THEN base ELSE step[<<choice[T], f[T \ {choice[T]}]>>]

\* A function on the subsets of a finite set may be defined by its value for a subset
\* without one of its elements.
LEMMA FoldExists ==
    ASSUME NEW S, IsFiniteSet(S), NEW R, NEW base \in R,
           NEW choice, Chooses(choice, S), NEW step \in [S \X R -> R]
    PROVE  \E f \in [SUBSET S -> R] : FoldsTo(f, S, base, choice, step)
<1> DEFINE Sizes(n) == {T \in SUBSET S : Cardinality(T) <= n}
           Value(f, T) == IF T = {} THEN base ELSE step[<<choice[T], f[T \ {choice[T]}]>>]
           Solved(n) == \E f \in [Sizes(n) -> R] : \A T \in Sizes(n) : f[T] = Value(f, T)
           good == {U \in SUBSET S : Solved(Cardinality(U))}
<1>1. \A T \in SUBSET S : /\ IsFiniteSet(T) /\ Cardinality(T) \in Nat
                          /\ Cardinality(T) <= Cardinality(S)
                          /\ Cardinality(T) = 0 <=> T = {}
  BY FS_Subset, FS_CardinalityType, FS_EmptySet
<1>2. \A T \in SUBSET S : \A x \in T : Cardinality(T \ {x}) = Cardinality(T) - 1
  BY <1>1, FS_RemoveElement
<1>3. ASSUME NEW f, NEW T \in SUBSET S, T # {} => f[T \ {choice[T]}] \in R
      PROVE  Value(f, T) \in R
  BY <1>3 DEF Chooses
<1>4. {} \in good
  <2> DEFINE f == [T \in Sizes(0) |-> base]
  <2>1. Cardinality({}) = 0 /\ Sizes(0) \subseteq {{}}
    BY <1>1, FS_EmptySet
  <2> HIDE DEF Sizes
  <2>2. f \in [Sizes(0) -> R] /\ \A T \in Sizes(0) : f[T] = Value(f, T)
    BY <2>1
  <2> HIDE DEF f, Value
  <2>3. Solved(0)
    BY <2>2
  <2> QED BY <2>1, <2>3
<1>5. ASSUME NEW U \in SUBSET S, U # {}, NEW x \in U, U \ {x} \in good
      PROVE  U \in good
  <2> DEFINE n == Cardinality(U)
  <2>1. n \in Nat /\ Cardinality(U \ {x}) = n - 1
    BY <1>1, <1>2
  <2>2. Solved(n - 1)
    <3> HIDE DEF Solved
    <3> QED BY <1>5, <2>1
  <2> HIDE DEF Value
  <2>3. PICK f \in [Sizes(n - 1) -> R] : \A T \in Sizes(n - 1) : f[T] = Value(f, T)
    BY <2>2
  <2> DEFINE g == [T \in Sizes(n) |-> Value(f, T)]
  <2>4. ASSUME NEW T \in Sizes(n), T # {}
        PROVE  choice[T] \in T /\ T \ {choice[T]} \in Sizes(n - 1) /\ T \ {choice[T]} \in Sizes(n)
    <3>1. choice[T] \in T /\ T \in SUBSET S /\ Cardinality(T) <= n
      BY <2>4 DEF Chooses
    <3>2. T \ {choice[T]} \in SUBSET S /\ Cardinality(T \ {choice[T]}) = Cardinality(T) - 1
      BY <1>2, <3>1
    <3>3. Cardinality(T) - 1 <= n - 1 /\ Cardinality(T) - 1 <= n
      BY <1>1, <2>1, <3>1
    <3> QED BY <3>1, <3>2, <3>3
  <2>5. \A T \in Sizes(n) : g[T] = Value(f, T) /\ g[T] \in R
    <3>1. ASSUME NEW T \in Sizes(n) PROVE Value(f, T) \in R
      <4>1. T # {} => f[T \ {choice[T]}] \in R
        BY <2>4
      <4>2. T \in SUBSET S
        OBVIOUS
      <4> HIDE DEF Sizes
      <4> QED BY <1>3, <4>1, <4>2
    <3> QED BY <3>1
  <2>6. g \in [Sizes(n) -> R]
    <3> HIDE DEF Sizes
    <3> QED BY <2>5
  <2> HIDE DEF g, Sizes
  <2>7. ASSUME NEW T \in Sizes(n) PROVE g[T] = Value(g, T)
    <3>1. T # {} => g[T \ {choice[T]}] = f[T \ {choice[T]}]
      BY <2>3, <2>4, <2>5
    <3> QED BY <2>5, <3>1 DEF Value
  <2>8. Solved(n)
    BY <2>6, <2>7
  <2> QED BY <2>8
<1>6. \A T \in SUBSET S : T \in good
  <2> HIDE DEF good
  <2>1. \A T \in SUBSET S : T # {} => \E x \in T : T \ {x} \in good => T \in good
    BY <1>5
  <2> QED BY <1>4, <2>1, FoldInduction
<1>7. Solved(Cardinality(S))
  BY <1>6
<1>8. Sizes(Cardinality(S)) = SUBSET S
  BY <1>1
<1>9. PICK f \in [SUBSET S -> R] : \A T \in SUBSET S : f[T] = Value(f, T)
  <2> HIDE DEF Value
  <2> QED BY <1>7, <1>8
<1> QED BY <1>9 DEF FoldsTo

-----------------------------------------------------------------------------
(* Types                                                                   *)

ComponentTypes ==
    {"type", "zodiac:function", "fmm:entity", "fmm:metric", "fmm:event", "fmm:resourceMapping",
     "fmm:associationDeclaration", "fmm:namespace", "dashui:template", "dashui:templatePropsExtension"}
Word ==
    AllKinds \cup Entities \cup {Original, Fork} \cup
    {"manifest", ".tag", "types", "objects", "templates", "namespaces", "namespace", "GridTable",
     "ecpRelationshipMap", "ecpListInspector", "InspectorWidget", "DetailsList",
     "ecpDetailsInspector", "ecpName"} \cup
    {"init", "bump", "fix", "refused", "tag", "fork"}
Roots == {"solution", "fork", "temp"}
Paths == [root : Roots, dir : Seq(Word), name : Seq(Word), format : {"json", "yaml", "any", ""}]

BagsOver(D) == UNION {[E -> Nat \ {0}] : E \in SUBSET D}
Listings ==
    {o \in [type : ComponentTypes, dir : Seq(Word) \ {<<>>, <<"types">>}] :
        o.type = "dashui:template" => \E e \in Entities : o.dir = <<"templates", e>>}
TypeFiles   == [root : {"any"}, dir : {<<"types">>}, name : Seq(Word), format : {"json", "yaml", "any", ""}]

Names     == {Original, Fork}
Manifests == [kind : {"manifest"}, solution : Names, version : {0, 1}, manifestVersion : {"1.0.0", "1.1.0"},
              format : Formats, templates : SUBSET Templates, types : BagsOver(TypeFiles), objects : BagsOver(Listings)]
Components == [kind : {"component"}, type : ComponentTypes, name : Seq(Word), refs : SUBSET Seq(Word), solution : Names]
Contents   == {Empty, Tag} \cup Manifests \cup Components

\* A manifest is written to the file of its format, and nothing else is; namespaces have a directory
\* of their own, and so have the templates of an entity.
ManifestFiles == {ManifestFile(root, format) : root \in {"solution", "fork"}, format \in Formats}
Placed(f, c) ==
    c \in Components /\ f.root = "solution" =>
        /\ c.type = "fmm:namespace" => f.dir = NamespaceDir
        /\ f.name = <<Original>> => c.type = "fmm:namespace"
        /\ \A e \in Entities : f.dir = <<"templates", e>> => f.name = c.name /\ \E part \in Word : c.name = <<part, e>>
Fits(f, c) ==
    /\ f \in ManifestFiles => c = Empty \/ (c \in Manifests /\ c.format = f.format)
    /\ Placed(f, c)

Changes == {c \in [file : Paths, contents : Contents \cup {Gone}] :
               c.contents = Gone \/ Fits(c.file, c.contents)}

GoodFiles(files) ==
    /\ IsFiniteSet(DOMAIN files)
    /\ DOMAIN files \subseteq Paths
    /\ \A f \in DOMAIN files : files[f] \in Contents /\ Fits(f, files[f])

FilesTypes ==
    /\ crashed \in 0..MaxCrashes /\ started \in 0..MaxCommands
    /\ GoodFiles(disk) /\ GoodFiles(Unzipped(bundle))
    /\ running \in [command : Seq(Word), changes : Seq(Changes)]

LEMMA KindFacts ==
    /\ Empty.kind = "empty" /\ Gone.kind = "gone" /\ Tag.kind = "tag"
    /\ \A m \in Manifests : m.kind = "manifest"
    /\ \A c \in Components : c.kind = "component"
    /\ Empty \notin Manifests /\ Empty \notin Components /\ Tag \notin Manifests /\ Tag # Empty
    /\ Gone \notin Contents
    /\ Manifests \cap Components = {}
<1>1. Empty.kind = "empty" /\ Gone.kind = "gone" /\ Tag.kind = "tag"
  BY DEF Empty, Gone, Tag
<1>2. \A m \in Manifests : m.kind = "manifest"
  BY DEF Manifests
<1>3. \A c \in Components : c.kind = "component"
  BY DEF Components
<1>4. Gone \notin Contents
  BY <1>1, <1>2, <1>3 DEF Contents
<1> QED BY <1>1, <1>2, <1>3, <1>4

LEMMA ShortPaths ==
    /\ <<>> \in Seq(Word)
    /\ \A v \in Word : <<v>> \in Seq(Word)
    /\ \A v, w \in Word : <<v, w>> \in Seq(Word)
<1>1. \A v \in Word : <<v>> \in Seq(Word)
  OBVIOUS
<1>2. \A v, w \in Word : <<v, w>> \in Seq(Word)
  OBVIOUS
<1> QED BY <1>1, <1>2, EmptySeq

LEMMA ManifestFileFacts ==
    /\ \A root \in Roots, format \in Formats :
           /\ ManifestFile(root, format) \in Paths
           /\ ManifestFile(root, format).root = root
           /\ ManifestFile(root, format).format = format
           /\ ManifestFile(root, format).dir = <<>>
           /\ ManifestFile(root, format).name = <<"manifest">>
    /\ Backup \in Paths /\ Backup.root = "temp"
    /\ \A f \in ManifestFiles : f.root \in {"solution", "fork"}
    /\ Backup \notin ManifestFiles
    /\ \A root \in Roots : TagFile(root) \in Paths /\ TagFile(root) \notin ManifestFiles
<1>1. <<"manifest">> \in Seq(Word) /\ <<>> \in Seq(Word) /\ <<".tag">> \in Seq(Word)
  <2>1. "manifest" \in Word /\ ".tag" \in Word
    BY DEF Word
  <2> QED BY <2>1, ShortPaths
<1>2. \A root \in Roots, format \in Formats :
           /\ ManifestFile(root, format) \in Paths
           /\ ManifestFile(root, format).root = root
           /\ ManifestFile(root, format).format = format
           /\ ManifestFile(root, format).dir = <<>>
           /\ ManifestFile(root, format).name = <<"manifest">>
  BY <1>1 DEF ManifestFile, File, Roots, Formats, Paths
<1>3. Backup \in Paths /\ Backup.root = "temp"
  BY <1>1 DEF Backup, File, Roots, Formats, Paths
<1>4. \A f \in ManifestFiles : f.root \in {"solution", "fork"} /\ f.name = <<"manifest">>
  BY <1>2 DEF ManifestFiles, Roots
<1>5. \A root \in Roots : TagFile(root) \in Paths /\ TagFile(root).name = <<".tag">>
  BY <1>1 DEF TagFile, File, Roots, Paths
<1>6. <<".tag">> # <<"manifest">>
  OBVIOUS
<1> QED BY <1>2, <1>3, <1>4, <1>5, <1>6

-----------------------------------------------------------------------------
(* Changes                                                                 *)

LEMMA Joined ==
    ASSUME NEW S, NEW s \in Seq(S), NEW t \in Seq(S)
    PROVE  s \o t \in Seq(S)
BY ConcatProperties

LEMMA JoinedIs ==
    ASSUME NEW S, NEW s \in Seq(S), NEW t \in Seq(S)
    PROVE  /\ Len(s) \in Nat /\ Len(t) \in Nat /\ DOMAIN s = 1..Len(s) /\ DOMAIN t = 1..Len(t)
           /\ DOMAIN (s \o t) = 1..(Len(s) + Len(t))
           /\ \A i \in 1..Len(s) : (s \o t)[i] = s[i]
           /\ \A i \in 1..Len(t) : (s \o t)[Len(s) + i] = t[i]
<1> DEFINE u == s \o t
<1>1. Len(s) \in Nat /\ Len(t) \in Nat /\ DOMAIN s = 1..Len(s) /\ DOMAIN t = 1..Len(t)
  BY LenProperties
<1>2. /\ u \in Seq(S) /\ Len(u) = Len(s) + Len(t)
      /\ \A i \in 1..(Len(s) + Len(t)) : u[i] = IF i <= Len(s) THEN s[i] ELSE t[i - Len(s)]
  BY ConcatProperties
<1> HIDE DEF u
<1>3. DOMAIN u = 1..(Len(s) + Len(t))
  BY <1>2, LenProperties
<1>4. \A i \in 1..Len(s) : u[i] = s[i]
  BY <1>1, <1>2
<1>5. \A i \in 1..Len(t) : u[Len(s) + i] = t[i]
  <2>1. \A i \in 1..Len(t) : Len(s) + i \in 1..(Len(s) + Len(t)) /\ ~ (Len(s) + i <= Len(s)) /\ (Len(s) + i) - Len(s) = i
    BY <1>1
  <2> QED BY <1>2, <2>1
<1> QED BY <1>1, <1>3, <1>4, <1>5 DEF u

LEMMA EmptyJoined ==
    ASSUME NEW S, NEW s \in Seq(S)
    PROVE  <<>> \o s = s /\ s \o <<>> = s
<1>1. <<>> \in Seq(S) /\ Len(<<>>) = 0 /\ Len(s) \in Nat
  BY LenProperties, EmptySeq
<1> DEFINE u == <<>> \o s
           v == s \o <<>>
<1>2. u \in Seq(S) /\ Len(u) = Len(s) /\ \A i \in 1..Len(s) : u[i] = s[i]
  BY <1>1, ConcatProperties
<1>3. v \in Seq(S) /\ Len(v) = Len(s) /\ \A i \in 1..Len(s) : v[i] = s[i]
  BY <1>1, ConcatProperties
<1> HIDE DEF u, v
<1>4. u = s /\ v = s
  BY <1>2, <1>3, SeqEqual
<1> QED BY <1>4 DEF u, v

LEMMA ChangeIs ==
    ASSUME NEW S, NEW file, NEW contents, [file |-> file, contents |-> contents] \in S
    PROVE  Change(file, contents) \in Seq(S)
BY DEF Change

LEMMA WriteIs ==
    ASSUME NEW S, NEW file, NEW contents,
           [file |-> file, contents |-> Empty] \in S, [file |-> file, contents |-> contents] \in S
    PROVE  Write(file, contents) \in Seq(S)
BY ChangeIs, Joined DEF Write

LEMMA WriteChanges ==
    ASSUME NEW file \in Paths, NEW contents \in Contents, Fits(file, contents)
    PROVE  /\ [file |-> file, contents |-> Empty] \in Changes
           /\ [file |-> file, contents |-> contents] \in Changes
<1>1. Empty \in Contents /\ Fits(file, Empty)
  BY KindFacts DEF Contents, Fits, Placed
<1>2. ASSUME NEW c \in Contents, Fits(file, c)
      PROVE  [file |-> file, contents |-> c] \in Changes
  <2> DEFINE r == [file |-> file, contents |-> c]
  <2>1. r \in [file : Paths, contents : Contents \cup {Gone}] /\ r.file = file /\ r.contents = c
    OBVIOUS
  <2> HIDE DEF r
  <2> QED BY <1>2, <2>1 DEF Changes
<1> QED BY <1>1, <1>2

\* Manifests, tags and files that are empty are no components.
LEMMA ManifestFits ==
    /\ \A c \in Manifests \cup {Tag, Empty}, f \in Paths : c \in Contents /\ Placed(f, c)
    /\ \A m \in Manifests, f \in Paths : m.format = f.format \/ f \notin ManifestFiles => Fits(f, m)
<1>1. \A c \in Manifests \cup {Tag, Empty} : c \in Contents /\ c \notin Components
  BY KindFacts DEF Contents
<1>2. \A c \in Manifests \cup {Tag, Empty}, f \in Paths : c \in Contents /\ Placed(f, c)
  BY <1>1 DEF Placed
<1> QED BY <1>2 DEF Fits

LEMMA AppliedGood ==
    ASSUME NEW files, GoodFiles(files), NEW c \in Changes
    PROVE  GoodFiles(Apply(files, c))
<1>1. c.file \in Paths /\ (c.contents = Gone \/ (c.contents \in Contents /\ Fits(c.file, c.contents)))
  BY DEF Changes
<1>2. CASE c.contents = Gone
  <2> DEFINE D == DOMAIN files \ {c.file}
  <2>1. Apply(files, c) = [f \in D |-> files[f]]
    BY <1>2 DEF Apply, Restrict
  <2>2. IsFiniteSet(D) /\ D \subseteq DOMAIN files
    BY FS_RemoveElement DEF GoodFiles
  <2> HIDE DEF D
  <2> QED BY <2>1, <2>2 DEF GoodFiles
<1>3. CASE c.contents # Gone
  <2> DEFINE D == DOMAIN files \cup {c.file}
             g == [f \in D |-> IF f = c.file THEN c.contents ELSE files[f]]
  <2>1. Apply(files, c) = g
    BY <1>3 DEF Apply
  <2>2. IsFiniteSet(D)
    BY FS_AddElement DEF GoodFiles
  <2>3. D \subseteq Paths
    BY <1>1 DEF GoodFiles
  <2>4. \A f \in D : g[f] \in Contents /\ Fits(f, g[f])
    BY <1>1, <1>3 DEF GoodFiles
  <2>5. DOMAIN g = D
    OBVIOUS
  <2> HIDE DEF D, g
  <2> QED BY <2>1, <2>2, <2>3, <2>4, <2>5 DEF GoodFiles
<1> QED BY <1>2, <1>3

-----------------------------------------------------------------------------
(* Manifests                                                               *)

LEMMA EmptyBagIs == ASSUME NEW D PROVE EmptyBag \in BagsOver(D) /\ DOMAIN EmptyBag = {}
<1>1. EmptyBag = [e \in {} |-> 1]
  BY DEF EmptyBag, SetToBag
<1>2. EmptyBag \in [{} -> Nat \ {0}] /\ {} \in SUBSET D
  BY <1>1
<1> QED BY <1>1, <1>2 DEF BagsOver

\* A bag and one more.
WithOne(B, d, C) ==
    /\ DOMAIN C = DOMAIN B \cup {d}
    /\ \A e \in DOMAIN B : e # d => C[e] = B[e]
    /\ d \notin DOMAIN B => C[d] = 1

LEMMA OneMore ==
    ASSUME NEW D, NEW B \in BagsOver(D), NEW d \in D
    PROVE  /\ B (+) SetToBag({d}) \in BagsOver(D)
           /\ DOMAIN (B (+) SetToBag({d})) = DOMAIN B \cup {d}
           /\ WithOne(B, d, B (+) SetToBag({d}))
<1>1. PICK E \in SUBSET D : B \in [E -> Nat \ {0}]
  BY DEF BagsOver
<1> DEFINE C == B (+) SetToBag({d})
<1>2. C = [e \in E \cup {d} |-> (IF e \in E THEN B[e] ELSE 0) + (IF e \in {d} THEN 1 ELSE 0)]
  BY <1>1 DEF (+), SetToBag
<1>3. \A e \in E \cup {d} : C[e] = (IF e \in E THEN B[e] ELSE 0) + (IF e \in {d} THEN 1 ELSE 0)
  BY <1>2
<1>4. DOMAIN C = E \cup {d} /\ C = [e \in E \cup {d} |-> C[e]]
  BY <1>2, <1>3
<1> HIDE DEF C
<1>5. \A e \in E \cup {d} : C[e] \in Nat \ {0}
  BY <1>1, <1>3
<1>6. C \in [E \cup {d} -> Nat \ {0}] /\ E \cup {d} \in SUBSET D
  BY <1>4, <1>5
<1>7. C \in BagsOver(D)
  BY <1>6, Zenon DEF BagsOver
<1>8. \A e \in E : e # d => C[e] = B[e]
  BY <1>1, <1>3
<1>9. d \notin E => C[d] = 1
  BY <1>3
<1>10. WithOne(B, d, C)
  BY <1>1, <1>4, <1>8, <1>9 DEF WithOne
<1> QED BY <1>1, <1>4, <1>7, <1>10 DEF C

LEMMA InitialIs ==
    /\ \A format \in Formats : InitialManifest(format) \in Manifests /\ InitialManifest(format).format = format
    /\ \A i \in SUBSET Templates : HandMade(i) \in Manifests /\ HandMade(i).format = "json"
<1>1. ASSUME NEW format \in Formats
      PROVE  InitialManifest(format) \in Manifests /\ InitialManifest(format).format = format
  <2>1. EmptyBag \in BagsOver(TypeFiles) /\ EmptyBag \in BagsOver(Listings)
    BY EmptyBagIs
  <2> QED BY <2>1 DEF InitialManifest, Manifests, Names
<1>2. ASSUME NEW i \in SUBSET Templates
      PROVE  HandMade(i) \in Manifests /\ HandMade(i).format = "json"
  <2>1. "json" \in Formats
    BY DEF Formats
  <2> DEFINE m == InitialManifest("json")
  <2>2. m \in Manifests /\ m.format = "json"
    BY <1>1, <2>1
  <2>3. HandMade(i) = [m EXCEPT !.manifestVersion = "1.0.0", !.templates = i]
    BY DEF HandMade
  <2> HIDE DEF m
  <2> QED BY <2>2, <2>3 DEF Manifests
<1> QED BY <1>1, <1>2

\* Manifests that have the same file.
OfFormat(format) == {m \in Manifests : m.format = format}

LEMMA AddedIs ==
    ASSUME NEW m \in Manifests, NEW type, NEW dir, [type |-> type, dir |-> dir] \in Listings
    PROVE  AddCompDef(m, type, dir) \in OfFormat(m.format)
<1> DEFINE o == [type |-> type, dir |-> dir]
           B == m.objects (+) SetToBag({o})
<1>1. o \in Listings /\ m.objects \in BagsOver(Listings)
  BY DEF Manifests
<1>2. B \in BagsOver(Listings)
  BY <1>1, OneMore
<1>3. AddCompDefAlways(m, type, dir) = [m EXCEPT !.objects = B]
  BY DEF AddCompDefAlways
<1> HIDE DEF B, o
<1>4. AddCompDefAlways(m, type, dir) \in OfFormat(m.format)
  BY <1>2, <1>3 DEF Manifests, OfFormat
<1> QED BY <1>4 DEF AddCompDef, OfFormat

\* The manifest that a command found.
LEMMA FoundManifest ==
    ASSUME NEW files, GoodFiles(files), NEW m \in GetManifest(files, "solution")
    PROVE  /\ m \in Manifests /\ m # Empty
           /\ ManifestsIn(files, "solution") = {ManifestFile("solution", m.format)}
           /\ files[ManifestFile("solution", m.format)] = m
<1> DEFINE M == ManifestsIn(files, "solution")
<1>1. Cardinality(M) = 1 /\ m \in {files[f] : f \in M} \ {Empty}
  BY DEF GetManifest
<1>2. M \subseteq DOMAIN files /\ IsFiniteSet(M)
  BY FS_Subset DEF ManifestsIn, GoodFiles
<1>3. PICK f : M = {f}
  BY <1>1, <1>2, FS_Singleton
<1>4. m = files[f] /\ m # Empty /\ f \in DOMAIN files /\ f \in M
  BY <1>1, <1>2, <1>3
<1>5. f \in ManifestFiles /\ f = ManifestFile("solution", f.format)
  BY <1>4, ManifestFileFacts DEF ManifestsIn, ManifestFiles, Roots
<1>6. m \in Manifests /\ m.format = f.format
  BY <1>4, <1>5 DEF GoodFiles, Fits
<1> QED BY <1>3, <1>4, <1>5, <1>6

-----------------------------------------------------------------------------
(* What commands write                                                     *)

SolutionManifests == {ManifestFile("solution", format) : format \in Formats}

\* Changes that leave the solution with the one manifest that it has.
EditsOf(format) ==
    {c \in Changes : c.file \in SolutionManifests =>
                         c.file = ManifestFile("solution", format) /\ c.contents # Gone}

LEMMA SavedIs ==
    ASSUME NEW m \in Manifests
    PROVE  SaveManifest(m) \in Seq(EditsOf(m.format))
<1> DEFINE f == ManifestFile("solution", m.format)
<1>1. m.format \in Formats /\ "solution" \in Roots
  BY DEF Manifests, Roots
<1>2. f \in Paths /\ f.format = m.format
  BY <1>1, ManifestFileFacts
<1>3. m \in Contents /\ Fits(f, m)
  BY <1>2, ManifestFits
<1>4. Empty # Gone /\ m # Gone
  BY KindFacts DEF Contents
<1>5. \A c \in {Empty, m} : [file |-> f, contents |-> c] \in EditsOf(m.format)
  <2>1. \A c \in {Empty, m} : [file |-> f, contents |-> c] \in Changes
    BY <1>2, <1>3, WriteChanges
  <2> HIDE DEF f
  <2>2. ASSUME NEW c \in {Empty, m}
        PROVE  [file |-> f, contents |-> c] \in EditsOf(m.format)
    <3> DEFINE r == [file |-> f, contents |-> c]
    <3>1. r.file = f /\ r.contents = c /\ r \in Changes
      BY <2>1
    <3> HIDE DEF r
    <3> QED BY <1>4, <3>1 DEF EditsOf, f, r
  <2> QED BY <2>2
<1> QED BY <1>5, WriteIs DEF SaveManifest

\* Files that are not manifests.
LEMMA WrittenIs ==
    ASSUME NEW file \in Paths, file \notin ManifestFiles, NEW c \in Contents, Placed(file, c), NEW format
    PROVE  Write(file, c) \in Seq(EditsOf(format))
<1>1. \A x \in {Empty, c} : [file |-> file, contents |-> x] \in Changes
  BY WriteChanges DEF Fits
<1>2. SolutionManifests \subseteq ManifestFiles
  BY DEF SolutionManifests, ManifestFiles
<1>3. \A x \in {Empty, c} : [file |-> file, contents |-> x] \in EditsOf(format)
  BY <1>1, <1>2 DEF EditsOf
<1> QED BY <1>3, WriteIs

-----------------------------------------------------------------------------
(* What extend adds                                                        *)

LEMMA ComponentIs ==
    ASSUME NEW type \in ComponentTypes, NEW name \in Seq(Word), NEW refs \in SUBSET Seq(Word)
    PROVE  Component(type, name, refs) \in Components
BY DEF Component, Components, Names

LEMMA WordFacts ==
    /\ AllKinds \subseteq Word /\ Entities \subseteq Word
    /\ {Original, Fork, "manifest", ".tag", "types", "objects", "templates", "namespaces",
        "namespace"} \subseteq Word
    /\ {"GridTable", "ecpRelationshipMap", "ecpListInspector", "InspectorWidget", "DetailsList",
        "ecpDetailsInspector", "ecpName"} \subseteq Word
BY DEF Word

LEMMA FolderIs ==
    ASSUME NEW kind \in Kinds, NEW name \in Entities
    PROVE  Folder(kind, name) \in Seq(Word) /\ Folder(kind, name) # <<>>
<1>1. kind \in Word /\ name \in Word
  BY KindsAssumption, WordFacts
<1>2. /\ <<"types">> \in Seq(Word) /\ <<"templates", name>> \in Seq(Word)
      /\ <<"objects", kind>> \in Seq(Word)
  BY <1>1, ShortPaths, WordFacts
<1>3. <<"types">> # <<>> /\ <<"templates", name>> # <<>> /\ <<"objects", kind>> # <<>>
  OBVIOUS
<1> QED BY <1>2, <1>3 DEF Folder

ComponentKinds == Kinds \ {"knowledge"}
TemplateKinds  == {"ecpList", "ecpDetails"}

\* The folder of a kind that extend adds is no other kind's, but for the two of templates.
LEMMA FolderOfKind ==
    ASSUME NEW kind \in ComponentKinds, NEW name \in Entities
    PROVE  /\ kind \in TemplateKinds => Folder(kind, name) = <<"templates", name>>
           /\ kind \notin TemplateKinds => Folder(kind, name) = <<"objects", kind>>
           /\ Folder(kind, name) \notin {<<>>, <<"types">>, NamespaceDir}
           /\ \A e \in Entities : Folder(kind, name) = <<"templates", e>> => kind \in TemplateKinds /\ e = name
<1>1. kind # "knowledge" /\ kind # "namespaces"
  BY KindsAssumption DEF ComponentKinds, AllKinds
<1>2. kind \in TemplateKinds => Folder(kind, name) = <<"templates", name>>
  BY DEF Folder, TemplateKinds
<1>3. kind \notin TemplateKinds => Folder(kind, name) = <<"objects", kind>>
  BY <1>1 DEF Folder, TemplateKinds
<1>4. /\ <<"templates", name>> \notin {<<>>, <<"types">>, <<"objects", "namespaces">>}
      /\ <<"objects", kind>> \notin {<<>>, <<"types">>, <<"objects", "namespaces">>}
  BY <1>1
<1>5. \A e \in Entities : /\ <<"objects", kind>> # <<"templates", e>>
                          /\ <<"templates", name>> = <<"templates", e>> => e = name
  OBVIOUS
<1> QED BY <1>2, <1>3, <1>4, <1>5 DEF NamespaceDir

\* The components that extend makes for a kind and a name.
OfKind(kind, name) ==
    {c \in Components :
        /\ c.type # "fmm:namespace" /\ c.name # <<Original>>
        /\ c.type = "dashui:template" => kind \in TemplateKinds
        /\ kind \in TemplateKinds => \E part \in Word : c.name = <<part, name>>}

LEMMA TemplateIs ==
    ASSUME NEW kind \in TemplateKinds, NEW part \in Word, NEW e \in Entities, NEW refs \in SUBSET Word
    PROVE  Template(part, e, refs) \in OfKind(kind, e)
<1> DEFINE c == Template(part, e, refs)
<1>1. e \in Word
  BY WordFacts
<1>2. <<part, e>> \in Seq(Word) /\ {<<r, e>> : r \in refs} \in SUBSET Seq(Word)
  BY <1>1, ShortPaths
<1>3. "dashui:template" \in ComponentTypes
  BY DEF ComponentTypes
<1>4. c \in Components
  BY <1>2, <1>3, ComponentIs DEF Template
<1>5. c.type = "dashui:template" /\ c.name = <<part, e>>
  BY DEF Template, Component
<1>6. <<part, e>> # <<Original>>
  OBVIOUS
<1> HIDE DEF c
<1> QED BY <1>4, <1>5, <1>6 DEF OfKind, c

LEMMA ObjectIs ==
    ASSUME NEW kind \in ComponentKinds \ TemplateKinds, NEW name \in Entities,
           NEW type \in ComponentTypes \ {"fmm:namespace", "dashui:template"},
           NEW id \in Seq(Word), id # <<Original>>
    PROVE  Component(type, id, {}) \in OfKind(kind, name)
<1> DEFINE c == Component(type, id, {})
<1>1. c \in Components
  <2>1. {} \in SUBSET Seq(Word)
    OBVIOUS
  <2> QED BY <2>1, ComponentIs
<1>2. c.type = type /\ c.name = id
  BY DEF Component
<1> HIDE DEF c
<1> QED BY <1>1, <1>2 DEF OfKind, c

LEMMA TemplatesAre ==
    ASSUME NEW kind \in TemplateKinds, NEW e \in Entities
    PROVE  /\ ListTemplates(e) \in Seq(OfKind(kind, e))
           /\ DetailsTemplates(e) \in Seq(OfKind(kind, e))
           /\ EcpInspectorWidget(e) \in OfKind(kind, e) /\ EcpName(e) \in OfKind(kind, e)
<1>1. "ecpList" \in Word /\ "ecpDetails" \in Word
  BY WordFacts DEF AllKinds
<1>2. EcpList(e) \in OfKind(kind, e) /\ DashuiGridTable(e) \in OfKind(kind, e)
  BY <1>1, TemplateIs, WordFacts DEF EcpList, DashuiGridTable
<1>3. RelationshipMap(e) \in OfKind(kind, e) /\ EcpListInspector(e) \in OfKind(kind, e)
  BY TemplateIs, WordFacts DEF RelationshipMap, EcpListInspector
<1>4. EcpDetails(e) \in OfKind(kind, e) /\ DashuiDetailsList(e) \in OfKind(kind, e)
  BY <1>1, TemplateIs, WordFacts DEF EcpDetails, DashuiDetailsList
<1>5. /\ EcpDetailsInspector(e) \in OfKind(kind, e) /\ EcpInspectorWidget(e) \in OfKind(kind, e)
      /\ EcpName(e) \in OfKind(kind, e)
  BY TemplateIs, WordFacts DEF EcpDetailsInspector, EcpInspectorWidget, EcpName
<1>6. ListTemplates(e) \in Seq(OfKind(kind, e))
  BY <1>2, <1>3 DEF ListTemplates
<1>7. DetailsTemplates(e) \in Seq(OfKind(kind, e))
  BY <1>4, <1>5 DEF DetailsTemplates
<1> QED BY <1>5, <1>6, <1>7

LEMMA SharedAre ==
    ASSUME NEW m, NEW kind \in TemplateKinds, NEW e \in Entities
    PROVE  SharedTemplates(m, e) \in Seq(OfKind(kind, e))
<1>1. ASSUME NEW t \in OfKind(kind, e) PROVE IfMissing(m, t) \in Seq(OfKind(kind, e))
  <2>1. <<t>> \in Seq(OfKind(kind, e)) /\ <<>> \in Seq(OfKind(kind, e))
    BY EmptySeq
  <2> QED BY <2>1 DEF IfMissing
<1> QED BY <1>1, TemplatesAre, Joined DEF SharedTemplates

\* The one component of a kind that has no templates.
Sole(kind, name) ==
    CASE kind = "service" -> Service(name)
      [] kind = "entity"  -> Entity(name)
      [] kind = "metric"  -> Metric(name)
      [] kind = "event"   -> Event(name)
      [] kind = "resourceMapping" -> ResourceMap(name)
      [] kind = "associationDeclarations" -> AssociationDeclarations(name)
      [] kind = "ecpHome" -> EcpHome

LEMMA SoleIs ==
    ASSUME NEW kind \in ComponentKinds \ TemplateKinds, NEW name \in Entities
    PROVE  /\ Sole(kind, name) \in OfKind(kind, name) /\ Sole(kind, name).refs = {}
           /\ \A m : NewComponents(m, kind, name) = <<Sole(kind, name)>>
<1>1. kind \in {"service", "entity", "metric", "event", "resourceMapping", "associationDeclarations", "ecpHome"}
  BY KindsAssumption DEF ComponentKinds, TemplateKinds, AllKinds
<1>2. \A m : NewComponents(m, kind, name) = <<Sole(kind, name)>>
  BY <1>1 DEF NewComponents, Sole
<1>3. PICK type \in ComponentTypes \ {"fmm:namespace", "dashui:template"},
           id \in {<<kind, name>>, <<name, kind>>, <<kind>>} : Sole(kind, name) = Component(type, id, {}) /\ id # <<Original>>
  <2>1. <<kind, name>> # <<Original>> /\ <<name, kind>> # <<Original>> /\ <<"ecpHome">> # <<Original>>
    BY DEF Original
  <2>2. CASE kind \in {"service", "entity", "metric", "event"}
    BY <1>1, <2>1, <2>2 DEF Sole, Service, Entity, Metric, Event, ComponentTypes
  <2>3. CASE kind \in {"resourceMapping", "associationDeclarations"}
    BY <1>1, <2>1, <2>3 DEF Sole, ResourceMap, AssociationDeclarations, ComponentTypes
  <2>4. CASE kind = "ecpHome"
    BY <2>1, <2>4 DEF Sole, EcpHome, ComponentTypes
  <2> QED BY <1>1, <2>2, <2>3, <2>4
<1>4. id \in Seq(Word)
  <2>1. kind \in Word /\ name \in Word
    BY WordFacts, KindsAssumption DEF ComponentKinds
  <2> QED BY <2>1, ShortPaths
<1>5. Component(type, id, {}).refs = {}
  BY DEF Component
<1> QED BY <1>2, <1>3, <1>4, <1>5, ObjectIs

LEMMA NewComponentsAre ==
    ASSUME NEW m, NEW kind \in ComponentKinds, NEW name \in Entities
    PROVE  NewComponents(m, kind, name) \in Seq(OfKind(kind, name))
<1>1. CASE kind \in TemplateKinds
  <2>1. NewComponents(m, kind, name) = NewTemplates(m, kind, name)
    BY <1>1 DEF NewComponents, TemplateKinds
  <2> QED BY <1>1, <2>1, TemplatesAre, SharedAre, Joined DEF NewTemplates
<1>2. CASE kind \notin TemplateKinds
  <2> DEFINE c == Sole(kind, name)
  <2>1. c \in OfKind(kind, name) /\ NewComponents(m, kind, name) = <<c>>
    BY <1>2, SoleIs
  <2> HIDE DEF c
  <2> QED BY <2>1
<1> QED BY <1>1, <1>2

LEMMA ListedIs ==
    ASSUME NEW kind \in ComponentKinds, NEW name \in Entities, NEW c \in OfKind(kind, name)
    PROVE  [type |-> c.type, dir |-> Folder(kind, name)] \in Listings
<1> DEFINE o == [type |-> c.type, dir |-> Folder(kind, name)]
<1>1. c.type \in ComponentTypes /\ (c.type = "dashui:template" => kind \in TemplateKinds)
  BY DEF OfKind, Components
<1>2. Folder(kind, name) \in Seq(Word) \ {<<>>, <<"types">>}
  BY FolderIs, FolderOfKind DEF ComponentKinds
<1>3. o.type = c.type /\ o.dir = Folder(kind, name) /\ o \in [type : ComponentTypes, dir : Seq(Word) \ {<<>>, <<"types">>}]
  BY <1>1, <1>2
<1> HIDE DEF o
<1>4. o.type = "dashui:template" => o.dir = <<"templates", name>>
  BY <1>1, <1>3, FolderOfKind
<1> QED BY <1>3, <1>4 DEF Listings, o

LEMMA PlacedIs ==
    ASSUME NEW kind \in ComponentKinds, NEW name \in Entities, NEW c \in OfKind(kind, name), NEW format
    PROVE  Placed(ComponentFile(c, kind, name, format), c)
<1> DEFINE f == ComponentFile(c, kind, name, format)
<1>1. f.root = "solution" /\ f.dir = Folder(kind, name) /\ f.name = c.name
  BY DEF ComponentFile, File
<1>2. c.type # "fmm:namespace" /\ c.name # <<Original>>
  BY DEF OfKind
<1> HIDE DEF f
<1>3. ASSUME NEW e \in Entities, f.dir = <<"templates", e>>
      PROVE  f.name = c.name /\ \E part \in Word : c.name = <<part, e>>
  <2>3. Folder(kind, name) = <<"templates", e>>
    BY <1>1, <1>3
  <2>1. kind \in TemplateKinds /\ e = name
    BY <2>3, FolderOfKind
  <2>2. \E part \in Word : c.name = <<part, e>>
    BY <2>1 DEF OfKind
  <2> QED BY <1>1, <2>2
<1> QED BY <1>1, <1>2, <1>3 DEF Placed, f

\* A file of a directory below that of the solution.
LEMMA BelowIs ==
    ASSUME NEW root \in Roots, NEW dir \in Seq(Word), dir # <<>>, NEW name \in Seq(Word),
           NEW format \in Formats
    PROVE  File(root, dir, name, format) \in Paths /\ File(root, dir, name, format) \notin ManifestFiles
<1>1. File(root, dir, name, format) \in Paths /\ File(root, dir, name, format).dir = dir
  BY DEF File, Paths, Formats
<1>2. \A f \in ManifestFiles : f.dir = <<>>
  BY ManifestFileFacts DEF ManifestFiles, Roots
<1> QED BY <1>1, <1>2

LEMMA FormatStays ==
    ASSUME NEW m \in Manifests, NEW n \in OfFormat(m.format)
    PROVE  n \in Manifests /\ n.format = m.format /\ OfFormat(n.format) = OfFormat(m.format)
BY DEF OfFormat

LEMMA SavedIfChanged ==
    ASSUME NEW m \in Manifests, NEW n \in OfFormat(m.format), NEW old
    PROVE  SaveIfChanged(n, old) \in Seq(EditsOf(m.format))
<1>1. SaveManifest(n) \in Seq(EditsOf(m.format))
  BY FormatStays, SavedIs
<1> QED BY <1>1, EmptySeq DEF SaveIfChanged

\* What a command has made of the manifest m and is to write.
EditsFrom(m) == [manifest : OfFormat(m.format), changes : Seq(EditsOf(m.format))]

\* The namespace of a solution, which is listed and made when there is none.
NamespaceListing == [type |-> "fmm:namespace", dir |-> NamespaceDir]
NamespaceFile(m) == File("solution", NamespaceDir, <<m.solution>>, m.format)
Namespace        == Component("fmm:namespace", <<"namespace">>, {})

LEMMA NamespaceParts ==
    ASSUME NEW m \in Manifests
    PROVE  /\ NamespaceListing \in Listings
           /\ NamespaceListing.type = "fmm:namespace" /\ NamespaceListing.dir = NamespaceDir
           /\ AddCompDef(m, "fmm:namespace", NamespaceDir) \in OfFormat(m.format)
           /\ NamespaceFile(m) \in Paths /\ NamespaceFile(m) \notin ManifestFiles
           /\ NamespaceFile(m).root = "solution" /\ NamespaceFile(m).dir = NamespaceDir
           /\ Namespace \in Contents /\ Placed(NamespaceFile(m), Namespace)
<1>1. NamespaceDir \in Seq(Word) /\ NamespaceDir # <<>>
  <2>1. "objects" \in Word /\ "namespaces" \in Word
    BY WordFacts
  <2> QED BY <2>1, ShortPaths DEF NamespaceDir
<1>2. "fmm:namespace" \in ComponentTypes
  BY DEF ComponentTypes
<1>3. /\ NamespaceListing \in Listings
      /\ NamespaceListing.type = "fmm:namespace" /\ NamespaceListing.dir = NamespaceDir
  <2>1. NamespaceDir # <<"types">>
    BY DEF NamespaceDir
  <2>2. /\ NamespaceListing.type = "fmm:namespace" /\ NamespaceListing.dir = NamespaceDir
        /\ NamespaceListing \in [type : ComponentTypes, dir : Seq(Word) \ {<<>>, <<"types">>}]
        /\ NamespaceListing.type # "dashui:template"
    BY <1>1, <1>2, <2>1 DEF NamespaceListing
  <2> QED BY <2>2 DEF Listings
<1>4. AddCompDef(m, "fmm:namespace", NamespaceDir) \in OfFormat(m.format)
  BY <1>3, AddedIs DEF NamespaceListing
<1>5. NamespaceFile(m) \in Paths /\ NamespaceFile(m) \notin ManifestFiles
  <2>1. m.solution \in Word /\ m.format \in Formats /\ "solution" \in Roots
    BY WordFacts DEF Manifests, Names, Roots
  <2>2. <<m.solution>> \in Seq(Word)
    BY <2>1, ShortPaths
  <2> QED BY <1>1, <2>1, <2>2, BelowIs DEF NamespaceFile
<1>6. NamespaceFile(m).root = "solution" /\ NamespaceFile(m).dir = NamespaceDir
  BY DEF NamespaceFile, File
<1>7. Namespace \in Contents
  <2>1. <<"namespace">> \in Seq(Word)
    BY WordFacts, ShortPaths
  <2> QED BY <1>2, <2>1, ComponentIs DEF Contents, Namespace
<1>8. Placed(NamespaceFile(m), Namespace)
  <2>1. Namespace.type = "fmm:namespace"
    BY DEF Namespace, Component
  <2>2. \A e \in Entities : NamespaceDir # <<"templates", e>>
    BY DEF NamespaceDir
  <2> QED BY <1>6, <2>1, <2>2 DEF Placed
<1> QED BY <1>3, <1>4, <1>5, <1>6, <1>7, <1>8

\* What is written when none is listed.
NamespaceWrites(m) == IF NamespaceFile(m) \in DOMAIN disk THEN <<>> ELSE Write(NamespaceFile(m), Namespace)

LEMMA NamespaceEditIs ==
    ASSUME NEW m
    PROVE  LET listed == AddCompDef(m, "fmm:namespace", NamespaceDir)
           IN  NamespaceEdit(m) = IF \E o \in DOMAIN m.objects : o.type = "fmm:namespace" THEN Edit(m, <<>>)
                                  ELSE Edit(listed, SaveManifest(listed) \o NamespaceWrites(m))
BY DEF NamespaceEdit, NamespaceWrites, NamespaceFile, Namespace

LEMMA NamespaceIs ==
    ASSUME NEW m \in Manifests
    PROVE  NamespaceEdit(m) \in EditsFrom(m)
<1> DEFINE listed == AddCompDef(m, "fmm:namespace", NamespaceDir)
<1>1. listed \in OfFormat(m.format)
  BY NamespaceParts
<1>2. NamespaceWrites(m) \in Seq(EditsOf(m.format))
  BY NamespaceParts, WrittenIs, EmptySeq DEF NamespaceWrites
<1>3. SaveManifest(listed) \in Seq(EditsOf(m.format))
  BY <1>1, FormatStays, SavedIs
<1>4. SaveManifest(listed) \o NamespaceWrites(m) \in Seq(EditsOf(m.format))
  BY <1>2, <1>3, Joined
<1>5. m \in OfFormat(m.format) /\ <<>> \in Seq(EditsOf(m.format))
  BY EmptySeq DEF OfFormat
<1>6. Edit(m, <<>>) \in EditsFrom(m) /\ Edit(listed, SaveManifest(listed) \o NamespaceWrites(m)) \in EditsFrom(m)
  BY <1>1, <1>4, <1>5 DEF Edit, EditsFrom
<1> HIDE DEF listed
<1> QED BY <1>6, NamespaceEditIs DEF listed

\* addNewComponent, for one of the components.
Added(m, kind, name, format, edit, c) ==
    LET listed == AddCompDef(edit.manifest, c.type, Folder(kind, name))
    IN  Edit(listed, edit.changes \o SaveIfChanged(listed, edit.manifest) \o
                     Write(ComponentFile(c, kind, name, format), c))

LEMMA AddedComponent ==
    ASSUME NEW m \in Manifests, NEW kind \in ComponentKinds, NEW name \in Entities, NEW format \in Formats,
           NEW edit \in EditsFrom(m), NEW c \in OfKind(kind, name)
    PROVE  Added(m, kind, name, format, edit, c) \in EditsFrom(m)
<1> DEFINE listed == AddCompDef(edit.manifest, c.type, Folder(kind, name))
           file   == ComponentFile(c, kind, name, format)
<1>1. c.name \in Seq(Word) /\ c \in Contents /\ kind \in Kinds
  BY DEF OfKind, Components, Contents, ComponentKinds
<1>2. edit.manifest \in OfFormat(m.format) /\ edit.changes \in Seq(EditsOf(m.format))
  BY DEF EditsFrom
<1>3. listed \in OfFormat(m.format)
  BY <1>2, ListedIs, FormatStays, AddedIs
<1>4. file \in Paths /\ file \notin ManifestFiles
  <2>1. "solution" \in Roots
    BY DEF Roots
  <2> QED BY <1>1, <2>1, FolderIs, BelowIs DEF ComponentFile
<1>8. Placed(file, c)
  BY PlacedIs
<1> HIDE DEF listed, file
<1>5. /\ SaveIfChanged(listed, edit.manifest) \in Seq(EditsOf(m.format))
      /\ Write(file, c) \in Seq(EditsOf(m.format))
  BY <1>1, <1>3, <1>4, <1>8, SavedIfChanged, WrittenIs
<1>6. edit.changes \o SaveIfChanged(listed, edit.manifest) \o Write(file, c) \in Seq(EditsOf(m.format))
  BY <1>2, <1>5, Joined
<1>7. Edit(listed, edit.changes \o SaveIfChanged(listed, edit.manifest) \o Write(file, c)) \in EditsFrom(m)
  BY <1>3, <1>6 DEF Edit, EditsFrom
<1> QED BY <1>7 DEF Added, listed, file

\* The largest of a set of positions.
LEMMA LastOne ==
    ASSUME NEW n \in Nat, NEW S \in SUBSET (1..n), S # {}
    PROVE  Max(S) \in S /\ \A i \in S : i <= Max(S)
<1> DEFINE good == {T \in SUBSET S : T = {} \/ \E x \in T : \A y \in T : y <= x}
<1>1. IsFiniteSet(S)
  <2>1. IsFiniteSet(1..n)
    BY FS_Interval
  <2> QED BY <2>1, FS_Subset
<1>2. ASSUME NEW T \in SUBSET S, NEW x \in T, T \ {x} \in good PROVE T \in good
  <2>1. CASE T \ {x} = {}
    BY <2>1
  <2>2. CASE T \ {x} # {}
    <3>1. PICK z \in T \ {x} : \A y \in T \ {x} : y <= z
      BY <1>2, <2>2
    <3>2. x \in Int /\ z \in Int /\ \A y \in T : y \in Int
      OBVIOUS
    <3>3. CASE x <= z
      <4>1. \A y \in T : y <= z
        BY <3>1, <3>3
      <4> QED BY <4>1
    <3>4. CASE z < x
      <4>1. \A y \in T : y <= x
        BY <3>1, <3>2, <3>4
      <4> QED BY <4>1
    <3> QED BY <3>2, <3>3, <3>4
  <2> QED BY <2>1, <2>2
<1>3. \A T \in SUBSET S : T # {} => \E x \in T : T \ {x} \in good => T \in good
  <2> HIDE DEF good
  <2> QED BY <1>2
<1>4. {} \in good
  OBVIOUS
<1>5. \A T \in SUBSET S : T \in good
  <2> HIDE DEF good
  <2> QED BY <1>1, <1>3, <1>4, FoldInduction
<1>6. PICK x \in S : \A y \in S : y <= x
  BY <1>5
<1>7. \A y \in S : x >= y
  BY <1>6
<1>8. Max(S) \in S /\ \A y \in S : Max(S) >= y
  BY <1>7, Zenon DEF Max
<1> QED BY <1>8

\* What addNewComponent begins with.
Start(m, kind) == IF Fmm(kind) THEN NamespaceEdit(m) ELSE Edit(m, <<>>)

LEMMA StartIs ==
    ASSUME NEW m \in Manifests, NEW kind
    PROVE  Start(m, kind) \in EditsFrom(m)
<1>1. Edit(m, <<>>) \in EditsFrom(m)
  BY EmptySeq DEF Edit, EditsFrom, OfFormat
<1> QED BY <1>1, NamespaceIs DEF Start

\* What is so at the beginning and stays so with every component that is added to some of the
\* others ...
Grows(Good, m, kind, name, format) ==
    /\ <<{}, Start(m, kind)>> \in Good
    /\ \A T \in SUBSET DOMAIN NewComponents(m, kind, name) : \A i \in T : \A edit \in EditsFrom(m) :
           <<T \ {i}, edit>> \in Good =>
               <<T, Added(m, kind, name, format, edit, NewComponents(m, kind, name)[i])>> \in Good

\* ... is so at the end.
LEMMA FoldedComponents ==
    ASSUME NEW m \in Manifests, NEW kind \in ComponentKinds, NEW name \in Entities, NEW format \in Formats,
           NEW Good, Grows(Good, m, kind, name, format)
    PROVE  \E edit \in EditsFrom(m) : /\ ComponentChanges(m, kind, name, format) = edit.changes
                                      /\ <<DOMAIN NewComponents(m, kind, name), edit>> \in Good
<1> DEFINE new  == NewComponents(m, kind, name)
           S    == DOMAIN new
           R    == EditsFrom(m)
           base == Start(m, kind)
           Value(f, T) == IF T = {} THEN base
                          ELSE Added(m, kind, name, format, f[T \ {Max(T)}], new[Max(T)])
           iter == CHOOSE f : f = [T \in SUBSET S |-> Value(f, T)]
<1>1. ComponentChanges(m, kind, name, format) = iter[S].changes
  BY DEF ComponentChanges, FoldLeft, MapThenFoldSet, Added, Start
<1>2. new \in Seq(OfKind(kind, name))
  BY NewComponentsAre
<1> DEFINE Goods(T) == {edit \in R : <<T, edit>> \in Good}
<1>20. /\ base \in Goods({})
       /\ \A T \in SUBSET S : \A i \in T : \A edit \in Goods(T \ {i}) :
              <<T, Added(m, kind, name, format, edit, new[i])>> \in Good
  BY StartIs DEF Grows
<1> HIDE DEF new
<1>3. Len(new) \in Nat /\ S = 1..Len(new) /\ IsFiniteSet(S)
  <2>1. Len(new) \in Nat /\ S = 1..Len(new)
    BY <1>2, LenProperties
  <2> QED BY <2>1, FS_Interval
<1>4. \A i \in S : new[i] \in OfKind(kind, name)
  BY <1>2, <1>3, ElementOfSeq
<1>5. \A T \in SUBSET S : T # {} => Max(T) \in T
  BY <1>3, LastOne
<1>6. base \in R
  BY StartIs
<1> HIDE DEF R, base, S
<1>7. \A edit \in R, i \in S : Added(m, kind, name, format, edit, new[i]) \in R
  BY <1>2, <1>4, AddedComponent DEF R
<1>8. \E f : f = [T \in SUBSET S |-> Value(f, T)]
  <2> DEFINE step == [p \in S \X R |-> Added(m, kind, name, format, p[2], new[p[1]])]
             choice == [T \in SUBSET S |-> Max(T)]
  <2>1. step \in [S \X R -> R]
    BY <1>7
  <2>2. \A T \in SUBSET S : choice[T] = Max(T)
    OBVIOUS
  <2>3. \A i \in S, edit \in R : step[<<i, edit>>] = Added(m, kind, name, format, edit, new[i])
    OBVIOUS
  <2> HIDE DEF step, choice
  <2>4. PICK f \in [SUBSET S -> R] : FoldsTo(f, S, base, choice, step)
    <3>1. Chooses(choice, S)
      BY <1>5, <2>2 DEF Chooses
    <3>2. IsFiniteSet(S)
      BY <1>3
    <3> QED BY <1>6, <2>1, <3>1, <3>2, FoldExists
  <2>5. ASSUME NEW T \in SUBSET S, T # {}
        PROVE  step[<<choice[T], f[T \ {choice[T]}]>>] = Added(m, kind, name, format, f[T \ {Max(T)}], new[Max(T)])
    <3>1. Max(T) \in S /\ T \ {Max(T)} \in SUBSET S
      BY <1>5, <2>5
    <3>2. f[T \ {Max(T)}] \in R
      BY <3>1
    <3> QED BY <2>2, <2>3, <3>1, <3>2
  <2>6. \A T \in SUBSET S : f[T] = Value(f, T)
    BY <2>4, <2>5 DEF FoldsTo
  <2> HIDE DEF Value
  <2>7. f = [T \in SUBSET S |-> Value(f, T)]
    BY <2>6
  <2> QED BY <2>7
<1> HIDE DEF Value
<1>9. iter = [T \in SUBSET S |-> Value(iter, T)]
  BY <1>8
<1> HIDE DEF iter
<1> HIDE DEF Goods
<1>10. ASSUME NEW T \in SUBSET S, T # {}, iter[T \ {Max(T)}] \in Goods(T \ {Max(T)})
       PROVE  iter[T] \in Goods(T)
  <2>1. Max(T) \in S /\ Max(T) \in T
    BY <1>5, <1>10
  <2>2. Value(iter, T) = Added(m, kind, name, format, iter[T \ {Max(T)}], new[Max(T)])
    BY <1>10 DEF Value
  <2>3. iter[T \ {Max(T)}] \in R
    BY <1>10 DEF Goods
  <2>4. Value(iter, T) \in R
    BY <1>7, <2>1, <2>2, <2>3
  <2>5. <<T, Value(iter, T)>> \in Good
    BY <1>10, <1>20, <2>1, <2>2
  <2>6. iter[T] = Value(iter, T)
    BY <1>9
  <2> QED BY <2>4, <2>5, <2>6 DEF Goods
<1>11. iter[{}] \in Goods({})
  BY <1>9, <1>20 DEF Value
<1> DEFINE good == {T \in SUBSET S : iter[T] \in Goods(T)}
<1>12. \A T \in SUBSET S : T # {} => \E x \in T : T \ {x} \in good => T \in good
  BY <1>5, <1>10
<1>13. {} \in good
  BY <1>11
<1>14. \A T \in SUBSET S : T \in good
  <2> HIDE DEF good
  <2> QED BY <1>3, <1>12, <1>13, FoldInduction
<1>15. iter[S] \in EditsFrom(m) /\ <<S, iter[S]>> \in Good
  BY <1>14 DEF R, Goods
<1> QED BY <1>1, <1>15 DEF S, new

LEMMA ComponentChangesAre ==
    ASSUME NEW m \in Manifests, NEW kind \in ComponentKinds, NEW name \in Entities, NEW format \in Formats
    PROVE  ComponentChanges(m, kind, name, format) \in Seq(EditsOf(m.format))
<1> DEFINE Good == (SUBSET DOMAIN NewComponents(m, kind, name)) \X EditsFrom(m)
<1>1. <<{}, Start(m, kind)>> \in Good
  BY StartIs
<1>2. ASSUME NEW T \in SUBSET DOMAIN NewComponents(m, kind, name), NEW i \in T, NEW edit \in EditsFrom(m)
      PROVE  <<T, Added(m, kind, name, format, edit, NewComponents(m, kind, name)[i])>> \in Good
  <2>1. NewComponents(m, kind, name)[i] \in OfKind(kind, name)
    BY NewComponentsAre, ElementOfSeq, LenProperties
  <2> QED BY <2>1, AddedComponent
<1> HIDE DEF Good
<1>3. Grows(Good, m, kind, name, format)
  BY <1>1, <1>2 DEF Grows
<1>4. PICK edit \in EditsFrom(m) : /\ ComponentChanges(m, kind, name, format) = edit.changes
                                  /\ <<DOMAIN NewComponents(m, kind, name), edit>> \in Good
  BY <1>3, FoldedComponents, Zenon
<1> QED BY <1>4 DEF EditsFrom

\* The file of a type, and the manifest that lists it.
KnowledgeFile(name, format) == ComponentFile(Knowledge(name), "knowledge", name, format)
WithKnowledge(m, name, format) ==
    [m EXCEPT !.types = @ (+) SetToBag({[KnowledgeFile(name, format) EXCEPT !.root = "any"]})]

LEMMA KnowledgeParts ==
    ASSUME NEW m \in Manifests, "knowledge" \in Kinds, NEW name \in Entities, NEW format \in Formats
    PROVE  /\ Knowledge(name) \in Contents /\ Placed(KnowledgeFile(name, format), Knowledge(name))
           /\ KnowledgeFile(name, format) \in Paths /\ KnowledgeFile(name, format) \notin ManifestFiles
           /\ WithKnowledge(m, name, format) \in OfFormat(m.format)
           /\ WithKnowledge(m, name, format).objects = m.objects
           /\ WithKnowledge(m, name, format).templates = m.templates
           /\ KnowledgeChanges(m, name, format) =
                  Write(KnowledgeFile(name, format), Knowledge(name)) \o SaveManifest(WithKnowledge(m, name, format))
<1> DEFINE c    == Knowledge(name)
           file == KnowledgeFile(name, format)
           t    == [file EXCEPT !.root = "any"]
           B    == m.types (+) SetToBag({t})
           n    == WithKnowledge(m, name, format)
<1>1. c \in Components
  <2>1. "knowledge" \in Word /\ name \in Word /\ "type" \in ComponentTypes
    BY WordFacts DEF AllKinds, ComponentTypes
  <2>2. <<"knowledge", name>> \in Seq(Word)
    BY <2>1, ShortPaths
  <2> QED BY <2>1, <2>2, ComponentIs DEF Knowledge
<1>2. c \in Contents /\ c.name \in Seq(Word) /\ c.type # "fmm:namespace" /\ c.name # <<Original>>
  <2>1. c.type = "type" /\ c.name = <<"knowledge", name>> /\ <<"knowledge", name>> # <<Original>>
    BY DEF Knowledge, Component
  <2> HIDE DEF c
  <2> QED BY <1>1, <2>1 DEF Contents, Components
<1> HIDE DEF c
<1>3. Folder("knowledge", name) = <<"types">>
  BY DEF Folder
<1>4. file = File("solution", <<"types">>, c.name, format)
  BY <1>3 DEF ComponentFile, KnowledgeFile, c
<1>5. file \in Paths /\ file \notin ManifestFiles
  <2>1. "solution" \in Roots
    BY DEF Roots
  <2> QED BY <1>2, <1>3, <1>4, <2>1, FolderIs, BelowIs
<1>6. Placed(file, c)
  <2>1. file.dir = <<"types">> /\ file.name = c.name
    BY <1>4 DEF File
  <2>2. \A e \in Entities : <<"types">> # <<"templates", e>>
    OBVIOUS
  <2> HIDE DEF file
  <2> QED BY <1>2, <2>1, <2>2 DEF Placed
<1>7. n = [m EXCEPT !.types = B]
  BY DEF WithKnowledge
<1> HIDE DEF file, n
<1>8. t \in TypeFiles
  <2>1. t = [root |-> "any", dir |-> <<"types">>, name |-> c.name, format |-> format]
    BY <1>4 DEF File
  <2>2. <<"types">> \in {<<"types">>} /\ format \in {"json", "yaml", "any", ""}
    BY DEF Formats
  <2> HIDE DEF t
  <2> QED BY <1>2, <2>1, <2>2 DEF TypeFiles
<1>9. B \in BagsOver(TypeFiles)
  BY <1>8, OneMore DEF Manifests
<1> HIDE DEF t, B
<1>10. n \in OfFormat(m.format) /\ n.objects = m.objects /\ n.templates = m.templates
  BY <1>7, <1>9 DEF Manifests, OfFormat
<1>11. KnowledgeChanges(m, name, format) = Write(file, c) \o SaveManifest(n)
  BY DEF KnowledgeChanges, KnowledgeFile, WithKnowledge, c, file, n
<1> QED BY <1>2, <1>5, <1>6, <1>10, <1>11 DEF c, file, n

LEMMA KnowledgeIs ==
    ASSUME NEW m \in Manifests, "knowledge" \in Kinds, NEW name \in Entities, NEW format \in Formats
    PROVE  KnowledgeChanges(m, name, format) \in Seq(EditsOf(m.format))
<1>1. SaveManifest(WithKnowledge(m, name, format)) \in Seq(EditsOf(m.format))
  BY KnowledgeParts, FormatStays, SavedIs
<1>2. Write(KnowledgeFile(name, format), Knowledge(name)) \in Seq(EditsOf(m.format))
  BY KnowledgeParts, WrittenIs
<1> QED BY <1>1, <1>2, KnowledgeParts, Joined

-----------------------------------------------------------------------------
(* Fork                                                                    *)

ForkEdits == {c \in Changes : c.file.root = "fork"}
Others(files) == {f \in DOMAIN files : f.root = "solution" /\ f \notin ManifestsIn(files, "solution")}

\* A component has the name of the fork in it, and not that of the solution for its own.
Renamed(f, c) == f.root = "fork" /\ c.kind = "component" => c.solution = Fork /\ f.name # <<Original>>

LEMMA ForkedIs ==
    ASSUME NEW files, GoodFiles(files), NEW f \in Others(files)
    PROVE  /\ ForkedFile(files, f) \in Paths /\ ForkedFile(files, f) \notin ManifestFiles
           /\ ForkedFile(files, f).root = "fork" /\ ForkedFile(files, f).dir = f.dir
           /\ ForkedContents(files[f]) \in Contents
           /\ Renamed(ForkedFile(files, f), ForkedContents(files[f]))
           /\ f.dir = <<"types">> => ForkedFile(files, f) = [f EXCEPT !.root = "fork"]
<1> DEFINE g == ForkedFile(files, f)
           c == ForkedContents(files[f])
           n == IF files[f].kind = "component" /\ files[f].type = "fmm:namespace" /\ f.name = <<Original>>
                THEN <<Fork>> ELSE f.name
<1>1. f \in Paths /\ f.root = "solution" /\ files[f] \in Contents /\ f \in DOMAIN files /\ Placed(f, files[f])
  BY DEF Others, GoodFiles, Fits
<1>2. c \in Contents /\ (c.kind = "component" => files[f] \in Components /\ c.solution = Fork)
  <2>1. CASE files[f].kind = "component"
    <3>1. files[f] \in Components
      BY <1>1, <2>1, KindFacts DEF Contents
    <3> DEFINE d == files[f]
    <3> HIDE DEF d
    <3>2. d \in Components => [d EXCEPT !.solution = Fork] \in Components /\ [d EXCEPT !.solution = Fork].solution = Fork
      BY DEF Components, Names
    <3> QED BY <2>1, <3>1, <3>2 DEF ForkedContents, Contents, d
  <2>2. CASE files[f].kind # "component"
    BY <1>1, <2>2 DEF ForkedContents
  <2> QED BY <2>1, <2>2
<1>3. <<Fork>> \in Seq(Word) /\ <<Fork>> # <<"manifest">> /\ <<Fork>> # <<Original>>
  BY WordFacts, ShortPaths DEF Fork, Original
<1>4. g = [f EXCEPT !.root = "fork", !.name = n] /\ n \in {f.name, <<Fork>>}
  BY DEF ForkedFile
<1>5. files[f] \in Components => n # <<Original>>
  BY <1>1, <1>3, KindFacts DEF Placed
<1>6. files[f] \in Components /\ f.dir = <<"types">> => n = f.name
  BY <1>1 DEF Placed, NamespaceDir
<1>7. files[f] \notin Components => n = f.name
  BY <1>1, KindFacts DEF Contents
<1> HIDE DEF g, c, n
<1>8. g \in Paths /\ g.root = "fork" /\ g.dir = f.dir /\ g.name = n /\ g.format = f.format
  BY <1>1, <1>3, <1>4 DEF Paths, Roots
<1>9. f.dir = <<"types">> => g = [f EXCEPT !.root = "fork"]
  BY <1>1, <1>4, <1>6, <1>7 DEF Paths
<1>10. g \notin ManifestFiles
  <2>1. SUFFICES ASSUME g \in ManifestFiles PROVE FALSE
    OBVIOUS
  <2>2. PICK root \in {"solution", "fork"}, format \in Formats : g = ManifestFile(root, format)
    BY <2>1 DEF ManifestFiles
  <2>3. g.dir = <<>> /\ g.name = <<"manifest">> /\ g.format = format
    BY <2>2, ManifestFileFacts DEF Roots
  <2>4. f.dir = <<>> /\ f.name = <<"manifest">> /\ f.format = format /\ f.root = "solution"
    BY <1>1, <1>3, <1>4, <1>8, <2>3
  <2>5. f = ManifestFile("solution", format)
    BY <1>1, <2>4 DEF ManifestFile, File, Paths
  <2> QED BY <1>1, <2>5 DEF Others, ManifestsIn
<1>11. Renamed(g, c)
  BY <1>2, <1>5, <1>8 DEF Renamed
<1> QED BY <1>2, <1>8, <1>9, <1>10, <1>11 DEF g, c

\* The changes that copy a set of files, in some order.
CopyOf(files, f) == [file |-> ForkedFile(files, f), contents |-> ForkedContents(files[f])]
Copies(files, T) == {s \in Seq({CopyOf(files, f) : f \in T}) : \A f \in T : \E i \in DOMAIN s : s[i] = CopyOf(files, f)}

LEMMA CopiedMore ==
    ASSUME NEW files, NEW T, NEW f \in T, NEW s \in Copies(files, T \ {f})
    PROVE  s \o Change(ForkedFile(files, f), ForkedContents(files[f])) \in Copies(files, T)
<1> DEFINE C == {CopyOf(files, g) : g \in T}
           t == Change(ForkedFile(files, f), ForkedContents(files[f]))
           u == s \o t
<1>1. CopyOf(files, f) \in C /\ {CopyOf(files, g) : g \in T \ {f}} \subseteq C
  OBVIOUS
<1>2. t = <<CopyOf(files, f)>>
  BY DEF Change, CopyOf
<1>3. t \in Seq(C) /\ s \in Seq(C)
  BY <1>1, <1>2, SeqMonotonic DEF Copies
<1>4. 1 \in 1..Len(t) /\ t[1] = CopyOf(files, f)
  BY <1>2
<1> HIDE DEF C, t
<1>5. /\ Len(s) \in Nat /\ Len(t) \in Nat /\ DOMAIN s = 1..Len(s)
      /\ DOMAIN u = 1..(Len(s) + Len(t))
      /\ \A i \in 1..Len(s) : u[i] = s[i]
      /\ \A i \in 1..Len(t) : u[Len(s) + i] = t[i]
  BY <1>3, JoinedIs
<1>6. u \in Seq(C)
  BY <1>3, Joined
<1> HIDE DEF u
<1>7. \A g \in T \ {f} : \E i \in DOMAIN u : u[i] = CopyOf(files, g)
  <2>1. \A i \in DOMAIN s : i \in DOMAIN u
    BY <1>5
  <2> QED BY <1>5, <2>1 DEF Copies
<1>8. \E i \in DOMAIN u : u[i] = CopyOf(files, f)
  <2>1. Len(s) + 1 \in DOMAIN u /\ u[Len(s) + 1] = t[1]
    BY <1>4, <1>5
  <2> QED BY <1>4, <2>1
<1> QED BY <1>6, <1>7, <1>8 DEF Copies, C, u, t

\* The manifest of the fork.
ForkedManifest(m) == [m EXCEPT !.solution = Fork, !.version = 0]

\* The files that fork copies, and the manifest.
LEMMA FoldedCopies ==
    ASSUME NEW files, GoodFiles(files), NEW m
    PROVE  \E copied \in Copies(files, Others(files)) :
               ForkChanges(files, m) =
                   copied \o Write(ManifestFile("fork", m.format), ForkedManifest(m))
<1> DEFINE S == Others(files)
           R == Seq({CopyOf(files, f) : f \in Others(files)})
           Pick(T) == CHOOSE x \in T : TRUE
           One(f) == Change(ForkedFile(files, f), ForkedContents(files[f]))
           Value(f, T) == IF T = {} THEN <<>> ELSE f[T \ {Pick(T)}] \o One(Pick(T))
           iter == CHOOSE f : f = [T \in SUBSET S |-> Value(f, T)]
           last == Write(ManifestFile("fork", m.format), ForkedManifest(m))
<1>1. ForkChanges(files, m) = iter[S] \o last
  BY DEF ForkChanges, FoldSet, MapThenFoldSet, Others, ForkedManifest
<1>2. IsFiniteSet(S)
  BY FS_Subset DEF Others, GoodFiles
<1>3. \A f \in S : One(f) \in R
  BY ChangeIs DEF CopyOf
<1>4. \A T \in SUBSET S : T # {} => Pick(T) \in T
  OBVIOUS
<1>5. <<>> \in R
  BY EmptySeq
<1>6. \A s \in R, t \in R : s \o t \in R
  BY Joined
<1> HIDE DEF S, R, Pick, One, last
<1>8. \E f : f = [T \in SUBSET S |-> Value(f, T)]
  <2> DEFINE step == [p \in S \X R |-> p[2] \o One(p[1])]
             choice == [T \in SUBSET S |-> Pick(T)]
  <2>1. step \in [S \X R -> R]
    BY <1>3, <1>6
  <2>2. \A T \in SUBSET S : choice[T] = Pick(T)
    OBVIOUS
  <2>3. \A x \in S, s \in R : step[<<x, s>>] = s \o One(x)
    OBVIOUS
  <2> HIDE DEF step, choice
  <2>4. PICK f \in [SUBSET S -> R] : FoldsTo(f, S, <<>>, choice, step)
    <3>1. Chooses(choice, S)
      BY <1>4, <2>2 DEF Chooses
    <3> QED BY <1>2, <1>5, <2>1, <3>1, FoldExists
  <2>5. ASSUME NEW T \in SUBSET S, T # {}
        PROVE  step[<<choice[T], f[T \ {choice[T]}]>>] = f[T \ {Pick(T)}] \o One(Pick(T))
    <3>1. Pick(T) \in S /\ T \ {Pick(T)} \in SUBSET S
      BY <1>4, <2>5
    <3>2. f[T \ {Pick(T)}] \in R
      BY <3>1
    <3> QED BY <2>2, <2>3, <3>1, <3>2
  <2>6. \A T \in SUBSET S : f[T] = Value(f, T)
    BY <2>4, <2>5 DEF FoldsTo
  <2> HIDE DEF Value
  <2>7. f = [T \in SUBSET S |-> Value(f, T)]
    BY <2>6
  <2> QED BY <2>7
<1> HIDE DEF Value
<1>9. iter = [T \in SUBSET S |-> Value(iter, T)]
  BY <1>8
<1> HIDE DEF iter
<1>10. ASSUME NEW T \in SUBSET S, T # {}, iter[T \ {Pick(T)}] \in Copies(files, T \ {Pick(T)})
       PROVE  iter[T] \in Copies(files, T)
  <2>1. Pick(T) \in T
    BY <1>4, <1>10
  <2>2. iter[T] = iter[T \ {Pick(T)}] \o One(Pick(T))
    BY <1>9, <1>10 DEF Value
  <2> QED BY <1>10, <2>1, <2>2, CopiedMore DEF One
<1>11. iter[{}] \in Copies(files, {})
  <2>1. iter[{}] = <<>>
    BY <1>9 DEF Value
  <2> QED BY <2>1, EmptySeq DEF Copies
<1> DEFINE good == {T \in SUBSET S : iter[T] \in Copies(files, T)}
<1>12. \A T \in SUBSET S : T # {} => \E x \in T : T \ {x} \in good => T \in good
  BY <1>4, <1>10
<1>13. {} \in good
  BY <1>11
<1>14. \A T \in SUBSET S : T \in good
  <2> HIDE DEF good
  <2> QED BY <1>2, <1>12, <1>13, FoldInduction
<1>15. iter[S] \in Copies(files, S)
  BY <1>14
<1> QED BY <1>1, <1>15 DEF S, last

LEMMA ForkedManifestIs ==
    ASSUME NEW m \in Manifests
    PROVE  /\ ForkedManifest(m) \in OfFormat(m.format) /\ ForkedManifest(m).solution = Fork
           /\ ForkedManifest(m).types = m.types /\ ForkedManifest(m).objects = m.objects
           /\ ManifestFile("fork", m.format) \in Paths /\ ManifestFile("fork", m.format).root = "fork"
           /\ Write(ManifestFile("fork", m.format), ForkedManifest(m)) \in Seq(ForkEdits)
<1> DEFINE n == ForkedManifest(m)
           f == ManifestFile("fork", m.format)
<1>1. n \in Manifests /\ n.format = m.format /\ n.solution = Fork /\ n.types = m.types /\ n.objects = m.objects
  BY DEF ForkedManifest, Manifests, Names
<1>2. f \in Paths /\ f.root = "fork" /\ f.format = m.format
  BY ManifestFileFacts DEF Manifests, Roots
<1> HIDE DEF n, f
<1>3. n \in Contents /\ Fits(f, n)
  BY <1>1, <1>2, ManifestFits
<1>4. \A c \in {Empty, n} : [file |-> f, contents |-> c] \in ForkEdits
  BY <1>2, <1>3, WriteChanges DEF ForkEdits
<1>5. Write(f, n) \in Seq(ForkEdits)
  BY <1>4, WriteIs
<1> QED BY <1>1, <1>2, <1>5 DEF OfFormat, n, f

LEMMA CopiesAre ==
    ASSUME NEW files, GoodFiles(files), NEW copied \in Copies(files, Others(files))
    PROVE  copied \in Seq(ForkEdits)
<1>1. ASSUME NEW f \in Others(files) PROVE CopyOf(files, f) \in ForkEdits
  <2>1. CopyOf(files, f) \in Changes
    BY ForkedIs, WriteChanges DEF CopyOf, Fits, Placed
  <2> QED BY <2>1, ForkedIs DEF ForkEdits, CopyOf
<1>2. {CopyOf(files, f) : f \in Others(files)} \subseteq ForkEdits
  BY <1>1
<1> QED BY <1>2, SeqMonotonic DEF Copies

LEMMA FoldedFork ==
    ASSUME NEW files, GoodFiles(files), NEW m \in Manifests
    PROVE  ForkChanges(files, m) \in Seq(ForkEdits)
<1>1. PICK copied \in Copies(files, Others(files)) :
          ForkChanges(files, m) = copied \o Write(ManifestFile("fork", m.format), ForkedManifest(m))
  BY FoldedCopies
<1> QED BY <1>1, CopiesAre, ForkedManifestIs, Joined

-----------------------------------------------------------------------------
(* Packages                                                                *)

LEMMA TailOfJoined ==
    ASSUME NEW S, NEW x \in S, NEW s \in Seq(S)
    PROVE  /\ <<x>> \o s \in Seq(S)
           /\ Head(<<x>> \o s) = x /\ Tail(<<x>> \o s) = s /\ <<x>> \o s # <<>>
<1> DEFINE t == <<x>> \o s
           o == <<x>>
<1>1. o \in Seq(S) /\ Len(o) = 1 /\ o[1] = x
  OBVIOUS
<1> HIDE DEF o
<1>2. Len(s) \in Nat
  BY LenProperties
<1>3. t \in Seq(S) /\ Len(t) = 1 + Len(s) /\ \A i \in 1..(1 + Len(s)) : t[i] = IF i <= 1 THEN o[i] ELSE s[i - 1]
  BY <1>1, ConcatProperties DEF o
<1> HIDE DEF t
<1>4. t # <<>>
  BY <1>2, <1>3, EmptySeq
<1>5. Tail(t) \in Seq(S) /\ Len(Tail(t)) = Len(s) /\ \A i \in 1..Len(s) : Tail(t)[i] = t[i + 1]
  BY <1>2, <1>3, <1>4, HeadTailProperties
<1>6. \A i \in 1..Len(s) : Tail(t)[i] = s[i]
  BY <1>2, <1>3, <1>5
<1>7. Tail(t) = s
  BY <1>5, <1>6, SeqEqual
<1>8. Head(t) = x
  BY <1>1, <1>2, <1>3
<1> QED BY <1>3, <1>4, <1>7, <1>8 DEF t, o

Packed(files) == {f \in DOMAIN files : f.root = "solution" /\ IsAllowedPath(f)}

\* Unpacking a package gives the files of the solution, but for the tag.
LEMMA ZippedAndUnzipped ==
    ASSUME NEW files, GoodFiles(files)
    PROVE  /\ DOMAIN Unzipped(Zipped(files)) = Packed(files)
           /\ \A f \in Packed(files) : Unzipped(Zipped(files))[f] = files[f]
<1> DEFINE ZipPath(f) == [f EXCEPT !.root = "zip", !.dir = <<Original>> \o @]
           UnzipPath(z) == [z EXCEPT !.root = "solution", !.dir = Tail(@)]
           P == Packed(files)
           Z == {ZipPath(f) : f \in P}
           archive == Zipped(files)
<1>1. archive = [z \in Z |-> files[UnzipPath(z)]]
  BY DEF Zipped, Packed
<1>2. Unzipped(archive) = [f \in {UnzipPath(z) : z \in DOMAIN archive} |-> archive[ZipPath(f)]]
  BY DEF Unzipped
<1>3. ASSUME NEW f \in P PROVE UnzipPath(ZipPath(f)) = f
  <2>1. f \in Paths /\ f.root = "solution"
    BY DEF Packed, GoodFiles
  <2>2. f.dir \in Seq(Word) /\ Original \in Word
    BY <2>1, WordFacts DEF Paths
  <2>3. Tail(<<Original>> \o f.dir) = f.dir
    BY <2>2, TailOfJoined
  <2> DEFINE d == <<Original>> \o f.dir
  <2>4. Tail(d) = f.dir
    BY <2>3
  <2>5. ZipPath(f) = [f EXCEPT !.root = "zip", !.dir = d]
    BY <2>1 DEF Paths
  <2> HIDE DEF d
  <2>6. UnzipPath(ZipPath(f)) = [f EXCEPT !.root = "solution", !.dir = f.dir]
    BY <2>1, <2>4, <2>5 DEF Paths
  <2> QED BY <2>1, <2>6 DEF Paths
<1> HIDE DEF ZipPath, UnzipPath, P
<1>4. {UnzipPath(z) : z \in Z} = P
  BY <1>3
<1>5. \A f \in P : ZipPath(f) \in Z
  OBVIOUS
<1> HIDE DEF Z
<1>6. DOMAIN archive = Z /\ \A f \in P : archive[ZipPath(f)] = files[f]
  BY <1>1, <1>3, <1>5
<1> HIDE DEF archive
<1>7. DOMAIN Unzipped(archive) = P
  BY <1>2, <1>4, <1>6
<1>8. \A f \in P : Unzipped(archive)[f] = files[f]
  BY <1>2, <1>4, <1>6
<1> QED BY <1>7, <1>8 DEF archive, P

\* A copy without templates has the files that are listed, and a manifest in JSON.
LEMMA CopyIs ==
    ASSUME NEW files, GoodFiles(files), NEW m \in Manifests, m.format = "json"
    PROVE  GoodFiles(IsolatedCopy(files, m))
<1> DEFINE f == ManifestFile("solution", "json")
           n == [m EXCEPT !.templates = {}]
           L == {g \in DOMAIN files : g.root = "solution" /\ Listed(g, m)}
           copy == [g \in L \cup {f} |-> IF g = f THEN n ELSE files[g]]
<1>1. IsolatedCopy(files, m) = copy
  BY DEF IsolatedCopy
<1>2. n \in Manifests /\ n.format = "json"
  BY DEF Manifests
<1>3. f \in Paths /\ f.format = "json"
  BY ManifestFileFacts DEF Roots, Formats
<1>4. L \subseteq DOMAIN files /\ IsFiniteSet(DOMAIN files)
  BY DEF GoodFiles
<1>5. DOMAIN copy = L \cup {f} /\ copy[f] = n /\ \A g \in L : g # f => copy[g] = files[g]
  OBVIOUS
<1> HIDE DEF f, n, L, copy
<1>6. IsFiniteSet(L \cup {f})
  BY <1>4, FS_Subset, FS_AddElement
<1>7. n \in Contents /\ Fits(f, n)
  BY <1>2, <1>3, ManifestFits DEF f
<1>8. \A g \in L \cup {f} : g \in Paths /\ copy[g] \in Contents /\ Fits(g, copy[g])
  BY <1>3, <1>4, <1>5, <1>7 DEF GoodFiles
<1> QED BY <1>1, <1>5, <1>6, <1>8 DEF GoodFiles

-----------------------------------------------------------------------------
(* The invariant                                                           *)

\* Of the manifests of the solution one is edited, or all that can be read describe the same.
Core(m) == <<m.types, m.objects, m.version>>
Describing(core) ==
    {c \in Changes : c.file \in SolutionManifests =>
                         c.contents \in {Empty, Gone} \/ Core(c.contents) = core}

Edits(files, changes) ==
    \E format \in Formats : /\ ManifestsIn(files, "solution") \subseteq {ManifestFile("solution", format)}
                            /\ changes \in Seq(EditsOf(format))
Describes(files, changes) ==
    \E core : /\ \A f \in ManifestsIn(files, "solution") : files[f] = Empty \/ Core(files[f]) = core
              /\ changes \in Seq(Describing(core))
ManifestsOK(files, changes) == Edits(files, changes) \/ Describes(files, changes)

\* A fix first backs up the manifest that is there, and then leaves the backup alone.
NotBackup == {c \in Changes : c.file # Backup}
BacksUp(changes) ==
    \E m \in Manifests, rest \in Seq(NotBackup) :
        changes \in {Write(Backup, m) \o rest, Change(Backup, m) \o rest}
BackedUp(files) == Backup \in DOMAIN files /\ files[Backup] \in Manifests
FixOK(files, changes) ==
    changes # <<>> =>
        \/ GetManifest(files, "solution") # {} /\ BacksUp(changes)
        \/ BackedUp(files) /\ changes \in Seq(NotBackup)

FilesInv ==
    /\ FilesTypes
    /\ ManifestsOK(disk, running.changes)
    /\ running.command = <<"fix">> => FixOK(disk, running.changes)

-----------------------------------------------------------------------------
(* One change                                                              *)

LEMMA Applied ==
    ASSUME NEW files, NEW c
    PROVE  /\ \A f \in DOMAIN files : f # c.file => f \in DOMAIN Apply(files, c) /\ Apply(files, c)[f] = files[f]
           /\ \A f \in DOMAIN Apply(files, c) : f # c.file => f \in DOMAIN files
           /\ c.contents = Gone => c.file \notin DOMAIN Apply(files, c)
           /\ c.contents # Gone => c.file \in DOMAIN Apply(files, c) /\ Apply(files, c)[c.file] = c.contents
BY DEF Apply, Restrict

LEMMA AppliedManifests ==
    ASSUME NEW files, NEW c
    PROVE  /\ \A f \in ManifestsIn(Apply(files, c), "solution") :
                  IF f = c.file THEN c.contents # Gone /\ Apply(files, c)[f] = c.contents
                  ELSE f \in ManifestsIn(files, "solution") /\ Apply(files, c)[f] = files[f]
           /\ ManifestsIn(files, "solution") \subseteq SolutionManifests
           /\ ManifestsIn(Apply(files, c), "solution") \subseteq SolutionManifests
<1>1. \A g : ManifestsIn(g, "solution") = {f \in SolutionManifests : f \in DOMAIN g}
  BY DEF ManifestsIn, SolutionManifests
<1> QED BY <1>1, Applied

LEMMA EditedStep ==
    ASSUME NEW files, NEW changes, changes # <<>>, Edits(files, changes)
    PROVE  Edits(Apply(files, Head(changes)), Tail(changes))
<1> DEFINE c == Head(changes)
<1>1. PICK format \in Formats :
          /\ ManifestsIn(files, "solution") \subseteq {ManifestFile("solution", format)}
          /\ changes \in Seq(EditsOf(format))
  BY DEF Edits
<1>2. c \in EditsOf(format) /\ Tail(changes) \in Seq(EditsOf(format))
  BY <1>1, HeadTailProperties
<1> HIDE DEF c
<1>3. ManifestsIn(Apply(files, c), "solution") \subseteq {ManifestFile("solution", format)}
  BY <1>1, <1>2, AppliedManifests DEF EditsOf
<1> QED BY <1>2, <1>3 DEF Edits, c

LEMMA DescribedStep ==
    ASSUME NEW files, NEW changes, changes # <<>>, Describes(files, changes)
    PROVE  Describes(Apply(files, Head(changes)), Tail(changes))
<1> DEFINE c == Head(changes)
<1>1. PICK core :
          /\ \A f \in ManifestsIn(files, "solution") : files[f] = Empty \/ Core(files[f]) = core
          /\ changes \in Seq(Describing(core))
  BY DEF Describes
<1>2. c \in Describing(core) /\ Tail(changes) \in Seq(Describing(core))
  BY <1>1, HeadTailProperties
<1> HIDE DEF c
<1>3. ASSUME NEW f \in ManifestsIn(Apply(files, c), "solution")
      PROVE  Apply(files, c)[f] = Empty \/ Core(Apply(files, c)[f]) = core
  <2>1. CASE f = c.file
    <3>1. f \in SolutionManifests /\ c.contents # Gone /\ Apply(files, c)[f] = c.contents
      BY <2>1, AppliedManifests
    <3> QED BY <1>2, <2>1, <3>1 DEF Describing
  <2>2. CASE f # c.file
    BY <1>1, <2>2, AppliedManifests
  <2> QED BY <2>1, <2>2
<1> QED BY <1>2, <1>3 DEF Describes, c

\* Writing the backup changes no manifest.
LEMMA ManifestStays ==
    ASSUME NEW files, NEW c, c.file \notin SolutionManifests
    PROVE  GetManifest(Apply(files, c), "solution") = GetManifest(files, "solution")
<1>1. \A g : ManifestsIn(g, "solution") = {f \in SolutionManifests : f \in DOMAIN g}
  BY DEF ManifestsIn, SolutionManifests
<1>2. ManifestsIn(Apply(files, c), "solution") = ManifestsIn(files, "solution")
  <2>1. \A f \in SolutionManifests : f \in DOMAIN Apply(files, c) <=> f \in DOMAIN files
    BY Applied
  <2> QED BY <1>1, <2>1
<1>3. \A f \in ManifestsIn(files, "solution") : Apply(files, c)[f] = files[f]
  BY <1>1, Applied
<1>4. {Apply(files, c)[f] : f \in ManifestsIn(files, "solution")} = {files[f] : f \in ManifestsIn(files, "solution")}
  BY <1>3
<1> QED BY <1>2, <1>4 DEF GetManifest

LEMMA SolutionManifestFacts ==
    /\ \A f \in SolutionManifests : f.root = "solution" /\ f \in ManifestFiles /\ f \in Paths
    /\ Backup \notin SolutionManifests
    /\ \A format \in Formats : /\ ManifestFile("solution", format) \in SolutionManifests
                               /\ ManifestFile("solution", format).format = format
<1>1. "solution" \in Roots
  BY DEF Roots
<1>2. \A format \in Formats : ManifestFile("solution", format) \in Paths
  BY <1>1, ManifestFileFacts
<1> QED BY <1>1, <1>2, ManifestFileFacts DEF SolutionManifests, ManifestFiles

LEMMA FixedStep ==
    ASSUME NEW files, NEW changes, changes # <<>>, FixOK(files, changes)
    PROVE  FixOK(Apply(files, Head(changes)), Tail(changes))
<1> DEFINE c == Head(changes)
           g == Apply(files, c)
<1>1. CASE GetManifest(files, "solution") # {} /\ BacksUp(changes)
  <2>1. PICK m \in Manifests, rest \in Seq(NotBackup) :
            changes \in {Write(Backup, m) \o rest, Change(Backup, m) \o rest}
    BY <1>1 DEF BacksUp
  <2> DEFINE e == [file |-> Backup, contents |-> Empty]
             d == [file |-> Backup, contents |-> m]
             All == NotBackup \cup {e, d}
  <2>2. /\ <<d>> \in Seq(All) /\ <<e>> \in Seq(All) /\ rest \in Seq(All)
        /\ d \in All /\ e \in All
        /\ Write(Backup, m) = <<e>> \o <<d>> /\ Change(Backup, m) = <<d>>
    BY SeqMonotonic DEF Write, Change
  <2>3. d.file = Backup /\ d.contents = m /\ e.file = Backup /\ e.contents = Empty
    OBVIOUS
  <2> HIDE DEF e, d, All
  <2>4. <<d>> \o rest \in Seq(All)
    BY <2>2, Joined
  <2>5. CASE changes = Write(Backup, m) \o rest
    <3>1. changes = <<e>> \o (<<d>> \o rest)
      BY <2>2, <2>5, ConcatAssociative
    <3>2. c = e /\ Tail(changes) = <<d>> \o rest
      BY <2>2, <2>4, <3>1, TailOfJoined
    <3>3. GetManifest(g, "solution") # {}
      BY <1>1, <2>3, <3>2, ManifestStays, SolutionManifestFacts
    <3>4. BacksUp(Tail(changes))
      BY <2>1, <2>2, <3>2 DEF BacksUp
    <3> QED BY <3>3, <3>4 DEF FixOK
  <2>6. CASE changes = Change(Backup, m) \o rest
    <3>1. c = d /\ Tail(changes) = rest
      BY <2>2, <2>6, TailOfJoined
    <3>2. m # Gone
      BY KindFacts DEF Contents
    <3>3. BackedUp(g)
      BY <2>1, <2>3, <3>1, <3>2, Applied DEF BackedUp
    <3> QED BY <2>1, <3>1, <3>3 DEF FixOK
  <2> QED BY <2>1, <2>5, <2>6
<1>2. CASE BackedUp(files) /\ changes \in Seq(NotBackup)
  <2>1. c \in NotBackup /\ Tail(changes) \in Seq(NotBackup)
    BY <1>2, HeadTailProperties
  <2>2. BackedUp(g)
    BY <1>2, <2>1, Applied DEF BackedUp, NotBackup
  <2> QED BY <2>1, <2>2 DEF FixOK
<1> QED BY <1>1, <1>2 DEF FixOK

-----------------------------------------------------------------------------
(* Steps                                                                   *)

LEMMA TypesInit == Init => FilesInv
<1> SUFFICES ASSUME Init PROVE FilesInv
  OBVIOUS
<1>1. running = [command |-> <<>>, changes |-> <<>>] /\ running.changes = <<>> /\ running.command = <<>>
  BY DEF Init
<1>2. running \in [command : Seq(Word), changes : Seq(Changes)]
  BY <1>1, EmptySeq
<1>3. crashed \in 0..MaxCrashes /\ started \in 0..MaxCommands
  BY BoundsAssumption DEF Init
<1>4. GoodFiles(disk) /\ ManifestsIn(disk, "solution") \subseteq {ManifestFile("solution", "json")}
  <2>1. CASE disk = <<>>
    <3>1. DOMAIN disk = {}
      BY <2>1
    <3> QED BY <3>1, FS_EmptySet DEF GoodFiles, ManifestsIn
  <2>2. ASSUME NEW i \in Templated, disk = [f \in {ManifestFile("solution", "json")} |-> HandMade(i)]
        PROVE  GoodFiles(disk) /\ ManifestsIn(disk, "solution") \subseteq {ManifestFile("solution", "json")}
    <3> DEFINE f == ManifestFile("solution", "json")
               m == HandMade(i)
    <3>1. f \in Paths /\ f.format = "json"
      BY ManifestFileFacts DEF Roots, Formats
    <3>2. m \in Manifests /\ m.format = "json"
      BY InitialIs, TemplatedAssumption
    <3>3. DOMAIN disk = {f} /\ disk[f] = m
      BY <2>2
    <3> HIDE DEF f, m
    <3>4. IsFiniteSet({f})
      BY FS_Singleton
    <3>5. m \in Contents /\ Fits(f, m)
      BY <3>1, <3>2, ManifestFits
    <3>6. GoodFiles(disk)
      BY <3>1, <3>3, <3>4, <3>5 DEF GoodFiles
    <3>7. ManifestsIn(disk, "solution") \subseteq {f}
      BY <3>3 DEF ManifestsIn
    <3> QED BY <3>6, <3>7 DEF f
  <2> QED BY <2>1, <2>2 DEF Init
<1>5. GoodFiles(Unzipped(bundle))
  <2>1. DOMAIN bundle = {}
    BY DEF Init
  <2>2. DOMAIN Unzipped(bundle) = {}
    BY <2>1 DEF Unzipped
  <2> QED BY <2>2, FS_EmptySet DEF GoodFiles
<1>6. ManifestsOK(disk, running.changes)
  <2>1. "json" \in Formats
    BY DEF Formats
  <2>2. <<>> \in Seq(EditsOf("json"))
    BY EmptySeq
  <2> QED BY <1>1, <1>4, <2>1, <2>2 DEF ManifestsOK, Edits
<1>7. running.command # <<"fix">>
  BY <1>1
<1> QED BY <1>2, <1>3, <1>4, <1>5, <1>6, <1>7 DEF FilesInv, FilesTypes

\* A command that starts.
LEMMA Started ==
    ASSUME FilesInv, NEW command \in Seq(Word), NEW changes \in Seq(Changes), Run(command, changes),
           ManifestsOK(disk, changes), command = <<"fix">> => FixOK(disk, changes)
    PROVE  FilesInv'
<1>1. running' = [command |-> command, changes |-> changes] /\ disk' = disk /\ bundle' = bundle
  BY DEF Run
<1>2. running'.command = command /\ running'.changes = changes
  BY <1>1
<1>3. running' \in [command : Seq(Word), changes : Seq(Changes)]
  BY <1>1
<1>4. crashed' \in 0..MaxCrashes /\ started' \in 0..MaxCommands
  BY BoundsAssumption DEF Run, FilesInv, FilesTypes
<1>5. GoodFiles(disk') /\ GoodFiles(Unzipped(bundle'))
  BY <1>1 DEF FilesInv, FilesTypes
<1>6. ManifestsOK(disk', running'.changes) /\ (running'.command = <<"fix">> => FixOK(disk', running'.changes))
  BY <1>1, <1>2
<1> QED BY <1>3, <1>4, <1>5, <1>6 DEF FilesInv, FilesTypes

LEMMA EditsAreChanges == \A format : EditsOf(format) \subseteq Changes
BY DEF EditsOf

\* A command that edits the manifest that it found.
LEMMA StartedEditing ==
    ASSUME FilesInv, NEW m \in GetManifest(disk, "solution"), NEW command \in Seq(Word),
           NEW changes \in Seq(EditsOf(m.format)), Run(command, changes), command # <<"fix">>
    PROVE  FilesInv'
<1>1. m \in Manifests /\ ManifestsIn(disk, "solution") = {ManifestFile("solution", m.format)}
  BY FoundManifest DEF FilesInv, FilesTypes
<1>2. m.format \in Formats
  BY <1>1 DEF Manifests
<1>3. ManifestsOK(disk, changes)
  BY <1>1, <1>2 DEF ManifestsOK, Edits
<1>4. changes \in Seq(Changes)
  BY EditsAreChanges, SeqMonotonic
<1> QED BY <1>3, <1>4, Started

LEMMA CommandIs ==
    /\ <<"init">> \in Seq(Word) /\ <<"bump">> \in Seq(Word) /\ <<"fix">> \in Seq(Word)
    /\ <<"refused">> \in Seq(Word) /\ <<"tag">> \in Seq(Word) /\ <<"fork">> \in Seq(Word)
    /\ \A kind \in Kinds, name \in Entities : <<kind, name>> \in Seq(Word) /\ <<kind, name>> # <<"fix">>
<1>1. {"init", "bump", "fix", "refused", "tag", "fork"} \subseteq Word
  BY DEF Word
<1>2. \A kind \in Kinds, name \in Entities : kind \in Word /\ name \in Word
  BY KindsAssumption, WordFacts
<1>3. \A kind \in Kinds, name \in Entities : <<kind, name>> # <<"fix">>
  OBVIOUS
<1> QED BY <1>1, <1>2, <1>3, ShortPaths

LEMMA InitStep == FilesInv /\ InitSolution => FilesInv'
<1> SUFFICES ASSUME FilesInv, InitSolution PROVE FilesInv'
  OBVIOUS
<1>1. PICK format \in Formats : Run(<<"init">>, SaveManifest(InitialManifest(format)))
  BY DEF InitSolution
<1> DEFINE m == InitialManifest(format)
<1>2. m \in Manifests /\ m.format = format
  BY InitialIs
<1> HIDE DEF m
<1>3. SaveManifest(m) \in Seq(EditsOf(format))
  BY <1>2, SavedIs
<1>4. ManifestsIn(disk, "solution") = {}
  BY DEF InitSolution, ManifestsIn
<1>5. ManifestsOK(disk, SaveManifest(m))
  BY <1>3, <1>4 DEF ManifestsOK, Edits
<1>6. SaveManifest(m) \in Seq(Changes)
  BY <1>3, EditsAreChanges, SeqMonotonic
<1>7. <<"init">> # <<"fix">>
  OBVIOUS
<1> QED BY <1>1, <1>5, <1>6, <1>7, CommandIs, Started DEF m

LEMMA BumpStep == FilesInv /\ Bump => FilesInv'
<1> SUFFICES ASSUME FilesInv, Bump PROVE FilesInv'
  OBVIOUS
<1>1. PICK m \in GetManifest(disk, "solution") : Run(<<"bump">>, SaveManifest([m EXCEPT !.version = 1]))
  BY DEF Bump
<1> DEFINE n == [m EXCEPT !.version = 1]
<1>2. m \in Manifests
  BY FoundManifest DEF FilesInv, FilesTypes
<1>3. n \in Manifests /\ n.format = m.format
  BY <1>2 DEF Manifests
<1> HIDE DEF n
<1>4. SaveManifest(n) \in Seq(EditsOf(m.format))
  BY <1>3, SavedIs
<1>5. <<"bump">> # <<"fix">>
  OBVIOUS
<1> QED BY <1>1, <1>4, <1>5, CommandIs, StartedEditing DEF n

LEMMA ExtendStep ==
    ASSUME FilesInv, NEW kind \in Kinds, NEW name \in Entities, NEW format \in Formats,
           Extend(kind, name, format) \/ ExtendRefused(kind, name)
    PROVE  FilesInv'
<1>1. \A m \in GetManifest(disk, "solution") : m \in Manifests
  BY FoundManifest DEF FilesInv, FilesTypes
<1>2. CASE ExtendRefused(kind, name)
  <2>1. PICK m \in GetManifest(disk, "solution") : Run(<<"refused">>, NamespaceEdit(m).changes)
    BY <1>2 DEF ExtendRefused
  <2>2. NamespaceEdit(m).changes \in Seq(EditsOf(m.format))
    BY <1>1, NamespaceIs DEF EditsFrom
  <2>3. <<"refused">> # <<"fix">>
    OBVIOUS
  <2> QED BY <2>1, <2>2, <2>3, CommandIs, StartedEditing
<1>3. CASE Extend(kind, name, format)
  <2>1. PICK m \in GetManifest(disk, "solution") :
            IF kind = "knowledge" THEN Run(<<kind, name>>, KnowledgeChanges(m, name, format))
            ELSE Run(<<kind, name>>, ComponentChanges(m, kind, name, format))
    BY <1>3 DEF Extend
  <2>2. CASE kind = "knowledge"
    <3>1. KnowledgeChanges(m, name, format) \in Seq(EditsOf(m.format))
      BY <1>1, <2>2, KnowledgeIs
    <3> QED BY <2>1, <2>2, <3>1, CommandIs, StartedEditing
  <2>3. CASE kind # "knowledge"
    <3>1. ComponentChanges(m, kind, name, format) \in Seq(EditsOf(m.format))
      BY <1>1, <2>3, ComponentChangesAre DEF ComponentKinds
    <3> QED BY <2>1, <2>3, <3>1, CommandIs, StartedEditing
  <2> QED BY <2>2, <2>3
<1> QED BY <1>2, <1>3

LEMMA TagStep == FilesInv /\ SetTag => FilesInv'
<1> SUFFICES ASSUME FilesInv, SetTag PROVE FilesInv'
  OBVIOUS
<1>1. PICK m \in GetManifest(disk, "solution") : TRUE
  BY DEF SetTag
<1>2. Write(TagFile("solution"), Tag) \in Seq(EditsOf(m.format))
  <2>1. TagFile("solution") \in Paths /\ TagFile("solution") \notin ManifestFiles
    BY ManifestFileFacts DEF Roots
  <2>2. Tag \in Contents
    BY DEF Contents
  <2>3. Placed(TagFile("solution"), Tag)
    BY <2>1, ManifestFits
  <2> QED BY <2>1, <2>2, <2>3, WrittenIs
<1>3. Run(<<"tag">>, Write(TagFile("solution"), Tag))
  BY DEF SetTag
<1>4. <<"tag">> # <<"fix">>
  OBVIOUS
<1> QED BY <1>2, <1>3, <1>4, CommandIs, StartedEditing

LEMMA FixStep == FilesInv /\ Fix => FilesInv'
<1> SUFFICES ASSUME FilesInv, Fix PROVE FilesInv'
  OBVIOUS
<1>1. PICK m \in GetManifest(disk, "solution"), upgrade \in BOOLEAN, format \in {"", "json"} :
          Run(<<"fix">>, FixChanges(m, Fixed(m, upgrade, format)))
  BY DEF Fix
<1> DEFINE n == Fixed(m, upgrade, format)
           core == Core(m)
           old == RemoveOld(n, m)
           rest == IF n = m THEN <<>> ELSE SaveManifest(n) \o old
           Both == Describing(core) \cap NotBackup
<1>2. /\ m \in Manifests
      /\ ManifestsIn(disk, "solution") = {ManifestFile("solution", m.format)}
      /\ disk[ManifestFile("solution", m.format)] = m
  BY FoundManifest DEF FilesInv, FilesTypes
<1>3. n \in Manifests /\ Core(n) = core
  BY <1>2 DEF Fixed, Manifests, Core, Formats
<1> HIDE DEF n
<1>4. Describing(core) \subseteq Changes /\ Both \subseteq Describing(core) /\ Both \subseteq NotBackup
  BY DEF Describing
<1>5. \A file \in SolutionManifests : file \in Paths /\ file # Backup
  BY SolutionManifestFacts
<1>6. SaveManifest(n) \in Seq(Both)
  <2> DEFINE f == ManifestFile("solution", n.format)
  <2>1. f \in SolutionManifests /\ f \in Paths /\ f.format = n.format
    <3>1. n.format \in Formats
      BY <1>3 DEF Manifests
    <3> QED BY <3>1, SolutionManifestFacts
  <2>2. n \in Contents /\ Fits(f, n)
    BY <1>3, <2>1, ManifestFits
  <2> HIDE DEF f
  <2>3. \A c \in {Empty, n} : [file |-> f, contents |-> c] \in Changes
    BY <2>1, <2>2, WriteChanges
  <2>4. \A c \in {Empty, n} : [file |-> f, contents |-> c] \in Both
    <3>1. ASSUME NEW c \in {Empty, n} PROVE [file |-> f, contents |-> c] \in Both
      <4> DEFINE r == [file |-> f, contents |-> c]
      <4>1. r \in Changes /\ r.file = f /\ r.contents = c /\ f # Backup
        BY <1>5, <2>1, <2>3
      <4>2. c = Empty \/ Core(c) = core
        BY <1>3
      <4> HIDE DEF r
      <4> QED BY <4>1, <4>2 DEF Describing, NotBackup, r
    <3> QED BY <3>1
  <2> QED BY <2>4, WriteIs DEF SaveManifest, f
<1>7. old \in Seq(Both)
  <2> DEFINE f == ManifestFile("solution", m.format)
             r == [file |-> f, contents |-> Gone]
  <2>1. f \in SolutionManifests
    BY <1>2 DEF SolutionManifests, Manifests
  <2>2. f \in Paths /\ f # Backup
    BY <1>5, <2>1
  <2> HIDE DEF f
  <2>3. r \in [file : Paths, contents : Contents \cup {Gone}] /\ r.file = f /\ r.contents = Gone
    BY <2>2
  <2> HIDE DEF r
  <2>4. r \in Both
    BY <2>2, <2>3 DEF Changes, Describing, NotBackup
  <2>5. Change(f, Gone) \in Seq(Both)
    BY <2>4, ChangeIs DEF r
  <2> QED BY <2>5, EmptySeq DEF RemoveOld, f
<1> HIDE DEF old
<1>8. rest \in Seq(Both)
  BY <1>6, <1>7, Joined, EmptySeq
<1> HIDE DEF rest, core, Both
<1>9. rest \in Seq(NotBackup)
  BY <1>4, <1>8, SeqMonotonic
<1>10. Write(Backup, m) \in Seq(Describing(core))
  <2>1. m \in Contents /\ Fits(Backup, m)
    BY <1>2, ManifestFileFacts, ManifestFits
  <2>2. \A c \in {Empty, m} : [file |-> Backup, contents |-> c] \in Changes
    BY <2>1, ManifestFileFacts, WriteChanges
  <2>3. \A c \in {Empty, m} : [file |-> Backup, contents |-> c] \in Describing(core)
    BY <2>2, SolutionManifestFacts DEF Describing
  <2> QED BY <2>3, WriteIs
<1> DEFINE all == Write(Backup, m) \o rest
<1>11. FixChanges(m, n) = all
  BY DEF FixChanges, rest, old
<1>12. all \in Seq(Describing(core))
  BY <1>4, <1>8, <1>10, SeqMonotonic, Joined
<1>13. BacksUp(all)
  BY <1>2, <1>9 DEF BacksUp
<1> HIDE DEF all
<1>14. Describes(disk, all)
  BY <1>2, <1>12 DEF Describes, core
<1>15. all \in Seq(Changes)
  BY <1>4, <1>12, SeqMonotonic
<1>16. FixOK(disk, all)
  BY <1>13 DEF FixOK
<1>17. Run(<<"fix">>, all)
  BY <1>1, <1>11 DEF n
<1> QED BY <1>14, <1>15, <1>16, <1>17, CommandIs, Started DEF ManifestsOK

LEMMA ForkStep == FilesInv /\ ForkSolution => FilesInv'
<1> SUFFICES ASSUME FilesInv, ForkSolution PROVE FilesInv'
  OBVIOUS
<1>1. PICK files \in {disk, Unzipped(bundle)} : \E m \in GetManifest(files, "solution") : Run(<<"fork">>, ForkChanges(files, m))
  BY DEF ForkSolution
<1>2. PICK m \in GetManifest(files, "solution") : Run(<<"fork">>, ForkChanges(files, m))
  BY <1>1
<1>3. GoodFiles(files)
  BY DEF FilesInv, FilesTypes
<1>4. ForkChanges(files, m) \in Seq(ForkEdits)
  BY <1>3, FoundManifest, FoldedFork
<1> DEFINE changes == ForkChanges(files, m)
<1>5. /\ ForkEdits \subseteq Changes
      /\ \A format : ForkEdits \subseteq EditsOf(format)
      /\ \A core : ForkEdits \subseteq Describing(core)
  BY SolutionManifestFacts DEF ForkEdits, EditsOf, Describing
<1> HIDE DEF changes
<1>6. /\ changes \in Seq(Changes)
      /\ \A format : changes \in Seq(EditsOf(format))
      /\ \A core : changes \in Seq(Describing(core))
  BY <1>4, <1>5, SeqMonotonic DEF changes
<1>7. ManifestsOK(disk, changes)
  BY <1>6 DEF FilesInv, ManifestsOK, Edits, Describes
<1>8. <<"fork">> # <<"fix">>
  OBVIOUS
<1> QED BY <1>2, <1>6, <1>7, <1>8, CommandIs, Started DEF changes

LEMMA PackageStep == FilesInv /\ Package => FilesInv'
<1> SUFFICES ASSUME FilesInv, Package PROVE FilesInv'
  OBVIOUS
<1>1. disk' = disk /\ running' = running /\ crashed' = crashed
  BY DEF Package
<1>2. crashed' \in 0..MaxCrashes /\ started' \in 0..MaxCommands
  BY BoundsAssumption DEF Package, FilesInv, FilesTypes
<1>3. GoodFiles(disk)
  BY DEF FilesInv, FilesTypes
<1>4. ASSUME NEW files, GoodFiles(files) PROVE GoodFiles(Unzipped(Zipped(files)))
  <2> DEFINE g == Unzipped(Zipped(files))
  <2>1. DOMAIN g = Packed(files) /\ \A f \in Packed(files) : g[f] = files[f]
    BY <1>4, ZippedAndUnzipped
  <2> HIDE DEF g
  <2>2. Packed(files) \subseteq DOMAIN files /\ IsFiniteSet(Packed(files))
    BY <1>4, FS_Subset DEF Packed, GoodFiles
  <2>3. GoodFiles(g)
    BY <1>4, <2>1, <2>2 DEF GoodFiles
  <2> QED BY <2>3 DEF g
<1>5. \A m \in GetManifest(disk, "solution") : m \in Manifests
  BY <1>3, FoundManifest
<1>6. GoodFiles(Unzipped(bundle'))
  <2>1. CASE bundle' = Zipped(disk)
    BY <1>3, <1>4, <2>1
  <2>2. ASSUME NEW m \in GetManifest(disk, "solution"), m.format = "json", bundle' = Zipped(IsolatedCopy(disk, m))
        PROVE  GoodFiles(Unzipped(bundle'))
    BY <1>3, <1>4, <1>5, <2>2, CopyIs
  <2> QED BY <2>1, <2>2 DEF Package
<1> QED BY <1>1, <1>2, <1>3, <1>6 DEF FilesInv, FilesTypes

LEMMA RemoveStep == FilesInv /\ RemoveType => FilesInv'
<1> SUFFICES ASSUME FilesInv, RemoveType PROVE FilesInv'
  OBVIOUS
<1>1. PICK f \in DOMAIN disk : f.dir = <<"types">> /\ disk' = Restrict(disk, DOMAIN disk \ {f})
  BY DEF RemoveType
<1>2. UNCHANGED <<bundle, running, crashed, started>> /\ running.changes = <<>>
  BY DEF RemoveType, Idle
<1> DEFINE c == [file |-> f, contents |-> Gone]
<1>3. f \in Paths
  BY DEF FilesInv, FilesTypes, GoodFiles
<1>4. c \in [file : Paths, contents : Contents \cup {Gone}] /\ c.file = f /\ c.contents = Gone
  BY <1>3
<1> HIDE DEF c
<1>5. c \in Changes
  BY <1>4 DEF Changes
<1>6. disk' = Apply(disk, c)
  BY <1>1, <1>4 DEF Apply
<1>7. GoodFiles(disk')
  BY <1>5, <1>6, AppliedGood DEF FilesInv, FilesTypes
<1>8. \A g \in ManifestsIn(disk', "solution") : g \in ManifestsIn(disk, "solution") /\ disk'[g] = disk[g]
  BY <1>4, <1>6, AppliedManifests
<1>9. ManifestsOK(disk', running'.changes)
  BY <1>2, <1>8 DEF FilesInv, ManifestsOK, Edits, Describes
<1>10. FixOK(disk', running'.changes)
  BY <1>2 DEF FixOK
<1>11. GoodFiles(Unzipped(bundle'))
  BY <1>2 DEF FilesInv, FilesTypes
<1> QED BY <1>2, <1>7, <1>9, <1>10, <1>11 DEF FilesInv, FilesTypes

LEMMA ChangeStep == FilesInv /\ Step => FilesInv'
<1> SUFFICES ASSUME FilesInv, Step PROVE FilesInv'
  OBVIOUS
<1> DEFINE changes == running.changes
<1>1. /\ disk' = Apply(disk, Head(changes)) /\ changes # <<>>
      /\ running' = [running EXCEPT !.changes = Tail(changes)]
      /\ UNCHANGED <<bundle, crashed, started>>
  BY DEF Step, Idle, FilesInv, FilesTypes
<1>2. running \in [command : Seq(Word), changes : Seq(Changes)] /\ changes \in Seq(Changes)
  BY DEF FilesInv, FilesTypes
<1> HIDE DEF changes
<1>3. Head(changes) \in Changes /\ Tail(changes) \in Seq(Changes)
  BY <1>1, <1>2, HeadTailProperties
<1>4. /\ running' \in [command : Seq(Word), changes : Seq(Changes)]
      /\ running'.changes = Tail(changes) /\ running'.command = running.command
  BY <1>1, <1>2, <1>3
<1>5. GoodFiles(disk') /\ GoodFiles(Unzipped(bundle'))
  BY <1>1, <1>3, AppliedGood DEF FilesInv, FilesTypes
<1>6. ManifestsOK(disk', running'.changes)
  BY <1>1, <1>4, EditedStep, DescribedStep DEF FilesInv, ManifestsOK, changes
<1>7. running'.command = <<"fix">> => FixOK(disk', running'.changes)
  BY <1>1, <1>4, FixedStep DEF FilesInv, changes
<1> QED BY <1>1, <1>4, <1>5, <1>6, <1>7 DEF FilesInv, FilesTypes

\* Changes that are not made.
LEMMA DroppedStep ==
    ASSUME FilesInv, UNCHANGED <<disk, bundle, started>>, crashed' = crashed + 1, crashed < MaxCrashes,
           NEW command \in Seq(Word), command # <<"fix">>, running' = [command |-> command, changes |-> running'.changes],
           \A S : running.changes \in Seq(S) => running'.changes \in Seq(S)
    PROVE  FilesInv'
<1>1. running'.changes \in Seq(Changes) /\ running'.command = command
  BY DEF FilesInv, FilesTypes
<1>2. running' \in [command : Seq(Word), changes : Seq(Changes)]
  BY <1>1
<1>3. crashed' \in 0..MaxCrashes
  BY BoundsAssumption DEF FilesInv, FilesTypes
<1>4. ManifestsOK(disk', running'.changes)
  BY DEF FilesInv, ManifestsOK, Edits, Describes
<1> QED BY <1>1, <1>2, <1>3, <1>4 DEF FilesInv, FilesTypes

LEMMA CrashStep == FilesInv /\ Crash => FilesInv'
<1> SUFFICES ASSUME FilesInv, Crash PROVE FilesInv'
  OBVIOUS
<1>1. running \in [command : Seq(Word), changes : Seq(Changes)]
  BY DEF FilesInv, FilesTypes
<1>2. running' = [command |-> <<>>, changes |-> <<>>] /\ running'.changes = <<>>
  BY <1>1 DEF Crash
<1>3. <<>> \in Seq(Word) /\ <<>> # <<"fix">> /\ \A S : <<>> \in Seq(S)
  BY EmptySeq
<1>4. UNCHANGED <<disk, bundle, started>> /\ crashed' = crashed + 1 /\ crashed < MaxCrashes
  BY DEF Crash
<1> QED BY <1>2, <1>3, <1>4, DroppedStep

LEMMA LoseStep == FilesInv /\ LoseFile => FilesInv'
<1> SUFFICES ASSUME FilesInv, LoseFile PROVE FilesInv'
  OBVIOUS
<1>1. running \in [command : Seq(Word), changes : Seq(Changes)] /\ running.changes # <<>>
  BY DEF FilesInv, FilesTypes, LoseFile, Idle
<1>2. running' = [command |-> <<"fork">>, changes |-> Tail(running.changes)]
  BY <1>1 DEF LoseFile
<1>3. <<"fork">> # <<"fix">> /\ <<"fork">> \in Seq(Word)
  BY CommandIs
<1>4. \A S : running.changes \in Seq(S) => Tail(running.changes) \in Seq(S)
  BY <1>1, HeadTailProperties
<1>5. UNCHANGED <<disk, bundle, started>> /\ crashed' = crashed + 1 /\ crashed < MaxCrashes
  BY DEF LoseFile
<1>6. running'.changes = Tail(running.changes)
  BY <1>2
<1> QED BY <1>2, <1>3, <1>4, <1>5, <1>6, DroppedStep

LEMMA FilesNext == FilesInv /\ [Next]_vars => FilesInv'
<1> SUFFICES ASSUME FilesInv, [Next]_vars PROVE FilesInv'
  OBVIOUS
<1>1. CASE InitSolution \/ Bump \/ Fix \/ SetTag
  BY <1>1, InitStep, BumpStep, FixStep, TagStep
<1>2. CASE RemoveType \/ Package \/ ForkSolution
  BY <1>2, RemoveStep, PackageStep, ForkStep
<1>3. ASSUME NEW kind \in Kinds, NEW name \in Entities, NEW format \in Formats,
             Extend(kind, name, format) \/ ExtendRefused(kind, name)
      PROVE  FilesInv'
  BY <1>3, ExtendStep
<1>4. CASE Step \/ LoseFile \/ Crash
  BY <1>4, ChangeStep, LoseStep, CrashStep
<1>5. CASE UNCHANGED vars
  BY <1>5 DEF vars, FilesInv, FilesTypes
<1> QED BY <1>1, <1>2, <1>3, <1>4, <1>5 DEF Next

LEMMA FilesInvariant == Spec => []FilesInv
<1>1. Init => FilesInv
  BY TypesInit
<1>2. FilesInv /\ [Next]_vars => FilesInv'
  BY FilesNext
<1> QED BY <1>1, <1>2, PTL DEF Spec

-----------------------------------------------------------------------------
(* What changes come to                                                    *)

\* The last change of a file, if there is one, ...
LastIs(changes, f, c) ==
    \E i \in DOMAIN changes : /\ changes[i].file = f /\ changes[i].contents = c
                              /\ \A j \in DOMAIN changes : i < j => changes[j].file # f
Spares(changes, f) == \A i \in DOMAIN changes : changes[i].file # f

\* ... is what becomes of it; otherwise it is what it was.
At(files, f, c) == IF c = Gone THEN f \notin DOMAIN files ELSE f \in DOMAIN files /\ files[f] = c
Becomes(files, changes, f, c) == LastIs(changes, f, c) \/ (Spares(changes, f) /\ At(files, f, c))

\* The file is there in the end.
Remains(files, changes, f) == \E c : c # Gone /\ Becomes(files, changes, f, c)
Keeps(changes, f) == \A i \in DOMAIN changes : changes[i].file = f => changes[i].contents # Gone

LEMMA BecomesAtEnd ==
    ASSUME NEW files, NEW f, NEW c
    PROVE  Becomes(files, <<>>, f, c) <=> At(files, f, c)
<1>1. DOMAIN <<>> = {}
  OBVIOUS
<1> QED BY <1>1 DEF Becomes, LastIs, Spares

LEMMA RemainsAtEnd ==
    ASSUME NEW files, NEW f
    PROVE  /\ Remains(files, <<>>, f) => f \in DOMAIN files
           /\ f \in DOMAIN files /\ files[f] # Gone => Remains(files, <<>>, f)
BY BecomesAtEnd DEF Remains, At

LEMMA BecomesStep ==
    ASSUME NEW files, NEW changes \in Seq(Changes), changes # <<>>, NEW f, NEW c,
           Becomes(files, changes, f, c)
    PROVE  Becomes(Apply(files, Head(changes)), Tail(changes), f, c)
<1> DEFINE t == Tail(changes)
           d == Head(changes)
<1>1. Len(changes) \in Nat \ {0} /\ DOMAIN changes = 1..Len(changes)
  BY EmptySeq, LenProperties
<1>2. DOMAIN t = 1..(Len(changes) - 1) /\ d = changes[1] /\ \A i \in DOMAIN t : t[i] = changes[i + 1]
  <2>1. t \in Seq(Changes) /\ Len(t) = Len(changes) - 1 /\ \A i \in 1..Len(t) : t[i] = changes[i + 1]
    BY <1>1, HeadTailProperties
  <2>2. d = changes[1]
    BY <1>1
  <2> HIDE DEF t, d
  <2> QED BY <2>1, <2>2, LenProperties
<1> HIDE DEF t, d
<1>3. CASE LastIs(changes, f, c)
  <2>1. PICK i \in DOMAIN changes : /\ changes[i].file = f /\ changes[i].contents = c
                                   /\ \A j \in DOMAIN changes : i < j => changes[j].file # f
    BY <1>3 DEF LastIs
  <2>2. CASE i = 1
    <3>1. \A j \in DOMAIN t : j + 1 \in DOMAIN changes /\ 1 < j + 1
      BY <1>1, <1>2
    <3>2. Spares(t, f)
      BY <1>2, <2>1, <2>2, <3>1 DEF Spares
    <3>3. At(Apply(files, d), f, c)
      BY <1>2, <2>1, <2>2, Applied DEF At
    <3> QED BY <3>2, <3>3 DEF Becomes, t, d
  <2>3. CASE i # 1
    <3>1. i - 1 \in DOMAIN t /\ (i - 1) + 1 = i
      BY <1>1, <1>2, <2>3
    <3>2. t[i - 1].file = f /\ t[i - 1].contents = c
      BY <1>2, <2>1, <3>1
    <3>3. \A j \in DOMAIN t : i - 1 < j => j + 1 \in DOMAIN changes /\ i < j + 1
      BY <1>1, <1>2
    <3>4. \A j \in DOMAIN t : i - 1 < j => t[j].file # f
      BY <1>2, <2>1, <3>3
    <3> QED BY <3>1, <3>2, <3>4 DEF Becomes, LastIs, t
  <2> QED BY <2>2, <2>3
<1>4. CASE Spares(changes, f) /\ At(files, f, c)
  <2>1. \A j \in DOMAIN t : j + 1 \in DOMAIN changes
    BY <1>1, <1>2
  <2>2. Spares(t, f)
    BY <1>2, <1>4, <2>1 DEF Spares
  <2>3. d.file # f
    BY <1>1, <1>2, <1>4 DEF Spares
  <2>4. At(Apply(files, d), f, c)
    BY <1>4, <2>3, Applied DEF At
  <2> QED BY <2>2, <2>4 DEF Becomes, t, d
<1> QED BY <1>3, <1>4 DEF Becomes

LEMMA RemainsStep ==
    ASSUME NEW files, NEW changes \in Seq(Changes), changes # <<>>, NEW f, Remains(files, changes, f)
    PROVE  Remains(Apply(files, Head(changes)), Tail(changes), f)
BY BecomesStep DEF Remains

LEMMA SparesJoined ==
    ASSUME NEW S, NEW s \in Seq(S), NEW t \in Seq(S), NEW f
    PROVE  Spares(s \o t, f) <=> Spares(s, f) /\ Spares(t, f)
<1>1. /\ Len(s) \in Nat /\ Len(t) \in Nat /\ DOMAIN s = 1..Len(s) /\ DOMAIN t = 1..Len(t)
      /\ DOMAIN (s \o t) = 1..(Len(s) + Len(t))
      /\ \A i \in 1..Len(s) : (s \o t)[i] = s[i]
      /\ \A i \in 1..Len(t) : (s \o t)[Len(s) + i] = t[i]
  BY JoinedIs
<1> DEFINE u == s \o t
<1>2. \A i \in DOMAIN u : (i \in DOMAIN s /\ u[i] = s[i]) \/ (i - Len(s) \in DOMAIN t /\ u[i] = t[i - Len(s)])
  <2>1. ASSUME NEW i \in DOMAIN u, i \notin 1..Len(s) PROVE i - Len(s) \in DOMAIN t /\ u[i] = t[i - Len(s)]
    <3>1. i - Len(s) \in 1..Len(t) /\ Len(s) + (i - Len(s)) = i
      BY <1>1, <2>1
    <3> QED BY <1>1, <3>1
  <2> QED BY <1>1, <2>1
<1>3. \A i \in DOMAIN s : i \in DOMAIN u /\ u[i] = s[i]
  BY <1>1
<1>4. \A i \in DOMAIN t : Len(s) + i \in DOMAIN u /\ u[Len(s) + i] = t[i]
  BY <1>1
<1> HIDE DEF u
<1>5. ASSUME Spares(u, f) PROVE Spares(s, f) /\ Spares(t, f)
  <2>1. \A i \in DOMAIN s : s[i].file # f
    BY <1>3, <1>5 DEF Spares
  <2>2. \A i \in DOMAIN t : t[i].file # f
    BY <1>4, <1>5 DEF Spares
  <2> QED BY <2>1, <2>2 DEF Spares
<1>6. Spares(s, f) /\ Spares(t, f) => Spares(u, f)
  BY <1>2 DEF Spares
<1> QED BY <1>5, <1>6 DEF u

LEMMA LastJoined ==
    ASSUME NEW S, NEW s \in Seq(S), NEW t \in Seq(S), NEW f, NEW c
    PROVE  /\ LastIs(t, f, c) => LastIs(s \o t, f, c)
           /\ LastIs(s, f, c) /\ Spares(t, f) => LastIs(s \o t, f, c)
<1> DEFINE u == s \o t
<1>1. /\ Len(s) \in Nat /\ Len(t) \in Nat /\ DOMAIN s = 1..Len(s) /\ DOMAIN t = 1..Len(t)
      /\ DOMAIN u = 1..(Len(s) + Len(t))
      /\ \A i \in 1..Len(s) : u[i] = s[i]
      /\ \A i \in 1..Len(t) : u[Len(s) + i] = t[i]
  BY JoinedIs
<1> HIDE DEF u
<1>2. ASSUME NEW j \in DOMAIN u, Len(s) < j PROVE j - Len(s) \in DOMAIN t /\ u[j] = t[j - Len(s)]
  <2>1. j - Len(s) \in 1..Len(t) /\ Len(s) + (j - Len(s)) = j
    BY <1>1, <1>2
  <2> QED BY <1>1, <2>1
<1>3. ASSUME LastIs(t, f, c) PROVE LastIs(u, f, c)
  <2>1. PICK i \in DOMAIN t : /\ t[i].file = f /\ t[i].contents = c
                             /\ \A j \in DOMAIN t : i < j => t[j].file # f
    BY <1>3 DEF LastIs
  <2>2. Len(s) + i \in DOMAIN u /\ u[Len(s) + i] = t[i]
    BY <1>1
  <2>3. ASSUME NEW j \in DOMAIN u, Len(s) + i < j PROVE u[j].file # f
    <3>1. Len(s) < j /\ i < j - Len(s)
      BY <1>1, <2>3
    <3> QED BY <1>2, <2>1, <3>1
  <2> QED BY <2>1, <2>2, <2>3 DEF LastIs
<1>4. ASSUME LastIs(s, f, c), Spares(t, f) PROVE LastIs(u, f, c)
  <2>1. PICK i \in DOMAIN s : /\ s[i].file = f /\ s[i].contents = c
                             /\ \A j \in DOMAIN s : i < j => s[j].file # f
    BY <1>4 DEF LastIs
  <2>2. i \in DOMAIN u /\ u[i] = s[i]
    BY <1>1
  <2>3. ASSUME NEW j \in DOMAIN u, i < j PROVE u[j].file # f
    <3>1. CASE Len(s) < j
      BY <1>2, <1>4, <3>1 DEF Spares
    <3>2. CASE ~ (Len(s) < j)
      <4>1. j \in DOMAIN s
        BY <1>1, <3>2
      <4> QED BY <1>1, <2>1, <2>3, <4>1
    <3> QED BY <3>1, <3>2
  <2> QED BY <2>1, <2>2, <2>3 DEF LastIs
<1> QED BY <1>3, <1>4 DEF u

\* A change that is followed by others.
LEMMA BecomesJoined ==
    ASSUME NEW files, NEW S, NEW s \in Seq(S), NEW t \in Seq(S), NEW f, NEW c
    PROVE  /\ LastIs(t, f, c) => Becomes(files, s \o t, f, c)
           /\ Becomes(files, s, f, c) /\ Spares(t, f) => Becomes(files, s \o t, f, c)
BY LastJoined, SparesJoined DEF Becomes

LEMMA LastExists ==
    ASSUME NEW S, NEW t \in Seq(S), NEW f, ~ Spares(t, f)
    PROVE  \E i \in DOMAIN t : LastIs(t, f, t[i].contents) /\ t[i].file = f
<1> DEFINE I == {i \in 1..Len(t) : t[i].file = f}
<1>1. Len(t) \in Nat /\ DOMAIN t = 1..Len(t)
  BY LenProperties
<1>2. I # {} /\ I \in SUBSET (1..Len(t))
  BY <1>1 DEF Spares
<1>3. \A j \in DOMAIN t : t[j].file = f <=> j \in I
  BY <1>1
<1> HIDE DEF I
<1>4. Max(I) \in I /\ \A j \in I : j <= Max(I)
  BY <1>1, <1>2, LastOne
<1> DEFINE i == Max(I)
<1>5. i \in DOMAIN t /\ t[i].file = f
  BY <1>1, <1>2, <1>3, <1>4
<1>6. ASSUME NEW j \in DOMAIN t, i < j PROVE t[j].file # f
  <2>1. j \in Int /\ i \in Int
    BY <1>1, <1>5
  <2>2. j \notin I
    BY <1>4, <1>6, <2>1
  <2> QED BY <1>3, <2>2
<1> HIDE DEF i
<1> QED BY <1>5, <1>6 DEF LastIs

LEMMA RemainsJoined ==
    ASSUME NEW files, NEW S, NEW s \in Seq(S), NEW t \in Seq(S), NEW f, Keeps(t, f)
    PROVE  /\ Remains(files, s, f) => Remains(files, s \o t, f)
           /\ ~ Spares(t, f) => Remains(files, s \o t, f)
<1>1. CASE Spares(t, f)
  BY <1>1, BecomesJoined DEF Remains
<1>2. CASE ~ Spares(t, f)
  <2>1. PICK i \in DOMAIN t : LastIs(t, f, t[i].contents) /\ t[i].file = f
    BY <1>2, LastExists
  <2>2. t[i].contents # Gone
    BY <2>1 DEF Keeps
  <2> QED BY <2>1, <2>2, BecomesJoined DEF Remains
<1> QED BY <1>1, <1>2

LEMMA ChangeFacts ==
    ASSUME NEW f, NEW c
    PROVE  /\ DOMAIN Change(f, c) = {1} /\ Change(f, c)[1] = [file |-> f, contents |-> c]
           /\ LastIs(Change(f, c), f, c)
           /\ \A g : g # f => Spares(Change(f, c), g) /\ Keeps(Change(f, c), g)
           /\ c # Gone => \A g : Keeps(Change(f, c), g)
<1>1. DOMAIN Change(f, c) = {1} /\ Change(f, c)[1] = [file |-> f, contents |-> c]
  BY DEF Change
<1>2. Change(f, c)[1].file = f /\ Change(f, c)[1].contents = c
  BY <1>1
<1>3. LastIs(Change(f, c), f, c)
  BY <1>1, <1>2 DEF LastIs
<1>4. \A g : g # f => Spares(Change(f, c), g)
  BY <1>1, <1>2 DEF Spares
<1>5. \A g : (g # f \/ c # Gone) => Keeps(Change(f, c), g)
  BY <1>1, <1>2 DEF Keeps
<1> QED BY <1>1, <1>3, <1>4, <1>5

LEMMA KeepsJoined ==
    ASSUME NEW S, NEW s \in Seq(S), NEW t \in Seq(S), NEW f
    PROVE  Keeps(s, f) /\ Keeps(t, f) => Keeps(s \o t, f)
<1>1. /\ Len(s) \in Nat /\ Len(t) \in Nat /\ DOMAIN s = 1..Len(s) /\ DOMAIN t = 1..Len(t)
      /\ DOMAIN (s \o t) = 1..(Len(s) + Len(t))
      /\ \A i \in 1..Len(s) : (s \o t)[i] = s[i]
      /\ \A i \in 1..Len(t) : (s \o t)[Len(s) + i] = t[i]
  BY JoinedIs
<1> DEFINE u == s \o t
<1>2. \A i \in DOMAIN u : (i \in DOMAIN s /\ u[i] = s[i]) \/ (i - Len(s) \in DOMAIN t /\ u[i] = t[i - Len(s)])
  <2>1. ASSUME NEW i \in DOMAIN u, i \notin 1..Len(s) PROVE i - Len(s) \in DOMAIN t /\ u[i] = t[i - Len(s)]
    <3>1. i - Len(s) \in 1..Len(t) /\ Len(s) + (i - Len(s)) = i
      BY <1>1, <2>1
    <3> QED BY <1>1, <3>1
  <2> QED BY <1>1, <2>1
<1> HIDE DEF u
<1> QED BY <1>2 DEF Keeps, u

LEMMA WriteFacts ==
    ASSUME NEW f, NEW c, c # Gone
    PROVE  /\ LastIs(Write(f, c), f, c)
           /\ \A g : g # f => Spares(Write(f, c), g)
           /\ \A g : Keeps(Write(f, c), g)
<1> DEFINE S == {[file |-> f, contents |-> Empty], [file |-> f, contents |-> c]}
<1>6. [file |-> f, contents |-> Empty] \in S /\ [file |-> f, contents |-> c] \in S
  OBVIOUS
<1> HIDE DEF S
<1>1. Change(f, Empty) \in Seq(S) /\ Change(f, c) \in Seq(S)
  BY <1>6, ChangeIs
<1>2. LastIs(Write(f, c), f, c)
  BY <1>1, ChangeFacts, LastJoined DEF Write
<1>3. \A g : g # f => Spares(Write(f, c), g)
  BY <1>1, ChangeFacts, SparesJoined DEF Write
<1>4. Empty # Gone
  BY KindFacts DEF Contents
<1>5. \A g : Keeps(Write(f, c), g)
  BY <1>1, <1>4, ChangeFacts, KeepsJoined DEF Write
<1> QED BY <1>2, <1>3, <1>5
-----------------------------------------------------------------------------
(* The manifest and what it lists                                          *)

\* In the end m is the manifest of a directory, ...
StandingIn(root, files, changes, m) ==
    /\ Becomes(files, changes, ManifestFile(root, m.format), m)
    /\ \A format \in Formats : format # m.format => Becomes(files, changes, ManifestFile(root, format), Gone)

\* ... of the solution, ...
Standing(files, changes, m) == StandingIn("solution", files, changes, m)

\* ... it lists no directory twice for a type, ...
Once(m) == \A o \in DOMAIN m.objects : ~ LookedForAsTemplate(m, o.type) => m.objects[o] = 1

\* ... and the directories that it lists are there.
There(files, changes, dir) == \E f \in Paths : f.root = "solution" /\ f.dir = dir /\ Remains(files, changes, f)
Holds(files, changes, m) ==
    /\ m \in Manifests /\ Standing(files, changes, m) /\ Once(m)
    /\ \A o \in DOMAIN m.objects : There(files, changes, o.dir)

\* Changes that remove nothing of the solution but manifests, and those that leave the manifest alone.
KeepsAll(changes) == \A f : f.root = "solution" /\ f.dir # <<>> => Keeps(changes, f)
SparesManifests(changes) == \A f \in SolutionManifests : Spares(changes, f)

LEMMA ManifestsDiffer ==
    ASSUME NEW a \in Formats, NEW b \in Formats, a # b
    PROVE  ManifestFile("solution", a) # ManifestFile("solution", b)
BY SolutionManifestFacts

LEMMA ObjectsListed ==
    ASSUME NEW m \in Manifests
    PROVE  DOMAIN m.objects \subseteq Listings /\ m.format \in Formats /\ m.templates \in SUBSET Templates
BY DEF Manifests, BagsOver

LEMMA SameTemplates ==
    ASSUME NEW m, NEW n, n.templates = m.templates
    PROVE  \A type : LookedForAsTemplate(n, type) <=> LookedForAsTemplate(m, type)
BY DEF LookedForAsTemplate, HasPseudoIsolation

LEMMA StandingAtStart ==
    ASSUME NEW files, GoodFiles(files), NEW m \in GetManifest(files, "solution")
    PROVE  m \in Manifests /\ Standing(files, <<>>, m)
<1>1. /\ m \in Manifests /\ ManifestsIn(files, "solution") = {ManifestFile("solution", m.format)}
      /\ files[ManifestFile("solution", m.format)] = m
  BY FoundManifest
<1>2. m.format \in Formats /\ m # Gone
  BY <1>1, KindFacts DEF Manifests, Contents
<1>3. ManifestFile("solution", m.format) \in DOMAIN files
  BY <1>1 DEF ManifestsIn
<1>4. ASSUME NEW format \in Formats, format # m.format PROVE ManifestFile("solution", format) \notin DOMAIN files
  BY <1>1, <1>2, <1>4, ManifestsDiffer DEF ManifestsIn
<1> QED BY <1>1, <1>2, <1>3, <1>4, BecomesAtEnd DEF Standing, StandingIn, At

LEMMA StandingAtEnd ==
    ASSUME NEW root, NEW files, NEW m \in Manifests, StandingIn(root, files, <<>>, m)
    PROVE  GetManifest(files, root) = {m}
<1> DEFINE f == ManifestFile(root, m.format)
           M == ManifestsIn(files, root)
<1>1. m.format \in Formats /\ m # Gone /\ m # Empty
  BY KindFacts DEF Manifests, Contents
<1>2. f \in DOMAIN files /\ files[f] = m
  BY <1>1, BecomesAtEnd DEF StandingIn, At
<1>3. \A format \in Formats : format # m.format => ManifestFile(root, format) \notin DOMAIN files
  BY BecomesAtEnd DEF StandingIn, At
<1>4. M = {f}
  BY <1>1, <1>2, <1>3 DEF ManifestsIn
<1> HIDE DEF f, M
<1>5. Cardinality(M) = 1
  BY <1>4, FS_Singleton
<1> QED BY <1>1, <1>2, <1>4, <1>5 DEF GetManifest, M

LEMMA StandingStep ==
    ASSUME NEW root, NEW files, NEW changes \in Seq(Changes), changes # <<>>, NEW m, StandingIn(root, files, changes, m)
    PROVE  StandingIn(root, Apply(files, Head(changes)), Tail(changes), m)
BY BecomesStep DEF StandingIn

LEMMA HoldsStep ==
    ASSUME NEW files, NEW changes \in Seq(Changes), changes # <<>>, NEW m, Holds(files, changes, m)
    PROVE  Holds(Apply(files, Head(changes)), Tail(changes), m)
<1>1. \A dir : There(files, changes, dir) => There(Apply(files, Head(changes)), Tail(changes), dir)
  BY RemainsStep DEF There
<1> QED BY <1>1, StandingStep DEF Holds, Standing

LEMMA StandingMore ==
    ASSUME NEW files, NEW S, NEW s \in Seq(S), NEW t \in Seq(S), NEW m \in Manifests, Standing(files, s, m)
    PROVE  SparesManifests(t) => Standing(files, s \o t, m)
<1>1. m.format \in Formats
  BY ObjectsListed
<1> QED BY <1>1, BecomesJoined, SolutionManifestFacts DEF Standing, StandingIn, SparesManifests

LEMMA SavedFacts ==
    ASSUME NEW n \in Manifests
    PROVE  /\ LastIs(SaveManifest(n), ManifestFile("solution", n.format), n)
           /\ \A f : f # ManifestFile("solution", n.format) => Spares(SaveManifest(n), f)
           /\ \A f : Keeps(SaveManifest(n), f)
<1>1. n # Gone
  BY KindFacts DEF Contents
<1> QED BY <1>1, WriteFacts DEF SaveManifest

LEMMA StandingSaved ==
    ASSUME NEW files, NEW m \in Manifests, NEW s \in Seq(Changes), Standing(files, s, m), NEW n \in OfFormat(m.format)
    PROVE  Standing(files, s \o SaveManifest(n), n)
<1>1. n \in Manifests /\ n.format = m.format /\ n.format \in Formats
  BY ObjectsListed DEF OfFormat
<1>2. SaveManifest(n) \in Seq(Changes)
  BY <1>1, SavedIs, EditsAreChanges, SeqMonotonic
<1>3. Becomes(files, s \o SaveManifest(n), ManifestFile("solution", n.format), n)
  BY <1>1, <1>2, SavedFacts, BecomesJoined
<1>4. ASSUME NEW format \in Formats, format # n.format
      PROVE  Becomes(files, s \o SaveManifest(n), ManifestFile("solution", format), Gone)
  <2>1. Spares(SaveManifest(n), ManifestFile("solution", format))
    BY <1>1, <1>4, SavedFacts, ManifestsDiffer
  <2>2. Becomes(files, s, ManifestFile("solution", format), Gone)
    BY <1>1, <1>4 DEF Standing, StandingIn
  <2> QED BY <1>2, <2>1, <2>2, BecomesJoined
<1> QED BY <1>3, <1>4 DEF Standing, StandingIn

LEMMA ThereMore ==
    ASSUME NEW files, NEW S, NEW s \in Seq(S), NEW t \in Seq(S), NEW dir, dir # <<>>, KeepsAll(t),
           There(files, s, dir)
    PROVE  There(files, s \o t, dir)
BY RemainsJoined DEF There, KeepsAll

\* Changes beside the manifest, ...
LEMMA HoldsMore ==
    ASSUME NEW files, NEW s \in Seq(Changes), NEW t \in Seq(Changes), NEW m, Holds(files, s, m),
           SparesManifests(t), KeepsAll(t)
    PROVE  Holds(files, s \o t, m)
<1>1. m \in Manifests /\ \A o \in DOMAIN m.objects : o.dir # <<>>
  BY ObjectsListed DEF Holds, Listings
<1> QED BY <1>1, StandingMore, ThereMore DEF Holds

\* ... and of the manifest but not its objects.
LEMMA HoldsSaved ==
    ASSUME NEW files, NEW s \in Seq(Changes), NEW m, Holds(files, s, m), NEW n \in OfFormat(m.format),
           n.objects = m.objects, n.templates = m.templates
    PROVE  Holds(files, s \o SaveManifest(n), n)
<1>1. m \in Manifests /\ n \in Manifests /\ \A o \in DOMAIN m.objects : o.dir # <<>>
  BY ObjectsListed DEF Holds, Listings, OfFormat
<1>2. SaveManifest(n) \in Seq(Changes) /\ KeepsAll(SaveManifest(n))
  BY <1>1, SavedIs, SavedFacts, EditsAreChanges, SeqMonotonic DEF KeepsAll
<1>3. Standing(files, s \o SaveManifest(n), n)
  BY <1>1, StandingSaved DEF Holds
<1>4. \A o \in DOMAIN n.objects : There(files, s \o SaveManifest(n), o.dir)
  BY <1>1, <1>2, ThereMore DEF Holds
<1>5. Once(n)
  BY <1>1, SameTemplates DEF Holds, Once
<1> QED BY <1>1, <1>3, <1>4, <1>5 DEF Holds

LEMMA AddedFacts ==
    ASSUME NEW m \in Manifests, NEW o \in Listings
    PROVE  /\ AddCompDef(m, o.type, o.dir) \in OfFormat(m.format)
           /\ AddCompDef(m, o.type, o.dir).templates = m.templates
           /\ AddCompDef(m, o.type, o.dir).solution = m.solution
           /\ DOMAIN AddCompDef(m, o.type, o.dir).objects = DOMAIN m.objects \cup {o}
           /\ Once(m) => Once(AddCompDef(m, o.type, o.dir))
<1> DEFINE n == AddCompDef(m, o.type, o.dir)
           B == m.objects (+) SetToBag({o})
<1>1. \A p \in Listings : p = [type |-> p.type, dir |-> p.dir]
  BY DEF Listings
<1>2. o = [type |-> o.type, dir |-> o.dir]
  BY <1>1
<1>3. n \in OfFormat(m.format)
  BY <1>2, AddedIs
<1>4. m.objects \in BagsOver(Listings) /\ DOMAIN m.objects \subseteq Listings
  BY ObjectsListed DEF Manifests
<1>5. CASE o.dir \in ListedDirs(m, o.type)
  <2>1. n = m
    BY <1>5 DEF AddCompDef
  <2>2. PICK p \in DOMAIN m.objects : p.type = o.type /\ p.dir = o.dir
    BY <1>5 DEF ListedDirs
  <2>3. p = o
    BY <1>1, <1>2, <1>4, <2>2
  <2> HIDE DEF n
  <2> QED BY <1>3, <2>1, <2>3 DEF n
<1>6. CASE o.dir \notin ListedDirs(m, o.type)
  <2>1. n = [m EXCEPT !.objects = B]
    BY <1>2, <1>6 DEF AddCompDef, AddCompDefAlways
  <2>2. WithOne(m.objects, o, B)
    BY <1>4, OneMore
  <2>3. ~ LookedForAsTemplate(m, o.type) => o \notin DOMAIN m.objects
    BY <1>6 DEF ListedDirs
  <2> HIDE DEF B, n
  <2>4. n.objects = B /\ n.templates = m.templates /\ n.solution = m.solution
    BY <2>1 DEF Manifests
  <2>5. Once(m) => Once(n)
    BY <2>2, <2>3, <2>4, SameTemplates DEF Once, WithOne
  <2> QED BY <1>3, <2>2, <2>4, <2>5 DEF n, WithOne
<1> QED BY <1>5, <1>6

\* A listing of a directory in which a file is then written.
LEMMA HoldsListed ==
    ASSUME NEW files, NEW s \in Seq(Changes), NEW m, Holds(files, s, m), NEW o \in Listings,
           NEW t \in Seq(Changes), Standing(files, s \o t, AddCompDef(m, o.type, o.dir)), KeepsAll(t),
           There(files, s \o t, o.dir)
    PROVE  Holds(files, s \o t, AddCompDef(m, o.type, o.dir))
<1>1. m \in Manifests /\ \A p \in DOMAIN m.objects : p.dir # <<>>
  BY ObjectsListed DEF Holds, Listings
<1> DEFINE n == AddCompDef(m, o.type, o.dir)
<1>2. n \in Manifests /\ DOMAIN n.objects = DOMAIN m.objects \cup {o} /\ Once(n)
  BY <1>1, AddedFacts DEF OfFormat, Holds
<1> HIDE DEF n
<1>3. \A p \in DOMAIN m.objects : There(files, s \o t, p.dir)
  BY <1>1, ThereMore DEF Holds
<1> QED BY <1>2, <1>3 DEF Holds, n

LEMMA HoldsAtEnd ==
    ASSUME NEW files, NEW m, Holds(files, <<>>, m)
    PROVE  /\ GetManifest(files, "solution") = {m}
           /\ \A o \in DOMAIN m.objects : \E f \in DOMAIN files : f.root = "solution" /\ f.dir = o.dir
           /\ Once(m)
BY StandingAtEnd, RemainsAtEnd DEF Holds, There, Standing

\* Changes of files that are not manifests of the solution.
LEMMA WriteKeeps ==
    ASSUME NEW f \in Paths, f \notin SolutionManifests, NEW c \in Contents
    PROVE  SparesManifests(Write(f, c)) /\ KeepsAll(Write(f, c))
<1>1. c # Gone
  BY KindFacts
<1> QED BY <1>1, WriteFacts DEF SparesManifests, KeepsAll

LEMMA FilesKept ==
    ASSUME NEW files, GoodFiles(files), NEW f \in DOMAIN files
    PROVE  f \in Paths /\ Remains(files, <<>>, f)
BY RemainsAtEnd, KindFacts DEF GoodFiles

-----------------------------------------------------------------------------
(* What extend adds is there                                               *)

LEMMA NamespaceWritten ==
    ASSUME NEW m \in Manifests
    PROVE  LET n == AddCompDef(m, "fmm:namespace", NamespaceDir)
               f == NamespaceFile(m)
               b == NamespaceWrites(m)
           IN  /\ n \in OfFormat(m.format) /\ n \in Manifests /\ SaveManifest(n) \in Seq(Changes)
               /\ f \in Paths /\ f \notin SolutionManifests /\ f.root = "solution" /\ f.dir = NamespaceDir
               /\ b \in Seq(Changes) /\ SparesManifests(b) /\ KeepsAll(b) /\ \A g : g # f => Spares(b, g)
               /\ f \in DOMAIN disk \/ LastIs(b, f, Namespace)
<1> DEFINE n == AddCompDef(m, "fmm:namespace", NamespaceDir)
           f == NamespaceFile(m)
           b == NamespaceWrites(m)
<1>1. /\ n \in OfFormat(m.format) /\ n \in Manifests
      /\ f \in Paths /\ f \notin SolutionManifests /\ f.root = "solution" /\ f.dir = NamespaceDir
      /\ Namespace \in Contents /\ Namespace # Gone
  BY NamespaceParts, SolutionManifestFacts, KindFacts DEF OfFormat
<1>2. SaveManifest(n) \in Seq(Changes)
  BY <1>1, SavedIs, EditsAreChanges, SeqMonotonic
<1>3. Write(f, Namespace) \in Seq(Changes)
  BY NamespaceParts, WrittenIs, EditsAreChanges, SeqMonotonic
<1>4. \/ b = <<>> /\ f \in DOMAIN disk
      \/ b = Write(f, Namespace)
  BY DEF NamespaceWrites
<1> HIDE DEF n, f, b
<1>5. <<>> \in Seq(Changes) /\ SparesManifests(<<>>) /\ KeepsAll(<<>>) /\ \A g : Spares(<<>>, g)
  BY EmptySeq DEF SparesManifests, KeepsAll, Spares, Keeps
<1>6. SparesManifests(Write(f, Namespace)) /\ KeepsAll(Write(f, Namespace))
  BY <1>1, WriteKeeps
<1>7. LastIs(Write(f, Namespace), f, Namespace) /\ \A g : g # f => Spares(Write(f, Namespace), g)
  BY <1>1, WriteFacts
<1>8. /\ b \in Seq(Changes) /\ SparesManifests(b) /\ KeepsAll(b) /\ \A g : g # f => Spares(b, g)
      /\ f \in DOMAIN disk \/ LastIs(b, f, Namespace)
  BY <1>3, <1>4, <1>5, <1>6, <1>7
<1> QED BY <1>1, <1>2, <1>8 DEF n, f, b

LEMMA NamespaceStanding ==
    ASSUME NEW m \in Manifests, Standing(disk, <<>>, m)
    PROVE  /\ Standing(disk, NamespaceEdit(m).changes, NamespaceEdit(m).manifest)
           /\ \A g : g.root = "solution" /\ g.dir \notin {<<>>, NamespaceDir} => Spares(NamespaceEdit(m).changes, g)
<1> DEFINE n == AddCompDef(m, "fmm:namespace", NamespaceDir)
           a == SaveManifest(n)
           b == NamespaceWrites(m)
<1>1. CASE \E p \in DOMAIN m.objects : p.type = "fmm:namespace"
  <2>1. NamespaceEdit(m) = Edit(m, <<>>)
    BY <1>1, NamespaceEditIs
  <2>2. \A g : Spares(<<>>, g)
    BY DEF Spares
  <2> QED BY <2>1, <2>2 DEF Edit
<1>2. CASE ~ \E p \in DOMAIN m.objects : p.type = "fmm:namespace"
  <2>1. NamespaceEdit(m) = Edit(n, a \o b)
    BY <1>2, NamespaceEditIs
  <2>2. /\ n \in OfFormat(m.format) /\ n \in Manifests /\ a \in Seq(Changes)
        /\ b \in Seq(Changes) /\ SparesManifests(b) /\ \A g : g # NamespaceFile(m) => Spares(b, g)
        /\ NamespaceFile(m).dir = NamespaceDir
    BY NamespaceWritten
  <2> HIDE DEF n, b
  <2>3. Standing(disk, <<>> \o a, n) /\ <<>> \o a = a
    BY <2>2, StandingSaved, EmptyJoined, EmptySeq
  <2>4. Standing(disk, a \o b, n)
    BY <2>2, <2>3, StandingMore
  <2>5. \A g : g.dir # <<>> => Spares(a, g)
    <3>1. ManifestFile("solution", n.format).dir = <<>>
      BY DEF ManifestFile, File
    <3> QED BY <2>2, <3>1, SavedFacts
  <2>6. \A g : g.dir \notin {<<>>, NamespaceDir} => Spares(a \o b, g)
    <3> HIDE DEF a
    <3> QED BY <2>2, <2>5, SparesJoined
  <2> QED BY <2>1, <2>4, <2>6 DEF Edit
<1> QED BY <1>1, <1>2

LEMMA NamespaceHolds ==
    ASSUME NEW m, GoodFiles(disk), Holds(disk, <<>>, m)
    PROVE  Holds(disk, NamespaceEdit(m).changes, NamespaceEdit(m).manifest)
<1> DEFINE n == AddCompDef(m, "fmm:namespace", NamespaceDir)
           f == NamespaceFile(m)
           a == SaveManifest(n)
           b == NamespaceWrites(m)
<1>1. m \in Manifests /\ <<>> \in Seq(Changes)
  BY EmptySeq DEF Holds
<1>2. CASE \E p \in DOMAIN m.objects : p.type = "fmm:namespace"
  <2>1. NamespaceEdit(m) = Edit(m, <<>>)
    BY <1>2, NamespaceEditIs
  <2> QED BY <2>1 DEF Edit
<1>3. CASE ~ \E p \in DOMAIN m.objects : p.type = "fmm:namespace"
  <2>1. NamespaceEdit(m) = Edit(n, a \o b)
    BY <1>3, NamespaceEditIs
  <2>2. NamespaceListing \in Listings /\ n = AddCompDef(m, NamespaceListing.type, NamespaceListing.dir)
        /\ NamespaceListing.dir = NamespaceDir /\ NamespaceDir # <<>>
    BY <1>1, NamespaceParts DEF Listings
  <2>3. /\ n \in Manifests /\ a \in Seq(Changes)
        /\ f \in Paths /\ f.root = "solution" /\ f.dir = NamespaceDir
        /\ b \in Seq(Changes) /\ KeepsAll(b)
        /\ f \in DOMAIN disk \/ LastIs(b, f, Namespace)
    BY <1>1, NamespaceWritten
  <2>4. Standing(disk, a \o b, n)
    <3>1. Standing(disk, NamespaceEdit(m).changes, NamespaceEdit(m).manifest)
      BY <1>1, NamespaceStanding DEF Holds
    <3> DEFINE s == a \o b
    <3>2. NamespaceEdit(m) = Edit(n, s)
      BY <2>1
    <3> HIDE DEF s, n
    <3>3. NamespaceEdit(m).changes = s /\ NamespaceEdit(m).manifest = n
      BY <3>2 DEF Edit
    <3>4. Standing(disk, s, n)
      BY <3>1, <3>3
    <3> QED BY <3>4 DEF s, n
  <2> HIDE DEF n, f, b
  <2>5. KeepsAll(a \o b)
    <3>1. KeepsAll(a)
      BY <2>3, SavedFacts DEF KeepsAll
    <3> QED BY <2>3, <3>1, KeepsJoined DEF KeepsAll
  <2> HIDE DEF a
  <2>6. a \o b \in Seq(Changes) /\ <<>> \o (a \o b) = a \o b
    BY <2>3, Joined, EmptyJoined
  <2>7. There(disk, a \o b, NamespaceDir)
    <3>1. CASE f \in DOMAIN disk
      <4>1. Keeps(a \o b, f) /\ Remains(disk, <<>>, f)
        BY <2>2, <2>3, <2>5, <3>1, FilesKept DEF KeepsAll
      <4>2. Remains(disk, a \o b, f)
        BY <1>1, <2>6, <4>1, RemainsJoined
      <4> QED BY <2>3, <4>2 DEF There
    <3>2. CASE LastIs(b, f, Namespace)
      <4>1. Namespace # Gone
        BY <1>1, NamespaceParts, KindFacts
      <4>2. Becomes(disk, a \o b, f, Namespace)
        BY <2>3, <3>2, BecomesJoined
      <4> QED BY <2>3, <4>1, <4>2 DEF There, Remains
    <3> QED BY <2>3, <3>1, <3>2
  <2>8. Holds(disk, <<>> \o (a \o b), n)
    BY <1>1, <2>2, <2>4, <2>5, <2>6, <2>7, HoldsListed
  <2> QED BY <2>1, <2>6, <2>8 DEF Edit
<1> QED BY <1>2, <1>3

\* What addNewComponent writes for a component.
AddedChanges(kind, name, format, old, c) ==
    SaveIfChanged(AddCompDef(old, c.type, Folder(kind, name)), old) \o
    Write(ComponentFile(c, kind, name, format), c)

LEMMA AddedFile ==
    ASSUME NEW kind \in ComponentKinds, NEW name \in Entities, NEW format \in Formats, NEW c \in OfKind(kind, name)
    PROVE  LET f == ComponentFile(c, kind, name, format)
           IN  /\ f \in Paths /\ f \notin SolutionManifests /\ f.root = "solution"
               /\ f.dir = Folder(kind, name) /\ f.name = c.name
               /\ c \in Contents /\ c # Gone /\ Write(f, c) \in Seq(Changes)
<1> DEFINE f == ComponentFile(c, kind, name, format)
<1>1. Folder(kind, name) \in Seq(Word) /\ Folder(kind, name) # <<>>
  BY FolderIs DEF ComponentKinds
<1>2. c.name \in Seq(Word) /\ c \in Contents /\ c # Gone
  BY KindFacts DEF OfKind, Components, Contents
<1>3. f \in Paths /\ f \notin ManifestFiles /\ Placed(f, c)
  BY <1>1, <1>2, BelowIs, PlacedIs DEF ComponentFile, Roots
<1>4. f.root = "solution" /\ f.dir = Folder(kind, name) /\ f.name = c.name
  BY DEF ComponentFile, File
<1> HIDE DEF f
<1>5. Write(f, c) \in Seq(Changes)
  BY <1>2, <1>3, WriteChanges, WriteIs DEF Fits
<1> QED BY <1>2, <1>3, <1>4, <1>5, SolutionManifestFacts DEF f

LEMMA AddedMore ==
    ASSUME NEW m \in Manifests, NEW kind \in ComponentKinds, NEW name \in Entities, NEW format \in Formats,
           NEW edit \in EditsFrom(m), NEW c \in OfKind(kind, name)
    PROVE  LET t == AddedChanges(kind, name, format, edit.manifest, c)
               n == AddCompDef(edit.manifest, c.type, Folder(kind, name))
           IN  /\ Added(m, kind, name, format, edit, c) = Edit(n, edit.changes \o t)
               /\ edit.changes \in Seq(Changes) /\ t \in Seq(Changes) /\ KeepsAll(t)
               /\ LastIs(t, ComponentFile(c, kind, name, format), c)
               /\ \A g : g \notin SolutionManifests /\ g # ComponentFile(c, kind, name, format) => Spares(t, g)
               /\ edit.manifest \in Manifests /\ n \in OfFormat(edit.manifest.format)
               /\ DOMAIN n.objects = DOMAIN edit.manifest.objects \cup {[type |-> c.type, dir |-> Folder(kind, name)]}
<1> DEFINE old == edit.manifest
           s == edit.changes
           o == [type |-> c.type, dir |-> Folder(kind, name)]
           n == AddCompDef(old, c.type, Folder(kind, name))
           f == ComponentFile(c, kind, name, format)
           a == SaveIfChanged(n, old)
           b == Write(f, c)
<1>1. o \in Listings /\ o.type = c.type /\ o.dir = Folder(kind, name)
  BY ListedIs
<1>2. old \in Manifests /\ s \in Seq(Changes)
  BY EditsAreChanges, SeqMonotonic DEF EditsFrom, OfFormat
<1>3. n = AddCompDef(old, o.type, o.dir) /\ n \in OfFormat(old.format) /\ n \in Manifests
  BY <1>1, <1>2, AddedIs DEF OfFormat
<1>4. DOMAIN n.objects = DOMAIN old.objects \cup {o}
  BY <1>1, <1>2, <1>3, AddedFacts
<1>5. f \in Paths /\ f \notin SolutionManifests /\ b \in Seq(Changes) /\ c \in Contents /\ c # Gone
  BY AddedFile
<1>6. a \in Seq(Changes) /\ KeepsAll(a) /\ \A g : g \notin SolutionManifests => Spares(a, g)
  <2>1. SaveManifest(n) \in Seq(Changes) /\ <<>> \in Seq(Changes)
    BY <1>3, SavedIs, EditsAreChanges, SeqMonotonic, EmptySeq
  <2>2. KeepsAll(SaveManifest(n)) /\ KeepsAll(<<>>)
    BY <1>3, SavedFacts DEF KeepsAll, Keeps
  <2>3. n.format \in Formats
    BY <1>3, ObjectsListed
  <2>4. \A g : g \notin SolutionManifests => Spares(SaveManifest(n), g) /\ Spares(<<>>, g)
    BY <1>3, <2>3, SavedFacts DEF Spares, SolutionManifests
  <2> QED BY <2>1, <2>2, <2>4 DEF SaveIfChanged
<1>7. KeepsAll(b) /\ LastIs(b, f, c) /\ \A g : g # f => Spares(b, g)
  BY <1>5, WriteKeeps, WriteFacts
<1> HIDE DEF a, b
<1>8. a \o b \in Seq(Changes) /\ KeepsAll(a \o b) /\ LastIs(a \o b, f, c)
  <2>1. KeepsAll(a \o b)
    BY <1>5, <1>6, <1>7, KeepsJoined DEF KeepsAll
  <2> QED BY <1>5, <1>6, <1>7, <2>1, Joined, LastJoined
<1>9. \A g : g \notin SolutionManifests /\ g # f => Spares(a \o b, g)
  BY <1>5, <1>6, <1>7, SparesJoined
<1>10. s \o a \o b = s \o (a \o b)
  <2> HIDE DEF s
  <2> QED BY <1>2, <1>5, <1>6, ConcatAssociative
<1>11. Added(m, kind, name, format, edit, c) = Edit(n, s \o (a \o b))
  BY <1>10 DEF Added, a, b
<1>12. AddedChanges(kind, name, format, old, c) = a \o b
  BY DEF AddedChanges, a, b
<1> HIDE DEF old, s, o, n, f
<1> QED BY <1>2, <1>3, <1>4, <1>8, <1>9, <1>11, <1>12 DEF old, s, o, n, f

LEMMA AddedStanding ==
    ASSUME NEW m \in Manifests, NEW kind \in ComponentKinds, NEW name \in Entities, NEW format \in Formats,
           NEW edit \in EditsFrom(m), NEW c \in OfKind(kind, name),
           NEW files, Standing(files, edit.changes, edit.manifest)
    PROVE  Standing(files, edit.changes \o AddedChanges(kind, name, format, edit.manifest, c),
                    AddCompDef(edit.manifest, c.type, Folder(kind, name)))
<1> DEFINE old == edit.manifest
           s == edit.changes
           n == AddCompDef(old, c.type, Folder(kind, name))
           a == SaveIfChanged(n, old)
           b == Write(ComponentFile(c, kind, name, format), c)
<1>1. old \in Manifests /\ s \in Seq(Changes) /\ n \in OfFormat(old.format) /\ n \in Manifests
  BY AddedMore DEF OfFormat
<1>2. b \in Seq(Changes) /\ SparesManifests(b)
  BY AddedFile, WriteKeeps
<1>3. a \in Seq(Changes)
  <2>1. SaveManifest(n) \in Seq(Changes) /\ <<>> \in Seq(Changes)
    BY <1>1, SavedIs, EditsAreChanges, SeqMonotonic, EmptySeq
  <2> QED BY <2>1 DEF SaveIfChanged
<1>4. Standing(files, s \o a, n)
  <2>1. CASE n = old
    <3>1. a = <<>> /\ s \o <<>> = s
      BY <1>1, <2>1, EmptyJoined DEF SaveIfChanged
    <3> QED BY <2>1, <3>1
  <2>2. CASE n # old
    <3>1. a = SaveManifest(n)
      BY <2>2 DEF SaveIfChanged
    <3> QED BY <1>1, <3>1, StandingSaved
  <2> QED BY <2>1, <2>2
<1> HIDE DEF n, a, s, old, b
<1>5. s \o a \in Seq(Changes) /\ s \o a \o b = s \o (a \o b)
  BY <1>1, <1>2, <1>3, Joined, ConcatAssociative
<1>6. Standing(files, s \o (a \o b), n)
  BY <1>1, <1>2, <1>4, <1>5, StandingMore
<1> QED BY <1>6 DEF AddedChanges, s, a, b, n, old

LEMMA AddedHolds ==
    ASSUME NEW m \in Manifests, NEW kind \in ComponentKinds, NEW name \in Entities, NEW format \in Formats,
           NEW edit \in EditsFrom(m), NEW c \in OfKind(kind, name),
           NEW files, Holds(files, edit.changes, edit.manifest)
    PROVE  LET added == Added(m, kind, name, format, edit, c)
           IN  Holds(files, added.changes, added.manifest)
<1> DEFINE old == edit.manifest
           s == edit.changes
           o == [type |-> c.type, dir |-> Folder(kind, name)]
           n == AddCompDef(old, c.type, Folder(kind, name))
           f == ComponentFile(c, kind, name, format)
           t == AddedChanges(kind, name, format, old, c)
<1>1. /\ Added(m, kind, name, format, edit, c) = Edit(n, s \o t)
      /\ s \in Seq(Changes) /\ t \in Seq(Changes) /\ KeepsAll(t) /\ LastIs(t, f, c)
  BY AddedMore
<1>2. o \in Listings /\ o.type = c.type /\ o.dir = Folder(kind, name)
  BY ListedIs
<1>3. f \in Paths /\ f.root = "solution" /\ f.dir = o.dir /\ c # Gone
  BY AddedFile
<1>4. Standing(files, s \o t, n)
  BY AddedStanding DEF Holds
<1>5. n = AddCompDef(old, o.type, o.dir)
  BY <1>2
<1> HIDE DEF o, n, f, t
<1>6. There(files, s \o t, o.dir)
  BY <1>1, <1>3, BecomesJoined DEF There, Remains
<1>7. Holds(files, s \o t, n)
  BY <1>1, <1>2, <1>4, <1>5, <1>6, HoldsListed
<1> QED BY <1>1, <1>7 DEF Edit

\* In the end there is a manifest, and all that it lists.
Whole(files, changes) == \E m : Holds(files, changes, m)
Fresh == disk = <<>> /\ bundle = <<>> /\ running.changes = <<>>
HoldsInv == crashed = 0 => Fresh \/ Whole(disk, running.changes)

LEMMA ComponentsHold ==
    ASSUME GoodFiles(disk), NEW m, Holds(disk, <<>>, m),
           NEW kind \in ComponentKinds, NEW name \in Entities, NEW format \in Formats
    PROVE  Whole(disk, ComponentChanges(m, kind, name, format))
<1> DEFINE new  == NewComponents(m, kind, name)
           Good == {p \in (SUBSET DOMAIN new) \X EditsFrom(m) : Holds(disk, p[2].changes, p[2].manifest)}
<1>1. m \in Manifests
  BY DEF Holds
<1>2. \A T \in SUBSET DOMAIN new, edit \in EditsFrom(m) :
          <<T, edit>> \in Good <=> Holds(disk, edit.changes, edit.manifest)
  OBVIOUS
<1>3. <<{}, Start(m, kind)>> \in Good
  <2>1. Start(m, kind) \in EditsFrom(m)
    BY <1>1, StartIs
  <2>2. Holds(disk, Edit(m, <<>>).changes, Edit(m, <<>>).manifest)
    BY DEF Edit
  <2>3. Holds(disk, Start(m, kind).changes, Start(m, kind).manifest)
    BY <2>2, NamespaceHolds DEF Start
  <2> QED BY <1>2, <2>1, <2>3
<1>4. ASSUME NEW T \in SUBSET DOMAIN new, NEW i \in T, NEW edit \in EditsFrom(m), <<T \ {i}, edit>> \in Good
      PROVE  <<T, Added(m, kind, name, format, edit, new[i])>> \in Good
  <2>1. new[i] \in OfKind(kind, name)
    BY NewComponentsAre, ElementOfSeq, LenProperties
  <2>2. Holds(disk, edit.changes, edit.manifest)
    BY <1>2, <1>4
  <2> DEFINE added == Added(m, kind, name, format, edit, new[i])
  <2>3. added \in EditsFrom(m)
    BY <1>1, <2>1, AddedComponent
  <2>4. Holds(disk, added.changes, added.manifest)
    BY <1>1, <2>1, <2>2, AddedHolds
  <2> HIDE DEF added, Good, new
  <2> QED BY <1>2, <2>3, <2>4 DEF added
<1> HIDE DEF Good
<1>5. Grows(Good, m, kind, name, format)
  BY <1>3, <1>4 DEF Grows
<1>6. PICK edit \in EditsFrom(m) : ComponentChanges(m, kind, name, format) = edit.changes /\ <<DOMAIN new, edit>> \in Good
  BY <1>1, <1>5, FoldedComponents, Zenon
<1> QED BY <1>2, <1>6 DEF Whole

LEMMA KnowledgeHolds ==
    ASSUME NEW m, Holds(disk, <<>>, m), "knowledge" \in Kinds, NEW name \in Entities, NEW format \in Formats
    PROVE  Whole(disk, KnowledgeChanges(m, name, format))
<1> DEFINE c == Knowledge(name)
           f == KnowledgeFile(name, format)
           n == WithKnowledge(m, name, format)
<1>1. KnowledgeChanges(m, name, format) = Write(f, c) \o SaveManifest(n)
  BY KnowledgeParts DEF Holds
<1>2. m \in Manifests
  BY DEF Holds
<1>3. f \in Paths /\ f \notin SolutionManifests /\ c \in Contents /\ Write(f, c) \in Seq(Changes)
  BY <1>2, KnowledgeParts, SolutionManifestFacts, WrittenIs, EditsAreChanges, SeqMonotonic
<1>4. n \in OfFormat(m.format) /\ n.objects = m.objects /\ n.templates = m.templates
  BY <1>2, KnowledgeParts
<1> HIDE DEF n, f, c
<1>5. <<>> \o Write(f, c) = Write(f, c) /\ <<>> \in Seq(Changes)
  BY <1>3, EmptyJoined, EmptySeq
<1>6. Holds(disk, Write(f, c), m)
  BY <1>3, <1>5, HoldsMore, WriteKeeps
<1> QED BY <1>1, <1>3, <1>4, <1>6, HoldsSaved DEF Whole

LEMMA FixHolds ==
    ASSUME NEW m, Holds(disk, <<>>, m), NEW upgrade \in BOOLEAN, NEW format \in {"", "json"}
    PROVE  Whole(disk, FixChanges(m, Fixed(m, upgrade, format)))
<1> DEFINE n == Fixed(m, upgrade, format)
           w == Write(Backup, m)
           a == SaveManifest(n)
           b == RemoveOld(n, m)
           f == ManifestFile("solution", n.format)
           g == ManifestFile("solution", m.format)
<1>1. m \in Manifests /\ m.format \in Formats /\ <<>> \in Seq(Changes)
  BY ObjectsListed, EmptySeq DEF Holds
<1>2. n \in Manifests /\ n.format \in Formats /\ n.objects = m.objects /\ n.templates = m.templates
  BY <1>1 DEF Fixed, Manifests, Formats
<1>3. FixChanges(m, n) = w \o (IF n = m THEN <<>> ELSE a \o b)
  BY DEF FixChanges
<1> HIDE DEF n
<1>4. w \in Seq(Changes) /\ SparesManifests(w) /\ KeepsAll(w)
  <2>1. Backup \in Paths /\ Backup \notin ManifestFiles /\ Backup \notin SolutionManifests /\ m \in Contents
    BY <1>1, ManifestFileFacts, SolutionManifestFacts DEF Contents
  <2>2. w \in Seq(Changes)
    BY <1>1, <2>1, ManifestFits, WrittenIs, EditsAreChanges, SeqMonotonic
  <2> QED BY <2>1, <2>2, WriteKeeps
<1>5. a \in Seq(Changes) /\ KeepsAll(a) /\ LastIs(a, f, n) /\ \A h : h # f => Spares(a, h)
  BY <1>2, SavedIs, SavedFacts, EditsAreChanges, SeqMonotonic DEF KeepsAll
<1>6. Holds(disk, w, m)
  BY <1>1, <1>4, HoldsMore, EmptyJoined
<1> HIDE DEF w, a
<1>7. CASE n = m
  BY <1>3, <1>4, <1>6, <1>7, EmptyJoined DEF Whole, n
<1>8. CASE n # m /\ n.format = m.format
  <2>1. b = <<>>
    BY <1>8 DEF RemoveOld
  <2>2. w \o (a \o b) = w \o a
    BY <1>5, <2>1, EmptyJoined
  <2>3. Holds(disk, w \o a, n)
    BY <1>2, <1>4, <1>6, <1>8, HoldsSaved DEF OfFormat, a
  <2> QED BY <1>3, <1>8, <2>2, <2>3 DEF Whole, n
<1>9. CASE n # m /\ n.format # m.format
  <2>1. b = Change(g, Gone)
    BY <1>9 DEF RemoveOld
  <2>2. f # g /\ g \in SolutionManifests /\ g.dir = <<>> /\ g \in Paths
    BY <1>1, <1>2, <1>9, ManifestsDiffer, SolutionManifestFacts DEF ManifestFile, File
  <2> HIDE DEF f, g
  <2>3. b \in Seq(Changes) /\ KeepsAll(b) /\ LastIs(b, g, Gone) /\ Spares(b, f)
    <3>1. [file |-> g, contents |-> Gone] \in Changes
      <4> DEFINE r == [file |-> g, contents |-> Gone]
      <4>1. r \in [file : Paths, contents : Contents \cup {Gone}] /\ r.contents = Gone
        BY <2>2
      <4> HIDE DEF r
      <4> QED BY <4>1 DEF Changes, r
    <3>2. \A h : h # g => Spares(Change(g, Gone), h) /\ Keeps(Change(g, Gone), h)
      BY ChangeFacts, Zenon
    <3>3. KeepsAll(b)
      BY <2>1, <2>2, <3>2 DEF KeepsAll
    <3>4. LastIs(b, g, Gone)
      <4>1. LastIs(Change(g, Gone), g, Gone)
        BY ChangeFacts, Zenon
      <4> QED BY <2>1, <4>1, Zenon
    <3>5. b \in Seq(Changes)
      BY <2>1, <3>1, ChangeIs
    <3>6. Spares(b, f)
      BY <2>1, <2>2, <3>2, Zenon
    <3> QED BY <3>3, <3>4, <3>5, <3>6
  <2> HIDE DEF b
  <2>4. a \o b \in Seq(Changes) /\ KeepsAll(a \o b) /\ LastIs(a \o b, f, n) /\ LastIs(a \o b, g, Gone)
    <3>1. KeepsAll(a \o b)
      BY <1>5, <2>3, KeepsJoined DEF KeepsAll
    <3> QED BY <1>5, <2>3, <3>1, Joined, LastJoined
  <2> DEFINE t == a \o b
  <2> HIDE DEF t
  <2>5. Becomes(disk, w \o t, f, n) /\ Becomes(disk, w \o t, g, Gone)
    BY <1>4, <2>4, BecomesJoined DEF t
  <2>6. Standing(disk, w \o t, n)
    <3>1. \A other \in Formats : other # n.format => other = m.format
      BY <1>1, <1>2, <1>9 DEF Formats
    <3> QED BY <2>5, <3>1 DEF Standing, StandingIn, f, g
  <2>7. \A o \in DOMAIN n.objects : There(disk, w \o t, o.dir)
    <3>1. \A o \in DOMAIN m.objects : o.dir # <<>>
      BY <1>1, ObjectsListed DEF Listings
    <3> QED BY <1>2, <1>4, <1>6, <2>4, <3>1, ThereMore DEF Holds, t
  <2>8. Once(n)
    BY <1>2, <1>6, SameTemplates DEF Holds, Once
  <2>9. Holds(disk, w \o t, n)
    BY <1>2, <2>6, <2>7, <2>8 DEF Holds
  <2> QED BY <1>3, <1>9, <2>9 DEF Whole, n, t
<1> QED BY <1>7, <1>8, <1>9

\* A command that finds a manifest.
LEMMA Finds ==
    ASSUME FilesInv, HoldsInv, crashed = 0, Idle, NEW m \in GetManifest(disk, "solution")
    PROVE  GoodFiles(disk) /\ Holds(disk, <<>>, m)
<1>1. GoodFiles(disk)
  BY DEF FilesInv, FilesTypes
<1>2. ManifestsIn(disk, "solution") # {}
  BY <1>1, FoundManifest
<1>3. disk # <<>>
  BY <1>2 DEF ManifestsIn
<1>4. PICK n : Holds(disk, <<>>, n)
  BY <1>3 DEF HoldsInv, Fresh, Whole, Idle
<1>5. GetManifest(disk, "solution") = {n}
  BY <1>4, HoldsAtEnd
<1> QED BY <1>1, <1>4, <1>5

LEMMA StartedWhole ==
    ASSUME NEW command, NEW changes, Run(command, changes), crashed = 0 => Whole(disk, changes)
    PROVE  HoldsInv'
<1>1. disk' = disk /\ crashed' = crashed /\ running'.changes = changes
  BY DEF Run
<1> QED BY <1>1 DEF HoldsInv, Whole

LEMMA HoldsStart == Init => HoldsInv
<1> SUFFICES ASSUME Init PROVE HoldsInv
  OBVIOUS
<1>1. FilesInv /\ GoodFiles(disk)
  BY TypesInit DEF FilesInv, FilesTypes
<1>2. running.changes = <<>> /\ bundle = <<>>
  BY DEF Init
<1>3. CASE disk = <<>>
  BY <1>2, <1>3 DEF HoldsInv, Fresh
<1>4. ASSUME NEW i \in Templated, disk = [f \in {ManifestFile("solution", "json")} |-> HandMade(i)]
      PROVE  HoldsInv
  <2> DEFINE f == ManifestFile("solution", "json")
             m == HandMade(i)
  <2>1. m \in Manifests /\ m.format = "json" /\ "json" \in Formats
    BY InitialIs, TemplatedAssumption DEF Formats
  <2>2. DOMAIN m.objects = {}
    BY EmptyBagIs DEF HandMade, InitialManifest
  <2>3. DOMAIN disk = {f} /\ disk[f] = m
    BY <1>4
  <2> HIDE DEF m
  <2>4. Becomes(disk, <<>>, f, m)
    BY <2>1, <2>3, BecomesAtEnd, KindFacts DEF At, Contents
  <2>5. ASSUME NEW format \in Formats, format # "json" PROVE Becomes(disk, <<>>, ManifestFile("solution", format), Gone)
    BY <2>1, <2>3, <2>5, ManifestsDiffer, BecomesAtEnd DEF At
  <2>6. Holds(disk, <<>>, m)
    BY <2>1, <2>2, <2>4, <2>5 DEF Holds, Standing, StandingIn, Once
  <2> QED BY <1>2, <2>6 DEF HoldsInv, Whole
<1> QED BY <1>3, <1>4 DEF Init

LEMMA InitHolds == FilesInv /\ HoldsInv /\ InitSolution => HoldsInv'
<1> SUFFICES ASSUME InitSolution PROVE HoldsInv'
  OBVIOUS
<1>1. PICK format \in Formats : Run(<<"init">>, SaveManifest(InitialManifest(format)))
  BY DEF InitSolution
<1> DEFINE m == InitialManifest(format)
           a == SaveManifest(m)
<1>2. m \in Manifests /\ m.format = format
  BY InitialIs
<1>3. DOMAIN m.objects = {}
  BY EmptyBagIs DEF InitialManifest
<1> HIDE DEF m
<1>4. LastIs(a, ManifestFile("solution", m.format), m)
  BY <1>2, SavedFacts
<1>5. \A other \in Formats : other # m.format => Spares(a, ManifestFile("solution", other))
  BY <1>2, SavedFacts, ManifestsDiffer
<1>6. DOMAIN disk = {}
  BY DEF InitSolution
<1>7. Holds(disk, a, m)
  BY <1>2, <1>3, <1>4, <1>5, <1>6 DEF Holds, Standing, StandingIn, Becomes, At, Once
<1> QED BY <1>1, <1>7, StartedWhole DEF Whole, m

LEMMA BumpHolds == FilesInv /\ HoldsInv /\ Bump => HoldsInv'
<1> SUFFICES ASSUME FilesInv, HoldsInv, Bump PROVE HoldsInv'
  OBVIOUS
<1>1. PICK m \in GetManifest(disk, "solution") : Run(<<"bump">>, SaveManifest([m EXCEPT !.version = 1]))
  BY DEF Bump
<1> DEFINE n == [m EXCEPT !.version = 1]
<1>2. m \in Manifests
  BY FoundManifest DEF FilesInv, FilesTypes
<1>3. n \in OfFormat(m.format) /\ n.objects = m.objects /\ n.templates = m.templates
  BY <1>2 DEF Manifests, OfFormat
<1> HIDE DEF n
<1>4. SaveManifest(n) \in Seq(Changes) /\ <<>> \in Seq(Changes)
  BY <1>3, SavedIs, EditsAreChanges, SeqMonotonic, EmptySeq DEF OfFormat
<1>5. ASSUME crashed = 0 PROVE Whole(disk, SaveManifest(n))
  <2>1. Holds(disk, <<>>, m)
    BY <1>1, <1>5, Finds DEF Run
  <2> QED BY <1>3, <1>4, <2>1, HoldsSaved, EmptyJoined DEF Whole
<1> QED BY <1>1, <1>5, StartedWhole DEF n

LEMMA FixKeepsWhole == FilesInv /\ HoldsInv /\ Fix => HoldsInv'
<1> SUFFICES ASSUME FilesInv, HoldsInv, Fix PROVE HoldsInv'
  OBVIOUS
<1>1. PICK m \in GetManifest(disk, "solution"), upgrade \in BOOLEAN, format \in {"", "json"} :
          Run(<<"fix">>, FixChanges(m, Fixed(m, upgrade, format)))
  BY DEF Fix
<1>2. ASSUME crashed = 0 PROVE Whole(disk, FixChanges(m, Fixed(m, upgrade, format)))
  <2>1. Holds(disk, <<>>, m)
    BY <1>1, <1>2, Finds DEF Run
  <2> QED BY <2>1, FixHolds
<1> QED BY <1>1, <1>2, StartedWhole

LEMMA TagHolds == FilesInv /\ HoldsInv /\ SetTag => HoldsInv'
<1> SUFFICES ASSUME FilesInv, HoldsInv, SetTag PROVE HoldsInv'
  OBVIOUS
<1> DEFINE f == TagFile("solution")
<1>1. PICK m \in GetManifest(disk, "solution") : Run(<<"tag">>, Write(f, Tag))
  BY DEF SetTag
<1>2. f \in Paths /\ f \notin ManifestFiles /\ f \notin SolutionManifests /\ Tag \in Contents
  BY ManifestFileFacts, SolutionManifestFacts DEF Roots, Contents
<1>3. Write(f, Tag) \in Seq(Changes) /\ <<>> \in Seq(Changes)
  BY <1>2, ManifestFits, WrittenIs, EditsAreChanges, SeqMonotonic, EmptySeq
<1>4. SparesManifests(Write(f, Tag)) /\ KeepsAll(Write(f, Tag))
  BY <1>2, WriteKeeps
<1> HIDE DEF f
<1>5. ASSUME crashed = 0 PROVE Whole(disk, Write(f, Tag))
  <2>1. Holds(disk, <<>>, m)
    BY <1>1, <1>5, Finds DEF Run
  <2>2. <<>> \o Write(f, Tag) = Write(f, Tag)
    BY <1>3, EmptyJoined
  <2> QED BY <1>3, <1>4, <2>1, <2>2, HoldsMore DEF Whole
<1> QED BY <1>1, <1>5, StartedWhole

LEMMA ExtendHolds ==
    ASSUME FilesInv, HoldsInv, NEW kind \in Kinds, NEW name \in Entities, NEW format \in Formats,
           Extend(kind, name, format) \/ ExtendRefused(kind, name)
    PROVE  HoldsInv'
<1>1. CASE ExtendRefused(kind, name)
  <2>1. PICK m \in GetManifest(disk, "solution") : Run(<<"refused">>, NamespaceEdit(m).changes)
    BY <1>1 DEF ExtendRefused
  <2>2. ASSUME crashed = 0 PROVE Whole(disk, NamespaceEdit(m).changes)
    <3>1. GoodFiles(disk) /\ Holds(disk, <<>>, m)
      BY <2>1, <2>2, Finds DEF Run
    <3> QED BY <3>1, NamespaceHolds DEF Whole
  <2> QED BY <2>1, <2>2, StartedWhole
<1>2. CASE Extend(kind, name, format)
  <2>1. PICK m \in GetManifest(disk, "solution") :
            IF kind = "knowledge" THEN Run(<<kind, name>>, KnowledgeChanges(m, name, format))
            ELSE Run(<<kind, name>>, ComponentChanges(m, kind, name, format))
    BY <1>2 DEF Extend
  <2>2. crashed = 0 => GoodFiles(disk) /\ Holds(disk, <<>>, m)
    BY <2>1, Finds DEF Run
  <2>3. CASE kind = "knowledge"
    BY <2>1, <2>2, <2>3, KnowledgeHolds, StartedWhole
  <2>4. CASE kind # "knowledge"
    BY <2>1, <2>2, <2>4, ComponentsHold, StartedWhole DEF ComponentKinds
  <2> QED BY <2>3, <2>4
<1> QED BY <1>1, <1>2

\* Changes of the fork leave the solution alone.
LEMMA ForkEditsSpare ==
    ASSUME NEW changes \in Seq(ForkEdits)
    PROVE  changes \in Seq(Changes) /\ SparesManifests(changes) /\ KeepsAll(changes)
<1>1. \A i \in DOMAIN changes : changes[i].file.root = "fork"
  BY ElementOfSeq, LenProperties DEF ForkEdits
<1>2. changes \in Seq(Changes)
  BY SeqMonotonic DEF ForkEdits
<1>3. SparesManifests(changes)
  BY <1>1, SolutionManifestFacts DEF SparesManifests, Spares
<1>4. KeepsAll(changes)
  BY <1>1 DEF KeepsAll, Keeps
<1> QED BY <1>2, <1>3, <1>4

LEMMA ForkHolds == FilesInv /\ HoldsInv /\ ForkSolution => HoldsInv'
<1> SUFFICES ASSUME FilesInv, HoldsInv, ForkSolution PROVE HoldsInv'
  OBVIOUS
<1>1. PICK files \in {disk, Unzipped(bundle)} :
          \E m \in GetManifest(files, "solution") : Run(<<"fork">>, ForkChanges(files, m))
  BY DEF ForkSolution
<1>7. PICK m \in GetManifest(files, "solution") : Run(<<"fork">>, ForkChanges(files, m))
  BY <1>1
<1>2. GoodFiles(files)
  BY DEF FilesInv, FilesTypes
<1>3. m \in Manifests /\ ManifestsIn(files, "solution") # {}
  BY <1>2, FoundManifest
<1> DEFINE changes == ForkChanges(files, m)
<1>4. changes \in Seq(ForkEdits)
  BY <1>2, <1>3, FoldedFork
<1> HIDE DEF changes
<1>5. ASSUME crashed = 0 PROVE Whole(disk, changes)
  <2>1. ~ Fresh
    <3>1. ASSUME Fresh PROVE DOMAIN files = {}
      <4>1. DOMAIN disk = {} /\ DOMAIN bundle = {}
        BY <3>1 DEF Fresh
      <4>2. DOMAIN Unzipped(bundle) = {}
        BY <4>1 DEF Unzipped
      <4> QED BY <4>1, <4>2
    <3> QED BY <1>3, <3>1 DEF ManifestsIn
  <2>2. PICK n : Holds(disk, <<>>, n)
    BY <1>5, <1>7, <2>1 DEF HoldsInv, Whole, Run, Idle
  <2>3. <<>> \in Seq(Changes) /\ <<>> \o changes = changes
    BY <1>4, EmptyJoined, EmptySeq
  <2> QED BY <1>4, <2>2, <2>3, HoldsMore, ForkEditsSpare DEF Whole
<1> QED BY <1>5, <1>7, StartedWhole DEF changes

LEMMA PackageHolds == FilesInv /\ HoldsInv /\ Package => HoldsInv'
<1> SUFFICES ASSUME FilesInv, HoldsInv, Package PROVE HoldsInv'
  OBVIOUS
<1>1. disk' = disk /\ running' = running /\ crashed' = crashed /\ Idle
  BY DEF Package
<1>2. PICK m \in GetManifest(disk, "solution") : TRUE
  BY DEF Package
<1>3. crashed = 0 => Whole(disk, running.changes)
  BY <1>1, <1>2, Finds DEF Whole, Idle
<1> QED BY <1>1, <1>3 DEF HoldsInv, Whole

LEMMA RemoveHolds == FilesInv /\ HoldsInv /\ RemoveType => HoldsInv'
<1> SUFFICES ASSUME FilesInv, HoldsInv, RemoveType, crashed = 0 PROVE Whole(disk', running'.changes)
  BY DEF HoldsInv, RemoveType
<1>1. PICK f \in DOMAIN disk : f.dir = <<"types">> /\ disk' = Restrict(disk, DOMAIN disk \ {f})
  BY DEF RemoveType
<1>2. running' = running /\ running.changes = <<>> /\ disk # <<>> /\ GoodFiles(disk)
  BY <1>1 DEF RemoveType, Idle, FilesInv, FilesTypes
<1>3. PICK m : Holds(disk, <<>>, m)
  BY <1>2 DEF HoldsInv, Fresh, Whole
<1>4. DOMAIN disk' = DOMAIN disk \ {f} /\ \A g \in DOMAIN disk' : disk'[g] = disk[g]
  BY <1>1 DEF Restrict
<1>5. \A format \in Formats : ManifestFile("solution", format) # f
  BY <1>1 DEF ManifestFile, File
<1>6. m \in Manifests /\ m.format \in Formats
  BY <1>3, ObjectsListed DEF Holds
<1>7. Standing(disk', <<>>, m)
  BY <1>3, <1>4, <1>5, <1>6, BecomesAtEnd DEF Holds, Standing, StandingIn, At
<1>8. ASSUME NEW o \in DOMAIN m.objects PROVE There(disk', <<>>, o.dir)
  <2>1. o.dir # <<"types">>
    BY <1>6, ObjectsListed DEF Listings
  <2>2. PICK g \in Paths : g.root = "solution" /\ g.dir = o.dir /\ Remains(disk, <<>>, g)
    BY <1>3 DEF Holds, There
  <2>3. g \in DOMAIN disk
    BY <2>2, RemainsAtEnd
  <2>4. g \in DOMAIN disk' /\ disk'[g] = disk[g]
    BY <1>1, <1>4, <2>1, <2>2, <2>3
  <2>5. disk[g] # Gone
    BY <1>2, <2>3, KindFacts DEF GoodFiles
  <2> QED BY <2>2, <2>4, <2>5, RemainsAtEnd DEF There
<1> QED BY <1>2, <1>3, <1>7, <1>8 DEF Whole, Holds

LEMMA StepHolds == FilesInv /\ HoldsInv /\ Step => HoldsInv'
<1> SUFFICES ASSUME FilesInv, HoldsInv, Step, crashed = 0 PROVE Whole(disk', running'.changes)
  BY DEF HoldsInv, Step
<1>1. running.changes # <<>> /\ running.changes \in Seq(Changes)
  BY DEF Step, Idle, FilesInv, FilesTypes
<1>2. disk' = Apply(disk, Head(running.changes)) /\ running'.changes = Tail(running.changes)
  BY DEF Step, FilesInv, FilesTypes
<1>3. PICK m : Holds(disk, running.changes, m)
  BY <1>1 DEF HoldsInv, Fresh, Whole
<1> QED BY <1>1, <1>2, <1>3, HoldsStep DEF Whole

LEMMA HoldsNext == FilesInv /\ HoldsInv /\ [Next]_vars => HoldsInv'
<1> SUFFICES ASSUME FilesInv, HoldsInv, [Next]_vars PROVE HoldsInv'
  OBVIOUS
<1>1. CASE InitSolution \/ Bump \/ Fix \/ SetTag
  BY <1>1, InitHolds, BumpHolds, FixKeepsWhole, TagHolds
<1>2. CASE RemoveType \/ Package \/ ForkSolution
  BY <1>2, RemoveHolds, PackageHolds, ForkHolds
<1>3. ASSUME NEW kind \in Kinds, NEW name \in Entities, NEW format \in Formats,
             Extend(kind, name, format) \/ ExtendRefused(kind, name)
      PROVE  HoldsInv'
  BY <1>3, ExtendHolds
<1>4. CASE Step
  BY <1>4, StepHolds
<1>5. CASE LoseFile \/ Crash
  <2>1. crashed \in Nat /\ crashed' = crashed + 1
    BY <1>5 DEF LoseFile, Crash, FilesInv, FilesTypes
  <2>2. crashed' # 0
    BY <2>1
  <2> QED BY <2>2 DEF HoldsInv
<1>6. CASE UNCHANGED vars
  BY <1>6 DEF vars, HoldsInv, Fresh, Whole
<1> QED BY <1>1, <1>2, <1>3, <1>4, <1>5, <1>6 DEF Next

-----------------------------------------------------------------------------
(* What a fork comes to                                                    *)

\* In the end m is the manifest of the fork and all that it lists is there, ...
ForkedDir(files, changes, dir) == \E f \in Paths : f.root = "fork" /\ f.dir = dir /\ Remains(files, changes, f)
ForkStands(files, changes, m) ==
    /\ m \in Manifests /\ m.solution = Fork
    /\ StandingIn("fork", files, changes, m)
    /\ \A t \in DOMAIN m.types : Remains(files, changes, [t EXCEPT !.root = "fork"])
    /\ \A o \in DOMAIN m.objects : ForkedDir(files, changes, o.dir)

\* ... what was and what will be copied has the new name, and the manifest is the last to be written.
AllRenamed(files, changes) ==
    /\ \A f \in DOMAIN files : Renamed(f, files[f])
    /\ \A i \in DOMAIN changes : Renamed(changes[i].file, changes[i].contents)
EndsWithManifest(changes) == changes # <<>> => changes[Len(changes)].contents \in Manifests
Forking(files, changes) ==
    /\ AllRenamed(files, changes) /\ EndsWithManifest(changes)
    /\ \E m : ForkStands(files, changes, m)

ForkInv == crashed = 0 /\ running.command = <<"fork">> /\ running.changes # <<>> => Forking(disk, running.changes)

LEMMA TailFacts ==
    ASSUME NEW changes \in Seq(Changes), changes # <<>>
    PROVE  /\ Head(changes) \in Changes /\ Head(changes) = changes[1] /\ 1 \in DOMAIN changes
           /\ Tail(changes) \in Seq(Changes) /\ Len(Tail(changes)) = Len(changes) - 1 /\ Len(changes) \in Nat \ {0}
           /\ \A i \in DOMAIN Tail(changes) : i + 1 \in DOMAIN changes /\ Tail(changes)[i] = changes[i + 1]
           /\ Tail(changes) # <<>> => Tail(changes)[Len(changes) - 1] = changes[Len(changes)]
<1>1. Len(changes) \in Nat \ {0} /\ DOMAIN changes = 1..Len(changes)
  BY EmptySeq, LenProperties
<1> DEFINE t == Tail(changes)
<1>2. t \in Seq(Changes) /\ Len(t) = Len(changes) - 1 /\ \A i \in 1..Len(t) : t[i] = changes[i + 1]
  BY <1>1, HeadTailProperties
<1>3. Head(changes) = changes[1] /\ 1 \in DOMAIN changes
  BY <1>1
<1>4. changes[1] \in Changes
  BY <1>1, ElementOfSeq
<1> HIDE DEF t
<1>5. DOMAIN t = 1..(Len(changes) - 1)
  BY <1>2, LenProperties
<1>6. \A i \in DOMAIN t : i + 1 \in DOMAIN changes
  BY <1>1, <1>5
<1>7. ASSUME t # <<>> PROVE t[Len(changes) - 1] = changes[Len(changes)]
  <2>1. Len(t) # 0
    BY <1>2, <1>7, EmptySeq
  <2>2. Len(changes) - 1 \in 1..Len(t) /\ (Len(changes) - 1) + 1 = Len(changes)
    BY <1>1, <1>2, <2>1
  <2> QED BY <1>2, <2>2
<1> QED BY <1>1, <1>2, <1>3, <1>4, <1>5, <1>6, <1>7 DEF t

LEMMA ForkingStep ==
    ASSUME NEW files, NEW changes \in Seq(Changes), changes # <<>>, Forking(files, changes)
    PROVE  Forking(Apply(files, Head(changes)), Tail(changes))
<1> DEFINE after == Apply(files, Head(changes))
           t == Tail(changes)
<1>1. PICK m : ForkStands(files, changes, m)
  BY DEF Forking
<1>2. ForkStands(after, t, m)
  BY <1>1, StandingStep, RemainsStep DEF ForkStands, ForkedDir
<1>3. AllRenamed(after, t)
  <2>1. ASSUME NEW f \in DOMAIN after PROVE Renamed(f, after[f])
    BY Applied, TailFacts DEF Forking, AllRenamed
  <2>2. \A i \in DOMAIN t : Renamed(t[i].file, t[i].contents)
    BY TailFacts DEF Forking, AllRenamed
  <2> QED BY <2>1, <2>2 DEF AllRenamed
<1>4. EndsWithManifest(t)
  BY TailFacts DEF Forking, EndsWithManifest
<1> QED BY <1>2, <1>3, <1>4 DEF Forking

LEMMA ForkingAtEnd ==
    ASSUME NEW files, Forking(files, <<>>)
    PROVE  \E m \in GetManifest(files, "fork") :
               /\ m.solution = Fork /\ Complete(files, m, "fork")
               /\ \A f \in DOMAIN files : f.root = "fork" /\ files[f].kind = "component" =>
                      files[f].solution = Fork /\ f.name # <<Original>>
<1>1. PICK m : ForkStands(files, <<>>, m)
  BY DEF Forking
<1>2. m \in Manifests /\ m.solution = Fork /\ GetManifest(files, "fork") = {m}
  BY <1>1, StandingAtEnd DEF ForkStands
<1>3. TypesPresent(files, m, "fork")
  BY <1>1, RemainsAtEnd DEF ForkStands, TypesPresent
<1>4. ObjectsPresent(files, m, "fork")
  BY <1>1, RemainsAtEnd DEF ForkStands, ForkedDir, ObjectsPresent
<1>5. \A f \in DOMAIN files : Renamed(f, files[f])
  BY DEF Forking, AllRenamed
<1> QED BY <1>2, <1>3, <1>4, <1>5 DEF Complete, Renamed

\* A file is copied unless it is the manifest.
LEMMA CopiedRemains ==
    ASSUME NEW files, GoodFiles(files), NEW copied \in Copies(files, Others(files)), NEW f \in Others(files)
    PROVE  ~ Spares(copied, ForkedFile(files, f)) /\ \A g : Keeps(copied, g)
<1>1. PICK i \in DOMAIN copied : copied[i] = CopyOf(files, f)
  BY DEF Copies
<1>2. ~ Spares(copied, ForkedFile(files, f))
  BY <1>1 DEF Spares, CopyOf
<1>3. \A j \in DOMAIN copied : \E g \in Others(files) : copied[j] = CopyOf(files, g)
  BY ElementOfSeq, LenProperties DEF Copies
<1>4. \A g \in Others(files) : CopyOf(files, g).contents # Gone
  BY ForkedIs, KindFacts DEF CopyOf
<1>5. \A g : Keeps(copied, g)
  BY <1>3, <1>4 DEF Keeps
<1> QED BY <1>2, <1>5

LEMMA CopiesFacts ==
    ASSUME NEW files, GoodFiles(files), NEW copied \in Copies(files, Others(files))
    PROVE  /\ \A f \in ManifestFiles : Spares(copied, f)
           /\ \A i \in DOMAIN copied : Renamed(copied[i].file, copied[i].contents)
<1>1. \A j \in DOMAIN copied : \E g \in Others(files) : copied[j] = CopyOf(files, g)
  BY ElementOfSeq, LenProperties DEF Copies
<1>2. \A g \in Others(files) : /\ CopyOf(files, g).file \notin ManifestFiles
                              /\ Renamed(CopyOf(files, g).file, CopyOf(files, g).contents)
  BY ForkedIs DEF CopyOf
<1> QED BY <1>1, <1>2 DEF Spares

\* What is so for every change of two sequences is so for those of both, and the last is the second's.
LEMMA EveryJoined ==
    ASSUME NEW S, NEW s \in Seq(S), NEW t \in Seq(S), NEW P,
           \A i \in DOMAIN s : s[i] \in P, \A i \in DOMAIN t : t[i] \in P
    PROVE  /\ \A i \in DOMAIN (s \o t) : (s \o t)[i] \in P
           /\ t # <<>> => Len(s \o t) = Len(s) + Len(t) /\ (s \o t)[Len(s) + Len(t)] = t[Len(t)]
<1>1. /\ Len(s) \in Nat /\ Len(t) \in Nat /\ DOMAIN s = 1..Len(s) /\ DOMAIN t = 1..Len(t)
      /\ DOMAIN (s \o t) = 1..(Len(s) + Len(t))
      /\ \A i \in 1..Len(s) : (s \o t)[i] = s[i]
      /\ \A i \in 1..Len(t) : (s \o t)[Len(s) + i] = t[i]
  BY JoinedIs
<1> DEFINE u == s \o t
<1>2. u \in Seq(S) /\ Len(u) = Len(s) + Len(t)
  BY ConcatProperties
<1> HIDE DEF u
<1>3. ASSUME NEW i \in DOMAIN u PROVE u[i] \in P
  <2>1. CASE i \in 1..Len(s)
    BY <1>1, <2>1 DEF u
  <2>2. CASE i \notin 1..Len(s)
    <3>1. i - Len(s) \in 1..Len(t) /\ Len(s) + (i - Len(s)) = i
      BY <1>1, <1>3, <2>2 DEF u
    <3>2. u[i] = t[i - Len(s)]
      BY <1>1, <3>1 DEF u
    <3> QED BY <1>1, <3>1, <3>2
  <2> QED BY <2>1, <2>2
<1>4. ASSUME t # <<>> PROVE Len(u) = Len(s) + Len(t) /\ u[Len(s) + Len(t)] = t[Len(t)]
  <2>1. Len(t) \in 1..Len(t)
    BY <1>1, <1>4, EmptySeq
  <2> QED BY <1>1, <1>2, <2>1 DEF u
<1> QED BY <1>3, <1>4 DEF u

LEMMA WrittenContents ==
    ASSUME NEW f, NEW c
    PROVE  /\ Len(Write(f, c)) = 2 /\ Write(f, c) # <<>> /\ Write(f, c)[2].contents = c
           /\ \A i \in DOMAIN Write(f, c) : Write(f, c)[i].contents \in {c, Empty}
<1> DEFINE S == {[file |-> f, contents |-> Empty], [file |-> f, contents |-> c]}
           s == Change(f, Empty)
           t == Change(f, c)
<1>1. [file |-> f, contents |-> Empty] \in S /\ [file |-> f, contents |-> c] \in S
  OBVIOUS
<1> HIDE DEF S
<1>2. s \in Seq(S) /\ t \in Seq(S)
  BY <1>1, ChangeIs
<1>3. Len(s) = 1 /\ s[1].contents = Empty /\ Len(t) = 1 /\ t[1].contents = c
  BY DEF Change
<1> HIDE DEF s, t
<1>4. /\ DOMAIN (s \o t) = 1..2 /\ s \o t \in Seq(S) /\ Len(s \o t) = 2
      /\ (s \o t)[1] = s[1] /\ (s \o t)[2] = t[1]
  <2>1. /\ DOMAIN (s \o t) = 1..(Len(s) + Len(t))
        /\ \A i \in 1..Len(s) : (s \o t)[i] = s[i]
        /\ \A i \in 1..Len(t) : (s \o t)[Len(s) + i] = t[i]
    BY <1>2, JoinedIs
  <2>2. s \o t \in Seq(S) /\ Len(s \o t) = Len(s) + Len(t)
    BY <1>2, ConcatProperties
  <2>3. 1 \in 1..1 /\ 1 + 1 = 2
    OBVIOUS
  <2> QED BY <1>3, <2>1, <2>2, <2>3
<1>5. Write(f, c) = s \o t
  BY DEF Write, s, t
<1> DEFINE u == s \o t
<1> HIDE DEF u
<1>6. /\ DOMAIN u = {1, 2} /\ Len(u) = 2 /\ u # <<>> /\ u[1].contents = Empty /\ u[2].contents = c
  BY <1>3, <1>4, EmptySeq DEF u
<1> QED BY <1>5, <1>6 DEF u

LEMMA ForkStart ==
    ASSUME NEW files, GoodFiles(files), NEW m \in GetManifest(files, "solution"), Complete(files, m, "solution"),
           GoodFiles(disk), \A f \in DOMAIN disk : f.root # "fork"
    PROVE  Forking(disk, ForkChanges(files, m))
<1> DEFINE n == ForkedManifest(m)
           f == ManifestFile("fork", m.format)
           w == Write(f, n)
<1>1. m \in Manifests /\ m.format \in Formats
  BY FoundManifest DEF Manifests
<1>2. PICK s \in Copies(files, Others(files)) : ForkChanges(files, m) = s \o w
  BY FoldedCopies
<1>3. /\ n \in Manifests /\ n.format = m.format /\ n.solution = Fork /\ n.types = m.types /\ n.objects = m.objects
      /\ f \in Paths /\ f.root = "fork" /\ w \in Seq(ForkEdits) /\ n # Gone
  BY <1>1, ForkedManifestIs, KindFacts DEF OfFormat, Contents
<1>4. s \in Seq(ForkEdits) /\ (\A g \in ManifestFiles : Spares(s, g)) /\ (\A g : Others(files) # {} => Keeps(s, g))
  BY <1>2, CopiesAre, CopiesFacts, CopiedRemains
<1>5. LastIs(w, f, n) /\ (\A g : g # f => Spares(w, g)) /\ \A g : Keeps(w, g)
  BY <1>3, WriteFacts
<1> DEFINE u == s \o w
<1> HIDE DEF n, w
<1>6. StandingIn("fork", disk, u, n)
  <2>1. Becomes(disk, u, f, n)
    BY <1>3, <1>4, <1>5, BecomesJoined
  <2>2. ASSUME NEW format \in Formats, format # m.format PROVE Becomes(disk, u, ManifestFile("fork", format), Gone)
    <3> DEFINE g == ManifestFile("fork", format)
    <3>1. g \in ManifestFiles /\ g.root = "fork" /\ g.format = format /\ f.format = m.format
      BY <1>1, ManifestFileFacts DEF ManifestFiles, Roots
    <3>2. g # f
      BY <2>2, <3>1
    <3> HIDE DEF g, f
    <3>3. Spares(u, g)
      BY <1>3, <1>4, <1>5, <3>1, <3>2, SparesJoined
    <3>4. g \notin DOMAIN disk
      BY <3>1
    <3> QED BY <3>3, <3>4 DEF Becomes, At, g
  <2> QED BY <1>3, <2>1, <2>2 DEF StandingIn, f
<1> HIDE DEF f
<1>7. ASSUME NEW g \in Others(files) PROVE Remains(disk, u, ForkedFile(files, g))
  <2>1. Remains(disk, s, ForkedFile(files, g))
    <3>1. ~ Spares(s, ForkedFile(files, g)) /\ Keeps(s, ForkedFile(files, g))
      BY <1>2, <1>7, CopiedRemains
    <3>2. <<>> \in Seq(ForkEdits) /\ <<>> \o s = s
      BY <1>4, EmptySeq, EmptyJoined
    <3> QED BY <1>4, <3>1, <3>2, RemainsJoined
  <2> QED BY <1>3, <1>4, <1>5, <2>1, RemainsJoined
<1>8. \A g \in DOMAIN files : g.root = "solution" /\ g.dir # <<>> => g \in Others(files)
  <2>1. \A g \in ManifestsIn(files, "solution") : g.dir = <<>>
    BY DEF ManifestsIn, ManifestFile, File
  <2> QED BY <2>1 DEF Others
<1>9. ASSUME NEW t \in DOMAIN n.types PROVE Remains(disk, u, [t EXCEPT !.root = "fork"])
  <2> DEFINE g == [t EXCEPT !.root = "solution"]
  <2>1. t \in TypeFiles
    BY <1>3 DEF Manifests, BagsOver
  <2>2. g.root = "solution" /\ g.dir = <<"types">> /\ [g EXCEPT !.root = "fork"] = [t EXCEPT !.root = "fork"]
    <3>1. t = [root |-> t.root, dir |-> t.dir, name |-> t.name, format |-> t.format] /\ t.dir = <<"types">>
      BY <2>1 DEF TypeFiles
    <3>2. g = [root |-> "solution", dir |-> t.dir, name |-> t.name, format |-> t.format]
      BY <3>1
    <3>3. [t EXCEPT !.root = "fork"] = [root |-> "fork", dir |-> t.dir, name |-> t.name, format |-> t.format]
      BY <3>1
    <3> HIDE DEF g
    <3> QED BY <3>1, <3>2, <3>3
  <2>3. g \in DOMAIN files
    <3>1. \A v \in DOMAIN m.types : [v EXCEPT !.root = "solution"] \in DOMAIN files
      BY Zenon DEF Complete, TypesPresent
    <3> QED BY <1>3, <3>1
  <2> HIDE DEF g
  <2>4. g \in Others(files)
    <3>1. <<"types">> # <<>>
      OBVIOUS
    <3>2. g.root = "solution" /\ g.dir # <<>>
      BY <2>2, <3>1, Zenon
    <3> QED BY <1>8, <2>3, <3>2
  <2>5. ForkedFile(files, g) = [t EXCEPT !.root = "fork"]
    <3>1. ForkedFile(files, g) = [g EXCEPT !.root = "fork"]
      BY <2>2, <2>4, ForkedIs, Zenon
    <3> QED BY <2>2, <3>1, Zenon
  <2> QED BY <1>7, <2>4, <2>5
<1>10. ASSUME NEW o \in DOMAIN n.objects PROVE ForkedDir(disk, u, o.dir)
  <2>1. o.dir # <<>>
    BY <1>3, ObjectsListed DEF Listings
  <2>2. PICK g \in DOMAIN files : g.root = "solution" /\ g.dir = o.dir
    BY <1>3 DEF Complete, ObjectsPresent
  <2>3. g \in Others(files)
    BY <1>8, <2>1, <2>2
  <2>4. ForkedFile(files, g) \in Paths /\ ForkedFile(files, g).root = "fork" /\ ForkedFile(files, g).dir = o.dir
    BY <2>2, <2>3, ForkedIs
  <2> QED BY <1>7, <2>3, <2>4 DEF ForkedDir
<1>11. ForkStands(disk, u, n)
  BY <1>3, <1>6, <1>9, <1>10 DEF ForkStands
<1>12. AllRenamed(disk, u)
  <2> DEFINE S == {r \in ForkEdits : Renamed(r.file, r.contents)}
  <2>1. \A i \in DOMAIN s : s[i] \in S
    BY <1>2, <1>4, CopiesFacts, ElementOfSeq, LenProperties
  <2>2. \A i \in DOMAIN w : w[i] \in S
    <3>1. \A i \in DOMAIN w : w[i].contents \in {n, Empty}
      BY WrittenContents DEF w
    <3>2. n.kind # "component" /\ Empty.kind # "component"
      BY <1>3, KindFacts
    <3>3. \A i \in DOMAIN w : w[i] \in ForkEdits
      BY <1>3, ElementOfSeq, LenProperties
    <3> QED BY <3>1, <3>2, <3>3 DEF Renamed
  <2>3. \A i \in DOMAIN u : u[i] \in S
    <3> HIDE DEF S
    <3> QED BY <1>3, <1>4, <2>1, <2>2, EveryJoined
  <2>4. \A g \in DOMAIN disk : Renamed(g, disk[g])
    BY DEF Renamed
  <2> QED BY <2>3, <2>4 DEF AllRenamed
<1>13. EndsWithManifest(u)
  <2>1. Len(w) = 2 /\ w # <<>> /\ w[2].contents = n
    BY WrittenContents DEF w
  <2>2. \A i \in DOMAIN s : s[i] \in ForkEdits
    BY <1>4, ElementOfSeq, LenProperties
  <2>3. \A i \in DOMAIN w : w[i] \in ForkEdits
    BY <1>3, ElementOfSeq, LenProperties
  <2>4. Len(u) = Len(s) + 2 /\ u[Len(s) + 2] = w[2]
    <3>1. w # <<>> => Len(u) = Len(s) + Len(w) /\ u[Len(s) + Len(w)] = w[Len(w)]
      BY <1>3, <1>4, <2>2, <2>3, EveryJoined, Zenon
    <3> QED BY <2>1, <3>1
  <2>5. u[Len(u)].contents = n
    BY <2>1, <2>4
  <2> QED BY <1>3, <2>5 DEF EndsWithManifest
<1> QED BY <1>2, <1>11, <1>12, <1>13 DEF Forking

\* A command that starts is not a fork, but for ForkSolution.
LEMMA NotForked ==
    ASSUME NEW command, NEW changes, Run(command, changes), command # <<"fork">>
    PROVE  ForkInv'
BY DEF Run, ForkInv

LEMMA CommandsDiffer ==
    /\ <<"init">> # <<"fork">> /\ <<"bump">> # <<"fork">> /\ <<"fix">> # <<"fork">>
    /\ <<"tag">> # <<"fork">> /\ <<"refused">> # <<"fork">>
    /\ \A kind, name : <<kind, name>> # <<"fork">>
OBVIOUS

LEMMA ForkInvNext == FilesInv /\ ForkInv /\ [Next]_vars => ForkInv'
<1> SUFFICES ASSUME FilesInv, ForkInv, [Next]_vars PROVE ForkInv'
  OBVIOUS
<1>1. CASE InitSolution \/ Bump \/ Fix \/ SetTag
  BY <1>1, NotForked, CommandsDiffer DEF InitSolution, Bump, Fix, SetTag
<1>2. CASE RemoveType \/ Package
  BY <1>2 DEF RemoveType, Package, ForkInv, Idle
<1>3. CASE ForkSolution
  <2>1. PICK files \in {disk, Unzipped(bundle)} :
            \E m \in GetManifest(files, "solution") :
                Complete(files, m, "solution") /\ Run(<<"fork">>, ForkChanges(files, m))
    BY <1>3 DEF ForkSolution
  <2>2. PICK m \in GetManifest(files, "solution") :
            Complete(files, m, "solution") /\ Run(<<"fork">>, ForkChanges(files, m))
    BY <2>1
  <2>3. GoodFiles(files) /\ GoodFiles(disk)
    BY DEF FilesInv, FilesTypes
  <2>4. \A f \in DOMAIN disk : f.root # "fork"
    BY <1>3 DEF ForkSolution
  <2>5. Forking(disk, ForkChanges(files, m))
    BY <2>2, <2>3, <2>4, ForkStart
  <2>6. disk' = disk /\ running'.changes = ForkChanges(files, m)
    BY <2>2 DEF Run
  <2>7. Forking(disk', running'.changes)
    BY <2>5, <2>6
  <2> QED BY <2>7 DEF ForkInv
<1>4. ASSUME NEW kind \in Kinds, NEW name \in Entities, NEW format \in Formats,
             Extend(kind, name, format) \/ ExtendRefused(kind, name)
      PROVE  ForkInv'
  BY <1>4, NotForked, CommandsDiffer DEF Extend, ExtendRefused
<1>5. CASE Step
  <2>1. running.changes # <<>> /\ running.changes \in Seq(Changes)
    BY <1>5 DEF Step, Idle, FilesInv, FilesTypes
  <2>2. /\ disk' = Apply(disk, Head(running.changes)) /\ running'.changes = Tail(running.changes)
        /\ running'.command = running.command /\ crashed' = crashed
    BY <1>5 DEF Step, FilesInv, FilesTypes
  <2>3. Forking(disk, running.changes) => Forking(disk', running'.changes)
    BY <2>1, <2>2, ForkingStep
  <2> QED BY <2>1, <2>2, <2>3 DEF ForkInv
<1>6. CASE LoseFile \/ Crash
  <2>1. crashed \in Nat /\ crashed' = crashed + 1
    BY <1>6 DEF LoseFile, Crash, FilesInv, FilesTypes
  <2>2. crashed' # 0
    BY <2>1
  <2> QED BY <2>2 DEF ForkInv
<1>7. CASE UNCHANGED vars
  BY <1>7 DEF vars, ForkInv
<1> QED BY <1>1, <1>2, <1>3, <1>4, <1>5, <1>6, <1>7 DEF Next

\* The step that ends a command makes its last change, or loses it.
LEMMA EndingStep ==
    ASSUME FilesInv, [Next]_vars, NEW command, Ends(command)
    PROVE  /\ running.changes \in Seq(Changes) /\ running.changes # <<>> /\ Len(running.changes) = 1
           /\ running.command = command
           /\ \/ Step /\ disk' = Apply(disk, Head(running.changes)) /\ Tail(running.changes) = <<>>
              \/ LoseFile
<1>1. running \in [command : Seq(Word), changes : Seq(Changes)]
  BY DEF FilesInv, FilesTypes
<1>2. running.changes \in Seq(Changes) /\ Len(running.changes) = 1 /\ running.command = command /\ running'.command # <<>>
  BY <1>1 DEF Ends
<1>3. running.changes # <<>> /\ running'.changes = <<>>
  BY <1>2, EmptySeq DEF Ends
<1>4. \A c, changes : ~ Run(c, changes)
  BY <1>3 DEF Run, Idle
<1>5. ~ InitSolution /\ ~ Bump /\ ~ Fix /\ ~ SetTag /\ ~ ForkSolution
  BY <1>4 DEF InitSolution, Bump, Fix, SetTag, ForkSolution
<1>6. \A kind \in Kinds, name \in Entities, format \in Formats :
          ~ Extend(kind, name, format) /\ ~ ExtendRefused(kind, name)
  BY <1>4 DEF Extend, ExtendRefused
<1>7. ~ RemoveType /\ ~ Package /\ ~ UNCHANGED vars
  BY <1>3 DEF RemoveType, Package, Idle, vars
<1>8. ~ Crash
  BY <1>1, <1>2 DEF Crash
<1>9. Step \/ LoseFile
  BY <1>5, <1>6, <1>7, <1>8 DEF Next
<1>10. CASE Step
  <2>1. disk' = Apply(disk, Head(running.changes)) /\ running'.changes = Tail(running.changes)
    BY <1>1, <1>10 DEF Step
  <2> QED BY <1>2, <1>3, <1>10, <2>1
<1> QED BY <1>2, <1>3, <1>9, <1>10

-----------------------------------------------------------------------------
(* What extend is to add                                                   *)

\* No two components of a sequence have the same name; those of two sequences have different ones.
Distinct(s) == \A i, j \in DOMAIN s : i # j => s[i].name # s[j].name
Apart(s, t) == \A i \in DOMAIN s, j \in DOMAIN t : s[i].name # t[j].name
Has(s, c) == \E i \in DOMAIN s : s[i] = c

LEMMA DistinctJoined ==
    ASSUME NEW S, NEW s \in Seq(S), NEW t \in Seq(S)
    PROVE  /\ Distinct(s) /\ Distinct(t) /\ Apart(s, t) => Distinct(s \o t)
           /\ \A u : Apart(s, u) /\ Apart(t, u) => Apart(s \o t, u)
           /\ \A u : Apart(u, s) /\ Apart(u, t) => Apart(u, s \o t)
           /\ \A c : Has(s, c) \/ Has(t, c) => Has(s \o t, c)
<1> DEFINE v == s \o t
<1>1. /\ Len(s) \in Nat /\ Len(t) \in Nat /\ DOMAIN s = 1..Len(s) /\ DOMAIN t = 1..Len(t)
      /\ DOMAIN v = 1..(Len(s) + Len(t))
      /\ \A i \in 1..Len(s) : v[i] = s[i]
      /\ \A i \in 1..Len(t) : v[Len(s) + i] = t[i]
  BY JoinedIs
<1> HIDE DEF v
<1>2. ASSUME NEW i \in DOMAIN v
      PROVE  (i \in DOMAIN s /\ v[i] = s[i]) \/ (i - Len(s) \in DOMAIN t /\ v[i] = t[i - Len(s)])
  <2>1. ASSUME i \notin 1..Len(s) PROVE i - Len(s) \in DOMAIN t /\ v[i] = t[i - Len(s)]
    <3>1. i - Len(s) \in 1..Len(t) /\ Len(s) + (i - Len(s)) = i
      BY <1>1, <1>2, <2>1
    <3> QED BY <1>1, <3>1
  <2> QED BY <1>1, <2>1
<1>3. ASSUME Distinct(s), Distinct(t), Apart(s, t), NEW i \in DOMAIN v, NEW j \in DOMAIN v, i # j
      PROVE  v[i].name # v[j].name
  <2>1. i - Len(s) # j - Len(s)
    BY <1>1, <1>3
  <2>2. CASE i \in DOMAIN s /\ v[i] = s[i] /\ j \in DOMAIN s /\ v[j] = s[j]
    BY <1>3, <2>2 DEF Distinct
  <2>3. CASE i \in DOMAIN s /\ v[i] = s[i] /\ j - Len(s) \in DOMAIN t /\ v[j] = t[j - Len(s)]
    BY <1>3, <2>3 DEF Apart
  <2>4. CASE i - Len(s) \in DOMAIN t /\ v[i] = t[i - Len(s)] /\ j \in DOMAIN s /\ v[j] = s[j]
    BY <1>3, <2>4 DEF Apart
  <2>5. CASE i - Len(s) \in DOMAIN t /\ v[i] = t[i - Len(s)] /\ j - Len(s) \in DOMAIN t /\ v[j] = t[j - Len(s)]
    BY <1>3, <2>1, <2>5 DEF Distinct
  <2> QED BY <1>2, <2>2, <2>3, <2>4, <2>5
<1>4. ASSUME NEW u
      PROVE  /\ Apart(s, u) /\ Apart(t, u) => Apart(v, u)
             /\ Apart(u, s) /\ Apart(u, t) => Apart(u, v)
  BY <1>2 DEF Apart
<1>5. ASSUME NEW c PROVE Has(s, c) \/ Has(t, c) => Has(v, c)
  <2>1. \A i \in DOMAIN s : i \in DOMAIN v /\ v[i] = s[i]
    BY <1>1
  <2>2. \A i \in DOMAIN t : Len(s) + i \in DOMAIN v /\ v[Len(s) + i] = t[i]
    BY <1>1
  <2> QED BY <2>1, <2>2 DEF Has
<1>6. Distinct(s) /\ Distinct(t) /\ Apart(s, t) => Distinct(v)
  BY <1>3 DEF Distinct
<1> QED BY <1>4, <1>5, <1>6 DEF v

\* The name of a template has its part first.
LEMMA TemplateNames ==
    ASSUME NEW e
    PROVE  /\ \A part, refs : Template(part, e, refs).name = <<part, e>>
           /\ \A part, refs : Template(part, e, refs).refs = {<<r, e>> : r \in refs}
           /\ \A part, other : part # other => <<part, e>> # <<other, e>>
<1>1. \A part, refs : Template(part, e, refs).name = <<part, e>> /\ Template(part, e, refs).refs = {<<r, e>> : r \in refs}
  BY DEF Template, Component
<1>2. ASSUME NEW part, NEW other, <<part, e>> = <<other, e>> PROVE part = other
  <2>1. <<part, e>>[1] = part /\ <<other, e>>[1] = other
    OBVIOUS
  <2> QED BY <1>2, <2>1
<1>3. \A part, other : part # other => <<part, e>> # <<other, e>>
  BY <1>2, Zenon
<1> QED BY <1>1, <1>3, Zenon

ListParts == <<"ecpList", "GridTable", "ecpRelationshipMap", "ecpListInspector">>
DetailsParts == <<"ecpDetails", "DetailsList", "ecpDetailsInspector">>

LEMMA ListTemplatesAre ==
    ASSUME NEW e
    PROVE  /\ DOMAIN ListTemplates(e) = DOMAIN ListParts
           /\ \A i \in DOMAIN ListParts : ListTemplates(e)[i].name = <<ListParts[i], e>>
           /\ Distinct(ListTemplates(e))
           /\ \A part \in {"InspectorWidget", "ecpName"} : \A i \in DOMAIN ListTemplates(e) : ListTemplates(e)[i].name # <<part, e>>
<1> DEFINE s == ListTemplates(e)
<1>1. DOMAIN s = 1..4 /\ DOMAIN ListParts = 1..4
  BY DEF ListTemplates, ListParts
<1>2. /\ s[1].name = <<"ecpList", e>> /\ s[2].name = <<"GridTable", e>>
      /\ s[3].name = <<"ecpRelationshipMap", e>> /\ s[4].name = <<"ecpListInspector", e>>
  BY TemplateNames DEF ListTemplates, EcpList, DashuiGridTable, RelationshipMap, EcpListInspector
<1>3. /\ ListParts[1] = "ecpList" /\ ListParts[2] = "GridTable"
      /\ ListParts[3] = "ecpRelationshipMap" /\ ListParts[4] = "ecpListInspector"
  BY DEF ListParts
<1> HIDE DEF s
<1>4. \A i \in 1..4 : s[i].name = <<ListParts[i], e>>
  BY <1>2, <1>3
<1>5. \A i, j \in 1..4 : i # j => ListParts[i] # ListParts[j]
  BY <1>3
<1>6. \A i \in 1..4 : ListParts[i] # "InspectorWidget" /\ ListParts[i] # "ecpName"
  BY <1>3
<1>7. Distinct(s)
  BY <1>1, <1>4, <1>5, TemplateNames DEF Distinct
<1>8. \A part \in {"InspectorWidget", "ecpName"} : \A i \in DOMAIN s : s[i].name # <<part, e>>
  BY <1>1, <1>4, <1>6, TemplateNames
<1> QED BY <1>1, <1>4, <1>7, <1>8 DEF s

LEMMA DetailsTemplatesAre ==
    ASSUME NEW e
    PROVE  /\ DOMAIN DetailsTemplates(e) = DOMAIN DetailsParts
           /\ \A i \in DOMAIN DetailsParts : DetailsTemplates(e)[i].name = <<DetailsParts[i], e>>
           /\ Distinct(DetailsTemplates(e))
           /\ \A part \in {"InspectorWidget", "ecpName"} : \A i \in DOMAIN DetailsTemplates(e) : DetailsTemplates(e)[i].name # <<part, e>>
<1> DEFINE s == DetailsTemplates(e)
<1>1. DOMAIN s = 1..3 /\ DOMAIN DetailsParts = 1..3
  BY DEF DetailsTemplates, DetailsParts
<1>2. /\ s[1].name = <<"ecpDetails", e>> /\ s[2].name = <<"DetailsList", e>>
      /\ s[3].name = <<"ecpDetailsInspector", e>>
  BY TemplateNames DEF DetailsTemplates, EcpDetails, DashuiDetailsList, EcpDetailsInspector
<1>3. DetailsParts[1] = "ecpDetails" /\ DetailsParts[2] = "DetailsList" /\ DetailsParts[3] = "ecpDetailsInspector"
  BY DEF DetailsParts
<1> HIDE DEF s
<1>4. \A i \in 1..3 : s[i].name = <<DetailsParts[i], e>>
  BY <1>2, <1>3
<1>5. \A i, j \in 1..3 : i # j => DetailsParts[i] # DetailsParts[j]
  BY <1>3
<1>6. \A i \in 1..3 : DetailsParts[i] # "InspectorWidget" /\ DetailsParts[i] # "ecpName"
  BY <1>3
<1>7. Distinct(s)
  BY <1>1, <1>4, <1>5, TemplateNames DEF Distinct
<1>8. \A part \in {"InspectorWidget", "ecpName"} : \A i \in DOMAIN s : s[i].name # <<part, e>>
  BY <1>1, <1>4, <1>6, TemplateNames
<1> QED BY <1>1, <1>4, <1>7, <1>8 DEF s

LEMMA SharedFacts ==
    ASSUME NEW m, NEW kind \in TemplateKinds, NEW e \in Entities
    PROVE  /\ SharedTemplates(m, e) \in Seq(OfKind(kind, e)) /\ Distinct(SharedTemplates(m, e))
           /\ \A i \in DOMAIN SharedTemplates(m, e) : SharedTemplates(m, e)[i].name \in {<<"InspectorWidget", e>>, <<"ecpName", e>>}
           /\ Has(SharedTemplates(m, e), EcpInspectorWidget(e)) \/ <<"InspectorWidget", e>> \in Defined(m, "dashui:template")
<1> DEFINE S == OfKind(kind, e)
           v == EcpInspectorWidget(e)
           w == EcpName(e)
           s == IfMissing(m, v)
           t == IfMissing(m, w)
<1>1. v \in S /\ w \in S /\ v.name = <<"InspectorWidget", e>> /\ w.name = <<"ecpName", e>>
  BY TemplatesAre, TemplateNames DEF EcpInspectorWidget, EcpName
<1>2. v.name # w.name
  BY <1>1, TemplateNames
<1> HIDE DEF S, v, w
<1>3. \A c \in S : <<c>> \in Seq(S) /\ DOMAIN <<c>> = {1} /\ <<c>>[1] = c
  OBVIOUS
<1>4. s \in {<<>>, <<v>>} /\ t \in {<<>>, <<w>>}
  BY DEF IfMissing
<1>5. s = <<v>> \/ <<"InspectorWidget", e>> \in Defined(m, "dashui:template")
  BY <1>1 DEF IfMissing
<1>6. DOMAIN <<>> = {} /\ <<>> \in Seq(S)
  BY EmptySeq
<1> HIDE DEF s, t
<1>7. s \in Seq(S) /\ t \in Seq(S) /\ (\A i \in DOMAIN s : i = 1 /\ s[i] = v) /\ (\A i \in DOMAIN t : i = 1 /\ t[i] = w)
  BY <1>1, <1>3, <1>4, <1>6
<1>8. Distinct(s) /\ Distinct(t) /\ Apart(s, t)
  BY <1>2, <1>7 DEF Distinct, Apart
<1>9. Has(s, v) \/ <<"InspectorWidget", e>> \in Defined(m, "dashui:template")
  BY <1>1, <1>3, <1>5 DEF Has
<1> DEFINE u == s \o t
<1>10. u \in Seq(S) /\ Distinct(u) /\ (Has(s, v) => Has(u, v))
  BY <1>7, <1>8, DistinctJoined, Joined
<1>11. \A i \in DOMAIN u : u[i] \in {v, w}
  <2>1. \A i \in DOMAIN s : s[i] \in {v, w}
    BY <1>7
  <2>2. \A i \in DOMAIN t : t[i] \in {v, w}
    BY <1>7
  <2> QED BY <1>7, <2>1, <2>2, EveryJoined
<1>12. SharedTemplates(m, e) = u
  BY DEF SharedTemplates, s, t, v, w
<1> HIDE DEF u
<1> QED BY <1>1, <1>9, <1>10, <1>11, <1>12 DEF S, v

\* No component is made twice, and what is made whatever is there already is made.
LEMMA NewFacts ==
    ASSUME NEW m, NEW kind \in ComponentKinds, NEW name \in Entities
    PROVE  /\ Distinct(NewComponents(m, kind, name))
           /\ \A c \in Own(kind, name) : Has(NewComponents(m, kind, name), c)
           /\ kind \in TemplateKinds => \/ Has(NewComponents(m, kind, name), EcpInspectorWidget(name))
                                        \/ <<"InspectorWidget", name>> \in Defined(m, "dashui:template")
<1> DEFINE new == NewComponents(m, kind, name)
<1>1. CASE kind \in TemplateKinds
  <2> DEFINE s == IF kind = "ecpList" THEN ListTemplates(name) ELSE DetailsTemplates(name)
             t == SharedTemplates(m, name)
             S == OfKind(kind, name)
  <2>1. new = s \o t
    BY <1>1 DEF NewComponents, NewTemplates, TemplateKinds
  <2>2. s \in Seq(S) /\ t \in Seq(S) /\ Distinct(t)
    BY <1>1, TemplatesAre, SharedFacts
  <2>3. Distinct(s) /\ \A part \in {"InspectorWidget", "ecpName"} : \A i \in DOMAIN s : s[i].name # <<part, name>>
    BY ListTemplatesAre, DetailsTemplatesAre
  <2>4. Apart(s, t)
    BY <1>1, <2>3, SharedFacts DEF Apart
  <2>5. Own(kind, name) = ToSet(s)
    BY <1>1 DEF Own, TemplateKinds
  <2>6. \A c \in Own(kind, name) : Has(s, c)
    BY <2>5 DEF ToSet, Has
  <2>7. Has(t, EcpInspectorWidget(name)) \/ <<"InspectorWidget", name>> \in Defined(m, "dashui:template")
    BY <1>1, SharedFacts
  <2> HIDE DEF s, t, S, new
  <2>8. Distinct(s \o t) /\ \A c : Has(s, c) \/ Has(t, c) => Has(s \o t, c)
    BY <2>2, <2>3, <2>4, DistinctJoined
  <2> QED BY <2>1, <2>6, <2>7, <2>8 DEF new
<1>2. CASE kind \notin TemplateKinds
  <2> DEFINE c == Sole(kind, name)
  <2>1. new = <<c>> /\ NewComponents(InitialManifest("json"), kind, name) = <<c>>
    BY <1>2, SoleIs
  <2>2. Own(kind, name) = ToSet(<<c>>)
    BY <1>2, <2>1 DEF Own, TemplateKinds
  <2> HIDE DEF c, new
  <2>3. DOMAIN <<c>> = {1} /\ <<c>>[1] = c
    OBVIOUS
  <2>4. Distinct(<<c>>) /\ \A d \in ToSet(<<c>>) : Has(<<c>>, d)
    BY <2>3 DEF Distinct, ToSet, Has
  <2> QED BY <1>2, <2>1, <2>2, <2>4 DEF new
<1> QED BY <1>1, <1>2

\* What a new component refers to is new too, or the inspector that the templates of an entity share.
LEMMA OwnRefs ==
    ASSUME NEW kind \in ComponentKinds, NEW name \in Entities, NEW c \in Own(kind, name), NEW r \in c.refs
    PROVE  \/ \E d \in Own(kind, name) : d.name = r
           \/ kind \in TemplateKinds /\ r = <<"InspectorWidget", name>>
<1>1. CASE kind = "ecpList"
  <2> DEFINE s == ListTemplates(name)
  <2>1. Own(kind, name) = ToSet(s)
    BY <1>1 DEF Own
  <2>2. DOMAIN s = 1..4
    BY DEF ListTemplates
  <2>3. /\ s[1].refs = {<<p, name>> : p \in {"GridTable"}} /\ s[2].refs = {} /\ s[3].refs = {}
        /\ s[4].refs = {<<p, name>> : p \in {"InspectorWidget"}} /\ s[2].name = <<"GridTable", name>>
    <3>1. s[1] = EcpList(name) /\ s[2] = DashuiGridTable(name) /\ s[3] = RelationshipMap(name) /\ s[4] = EcpListInspector(name)
      BY DEF ListTemplates
    <3>2. EcpList(name).refs = {<<p, name>> : p \in {"GridTable"}}
      BY TemplateNames DEF EcpList
    <3>3. EcpListInspector(name).refs = {<<p, name>> : p \in {"InspectorWidget"}}
      BY TemplateNames DEF EcpListInspector
    <3>4. DashuiGridTable(name).refs = {} /\ DashuiGridTable(name).name = <<"GridTable", name>>
      BY DEF DashuiGridTable, Template, Component
    <3>5. RelationshipMap(name).refs = {}
      BY DEF RelationshipMap, Template, Component
    <3> HIDE DEF s
    <3> QED BY <3>1, <3>2, <3>3, <3>4, <3>5
  <2> HIDE DEF s
  <2>4. PICK i \in 1..4 : c = s[i]
    BY <2>1, <2>2 DEF ToSet
  <2>5. s[2] \in Own(kind, name)
    BY <2>1, <2>2 DEF ToSet
  <2>6. i \in {1, 2, 3, 4}
    BY <2>4
  <2> QED BY <1>1, <2>3, <2>4, <2>5, <2>6 DEF TemplateKinds
<1>2. CASE kind = "ecpDetails"
  <2> DEFINE s == DetailsTemplates(name)
  <2>1. Own(kind, name) = ToSet(s)
    BY <1>2 DEF Own
  <2>2. DOMAIN s = 1..3
    BY DEF DetailsTemplates
  <2>3. /\ s[1].refs = {<<p, name>> : p \in {"DetailsList"}} /\ s[2].refs = {}
        /\ s[3].refs = {<<p, name>> : p \in {"InspectorWidget"}} /\ s[2].name = <<"DetailsList", name>>
    <3>1. s[1] = EcpDetails(name) /\ s[2] = DashuiDetailsList(name) /\ s[3] = EcpDetailsInspector(name)
      BY DEF DetailsTemplates
    <3>2. EcpDetails(name).refs = {<<p, name>> : p \in {"DetailsList"}}
      BY TemplateNames DEF EcpDetails
    <3>3. EcpDetailsInspector(name).refs = {<<p, name>> : p \in {"InspectorWidget"}}
      BY TemplateNames DEF EcpDetailsInspector
    <3>4. DashuiDetailsList(name).refs = {} /\ DashuiDetailsList(name).name = <<"DetailsList", name>>
      BY DEF DashuiDetailsList, Template, Component
    <3> HIDE DEF s
    <3> QED BY <3>1, <3>2, <3>3, <3>4
  <2> HIDE DEF s
  <2>4. PICK i \in 1..3 : c = s[i]
    BY <2>1, <2>2 DEF ToSet
  <2>5. s[2] \in Own(kind, name)
    BY <2>1, <2>2 DEF ToSet
  <2>6. i \in {1, 2, 3}
    BY <2>4
  <2> QED BY <1>2, <2>3, <2>4, <2>5, <2>6 DEF TemplateKinds
<1>3. CASE kind \notin TemplateKinds
  <2> DEFINE d == Sole(kind, name)
  <2>1. NewComponents(InitialManifest("json"), kind, name) = <<d>> /\ d.refs = {}
    BY <1>3, SoleIs
  <2>2. Own(kind, name) = ToSet(<<d>>)
    BY <1>3, <2>1 DEF Own, TemplateKinds
  <2> HIDE DEF d
  <2>3. c = d
    BY <2>2 DEF ToSet
  <2> QED BY <2>1, <2>3
<1> QED BY <1>1, <1>2, <1>3 DEF TemplateKinds

-----------------------------------------------------------------------------
(* What extend delivers                                                    *)

\* In the end the component is in the folder of its kind.
Put(files, changes, kind, name, c) ==
    \E f \in Paths : f.root = "solution" /\ f.dir = Folder(kind, name) /\ Becomes(files, changes, f, c)
ListedAs(m, kind, name, c) == \E o \in DOMAIN m.objects : o.dir = Folder(kind, name) /\ o.type = c.type

\* What extend makes whatever is there: Own, which no file has a part in.
Made(kind, name) ==
    CASE kind = "ecpList"    -> ToSet(ListTemplates(name))
      [] kind = "ecpDetails" -> ToSet(DetailsTemplates(name))
      [] OTHER -> ToSet(<<Sole(kind, name)>>)

LEMMA MadeIs ==
    ASSUME NEW kind \in ComponentKinds, NEW name \in Entities
    PROVE  Made(kind, name) = Own(kind, name)
<1>1. CASE kind \in TemplateKinds
  BY <1>1 DEF Made, Own, TemplateKinds
<1>2. CASE kind \notin TemplateKinds
  <2>1. NewComponents(InitialManifest("json"), kind, name) = <<Sole(kind, name)>>
    BY <1>2, SoleIs
  <2> QED BY <1>2, <2>1 DEF Made, Own, TemplateKinds
<1> QED BY <1>1, <1>2

\* In the end what extend makes is there and in the manifest m, and so is what it refers to.
Delivered(files, changes, kind, name, m) ==
    /\ m \in Manifests /\ Standing(files, changes, m)
    /\ \A c \in Made(kind, name) :
           /\ Put(files, changes, kind, name, c) /\ ListedAs(m, kind, name, c)
           /\ \A r \in c.refs : \E d \in Components : d.name = r /\ Put(files, changes, kind, name, d)
Delivers(files, changes, kind, name) == \E m : Delivered(files, changes, kind, name, m)

DeliverInv ==
    \A kind \in ComponentKinds, name \in Entities :
        running.command = <<kind, name>> /\ running.changes # <<>> => Delivers(disk, running.changes, kind, name)

LEMMA OwnAre ==
    ASSUME NEW kind \in ComponentKinds, NEW name \in Entities
    PROVE  Own(kind, name) \subseteq Components
<1> DEFINE new == NewComponents(InitialManifest("json"), kind, name)
<1>1. new \in Seq(OfKind(kind, name)) /\ \A c \in Own(kind, name) : Has(new, c)
  BY NewComponentsAre, NewFacts
<1> HIDE DEF new
<1>2. \A i \in DOMAIN new : new[i] \in OfKind(kind, name)
  BY <1>1, ElementOfSeq, LenProperties
<1> QED BY <1>1, <1>2 DEF Has, OfKind

LEMMA DeliveredStep ==
    ASSUME NEW files, NEW changes \in Seq(Changes), changes # <<>>, NEW kind, NEW name,
           Delivers(files, changes, kind, name)
    PROVE  Delivers(Apply(files, Head(changes)), Tail(changes), kind, name)
<1>1. PICK m : Delivered(files, changes, kind, name, m)
  BY DEF Delivers
<1>2. Standing(Apply(files, Head(changes)), Tail(changes), m)
  BY <1>1, StandingStep DEF Delivered, Standing
<1>3. ASSUME NEW c, Put(files, changes, kind, name, c)
      PROVE  Put(Apply(files, Head(changes)), Tail(changes), kind, name, c)
  BY <1>3, BecomesStep DEF Put
<1> QED BY <1>1, <1>2, <1>3 DEF Delivers, Delivered

\* What a step of extend has put into the folder T of the components.
Adding(m, kind, name, format, T, edit) ==
    LET new == NewComponents(m, kind, name)
    IN  /\ Standing(disk, edit.changes, edit.manifest)
        /\ \A i \in T : /\ Becomes(disk, edit.changes, ComponentFile(new[i], kind, name, format), new[i])
                        /\ ListedAs(edit.manifest, kind, name, new[i])
        /\ \A g : g.root = "solution" /\ g.dir = Folder(kind, name) /\ (\A i \in T : g # ComponentFile(new[i], kind, name, format)) => Spares(edit.changes, g)

LEMMA AddingStart ==
    ASSUME NEW m \in Manifests, Standing(disk, <<>>, m),
           NEW kind \in ComponentKinds, NEW name \in Entities, NEW format
    PROVE  Adding(m, kind, name, format, {}, Start(m, kind))
<1>1. Folder(kind, name) \notin {<<>>, NamespaceDir}
  BY FolderOfKind
<1>2. CASE Fmm(kind)
  <2>1. Start(m, kind) = NamespaceEdit(m)
    BY <1>2 DEF Start
  <2>2. /\ Standing(disk, NamespaceEdit(m).changes, NamespaceEdit(m).manifest)
        /\ \A g : g.root = "solution" /\ g.dir \notin {<<>>, NamespaceDir} => Spares(NamespaceEdit(m).changes, g)
    BY NamespaceStanding
  <2> QED BY <1>1, <2>1, <2>2 DEF Adding
<1>3. CASE ~ Fmm(kind)
  <2>1. Start(m, kind).changes = <<>> /\ Start(m, kind).manifest = m
    BY <1>3 DEF Start, Edit
  <2>2. \A g : Spares(<<>>, g)
    BY DEF Spares
  <2> QED BY <2>1, <2>2 DEF Adding
<1> QED BY <1>2, <1>3

LEMMA AddingMore ==
    ASSUME NEW m \in Manifests, NEW kind \in ComponentKinds, NEW name \in Entities, NEW format \in Formats,
           NEW edit \in EditsFrom(m),
           NEW T \in SUBSET DOMAIN NewComponents(m, kind, name), NEW i \in T,
           Adding(m, kind, name, format, T \ {i}, edit)
    PROVE  Adding(m, kind, name, format, T, Added(m, kind, name, format, edit, NewComponents(m, kind, name)[i]))
<1> DEFINE new == NewComponents(m, kind, name)
           c   == new[i]
           f   == ComponentFile(c, kind, name, format)
           s   == edit.changes
           n   == AddCompDef(edit.manifest, c.type, Folder(kind, name))
           t   == AddedChanges(kind, name, format, edit.manifest, c)
           File1(j) == ComponentFile(new[j], kind, name, format)
<1>1. \A j \in T : new[j] \in OfKind(kind, name)
  BY NewComponentsAre, ElementOfSeq, LenProperties
<1>2. \A j \in T : File1(j).name = new[j].name /\ File1(j) \notin SolutionManifests
  BY <1>1, AddedFile
<1>3. \A j \in T \ {i} : new[j].name # c.name
  BY NewFacts DEF Distinct
<1>4. \A j \in T \ {i} : File1(j) # f
  BY <1>2, <1>3
<1>5. /\ Added(m, kind, name, format, edit, c) = Edit(n, s \o t)
      /\ s \in Seq(Changes) /\ t \in Seq(Changes) /\ LastIs(t, f, c)
      /\ \A g : g \notin SolutionManifests /\ g # f => Spares(t, g)
      /\ DOMAIN n.objects = DOMAIN edit.manifest.objects \cup {[type |-> c.type, dir |-> Folder(kind, name)]}
  BY <1>1, AddedMore
<1>6. Standing(disk, s \o t, n)
  BY <1>1, AddedStanding DEF Adding
<1>7. /\ \A j \in T \ {i} : Becomes(disk, s, File1(j), new[j]) /\ ListedAs(edit.manifest, kind, name, new[j])
      /\ \A g : g.root = "solution" /\ g.dir = Folder(kind, name) /\ (\A j \in T \ {i} : g # File1(j)) => Spares(s, g)
  BY DEF Adding
<1>8. ListedAs(n, kind, name, c) /\ \A d : ListedAs(edit.manifest, kind, name, d) => ListedAs(n, kind, name, d)
  <2> DEFINE o == [type |-> c.type, dir |-> Folder(kind, name)]
  <2>1. o.type = c.type /\ o.dir = Folder(kind, name) /\ DOMAIN n.objects = DOMAIN edit.manifest.objects \cup {o}
    BY <1>5
  <2> HIDE DEF n, o
  <2> QED BY <2>1 DEF ListedAs
<1>9. \A g : g.dir = Folder(kind, name) => g \notin SolutionManifests
  <2>1. \A g \in SolutionManifests : g.dir = <<>>
    BY DEF SolutionManifests, ManifestFile, File
  <2> QED BY <2>1, FolderOfKind
<1>10. ASSUME NEW j \in T PROVE Becomes(disk, s \o t, File1(j), new[j]) /\ ListedAs(n, kind, name, new[j])
  <2>1. CASE j = i
    BY <1>5, <1>8, <2>1, BecomesJoined
  <2>2. CASE j # i
    <3>1. Becomes(disk, s, File1(j), new[j]) /\ Spares(t, File1(j)) /\ ListedAs(n, kind, name, new[j])
      BY <1>2, <1>4, <1>5, <1>7, <1>8, <2>2
    <3> HIDE DEF s, t, new, File1
    <3> QED BY <1>5, <3>1, BecomesJoined
  <2> QED BY <2>1, <2>2
<1>11. ASSUME NEW g, g.root = "solution", g.dir = Folder(kind, name), \A j \in T : g # File1(j)
       PROVE  Spares(s \o t, g)
  <2>1. Spares(s, g) /\ Spares(t, g)
    BY <1>5, <1>7, <1>9, <1>11
  <2> HIDE DEF s, t
  <2> QED BY <1>5, <2>1, SparesJoined
<1> DEFINE added == Added(m, kind, name, format, edit, c)
           st    == s \o t
<1>12. added = Edit(n, st)
  BY <1>5
<1> HIDE DEF n, added, st
<1>13. added.changes = st /\ added.manifest = n
  BY <1>12 DEF Edit
<1>14. Standing(disk, added.changes, added.manifest)
  BY <1>6, <1>13 DEF st
<1>15. \A j \in T : Becomes(disk, added.changes, File1(j), new[j]) /\ ListedAs(added.manifest, kind, name, new[j])
  BY <1>10, <1>13 DEF st
<1>16. \A g : g.root = "solution" /\ g.dir = Folder(kind, name) /\ (\A j \in T : g # File1(j)) => Spares(added.changes, g)
  BY <1>11, <1>13 DEF st
<1>17. Adding(m, kind, name, format, T, added)
  BY <1>14, <1>15, <1>16 DEF Adding
<1> QED BY <1>17 DEF added

\* A template that the manifest's directories hold is in the folder of the entity in its name.
LEMMA SharedInspector ==
    ASSUME NEW m \in Manifests, GoodFiles(disk), NEW name \in Entities,
           <<"InspectorWidget", name>> \in Defined(m, "dashui:template")
    PROVE  \E f \in DOMAIN disk : /\ f \in Paths /\ f.root = "solution" /\ f.dir = <<"templates", name>>
                                  /\ f.name = <<"InspectorWidget", name>> /\ disk[f].name = <<"InspectorWidget", name>>
                                  /\ disk[f] \in Components
<1> DEFINE r == <<"InspectorWidget", name>>
<1>1. PICK f \in DOMAIN disk : /\ f.root = "solution" /\ f.dir \in ListedDirs(m, "dashui:template")
                               /\ disk[f].kind = "component" /\ disk[f].name = r
  BY DEF Defined
<1>2. f \in Paths /\ disk[f] \in Contents /\ Placed(f, disk[f])
  BY DEF GoodFiles, Fits
<1>3. disk[f] \in Components
  BY <1>1, <1>2, KindFacts DEF Contents
<1>4. PICK o \in DOMAIN m.objects : o.type = "dashui:template" /\ f.dir = o.dir
  BY <1>1 DEF ListedDirs
<1>5. PICK e \in Entities : f.dir = <<"templates", e>>
  BY <1>4, ObjectsListed DEF Listings
<1>6. f.name = r /\ \E part \in Word : r = <<part, e>>
  BY <1>1, <1>2, <1>3, <1>5 DEF Placed
<1>7. \A part : r = <<part, e>> => name = e
  <2>1. \A part : r[2] = name /\ <<part, e>>[2] = e
    OBVIOUS
  <2> QED BY <2>1
<1>8. e = name
  BY <1>6, <1>7
<1> QED BY <1>1, <1>2, <1>3, <1>5, <1>6, <1>8

LEMMA ComponentsDelivered ==
    ASSUME GoodFiles(disk), NEW m \in Manifests, Standing(disk, <<>>, m),
           NEW kind \in ComponentKinds, NEW name \in Entities, NEW format \in Formats
    PROVE  Delivers(disk, ComponentChanges(m, kind, name, format), kind, name)
<1> DEFINE new  == NewComponents(m, kind, name)
           Good == {p \in (SUBSET DOMAIN new) \X EditsFrom(m) : Adding(m, kind, name, format, p[1], p[2])}
<1>1. \A T \in SUBSET DOMAIN new, edit \in EditsFrom(m) :
          <<T, edit>> \in Good <=> Adding(m, kind, name, format, T, edit)
  OBVIOUS
<1>2. <<{}, Start(m, kind)>> \in Good
  BY <1>1, StartIs, AddingStart
<1>3. ASSUME NEW T \in SUBSET DOMAIN new, NEW i \in T, NEW edit \in EditsFrom(m), <<T \ {i}, edit>> \in Good
      PROVE  <<T, Added(m, kind, name, format, edit, new[i])>> \in Good
  <2>1. new[i] \in OfKind(kind, name)
    BY NewComponentsAre, ElementOfSeq, LenProperties
  <2>2. Adding(m, kind, name, format, T \ {i}, edit)
    BY <1>1, <1>3
  <2> DEFINE added == Added(m, kind, name, format, edit, new[i])
  <2>3. added \in EditsFrom(m)
    BY <2>1, AddedComponent
  <2>4. Adding(m, kind, name, format, T, added)
    BY <2>2, AddingMore
  <2> HIDE DEF added, Good, new
  <2> QED BY <1>1, <2>3, <2>4 DEF added
<1> HIDE DEF Good
<1>4. Grows(Good, m, kind, name, format)
  BY <1>2, <1>3 DEF Grows
<1>5. PICK edit \in EditsFrom(m) : ComponentChanges(m, kind, name, format) = edit.changes /\ <<DOMAIN new, edit>> \in Good
  BY <1>4, FoldedComponents, Zenon
<1> DEFINE s == edit.changes
           n == edit.manifest
           f(i) == ComponentFile(new[i], kind, name, format)
<1>6. /\ Standing(disk, s, n)
      /\ \A i \in DOMAIN new : Becomes(disk, s, f(i), new[i]) /\ ListedAs(n, kind, name, new[i])
      /\ \A g : g.root = "solution" /\ g.dir = Folder(kind, name) /\ (\A i \in DOMAIN new : g # f(i)) => Spares(s, g)
  BY <1>1, <1>5 DEF Adding
<1>7. \A i \in DOMAIN new : new[i] \in OfKind(kind, name)
  BY NewComponentsAre, ElementOfSeq, LenProperties
<1>8. \A i \in DOMAIN new : /\ f(i) \in Paths /\ f(i).root = "solution" /\ f(i).dir = Folder(kind, name)
                            /\ f(i).name = new[i].name /\ new[i] \in Components
  BY <1>7, AddedFile DEF OfKind
<1>9. n \in Manifests
  BY DEF EditsFrom, OfFormat
<1>10. /\ \A c \in Own(kind, name) : Has(new, c)
       /\ kind \in TemplateKinds => Has(new, EcpInspectorWidget(name)) \/ <<"InspectorWidget", name>> \in Defined(m, "dashui:template")
  BY NewFacts
<1> HIDE DEF new, s, n, f
<1>11. \A c : Has(new, c) => c \in Components /\ Put(disk, s, kind, name, c) /\ ListedAs(n, kind, name, c)
  BY <1>6, <1>8 DEF Has, Put
<1>12. ASSUME kind \in TemplateKinds
       PROVE  \E d \in Components : d.name = <<"InspectorWidget", name>> /\ Put(disk, s, kind, name, d)
  <2>1. CASE Has(new, EcpInspectorWidget(name))
    <3>1. EcpInspectorWidget(name).name = <<"InspectorWidget", name>>
      BY TemplateNames DEF EcpInspectorWidget
    <3> QED BY <1>11, <2>1, <3>1
  <2>2. CASE <<"InspectorWidget", name>> \in Defined(m, "dashui:template")
    <3>1. PICK g \in DOMAIN disk : /\ g \in Paths /\ g.root = "solution" /\ g.dir = <<"templates", name>>
                                   /\ g.name = <<"InspectorWidget", name>> /\ disk[g].name = <<"InspectorWidget", name>>
                                   /\ disk[g] \in Components
      BY <2>2, SharedInspector
    <3>2. g.dir = Folder(kind, name)
      BY <1>12, <3>1, FolderOfKind
    <3>3. CASE \E i \in DOMAIN new : g = f(i)
      <4>1. PICK i \in DOMAIN new : g = f(i)
        BY <3>3
      <4>2. new[i] \in Components /\ new[i].name = <<"InspectorWidget", name>> /\ Has(new, new[i])
        BY <1>8, <3>1, <4>1 DEF Has
      <4> QED BY <1>11, <4>2
    <3>4. CASE \A i \in DOMAIN new : g # f(i)
      <4>1. Spares(s, g)
        BY <1>6, <3>1, <3>2, <3>4
      <4>2. disk[g] # Gone
        BY <3>1, KindFacts DEF Contents
      <4>3. Becomes(disk, s, g, disk[g])
        BY <4>1, <4>2 DEF Becomes, At
      <4> QED BY <3>1, <3>2, <4>3 DEF Put
    <3> QED BY <3>3, <3>4
  <2> QED BY <1>10, <1>12, <2>1, <2>2
<1>13. ASSUME NEW c \in Own(kind, name), NEW r \in c.refs
       PROVE  \E d \in Components : d.name = r /\ Put(disk, s, kind, name, d)
  <2>1. CASE \E d \in Own(kind, name) : d.name = r
    BY <1>10, <1>11, <2>1
  <2>2. CASE kind \in TemplateKinds /\ r = <<"InspectorWidget", name>>
    BY <1>12, <2>2
  <2> QED BY <2>1, <2>2, OwnRefs
<1>14. Delivered(disk, s, kind, name, n)
  BY <1>6, <1>9, <1>10, <1>11, <1>13, MadeIs DEF Delivered
<1> QED BY <1>5, <1>14 DEF Delivers, s

LEMMA ExtendCommands ==
    /\ \A kind, name : <<"init">> # <<kind, name>> /\ <<"bump">> # <<kind, name>> /\ <<"fix">> # <<kind, name>>
    /\ \A kind, name : <<"tag">> # <<kind, name>> /\ <<"refused">> # <<kind, name>> /\ <<"fork">> # <<kind, name>>
    /\ \A k, n, kind, name : <<k, n>> = <<kind, name>> => k = kind /\ n = name
    /\ \A kind, name : <<kind, name>> # <<>>
OBVIOUS

\* A command that starts is not extend, but for Extend.
LEMMA NotExtended ==
    ASSUME NEW command, NEW changes, Run(command, changes), \A kind, name : command # <<kind, name>>
    PROVE  DeliverInv'
BY DEF Run, DeliverInv

LEMMA ExtendDelivered ==
    ASSUME FilesInv, NEW kind \in Kinds, NEW name \in Entities, NEW format \in Formats, Extend(kind, name, format)
    PROVE  DeliverInv'
<1>1. PICK m \in GetManifest(disk, "solution") :
          IF kind = "knowledge" THEN Run(<<kind, name>>, KnowledgeChanges(m, name, format))
          ELSE Run(<<kind, name>>, ComponentChanges(m, kind, name, format))
  BY DEF Extend
<1>2. GoodFiles(disk) /\ m \in Manifests /\ Standing(disk, <<>>, m)
  BY StandingAtStart DEF FilesInv, FilesTypes
<1>3. CASE kind = "knowledge"
  <2>1. running'.command = <<kind, name>>
    BY <1>1, <1>3 DEF Run
  <2>2. \A k \in ComponentKinds, n \in Entities : running'.command # <<k, n>>
    BY <1>3, <2>1, ExtendCommands DEF ComponentKinds
  <2> QED BY <2>2 DEF DeliverInv
<1>4. CASE kind # "knowledge"
  <2>1. running'.command = <<kind, name>> /\ disk' = disk /\ running'.changes = ComponentChanges(m, kind, name, format)
    BY <1>1, <1>4 DEF Run
  <2>2. kind \in ComponentKinds
    BY <1>4 DEF ComponentKinds
  <2>3. Delivers(disk', running'.changes, kind, name)
    BY <1>2, <2>1, <2>2, ComponentsDelivered
  <2>4. ASSUME NEW k \in ComponentKinds, NEW n \in Entities, running'.command = <<k, n>>
        PROVE  Delivers(disk', running'.changes, k, n)
    <3>1. k = kind /\ n = name
      BY <2>1, <2>4, ExtendCommands
    <3> QED BY <2>3, <3>1
  <2> QED BY <2>4 DEF DeliverInv
<1> QED BY <1>3, <1>4

LEMMA DeliverInvNext == FilesInv /\ DeliverInv /\ [Next]_vars => DeliverInv'
<1> SUFFICES ASSUME FilesInv, DeliverInv, [Next]_vars PROVE DeliverInv'
  OBVIOUS
<1>1. CASE InitSolution \/ Bump \/ Fix \/ SetTag \/ ForkSolution
  BY <1>1, NotExtended, ExtendCommands DEF InitSolution, Bump, Fix, SetTag, ForkSolution
<1>2. CASE RemoveType \/ Package
  BY <1>2 DEF RemoveType, Package, DeliverInv, Idle
<1>3. ASSUME NEW kind \in Kinds, NEW name \in Entities, NEW format \in Formats,
             Extend(kind, name, format) \/ ExtendRefused(kind, name)
      PROVE  DeliverInv'
  BY <1>3, ExtendDelivered, NotExtended, ExtendCommands DEF ExtendRefused
<1>4. CASE Step
  <2>1. running.changes # <<>> /\ running.changes \in Seq(Changes)
    BY <1>4 DEF Step, Idle, FilesInv, FilesTypes
  <2>2. /\ disk' = Apply(disk, Head(running.changes)) /\ running'.changes = Tail(running.changes)
        /\ running'.command = running.command
    BY <1>4 DEF Step, FilesInv, FilesTypes
  <2>3. ASSUME NEW kind \in ComponentKinds, NEW name \in Entities, running'.command = <<kind, name>>
        PROVE  Delivers(disk', running'.changes, kind, name)
    <3>1. Delivers(disk, running.changes, kind, name)
      BY <2>1, <2>2, <2>3 DEF DeliverInv
    <3> QED BY <2>1, <2>2, <3>1, DeliveredStep
  <2> QED BY <2>3 DEF DeliverInv
<1>5. CASE LoseFile
  <2>1. running'.command = <<"fork">>
    BY <1>5 DEF LoseFile, FilesInv, FilesTypes
  <2> QED BY <2>1, ExtendCommands DEF DeliverInv
<1>6. CASE Crash
  <2>1. running'.changes = <<>>
    BY <1>6 DEF Crash, FilesInv, FilesTypes
  <2> QED BY <2>1 DEF DeliverInv
<1>7. CASE UNCHANGED vars
  BY <1>7 DEF vars, DeliverInv, Delivers, Delivered, Put, Standing, StandingIn, Becomes, At
<1> QED BY <1>1, <1>2, <1>3, <1>4, <1>5, <1>6, <1>7 DEF Next

-----------------------------------------------------------------------------
(* Theorems                                                                *)

(* Every variable stays in its domain, whatever commands are run, in any   *)
(* order, and wherever they die; what is listed as the file of a type is   *)
(* a file for types (extend.go).                                           *)
THEOREM FilesTyped == Spec => []TypeOK
<1>1. ASSUME FilesInv PROVE TypeOK
  <2>1. crashed \in 0..MaxCrashes /\ started \in 0..MaxCommands /\ GoodFiles(disk)
    BY <1>1 DEF FilesInv, FilesTypes
  <2>2. ASSUME NEW f \in DOMAIN disk
        PROVE  /\ f.root \in {"solution", "fork", "temp"}
               /\ disk[f].kind \in {"empty", "tag", "component", "manifest"}
               /\ disk[f].kind = "manifest" => \A t \in DOMAIN disk[f].types : t.dir = <<"types">>
    <3>1. f \in Paths /\ disk[f] \in Contents
      BY <2>1 DEF GoodFiles
    <3>2. f.root \in {"solution", "fork", "temp"}
      BY <3>1 DEF Paths, Roots
    <3>3. disk[f].kind \in {"empty", "tag", "component", "manifest"}
      BY <3>1, KindFacts DEF Contents
    <3>4. disk[f].kind = "manifest" => disk[f] \in Manifests
      BY <3>1, KindFacts DEF Contents
    <3>5. \A m \in Manifests : \A t \in DOMAIN m.types : t \in TypeFiles
      BY DEF Manifests, BagsOver
    <3>6. \A t \in TypeFiles : t.dir = <<"types">>
      BY DEF TypeFiles
    <3> QED BY <3>2, <3>3, <3>4, <3>5, <3>6
  <2> QED BY <2>1, <2>2 DEF TypeOK
<1>2. FilesInv => TypeOK
  BY <1>1
<1> QED BY <1>2, FilesInvariant, PTL

(* Two manifests in the directory of a solution describe the same          *)
(* solution: only a fix makes a second one (fix.go:140), and no command    *)
(* changes either of two, since each refuses to choose between them.       *)
THEOREM TwoManifestsAlwaysAgree == Spec => []TwoManifestsAgree
<1>1. ASSUME FilesInv PROVE TwoManifestsAgree
  <2> DEFINE M == ManifestsIn(disk, "solution")
  <2>1. SUFFICES ASSUME M = {ManifestFile("solution", f) : f \in Formats},
                        NEW m \in {disk[f] : f \in M} \ {Empty}, NEW n \in {disk[f] : f \in M} \ {Empty}
                 PROVE  Core(m) = Core(n)
    BY DEF TwoManifestsAgree, Core
  <2>2. CASE Edits(disk, running.changes)
    <3>1. PICK format \in Formats : M \subseteq {ManifestFile("solution", format)}
      BY <2>2 DEF Edits
    <3> HIDE DEF M
    <3> QED BY <3>1
  <2>3. CASE Describes(disk, running.changes)
    <3>1. PICK core : \A f \in M : disk[f] = Empty \/ Core(disk[f]) = core
      BY <2>3 DEF Describes
    <3> HIDE DEF M
    <3> QED BY <3>1
  <2> QED BY <1>1, <2>2, <2>3 DEF FilesInv, ManifestsOK
<1>2. FilesInv => TwoManifestsAgree
  BY <1>1
<1> QED BY <1>2, FilesInvariant, PTL

(* A fix that dies leaves the manifest that it found, in its place or in   *)
(* the backup: the backup is written first and the old manifest, if the    *)
(* format changes, removed last (fix.go:84).                               *)
THEOREM FixAlwaysKeepsOriginal == Spec => FixKeepsOriginal
<1>1. ASSUME FilesInv, [Next]_vars, running.command = <<"fix">>, running'.command = <<>>
      PROVE  \/ GetManifest(disk', "solution") # {}
             \/ Backup \in DOMAIN disk' /\ disk'[Backup] # Empty
  <2>1. Crash
    <3>1. ASSUME NEW command, NEW changes, Run(command, changes) PROVE command = <<>>
      BY <1>1, <3>1 DEF Run
    <3>2. <<"init">> # <<>> /\ <<"bump">> # <<>> /\ <<"fix">> # <<>> /\ <<"refused">> # <<>> /\ <<"tag">> # <<>>
          /\ <<"fork">> # <<>> /\ \A kind, name : <<kind, name>> # <<>>
      OBVIOUS
    <3>3. ~ InitSolution /\ ~ Bump /\ ~ Fix /\ ~ SetTag /\ ~ ForkSolution
      BY <3>1, <3>2 DEF InitSolution, Bump, Fix, SetTag, ForkSolution
    <3>4. \A kind \in Kinds, name \in Entities, format \in Formats :
              ~ Extend(kind, name, format) /\ ~ ExtendRefused(kind, name)
      BY <3>1, <3>2 DEF Extend, ExtendRefused
    <3>5. ~ RemoveType /\ ~ Package /\ ~ UNCHANGED vars
      BY <1>1, <3>2 DEF RemoveType, Package, vars
    <3>6. ~ Step /\ ~ LoseFile
      BY <1>1, <3>2 DEF Step, LoseFile, FilesInv, FilesTypes
    <3> QED BY <1>1, <3>3, <3>4, <3>5, <3>6 DEF Next
  <2>2. FixOK(disk, running.changes) /\ running.changes # <<>> /\ disk' = disk
    BY <1>1, <2>1 DEF FilesInv, Crash, Idle
  <2>3. BackedUp(disk) => disk[Backup] # Empty
    BY KindFacts DEF BackedUp
  <2> QED BY <2>2, <2>3 DEF FixOK, BackedUp
<1>2. FilesInv /\ [Next]_vars =>
          [running.command = <<"fix">> /\ running'.command = <<>> =>
               \/ GetManifest(disk', "solution") # {}
               \/ Backup \in DOMAIN disk' /\ disk'[Backup] # Empty]_vars
  BY <1>1
<1> QED BY <1>2, FilesInvariant, PTL DEF Spec, FixKeepsOriginal

(* As long as no command dies and no file is removed, the solution between *)
(* two commands has one manifest, all that it lists is there, and no       *)
(* directory is listed twice for a type, unless the type is looked for as  *)
(* a template (extend.go:408, fix.go:132).                                 *)
THEOREM ManifestAlwaysHolds == Spec => []ManifestHolds
<1>1. Init => FilesInv /\ HoldsInv
  BY TypesInit, HoldsStart
<1>2. FilesInv /\ HoldsInv /\ [Next]_vars => FilesInv' /\ HoldsInv'
  BY FilesNext, HoldsNext
<1>3. ASSUME HoldsInv PROVE ManifestHolds
  <2> SUFFICES ASSUME Idle, crashed = 0, disk # <<>>
               PROVE  \E m \in GetManifest(disk, "solution") :
                          /\ \A o \in DOMAIN m.objects : \E f \in DOMAIN disk : f.root = "solution" /\ f.dir = o.dir
                          /\ \A o \in DOMAIN m.objects : ~ LookedForAsTemplate(m, o.type) => m.objects[o] = 1
    BY DEF ManifestHolds
  <2>1. PICK m : Holds(disk, <<>>, m)
    BY <1>3 DEF HoldsInv, Fresh, Whole, Idle
  <2> QED BY <2>1, HoldsAtEnd DEF Once
<1>4. FilesInv /\ HoldsInv => ManifestHolds
  BY <1>3
<1> QED BY <1>1, <1>2, <1>4, PTL DEF Spec

(* A fork that ends, none of its files lost, is a solution: it has one     *)
(* manifest, under the new name, and all that the manifest lists, and no   *)
(* component in it has the name of the solution that it was made from      *)
(* (processor.go:125).                                                     *)
THEOREM ForkAlwaysComplete == Spec => ForkIsComplete
<1>1. Init => FilesInv /\ ForkInv
  <2>1. Init => ForkInv
    BY DEF Init, ForkInv
  <2> QED BY <2>1, TypesInit
<1>2. FilesInv /\ ForkInv /\ [Next]_vars => FilesInv' /\ ForkInv'
  BY FilesNext, ForkInvNext
<1>3. ASSUME FilesInv, ForkInv, [Next]_vars, Ends(<<"fork">>), crashed = 0
      PROVE  \E m \in GetManifest(disk', "fork") :
                 /\ m.solution = Fork /\ Complete(disk', m, "fork")
                 /\ \A f \in DOMAIN disk' : f.root = "fork" /\ disk'[f].kind = "component" =>
                        disk'[f].solution = Fork /\ f.name # <<Original>>
  <2>1. /\ running.changes \in Seq(Changes) /\ running.changes # <<>> /\ Len(running.changes) = 1
        /\ running.command = <<"fork">>
        /\ \/ Step /\ disk' = Apply(disk, Head(running.changes)) /\ Tail(running.changes) = <<>>
           \/ LoseFile
    BY <1>3, EndingStep
  <2>2. Forking(disk, running.changes)
    BY <1>3, <2>1 DEF ForkInv
  <2>3. ~ LoseFile
    <3>1. Head(running.changes) = running.changes[Len(running.changes)]
      BY <2>1, TailFacts
    <3>2. Head(running.changes).contents \in Manifests
      BY <2>1, <2>2, <3>1 DEF Forking, EndsWithManifest
    <3> QED BY <3>2, KindFacts DEF LoseFile
  <2>4. Forking(disk', <<>>)
    BY <2>1, <2>2, <2>3, ForkingStep
  <2> QED BY <2>4, ForkingAtEnd
<1>4. FilesInv /\ ForkInv /\ [Next]_vars =>
          [Ends(<<"fork">>) /\ crashed = 0 =>
               \E m \in GetManifest(disk', "fork") :
                   /\ m.solution = Fork /\ Complete(disk', m, "fork")
                   /\ \A f \in DOMAIN disk' : f.root = "fork" /\ disk'[f].kind = "component" =>
                          disk'[f].solution = Fork /\ f.name # <<Original>>]_vars
  BY <1>3
<1> QED BY <1>1, <1>2, <1>4, PTL DEF Spec, ForkIsComplete

(* When extend ends, what it was to add is there and is listed in the      *)
(* manifest, and so is every template that one of them is an instance of,  *)
(* although the templates that the two kinds share are made only if they   *)
(* are missing, and whatever commands died before (extend.go:344).         *)
THEOREM ExtendAlwaysDelivers == Spec => ExtendDelivers
<1> DEFINE Present(kind, name) ==
               {disk'[f] : f \in {f \in DOMAIN disk' : f.root = "solution" /\ f.dir = Folder(kind, name)}} \ {Empty}
           Done(kind, name) ==
               \A c \in Own(kind, name) :
                   /\ c \in Present(kind, name)
                   /\ c.refs \subseteq {d.name : d \in Present(kind, name)}
                   /\ \E m \in GetManifest(disk', "solution") : \E o \in DOMAIN m.objects :
                          o.dir = Folder(kind, name) /\ o.type = c.type
<1>1. Init => FilesInv /\ DeliverInv
  <2>1. Init => DeliverInv
    BY DEF Init, DeliverInv
  <2> QED BY <2>1, TypesInit
<1>2. FilesInv /\ DeliverInv /\ [Next]_vars => FilesInv' /\ DeliverInv'
  BY FilesNext, DeliverInvNext
<1>3. ASSUME FilesInv, DeliverInv, [Next]_vars,
             NEW kind \in Kinds \ {"knowledge"}, NEW name \in Entities, Ends(<<kind, name>>)
      PROVE  Done(kind, name)
  <2>1. /\ running.changes \in Seq(Changes) /\ running.changes # <<>> /\ running.command = <<kind, name>>
        /\ \/ Step /\ disk' = Apply(disk, Head(running.changes)) /\ Tail(running.changes) = <<>>
           \/ LoseFile
    BY <1>3, EndingStep
  <2>2. kind \in ComponentKinds
    BY DEF ComponentKinds
  <2>3. Delivers(disk, running.changes, kind, name)
    BY <1>3, <2>1, <2>2 DEF DeliverInv
  <2>4. disk' = Apply(disk, Head(running.changes)) /\ Tail(running.changes) = <<>>
    BY <2>1, ExtendCommands DEF LoseFile
  <2>5. Delivers(disk', <<>>, kind, name)
    BY <2>1, <2>3, <2>4, DeliveredStep
  <2>6. PICK m : Delivered(disk', <<>>, kind, name, m)
    BY <2>5 DEF Delivers
  <2>7. GetManifest(disk', "solution") = {m}
    BY <2>6, StandingAtEnd DEF Delivered, Standing
  <2>8. ASSUME NEW c \in Components, Put(disk', <<>>, kind, name, c) PROVE c \in Present(kind, name)
    <3>1. c # Gone /\ c # Empty
      BY KindFacts DEF Contents
    <3>2. PICK f \in Paths : f.root = "solution" /\ f.dir = Folder(kind, name) /\ At(disk', f, c)
      BY <2>8, BecomesAtEnd DEF Put
    <3> QED BY <3>1, <3>2 DEF At
  <2> HIDE DEF Present
  <2>0. Made(kind, name) = Own(kind, name)
    BY <2>2, MadeIs
  <2>9. ASSUME NEW c \in Own(kind, name)
        PROVE  /\ c \in Present(kind, name)
               /\ c.refs \subseteq {d.name : d \in Present(kind, name)}
               /\ \E n \in GetManifest(disk', "solution") : \E o \in DOMAIN n.objects :
                      o.dir = Folder(kind, name) /\ o.type = c.type
    <3>1. c \in Present(kind, name)
      BY <2>0, <2>2, <2>6, <2>8, OwnAre DEF Delivered
    <3>2. \A r \in c.refs : \E d \in Present(kind, name) : d.name = r
      BY <2>0, <2>6, <2>8 DEF Delivered
    <3>3. ListedAs(m, kind, name, c)
      BY <2>0, <2>6 DEF Delivered
    <3> QED BY <2>7, <3>1, <3>2, <3>3 DEF ListedAs
  <2> QED BY <2>9
<1> HIDE DEF Done
<1>4. FilesInv /\ DeliverInv /\ [Next]_vars =>
          [\A kind \in Kinds \ {"knowledge"}, name \in Entities : Ends(<<kind, name>>) => Done(kind, name)]_vars
  BY <1>3
<1> QED BY <1>1, <1>2, <1>4, PTL DEF Spec, ExtendDelivers, Done, Present
=============================================================================
