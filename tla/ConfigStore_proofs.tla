------------------------- MODULE ConfigStore_proofs -------------------------
(***************************************************************************)
(* Proofs about ConfigStore, for any number of processes and profiles.     *)
(***************************************************************************)
EXTENDS ConfigStore, TLAPS

\* A configuration whose current profile exists, if it has profiles.
Sound(m) == m \in Config /\ (Existing(m) # {} => m.current \in Existing(m))

-----------------------------------------------------------------------------
(* What the operations make of a configuration                             *)

\* Without profiles a configuration is sound.
LEMMA EmptySound == Sound(Empty)
BY DEF Sound, Empty, Existing, Config, Values

\* updateContext gives the file a current profile if it had none.
LEMMA UpdateContextSound ==
    ASSUME NEW m, Sound(m), NEW n \in Names, NEW v \in Processes
    PROVE  Sound(UpdateContext(m, n, v)) /\ UpdateContext(m, n, v).current # NoName
<1> DEFINE u == UpdateContext(m, n, v)
<1>1. m \in Config /\ m.profiles \in [Names -> Values] /\ m.current \in Names \cup {NoName}
  BY DEF Sound, Config
<1>2. u.profiles = [m.profiles EXCEPT ![n] = v]
  BY <1>1 DEF UpdateContext, Config
<1>3. u.current = IF Existing(m) = {} THEN n ELSE m.current
  BY <1>1 DEF UpdateContext, Config
<1>4. u \in Config
  BY <1>1 DEF UpdateContext, Config, Values
<1>5. v # Absent
  BY ValuesAssumption
<1> HIDE DEF u
<1>6. Existing(u) = Existing(m) \cup {n}
  BY <1>1, <1>2, <1>5 DEF Existing
<1> QED
  BY <1>1, <1>3, <1>4, <1>6, NamesAssumption DEF Sound, Existing, u

\* The upgrade of the schema keeps the profiles and the choice among them.
LEMMA UpgradedSound ==
    ASSUME NEW m, Sound(m)
    PROVE  /\ Sound(Upgraded(m))
           /\ HasLegacy(m) => Upgraded(m).current # NoName
<1> DEFINE u == Upgraded(m)
<1>1. m \in Config /\ m.profiles \in [Names -> Values] /\ m.current \in Names \cup {NoName}
  BY DEF Sound, Config
<1>2. u.profiles = [n \in Names |-> IF m.profiles[n] = Legacy THEN Original ELSE m.profiles[n]]
  BY <1>1 DEF Upgraded, Config
<1>3. u.current = m.current
  BY <1>1 DEF Upgraded, Config
<1>4. u \in Config
  BY <1>1 DEF Upgraded, Config, Values
<1>5. Absent # Original /\ Absent # Legacy
  BY ValuesAssumption
<1> HIDE DEF u
<1>6. Existing(u) = Existing(m)
  BY <1>1, <1>2, <1>5 DEF Existing
<1>7. HasLegacy(m) => Existing(m) # {}
  BY <1>5 DEF HasLegacy, Existing
<1> QED
  BY <1>3, <1>4, <1>6, <1>7, NamesAssumption DEF Sound, Existing, u

-----------------------------------------------------------------------------
(* The inductive invariant                                                 *)

\* Every process has sound profiles in memory, and so does the file, whatever the order in
\* which they are written and wherever a write stops.
AllSound ==
    /\ Sound(file.config) /\ Sound(last)
    /\ \A p \in Processes : Sound(memory[p]) /\ base[p] \in Config

\* The commands that take the name of a profile have one.
HaveTarget ==
    \A p \in Processes : command[p] \in {"create", "use", "delete"} => target[p] \in Names

StoreInv == TypeOK /\ AllSound /\ HaveTarget

LEMMA InitStoreInv == Init => StoreInv
<1> SUFFICES ASSUME Init PROVE StoreInv
  OBVIOUS
<1>1. file \in Contents /\ Sound(file.config)
  <2>1. PICK v \in {Original, Legacy}, ns \in SUBSET Names :
          \E cur \in IF ns = {} THEN {NoName} ELSE ns :
               file = IF ns = {} THEN Unreadable
                      ELSE Readable([profiles |-> [n \in Names |-> IF n \in ns THEN v ELSE Absent],
                                     current |-> cur])
    BY DEF Init
  <2>2. CASE ns = {}
    BY <2>1, <2>2, EmptySound DEF Unreadable, Contents, Sound
  <2>3. CASE ns # {}
    <3> DEFINE f == [n \in Names |-> IF n \in ns THEN v ELSE Absent]
    <3>1. PICK cur \in ns : file = Readable([profiles |-> f, current |-> cur])
      BY <2>1, <2>3
    <3>2. [profiles |-> f, current |-> cur] \in Config
      BY DEF Config, Values
    <3>3. v # Absent
      BY ValuesAssumption
    <3>4. Existing([profiles |-> f, current |-> cur]) = ns
      BY <3>3 DEF Existing
    <3> QED
      BY <3>1, <3>2, <3>4 DEF Readable, Contents, Sound
  <2> QED
    BY <2>2, <2>3
<1>2. AllSound
  BY <1>1, EmptySound DEF Init, AllSound, Sound
<1>3. TypeOK
  BY <1>1, EmptySound DEF Init, TypeOK, Commands, Sound
<1> QED
  BY <1>2, <1>3 DEF StoreInv, HaveTarget, Init

\* A name for the profile to work on is a profile's name.
LEMMA CurrentProfileNamed ==
    ASSUME StoreInv, NEW p \in Processes
    PROVE  CurrentProfileName(p) \in Names
BY NamesAssumption DEF StoreInv, TypeOK, CurrentProfileName, Config

\* The start of a write of something sound.
LEMMA UpdateKeepsStoreInv ==
    ASSUME StoreInv, NEW p \in Processes, NEW m, Sound(m), m.current # NoName,
           NEW next \in {"loaded", "ready", "done"},
           UpdateConfigFile(p, m, next), UNCHANGED <<last, base>>,
           command' \in [Processes -> Commands],
           target' \in [Processes -> Names \cup {NoName}],
           active' \in [Processes -> Names \cup {NoName}],
           HaveTarget'
    PROVE  StoreInv'
<1>1. file' \in Contents /\ Sound(file'.config)
  BY EmptySound DEF UpdateConfigFile, Readable, Contents, Sound
<1>2. memory' \in [Processes -> Config] /\ \A q \in Processes : Sound(memory'[q])
  BY DEF StoreInv, AllSound, TypeOK, UpdateConfigFile, Sound
<1>3. AllSound'
  BY <1>1, <1>2 DEF StoreInv, AllSound, Sound
<1>4. TypeOK'
  BY <1>1, <1>2 DEF StoreInv, TypeOK, UpdateConfigFile, Goto
<1> QED
  BY <1>3, <1>4 DEF StoreInv

LEMMA NextStoreInv == StoreInv /\ [Next]_vars => StoreInv'
<1> SUFFICES ASSUME StoreInv, [Next]_vars PROVE StoreInv'
  OBVIOUS
<1>0. /\ memory \in [Processes -> Config] /\ command \in [Processes -> Commands]
      /\ target \in [Processes -> Names \cup {NoName}] /\ active \in [Processes -> Names \cup {NoName}]
      /\ pc \in [Processes -> {"new", "loaded", "ready", "writing", "done"}]
      /\ \A p \in Processes : Sound(memory[p]) /\ memory[p].profiles \in [Names -> Values]
  BY DEF StoreInv, TypeOK, AllSound, Config
<1>1. ASSUME NEW p \in Processes, ReadInConfig(p) PROVE StoreInv'
  <2>1. PICK c \in Commands, t \in Names \cup {NoName}, a \in Names \cup {NoName} :
           /\ (t # NoName) <=> (c \in {"create", "use", "delete"})
           /\ command' = [command EXCEPT ![p] = c]
           /\ target' = [target EXCEPT ![p] = t]
           /\ active' = [active EXCEPT ![p] = a]
           /\ Goto(p, IF file.readable \/ c \in Bypass THEN "loaded" ELSE "done")
    BY <1>1 DEF ReadInConfig
  <2>2. HaveTarget'
    BY <1>0, <2>1 DEF HaveTarget, StoreInv
  <2>3. AllSound'
    BY <1>1 DEF ReadInConfig, StoreInv, AllSound, TypeOK, Sound
  <2>4. TypeOK'
    BY <1>1, <2>1 DEF ReadInConfig, StoreInv, AllSound, TypeOK, Goto, Sound
  <2> QED
    BY <2>2, <2>3, <2>4 DEF StoreInv
<1>2. ASSUME NEW p \in Processes, CheckUpgradeScheme(p) PROVE StoreInv'
  BY <1>0, <1>2, UpdateKeepsStoreInv, UpgradedSound
  DEF CheckUpgradeScheme, StoreInv, history, invocation, HaveTarget
<1>3. ASSUME NEW p \in Processes, CheckProfile(p) PROVE StoreInv'
  BY <1>3 DEF CheckProfile, StoreInv, TypeOK, AllSound, HaveTarget, history, invocation, Goto
<1>4. ASSUME NEW p \in Processes, NEW n \in Names, Upsert(p, n) PROVE StoreInv'
  <2> DEFINE m == UpdateContext(memory[p], n, p)
  <2>1. Sound(m) /\ m.current # NoName
    BY <1>0, UpdateContextSound
  <2>2. /\ UpdateConfigFile(p, m, "ready") /\ UNCHANGED <<last, base, target>>
        /\ command' = [command EXCEPT ![p] = "api"] /\ active' = [active EXCEPT ![p] = n]
    BY <1>4 DEF Upsert, history
  <2>3. command' \in [Processes -> Commands] /\ active' \in [Processes -> Names \cup {NoName}]
    BY <1>0, <2>2 DEF Commands
  <2>4. HaveTarget'
    BY <1>0, <2>2 DEF StoreInv, HaveTarget
  <2> HIDE DEF m
  <2> QED
    BY <1>0, <2>1, <2>2, <2>3, <2>4, UpdateKeepsStoreInv
<1>5. ASSUME NEW p \in Processes, ConfigSet(p) PROVE StoreInv'
  BY <1>4, <1>5, CurrentProfileNamed DEF ConfigSet
<1>6. ASSUME NEW p \in Processes, ConfigCreate(p) PROVE StoreInv'
  BY <1>4, <1>6 DEF ConfigCreate, StoreInv, HaveTarget
<1>7. ASSUME NEW p \in Processes, ConfigUse(p) PROVE StoreInv'
  <2> DEFINE m == [memory[p] EXCEPT !.current = target[p]]
  <2>1. target[p] \in Existing(memory[p]) /\ target[p] \in Names
    BY <1>7 DEF ConfigUse, Existing
  <2>2. m.profiles = memory[p].profiles /\ m.current = target[p] /\ m \in Config
    BY <1>0, <2>1 DEF Config
  <2>3. UpdateConfigFile(p, m, "done") /\ UNCHANGED <<last, base, command, target, active>>
    BY <1>7 DEF ConfigUse, history, invocation
  <2> HIDE DEF m
  <2>4. Sound(m) /\ m.current # NoName
    BY <2>1, <2>2, NamesAssumption DEF Sound, Existing
  <2> QED
    BY <1>0, <2>3, <2>4, UpdateKeepsStoreInv DEF StoreInv, HaveTarget
<1>8. ASSUME NEW p \in Processes, ConfigDelete(p) PROVE StoreInv'
  <2> DEFINE m == [memory[p] EXCEPT !.profiles[target[p]] = Absent]
  <2>1. target[p] \in Existing(memory[p]) /\ target[p] \in Names
    BY <1>8 DEF ConfigDelete, Existing
  <2>2. /\ m.profiles = [memory[p].profiles EXCEPT ![target[p]] = Absent]
        /\ m.current = memory[p].current /\ m \in Config
    BY <1>0, <2>1 DEF Sound, Config, Values
  <2>3. PICK cur \in CASE m.current # target[p] -> {m.current}
                       [] m.current = target[p] /\ Existing(m) # {} -> Existing(m)
                       [] OTHER -> {Default} : UpdateConfigFile(p, [m EXCEPT !.current = cur], "done")
    BY <1>8 DEF ConfigDelete
  <2>4. UNCHANGED <<last, base, command, target, active>>
    BY <1>8 DEF ConfigDelete, history, invocation
  <2> HIDE DEF m
  <2>5. Existing(m) = Existing(memory[p]) \ {target[p]}
    BY <1>0, <2>1, <2>2 DEF Existing
  <2>6. memory[p].current \in Existing(memory[p])
    BY <1>0, <2>1 DEF Sound
  <2>7. cur \in Names /\ (Existing(m) # {} => cur \in Existing(m))
    BY <2>2, <2>3, <2>5, <2>6, NamesAssumption DEF Existing
  <2> DEFINE d == [m EXCEPT !.current = cur]
  <2>8. d.profiles = m.profiles /\ d.current = cur /\ d \in Config
    BY <2>2, <2>7 DEF Config
  <2>9. UpdateConfigFile(p, d, "done")
    BY <2>3
  <2> HIDE DEF d
  <2>10. Sound(d) /\ d.current # NoName
    BY <2>7, <2>8, NamesAssumption DEF Sound, Existing
  <2> QED
    BY <1>0, <2>4, <2>9, <2>10, UpdateKeepsStoreInv DEF StoreInv, HaveTarget
<1>9. ASSUME NEW p \in Processes, ReplaceCurrentContext(p) PROVE StoreInv'
  <2> DEFINE m == UpdateContext(memory[p], CurrentProfileName(p), p)
  <2>1. Sound(m) /\ m.current # NoName
    BY <1>0, CurrentProfileNamed, UpdateContextSound
  <2>2. UpdateConfigFile(p, m, "ready") /\ UNCHANGED <<last, base, command, target, active>>
    BY <1>9 DEF ReplaceCurrentContext, history, invocation
  <2> HIDE DEF m
  <2> QED
    BY <1>0, <2>1, <2>2, UpdateKeepsStoreInv DEF StoreInv, HaveTarget
<1>10. ASSUME NEW p \in Processes, WriteConfig(p) PROVE StoreInv'
  <2>1. file' \in Contents /\ Sound(file'.config)
    <3>1. CASE file' = Readable(memory[p])
      <4>1. file' = [config |-> memory[p], readable |-> TRUE]
        BY <3>1 DEF Readable
      <4>2. Sound(memory[p]) /\ memory[p] \in Config
        BY <1>0 DEF Sound
      <4>3. file'.config = memory[p]
        BY <4>1
      <4> QED
        BY <4>1, <4>2, <4>3 DEF Contents
    <3>2. CASE file' = Unreadable
      <4>1. file' = [config |-> Empty, readable |-> FALSE]
        BY <3>2 DEF Unreadable
      <4>2. Sound(Empty) /\ Empty \in Config
        BY EmptySound DEF Sound
      <4>3. file'.config = Empty
        BY <4>1
      <4> QED
        BY <4>1, <4>2, <4>3 DEF Contents
    <3> QED
      BY <1>10, <3>1, <3>2 DEF WriteConfig
  <2>2. AllSound'
    BY <1>0, <1>10, <2>1 DEF WriteConfig, StoreInv, AllSound, Sound
  <2>3. TypeOK'
    BY <1>0, <1>10, <2>1 DEF WriteConfig, StoreInv, AllSound, TypeOK, Goto, Sound, invocation
  <2> QED
    BY <1>10, <2>2, <2>3 DEF WriteConfig, StoreInv, HaveTarget, invocation
<1>11. ASSUME NEW p \in Processes, Exit(p) PROVE StoreInv'
  BY <1>11 DEF Exit, StoreInv, TypeOK, AllSound, HaveTarget, history, invocation, Goto
<1>12. CASE UNCHANGED vars
  BY <1>12 DEF vars, StoreInv, TypeOK, AllSound, HaveTarget, Sound
<1> QED
  BY <1>1, <1>2, <1>3, <1>5, <1>6, <1>7, <1>8, <1>9, <1>10, <1>11, <1>12
  DEF Next, Operation, Done

\* However many processes read and write the config file, every variable stays in its
\* domain and nothing without a current profile is ever written.
THEOREM StoreTypeCorrect == Spec => []TypeOK
<1>1. StoreInv => TypeOK
  BY DEF StoreInv
<1> QED
  BY <1>1, InitStoreInv, NextStoreInv, PTL DEF Spec

\* However many processes read and write the config file, with any commands and wherever
\* they die, a file with profiles names one of them as the current one.
THEOREM CurrentProfileAlwaysExists == Spec => []CurrentProfileExists
<1>1. StoreInv => CurrentProfileExists
  BY DEF StoreInv, AllSound, Sound, CurrentProfileExists
<1> QED
  BY <1>1, InitStoreInv, NextStoreInv, PTL DEF Spec

-----------------------------------------------------------------------------
(* What a write may change                                                 *)

LEMMA UpgradedProfile ==
    ASSUME NEW m \in Config, NEW n \in Names
    PROVE  Upgraded(m).profiles[n] = IF m.profiles[n] = Legacy THEN Original ELSE m.profiles[n]
BY DEF Upgraded, Config

\* CurrentProfileName and Operand by what they depend on.
NameOf(a, m) == IF a # NoName THEN a ELSE IF m.current # NoName THEN m.current ELSE Default
OperandOf(t, a, m) == IF t # NoName THEN t ELSE NameOf(a, m)

LEMMA NameIs == \A p : CurrentProfileName(p) = NameOf(active[p], memory[p])
<1> SUFFICES ASSUME NEW p PROVE CurrentProfileName(p) = NameOf(active[p], memory[p])
  OBVIOUS
<1>1. CASE active[p] # NoName
  BY <1>1 DEF CurrentProfileName, NameOf
<1>2. CASE active[p] = NoName /\ memory[p].current # NoName
  BY <1>2 DEF CurrentProfileName, NameOf
<1>3. CASE active[p] = NoName /\ memory[p].current = NoName
  BY <1>3 DEF CurrentProfileName, NameOf
<1> QED BY <1>1, <1>2, <1>3

\* What the command line says about the profile of a command, also when it has become an API call.
NamesIt(c, t, a) ==
    /\ c = "set" => t = NoName
    /\ c = "api" /\ t # NoName => a = t

\* The memory of a process is the file as it last read or wrote it; while it writes, all
\* profiles but that of the command are as they were, upgraded if need be.  The profile of the
\* command stays the same when "set" and "create" go on to log in.
WritesItsOwn(p) ==
    /\ pc[p] \in {"loaded", "ready"} => memory[p] = base[p]
    /\ pc[p] = "ready" \/ (pc[p] = "writing" /\ resume[p] = "ready") => ~HasLegacy(memory[p])
    /\ pc[p] = "writing" =>
           \A n \in Names \ {OperandOf(target[p], active[p], memory[p])} :
               memory[p].profiles[n] = Upgraded(base[p]).profiles[n]
    /\ NamesIt(command[p], target[p], active[p])

WriteInv == StoreInv /\ \A p \in Processes : WritesItsOwn(p)

\* What a process has in mind is its own.
LEMMA OthersWriteTheirOwn ==
    ASSUME NEW p \in Processes, WritesItsOwn(p), pc'[p] = pc[p], memory'[p] = memory[p],
           base'[p] = base[p], resume'[p] = resume[p], command'[p] = command[p],
           target'[p] = target[p], active'[p] = active[p]
    PROVE  WritesItsOwn(p)'
BY DEF WritesItsOwn

\* The start of a write that changes one profile.
LEMMA UpdateIsLocal ==
    ASSUME WriteInv, NEW p \in Processes, NEW m, NEW next \in {"loaded", "ready", "done"},
           UpdateConfigFile(p, m, next), UNCHANGED <<base, target>>,
           NEW c, command' = [command EXCEPT ![p] = c], NEW a, active' = [active EXCEPT ![p] = a],
           \A n \in Names \ {OperandOf(target[p], a, m)} :
               m.profiles[n] = Upgraded(base[p]).profiles[n],
           next = "ready" => ~HasLegacy(m),
           NamesIt(c, target[p], a)
    PROVE  \A q \in Processes : WritesItsOwn(q)'
<1> SUFFICES ASSUME NEW q \in Processes PROVE WritesItsOwn(q)'
  OBVIOUS
<1>1. /\ memory \in [Processes -> Config] /\ pc \in [Processes -> {"new", "loaded", "ready", "writing", "done"}]
      /\ resume \in [Processes -> {"loaded", "ready", "done"}]
      /\ command \in [Processes -> Commands] /\ active \in [Processes -> Names \cup {NoName}]
  BY DEF WriteInv, StoreInv, TypeOK
<1>2. CASE q # p
  BY <1>1, <1>2, OthersWriteTheirOwn DEF WriteInv, UpdateConfigFile, Goto
<1>3. CASE q = p
  <2>1. /\ memory'[p] = m /\ pc'[p] = "writing" /\ resume'[p] = next /\ base'[p] = base[p]
        /\ target'[p] = target[p] /\ command'[p] = c /\ active'[p] = a
    BY <1>1 DEF UpdateConfigFile, Goto
  <2> QED BY <1>3, <2>1 DEF WritesItsOwn
<1> QED BY <1>2, <1>3

\* updateContext changes one profile, and no other becomes one to upgrade.
LEMMA UpdateContextIsLocal ==
    ASSUME NEW m \in Config, ~HasLegacy(m), NEW n \in Names, NEW v \in Processes
    PROVE  /\ ~HasLegacy(UpdateContext(m, n, v))
           /\ \A k \in Names \ {n} :
                  UpdateContext(m, n, v).profiles[k] = Upgraded(m).profiles[k]
           /\ Existing(m) # {} => UpdateContext(m, n, v).current = m.current
<1> DEFINE u == UpdateContext(m, n, v)
<1>1. m.profiles \in [Names -> Values]
  BY DEF Config
<1>2. u.profiles = [m.profiles EXCEPT ![n] = v]
  BY <1>1 DEF UpdateContext, Config
<1>3. v # Legacy
  BY ValuesAssumption
<1>4. Existing(m) # {} => u.current = m.current
  BY DEF UpdateContext, Config
<1> HIDE DEF u
<1>5. ~HasLegacy(u)
  BY <1>1, <1>2, <1>3 DEF HasLegacy
<1>6. \A k \in Names \ {n} : u.profiles[k] = Upgraded(m).profiles[k]
  BY <1>1, <1>2, UpgradedProfile DEF HasLegacy
<1> QED BY <1>4, <1>5, <1>6 DEF u

LEMMA InitWriteInv == Init => WriteInv
BY InitStoreInv DEF Init, WriteInv, WritesItsOwn, NamesIt

LEMMA NextWriteInv == WriteInv /\ [Next]_vars => WriteInv'
<1> SUFFICES ASSUME WriteInv, [Next]_vars PROVE \A q \in Processes : WritesItsOwn(q)'
  BY NextStoreInv DEF WriteInv
<1>0. /\ memory \in [Processes -> Config] /\ base \in [Processes -> Config]
      /\ command \in [Processes -> Commands]
      /\ target \in [Processes -> Names \cup {NoName}] /\ active \in [Processes -> Names \cup {NoName}]
      /\ pc \in [Processes -> {"new", "loaded", "ready", "writing", "done"}]
      /\ resume \in [Processes -> {"loaded", "ready", "done"}]
      /\ \A q \in Processes : WritesItsOwn(q)
  BY DEF WriteInv, StoreInv, TypeOK
\* The commands and the profile named on the command line stay, unless a step says otherwise.
<1>a. command' = command => \A p \in Processes : command' = [command EXCEPT ![p] = command[p]]
  BY <1>0
<1>b. active' = active => \A p \in Processes : active' = [active EXCEPT ![p] = active[p]]
  BY <1>0
<1>1. ASSUME NEW p \in Processes, ReadInConfig(p), NEW q \in Processes PROVE WritesItsOwn(q)'
  <2>1. PICK c \in Commands, t \in Names \cup {NoName}, a \in Names \cup {NoName} :
           /\ (t # NoName) <=> (c \in {"create", "use", "delete"})
           /\ command' = [command EXCEPT ![p] = c]
           /\ target' = [target EXCEPT ![p] = t]
           /\ active' = [active EXCEPT ![p] = a]
           /\ Goto(p, IF file.readable \/ c \in Bypass THEN "loaded" ELSE "done")
    BY <1>1 DEF ReadInConfig
  <2>2. PICK l \in {"loaded", "done"} : pc' = [pc EXCEPT ![p] = l]
    BY <2>1 DEF Goto
  <2>3. /\ memory' = [memory EXCEPT ![p] = file.config] /\ base' = [base EXCEPT ![p] = file.config]
        /\ resume' = resume
    BY <1>1 DEF ReadInConfig
  <2>4. CASE q = p
    BY <1>0, <2>1, <2>2, <2>3, <2>4 DEF WritesItsOwn, NamesIt
  <2>5. CASE q # p
    BY <1>0, <2>1, <2>2, <2>3, <2>5, OthersWriteTheirOwn
  <2> QED BY <2>4, <2>5
<1>2. ASSUME NEW p \in Processes, CheckUpgradeScheme(p) PROVE \A q \in Processes : WritesItsOwn(q)'
  <2>1. /\ UpdateConfigFile(p, Upgraded(memory[p]), "loaded")
        /\ UNCHANGED <<base, target, command, active>> /\ memory[p] = base[p]
    BY <1>0, <1>2 DEF CheckUpgradeScheme, history, invocation, WritesItsOwn
  <2>2. NamesIt(command[p], target[p], active[p])
    BY <1>0 DEF WritesItsOwn
  <2>3. \A n \in Names \ {OperandOf(target[p], active[p], Upgraded(memory[p]))} :
            Upgraded(memory[p]).profiles[n] = Upgraded(base[p]).profiles[n]
    BY <2>1
  <2> QED BY <1>a, <1>b, <2>1, <2>2, <2>3, UpdateIsLocal
<1>3. ASSUME NEW p \in Processes, CheckProfile(p), NEW q \in Processes PROVE WritesItsOwn(q)'
  <2>1. PICK l \in {"ready", "done"} : pc' = [pc EXCEPT ![p] = l]
    BY <1>3 DEF CheckProfile, Goto
  <2>2. /\ pc[p] = "loaded" /\ ~HasLegacy(memory[p])
        /\ UNCHANGED <<memory, base, resume, command, target, active>>
    BY <1>3 DEF CheckProfile, history, invocation
  <2>3. CASE q = p
    BY <1>0, <2>1, <2>2, <2>3 DEF WritesItsOwn
  <2>4. CASE q # p
    BY <1>0, <2>1, <2>2, <2>4, OthersWriteTheirOwn
  <2> QED BY <2>3, <2>4
\* A command in "ready" works on what it has read, all of it upgraded.
<1>4. ASSUME NEW p \in Processes, pc[p] = "ready"
      PROVE  /\ memory[p] = base[p] /\ ~HasLegacy(memory[p])
             /\ \A n \in Names : memory[p].profiles[n] = Upgraded(base[p]).profiles[n]
  <2>1. memory[p] = base[p] /\ ~HasLegacy(memory[p])
    BY <1>0, <1>4 DEF WritesItsOwn
  <2> QED BY <1>0, <2>1, UpgradedProfile DEF HasLegacy
<1>5. ASSUME NEW p \in Processes, NEW n \in Names, pc[p] = "ready", Upsert(p, n),
             target[p] \in {n, NoName}
      PROVE  \A q \in Processes : WritesItsOwn(q)'
  <2> DEFINE m == UpdateContext(memory[p], n, p)
  <2>1. /\ UpdateConfigFile(p, m, "ready") /\ UNCHANGED <<base, target>>
        /\ command' = [command EXCEPT ![p] = "api"] /\ active' = [active EXCEPT ![p] = n]
    BY <1>5 DEF Upsert, history
  <2>2. n # NoName
    BY NamesAssumption
  <2>3. ~HasLegacy(m) /\ \A k \in Names \ {n} : m.profiles[k] = Upgraded(base[p]).profiles[k]
    BY <1>0, <1>4, <1>5, UpdateContextIsLocal
  <2> HIDE DEF m
  <2>4. OperandOf(target[p], n, m) = n /\ NamesIt("api", target[p], n)
    BY <1>5, <2>2 DEF OperandOf, NameOf, NamesIt
  <2> QED BY <1>5, <2>1, <2>3, <2>4, UpdateIsLocal
<1>6. ASSUME NEW p \in Processes, ConfigSet(p) PROVE \A q \in Processes : WritesItsOwn(q)'
  <2>1. pc[p] = "ready" /\ target[p] = NoName /\ Upsert(p, CurrentProfileName(p))
    BY <1>0, <1>6 DEF ConfigSet, WritesItsOwn, NamesIt
  <2>2. CurrentProfileName(p) \in Names
    BY CurrentProfileNamed DEF WriteInv
  <2> QED BY <1>5, <2>1, <2>2
<1>7. ASSUME NEW p \in Processes, ConfigCreate(p) PROVE \A q \in Processes : WritesItsOwn(q)'
  BY <1>5, <1>7 DEF ConfigCreate, WriteInv, StoreInv, HaveTarget
\* The commands that start a write and keep their invocation.
<1>d. ASSUME NEW p \in Processes PROVE NamesIt(command[p], target[p], active[p])
  BY <1>0 DEF WritesItsOwn
<1>8. ASSUME NEW p \in Processes, ConfigUse(p) PROVE \A q \in Processes : WritesItsOwn(q)'
  <2> DEFINE m == [memory[p] EXCEPT !.current = target[p]]
  <2>1. /\ UpdateConfigFile(p, m, "done") /\ UNCHANGED <<base, target, command, active>>
        /\ pc[p] = "ready" /\ command[p] = "use"
    BY <1>8 DEF ConfigUse, history, invocation
  <2>2. m.profiles = memory[p].profiles
    BY <1>0 DEF Config
  <2> HIDE DEF m
  <2>3. \A n \in Names \ {OperandOf(target[p], active[p], m)} :
            m.profiles[n] = Upgraded(base[p]).profiles[n]
    BY <1>4, <2>1, <2>2
  <2> QED BY <1>a, <1>b, <1>d, <2>1, <2>3, UpdateIsLocal
<1>9. ASSUME NEW p \in Processes, ConfigDelete(p) PROVE \A q \in Processes : WritesItsOwn(q)'
  <2> DEFINE d == [memory[p] EXCEPT !.profiles[target[p]] = Absent]
  <2>1. /\ UNCHANGED <<base, target, command, active>>
        /\ pc[p] = "ready" /\ command[p] = "delete" /\ target[p] \in Names
    BY <1>9 DEF ConfigDelete, history, invocation, Existing
  <2>2. PICK cur : UpdateConfigFile(p, [d EXCEPT !.current = cur], "done")
    BY <1>9 DEF ConfigDelete
  <2> DEFINE m == [d EXCEPT !.current = cur]
  <2>3. \A n \in Names \ {target[p]} : m.profiles[n] = memory[p].profiles[n]
    BY <1>0 DEF Config
  <2> HIDE DEF m
  <2>4. OperandOf(target[p], active[p], m) = target[p]
    BY <2>1, NamesAssumption DEF OperandOf
  <2>5. \A n \in Names \ {OperandOf(target[p], active[p], m)} :
            m.profiles[n] = Upgraded(base[p]).profiles[n]
    BY <1>4, <2>1, <2>3, <2>4
  <2>6. UpdateConfigFile(p, m, "done")
    BY <2>2 DEF m
  <2> QED BY <1>a, <1>b, <1>d, <2>1, <2>5, <2>6, UpdateIsLocal
<1>10. ASSUME NEW p \in Processes, ReplaceCurrentContext(p)
       PROVE  \A q \in Processes : WritesItsOwn(q)'
  <2> DEFINE n == CurrentProfileName(p)
             m == UpdateContext(memory[p], n, p)
  <2>1. /\ UpdateConfigFile(p, m, "ready") /\ UNCHANGED <<base, target, command, active>>
        /\ pc[p] = "ready" /\ command[p] = "api"
        /\ n \in Existing(memory[p]) /\ n \in Names
    BY <1>10 DEF ReplaceCurrentContext, history, invocation, Existing
  <2>2. n = NameOf(active[p], memory[p])
    BY NameIs
  <2>3. NamesIt(command[p], target[p], active[p])
    BY <1>0 DEF WritesItsOwn
  <2> HIDE DEF n
  <2>4. /\ ~HasLegacy(m) /\ m.current = memory[p].current
        /\ \A k \in Names \ {n} : m.profiles[k] = Upgraded(base[p]).profiles[k]
    BY <1>0, <1>4, <2>1, UpdateContextIsLocal
  <2> HIDE DEF m
  <2>5. OperandOf(target[p], active[p], m) = n
    BY <2>1, <2>2, <2>3, <2>4 DEF OperandOf, NameOf, NamesIt
  <2> QED BY <1>a, <1>b, <2>1, <2>3, <2>4, <2>5, UpdateIsLocal
<1>11. ASSUME NEW p \in Processes, WriteConfig(p), NEW q \in Processes PROVE WritesItsOwn(q)'
  <2>1. /\ pc[p] = "writing" /\ pc' = [pc EXCEPT ![p] = resume[p]]
        /\ base' = [base EXCEPT ![p] = memory[p]]
        /\ UNCHANGED <<memory, resume, command, target, active>>
    BY <1>11 DEF WriteConfig, Goto, invocation
  <2>2. CASE q = p
    BY <1>0, <2>1, <2>2 DEF WritesItsOwn
  <2>3. CASE q # p
    BY <1>0, <2>1, <2>3, OthersWriteTheirOwn
  <2> QED BY <2>2, <2>3
<1>12. ASSUME NEW p \in Processes, Exit(p), NEW q \in Processes PROVE WritesItsOwn(q)'
  <2>1. /\ pc' = [pc EXCEPT ![p] = "done"]
        /\ UNCHANGED <<memory, base, resume, command, target, active>>
    BY <1>12 DEF Exit, Goto, history, invocation
  <2>2. CASE q = p
    BY <1>0, <2>1, <2>2 DEF WritesItsOwn
  <2>3. CASE q # p
    BY <1>0, <2>1, <2>3, OthersWriteTheirOwn
  <2> QED BY <2>2, <2>3
<1>13. CASE UNCHANGED vars
  BY <1>0, <1>13 DEF vars, WritesItsOwn
<1> QED BY <1>1, <1>2, <1>3, <1>6, <1>7, <1>8, <1>9, <1>10, <1>11, <1>12, <1>13
        DEF Next, Operation, Done

LEMMA WriteInvariant == Spec => []WriteInv
BY InitWriteInv, NextWriteInv, PTL DEF Spec

\* An update of the file by a process that knows all that is in it touches the one profile the
\* command is about: no other one is changed, lost or brought back (updateConfigFile).
THEOREM WritesTouchOneProfile == Spec => WritesAreLocal
<1>1. WriteInv /\ [Next]_vars =>
             [\A p \in Processes : WriteConfig(p) /\ base[p] = last =>
                  \A n \in Names \ {Operand(p)} :
                      last'.profiles[n] = Upgraded(last).profiles[n]]_vars
  <2>1. SUFFICES ASSUME WriteInv, NEW p \in Processes, WriteConfig(p), base[p] = last
                 PROVE  \A n \in Names \ {Operand(p)} :
                            last'.profiles[n] = Upgraded(last).profiles[n]
    OBVIOUS
  <2>2. Operand(p) = OperandOf(target[p], active[p], memory[p])
    BY NameIs DEF Operand, OperandOf
  <2>3. last' = memory[p] /\ pc[p] = "writing"
    BY <2>1 DEF WriteConfig
  <2> QED BY <2>1, <2>2, <2>3 DEF WriteInv, WritesItsOwn
<1> QED BY <1>1, WriteInvariant, PTL DEF Spec, WritesAreLocal
=============================================================================
