---------------------------- MODULE ConfigStore ----------------------------
(***************************************************************************)
(* The config file with its access profiles (config/config.go, manage.go,  *)
(* default.go) as shared by the fsoc processes a user runs at a time: a    *)
(* proxy, a script, another terminal.  A process reads the file once, when *)
(* it starts (preExecHook in cmd/root.go), keeps all profiles in memory    *)
(* (viper), and every update writes the WHOLE memory back: the file is     *)
(* truncated, then written.  There is no lock and no second read.          *)
(*                                                                         *)
(* A profile's settings are a value named after the process that set them. *)
(* The order of the profiles in the file is not kept: where the code takes *)
(* the first one, the model takes any.                                     *)
(***************************************************************************)
CONSTANTS
    Processes,  \* the fsoc processes
    Names,      \* profile names
    Default,    \* DefaultContext, the name used when none is given
    Absent,     \* the value of a profile that does not exist
    Original,   \* settings made before the model begins ...
    Legacy,     \* ... and the same with a "server" attribute, to be upgraded to "url"
    NoName      \* no name

ASSUME NamesAssumption == Default \in Names /\ NoName \notin Names
ASSUME ValuesAssumption ==
    /\ Absent # Original /\ Absent # Legacy /\ Original # Legacy
    /\ Processes \cap {Absent, Original, Legacy} = {}

VARIABLES
    file,     \* the config file
    last,     \* what was last written to it, or was there to begin with (history)
    memory,   \* memory[p]: viper's copy
    base,     \* base[p]: the file when p last read or wrote it (history)
    pc,       \* pc[p]: where p is
    resume,   \* resume[p]: where p goes on after the write under way
    command,  \* command[p]: the subcommand of p
    target,   \* target[p]: its argument: the profile to create, use or delete
    active,   \* active[p]: activeProfile, from --profile or FSOC_PROFILE
    beaten    \* beaten[p]: another process wrote since p truncated the file

vars == <<file, last, memory, base, pc, resume, command, target, active, beaten>>
history == <<last, base>>
invocation == <<command, target, active>>

Values == Processes \cup {Absent, Original, Legacy}
Config == [profiles : [Names -> Values], current : Names \cup {NoName}]
Empty == [profiles |-> [n \in Names |-> Absent], current |-> NoName]

\* A file that is missing or is not YAML cannot be read.
Contents == [config : Config, readable : BOOLEAN]
Unreadable == [config |-> Empty, readable |-> FALSE]
Readable(m) == [config |-> m, readable |-> TRUE]

Commands == {"api", "set", "create", "use", "delete"}

\* AnnotationForConfigBypass: these run without a file or a current profile.
Bypass == {"set", "create"}

Existing(m) == {n \in Names : m.profiles[n] # Absent}

Init ==
    /\ \E v \in {Original, Legacy}, ns \in SUBSET Names :
           \E cur \in IF ns = {} THEN {NoName} ELSE ns :
               file = IF ns = {} THEN Unreadable
                      ELSE Readable([profiles |-> [n \in Names |-> IF n \in ns THEN v ELSE Absent],
                                     current |-> cur])
    /\ last = file.config
    /\ memory = [p \in Processes |-> Empty]
    /\ base = [p \in Processes |-> Empty]
    /\ pc = [p \in Processes |-> "new"]
    /\ resume = [p \in Processes |-> "done"]
    /\ command = [p \in Processes |-> "api"]
    /\ target = [p \in Processes |-> NoName]
    /\ active = [p \in Processes |-> NoName]
    /\ beaten = [p \in Processes |-> FALSE]

Goto(p, l) == pc' = [pc EXCEPT ![p] = l]

\* GetCurrentProfileName
CurrentProfileName(p) ==
    CASE active[p] # NoName -> active[p]
      [] active[p] = NoName /\ memory[p].current # NoName -> memory[p].current
      [] OTHER -> Default

-----------------------------------------------------------------------------
(* Writing: updateConfigFile                                               *)

\* viper.Set updates the memory and WriteConfig truncates the file ...
UpdateConfigFile(p, m, next) ==
    /\ memory' = [memory EXCEPT ![p] = m]
    /\ file' = Readable(Empty)
    /\ resume' = [resume EXCEPT ![p] = next]
    /\ beaten' = [beaten EXCEPT ![p] = FALSE]
    /\ Goto(p, "writing")

\* ... and writes all of the memory into it.  If another process has written since, what
\* is longer of it remains behind the new contents.
WriteConfig(p) ==
    /\ pc[p] = "writing"
    /\ \/ file' = Readable(memory[p])
       \/ beaten[p] /\ file' = Unreadable
    /\ last' = memory[p]
    /\ base' = [base EXCEPT ![p] = memory[p]]
    /\ beaten' = [q \in Processes |-> q # p /\ (beaten[q] \/ pc[q] = "writing")]
    /\ Goto(p, resume[p])
    /\ UNCHANGED <<memory, resume, invocation>>

-----------------------------------------------------------------------------
(* Starting: preExecHook                                                   *)

\* viper.ReadInConfig, and the command line.  Every command may have --profile or FSOC_PROFILE;
\* "create" without an argument and "use" with --profile only are among the choices of t and a.
ReadInConfig(p) ==
    /\ pc[p] = "new"
    /\ \E c \in Commands, t \in Names \cup {NoName}, a \in Names \cup {NoName} :
           /\ (t # NoName) <=> (c \in {"create", "use", "delete"})
           /\ command' = [command EXCEPT ![p] = c]
           /\ target' = [target EXCEPT ![p] = t]
           /\ active' = [active EXCEPT ![p] = a]
           /\ Goto(p, IF file.readable \/ c \in Bypass THEN "loaded" ELSE "done")
    /\ memory' = [memory EXCEPT ![p] = file.config]
    /\ base' = [base EXCEPT ![p] = file.config]
    /\ UNCHANGED <<file, last, resume, beaten>>

HasLegacy(m) == \E n \in Names : m.profiles[n] = Legacy

Upgraded(m) ==
    [m EXCEPT !.profiles = [n \in Names |-> IF @[n] = Legacy THEN Original ELSE @[n]]]

\* The first getConfig upgrades the schema, whatever the command is.
CheckUpgradeScheme(p) ==
    /\ pc[p] = "loaded" /\ HasLegacy(memory[p])
    /\ UpdateConfigFile(p, Upgraded(memory[p]), "loaded")
    /\ UNCHANGED <<history, invocation>>

\* Every command but those of Bypass needs its profile to exist.
CheckProfile(p) ==
    /\ pc[p] = "loaded" /\ ~HasLegacy(memory[p])
    /\ Goto(p, IF command[p] \in Bypass \/ CurrentProfileName(p) \in Existing(memory[p])
               THEN "ready" ELSE "done")
    /\ UNCHANGED <<file, history, memory, resume, invocation, beaten>>

-----------------------------------------------------------------------------
(* The operations                                                          *)

\* updateContext: the profile is replaced, or added; the first one becomes current.
UpdateInPlace(m, n, v) == [m EXCEPT !.profiles[n] = v]

UpdateAll(m, n, v) ==
    [m EXCEPT !.profiles = [k \in Names |-> IF k = n \/ @[k] # Absent THEN v ELSE Absent],
              !.current = IF Existing(m) = {} THEN n ELSE @]

UpdateContext(m, n, v) ==
    [m EXCEPT !.profiles[n] = v, !.current = IF Existing(m) = {} THEN n ELSE @]

\* "config set" and "config create": UpsertContext, then perhaps log in.
Upsert(p, n) ==
    /\ UpdateConfigFile(p, UpdateContext(memory[p], n, p), "ready")
    /\ command' = [command EXCEPT ![p] = "api"]
    /\ active' = [active EXCEPT ![p] = n]
    /\ UNCHANGED <<history, target>>

ConfigSet(p) ==
    /\ pc[p] = "ready" /\ command[p] = "set"
    /\ Upsert(p, CurrentProfileName(p))

ConfigCreate(p) ==
    /\ pc[p] = "ready" /\ command[p] = "create"
    /\ target[p] \notin Existing(memory[p])
    /\ Upsert(p, target[p])

\* SetDefaultContextName
ConfigUse(p) ==
    /\ pc[p] = "ready" /\ command[p] = "use"
    /\ target[p] \in Existing(memory[p])
    /\ UpdateConfigFile(p, [memory[p] EXCEPT !.current = target[p]], "done")
    /\ UNCHANGED <<history, invocation>>

\* DeleteContext: if the current profile is deleted, another one becomes current.
DeleteOnly(p) ==
    /\ pc[p] = "ready" /\ command[p] = "delete"
    /\ target[p] \in Existing(memory[p])
    /\ UpdateConfigFile(p, [memory[p] EXCEPT !.profiles[target[p]] = Absent], "done")
    /\ UNCHANGED <<history, invocation>>

ConfigDelete(p) ==
    /\ pc[p] = "ready" /\ command[p] = "delete"
    /\ target[p] \in Existing(memory[p])
    /\ LET m == [memory[p] EXCEPT !.profiles[target[p]] = Absent]
       IN \E cur \in CASE m.current # target[p] -> {m.current}
                       [] m.current = target[p] /\ Existing(m) # {} -> Existing(m)
                       [] OTHER -> {Default} :
              UpdateConfigFile(p, [m EXCEPT !.current = cur], "done")
    /\ UNCHANGED <<history, invocation>>

\* A login in the course of a command that calls the API, any number of times:
\* ReplaceCurrentContext, which is ignored if there is no such profile.
ReplaceCurrentContext(p) ==
    /\ pc[p] = "ready" /\ command[p] = "api"
    /\ CurrentProfileName(p) \in Existing(memory[p])
    /\ UpdateConfigFile(p, UpdateContext(memory[p], CurrentProfileName(p), p), "ready")
    /\ UNCHANGED <<history, invocation>>

\* The command has nothing more to do, fails, or is killed: during a write, the file
\* stays as it is at that moment.
Exit(p) ==
    /\ pc[p] \notin {"new", "done"}
    /\ Goto(p, "done")
    /\ UNCHANGED <<file, history, memory, resume, invocation, beaten>>

Operation(p) ==
    \/ ConfigSet(p) \/ ConfigCreate(p) \/ ConfigUse(p) \/ ConfigDelete(p)
    \/ ReplaceCurrentContext(p)

Done == (\A p \in Processes : pc[p] = "done") /\ UNCHANGED vars

Next ==
    \/ \E p \in Processes :
           ReadInConfig(p) \/ CheckUpgradeScheme(p) \/ CheckProfile(p) \/ Operation(p)
           \/ WriteConfig(p) \/ Exit(p)
    \/ Done

Spec == Init /\ [][Next]_vars

-----------------------------------------------------------------------------
(* Properties                                                              *)

\* Every variable stays in its domain; what is being written has a current profile.
TypeOK ==
    /\ file \in Contents
    /\ last \in Config
    /\ memory \in [Processes -> Config]
    /\ base \in [Processes -> Config]
    /\ pc \in [Processes -> {"new", "loaded", "ready", "writing", "done"}]
    /\ resume \in [Processes -> {"loaded", "ready", "done"}]
    /\ command \in [Processes -> Commands]
    /\ target \in [Processes -> Names \cup {NoName}]
    /\ active \in [Processes -> Names \cup {NoName}]
    /\ beaten \in [Processes -> BOOLEAN]
    /\ \A p \in Processes : pc[p] = "writing" => memory[p].current # NoName

\* As long as the file has profiles, one of them is the current one, however processes
\* overlap: otherwise every command but "set" and "create" would refuse to start, "use"
\* and "delete" too.
CurrentProfileExists ==
    Existing(file.config) # {} => file.config.current \in Existing(file.config)

\* A write, if no other process has written since this one read the file, leaves the
\* settings of the other profiles as they are and removes none but the one deleted; the
\* upgrade of the schema removes nothing.
Operand(p) == IF target[p] # NoName THEN target[p] ELSE CurrentProfileName(p)
WritesAreLocal ==
    [][\A p \in Processes : WriteConfig(p) /\ base[p] = last =>
           \A n \in Names \ {Operand(p)} : last'.profiles[n] = Upgraded(last).profiles[n]]_vars
=============================================================================
