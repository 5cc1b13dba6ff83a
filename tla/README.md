# A TLA+ model of fsoc

fsoc is the command line tool of the Cisco Observability Platform: it keeps access
profiles in a config file, logs in with one of several methods, calls the platform's API,
proxies other programs to it, and builds on this commands for solutions, queries,
optimization, logs and knowledge objects.

This directory holds TLA+ modules for the parts where behaviour depends on what happens
between the steps - goroutines, several fsoc processes over one file, lost answers, a
process that dies, a sequence of legal commands - with TLC configurations that check them
on small instances, and proofs, checked by TLAPS, of what matters most for every instance.

Contents: [components](#the-system-and-its-parts) · [modules](#the-modules) ·
[runs](#the-runs) · [bounds](#bounds) · [fairness](#fairness) ·
[proofs](#what-is-proved) · [disagreements](#where-code-and-documentation-disagree) ·
[limits](#what-is-not-modelled) · [plan](#plan)

## The system and its parts

| component | state it keeps | operations | what is hard | what makes it correct |
|---|---|---|---|---|
| API call and login (`platform/api`) | a private copy of the profile per call (`callContext.cfg`); access and refresh token | `httpRequest`: login if there is no token, send, one retry after a 403 and a login; `login` by method: oauth (refresh token, else browser and callback server), service and agent principal, jwt, local, none | calls in goroutines (`solution status`, `zap`) save over each other; the platform takes a refresh token once; answers are lost; the callback address is fixed; the process may die at any step | the retry carries a new token; the saved session stays usable; every call returns; at most two sends, success only on a success |
| Proxy transport (`platform/api/proxy.go`) | ONE call context for all requests | `RoundTrip`: send, login on 403, send again | requests in goroutines log in through the shared pointer without a lock; the body is consumed by the first send | as for a call |
| Proxy server (`proxy.go`, `cmd/proxy`) | the http server, a signal channel of capacity one | listen, run a command or wait for a signal, shut down | two goroutines receive from one channel; handlers under way at shutdown | it ends when told to, and not before its requests are answered |
| Config store (`config`) | the config file; viper's copy of it in each process | read at start, upgrade of the schema, upsert, delete, use, replace | whole-file writes from stale memory by several processes, truncate-then-write, death in between | the current profile exists; a write changes only its own profile |
| Profile settings (`cmd/config`) | one profile | `create`, `set`, `delete`, and the logins that fill it in | each setting clears others, by tables per method; order of application | credentials belong to the method, URL and tenant they were issued for; what is given is kept |
| Solution life cycle (`cmd/solution`) | nothing between commands; the platform has uploads, install and deletion records, solution objects, subscriptions | push, validate, zap, delete, subscribe, unsubscribe | the tag is decided in several places; every command waits on records that others write too; the last record may be somebody else's | what is decided twice agrees; success is reported only of what the command did; a wait ends |
| Solution authoring (`cmd/solution`) | the files of a solution: manifest, components, tag file | init, extend, bump, fix, package, fork; the tag file is its author's, and is only read | a command changes several files, each by truncation and a write, and may die between any two; nothing is undone | what a manifest lists is there; what a command reports made is made; the original of a fix is not lost |
| UQL (`cmd/uql`) | the model, data sets by name | send, parse chunks, resolve references, print a table or JSON | chunks in any order, missing data sets, nesting of any depth | the rows are those the service sent; the columns line up; in JSON, every column whose name is its own has its values |
| Optimize (`cmd/optimize`) | optimizer objects in the knowledge store; pages of events | start, stop, suspend, unsuspend, configure; events, recommendations, servo logs, report | read-modify-write against other users and without a version; each command treats faults in its own way | no hard blocker is ignored unless its override was given or it was written by hand; no suspension lost; nothing left out in silence |
| Knowledge store (`cmd/knowledge`) | objects with entity tags | create, update, edit, delete | an editor open for long between the read and the write | no edit lost |
| Logs (`cmd/logs`) | the cursor of a query | query, follow | as for events | as for events |
| Collections (`collection.go`) | items so far, next link | page after page | endless links, an error in the middle | all pages or none |
| Melt (`cmd/melt`, `platform/melt`) | entities to send | group and export | - | - |
| Version check (`cmd/root.go`), interrupt handler (`cmdkit/interrupt`) | a channel; a chain of handlers (of one link, used by `knowledge edit`) | check in the background; run once on end or signal | unbuffered channel, nesting | the command never waits; each handler once, the exit last |
| IAM, provisioning, subsystem settings, output, gendocs | nothing | one request, or formatting | - | - |

How they interact: every command starts in `preExecHook` (`cmd/root.go`), which reads the
config file into memory and checks that the profile exists. Commands call `api.JSONGet`,
`JSONPost`, ... which all go through `httpRequest`; a login inside it ends in
`config.ReplaceCurrentContext`, which writes the file. The proxy is the one command that
makes calls for others, through its own transport and the same `login`. The solution, UQL,
optimize and knowledge commands only use `platform/api` and never the store directly,
except to read the tenant.

## The modules

| module | what it models | code |
|---|---|---|
| `CallContract` | the abstract specification of one API call: sends once, once more after a 403, succeeds only on a success to the last send | what callers of `platform/api` rely on |
| `ApiCall` | calls of `httpRequest` by any number of goroutines, with their logins; implements `CallContract` | `call.go`, `context.go`, `login.go`, `oauth.go`, `service_principal.go`, `tenant.go` |
| `ApiCall_proofs` | theorems about `ApiCall` | |
| `ApiProxy` | requests through the proxy's transport, one step per access to the shared call context; implements `CallContract` | `proxy.go` (`RoundTrip`), `oauth.go`, `login.go` |
| `ApiProxy_proofs` | theorems about `ApiProxy` | |
| `ProxyServer` | the proxy as a process: main, listener, handlers, signals | `proxy.go` (`RunProxyServer`), `cmd/proxy/proxy.go` |
| `ProxyServer_proofs` | theorems about `ProxyServer` | |
| `ConfigStore` | the config file and several processes that read and write it | `config/*.go`, `cmd/root.go`, `cmd/config/{set,create,use,delete}.go` |
| `ConfigStore_proofs` | theorems about `ConfigStore` | |
| `ProfileSettings` | one profile under any sequence of commands and logins | `cmd/config/{set,create,set-fields,delete}.go`, the effect of the logins of `platform/api` |
| `ProfileSettings_proofs` | theorems about `ProfileSettings` | |
| `SolutionTag` | the decisions on a solution's tag, name and object ID, as operators | `cmd/solution/{embed-isolate,isolate,upload,subscribe,zap}.go` |
| `SolutionRelease` | users who push, zap, delete and subscribe, and the platform that installs and deletes in its own time; uses `SolutionTag` | `cmd/solution/{push,upload,zap,delete,subscribe,...}.go` |
| `SolutionRelease_proofs` | theorems about `SolutionRelease` and `SolutionTag` | |
| `SolutionFiles` | the files of a solution and the commands that write them, change by change | `cmd/solution/{init,extend,extend-fmm,extend-dashui,bump,fix,package,isolate,embed-isolate,unzip,fork,processor,...}.go` |
| `SolutionFiles_proofs` | theorems about `SolutionFiles` | |
| `FlatTable` | the widths of a printed table and the objects of JSON output, as recursive operators | `cmd/uql/{flat_table,json}.go` |
| `UqlResponse` | one UQL query: request, chunks, references, output; uses `FlatTable` | `cmd/uql/*.go` |
| `EventQueries` | the commands that page through events and logs | `cmd/optimize/{events,events_interactive,servo,report,...}.go`, `cmd/logs` |
| `AtomicOptimizers` | the abstract specification of these commands: each takes effect at one moment, or not at all | what users of `optimize` and `knowledge` rely on |
| `Optimizers` | the optimizer objects and all commands that change them, request by request; implements `AtomicOptimizers` | `cmd/optimize/{configure,management,...}.go`, `cmd/knowledge` |
| `Platform_proofs` | theorems about `EventQueries` and `Optimizers` | |
| `MCProxy` | `ApiProxy` and `ProxyServer` side by side | |
| `MCPlatform` | `UqlResponse`, `EventQueries` and `Optimizers` side by side | |
| other `MC...` | nothing: they extend the module and give TLC a place for its constants | |

`ConfigStore` treats a profile's settings as one value and looks at who writes the file when;
`ProfileSettings` looks inside one profile and takes each command as one step; `ApiCall` and
`ApiProxy` take the store as a variable written in one step and look at the calls.
`ProxyServer` takes what a handler does as "under way until answered" and leaves its steps to
`ApiProxy`. The modules of commands take an API call as one step that answers or fails, which
is what `CallContract` promises them. `SolutionFiles` ends where a package is made and
`SolutionRelease` begins where it is sent: what passes between them is the version and the tag,
which the latter reads from the same places. The parts meet where the code does:
`ReplaceCurrentContext` is an action of both `ApiCall` and `ConfigStore`.

### ApiCall: state and code

`pc[c]` is the line of `httpRequest`/`login` that call `c` is at. `NewCallContext` copies
the profile (`GetCurrentContext` returns a copy). `CheckConfigForAuth` is
`checkConfigForAuth` and the switch of `login`. An oauth login resolves the tenant, offers
its refresh token (`OAuthRefreshToken`, or `RefreshAnswerLost` when the platform took it
but the answer did not arrive, or `RefreshRejected`) and otherwise listens on the callback
address (`StartCallbackServer`) and waits for the browser; `ReceiveCallback` stops the callback
server, which frees the address, before `FinishInteractiveLogin` exchanges the code.
`ReplaceCurrentContext` and `ReloadContext` are the last two statements of `login`, and
other calls may run between them. `Kill` is the end of the process: Ctrl-C, `log.Fatal` in
another goroutine, or the Go runtime stopping two writers of viper's map.

Tokens are numbers in the order they are issued. What the platform does (issue, accept a
refresh token once, answer 403) is external and nondeterministic. The variables `sends`,
`first` and `spent` are history.

### ApiProxy: state and code

The call contexts are a heap and `ctx` is the pointer `callCtx.cfg`. `login` keeps the
pointer it started with in a local variable (`held`), `oauthLogin` writes through the
shared one, and the reload replaces the shared one: these are different contexts as soon as
two logins overlap. Each access is a step.

### ConfigStore: state and code

A process goes from `new` (command line and `ReadInConfig`) through `loaded` (upgrade of
the schema by the first `getConfig`, check of the profile) to `ready`; any command may be told a
profile, by `--profile` or `FSOC_PROFILE`. An update is
`UpdateConfigFile` (viper's memory, truncation) followed by `WriteConfig`. `Exit` may come
anywhere: the end of the command, `log.Fatal`, or a kill that leaves the file truncated.
`beaten` says that another process wrote after the truncation, in which case the longer
contents remain behind the shorter ones and the file may not parse.

### ProfileSettings: state and code

The tables of `set-fields.go` are the operators `Writable` and `Dependent`, `clearFields`
is `ClearFields`, and `Applied` applies the settings of a command line in the order of
`configSetContext` and `updateCoreSettings`. A credential is represented by the method, URL
and tenant of the profile at the moment it was obtained, so that a credential left behind
by a change shows. `lost` records settings of the last command line that the profile does
not have afterwards. A profile may be one of an older fsoc, with its credentials in `CsvFile`, which
the end of every command makes the secret file (`Upgraded`). Settings may be given empty: a
tenant and a token are set to nothing like others, an empty URL or environment type is refused, and
an empty secret file is no empty value, since the code makes an absolute path of it.

### SolutionTag and SolutionRelease: state and code

Two functions decide the tag of an upload: `getEmbeddedTag` and, in
`embeddedConditionalIsolate`, `DetermineTagEnvFile`. `Sources` are the places they look at,
each of which may be absent, empty or filled in. A name is the suffix that the template of a
manifest appends, so `""` is the solution itself.

`job[u]` is the command that user `u` runs and what it has seen: `own` is the number of the
upload it made (for a deletion, of the uploads there were at its start), `seen` the deletion
record that was the last one before it. `LocateSolution` asks by native isolation and falls
back on pseudo-isolation after any error; `CheckSystem` refuses to unsubscribe from a system
solution (constant `System`); `SubscribeUploaded` is the subscription that ends a push. A push
of a bundle cannot wait or subscribe, and is in the model as a push that ends with its upload.
Each request is a step. `Fail` is `log.Fatal` after a request that failed, the end of a retry,
or the end of a wait with a limit. The records of the platform are sequences in the order they
are written, since the code asks for the last one that matches a filter. The platform's part is
external: it takes the versions of a solution in increasing order, makes the object before the
solution is installed, installs or fails, and removes all of a solution when it deletes it.

### SolutionFiles: state and code

A file is a place, a name and a format; its contents are a manifest, a component, a tag or
nothing. A command reads all it needs when it starts (no other process writes a solution's
directory) and becomes a list of changes, of which `Step` makes one: `os.Create` empties the
file before the write fills it. `Crash` drops the rest. A component is its type, its name and
the names it refers to; `NewComponents` and `AddCompDef` are the functions of
`extend*.go`, and the list of objects of a manifest is a bag, since the same directory may
come to be listed twice. `Package` and `Unzipped` convert paths as `generateZip` and
`UnzipToAferoFs` do.

A manifest has the set of its fields that are templates (`templates`: the name, and the
dependencies). Such a manifest is isolated when it is packaged: `IsolatedCopy` must find a JSON
manifest and all that this lists. The copy that `solution isolate` leaves is not modelled. The
tag file is written by the author only (`SetTag`, external, as is `RemoveType`); `Package` is
for the tag "stable", and other tags differ in names that no file of the model has.

What the code does and a user might not expect, all of it in the model: `extend --knowledge`
lists a type again that was removed and made anew (it compares names with paths); if the dependency
that owns a type is a template, every `extend` lists the directory again; the namespace
is made before the entity is looked for, and stays if there is none; a fix to YAML is
refused; two manifests in a directory make every command refuse; a fork of a directory carries the
tag file (the walk that is to delete it says that it cannot).

### UqlResponse and FlatTable: state and code

`sent` is the answer that the service computed, as nested rows; `SentSets` cuts it into data
sets as the service does, and `ReadDataSet` takes them in any order. `FinishResponse` resolves
the references (`resolveRefs`). `FlatTable` follows `makeFlatTable`: widths of the contents
(`ContentWidths`), header inflated to them (`InflateHeader`), contents widened to the header.
For JSON the code makes Go structs with the alias of a column in a struct tag. An alias is a
name and the rest that follows a comma; `JsonKey` cuts the rest off, a hyphen alone is no key
(`Hidden`), and of columns of one name `Marshalled` keeps none, which is what `encoding/json`
does of a tag. Only the collision check compares whole aliases. An answer with errors only has
no model, and the output fails on it: `output.kind = "panic"`.

### EventQueries: state and code

One command with its query (`q`, `phase`, `later`), the page in hand and the rows fetched.
`TreatEvents`, `TreatLogs`, `TreatFlat`, `TreatNested` and `TreatBlockers` say what each
command makes of an answer that has errors, no main data set, an empty or a missing nested one:
the code repeats these checks in every command, differently each time, and on the first page
differently from the later ones. The service (`RowsSent`, external) sends the rows of a page;
with an error it may leave one out. `CompleteQuery` is what each command does with the last
page: end, ask for the blockers, or show. The fetcher and the listener of `events` talk over a
channel: a page is handed over whole and the fetcher waits. The other listeners print it at
once (`ShowRows`, `ShowLastRows`); that of the interactive table inserts its events one by one
(`InsertRow`), each before the first older one (`InsertByTime`, the binary search). A request
that fails ends a command, but leaves the table open with what it has (`FailsAtRequest`).
`printed` is the list behind the table; `GetCell` draws the header in place of its row 0, the
newest event.

### Optimizers: state and code

An object has the fields that matter: the `id` in its data, `suspensions`, `ignored` blockers,
`override` (the flags it was configured with, or "hand"), the edits in it (`notes`) and the
entity tag of its last write. It is stored under an ID, which need not be the one in its data:
`HandWritten` are objects that a user wrote before. The optimize commands write to the ID in
the data (`Target`) of what they read under the ID they were given. Whatever a user may write
by hand, an object of `HandWritten` or fields of one, is in `ByHand`: with `knowledge create`,
`update` and `edit`, and with the file of `configure`, which is laid over the new object after
the check of its blockers. A command is a plan (`Steps`): read the object, read the profiler's
report, write. `copy[u]` is what was read. `WriteObject` is the request at the end:
unconditional for the optimize commands, with `If-Match` for `knowledge edit`; its answer may
be lost (`heard`). `due`, `kept` and `blind` are history: the suspensions and edits users were
told of, and whether an object was written over from a copy that was stale.

`AtomicOptimizers` has the object without its tag, the command of each user, and an action per
command that reads and changes the object in one step. `Atomic`, at the end of `Optimizers`,
maps the one to the other: the step of `AtomicOptimizers` is the write, the requests before it
change nothing there, and a command that is refused or fails gives up. One thing the code does
has no place among the atomic commands: start, stop, suspend and unsuspend put the whole object
back as it was when they read it, or over another one that its data names. `Overwrite` is that
outcome, with the flag set; `edit` never has it.

## The runs

| run | checks | result |
|---|---|---|
| `ApiCall` | `TypeOK`, `RetryCarriesNewToken`, `SessionNotLost`, `OnlyTheCallbackBlocks` (liveness), `ImplementsCallContract` (refinement) | holds, 194 056 states |
| `ApiCallPort` | `EveryCallReturns` | violated: see below |
| `Proxy` | of the transport `TransportTypeOK`, `SequentialLoginsAreSafe`, `ImplementsCallContract`; of the process `CommandReturnsDrained`, `SignalStopsServing` (liveness) | holds, 277 908 states |
| `ProxyToken` | `RetryCarriesNewToken` | violated with overlapping logins |
| `ProxySignal` | `SignalShutsDown` | violated in the foreground mode |
| `ConfigStore` | `TypeOK`, `CurrentProfileExists`, `WritesAreLocal` | holds, 597 947 states |
| `ProfileSettings` | `TypeOK`, `CredentialsBelong`, `RefreshTokenStaysHome`, `OtherSettingsKept` | holds, 5353 states up to the names of tenants |
| `ProfileSettingsKept` | `SettingsKept` | violated: a documented example |
| `SolutionRelease` | `TypeOK`, `DecisionsAgree`, `InstalledIsUploaded`, `DeletedIsGone`, `SubscribesTagAsked`, `ProcessedPushReturns` (liveness) | holds, 202 965 states |
| `SolutionFiles` | `TypeOK`, `ManifestHolds`, `TwoManifestsAgree`, `ExtendDelivers`, `FixKeepsOriginal`, `ForkIsComplete` | holds, 179 871 states |
| `Platform` | `PlatformTypeOK`; of UQL `ParsedIsSent`, `TableAligned`, `JsonKeepsColumns`; of events `PrintedInOrder`, `EndsComplete`, `CommandReturns` (liveness); of optimizers `SuspensionsSurvive`, `EditsAllKept`, `HardBlockersStop`, `ImplementsAtomic` (refinement) | holds, 550 972 states |
| `PlatformJson` | `ValuesNamedByAlias` | violated: names cut at a comma |

What they show:

* **Two calls that log in at once do not hurt each other.** Each works on its own copy, so
  the profile may go back to the older of two sessions, but the retry never repeats the
  refused token and the refresh token left in the profile is one the platform has not taken
  (unless the answer with the new one was lost). The proxy, which shares one context, has
  this only while logins do not overlap (`Proxy` against `ProxyToken`).
* **One place can block.** Under the fairness below every call returns or is in the wait
  for a callback to an address that somebody else listens on.
* **The current profile exists**, whatever two processes do to the file and wherever they
  die; lost updates do happen, and `WritesAreLocal` says when they do not: a write by a
  process that has seen the last write changes its own profile only.
* **Credentials belong where they are.** Without `--patch` no sequence of commands leaves an
  access token, a user name or a secret file of another method or server in the profile, with
  one exception: the CSV file of an older fsoc's service principal is not cleared, and becomes
  the secret file of the new method. A refresh token does survive a change of the method (the
  list that `set` clears has `refresh_token` where the code knows `refresh-token`), and
  `RefreshTokenStaysHome` shows that a login nevertheless never offers it to another server.

* **A push speaks of one solution.** Where the sources of the tag are absent or have a value
  and no env file is given, the two decisions agree (`DecisionsAgree`). With an empty
  `FSOC_SOLUTION_TAG` or `--tag=""` beside a tag file they do not: one takes the first source
  that is there, the other the first that is not empty. A success is reported only of the
  version uploaded, or of the same version uploaded again after a deletion
  (`InstalledIsUploaded`), and of a deletion only when nothing of what was there before is
  left, also if the command joined one that somebody else had started (`DeletedIsGone`).
* **A wait ends when its upload is processed** and nobody deletes it (`ProcessedPushReturns`):
  the filter of the wait names the version, so a later upload does not hide an earlier one.
* **Extend delivers although it makes some templates only if they are missing**, and whatever
  died before (`ExtendDelivers`); without deaths what a manifest lists is there
  (`ManifestHolds`). A fix that dies may leave two manifests, which every command then
  refuses; removing either repairs it, as they say the same (`TwoManifestsAgree`).
* **A table lines up at every depth**, with empty tables and names wider than what is below
  them. JSON output has the values of every column whose name is its own, at every depth
  (`JsonKeepsColumns`); of others, such as `f(a, b)` and `f(a, c)`, the names are changed or the
  columns lost, and the collision check does not see it (`PlatformJson`).
* **Events are not left out in silence** by any of the combinations of pages and faults.
  What the interactive table draws lacks the newest event of the list behind it.
  `logs --follow` is left out of `PrintedInOrder`: it turns every page round although it asks
  for the oldest first.
* **Optimizers.** Suspensions survive everything but two writers at a time: then one of two
  unconditional writes is lost, and the property says so by `blind`. An edit is not lost
  however many edit, unless an optimize command writes from a stale copy. Apart from that one
  outcome every command is as good as atomic (`ImplementsAtomic`). Hard blockers that fsoc has
  no description of are dropped before the check, so `HardBlockersStop` is about the known
  ones; and it is about objects in which the blockers were not written by hand. A user may
  write them with `knowledge create`, `update` and `edit`, and with the file of `configure`,
  without an override: the property says that nothing else gets there, through stale writes,
  edits of other fields, files that name other fields, and writes onto an object of another ID.

Each property of a passing run has a mutant in `PROJECT.json`: a plausible slip in a
definition (the operators `RetryOnEvery403`, `SaveNothing`, `DeleteOnly`, `UpdateAll`,
`TokenFirst`, ... next to the definitions they alter) with which TLC finds the property
violated.

### Bounds

* Two calls, two requests, two processes, two users: the hazards are between one and another;
  a third changes who interferes, not how. What is proved holds for any number.
* Methods: `ApiCall` runs with one method of each kind of login (the empty one is a service
  principal, `none`, `jwt`, `oauth`); `ProfileSettings` with `jwt`, `service-principal` and
  `oauth` (`agent-principal` has the tables of `service-principal`; `local` and `none` have
  nothing that clears). A profile used with `--patch` is followed until its credentials come
  from two origins (`OneOrigin`): only `OtherSettingsKept` speaks of such profiles, and it is
  about the last command line.
* `SolutionRelease`: two users with two versions, one of whom has a template for the name; one
  tag besides "stable" and "dev"; a tenant that is not a development one. Three commands, two
  uploads, two deletions: a command under way, one that interferes and one more, such as a
  push, a deletion and a push again of the same version. A deletion is there from earlier. The
  solution without a suffix is a system solution.
* `SolutionFiles`: one name, a kind of component for every way `extend` treats one (types,
  plain objects, objects of the fmm model, those that need an entity, templates in two parts
  that share some, templates without an entity), three commands, one death. `ecpList` after
  `entity` already takes two of the three. A manifest made by hand is there at the start, so that
  `fix` and templates cost none: with no templates, with some of its dependencies, or with all.
* `UqlResponse`: tables in tables in tables, up to two rows, references at no, one or both
  levels; widths smaller and larger than what they stand above or below.
* `EventQueries`: two rows in a page and four events: no page, one, two, a page and a half, and
  events produced while the command runs; one fault. `Optimizers`: two users, three commands,
  and at most one object that was written by hand before, stored under either of two IDs.
  `UqlResponse`, `EventQueries` and `Optimizers` share no state; `MCPlatform` lets one of them
  move in a behaviour, so each is explored in full and their product is not.
* Tokens are unbounded numbers but each login issues at most two, and a call logs in at
  most twice, so no cap is needed.
* `MaxSignals` = 2: a signal for each of the two receivers. `ApiProxy` and `ProxyServer` are
  side by side in `MCProxy` as the three are in `MCPlatform`; what connects them, a handler
  that is working as long as its request is, is in `ProxyServer` a handler that may work for
  ever.
* Two profile names, one of them the default; a production and a development URL; two tenants.

### Deadlock

Deadlock is checked in the runs of `ApiCall`, `Proxy`, `ConfigStore` and `ProfileSettings`. It
is not in `SolutionRelease`, `SolutionFiles` and `Platform`: there the number of commands is
bounded, and when the last has ended, or waits for a platform that may never answer, nothing is
left to do. `Done`, `Settled` and `Quiet` are the states in which nothing is left to do (all
calls have returned or are blocked for good, the processes have ended, the user sends no more
signals).

### Fairness

`ApiCall` assumes weak fairness of the steps of each call: a goroutine runs, the platform
answers or the connection breaks, and a user in front of the browser logs in or gives up.
It does not assume that a call starts or that the process dies. `ProxyServer` assumes weak
fairness of the goroutines that receive a signal, shut down and exit, and none of the
handlers, which may wait for a browser. `ApiProxy`, `ConfigStore` and `ProfileSettings` have
safety properties only.

`SolutionRelease` assumes that a command that waits keeps asking (`PollInstall`,
`PollDelete`), as its loop does; it assumes nothing of the platform, which is why
`ProcessedPushReturns` begins where the upload has been processed. `EventQueries` assumes
that a request is answered or fails and that a goroutine with a page in hand goes on; nothing
makes an event happen or a user interrupt. `SolutionFiles`, `UqlResponse` and `Optimizers`
have safety properties only.

## What is proved

`ApiCall_proofs` proves, for any set of calls and any set of methods:

* `TypeCorrect`: `Spec => []TypeOK`. `TypeOK` alone is not inductive: that a call never
  sends a third time needs `SendsBounded`, which says how many sends a call can have
  behind it at each place (0 or 1 whenever it is before or in a login).
* `RetriesCarryNewTokens`: `Spec => []RetryCarriesNewToken`. The argument: tokens are
  numbered, so a token just issued is larger than every token that anybody knows
  (`TokensIssued`). Hence a call about to save is the only one with its token
  (`UnsharedToken`), hence what it finds in the store when it reloads, its own token or one
  saved since, is not what it sent first (`NewTokenOnTheWay`). The second step is the one a
  single invariant on the waiting call would miss: between save and reload another call may
  save, and its token too is unlike anything sent before.
* `SessionsAreNotLost`: `Spec => []SessionNotLost`. The same for the refresh token
  (`UnsharedRefreshToken`): what a call is about to save is not consumed and nobody else can
  consume it before it is saved; only a call of the oauth method has such a step at all
  (`StepsOfMethod`).

* `CallsKeepTheContract`: `Spec => ImplementsCallContract`. The refinement mapping takes
  the place a call is at to a stage of the contract (`StageOfLocation`); a step of `ApiCall`
  moves at most one call, and moves its stage as one action of `CallContract` does or not at
  all (`NextContract`). What the mapping needs beyond `TypeOK` is `ReplyKnown`: a call that
  is in a login after its first send, or about to send again, was told 403.

`ConfigStore_proofs` proves, for any number of processes and any set of profile names:

* `StoreTypeCorrect`: `Spec => []TypeOK`, and `CurrentProfileAlwaysExists`:
  `Spec => []CurrentProfileExists`. The file alone is not inductive, since what is written to
  it comes from the memory of a process that may have read it long ago. The invariant
  `StoreInv` says of every memory, of the file and of the last complete contents that they
  are `Sound` (a configuration with profiles names one of them), and that commands which
  take a profile's name have one (`HaveTarget`). Each operation makes something sound of
  something sound (`UpdateContextSound`, `UpgradedSound`, the step for `ConfigDelete`), and
  a truncated or garbled file reads as the empty configuration (`EmptySound`).

`Platform_proofs` proves of `Optimizers`, for any set of users, any suspensions and any number
of commands:

* `HardBlockersAlwaysStop`, `SuspensionsAlwaysSurvive` and `EditsAlwaysKept`: `OptimizersSpec
  => []...` for the three invariants of the run. None is inductive: what is written comes from
  a copy that may be old. `OptimizersInv` adds that a command which has come to write has read
  an object (`Progress`), that entity tags are those of writes that were made (`Tags`), and
  therefore that a copy with the tag of the object in the store *is* that object (`Copies`). A
  write from a copy with another tag is blind, by definition for the optimize commands and
  excluded by the store for `edit`; any other changes the very object that the history is about
  (`SeenFacts`). For blockers, copies obey the rule as objects do (`Blocking`), and
  `BlockersPass` admits a hard one with the right override only. What a user wrote is marked as
  such when the blockers are among it, and keeps the blockers of the object when not
  (`ByHand`), for each of the commands that take something written by hand.
* `OptimizersAreAtomic`: `OptimizersSpec => ImplementsAtomic`, the refinement. `OptimizersInv`
  does the work: a write from a copy that is not stale changes the object as it is then, since
  the copy is that object (`EditEffect`), and the object is there and is the one that the
  command names (`ReadBeforeWrite`); a stale one of start, stop, suspend or unsuspend is an
  `Overwrite` (`OverwriteEffect`), and a stale `edit` is not taken. The commands that write
  without reading, and configure, which makes the object anew, have the effect of their atomic
  ones in any case (`PlainEffect`). `ContentsFacts` says that the mapping loses nothing which
  the abstract guards speak of.
* `OptimizersTypesCorrect`: `OptimizersSpec => []OptimizersTypeOK`. That there are no more
  versions than commands needs a count: the writes made and the commands under way are together
  no more than the commands begun (`Counted`), whoever the users are and however many.

`ConfigStore_proofs` also has `WritesTouchOneProfile`: `Spec => WritesAreLocal`, an action
property about two moments, the read and the write. `WritesItsOwn` carries the first to the
second: what a process is about to write differs from what it read, upgraded, in the profile
of its command only. Every operation of the process establishes it when it comes to write, and
no step of another one touches its memory. If the file is still the one it read, the property
follows.

`ApiProxy_proofs` proves, for any set of requests:

* `TransportTypesCorrect`: `Spec => []TransportTypeOK`, with `SendsOf` as for `ApiCall`.
* `LoginsOneByOneAreSafe`: `Spec => []SequentialLoginsAreSafe`. As long as logins have not
  overlapped, `Sequential` holds: the one login under way holds the context that is shared
  (`HoldsContext`), the refused token is older than what the login has set
  (`RefusedIsOlder`), the shared context is what the profile has, except between the
  assignment of the tokens and the save (`ContextIsSaved`), and a consumed refresh token is in the
  profile only until its answer is saved, or if that was lost (`UsedTokenIsReplaced`).
  The property is hard since requests do overlap: any of them may be sent, with the token in
  the shared context, between any two steps of the login.
* `ForwardedRequestsKeepTheContract`: `Spec => ImplementsCallContract`, the refinement, with
  no condition on the logins.

`ProxyServer_proofs` proves, for any set of requests and number of signals,
`ServerTypesCorrect` (`Spec => []TypeOK`, which no run repeats) and `CommandsReturnDrained`
(`Spec => []CommandReturnsDrained`): with a command there is no receiver of signals, so the
only way for main out of `shutdown` is the `Shutdown` it called itself (`CommandShutsDown`),
and a server that has closed has no handlers left (`ClosedIsDrained`).

`ProfileSettings_proofs` proves, for any sets of URLs and tenants and any methods the code
knows:

* `SettingsTypesCorrect`, `ProfilesHoldTheirOwnCredentials` and `RefreshTokensStayHome`:
  `Spec => []...` for `TypeOK`, `CredentialsBelong` and `RefreshTokenStaysHome`. `ProfileInv`
  adds to them what a user name in a profile tells of it (`UserFromLogin`): it comes from a
  login, so the URL and for `oauth` the tenant are there, and a later login that looks up the
  tenant cannot part the name from it. `CredentialsBelong` alone is not inductive for that
  reason. The lemmas go through the tables: what the settings clear (`Dependent`), which of
  them a method takes (`Writable`), and one setting after the other in the order of the code.
* `OnlyTheseSettingsAreLost`: `Spec => []OtherSettingsKept`, for every command line.

`SolutionRelease_proofs` proves, for any users, tags, templates and environment, and for any
number of commands, uploads and deletions:

* `ReleaseTypesCorrect`: `Spec => []TypeOK`, which says that versions of a living solution
  grow and that a tenant is subscribed only to what there is.
* `WaitsForItsOwn`: `Spec => InstalledIsUploaded`. The record that a wait takes has the
  version of the upload. An older upload of the same solution with this version would have to
  be gone, as versions grow while it lives (`VersionsGrow`), so the record is that of this
  upload or of a later one.
* `DeletionsDelete`: `Spec => DeletedIsGone`. `DeletionSound` says of a command that is about
  to look at the records: if the last deletion is successful and not the one it saw at its
  start, then all that was there at its start is gone. It is kept because records are only
  appended, and because a deletion is successful in the step that removes everything.
* `SubscriptionsFindTheCopy`: `Spec => SubscribesTagAsked`. Every object is one of an upload
  (`ObjectsUploaded`), and `TagTells` says how name, tag and header of an upload go together
  under each of the two kinds of isolation; the object ID that the command computes is then
  one that only an upload with its tag has.
* `TheTwoDecisionsAgree`: `Spec => []DecisionsAgree`, for every set of custom tags and all
  combinations of sources, by the lemma that says which candidate `FirstNotIn` takes.

That a set of numbers below a bound has a largest element (`MaxExists`), which the last record
that matches a filter rests on, follows from the library's fact that the order of the natural
numbers is well founded.

`Platform_proofs` proves of `EventQueries`, for any size of a page, number of events and number
of faults:

* `EventsPrintedInOrder`: `EventsSpec => []PrintedInOrder`, and `EndsAreComplete`:
  `EventsSpec => []EndsComplete`. The lemmas of its first part are about sequences of events
  that are `Ascending` or `Descending` between two times and `Gapless` there: pages of the
  service are (`PageAscends`, `NewestDescends`), what is joined to them is (`FetchedConcat`), a
  lost row leaves the order (`RemoveAscends`), `Reverse` turns one into the other, and an event
  newer than all in the table goes to its top (`InsertNewest`). `EventsInv` says what each
  kind of command has: a plain one, printed and in hand, the events up to its cursor
  (`PlainOK`), the table those up to some time from the newest, and in hand those that come
  next (`TableOK`), the logs one page, turned round when printed (`LogsOK`); and of an answer
  on its way that it brings what comes next, or lacks it only with an error (`AnswerOK`).
  `TakenIsWhole` and `TakenWarns` say that what a command takes although it may be cut short
  is warned of, which is where the commands' different treatment of faults comes in.
* `EventsTypesCorrect`: `EventsSpec => []EventsTypeOK`, from the same invariant.

`SolutionFiles_proofs` proves, for any names, any of the kinds that `extend` knows, any number
of commands and any number of deaths, all properties of the run:

* `FilesTyped`: `Spec => []TypeOK`. A command's changes are a sequence that is made when it
  starts, from the manifest that it finds, so the invariant (`FilesTypes`) speaks of the changes
  that are pending: each of them `Fits` the file that it is for (a manifest goes to the file of
  its format; namespaces and the templates of an entity have directories of their own). The last
  package, unpacked, obeys the same.
* `TwoManifestsAlwaysAgree` and `FixAlwaysKeepsOriginal`, for `TwoManifestsAgree` and
  `FixKeepsOriginal`. `FilesInv` adds how the pending changes treat the manifests
  (`ManifestsOK`): either they edit, without removing it, the one manifest that there is
  (`Edits`), or all manifests there are, and all that are still to be written, have the same
  types, objects and version (`Describes`), which is what a fix does while it moves from one
  format to the other. Of a fix it adds (`FixOK`) that its changes begin with the backup of a
  manifest that is still there (`BacksUp`), or that the backup is made and no change to come
  touches it.
* `ManifestAlwaysHolds`: `Spec => []ManifestHolds`; `ForkAlwaysComplete`: `Spec =>
  ForkIsComplete`; `ExtendAlwaysDelivers`: `Spec => ExtendDelivers`. These speak of the end of
  a command, many changes after the step that decided them. What carries the one to the other
  is `Becomes(files, changes, f, c)`: once the changes are made, `c` is what file `f` has,
  since the last change of `f` says so or nothing changes `f` and it has that already. Every
  change that is made keeps it (`BecomesStep`), and when no change is left it is what the disk
  has (`BecomesAtEnd`). From it follow `Standing` (in the end `m` is the one manifest), `There`
  (in the end a directory that it lists has a file) and `Put` (in the end a component is in the
  folder of its kind), and the invariants say them of the command that runs: `HoldsInv` (as
  long as nothing died, in the end there is a manifest and all that it lists), `ForkInv` (a
  fork ends with the manifest, with what it lists, and with no name of the original) and
  `DeliverInv` (an extend ends with its components, listed, and with what they refer to).
* What remains is what a command decides when it starts. `extend` and `fork` fold over a sequence
  and over a set. That a fold which starts in a set of good results, and adds an
  element only to good results, ends in one is `FoldInduction`; it rests on the library's fact
  that the strict subsets of a finite set are a well-founded order (the good results are a set, so
  no operator parameter is needed), and
  `FoldedComponents` and `FoldedFork` are its two uses. For `extend`, `Good` is what has been
  added so far: each component is in its file, which no later one writes since no two
  components have the same name (`NewFacts`), and whatever else is in the folder is spared
  (`Adding`). The latter is what `ExtendAlwaysDelivers` needs for the template that is made
  only if it is missing: it was found in a listed directory of templates, a template
  is only ever written to the directory of the entity in its name (`Placed`, a part of
  `FilesInv`), hence it is in the very folder (`SharedInspector`), and it stays there or is
  written anew.

The proofs use the assumptions named in the modules and nothing else: `MethodsAssumption` and
`HoldersAssumption` of `ApiCall`; `NamesAssumption` of `ApiProxy` (the holders of a context
that are no request are none); `MaxSignalsAssumption` (a number); `NamesAssumption` (the
default is a profile name, "no name" is not) and `ValuesAssumption` (the values that stand for
settings are distinct) of `ConfigStore`; `MethodsAssumption` and `URLsAssumption` of
`ProfileSettings` (methods are those of the code, with `service-principal`, because a login
makes this of an empty method and an older profile has it; a production URL is no development
one, and none is empty); `TagsAssumption` (a custom tag is none of the reserved ones) and
`VersionAssumption` (versions are numbers) of the solutions; `EventsAssumption` (a page has
room for a row); `KindsAssumption` (kinds are those that `extend` has flags for),
`TemplatedAssumption` (templates are the fields of a manifest that may be) and
`BoundsAssumption` (two numbers) of `SolutionFiles`; `HandWrittenAssumption` (objects have the
fields of an object) and `MaxOperationsAssumption` (a number) of `Optimizers`. The bounds on
commands, uploads and events are used in no argument, except where a type names them. Every
invariant was checked by TLC on the instance of the run first.

Model-checked only:

* the liveness properties `OnlyTheCallbackBlocks`, `SignalStopsServing`,
  `ProcessedPushReturns` and `CommandReturns`: liveness under fairness is outside the prover's
  reach;
* `ParsedIsSent`, `TableAligned` and `JsonKeepsColumns`: the operators of `FlatTable` and
  `UqlResponse` are recursive over data of any depth;
* `PlatformTypeOK` as a whole, since it includes the types of `UqlResponse`; its other two parts,
  `EventsTypeOK` and `OptimizersTypeOK`, are proved.

## Where code and documentation disagree

1. `oauth.go:189` promises an error if the callback server cannot be started; the code logs
   the failure in a goroutine and waits for ever (`ApiCallPort`).
2. `proxy.go:189`: "callContext.cfg.Token has been updated by login()". Not when another
   request's login runs at the same time (`ProxyToken`).
3. `proxy.go:113`: "gracefully shut down the server when received", and
   `cmd/proxy/proxy.go:35`: "until terminated with Ctrl-C". Two goroutines receive from one
   channel. If main takes the signal, it returns with requests under way; if the other does,
   the server is shut down and main waits for another signal (`ProxySignal`).
4. `create.go:67`, `set.go:62`: the example gives a secret file, a tenant and a URL; the
   secret file is applied last and clears the other two (`ProfileSettingsKept`).
5. `json.go:15`: "every value is stored in a JSON object field named as the column alias". The alias
   is put into a struct tag as it is (`json.go:329`), where a comma ends it (`PlatformJson`).

Of these the models have the code's behaviour, and no run of its own:

* `set.go:174`, `create.go:222`: "Clear All fields before setting other fields". `CsvFile` of
  an older fsoc is not cleared and becomes the secret file of the new method (`set.go:306`). A
  login of such a profile fails before the file could be used: `checkConfigForAuth`
  (`login.go:33`) asks for a secret file.
* `push.go:71`: "Subscribe to the solution that you are pushing". With a tag of one's own and a
  manifest that is not isolated, `upload.go:260` subscribes to the dev solution of that name.
* `fork.go:201`: "Omits special files, such as .tag". The walk retains them (`processor.go:503`).
* `events_interactive.go:160` counts the events in the title of the table; the header takes the
  place of the first (line 34).

## What is not modelled

Formats (YAML, JSON, CSV, JWT), colours, wording and logging; TLS and the transport below
`http.Client`; the platform behind the API except for the answers named above; the data
race on viper's map other than as the death of the process; the settings of local
authentication, which no login changes; subsystem settings.

* Commands that make one request and print the answer (IAM, provisioning, `solution list`,
  `show`, `describe`, `knowledge get`, `optimize status`) have no state to model.
* `solution check` and `test` read and judge files, and change none. The check reads
  `manifest.json` only, whatever the format of the manifest. The deprecated fork that replaces
  text and the copy that the `isolate` command leaves are edits of text; the isolation of a package
  is modelled.
* A push of a bundle is modelled as a push that ends with its upload, under the header that its
  directory would have; other headers are not.
* Collections: whether the loop over pages ends is up to the server, and its callers look at
  the items only if there was no error.
* Melt: a conversion of entities into the telemetry protocol, one after the other, without
  control that depends on anything else. Output and logging: formatting.
* Version check: a goroutine whose answer is used if it is there when the command ends and
  dropped if not; nothing depends on which. Interrupt handlers: the chain of them has one link, the
  restored terminal, and one user, the editor of `knowledge edit`.
* Of an author's own edits of files, the tag file and the removal of a type are modelled.

## What is left

The core, the life cycle and the files of a solution, the queries and the optimizers are
modelled, and every safety property of a passing run is proved but those named above. Left are:

1. `ParsedIsSent`, `TableAligned` and `JsonKeepsColumns` for tables of any depth. They need an
   induction over nested data, and `FlatTable` and `UqlResponse` written without recursive
   operators; `FoldInduction` of `SolutionFiles_proofs` shows how such an induction can be made
   over a set.
2. The commands that are listed above as not modelled, should they get state of their own.

Modules are written for proof: constants with named assumptions, an action per operation,
invariants as conjunctions, and recursive operators in `FlatTable` and `UqlResponse` only.
