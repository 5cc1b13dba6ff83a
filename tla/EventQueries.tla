---------------------------- MODULE EventQueries ----------------------------
(***************************************************************************)
(* The commands that show events page by page: `fsoc optimize events`,     *)
(* `recommendations`, `servo logs`, `report` (src/cmd/optimize) and        *)
(* `fsoc logs` (src/cmd/logs).  Each command treats an answer that is      *)
(* faulty, empty or has no data set in its own way, on the first page and  *)
(* on the later ones.  Events are numbered in the order of their times.    *)
(***************************************************************************)
EXTENDS Integers, Sequences, SequencesExt

CONSTANTS PageSize,   \* events in a page
          MaxEvents,  \* bound: events produced
          MaxFaults   \* bound: faulty answers and failed requests

ASSUME EventsAssumption == PageSize \in Nat \ {0} /\ MaxEvents \in Nat /\ MaxFaults \in Nat

VARIABLES q,         \* the command: its name and its flags
          qpc,       \* "idle", "asks", "answered", "shows", "open" or "done"
          phase,     \* the query it makes: "ids", "rows" or "blockers"
          later,     \* the page asked for is not the first of its query
          cursor,    \* the last row of the pages fetched
          answer,    \* the answer in hand
          rows,      \* the rows fetched and not shown
          printed,   \* the events printed, in order; of the interactive table, its list from the top
          warned,    \* the command said that data may be missing
          produced,  \* events produced so far
          atStart,   \* those produced when the query for rows was sent
          outcome,   \* how the command ended
          faults

eventVars == <<q, qpc, phase, later, cursor, answer, rows, printed, warned,
               produced, atStart, outcome, faults>>
client == <<q, phase, later, cursor, rows, printed, atStart>>

\* ids: the entities that match the filters, 0 without a match.
Commands ==
  [name : {"events", "recommendations"}, filter : BOOLEAN, ids : {0, PageSize + 1},
   count : BOOLEAN, follow : {FALSE}, interactive : {FALSE}] \cup
  [name : {"events"}, filter : {FALSE}, ids : {0},
   count : {FALSE}, follow : BOOLEAN, interactive : BOOLEAN] \cup
  [name : {"servo", "report"}, filter : {FALSE}, ids : {0},
   count : {FALSE}, follow : {FALSE}, interactive : {FALSE}] \cup
  [name : {"servo"}, filter : {FALSE}, ids : {0},
   count : {TRUE}, follow : {FALSE}, interactive : {FALSE}] \cup
  [name : {"logs"}, filter : {FALSE}, ids : {0},
   count : {TRUE}, follow : {FALSE}, interactive : {FALSE}] \cup
  [name : {"logs"}, filter : {FALSE}, ids : {0},
   count : {FALSE}, follow : {TRUE}, interactive : {FALSE}]

NoCommand == [name |-> "none", filter |-> FALSE, ids |-> 0,
              count |-> FALSE, follow |-> FALSE, interactive |-> FALSE]
NoPage == [kind |-> "none", rows |-> <<>>, upTo |-> 0, next |-> FALSE, errors |-> FALSE]

EventsInit ==
  /\ q = NoCommand /\ qpc = "idle" /\ phase = "ids" /\ later = FALSE /\ cursor = 0
  /\ answer = NoPage /\ rows = <<>> /\ printed = <<>> /\ warned = FALSE
  /\ produced = 0 /\ atStart = 0 /\ outcome = "none" /\ faults = 0

-----------------------------------------------------------------------------
(* The service.                                                            *)

\* Events happen while the command runs.
Produce ==
  /\ qpc # "done" /\ produced < MaxEvents /\ produced' = produced + 1
  /\ UNCHANGED <<client, qpc, answer, warned, outcome, faults>>

Stock == IF phase = "ids" THEN q.ids ELSE produced
NewestFirst == q.name = "logs" /\ ~q.follow
Smaller(a, b) == IF a < b THEN a ELSE b
PageEnd == Smaller(cursor + PageSize, Stock)

\* The page after the cursor; `logs` without follow asks for the newest first.
PageRows ==
  IF NewestFirst
  THEN [i \in 1..Smaller(PageSize, Stock) |-> Stock + 1 - i]
  ELSE [i \in 1..(PageEnd - cursor) |-> cursor + i]

\* A query for rows of events has them in a data set inside its one row, which
\* can be missing itself; the rows of the other queries are those of the answer.
Nested == phase = "blockers" \/ (phase = "rows" /\ q.name # "report")
Kinds == IF Nested THEN {"rows", "nil", "empty", "nomain"} ELSE {"rows", "nomain"}

\* With an error a row of the page may be missing.
RowsSent(errors) ==
  {PageRows} \cup IF errors THEN {RemoveAt(PageRows, i) : i \in DOMAIN PageRows} ELSE {}

ServiceAnswersPage ==
  /\ qpc = "asks" /\ qpc' = "answered"
  /\ \E kind \in Kinds, errors \in BOOLEAN :
       /\ errors => faults < MaxFaults
       /\ kind = "rows" \/ PageRows = <<>> \/ errors
       /\ faults' = IF errors THEN faults + 1 ELSE faults
       /\ \E sent \in IF kind = "rows" THEN RowsSent(errors) ELSE {<<>>} :
            answer' = [kind |-> kind, errors |-> errors, rows |-> sent, upTo |-> PageEnd,
                       next |-> kind = "rows" /\ PageEnd < Stock]
  /\ UNCHANGED <<client, warned, produced, outcome>>

-----------------------------------------------------------------------------
(* The command.                                                            *)

Closes(how) == qpc' = "done" /\ outcome' = how
Asks(ph, lat, cur, rs) ==
  qpc' = "asks" /\ phase' = ph /\ later' = lat /\ cursor' = cur /\ rows' = rs

StartCommand ==
  /\ qpc = "idle"
  /\ q' \in Commands
  /\ Asks(IF q'.filter THEN "ids" ELSE "rows", FALSE, 0, <<>>)
  /\ atStart' = IF q'.filter THEN 0 ELSE produced
  /\ UNCHANGED <<answer, printed, warned, produced, outcome, faults>>

\* A count over the limit is refused, after the query for the entities.
RefuseCount ==
  /\ qpc = "asks" /\ phase = "rows" /\ ~later /\ q.count /\ q.name # "logs"
  /\ Closes("refused")
  /\ UNCHANGED <<client, answer, warned, produced, faults>>

\* An error of the request itself ends the command; of the interactive table it ends
\* the fetcher only: the listener says so and the table stays.
FailsAtRequest == IF q.interactive THEN qpc' = "open" /\ UNCHANGED outcome ELSE Closes("failed")

PageRequestFails ==
  /\ qpc = "asks" /\ faults < MaxFaults /\ faults' = faults + 1
  /\ FailsAtRequest
  /\ UNCHANGED <<client, answer, warned, produced>>

\* Mutant: the errors of a later page of events are not looked at.
TreatEventsFirst(a) ==
  IF (a.errors /\ ~later) \/ a.kind \in {"nomain", "empty"} THEN "fail"
  ELSE IF a.kind = "nil" THEN "panic" ELSE "take"

\* What the command does with an answer (parseUqlResponse and its counterparts).
TreatEvents(a) ==
  IF a.errors \/ a.kind \in {"nomain", "empty"} THEN "fail"
  ELSE IF a.kind = "nil" THEN "panic" ELSE "take"
TreatLogs(a) == IF a.errors THEN "fail" ELSE IF a.kind # "rows" THEN "panic" ELSE "take"
TreatBlockers(a) == IF a.kind \in {"nomain", "empty"} THEN "fail" ELSE "take"
TreatFlat(a) == IF a.kind = "nomain" THEN "stop" ELSE "take"
TreatNested(a) ==
  IF a.kind \in {"nomain", "empty"} /\ ~later THEN "none"
  ELSE CASE a.kind = "nomain" -> "stop"
         [] a.kind = "empty"  -> "fail"
         [] a.kind = "nil" /\ later -> IF q.name = "servo" THEN "stop" ELSE "panic"
         [] OTHER -> "take"
Treat(a) ==
  IF phase = "ids" \/ q.name = "report" THEN TreatFlat(a)
  ELSE IF phase = "blockers" THEN TreatBlockers(a)
  ELSE CASE q.name = "events" -> TreatEvents(a)
         [] q.name = "logs"   -> TreatLogs(a)
         [] OTHER             -> TreatNested(a)

\* Errors are logged where they do not end the command; so is a later page
\* without data, where the command goes on with what it has.
Warns(a) ==
  \/ a.errors /\ (phase = "ids" \/ q.name \notin {"events", "logs"})
  \/ Treat(a) = "stop" /\ later

\* With a count there is one page; so there is when following, as the follow
\* link of a page brings all that comes after it.
GoesOn(a) == a.next /\ (phase = "rows" => ~q.count /\ ~q.follow)

\* The query is complete: the next one is made, or the rows are shown.
CompleteQuery(rs) ==
  \/ /\ phase = "ids" /\ rs = <<>>
     /\ Closes("ok") /\ UNCHANGED <<phase, later, cursor, rows, atStart>>
  \/ /\ phase = "ids" /\ rs # <<>>
     /\ Asks("rows", FALSE, 0, <<>>) /\ atStart' = produced /\ UNCHANGED outcome
  \/ /\ phase = "rows" /\ q.name = "recommendations"
     /\ Asks("blockers", FALSE, 0, rs) /\ UNCHANGED <<atStart, outcome>>
  \/ /\ phase = "blockers" \/ (phase = "rows" /\ q.name # "recommendations")
     /\ qpc' = "shows" /\ rows' = rs /\ UNCHANGED <<phase, later, cursor, atStart, outcome>>

\* A page of rows; the answer about blockers is joined to the rows in hand.
TakePage ==
  /\ qpc = "answered" /\ Treat(answer) = "take"
  /\ warned' = (warned \/ Warns(answer))
  /\ LET all == IF phase = "blockers" THEN rows ELSE rows \o answer.rows
     IN  IF GoesOn(answer) /\ phase # "blockers"
         THEN Asks(phase, TRUE, answer.upTo, all) /\ UNCHANGED <<atStart, outcome>>
         ELSE IF q.follow /\ phase = "rows"
         THEN /\ qpc' = "shows" /\ rows' = all /\ cursor' = answer.upTo
              /\ UNCHANGED <<phase, later, atStart, outcome>>
         ELSE CompleteQuery(all)
  /\ UNCHANGED <<q, answer, printed, produced, faults>>

\* A page without data: the command goes on with what it has.
StopAtPage ==
  /\ qpc = "answered" /\ Treat(answer) = "stop"
  /\ warned' = (warned \/ Warns(answer))
  /\ CompleteQuery(rows)
  /\ UNCHANGED <<q, answer, printed, produced, faults>>

\* "No results found", a failure, or a nil data set that is used.
EndAtPage ==
  /\ qpc = "answered" /\ Treat(answer) \in {"none", "fail", "panic"}
  /\ warned' = (warned \/ Warns(answer))
  /\ IF Treat(answer) = "fail" THEN FailsAtRequest
     ELSE Closes([none |-> "ok", fail |-> "failed", panic |-> "panicked"][Treat(answer)])
  /\ UNCHANGED <<client, answer, produced, faults>>

\* Mutant: the search has the comparison the wrong way round.
InsertByTimeReversed(table, e) ==
  InsertAt(table, Min({i \in DOMAIN table : table[i] > e} \cup {Len(table) + 1}), e)

\* An event is put before the first older one.
InsertByTime(table, e) ==
  InsertAt(table, Min({i \in DOMAIN table : table[i] < e} \cup {Len(table) + 1}), e)

\* The listener of the interactive table takes the events of a page one by one.
InsertRow ==
  /\ qpc = "shows" /\ q.interactive /\ rows # <<>>
  /\ printed' = InsertByTime(printed, Head(rows))
  /\ rows' = Tail(rows)
  /\ UNCHANGED <<q, qpc, phase, later, cursor, answer, warned, produced, atStart, outcome, faults>>

\* The other commands print a page at once.
ShowPage(before) == before \o IF q.name = "logs" THEN Reverse(rows) ELSE rows

RowsInserted == q.interactive => rows = <<>>

\* The rows are shown; a command that follows asks for what comes after the
\* page, at once or after its interval.
ShowRows ==
  /\ qpc = "shows" /\ q.follow /\ RowsInserted
  /\ printed' = ShowPage(printed)
  /\ Asks("rows", TRUE, cursor, <<>>)
  /\ UNCHANGED <<q, answer, warned, produced, atStart, outcome, faults>>

\* Mutant: the listener of the plain output skips a nil error, as that of the table does.
ShowLastRowsOpen ==
  /\ qpc = "shows" /\ ~q.follow /\ RowsInserted
  /\ printed' = ShowPage(printed)
  /\ rows' = <<>>
  /\ qpc' = "open" /\ UNCHANGED outcome
  /\ UNCHANGED <<q, phase, later, cursor, answer, warned, produced, atStart, faults>>

\* The others are done: the fetcher of `events` says so by a nil error, which
\* ends the command, but not the interactive table.
ShowLastRows ==
  /\ qpc = "shows" /\ ~q.follow /\ RowsInserted
  /\ printed' = ShowPage(printed)
  /\ rows' = <<>>
  /\ IF q.interactive THEN qpc' = "open" /\ UNCHANGED outcome ELSE Closes("ok")
  /\ UNCHANGED <<q, phase, later, cursor, answer, warned, produced, atStart, faults>>

\* The user interrupts the command or leaves the table; a fetch under way is lost.
Interrupt ==
  /\ qpc \notin {"idle", "done"}
  /\ Closes("interrupted")
  /\ UNCHANGED <<client, answer, warned, produced, faults>>

FetcherStep == TakePage \/ StopAtPage \/ EndAtPage \/ InsertRow \/ ShowRows \/ ShowLastRows
EventsNext ==
  \/ Produce \/ ServiceAnswersPage \/ StartCommand \/ RefuseCount \/ PageRequestFails
  \/ FetcherStep \/ Interrupt

EventsSpec == EventsInit /\ [][EventsNext]_eventVars

\* The service answers or the request fails; the command takes its steps.  Events
\* need not be produced, and nobody need interrupt.
EventsFairness == WF_eventVars(ServiceAnswersPage \/ PageRequestFails) /\ WF_eventVars(FetcherStep)

-----------------------------------------------------------------------------
EventsTypeOK ==
  /\ q \in Commands \cup {NoCommand}
  /\ qpc \in {"idle", "asks", "answered", "shows", "open", "done"}
  /\ phase \in {"ids", "rows", "blockers"} /\ later \in BOOLEAN /\ warned \in BOOLEAN
  /\ answer.kind \in {"none", "rows", "nil", "empty", "nomain"}
  /\ cursor \in 0..(MaxEvents + PageSize + 1) /\ produced \in 0..MaxEvents /\ faults \in 0..MaxFaults
  /\ atStart \in 0..produced
  /\ outcome \in {"none", "ok", "refused", "failed", "panicked", "interrupted"}

(* The events shown are in the order of their times, none twice, and, as   *)
(* long as nothing was said to be missing, none left out between two; in   *)
(* the list behind the interactive table they are from the newest to the   *)
(* oldest, whatever pages they came in.  `logs --follow` is left out:      *)
(* printLogs turns each page round although the service was asked for the  *)
(* oldest first.                                                           *)
PrintedInOrder ==
  ~(q.name = "logs" /\ q.follow) =>
  \A i \in 1..(Len(printed) - 1) :
    LET step == IF q.interactive THEN printed[i] - printed[i + 1] ELSE printed[i + 1] - printed[i]
    IN  step >= 1 /\ (step = 1 \/ warned)

(* A command that ends well without a count has shown every event that had *)
(* been produced when it asked, or has said that data may be missing: no   *)
(* combination of pages, faults and missing data sets ends it early and    *)
(* in silence.  The list behind the interactive table has them all; what   *)
(* is drawn of it lacks the newest, row 0, which the header takes the      *)
(* place of (GetCell, events_interactive.go:32).                           *)
EndsComplete ==
  outcome = "ok" /\ ~q.count /\ ~warned => 1..atStart \subseteq ToSet(printed)

(* A command that neither follows nor shows the table returns, whatever    *)
(* pages and faults it meets: the fetcher ends the listener in each case.  *)
CommandReturns ==
  (qpc = "asks" /\ ~q.follow /\ ~q.interactive) ~> (qpc = "done")
=============================================================================
