----------------------------- MODULE UqlResponse -----------------------------
(***************************************************************************)
(* `fsoc uql <query>`: the request, the chunks the answer comes in, the    *)
(* resolution of the references between its data sets, and the output      *)
(* (src/cmd/uql).  The service sends the model, then the data sets in any  *)
(* order, each under its name, then the errors, if it had any; a data set  *)
(* it could not compute is missing.  Here a data set is named by the path  *)
(* to the cell that refers to it, the main one by <<"d:main">>.            *)
(***************************************************************************)
EXTENDS FlatTable, TLC

CONSTANTS NameWidths,   \* widths of the names of groups of columns
          ValueWidths,  \* widths of values
          MaxRows       \* bound: rows of the main data set

VARIABLES upc,        \* what the command does: "idle", "waits", "reads", "parsed", "done"
          sent,       \* the answer the service computed
          inbox,      \* the chunks of it the command has not processed
          model,      \* the fields of the model read, <<>> before
          dataSets,   \* the data sets read, by name
          errorSets,  \* the answer had error chunks
          response,   \* the rows of the main data set, references resolved
          output      \* what was printed

uqlVars == <<upc, sent, inbox, model, dataSets, errorSets, response, output>>

-----------------------------------------------------------------------------
(* The answers of the service: a scalar and a table in every row, a scalar *)
(* and a table in that; each table inline or in a data set of its own.     *)

Scalar(a, w) == [alias |-> a, width |-> w, form |-> "inline", fields |-> <<>>]
Table(a, w, form, fields) == [alias |-> a, width |-> w, form |-> form, fields |-> fields]

\* The default alias of a column is the expression it shows, such as f(a, b); one in
\* quotes has no name that a struct tag takes.
A == [name |-> "a", rest |-> ""]
B == [name |-> "b", rest |-> ""]
CallB == [name |-> "f(a", rest |-> ", b)"]
CallC == [name |-> "f(a", rest |-> ", c)"]
Hyphen == [name |-> "-", rest |-> ""]
Quoted == [name |-> "", rest |-> "'a'"]

\* The aliases of the two main columns and of the two inside the second.
PlainAliases == {<<A, B, A, B>>, <<A, A, A, B>>, <<A, B, A, A>>}
ExpressionAliases == {<<A, CallB, A, Hyphen>>, <<CallB, CallC, Quoted, B>>, <<A, B, CallB, CallC>>}

ModelOf(as, w, x, forms) ==
  << Scalar(as[1], 3), Table(as[2], w, forms[1],
       << Scalar(as[3], 2), Table(as[4], x, forms[2], << Scalar(A, 1) >>) >>) >>

\* Inside an inline table there are no references: the code resolves none there.
Models ==
  {ModelOf(as, w, x, forms) : as \in PlainAliases, w \in NameWidths, x \in NameWidths,
     forms \in {<<"reference", "reference">>, <<"reference", "inline">>, <<"inline", "inline">>}} \cup
  {ModelOf(as, 1, 1, <<"inline", "inline">>) : as \in ExpressionAliases}

Value(v) == [v |-> v, set |-> <<>>, rows |-> <<>>]
Rows(r) == [v |-> 0, set |-> <<>>, rows |-> r]
UpTo(n, S) == UNION {[1..k -> S] : k \in 0..n}
Innermost == UpTo(1, {<<Value(v)>> : v \in ValueWidths})
Inner == UpTo(1, {<<Value(1), Rows(r)>> : r \in Innermost})
MainRows == UpTo(MaxRows, {<<Value(1), Rows(r)>> : r \in Inner})

Main == <<"d:main">>
CellName(set, r, c) == set \o <<r, c>>

RECURSIVE SentSets(_, _, _)
SentSets(set, fields, rows) ==
  LET refers(c) == fields[c].form = "reference"
      encoded == [r \in DOMAIN rows |-> [c \in DOMAIN fields |->
                    IF refers(c) THEN [Value(0) EXCEPT !.set = CellName(set, r, c)] ELSE rows[r][c]]]
  IN  {[set |-> set, rows |-> encoded]} \cup
      UNION {SentSets(CellName(set, r, c), fields[c].fields, rows[r][c].rows)
             : r \in DOMAIN rows, c \in {d \in DOMAIN fields : refers(d)}}

NoAnswer == [fields |-> <<>>, rows |-> <<>>, missing |-> {}]

-----------------------------------------------------------------------------
UqlInit ==
  /\ upc = "idle" /\ sent = NoAnswer /\ inbox = {} /\ model = <<>> /\ dataSets = <<>>
  /\ errorSets = FALSE /\ response = <<>> /\ output = [kind |-> "none"]

Ends(kind) == upc' = "done" /\ output' = [kind |-> kind]

\* An empty query (executeUqlQuery; one of blanks is sent) and an unknown format are refused.
RefuseQuery ==
  /\ upc = "idle" /\ Ends("refused")
  /\ UNCHANGED <<sent, inbox, model, dataSets, errorSets, response>>

SendQuery ==
  /\ upc = "idle" /\ upc' = "waits"
  /\ UNCHANGED <<sent, inbox, model, dataSets, errorSets, response, output>>

\* The request fails, or its answer is no list of chunks.
RequestFails ==
  /\ upc = "waits" /\ Ends("failed")
  /\ UNCHANGED <<sent, inbox, model, dataSets, errorSets, response>>

\* The service answers with a model and data, of which at most one set is missing.
ServiceAnswers ==
  /\ upc = "waits" /\ upc' = "reads"
  /\ \E fields \in Models, rows \in MainRows :
       LET sets == SentSets(Main, fields, rows)
       IN  \E missing \in {{}} \cup {{s} : s \in sets} :
             /\ sent' = [fields |-> fields, rows |-> rows, missing |-> missing]
             /\ inbox' = sets \ missing
             /\ errorSets' = (missing # {})
             /\ model' = fields
  /\ UNCHANGED <<dataSets, response, output>>

\* The service answers with errors only: there is no model.
ServiceSendsErrors ==
  /\ upc = "waits" /\ upc' = "reads" /\ errorSets' = TRUE
  /\ UNCHANGED <<sent, inbox, model, dataSets, response, output>>

RECURSIVE ResolveRefs(_, _)
ResolveRefs(rows, sets) ==
  [r \in DOMAIN rows |-> [c \in DOMAIN rows[r] |->
     LET cell == rows[r][c]
     IN  IF cell.set = <<>> THEN cell
         ELSE Rows(IF cell.set \in DOMAIN sets THEN ResolveRefs(sets[cell.set], sets) ELSE <<>>)]]

\* Mutant: references are resolved as the data set comes.
ReadDataSetResolved(chunk) ==
  /\ upc = "reads" /\ chunk \in inbox
  /\ inbox' = inbox \ {chunk}
  /\ dataSets' = (chunk.set :> ResolveRefs(chunk.rows, dataSets)) @@ dataSets
  /\ UNCHANGED <<upc, sent, model, errorSets, response, output>>

\* A data chunk: its values are parsed and kept under its name, references as they are.
ReadDataSet(chunk) ==
  /\ upc = "reads" /\ chunk \in inbox
  /\ inbox' = inbox \ {chunk}
  /\ dataSets' = (chunk.set :> chunk.rows) @@ dataSets
  /\ UNCHANGED <<upc, sent, model, errorSets, response, output>>

\* A value that is not of the type its column declares ends the command.
ReadBadDataSet(chunk) ==
  /\ upc = "reads" /\ chunk \in inbox /\ chunk.rows # <<>> /\ Ends("failed")
  /\ UNCHANGED <<sent, inbox, model, dataSets, errorSets, response>>

\* All chunks read: the main data set, if it came, with its references resolved.
FinishResponse ==
  /\ upc = "reads" /\ inbox = {} /\ upc' = "parsed"
  /\ response' = IF Main \in DOMAIN dataSets THEN ResolveRefs(dataSets[Main], dataSets) ELSE <<>>
  /\ UNCHANGED <<sent, inbox, model, dataSets, errorSets, output>>

\* printResponse; without a model there is nothing to lay out, and the code fails on nil.
PrintTable ==
  /\ upc = "parsed" /\ upc' = "done"
  /\ output' = IF model = <<>> THEN [kind |-> "panic"]
               ELSE [kind |-> "table", table |-> MakeFlatTable(model, response)]
  /\ UNCHANGED <<sent, inbox, model, dataSets, errorSets, response>>

PrintJson ==
  /\ upc = "parsed" /\ upc' = "done"
  /\ output' = IF model = <<>> THEN [kind |-> "panic"]
               ELSE IF FindCollision(model) THEN [kind |-> "refused"]
               ELSE IF ~StructsBuild(model) THEN [kind |-> "panic"]
               ELSE [kind |-> "json", json |-> MapToTable(model, response)]
  /\ UNCHANGED <<sent, inbox, model, dataSets, errorSets, response>>

PrintRaw ==
  /\ upc = "parsed" /\ Ends("raw")
  /\ UNCHANGED <<sent, inbox, model, dataSets, errorSets, response>>

UqlNext ==
  \/ RefuseQuery \/ SendQuery \/ RequestFails \/ ServiceAnswers \/ ServiceSendsErrors
  \/ \E chunk \in inbox : ReadDataSet(chunk) \/ ReadBadDataSet(chunk)
  \/ FinishResponse \/ PrintTable \/ PrintJson \/ PrintRaw

-----------------------------------------------------------------------------
UqlTypeOK ==
  /\ upc \in {"idle", "waits", "reads", "parsed", "done"}
  /\ errorSets \in BOOLEAN
  /\ model = sent.fields
  /\ {chunk.set : chunk \in inbox \cup sent.missing} \cup DOMAIN dataSets
       = IF model = <<>> THEN {} ELSE {chunk.set : chunk \in SentSets(Main, model, sent.rows)}
  /\ output.kind \in {"none", "refused", "failed", "panic", "table", "json", "raw"}

(* In whatever order the data sets come, the rows the command goes on with *)
(* are those the service nested; where something is missing the answer     *)
(* says so, and nothing is filled in that was not sent                     *)
(* (processResponse, resolveRefs).                                         *)
RECURSIVE PartOf(_, _)
PartOf(rows, whole) ==
  \/ rows = <<>>
  \/ /\ DOMAIN rows = DOMAIN whole
     /\ \A r \in DOMAIN rows : \A c \in DOMAIN whole[r] :
          /\ rows[r][c].v = whole[r][c].v /\ rows[r][c].set = <<>>
          /\ PartOf(rows[r][c].rows, whole[r][c].rows)

ParsedIsSent ==
  upc = "parsed" => /\ PartOf(response, sent.rows)
                    /\ response = sent.rows \/ errorSets

(* Every cell of the printed table is as wide as the name over its leaf    *)
(* column, at every depth, and the name of a group fits above its columns  *)
(* (makeFlatTable: the header is inflated to the content, then the content *)
(* to the header).                                                         *)
TableAligned ==
  output.kind = "table" =>
    LET header == output.table.header
    IN  /\ \A cell \in output.table.cells : cell[2] = header[cell[1]]
        /\ \A g \in Groups(model, 0) :
             g.own <= Sum1(SubSeq(header, g.first, g.last)) + Divider * (g.last - g.first)

(* The JSON output of an answer with a model either refuses names that     *)
(* collide or has, at every depth, an object for every row, with a key for *)
(* each column whose alias is a name of its own, its value under it, and   *)
(* nothing under that key of any other column (findCollision,              *)
(* transformModel, mapToTable).  A name of its own: no struct tag cuts the *)
(* alias, and none of another column to it; what becomes of the others     *)
(* ValuesNamedByAlias shows.                                               *)
OwnName(fields, c) ==
  /\ fields[c].alias.rest = "" /\ fields[c].alias # Hyphen
  /\ \A d \in DOMAIN fields \ {c} : fields[d].alias.name # fields[c].alias.name

OwnNames(fields) == {c \in DOMAIN fields : OwnName(fields, c)}

RECURSIVE HasValues(_, _, _, _)
HasValues(objects, fields, rows, all) ==
  /\ DOMAIN objects = DOMAIN rows
  /\ \A r \in DOMAIN rows : \A c \in IF all THEN DOMAIN fields ELSE OwnNames(fields) :
       /\ fields[c].alias \in DOMAIN objects[r]
       /\ LET cell == objects[r][fields[c].alias]
          IN  IF IsTable(fields[c]) THEN HasValues(cell.rows, fields[c].fields, rows[r][c].rows, all)
              ELSE cell.v = rows[r][c].v

JsonKeepsColumns ==
  /\ output.kind = "panic" => model = <<>>
  /\ output.kind = "json" => HasValues(output.json, model, response, FALSE)

(* Every value is stored in a field of an object that is named as the      *)
(* alias of its column (the comment at json.go:15).  It is not: of f(a, b) *)
(* and f(a, c), which are no collision, neither is in the output.          *)
ValuesNamedByAlias ==
  output.kind = "json" => HasValues(output.json, model, response, TRUE)
=============================================================================
