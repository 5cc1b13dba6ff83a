------------------------------ MODULE FlatTable ------------------------------
(***************************************************************************)
(* What package uql makes of a parsed answer: the widths of the columns of *)
(* the printed table (flat_table.go) and the objects of the JSON output    *)
(* (json.go).  A field is [alias, width, form, fields], width being that   *)
(* of its alias and fields <<>> for a scalar; a cell is [v, set, rows]: the *)
(* width of a scalar, the data set a reference names, the rows of a table. *)
(***************************************************************************)
EXTENDS Integers, Sequences, FiniteSetsExt, SequencesExt

IsTable(f) == f.fields # <<>>

\* The space on each side of a text, and the divider between two columns.
Padding == 2
Divider == 1
Sum1(s) == FoldSeq(LAMBDA x, y: x + y, 0, s)

RECURSIVE LeafCount(_)
LeafCount(fields) ==
  Sum1([c \in DOMAIN fields |-> IF IsTable(fields[c]) THEN LeafCount(fields[c].fields) ELSE 1])

\* The leaf columns that column c of fields spans.
FirstLeaf(fields, c) == 1 + LeafCount(SubSeq(fields, 1, c - 1))
SpanOf(fields, c, widths) == SubSeq(widths, FirstLeaf(fields, c), FirstLeaf(fields, c + 1) - 1)

-----------------------------------------------------------------------------
(* The body: the widest content of every leaf column, 0 for an empty table *)
(* of whatever columns (makeCell, calculateMaxWidths, childWidths).        *)

RECURSIVE ContentWidths(_, _)
CellWidths(f, cell) ==
  IF IsTable(f) THEN ContentWidths(f.fields, cell.rows) ELSE << cell.v + Padding >>
RowWidths(fields, row) == FlattenSeq([c \in DOMAIN fields |-> CellWidths(fields[c], row[c])])
ContentWidths(fields, rows) ==
  [i \in 1..LeafCount(fields) |-> Max({0} \cup {RowWidths(fields, rows[r])[i] : r \in DOMAIN rows})]

-----------------------------------------------------------------------------
(* The header: a name wider than the columns below it widens the last of   *)
(* them, and what the columns took is copied back up.                      *)

Widened(own, widths) ==
  LET total == Sum1(widths) + Divider * (Len(widths) - 1)
  IN  IF own > total THEN [widths EXCEPT ![Len(widths)] = @ + own - total] ELSE widths

RECURSIVE InflateHeader(_, _)
\* Mutant: what the columns below took is not copied back.
InflateColumnsUncopied(fields, widths) ==
  [ drawn |-> FlattenSeq([c \in DOMAIN fields |->
                InflateHeader(fields[c], SpanOf(fields, c, widths)).drawn]),
    max   |-> widths ]

InflateColumns(fields, widths) ==
  LET part == [c \in DOMAIN fields |-> InflateHeader(fields[c], SpanOf(fields, c, widths))]
  IN  [ drawn |-> FlattenSeq([c \in DOMAIN fields |-> part[c].drawn]),
        max   |-> FlattenSeq([c \in DOMAIN fields |-> part[c].max]) ]
InflateHeader(f, widths) ==
  LET wide == Widened(f.width + Padding, widths)
  IN  IF IsTable(f) THEN InflateColumns(f.fields, wide) ELSE [drawn |-> wide, max |-> wide]

-----------------------------------------------------------------------------
(* The table: the body is widened to the columns both agree on.            *)

\* Every cell drawn, as its leaf column and its width; an empty table is
\* drawn as one row of blanks.
RECURSIVE DrawnCells(_, _, _, _)
DrawnCells(fields, rows, widths, before) ==
  IF rows = <<>>
  THEN {<<before + i, widths[i]>> : i \in DOMAIN widths}
  ELSE UNION {LET f     == fields[c]
                  span  == SpanOf(fields, c, widths)
                  start == before + FirstLeaf(fields, c) - 1
              IN  IF IsTable(f) THEN DrawnCells(f.fields, rows[r][c].rows, span, start)
                  ELSE {<<start + 1, Max({rows[r][c].v + Padding, span[1]})>>}
              : r \in DOMAIN rows, c \in DOMAIN fields}

MakeFlatTable(fields, rows) ==
  LET main    == ContentWidths(fields, rows)
      header  == InflateColumns(fields, main)
      unified == [i \in DOMAIN main |-> Max({main[i], header.max[i]})]
  IN  [header |-> header.drawn, cells |-> DrawnCells(fields, rows, unified, 0)]

\* The names of groups of columns and the leaves each spans, for the properties.
RECURSIVE Groups(_, _)
Groups(fields, before) ==
  UNION {LET start == before + FirstLeaf(fields, c) - 1
         IN  {[own |-> fields[c].width + Padding, first |-> start + 1,
               last |-> start + LeafCount(fields[c].fields)]} \cup Groups(fields[c].fields, start)
         : c \in {d \in DOMAIN fields : IsTable(fields[d])}}

-----------------------------------------------------------------------------
(* JSON: a row is a struct with a field for every column, tagged with its  *)
(* alias.  An alias is [name, rest]: name is what encoding/json takes of   *)
(* the tag, up to a comma or a quote, and rest what it loses.              *)

Aliases(fields) == {fields[c].alias : c \in DOMAIN fields}
RepeatsAlias(fields) == Cardinality(Aliases(fields)) < Len(fields)

\* Mutant: the tables in the table are not searched.
FindTopCollision(fields) == RepeatsAlias(fields)

RECURSIVE FindCollision(_)
FindCollision(fields) ==
  \/ RepeatsAlias(fields)
  \/ \E c \in DOMAIN fields : IsTable(fields[c]) /\ FindCollision(fields[c].fields)

\* The struct type of a row cannot be built with two fields of one name; the names
\* of the fields encode the whole aliases.
RECURSIVE StructsBuild(_)
StructsBuild(fields) ==
  /\ ~RepeatsAlias(fields)
  /\ \A c \in DOMAIN fields : IsTable(fields[c]) => StructsBuild(fields[c].fields)

\* The key of a field: without a usable name it is that of the struct's field, which
\* stands for the whole alias.
JsonKey(alias) == IF alias.name = "" THEN alias ELSE [alias EXCEPT !.rest = ""]

\* A field tagged "-" is left out, and so are all fields that share a key.
Hidden(alias) == alias = [name |-> "-", rest |-> ""]
Marshalled(fields) ==
  {c \in DOMAIN fields :
     /\ ~Hidden(fields[c].alias)
     /\ \A d \in DOMAIN fields \ {c} : ~Hidden(fields[d].alias)
                                      => JsonKey(fields[d].alias) # JsonKey(fields[c].alias)}

RECURSIVE MapToTable(_, _)
MapToTable(fields, rows) ==
  [r \in DOMAIN rows |->
     [key \in {JsonKey(fields[c].alias) : c \in Marshalled(fields)} |->
        LET c == CHOOSE c \in Marshalled(fields) : JsonKey(fields[c].alias) = key
        IN  IF IsTable(fields[c])
            THEN [v |-> 0, rows |-> MapToTable(fields[c].fields, rows[r][c].rows)]
            ELSE [v |-> rows[r][c].v, rows |-> <<>>]]]
=============================================================================
