----------------------------- MODULE RecordFile -----------------------------
(***************************************************************************)
(* One artifact store of one namespace: the JSONL file the four languages  *)
(* share, and what the process that has it open keeps in memory.           *)
(*                                                                         *)
(* A line stands for its record: which Capsule it is, which of the records *)
(* that claim that ID (body), whether its originals are gone, whether the  *)
(* line is whole JSON, whether it still decodes as a record, and whether   *)
(* its newline was written.  Offsets are sums of widths, so a rewrite that *)
(* shortens a line moves the lines behind it, as it does in the file.      *)
(*                                                                         *)
(* Every call of the Python, Go and Rust stores runs under one mutex, and  *)
(* the TypeScript one has no await between reading its index and changing  *)
(* it, so a call is one step.  A process may stop between two calls or in  *)
(* the middle of one; what a torn write leaves is in Torn.                 *)
(***************************************************************************)
EXTENDS Integers, Sequences, SequencesExt, FiniteSetsExt

CONSTANTS Ids,       \* Capsule IDs
          Bodies,    \* the records that share an ID but not a checksum
          PathSets,  \* the declarations an application may make
          MaxLines   \* bound: lines a write may bring the file to

None == "none"

VARIABLES file,     \* [exists, lines]
          store,    \* what the open store keeps; store.port = None: closed
          answer,   \* the last call and what it returned
          failed    \* history: <<id, body>> of every put that tore

vars == <<file, store, answer, failed>>

Line(i, b) == [id |-> i, body |-> b, gone |-> FALSE,
               whole |-> TRUE, sound |-> TRUE, nl |-> TRUE]

\* A byte count in which a tombstoned line is shorter than the original and a
\* fragment shorter still.
Width(l) == (IF ~l.whole THEN 1 ELSE IF l.gone THEN 2 ELSE 3)
            + (IF l.nl THEN 1 ELSE 0)
OffsetOf(lines, k) == MapThenSumSet(LAMBDA j : Width(lines[j]), 1 .. k - 1)
SizeOf(lines) == OffsetOf(lines, Len(lines) + 1)

\* The lines that name a Capsule: terminated, and JSON.
Named(lines) == {k \in DOMAIN lines : lines[k].nl /\ lines[k].whole}
NamedIds(lines) == {lines[k].id : k \in Named(lines)}
LastLine(lines, i) == Max({k \in Named(lines) : lines[k].id = i})
FirstLine(lines, i) == Min({k \in Named(lines) : lines[k].id = i})
LastSpans(lines) ==
    [i \in NamedIds(lines) |-> OffsetOf(lines, LastLine(lines, i))]
ByFirstLine(lines) ==
    SetToSortSeq(NamedIds(lines),
                 LAMBDA i, j : FirstLine(lines, i) < FirstLine(lines, j))

\* The line a read at offset o of the file finds, if one starts there.
LinesAt(lines, o) == {k \in DOMAIN lines : OffsetOf(lines, k) = o}
Decodes(lines, i, o) ==
    \E k \in LinesAt(lines, o) :
        lines[k].whole /\ lines[k].sound /\ lines[k].id = i
RecordAt(lines, o) == lines[CHOOSE k \in LinesAt(lines, o) : TRUE]

\* The file with its last line ended.
Ended(lines) ==
    IF lines = <<>> THEN lines
    ELSE [lines EXCEPT ![Len(lines)].nl = TRUE]

\* What a write of line l that stops early may leave: nothing new, the prefix
\* that ends the damaged line, a fragment, or all of l but its newline.
Torn(lines, l) ==
    {lines, Ended(lines)} \cup
    {Append(Ended(lines), [l EXCEPT !.nl = FALSE, !.whole = w]) : w \in BOOLEAN}

Closed == [port |-> None, spans |-> <<>>, order |-> <<>>,
           declared |-> None, found |-> <<>>]
Open(p, spans, order) == [port |-> p, spans |-> spans, order |-> order,
                          declared |-> None, found |-> <<>>]

Has(i) == i \in DOMAIN store.spans
Stored(i) == RecordAt(file.lines, store.spans[i])
Readable(i) == Decodes(file.lines, i, store.spans[i])

\* What MemoryIndex.add makes of the index: nothing before a declaration, and
\* an ID it has keeps its place.
Added(i) == IF store.declared = None \/ i \in ToSet(store.found)
            THEN store.found ELSE Append(store.found, i)

Says(op, i, b, what) == answer' = [op |-> op, id |-> i, body |-> b, says |-> what]
Fails(op, i, b, what) == Says(op, i, b, what) /\ UNCHANGED <<file, store, failed>>
=============================================================================
