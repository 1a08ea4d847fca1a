----------------------------- MODULE RustLedger -----------------------------
(***************************************************************************)
(* rust/capsule-emit/src/ledger.rs: the ledger of a node, one line per     *)
(* record, in capsules.jsonl with a statement file per line (layout        *)
(* "flat") or in a CLL entry log with an artifact record per entry (layout *)
(* "stores").  Its one writer appends chained records and padding; a write *)
(* may stop half way, fail, or be done without the writer hearing of it.   *)
(***************************************************************************)
EXTENDS Integers, Sequences, SequencesExt, FiniteSetsExt

CONSTANT MaxLines    \* bound: lines and seals

Closed == [open |-> FALSE]
Free == [id |-> 0, parent |-> 0, pad |-> FALSE]

VARIABLES layout,   \* "flat" or "stores"
          file,     \* the complete lines: [id, parent, pad]; Glued does not parse
          torn,     \* bytes of a line that was never ended follow them
          bodies,   \* the ids with a statement file, or with a record
          led,      \* the open Ledger: [open, head, count, writing]
          sealed,   \* history: how many ids were taken
          misled,   \* history: a write failed that reached the disk
          faults    \* bound: crashes and failures still to come

ledgerVars == <<layout, file, torn, bodies, led, sealed, misled, faults>>

Glued == Free
Ids(lines) == [k \in DOMAIN lines |-> lines[k].id]
Line(id, parent, pad) == [id |-> id, parent |-> parent, pad |-> pad]
Opened(head, count) == [open |-> TRUE, head |-> head, count |-> count, writing |-> Free]
Fault == faults > 0 /\ faults' = faults - 1

\* The chain head before line k: padding is outside the chain.
HeadBefore(lines, k) ==
    LET real == {j \in 1 .. k - 1 : ~lines[j].pad}
    IN IF real = {} THEN 0 ELSE lines[Max(real)].id

\* What Replay::admit accepts, line by line.
Admitted(lines) ==
    \A k \in DOMAIN lines :
        /\ lines[k] # Glued
        /\ lines[k].pad \/ lines[k].parent = HeadBefore(lines, k)
        /\ lines[k].id \in bodies

LedgerInit ==
    /\ file = <<>> /\ torn = FALSE /\ bodies = {}
    /\ led = Closed
    /\ sealed = 0 /\ misled = FALSE

\* Ledger::open(): the torn line is cut off, and every other one replayed.
OpenFlat ==
    /\ layout = "flat"
    /\ ~led.open /\ Admitted(file)
    /\ led' = Opened(HeadBefore(file, Len(file) + 1), Len(file))
    /\ torn' = FALSE
    /\ UNCHANGED <<layout, file, bodies, sealed, misled, faults>>

\* open_stores(): every entry is replayed with its record.
OpenStores ==
    /\ layout = "stores"
    /\ ~led.open /\ Admitted(file)
    /\ led' = Opened(HeadBefore(file, Len(file) + 1), Len(file))
    /\ UNCHANGED <<layout, file, torn, bodies, sealed, misled, faults>>

\* write_line(): the statement, or the record, before the line.
BodyFirst(id) == bodies' = bodies \cup {id}

\* Ledger::append() of a record sealed on the head.
Append1 ==
    /\ led.open /\ led.writing = Free
    /\ sealed < MaxLines /\ Len(file) < MaxLines
    /\ sealed' = sealed + 1
    /\ BodyFirst(sealed + 1)
    /\ led' = [led EXCEPT !.writing = Line(sealed + 1, led.head, FALSE)]
    /\ UNCHANGED <<layout, file, torn, misled, faults>>

\* A line goes behind whatever the file ends with.
Written(l) == /\ file' = Append(file, IF torn THEN Glued ELSE l)
              /\ torn' = FALSE

\* The line is written and the head moves.
WriteLine ==
    /\ led.open /\ led.writing # Free
    /\ Written(led.writing)
    /\ led' = Opened(led.writing.id, led.count + 1)
    /\ UNCHANGED <<layout, bodies, sealed, misled, faults>>

\* The write fails: with nothing done, with a piece of the line in the file, or
\* with all of it (a failed fsync, an append to the log nobody heard of).
WriteFails ==
    /\ led.open /\ led.writing # Free
    /\ Fault
    /\ \/ UNCHANGED <<file, torn, misled>>
       \/ /\ layout = "flat"
          /\ torn' = TRUE /\ misled' = TRUE
          /\ UNCHANGED file
       \/ /\ Written(led.writing)
          /\ misled' = TRUE
    /\ led' = [led EXCEPT !.writing = Free]
    /\ UNCHANGED <<layout, bodies, sealed>>

\* The process ends; a line it was writing is there, or a piece, or nothing.
LedgerDies ==
    /\ led' = Closed
    /\ \/ UNCHANGED <<file, torn>>
       \/ /\ led.open /\ led.writing # Free
          /\ \/ Written(led.writing)
             \/ layout = "flat" /\ torn' = TRUE /\ UNCHANGED file
    /\ UNCHANGED <<layout, bodies, sealed, misled>>

\* pad_to_bucket(): how many padding records are missing.
Missing(bucket, count) == (bucket - (count % bucket)) % bucket

\* Variant: padding moves the head.
HeadAfterPadsLast(ids) == IF ids = <<>> THEN led.head ELSE Last(ids)

\* append_padding(): the head does not move.
HeadAfterPads(ids) == led.head

\* pad_to_bucket(), under the writer's lock: all of them, or k and an error.
PadsBy(k) ==
    LET ids == [j \in 1 .. k |-> sealed + j]
        pads == [j \in 1 .. k |-> IF j = 1 /\ torn THEN Glued ELSE Line(ids[j], 0, TRUE)]
    IN /\ file' = file \o pads
       /\ torn' = (torn /\ k = 0)
       /\ bodies' = bodies \cup ToSet(ids)
       /\ sealed' = sealed + k
       /\ led' = [led EXCEPT !.count = @ + k, !.head = HeadAfterPads(ids)]
       /\ UNCHANGED <<layout, misled>>

LedgerNext == OpenFlat \/ OpenStores \/ Append1 \/ WriteLine \/ WriteFails
=============================================================================
