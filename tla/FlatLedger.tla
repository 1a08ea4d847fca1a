---------------------------- MODULE FlatLedger ----------------------------
(***************************************************************************)
(* Appending to one flat ledger file from several threads and processes    *)
(* (capsule_emit.ledger: append_to_ledger, _writer_lock, _write_line;      *)
(* capsule_emit.legacy_ledger: the shared LegacyLedger of a process and    *)
(* its incremental index).                                                 *)
(*                                                                         *)
(* The file is a sequence of pieces, the byte runs between newlines.  A    *)
(* piece grows while it is written: first a fragment, which does not       *)
(* parse, then the whole line without its newline, then a finished line.   *)
(* A writer that dies or whose write fails leaves the piece as it is.      *)
(*                                                                         *)
(* Simplifications:                                                        *)
(*  - the file exists and is only appended to.  A file that was replaced   *)
(*    or cut by somebody else is read again from its start by the code;    *)
(*  - flock, and the in-process lock that guards the index, are held from  *)
(*    one step to another only around a write: a read is one step;         *)
(*  - the deprecation window and the move of the default ledger are left   *)
(*    out, as are lines that are no JSON object or carry no capsule_id;    *)
(*  - a wait whose timeout expires is a call that does not wait.           *)
(***************************************************************************)
EXTENDS Integers, Sequences

CONSTANTS
    Entry,          \* the lines there can be: a capsule id and the rest
    Threads, Procs,
    ProcOf,         \* the process of each thread
    Nobody,         \* owner of a free lock
    MayWait,        \* TRUE: calls with wait=True happen
    MaxCalls,       \* bound: appends attempted
    MaxFailures,    \* bound: writes cut short by an error
    MaxCrashes      \* bound: processes killed

NoEntry == [id |-> "none", val |-> "none"]

ASSUME FlatLedgerAssumption ==
    /\ NoEntry \notin Entry
    /\ ProcOf \in [Threads -> Procs]
    /\ Nobody \notin Threads
    /\ MayWait \in BOOLEAN
    /\ {MaxCalls, MaxFailures, MaxCrashes} \subseteq Nat

VARIABLES
    file,       \* the pieces on disk: [entry, parses, nl]
    index,      \* per process: lines, consumed pieces and the torn tail
    appendLock, \* per process: owner of _append_lock
    flock,      \* owner of the sidecar lock file's flock
    pc, call,   \* per thread: where it is, and the line it appends
    told,       \* entries and sequence numbers returned to callers
    calls, failures, crashes

vars == <<file, index, appendLock, flock, pc, call, told, calls, failures, crashes>>
bounds == <<calls, failures, crashes>>

EmptyIndex == [lines |-> <<>>, consumed |-> 0, tail |-> NoEntry]
NoCall == [entry |-> NoEntry, wait |-> FALSE]

Init ==
    /\ file = <<>>
    /\ index = [p \in Procs |-> EmptyIndex]
    /\ appendLock = [p \in Procs |-> Nobody]
    /\ flock = Nobody
    /\ pc = [t \in Threads |-> "idle"]
    /\ call = [t \in Threads |-> NoCall]
    /\ told = {}
    /\ calls = 0 /\ failures = 0 /\ crashes = 0

-----------------------------------------------------------------------------
(* Reading.                                                                 *)

\* What a reader of a run of pieces sees: the entries that parse, in order.
EntriesOf(pieces) ==
    LET seen[n \in 0 .. Len(pieces)] ==
            IF n = 0 THEN <<>>
            ELSE IF pieces[n].parses THEN Append(seen[n - 1], pieces[n].entry)
            ELSE seen[n - 1]
    IN  seen[Len(pieces)]

Entries == EntriesOf(file)

Torn == file # <<>> /\ ~file[Len(file)].nl
Complete == IF Torn THEN Len(file) - 1 ELSE Len(file)

\* _refresh: index the finished lines after the last one consumed.  A torn
\* tail counts when it parses, and is read again next time.
Refreshed(x) ==
    [lines |-> x.lines \o EntriesOf(SubSeq(file, x.consumed + 1, Complete)),
     consumed |-> Complete,
     tail |-> IF Torn /\ file[Len(file)].parses THEN file[Len(file)].entry
                                                ELSE NoEntry]

All(x) == IF x.tail = NoEntry THEN x.lines ELSE Append(x.lines, x.tail)

Found(x, id) == {i \in DOMAIN All(x) : All(x)[i].id = id}

\* Threads of p inside the locked part of _write_locked.
Writing(p) ==
    {t \in Threads : ProcOf[t] = p
                     /\ pc[t] \in {"check", "repair", "part", "body", "nl", "done"}}

\* entries(), get(), scan_entries(): any reader refreshes first.
Read(p) ==
    /\ Writing(p) = {}
    /\ index' = [index EXCEPT ![p] = Refreshed(@)]
    /\ UNCHANGED <<file, appendLock, flock, pc, call, told, bounds>>

-----------------------------------------------------------------------------
(* append_to_ledger, append_any, _write_locked                              *)

Goto(t, label) == pc' = [pc EXCEPT ![t] = label]

\* Leaving the with block releases the locks taken so far.
Leave(t) ==
    /\ Goto(t, "idle")
    /\ call' = [call EXCEPT ![t] = NoCall]
    /\ appendLock' = [appendLock EXCEPT ![ProcOf[t]] = Nobody]
    /\ flock' = IF flock = t THEN Nobody ELSE flock

CallAppend(t) ==
    /\ pc[t] = "idle" /\ calls < MaxCalls
    /\ calls' = calls + 1
    /\ \E e \in Entry, w \in {FALSE, MayWait} :
          call' = [call EXCEPT ![t] = [entry |-> e, wait |-> w]]
    /\ Goto(t, "append")
    /\ UNCHANGED <<file, index, appendLock, flock, told, failures, crashes>>

LockAppend(t) ==
    /\ pc[t] = "append" /\ appendLock[ProcOf[t]] = Nobody
    /\ appendLock' = [appendLock EXCEPT ![ProcOf[t]] = t]
    /\ Goto(t, "flock")
    /\ UNCHANGED <<file, index, flock, call, told, bounds>>

\* Faulty variant: the flock is not looked at.
LockFileIgnored(t) ==
    /\ pc[t] = "flock"
    /\ flock' = t
    /\ Goto(t, "check")
    /\ UNCHANGED <<file, index, appendLock, call, told, bounds>>

LockFile(t) ==
    /\ pc[t] = "flock" /\ flock = Nobody
    /\ flock' = t
    /\ Goto(t, "check")
    /\ UNCHANGED <<file, index, appendLock, call, told, bounds>>

\* LedgerLockedError.
Locked(t) ==
    /\ pc[t] = "flock" /\ flock # Nobody /\ ~call[t].wait
    /\ Leave(t)
    /\ UNCHANGED <<file, index, told, bounds>>

\* Already stored: idempotent when the line is the same, else ConflictError.
CheckFound(t) ==
    /\ pc[t] = "check"
    /\ index' = [index EXCEPT ![ProcOf[t]] = Refreshed(@)]
    /\ \E i \in Found(index'[ProcOf[t]], call[t].entry.id) :
          LET e == All(index'[ProcOf[t]])[i]
          IN told' = IF e = call[t].entry
                     THEN told \cup {[entry |-> e, seq |-> i]} ELSE told
    /\ Leave(t)
    /\ UNCHANGED <<file, bounds>>

\* Faulty variant: the index of the last read decides, without a refresh.
CheckNewStale(t) ==
    /\ pc[t] = "check"
    /\ Found(index[ProcOf[t]], call[t].entry.id) = {}
    /\ Goto(t, IF Torn THEN "repair" ELSE "part")
    /\ UNCHANGED <<file, index, appendLock, flock, call, told, bounds>>

CheckNew(t) ==
    /\ pc[t] = "check"
    /\ index' = [index EXCEPT ![ProcOf[t]] = Refreshed(@)]
    /\ Found(index'[ProcOf[t]], call[t].entry.id) = {}
    /\ Goto(t, IF Torn THEN "repair" ELSE "part")
    /\ UNCHANGED <<file, appendLock, flock, call, told, bounds>>

SetLast(piece) == file' = [file EXCEPT ![Len(file)] = piece]

\* _write_line: a torn last line gets its newline first.
RepairTail(t) ==
    /\ pc[t] = "repair"
    /\ SetLast([file[Len(file)] EXCEPT !.nl = TRUE])
    /\ Goto(t, "part")
    /\ UNCHANGED <<index, appendLock, flock, call, told, bounds>>

WritePart(t) ==
    /\ pc[t] = "part"
    /\ file' = Append(file, [entry |-> call[t].entry, parses |-> FALSE, nl |-> FALSE])
    /\ Goto(t, "body")
    /\ UNCHANGED <<index, appendLock, flock, call, told, bounds>>

WriteBody(t) ==
    /\ pc[t] = "body"
    /\ SetLast([file[Len(file)] EXCEPT !.parses = TRUE])
    /\ Goto(t, "nl")
    /\ UNCHANGED <<index, appendLock, flock, call, told, bounds>>

WriteNewline(t) ==
    /\ pc[t] = "nl"
    /\ SetLast([file[Len(file)] EXCEPT !.nl = TRUE])
    /\ Goto(t, "done")
    /\ UNCHANGED <<index, appendLock, flock, call, told, bounds>>

\* Faulty variant: the exception skips the release of the locks.
WriteFailsLocked(t) ==
    /\ pc[t] \in {"repair", "part", "body", "nl"} /\ failures < MaxFailures
    /\ failures' = failures + 1
    /\ Goto(t, "idle")
    /\ UNCHANGED <<file, index, appendLock, flock, call, told, calls, crashes>>

\* The disk is full or the write fails: the exception leaves the with block.
WriteFails(t) ==
    /\ pc[t] \in {"repair", "part", "body", "nl"} /\ failures < MaxFailures
    /\ failures' = failures + 1
    /\ Leave(t)
    /\ UNCHANGED <<file, index, told, calls, crashes>>

\* Index the line just written and return its sequence number.
Inserted(t) ==
    /\ pc[t] = "done"
    /\ index' = [index EXCEPT ![ProcOf[t]] = Refreshed(@)]
    /\ told' = told \cup {[entry |-> All(index'[ProcOf[t]])[i], seq |-> i] :
                             i \in Found(index'[ProcOf[t]], call[t].entry.id)}
    /\ Leave(t)
    /\ UNCHANGED <<file, bounds>>

-----------------------------------------------------------------------------
\* The kernel releases a dead process's flock; its memory is gone.
Crash(p) ==
    /\ crashes < MaxCrashes
    /\ crashes' = crashes + 1
    /\ pc' = [t \in Threads |-> IF ProcOf[t] = p THEN "idle" ELSE pc[t]]
    /\ call' = [t \in Threads |-> IF ProcOf[t] = p THEN NoCall ELSE call[t]]
    /\ index' = [index EXCEPT ![p] = EmptyIndex]
    /\ appendLock' = [appendLock EXCEPT ![p] = Nobody]
    /\ flock' = IF flock # Nobody /\ ProcOf[flock] = p THEN Nobody ELSE flock
    /\ UNCHANGED <<file, told, calls, failures>>

Step(t) ==
    \/ LockAppend(t) \/ LockFile(t) \/ Locked(t)
    \/ CheckFound(t) \/ CheckNew(t)
    \/ RepairTail(t) \/ WritePart(t) \/ WriteBody(t) \/ WriteNewline(t)
    \/ WriteFails(t) \/ Inserted(t)

Next ==
    \/ \E t \in Threads : CallAppend(t) \/ Step(t)
    \/ \E p \in Procs : Read(p) \/ Crash(p)

Spec == Init /\ [][Next]_vars

\* A thread inside append_to_ledger keeps running.
FairSpec == Spec /\ \A t \in Threads : WF_vars(Step(t))

-----------------------------------------------------------------------------
(* Properties.                                                              *)

TypeOK ==
    /\ \A i \in DOMAIN file :
          /\ file[i] \in [entry : Entry, parses : BOOLEAN, nl : BOOLEAN]
          /\ i < Len(file) => file[i].nl
    /\ \A p \in Procs : index[p].consumed \in 0..Len(file)
    /\ appendLock \in [Procs -> Threads \cup {Nobody}]
    /\ flock \in Threads \cup {Nobody}
    /\ call \in [Threads -> [entry : Entry \cup {NoEntry}, wait : BOOLEAN]]

\* docs/concurrency.md, "One log, one writer": no two threads of any process
\* are inside the write at once.
OneWriter ==
    \A p, q \in Procs : \A t \in Writing(p), u \in Writing(q) : t = u

\* The incremental index of every process is what a full read of some earlier
\* file would give: it never counts a line twice, skips one, or keeps a
\* position that the file later contradicts.
IndexIsPrefix ==
    \A p \in Procs :
        LET seen == All(index[p])
        IN Len(seen) <= Len(Entries) /\ seen = SubSeq(Entries, 1, Len(seen))

\* The ledger implements the append-only log: the log grows when the line's
\* last byte before its newline is written, and what each process has indexed
\* of it is always its beginning.
Log == INSTANCE AppendOnlyLog WITH log <- Entries
ImplementsLog == Log!Spec /\ []IndexIsPrefix

\* Every append returns, is refused or fails: no lock is left behind.
AppendReturns == \A t \in Threads : pc[t] = "append" ~> pc[t] = "idle"
=============================================================================
