------------------------- MODULE StoreBackedLedger -------------------------
(***************************************************************************)
(* A ledger kept in an entry log and an artifact store                     *)
(* (capsule_emit.store_backed_ledger: Ledger.open_stores, append,          *)
(* append_padding, pad_to_bucket, and import_flat).                        *)
(*                                                                         *)
(* A line is written in two steps: its record is put into the artifact     *)
(* store, then its id is appended to the log, which is the commit point.   *)
(* A Ledger object keeps in memory the lines it replayed or wrote; before  *)
(* a write it looks whether the log has more.  Several processes use the   *)
(* same two stores, each under the writer lock its caller takes.           *)
(*                                                                         *)
(* Simplifications:                                                        *)
(*  - a record is [parent, pad]; its id is its position in "made".  Ids    *)
(*    are digests, so equal ids are equal records, and a retry sends the   *)
(*    same bytes.  Statements, envelopes and index keys are left out:      *)
(*    their checks come before any write;                                  *)
(*  - a Ledger's own RLock makes its calls one after the other, so a       *)
(*    Ledger is one process here.  Writers open with linear=True and       *)
(*    require_statements=False (imported records have no statements),      *)
(*    imports with both off;                                               *)
(*  - a call that is refused before it writes changes nothing and is no    *)
(*    action.  Records are never purged, as the module requires.           *)
(***************************************************************************)
EXTENDS Integers, Sequences, FiniteSetsExt

CONSTANTS
    Writers,        \* processes with a Ledger
    Importers,      \* runs of import_flat
    Nobody,         \* owner of the free writer lock
    FlatLength,     \* records of the flat ledger that is imported
    Bucket,         \* pad_to_bucket's bucket
    MaxMade,        \* bound: records
    MaxCalls,       \* bound: calls of writers
    MaxFaults       \* bound: calls that fail or die

Procs == Writers \cup Importers

ASSUME StoreBackedAssumption ==
    /\ Writers \cap Importers = {} /\ Nobody \notin Procs
    /\ Bucket \in Nat \ {0}
    /\ FlatLength \in Nat /\ MaxMade \in Nat
    /\ MaxCalls \in Nat /\ MaxFaults \in Nat

VARIABLES
    made,       \* every record that was ever made, the flat ledger's first
    log,        \* the entry log: ids
    records,    \* the artifact store: ids
    owner,      \* who holds the writer lock
    open,       \* whether a process has a Ledger
    lines,      \* its lines in memory
    pc,         \* where its call is
    call,       \* the id being written, the lines left, whether it
                \* is pad_to_bucket, the import's position
    calls, faults

vars == <<made, log, records, owner, open, lines, pc, call, calls, faults>>
stores == <<log, records>>

Ids == DOMAIN made
Flat == [n \in 1..FlatLength |-> n]     \* import_flat's "copy"

\* The last chained record of some lines, 0 when there is none.
ChainHead(ids) ==
    LET chained == {n \in DOMAIN ids : ~made[ids[n]].pad}
    IN  IF chained = {} THEN 0 ELSE ids[Max(chained)]

\* _admit with linear=True: every chained record's parent is the head.
Linear(ids) ==
    \A n \in DOMAIN ids :
        made[ids[n]].pad \/ made[ids[n]].parent = ChainHead(SubSeq(ids, 1, n - 1))

NoCall == [id |-> 0, left |-> 0, fill |-> FALSE, pos |-> 0]

\* A flat ledger is one chain or is not.
Init ==
    /\ \E chained \in BOOLEAN :
          made = [n \in 1..FlatLength |->
                    [parent |-> IF chained THEN n - 1 ELSE 0, pad |-> FALSE]]
    /\ log = <<>> /\ records = {} /\ owner = Nobody
    /\ open = [p \in Procs |-> FALSE]
    /\ lines = [p \in Procs |-> <<>>]
    /\ pc = [p \in Procs |-> "idle"]
    /\ call = [p \in Procs |-> NoCall]
    /\ calls = 0 /\ faults = 0

Goto(p, label) == pc' = [pc EXCEPT ![p] = label]

\* The caller takes its writer lock around a call.
Take(p) == pc[p] = "idle" /\ owner = Nobody /\ owner' = p

\* The call returns or raises.
Return(p) ==
    /\ owner' = Nobody
    /\ Goto(p, "idle")
    /\ call' = [call EXCEPT ![p] = NoCall]

-----------------------------------------------------------------------------
(* Ledger                                                                   *)

\* open_stores: the replay refuses a log with a missing record or, for a
\* writer, a broken chain.
Admits(p) ==
    /\ \A n \in DOMAIN log : log[n] \in records
    /\ p \in Writers => Linear(log)

OpenStores(p) ==
    /\ pc[p] = "idle" /\ owner = Nobody /\ Admits(p)
    /\ open' = [open EXCEPT ![p] = TRUE]
    /\ lines' = [lines EXCEPT ![p] = log]
    /\ UNCHANGED <<made, stores, owner, pc, call, calls, faults>>

\* A call that writes "left" lines, of which the first is "id"; "fill" tells
\* pad_to_bucket from the others.
Begin(p, id, left, fill) ==
    /\ Take(p) /\ open[p] /\ calls < MaxCalls
    /\ calls' = calls + 1
    /\ call' = [call EXCEPT ![p] = [id |-> id, left |-> left, fill |-> fill, pos |-> 0]]
    /\ Goto(p, "check")
    /\ UNCHANGED <<stores, open, lines, faults>>

\* A capsule or padding record is built and signed.
Make(record) == Len(made) < MaxMade /\ made' = Append(made, record)

\* append of a new capsule that extends the head this Ledger knows.
AppendNew(p) ==
    /\ Make([parent |-> ChainHead(lines[p]), pad |-> FALSE])
    /\ Begin(p, Len(made) + 1, 1, FALSE)

\* append or append_padding of a record that was made before: a retry, or a
\* capsule another process made and did not get through.
AppendAgain(p) ==
    \E id \in (FlatLength + 1)..Len(made) :
        /\ made[id].pad \/ made[id].parent = ChainHead(lines[p])
        /\ Begin(p, id, 1, FALSE)
        /\ UNCHANGED made

Padding == [parent |-> 0, pad |-> TRUE]

\* Faulty variant: the remainder instead of what is missing to the bucket.
MissingIsRemainder(entries) == entries % Bucket

Missing(entries) == (Bucket - (entries % Bucket)) % Bucket

\* pad_to_bucket; nothing happens when no line is missing.
PadToBucket(p) ==
    /\ Missing(Len(lines[p])) > 0
    /\ Make(Padding)
    /\ Begin(p, Len(made) + 1, Missing(Len(lines[p])), TRUE)

\* _check_not_stale
CheckNotStale(p) ==
    /\ pc[p] = "check" /\ Len(log) = Len(lines[p])
    /\ Goto(p, "put")
    /\ UNCHANGED <<made, stores, owner, open, lines, call, calls, faults>>

Stale(p) ==
    /\ pc[p] = "check" /\ Len(log) > Len(lines[p])
    /\ Return(p)
    /\ UNCHANGED <<made, stores, open, lines, calls, faults>>

\* Faulty variant: the entry comes first, the record after it.
EntryFirst(p) ==
    /\ pc[p] = "put"
    /\ Goto(p, "entry")
    /\ UNCHANGED <<made, stores, owner, open, lines, call, calls, faults>>

\* _commit, first half
Put(p) ==
    /\ pc[p] = "put"
    /\ records' = records \cup {call[p].id}
    /\ Goto(p, "entry")
    /\ UNCHANGED <<made, log, owner, open, lines, call, calls, faults>>

\* external: the log inserts a value once.
InLog(id) == \E n \in DOMAIN log : log[n] = id

\* After a line, pad_to_bucket makes its next padding and import_flat goes to
\* its next record; other calls return.
Continue(p, written) ==
    IF call[p].left <= 1 THEN Return(p) /\ UNCHANGED made
    ELSE /\ IF p \in Writers
            THEN /\ made' = Append(made, Padding)
                 /\ call' = [call EXCEPT ![p].left = @ - 1, ![p].id = Len(made) + 1]
            ELSE /\ call' = [call EXCEPT ![p].left = @ - 1, ![p].id = Flat[written + 1]]
                 /\ UNCHANGED made
         /\ Goto(p, "check")
         /\ UNCHANGED owner

\* Faulty variant: an id the log already holds is indexed once more.
AppendEntryTwice(p) ==
    /\ pc[p] = "entry"
    /\ log' = IF InLog(call[p].id) THEN log ELSE Append(log, call[p].id)
    /\ lines' = [lines EXCEPT ![p] = Append(@, call[p].id)]
    /\ Continue(p, Len(lines'[p]))
    /\ UNCHANGED <<records, open, calls, faults>>

\* _commit, second half, and _index_line
AppendEntry(p) ==
    /\ pc[p] = "entry" /\ ~InLog(call[p].id)
    /\ log' = Append(log, call[p].id)
    /\ lines' = [lines EXCEPT ![p] = Append(@, call[p].id)]
    /\ Continue(p, Len(lines[p]) + 1)
    /\ UNCHANGED <<records, open, calls, faults>>

AlreadyInLog(p) ==
    /\ pc[p] = "entry" /\ InLog(call[p].id)
    /\ Return(p)
    /\ UNCHANGED <<made, stores, open, lines, calls, faults>>

-----------------------------------------------------------------------------
(* import_flat                                                              *)

\* The log is the journal: what it holds must be the first flat records.
Resumable == Len(log) <= FlatLength /\ \A n \in DOMAIN log : log[n] = Flat[n]

\* Faulty variant: an import that was cut short cannot be resumed.
ImportFromScratch(i) ==
    /\ Take(i) /\ log = <<>>
    /\ open' = [open EXCEPT ![i] = TRUE]
    /\ lines' = [lines EXCEPT ![i] = log]
    /\ call' = [call EXCEPT ![i].pos = 1]
    /\ Goto(i, "putall")
    /\ UNCHANGED <<made, stores, calls, faults>>

Import(i) ==
    /\ Take(i) /\ Admits(i) /\ Resumable
    /\ open' = [open EXCEPT ![i] = TRUE]
    /\ lines' = [lines EXCEPT ![i] = log]
    /\ call' = [call EXCEPT ![i].pos = Len(log) + 1]
    /\ Goto(i, "putall")
    /\ UNCHANGED <<made, stores, calls, faults>>

ImportPut(i) ==
    /\ pc[i] = "putall" /\ call[i].pos <= FlatLength
    /\ records' = records \cup {Flat[call[i].pos]}
    /\ call' = [call EXCEPT ![i].pos = @ + 1]
    /\ UNCHANGED <<made, log, owner, open, lines, pc, calls, faults>>

\* The lines are committed as append commits them, record included.
ImportCommit(i, ready) ==
    /\ pc[i] = "putall" /\ ready
    /\ IF Len(lines[i]) = FlatLength THEN Return(i)
       ELSE /\ call' = [call EXCEPT ![i].id = Flat[Len(lines[i]) + 1],
                                    ![i].left = FlatLength - Len(lines[i])]
            /\ Goto(i, "check")
            /\ UNCHANGED owner
    /\ UNCHANGED <<made, stores, open, lines, calls, faults>>

\* Faulty variant: entries are appended although records are missing.
ImportCommitsEarly(i) == ImportCommit(i, TRUE)

ImportCommits(i) == ImportCommit(i, call[i].pos > FlatLength)

-----------------------------------------------------------------------------
(* Failures                                                                 *)

\* The store refuses a record or the log an entry; or the entry is written
\* and the answer lost, so the Ledger does not know of it.
Fails(p) ==
    /\ pc[p] # "idle" /\ faults < MaxFaults /\ faults' = faults + 1
    /\ \/ UNCHANGED log
       \/ pc[p] = "entry" /\ ~InLog(call[p].id) /\ log' = Append(log, call[p].id)
    /\ Return(p)
    /\ UNCHANGED <<made, records, open, lines, calls>>

\* The process dies, and its Ledger and lock with it.
Crash(p) ==
    /\ pc[p] # "idle" /\ faults < MaxFaults /\ faults' = faults + 1
    /\ open' = [open EXCEPT ![p] = FALSE]
    /\ lines' = [lines EXCEPT ![p] = <<>>]
    /\ Return(p)
    /\ UNCHANGED <<made, stores, calls>>

-----------------------------------------------------------------------------
Step(p) ==
    \/ CheckNotStale(p) \/ Stale(p) \/ Put(p) \/ AppendEntry(p) \/ AlreadyInLog(p)

ImportStep(i) == ImportPut(i) \/ ImportCommits(i)

Next ==
    \/ \E p \in Writers : OpenStores(p) \/ AppendNew(p) \/ AppendAgain(p) \/ PadToBucket(p)
    \/ \E i \in Importers : Import(i) \/ ImportStep(i)
    \/ \E p \in Procs : Step(p) \/ Fails(p) \/ Crash(p)

Spec == Init /\ [][Next]_vars

\* A call that was made goes on, and an import is run until it is through.
FairSpec ==
    /\ Spec
    /\ \A p \in Procs : WF_vars(Step(p))
    /\ \A i \in Importers : WF_vars(ImportStep(i)) /\ WF_vars(Import(i))

-----------------------------------------------------------------------------
(* Properties.                                                              *)

Record == [parent : Nat, pad : BOOLEAN]

TypeOK ==
    /\ made \in Seq(Record) /\ log \in Seq(Ids) /\ records \subseteq Ids
    /\ owner \in Procs \cup {Nobody}
    /\ open \in [Procs -> BOOLEAN] /\ lines \in [Procs -> Seq(Ids)]
    /\ pc \in [Procs -> {"idle", "check", "put", "entry", "putall"}]
    /\ call \in [Procs -> [id : 0..Len(made), left : Nat, fill : BOOLEAN, pos : Nat]]
    /\ calls \in Nat /\ faults \in Nat

\* The module docstring's commit point: an entry never names a record that
\* the store does not hold, whatever fails between the two writes.
EntriesHaveRecords == \A n \in DOMAIN log : log[n] \in records

FlatIsChain == \A n \in 1..FlatLength : made[n].parent = n - 1

\* "A refused line leaves the ledger reopenable": unless a flat ledger that
\* is not one chain was imported, the log is a chain that the next
\* open_stores accepts, although processes hold old heads, fail and retry.
ChainNeverForks ==
    (FlatIsChain \/ \A n \in DOMAIN log : log[n] > FlatLength) => Linear(log)

\* A Ledger's lines are the log's first lines: the positions it reports are
\* the log's, also after failures it was not told the outcome of.
LinesAreThePrefix ==
    \A p \in Procs : Len(lines[p]) <= Len(log) /\ lines[p] = SubSeq(log, 1, Len(lines[p]))

\* import_flat "every record is put before any entry is appended": no part of
\* an import is in the log while a record could still be refused.
NoPartialImport ==
    (\E n \in DOMAIN log : log[n] <= FlatLength) => 1..FlatLength \subseteq records

\* pad_to_bucket that wrote its last line leaves a full bucket in the log.
PadsFillTheBucket ==
    [][\A p \in Writers :
          (call[p].fill /\ call[p].left = 1 /\ lines'[p] # lines[p] /\ open'[p])
          => Len(log') % Bucket = 0]_vars

\* What append, append_padding and pad_to_bucket leave is one chain, ended by
\* padding where it is to be.
ChainIsKept == []ChainNeverForks /\ PadsFillTheBucket

Imported == Len(log) >= FlatLength /\ \A n \in 1..FlatLength : log[n] = Flat[n]

\* import_flat "re-runnable: the log is the journal": run again after every
\* failure, it ends with all flat records, unless a line of somebody else got
\* in between.
ImportCompletes == <>(Imported \/ ~Resumable)
=============================================================================
