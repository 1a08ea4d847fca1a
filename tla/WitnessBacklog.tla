-------------------------- MODULE WitnessBacklog --------------------------
(***************************************************************************)
(* Checkpoints of one ledger and the witnesses that confirm them           *)
(* (capsule_emit.witness: _build_and_register, the durable retry queue     *)
(* retry_pending_witness_stamps, require_witness_receipt).                 *)
(*                                                                         *)
(* The queue is the ledger itself.  A checkpoint is registered with every  *)
(* witness and then appended as a "stamp" line with the witnesses that     *)
(* confirmed it; a confirmation that arrives later is a "backfill" line.   *)
(* A stamp is pending at a witness until one of the two names it.          *)
(*                                                                         *)
(* Simplifications:                                                        *)
(*  - the cadence and the dispatch slot are those of CheckpointCadence:    *)
(*    one builder at a time, which may start whenever it is idle;          *)
(*  - lines are only appended, so a root is determined by its MMR size,    *)
(*    and the size is the number of lines;                                 *)
(*  - a witness is external.  It accepts a log's first checkpoint, later   *)
(*    ones only when they chain from the last it accepted, and refuses     *)
(*    the others with a 409 that names that one;                           *)
(*  - only the "cll" binding and the mode "on" (no stub).                  *)
(***************************************************************************)
EXTENDS Integers, Sequences, FiniteSetsExt

CONSTANTS
    Witnesses,      \* resolved_witness_urls: a sequence of URLs
    FaultKinds,     \* the failures that may happen
    MaxCapsules,    \* bound: capsules sealed
    MaxCycles,      \* bound: checkpoints started
    MaxFaults,      \* bound: failures, after which everything answers
    MaxCrashes      \* bound: crashes of the process

ASSUME BacklogAssumption ==
    /\ Witnesses \in Seq(STRING) /\ Witnesses # <<>>
    /\ FaultKinds \subseteq
           {"unreachable", "lost", "backfill", "cose", "stamp", "build"}
    /\ {MaxCapsules, MaxCycles, MaxFaults, MaxCrashes} \subseteq Nat

VARIABLES
    lines,      \* the ledger
    prev,       \* state.prev, whose witness list grows while it registers
    at,         \* where the builder and an operator's drain are
    need,       \* lines a require_witness caller wants covered, 0 for others
    receipt,    \* the last answer of require_witness_receipt
    last,       \* external: size each witness accepted last, 0 for none
    accepted,   \* external: every size it accepted
    cycles, faults, crashes

vars == <<lines, prev, at, need, receipt, last, accepted, cycles, faults, crashes>>
world == <<last, accepted>>

Urls == {Witnesses[u] : u \in DOMAIN Witnesses}
Procs == {"builder", "operator"}

Capsule == [kind |-> "capsule"]
NoCheckpoint == [size |-> 0, prev |-> 0, cose |-> FALSE, wit |-> {}]
StampLine(c) == [kind |-> "stamp", size |-> c.size, prev |-> c.prev,
                 cose |-> c.cose, wit |-> c.wit]
BackfillLine(size, w) == [kind |-> "backfill", stamp |-> size, url |-> w]
Checkpoint(s) == [size |-> s.size, prev |-> s.prev, cose |-> s.cose, wit |-> s.wit]

Idle == [pc |-> "idle", snap |-> 0, url |-> 1, pos |-> 0]
Size == Len(lines)     \* state.mmr.size() after sync()

Init ==
    /\ lines = <<>> /\ prev = NoCheckpoint
    /\ at = [p \in Procs |-> Idle]
    /\ need = 0 /\ receipt = [need |-> 0, size |-> 0]
    /\ last = [w \in Urls |-> 0] /\ accepted = [w \in Urls |-> {}]
    /\ cycles = 0 /\ faults = 0 /\ crashes = 0

-----------------------------------------------------------------------------
(* checkpoint_witness_states over the first n lines.                        *)

Stamps(n) == {i \in 1..n : lines[i].kind = "stamp"}

EffectiveWitnesses(i, n) ==
    lines[i].wit \cup
    {lines[j].url : j \in {k \in 1..n : /\ lines[k].kind = "backfill"
                                        /\ lines[k].stamp = lines[i].size}}

Backlog(w, n) == {i \in Stamps(n) : w \notin EffectiveWitnesses(i, n)}

\* Faulty variant: a restart chains from nothing.
ChainFromNothing == NoCheckpoint

LastPersistedCheckpoint ==
    IF Stamps(Size) = {} THEN NoCheckpoint
                         ELSE Checkpoint(lines[Max(Stamps(Size))])

-----------------------------------------------------------------------------
(* One request to a witness, and what can become of it.                     *)

Fault(kind) ==
    /\ kind \in FaultKinds /\ faults < MaxFaults
    /\ faults' = faults + 1

Chains(w, c) == last[w] = 0 \/ c.prev = last[w]

Accept(w, c) ==
    /\ Chains(w, c)
    /\ last' = [last EXCEPT ![w] = c.size]
    /\ accepted' = [accepted EXCEPT ![w] = @ \cup {c.size}]

\* The request never arrives, or the answer to an accepted one is lost.
NoAnswer(w, c) ==
    \/ Fault("unreachable") /\ UNCHANGED world
    \/ Fault("lost") /\ Accept(w, c)

-----------------------------------------------------------------------------
(* retry_pending_witness_stamps, by the builder or by an operator.  It      *)
(* works through one snapshot of the ledger, witness by witness.            *)

Go(p, label) == at' = [at EXCEPT ![p].pc = label]

Url(p) == Witnesses[at[p].url]

Todo(p) ==
    {i \in Backlog(Url(p), at[p].snap) : lines[i].cose /\ i > at[p].pos}

Oldest(p) == Min(Todo(p))

AfterDrain(p) == IF p = "builder" THEN "build" ELSE "idle"

NextUrl(p) ==
    at' = [at EXCEPT ![p] =
              IF @.url < Len(Witnesses)
              THEN [@ EXCEPT !.pc = "drain", !.url = at[p].url + 1, !.pos = 0]
              ELSE [Idle EXCEPT !.pc = AfterDrain(p)]]

\* The next pending stamp of this witness.
NextStamp(p) == at' = [at EXCEPT ![p].pc = "drain", ![p].pos = Oldest(p)]

DrainBegins(p) ==
    at' = [at EXCEPT ![p] = [Idle EXCEPT !.pc = "drain", !.snap = Size]]

DrainCall ==
    /\ at["operator"].pc = "idle"
    /\ DrainBegins("operator")
    /\ UNCHANGED <<lines, prev, need, receipt, world, cycles, faults, crashes>>

DrainEmpty(p) ==
    /\ at[p].pc = "drain" /\ Todo(p) = {}
    /\ NextUrl(p)
    /\ UNCHANGED <<lines, prev, need, receipt, world, cycles, faults, crashes>>

DrainAccepted(p) ==
    /\ at[p].pc = "drain" /\ Todo(p) # {}
    /\ Accept(Url(p), lines[Oldest(p)])
    /\ Go(p, "backfill")
    /\ UNCHANGED <<lines, prev, need, receipt, cycles, faults, crashes>>

DrainNoAnswer(p) ==
    /\ at[p].pc = "drain" /\ Todo(p) # {}
    /\ NoAnswer(Url(p), lines[Oldest(p)])
    /\ NextUrl(p)
    /\ UNCHANGED <<lines, prev, need, receipt, cycles, crashes>>

\* Faulty variant: a refusal always ends this witness's drain.
NeverAhead(p) == FALSE

\* The refusal names one of this ledger's own stamps at or past this one.
WitnessIsAhead(p) ==
    /\ last[Url(p)] >= lines[Oldest(p)].size
    /\ \E i \in Stamps(at[p].snap) : lines[i].size = last[Url(p)]

DrainSkips(p) ==
    /\ at[p].pc = "drain" /\ Todo(p) # {}
    /\ ~Chains(Url(p), lines[Oldest(p)]) /\ WitnessIsAhead(p)
    /\ NextStamp(p)
    /\ UNCHANGED <<lines, prev, need, receipt, world, cycles, faults, crashes>>

\* Faulty variant: a refusal is taken to mean that the witness has it.
RefusalConfirms(p) ==
    /\ at[p].pc = "drain" /\ Todo(p) # {}
    /\ ~Chains(Url(p), lines[Oldest(p)]) /\ ~WitnessIsAhead(p)
    /\ Go(p, "backfill")
    /\ UNCHANGED <<lines, prev, need, receipt, world, cycles, faults, crashes>>

DrainRefused(p) ==
    /\ at[p].pc = "drain" /\ Todo(p) # {}
    /\ ~Chains(Url(p), lines[Oldest(p)]) /\ ~WitnessIsAhead(p)
    /\ NextUrl(p)
    /\ UNCHANGED <<lines, prev, need, receipt, world, cycles, faults, crashes>>

PersistWitnessBackfill(p) ==
    /\ at[p].pc = "backfill"
    /\ \/ /\ lines' = Append(lines, BackfillLine(lines[Oldest(p)].size, Url(p)))
          /\ UNCHANGED faults
       \/ Fault("backfill") /\ UNCHANGED lines
    /\ NextStamp(p)
    /\ UNCHANGED <<prev, need, receipt, world, cycles, crashes>>

Drain(p) ==
    \/ DrainEmpty(p) \/ DrainAccepted(p) \/ DrainNoAnswer(p) \/ DrainSkips(p)
    \/ DrainRefused(p) \/ PersistWitnessBackfill(p)

-----------------------------------------------------------------------------
(* _build_and_register, on the worker thread or inside push().              *)

Builder == at["builder"]

Seal ==
    /\ Cardinality({i \in DOMAIN lines : lines[i] = Capsule}) < MaxCapsules
    /\ lines' = Append(lines, Capsule)
    /\ UNCHANGED <<prev, at, need, receipt, world, cycles, faults, crashes>>

CycleBegins ==
    /\ Builder.pc = "idle" /\ cycles < MaxCycles
    /\ cycles' = cycles + 1
    /\ DrainBegins("builder")
    /\ UNCHANGED <<lines, prev, receipt, world, faults, crashes>>

Worker == CycleBegins /\ lines # <<>> /\ need' = 0

\* seal(require_witness=True) has appended its capsule and calls push().
RequireWitness == CycleBegins /\ Size > prev.size /\ need' = Size

Build ==
    /\ Builder.pc = "build" /\ Size > prev.size
    /\ \E cose \in BOOLEAN :
          /\ prev' = [size |-> Size, prev |-> prev.size, cose |-> cose, wit |-> {}]
          /\ Go("builder", IF cose THEN "register" ELSE "stamp")
          /\ IF cose THEN UNCHANGED faults ELSE Fault("cose")
    /\ UNCHANGED <<lines, need, receipt, world, cycles, crashes>>

\* RollbackError (nothing new) or CheckpointError: a warning, no checkpoint.
BuildFails ==
    /\ Builder.pc = "build"
    /\ IF Size > prev.size THEN Fault("build") ELSE UNCHANGED faults
    /\ Go("builder", "return")
    /\ UNCHANGED <<lines, prev, need, receipt, world, cycles, crashes>>

RegisterNext ==
    at' = [at EXCEPT !["builder"] =
              IF @.url < Len(Witnesses) THEN [@ EXCEPT !.url = Builder.url + 1]
                                        ELSE [Idle EXCEPT !.pc = "stamp"]]

RegisterAccepted ==
    /\ Builder.pc = "register"
    /\ Accept(Url("builder"), prev)
    /\ prev' = [prev EXCEPT !.wit = @ \cup {Url("builder")}]
    /\ RegisterNext
    /\ UNCHANGED <<lines, need, receipt, cycles, faults, crashes>>

RegisterFails ==
    /\ Builder.pc = "register"
    /\ \/ NoAnswer(Url("builder"), prev)
       \/ ~Chains(Url("builder"), prev) /\ UNCHANGED <<world, faults>>
    /\ RegisterNext
    /\ UNCHANGED <<lines, prev, need, receipt, cycles, crashes>>

PersistCheckpointStamp ==
    /\ Builder.pc = "stamp"
    /\ \/ lines' = Append(lines, StampLine(prev)) /\ UNCHANGED faults
       \/ Fault("stamp") /\ UNCHANGED lines
    /\ Go("builder", "return")
    /\ UNCHANGED <<prev, need, receipt, world, cycles, crashes>>

\* push() returns state.prev; require_witness_receipt raises unless some
\* witness confirmed it.
Return ==
    /\ Builder.pc = "return"
    /\ receipt' = IF need > 0 /\ prev.wit # {}
                  THEN [need |-> need, size |-> prev.size] ELSE receipt
    /\ need' = 0
    /\ at' = [at EXCEPT !["builder"] = Idle]
    /\ UNCHANGED <<lines, prev, world, cycles, faults, crashes>>

BuildAndRegister ==
    \/ Build \/ BuildFails \/ RegisterAccepted \/ RegisterFails
    \/ PersistCheckpointStamp \/ Return

-----------------------------------------------------------------------------
\* The process dies, or exits with its daemon thread half way.  The next one
\* starts from the last persisted stamp.
Restart ==
    /\ crashes < MaxCrashes
    /\ crashes' = crashes + 1
    /\ prev' = LastPersistedCheckpoint
    /\ at' = [p \in Procs |-> Idle]
    /\ need' = 0
    /\ UNCHANGED <<lines, receipt, world, cycles, faults>>

Next ==
    \/ Seal \/ Worker \/ RequireWitness \/ BuildAndRegister
    \/ DrainCall \/ \E p \in Procs : Drain(p)
    \/ Restart

Spec == Init /\ [][Next]_vars

\* What was started goes on, and somebody keeps asking for a drain (the next
\* seal or an operator: there is no timer).
Fairness ==
    /\ WF_vars(BuildAndRegister) /\ WF_vars(DrainCall)
    /\ \A p \in Procs : WF_vars(Drain(p))

FairSpec == Spec /\ Fairness

-----------------------------------------------------------------------------
(* Properties.                                                              *)

CheckpointType ==
    [size : Nat, prev : Nat, cose : BOOLEAN, wit : SUBSET Urls]

TypeOK ==
    /\ \A i \in DOMAIN lines :
          \/ lines[i] = Capsule
          \/ lines[i].kind = "stamp" /\ Checkpoint(lines[i]) \in CheckpointType
          \/ lines[i].kind = "backfill" /\ lines[i].url \in Urls
    /\ prev \in CheckpointType
    /\ \A p \in Procs : at[p].url \in DOMAIN Witnesses /\ at[p].snap <= Size
    /\ need \in 0..Size /\ last \in [Urls -> Nat]

\* The module docstring's "never shown as witnessed before a stamp genuinely
\* arrives": a stamp's effective witnesses have all accepted that checkpoint,
\* through outages, lost answers, skipped refusals and crashes.
ConfirmedWasAccepted ==
    \A i \in Stamps(Size) : \A w \in EffectiveWitnesses(i, Size) :
        lines[i].size \in accepted[w]

\* "Checkpoint N's stamp is covered by checkpoint N+1", also when a crash or
\* a failed append lies between the two.
NextCoversStamp ==
    \A i, j \in Stamps(Size) : i < j => lines[j].size >= i

\* A restarted process chains from the newest stamp: no later checkpoint
\* goes back behind an earlier stamp.
NeverChainsBack ==
    \A i, j \in Stamps(Size) : i < j => lines[j].prev >= lines[i].size

\* The stamps on record are one chain, each over the one before it
\* (_build_and_register and _last_persisted_checkpoint).
StampsChain == NextCoversStamp /\ NeverChainsBack

\* The stamps are one chain that can be sent, and what the witness accepted
\* last is one of them.  A checkpoint that was not signed, or that a witness
\* accepted and no stamp records, breaks it for good.
Unbroken(w) ==
    LET sizes == {0} \cup {lines[i].size : i \in Stamps(Size)}
    IN /\ last[w] \in sizes
       /\ \A i \in Stamps(Size) : lines[i].cose /\ lines[i].prev \in sizes

\* Once failures end, drains bring every witness up to the newest stamp,
\* also one that is ahead of an older stamp, unless the chain is broken
\* (retry_pending_witness_stamps).
CaughtUp ==
    \A w \in Urls :
        []<>(Unbroken(w) => \A i \in Stamps(Size) : lines[i].size <= last[w])

\* The claim of require_witness_receipt: the checkpoint it vouches for covers
\* everything sealed before the call.
ReceiptCoversCall == receipt.size >= receipt.need
=============================================================================
