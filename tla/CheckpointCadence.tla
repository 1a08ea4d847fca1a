------------------------- MODULE CheckpointCadence -------------------------
(***************************************************************************)
(* When a ledger's next checkpoint is due, and who builds it               *)
(* (capsule_emit.witness: maybe_checkpoint, push, and the counters, the    *)
(* age clock and the dispatch lock they share for one ledger path).        *)
(*                                                                         *)
(* Every seal() appends a capsule and then calls maybe_checkpoint: it      *)
(* counts the entry, and when the entry-count or the age leg is due it     *)
(* tries to claim the ledger's dispatch slot without blocking.  Whoever    *)
(* claims it resets the counters and starts a worker thread that builds    *)
(* the checkpoint and releases the slot.  push() takes the same slot,      *)
(* blocking, and builds the checkpoint itself.  Each critical section of   *)
(* _count_lock is one step.                                                *)
(*                                                                         *)
(* Simplifications:                                                        *)
(*  - the ledger is the number of its lines: "capsules" sealed ones and    *)
(*    "stamps" that checkpoints add.  The MMR has one leaf per line;       *)
(*  - draining the backlog and registering (module WitnessBacklog) are     *)
(*    part of the build step: neither reads or writes the counters.  The   *)
(*    backfill lines that a drain adds are not counted here;               *)
(*  - witnessing is on and a witness is configured: otherwise both calls   *)
(*    return at once.                                                      *)
(***************************************************************************)
EXTENDS Integers

CONSTANTS
    Sealers,        \* threads that call seal()
    Pushers,        \* threads that call push()
    Cadence,        \* cadence_entries
    AgeCadence,     \* cadence_seconds
    StartMayRaise,  \* TRUE: _get_state or Thread.start may raise after the claim
    MaxCapsules,    \* bound: capsules sealed
    MaxPushes,      \* bound: calls of push()
    MaxTime         \* bound: the clock

ASSUME CadenceAssumption ==
    /\ Sealers \cap Pushers = {}
    /\ Cadence \in Nat \ {0} /\ AgeCadence \in Nat \ {0}
    /\ StartMayRaise \in BOOLEAN
    /\ {MaxCapsules, MaxPushes, MaxTime} \subseteq Nat

VARIABLES
    clock,      \* time.monotonic()
    capsules,   \* capsule lines in the ledger
    stamps,     \* checkpoint-stamp lines in the ledger
    prev,       \* state.prev.mmr_size, 0 when there is no checkpoint yet
    counts,     \* _counts[key]
    armed,      \* _armed_at[key], -1 when never set
    slot,       \* the dispatch lock
    pc,         \* where each thread is
    worker,     \* where the worker thread is
    mine,       \* the count each sealer computed
    pushes,     \* calls of push() so far
    tried,      \* history: capsules on disk at the last build attempt
    covered,    \* history: capsules under the newest checkpoint
    stale,      \* history: sealers whose "mine" is older than the last reset
    forgot,     \* history: one of them has put back fewer than had been counted
    since       \* history: when the first capsule no attempt has seen was counted

history == <<stale, forgot, since>>
vars == <<clock, capsules, stamps, prev, counts, armed, slot, pc, worker, mine,
          pushes, tried, covered, history>>

Threads == Sealers \cup Pushers
Size == capsules + stamps     \* state.mmr.size() after sync()

Init ==
    /\ clock = 0 /\ capsules = 0 /\ stamps = 0 /\ prev = 0
    /\ counts = 0 /\ armed = -1
    /\ slot = "free" /\ worker = "none"
    /\ pc = [t \in Threads |-> "idle"]
    /\ mine = [t \in Sealers |-> 0]
    /\ pushes = 0 /\ tried = 0 /\ covered = 0
    /\ stale = {} /\ forgot = FALSE /\ since = -1

Goto(t, label) == pc' = [pc EXCEPT ![t] = label]

-----------------------------------------------------------------------------
(* seal() and maybe_checkpoint()                                            *)

Seal(t) ==
    /\ pc[t] = "idle" /\ capsules < MaxCapsules
    /\ capsules' = capsules + 1
    /\ Goto(t, "count")
    /\ UNCHANGED <<pushes, clock, stamps, prev, counts, armed, slot, worker, mine,
                   tried, covered, history>>

ArmedAt == IF armed = -1 THEN clock ELSE armed
Due == counts + 1 >= Cadence \/ clock - ArmedAt >= AgeCadence

CountNotDue(t) ==
    /\ pc[t] = "count" /\ ~Due
    /\ counts' = counts + 1
    /\ armed' = ArmedAt
    /\ since' = IF capsules > tried /\ since = -1 THEN clock ELSE since
    /\ Goto(t, "idle")
    /\ UNCHANGED <<pushes, clock, capsules, stamps, prev, slot, worker, mine,
                   tried, covered, stale, forgot>>

CountDue(t) ==
    /\ pc[t] = "count" /\ Due
    /\ armed' = ArmedAt
    /\ since' = IF capsules > tried /\ since = -1 THEN clock ELSE since
    /\ mine' = [mine EXCEPT ![t] = counts + 1]
    /\ Goto(t, "claim")
    /\ UNCHANGED <<pushes, clock, capsules, stamps, prev, counts, slot, worker,
                   tried, covered, stale, forgot>>

\* Faulty variant: the slot is taken without looking whether it is free.
ClaimTaken(t) ==
    /\ pc[t] = "claim"
    /\ slot' = "sealer"
    /\ Goto(t, "reset")
    /\ UNCHANGED <<pushes, clock, capsules, stamps, prev, counts, armed, worker,
                   mine, tried, covered, history>>

Claim(t) ==
    /\ pc[t] = "claim" /\ slot = "free"
    /\ slot' = "sealer"
    /\ Goto(t, "reset")
    /\ UNCHANGED <<pushes, clock, capsules, stamps, prev, counts, armed, worker, mine,
                   tried, covered, history>>

ClaimFails(t) ==
    /\ pc[t] = "claim" /\ slot # "free"
    /\ Goto(t, "defer")
    /\ UNCHANGED <<pushes, clock, capsules, stamps, prev, counts, armed, slot, worker,
                   mine, tried, covered, history>>

\* History of a count put back: did it undo counting since the last reset?
Writeback(t) ==
    /\ forgot' = (forgot \/ (t \in stale /\ mine[t] < counts))
    /\ stale' = stale \ {t}

\* Faulty variant: the window is reset although no dispatch was claimed.
DeferResets(t) ==
    /\ pc[t] = "defer"
    /\ counts' = 0 /\ Writeback(t)
    /\ mine' = [mine EXCEPT ![t] = 0]
    /\ Goto(t, "idle")
    /\ UNCHANGED <<pushes, clock, capsules, stamps, prev, armed, slot, worker,
                   tried, covered, since>>

\* A worker is in flight: the count stays where it is, still due.
Defer(t) ==
    /\ pc[t] = "defer"
    /\ counts' = mine[t]
    /\ Writeback(t)
    /\ mine' = [mine EXCEPT ![t] = 0]
    /\ Goto(t, "idle")
    /\ UNCHANGED <<pushes, clock, capsules, stamps, prev, armed, slot, worker,
                   tried, covered, since>>

\* The counters start again; a count taken before it is stale from here on.
ResetCounters ==
    /\ counts' = 0 /\ armed' = clock
    /\ stale' = {u \in Sealers : pc[u] \in {"claim", "defer"}}
    /\ forgot' = FALSE

Reset(t) ==
    /\ pc[t] = "reset"
    /\ ResetCounters
    /\ mine' = [mine EXCEPT ![t] = 0]
    /\ Goto(t, "start")
    /\ UNCHANGED <<pushes, clock, capsules, stamps, prev, slot, worker,
                   tried, covered, since>>

StartWorker(t) ==
    /\ pc[t] = "start"
    /\ slot' = "worker" /\ worker' = "build"
    /\ Goto(t, "idle")
    /\ UNCHANGED <<pushes, clock, capsules, stamps, prev, counts, armed, mine,
                   tried, covered, history>>

\* _get_state or Thread.start raises out of maybe_checkpoint.  The lock was
\* taken outside any "with" or "try", so nothing releases it.
StartRaises(t) ==
    /\ StartMayRaise /\ pc[t] = "start"
    /\ Goto(t, "idle")
    /\ UNCHANGED <<pushes, clock, capsules, stamps, prev, counts, armed, slot, worker,
                   mine, tried, covered, history>>

-----------------------------------------------------------------------------
(* _build_and_register: sync, build on top of prev, register, stamp.        *)

\* A build attempt has looked at the ledger, whatever comes of it.
Attempted == tried' = capsules /\ since' = -1

\* A checkpoint over everything on disk, when that is more than prev covers.
Built ==
    /\ Attempted
    /\ IF Size > prev
       THEN prev' = Size /\ covered' = capsules
       ELSE UNCHANGED <<prev, covered>>

WorkerBuild ==
    /\ worker = "build"
    /\ Built
    /\ worker' = IF Size > prev THEN "stamp" ELSE "done"
    /\ UNCHANGED <<pushes, clock, capsules, stamps, counts, armed, slot, pc, mine,
                   stale, forgot>>

\* Reading the ledger or draining raises: the thread ends, "finally" runs.
WorkerRaises ==
    /\ worker = "build"
    /\ Attempted
    /\ worker' = "done"
    /\ UNCHANGED <<pushes, clock, capsules, stamps, prev, counts, armed, slot, pc, mine,
                   covered, stale, forgot>>

\* The stamp is appended, or the append fails and only warns.
WorkerStamp ==
    /\ worker = "stamp"
    /\ stamps' \in {stamps, stamps + 1}
    /\ worker' = "done"
    /\ UNCHANGED <<pushes, clock, capsules, prev, counts, armed, slot, pc, mine,
                   tried, covered, history>>

WorkerDone ==
    /\ worker = "done"
    /\ worker' = "none" /\ slot' = "free"
    /\ UNCHANGED <<pushes, clock, capsules, stamps, prev, counts, armed, pc, mine,
                   tried, covered, history>>

-----------------------------------------------------------------------------
(* push()                                                                   *)

PushCall(t) ==
    /\ pc[t] = "idle" /\ pushes < MaxPushes
    /\ pushes' = pushes + 1
    /\ Goto(t, "acquire")
    /\ UNCHANGED <<clock, capsules, stamps, prev, counts, armed, slot, worker,
                   mine, tried, covered, history>>

PushAcquire(t) ==
    /\ pc[t] = "acquire" /\ slot = "free"
    /\ slot' = "pusher"
    /\ Goto(t, "check")
    /\ UNCHANGED <<pushes, clock, capsules, stamps, prev, counts, armed, worker, mine,
                   tried, covered, history>>

NothingNew == Size = 0 \/ Size <= prev

\* Faulty variant: push() returns without leaving the lock's "with" block.
PushKeepsSlot(t) == Goto(t, "check") /\ UNCHANGED slot

PushReturn(t) == slot' = "free" /\ Goto(t, "idle")

PushNothingNew(t) ==
    /\ pc[t] = "check" /\ NothingNew
    /\ PushReturn(t)
    /\ UNCHANGED <<pushes, clock, capsules, stamps, prev, counts, armed, worker, mine,
                   tried, covered, history>>

\* Something raises inside the "with": the lock is released on the way out.
PushRaises(t) ==
    /\ pc[t] \in {"check", "build", "stamp"}
    /\ PushReturn(t)
    /\ UNCHANGED <<pushes, clock, capsules, stamps, prev, counts, armed, worker, mine,
                   covered, stale, forgot>>
    /\ IF pc[t] = "check" THEN UNCHANGED <<tried, since>> ELSE Attempted

PushReset(t) ==
    /\ pc[t] = "check" /\ ~NothingNew
    /\ ResetCounters
    /\ Goto(t, "build")
    /\ UNCHANGED <<pushes, clock, capsules, stamps, prev, slot, worker, mine,
                   tried, covered, since>>

PushBuild(t) ==
    /\ pc[t] = "build"
    /\ Built
    /\ Goto(t, "stamp")
    /\ UNCHANGED <<pushes, clock, capsules, stamps, counts, armed, slot, worker, mine,
                   stale, forgot>>

PushStamp(t) ==
    /\ pc[t] = "stamp"
    /\ stamps' \in {stamps, stamps + 1}
    /\ PushReturn(t)
    /\ UNCHANGED <<pushes, clock, capsules, prev, counts, armed, worker, mine,
                   tried, covered, history>>

-----------------------------------------------------------------------------
Tick ==
    /\ clock < MaxTime
    /\ clock' = clock + 1
    /\ UNCHANGED <<pushes, capsules, stamps, prev, counts, armed, slot, pc, worker, mine,
                   tried, covered, history>>

MaybeCheckpoint(t) ==
    \/ CountNotDue(t) \/ CountDue(t) \/ Claim(t) \/ ClaimFails(t) \/ Defer(t)
    \/ Reset(t) \/ StartWorker(t) \/ StartRaises(t)

Push(t) ==
    \/ PushAcquire(t) \/ PushNothingNew(t) \/ PushRaises(t) \/ PushReset(t)
    \/ PushBuild(t) \/ PushStamp(t)

Worker == WorkerBuild \/ WorkerRaises \/ WorkerStamp \/ WorkerDone

\* The bounds are reached and every call has returned.
Quiescent ==
    /\ \A t \in Threads : pc[t] = "idle"
    /\ worker = "none" /\ capsules = MaxCapsules
    /\ UNCHANGED vars

Next ==
    \/ \E t \in Sealers : Seal(t) \/ MaybeCheckpoint(t)
    \/ \E t \in Pushers : PushCall(t) \/ Push(t)
    \/ Worker \/ Tick \/ Quiescent

Spec == Init /\ [][Next]_vars

\* A started call or worker thread keeps running; nobody has to seal or push.
Fairness ==
    /\ \A t \in Sealers : WF_vars(MaybeCheckpoint(t))
    /\ \A t \in Pushers : WF_vars(Push(t))
    /\ WF_vars(Worker)

FairSpec == Spec /\ Fairness

-----------------------------------------------------------------------------
(* Properties.                                                              *)

TypeOK ==
    /\ {clock, capsules, stamps, prev, counts, pushes, tried, covered} \subseteq Nat
    /\ armed \in Nat \cup {-1}
    /\ slot \in {"free", "sealer", "worker", "pusher"}
    /\ worker \in {"none", "build", "stamp", "done"}
    /\ pc \in [Threads -> {"idle", "count", "claim", "defer", "reset", "start",
                           "acquire", "check", "build", "stamp"}]
    /\ mine \in [Sealers -> Nat]
    /\ stale \subseteq Sealers /\ forgot \in BOOLEAN /\ since \in Nat \cup {-1}

\* Threads between a claim of the dispatch slot and its release.
Holding ==
    {t \in Threads : pc[t] \in {"reset", "start", "check", "build", "stamp"}}

\* The dispatch slot serializes builders: a worker, a claiming seal() and a
\* push() never overlap, so no two checkpoints are built from one prev.
OneBuilder ==
    /\ \A t, u \in Holding : t = u
    /\ worker # "none" => Holding = {}

AtRest == \A t \in Sealers : pc[t] \notin {"count", "claim", "defer"}

\* The slot that StartRaises left taken.
Leaked == slot = "sealer" /\ Holding = {}

\* No call is half way to counting its entry, and no build is under way.
Rested == AtRest /\ Holding = {} /\ worker # "build" /\ ~Leaked

\* maybe_checkpoint's "so nothing is lost", for the entry-count leg: a full
\* window of capsules that no build attempt has seen makes the next seal()
\* due, however many were deferred to a worker that had already read the
\* ledger.  The exception is exact: since the last reset a thread deferred
\* before it has put back fewer than had been counted ("forgot").
FullWindowIsDue == Rested /\ ~forgot /\ capsules - tried + 1 >= Cadence => Due

\* The same for the age leg, with no exception: whatever the counters say, the
\* next seal() is due when AgeCadence has gone by since the first capsule that
\* no build attempt has seen was counted.
OverdueIsDue ==
    Rested /\ capsules > tried => since # -1 /\ (clock - since >= AgeCadence => Due)

\* A checkpoint always covers every capsule that was on disk when it was
\* built, and checkpoints never shrink.
CheckpointCoversDisk ==
    prev' # prev => prev' > prev /\ prev' = Size /\ covered' = capsules

\* Nothing sealed escapes: it is in the next checkpoint, and there is a next
\* one (maybe_checkpoint, push and the build they share), for any number of
\* sealing threads.
WindowsAreCovered ==
    [][CheckpointCoversDisk /\ FullWindowIsDue' /\ OverdueIsDue']_vars

\* push() waits for the slot only as long as the worker runs.
PushReturns ==
    \A t \in Pushers : pc[t] = "acquire" ~> (pc[t] = "idle" \/ Leaked)
=============================================================================
