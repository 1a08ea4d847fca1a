--------------------------- MODULE CadenceProofs ---------------------------
(***************************************************************************)
(* The dispatch slot of CheckpointCadence serializes builders, and no      *)
(* window is lost, for any number of sealing and pushing threads and any   *)
(* cadence.  What was sealed since the last build attempt is counted or    *)
(* about to be (Counted), a build that will see it is in flight            *)
(* (InFlight), or a count from before the last reset was written back over *)
(* it (forgot); and the age clock never starts after the oldest of it      *)
(* (AgeClockIsOld), which needs no exception.                              *)
(***************************************************************************)
EXTENDS CheckpointCadence, FiniteSetTheorems, TLAPS

Labels == {"idle", "count", "claim", "defer", "reset", "start",
           "acquire", "check", "build", "stamp"}
HoldLabels == {"reset", "start", "check", "build", "stamp"}

\* The inductive invariant: OneBuilder, and a slot that is free or was handed
\* to the worker thread is held by no caller.
SlotGuardsBuilders ==
    /\ pc \in [Threads -> Labels]
    /\ \A t \in Threads : pc[t] \in HoldLabels =>
          /\ slot \notin {"free", "worker"} /\ worker = "none"
          /\ \A u \in Threads : pc[u] \in HoldLabels => u = t
    /\ worker # "none" => slot = "worker"

\* The invariant says more than OneBuilder: it implies it.
LEMMA GuardedIsOne == SlotGuardsBuilders => OneBuilder
  BY DEF SlotGuardsBuilders, OneBuilder, Holding, HoldLabels

\* A step that leaves the slot and the worker alone, by a thread that does
\* not start to hold the slot.
LEMMA MoveKeeps ==
    ASSUME SlotGuardsBuilders, NEW t \in Threads, NEW l \in Labels, Goto(t, l),
           l \in HoldLabels => pc[t] \in HoldLabels, UNCHANGED <<slot, worker>>
    PROVE  SlotGuardsBuilders'
  BY DEF SlotGuardsBuilders, Goto, Labels, HoldLabels

\* A claim of the free slot, by a seal or a push.
LEMMA ClaimKeeps ==
    ASSUME SlotGuardsBuilders, NEW t \in Threads, NEW l \in HoldLabels,
           Goto(t, l), slot = "free", slot' \in {"sealer", "pusher"},
           UNCHANGED worker
    PROVE  SlotGuardsBuilders'
  BY DEF SlotGuardsBuilders, Goto, Labels, HoldLabels

\* push() returns and frees the slot.
LEMMA ReturnKeeps ==
    ASSUME SlotGuardsBuilders, NEW t \in Threads, pc[t] \in HoldLabels,
           PushReturn(t), UNCHANGED worker
    PROVE  SlotGuardsBuilders'
  BY DEF SlotGuardsBuilders, PushReturn, Goto, Labels, HoldLabels

\* The claiming seal hands the slot over to the worker it starts.
LEMMA StartKeeps ==
    ASSUME SlotGuardsBuilders, NEW t \in Threads, StartWorker(t)
    PROVE  SlotGuardsBuilders'
  BY DEF SlotGuardsBuilders, StartWorker, Goto, Labels, HoldLabels

\* The worker runs with nobody holding the slot, and frees it when it ends.
LEMMA WorkerKeeps ==
    ASSUME SlotGuardsBuilders, Worker
    PROVE  SlotGuardsBuilders'
<1>1. CASE WorkerDone
  BY <1>1 DEF SlotGuardsBuilders, WorkerDone, HoldLabels
<1>2. worker # "none"
  BY DEF Worker, WorkerBuild, WorkerRaises, WorkerStamp, WorkerDone
<1>3. CASE WorkerBuild \/ WorkerRaises \/ WorkerStamp
  <2>1. UNCHANGED <<pc, slot>>
    BY <1>3 DEF WorkerBuild, WorkerRaises, WorkerStamp
  <2> QED BY <1>2, <2>1 DEF SlotGuardsBuilders, HoldLabels
<1> QED BY <1>1, <1>3 DEF Worker

\* Every step of a sealing thread keeps the slot guarded.
LEMMA SealerKeeps ==
    ASSUME SlotGuardsBuilders, NEW t \in Sealers, Seal(t) \/ MaybeCheckpoint(t)
    PROVE  SlotGuardsBuilders'
<1> t \in Threads
  BY DEF Threads
<1>1. CASE Seal(t)
  BY <1>1, MoveKeeps DEF Seal, Labels, HoldLabels
<1>2. CASE CountNotDue(t)
  BY <1>2, MoveKeeps DEF CountNotDue, Labels, HoldLabels
<1>3. CASE CountDue(t)
  BY <1>3, MoveKeeps DEF CountDue, Labels, HoldLabels
<1>4. CASE Claim(t)
  BY <1>4, ClaimKeeps DEF Claim, HoldLabels
<1>5. CASE ClaimFails(t)
  BY <1>5, MoveKeeps DEF ClaimFails, Labels, HoldLabels
<1>6. CASE Defer(t)
  BY <1>6, MoveKeeps DEF Defer, Labels, HoldLabels
<1>7. CASE Reset(t)
  BY <1>7, MoveKeeps DEF Reset, Labels, HoldLabels
<1>8. CASE StartWorker(t)
  BY <1>8, StartKeeps
<1>9. CASE StartRaises(t)
  BY <1>9, MoveKeeps DEF StartRaises, Labels, HoldLabels
<1> QED
  BY <1>1, <1>2, <1>3, <1>4, <1>5, <1>6, <1>7, <1>8, <1>9 DEF MaybeCheckpoint

\* Every step of a pushing thread keeps the slot guarded.
LEMMA PusherKeeps ==
    ASSUME SlotGuardsBuilders, NEW t \in Pushers, PushCall(t) \/ Push(t)
    PROVE  SlotGuardsBuilders'
<1> t \in Threads
  BY DEF Threads
<1>1. CASE PushCall(t)
  BY <1>1, MoveKeeps DEF PushCall, Labels, HoldLabels
<1>2. CASE PushAcquire(t)
  BY <1>2, ClaimKeeps DEF PushAcquire, HoldLabels
<1>3. CASE PushNothingNew(t) \/ PushRaises(t) \/ PushStamp(t)
  BY <1>3, ReturnKeeps DEF PushNothingNew, PushRaises, PushStamp, HoldLabels
<1>4. CASE PushReset(t)
  BY <1>4, MoveKeeps DEF PushReset, Labels, HoldLabels
<1>5. CASE PushBuild(t)
  BY <1>5, MoveKeeps DEF PushBuild, Labels, HoldLabels
<1> QED
  BY <1>1, <1>2, <1>3, <1>4, <1>5 DEF Push

\* Every step keeps the slot guarded.
LEMMA GuardKept == SlotGuardsBuilders /\ [Next]_vars => SlotGuardsBuilders'
<1> SUFFICES ASSUME SlotGuardsBuilders, [Next]_vars PROVE SlotGuardsBuilders'
  OBVIOUS
<1>1. CASE UNCHANGED vars
  BY <1>1 DEF vars, SlotGuardsBuilders
<1>2. CASE Tick
  BY <1>2 DEF Tick, SlotGuardsBuilders
<1>3. CASE Quiescent
  BY <1>1, <1>3 DEF Quiescent
<1> QED
  BY <1>1, <1>2, <1>3, SealerKeeps, PusherKeeps, WorkerKeeps DEF Next

\* witness.py, "One dispatch in flight per ledger path at a time": a worker, a
\* claiming seal and a push() never overlap, so no two checkpoints are built
\* on the same prev, even when starting the worker fails.
THEOREM BuildersAreSerial == Spec => []OneBuilder
<1>1. Init => SlotGuardsBuilders
  BY DEF Init, SlotGuardsBuilders, Labels, HoldLabels
<1> QED
  BY <1>1, GuardKept, GuardedIsOne, PTL DEF Spec

-----------------------------------------------------------------------------
(* Windows.  Between the reset of the counters and the build that follows   *)
(* it a window is in flight; otherwise what has been sealed since the last  *)
(* build attempt is counted, or is about to be.                             *)

\* Who holds the slot, by its name.
SlotNamesHolder ==
    /\ \A t \in Sealers : pc[t] \notin {"check", "build", "stamp", "acquire"}
    /\ \A t \in Sealers : pc[t] \in {"reset", "start"} => slot = "sealer"
    /\ \A t \in Pushers : pc[t] \in {"idle", "acquire", "check", "build", "stamp"}

Counters ==
    /\ {clock, capsules, tried, counts} \subseteq Nat
    /\ {armed, since} \subseteq Nat \cup {-1}
    /\ mine \in [Sealers -> Nat]
    /\ armed <= clock

InFlight ==
    \/ \E t \in Threads : pc[t] \in {"start", "build"}
    \/ worker = "build"
    \/ Leaked

\* Sealers whose capsule is on disk and not counted yet.
Counting == {t \in Sealers : pc[t] = "count"}

AgeDue == armed # -1 /\ clock - armed >= AgeCadence

\* Whoever is deferring, and counted since the last reset, was due and still is.
DeferredAreDue ==
    \A t \in Sealers : pc[t] \in {"claim", "defer"} /\ t \notin stale =>
                         mine[t] >= Cadence \/ AgeDue

\* The age clock does not start after the oldest capsule it is there for.
AgeClockIsOld ==
    /\ capsules > tried /\ since = -1 => Counting # {}
    /\ InFlight \/ (since # -1 => armed # -1 /\ armed <= since)

Counted ==
    \/ InFlight \/ forgot
    \/ counts + 1 >= Cadence \/ AgeDue
    \/ capsules - tried <= counts + Cardinality(Counting)

Base == SlotGuardsBuilders /\ SlotNamesHolder /\ Counters /\ IsFiniteSet(Counting)
WInv == Base /\ DeferredAreDue /\ AgeClockIsOld /\ Counted

\* At rest no build is in flight and nobody is still counting.
LEMMA RestedIsIdle ==
    ASSUME Base, Rested
    PROVE  ~InFlight /\ Counting = {}
<1>1. \A t \in Threads : pc[t] \notin {"reset", "start", "check", "build", "stamp"}
  BY DEF Rested, Holding
<1> QED
  BY <1>1 DEF Rested, AtRest, InFlight, Counting

LEMMA CountedIsDue == WInv => FullWindowIsDue /\ OverdueIsDue
<1> SUFFICES ASSUME WInv, Rested PROVE FullWindowIsDue /\ OverdueIsDue
  BY DEF FullWindowIsDue, OverdueIsDue
<1>1. ~InFlight /\ Counting = {} /\ Cardinality(Counting) = 0
  BY RestedIsIdle, FS_EmptySet DEF WInv
<1>2. /\ {clock, capsules, tried, counts} \subseteq Nat
      /\ {armed, since} \subseteq Nat \cup {-1}
      /\ Cadence \in Nat \ {0} /\ AgeCadence \in Nat \ {0}
  BY CadenceAssumption DEF WInv, Base, Counters
<1>3. FullWindowIsDue
  BY <1>1, <1>2 DEF FullWindowIsDue, WInv, Counted, AgeDue, Due, ArmedAt
<1>4. OverdueIsDue
  BY <1>1, <1>2 DEF OverdueIsDue, WInv, AgeClockIsOld, Due, ArmedAt
<1> QED
  BY <1>3, <1>4

\* The three steps of the slot: taken, handed to the worker, and leaked.
LEMMA LeakedStays ==
    ASSUME SlotGuardsBuilders, Leaked, [Next]_vars
    PROVE  Leaked'
<1>1. /\ slot = "sealer" /\ worker = "none" /\ pc \in [Threads -> Labels]
      /\ \A t \in Threads : pc[t] \notin {"reset", "start", "check", "build", "stamp"}
  BY DEF Leaked, Holding, SlotGuardsBuilders, HoldLabels
<1>2. ASSUME NEW t \in Threads, NEW l \in Labels, Goto(t, l), l \notin HoldLabels,
             slot' = slot
      PROVE  Leaked'
  BY <1>1, <1>2 DEF Goto, Leaked, Holding, HoldLabels
<1>3. ASSUME UNCHANGED <<pc, slot>> PROVE Leaked'
  BY <1>3, <1>1 DEF Leaked, Holding
<1>4. ASSUME NEW t \in Sealers, Seal(t) \/ MaybeCheckpoint(t) PROVE Leaked'
  <2>1. t \in Threads
    BY DEF Threads
  <2>2. CASE Seal(t)
    BY <1>2, <2>1, <2>2 DEF Seal, Labels, HoldLabels
  <2>3. CASE CountNotDue(t)
    BY <1>2, <2>1, <2>3 DEF CountNotDue, Labels, HoldLabels
  <2>4. CASE CountDue(t)
    BY <1>2, <2>1, <2>4 DEF CountDue, Labels, HoldLabels
  <2>5. CASE ClaimFails(t)
    BY <1>2, <2>1, <2>5 DEF ClaimFails, Labels, HoldLabels
  <2>6. CASE Defer(t)
    BY <1>2, <2>1, <2>6 DEF Defer, Labels, HoldLabels
  <2>7. CASE Claim(t) \/ Reset(t) \/ StartWorker(t) \/ StartRaises(t)
    BY <1>1, <2>1, <2>7 DEF Claim, Reset, StartWorker, StartRaises
  <2> QED
    BY <1>4, <2>2, <2>3, <2>4, <2>5, <2>6, <2>7 DEF MaybeCheckpoint
<1>5. ASSUME NEW t \in Pushers, PushCall(t) \/ Push(t) PROVE Leaked'
  <2>1. t \in Threads
    BY DEF Threads
  <2>2. CASE PushCall(t)
    BY <1>2, <2>1, <2>2 DEF PushCall, Labels, HoldLabels
  <2>3. CASE Push(t)
    BY <1>1, <2>1, <2>3
       DEF Push, PushAcquire, PushNothingNew, PushRaises, PushReset, PushBuild, PushStamp
  <2> QED
    BY <1>5, <2>2, <2>3
<1>6. CASE Worker
  BY <1>1, <1>6 DEF Worker, WorkerBuild, WorkerRaises, WorkerStamp, WorkerDone
<1>7. CASE Tick \/ Quiescent \/ UNCHANGED vars
  BY <1>3, <1>7 DEF Tick, Quiescent, vars
<1> QED
  BY <1>4, <1>5, <1>6, <1>7 DEF Next

\* Whose label is whose.
LEMMA NamesKept ==
    ASSUME SlotGuardsBuilders, SlotNamesHolder, [Next]_vars
    PROVE  SlotNamesHolder'
<1>0. pc \in [Threads -> Labels] /\ Sealers \cap Pushers = {} /\ Threads = Sealers \cup Pushers
  BY CadenceAssumption DEF SlotGuardsBuilders, Threads
<1>1. ASSUME NEW t \in Sealers, Seal(t) \/ MaybeCheckpoint(t)
      PROVE  SlotNamesHolder'
  <2>1. ASSUME NEW l \in {"idle", "count", "claim", "defer"}, Goto(t, l), slot' = slot
        PROVE  SlotNamesHolder'
    BY <1>0, <2>1 DEF Goto, SlotNamesHolder
  <2>2. ASSUME NEW l \in {"reset", "start"}, Goto(t, l), slot' = "sealer"
        PROVE  SlotNamesHolder'
    BY <1>0, <2>2 DEF Goto, SlotNamesHolder
  <2>3. CASE Seal(t)
    BY <2>1, <2>3 DEF Seal
  <2>4. CASE CountNotDue(t)
    BY <2>1, <2>4 DEF CountNotDue
  <2>5. CASE CountDue(t)
    BY <2>1, <2>5 DEF CountDue
  <2>6. CASE Claim(t)
    BY <2>2, <2>6 DEF Claim
  <2>7. CASE ClaimFails(t)
    BY <2>1, <2>7 DEF ClaimFails
  <2>8. CASE Defer(t)
    BY <2>1, <2>8 DEF Defer
  <2>9. CASE Reset(t)
    BY <2>2, <2>9 DEF Reset, SlotNamesHolder
  <2>10. CASE StartWorker(t)
    <3>1. \A u \in Sealers : u # t => pc[u] \notin {"reset", "start"}
      BY <1>0, <2>10 DEF StartWorker, SlotGuardsBuilders, HoldLabels
    <3> QED
      BY <1>0, <2>10, <3>1 DEF StartWorker, Goto, SlotNamesHolder
  <2>11. CASE StartRaises(t)
    BY <2>1, <2>11 DEF StartRaises
  <2> QED
    BY <1>1, <2>3, <2>4, <2>5, <2>6, <2>7, <2>8, <2>9, <2>10, <2>11 DEF MaybeCheckpoint
<1>2. ASSUME NEW t \in Pushers, PushCall(t) \/ Push(t)
      PROVE  SlotNamesHolder'
  <2>0. t \in Threads /\ t \notin Sealers
    BY <1>0
  <2>1. \E l \in {"idle", "acquire", "check", "build", "stamp"} : Goto(t, l)
    BY <1>2 DEF PushCall, Push, PushAcquire, PushNothingNew, PushRaises, PushReset,
                PushBuild, PushStamp, PushReturn
  <2>2. slot' # slot => \A u \in Sealers : pc[u] \notin {"reset", "start"}
    <3>1. CASE pc[t] \in HoldLabels
      BY <1>0, <2>0, <3>1 DEF SlotGuardsBuilders, HoldLabels
    <3>2. CASE pc[t] \notin HoldLabels
      BY <1>0, <1>2, <3>2
         DEF PushCall, Push, PushAcquire, PushNothingNew, PushRaises, PushReset,
             PushBuild, PushStamp, HoldLabels, SlotGuardsBuilders
    <3> QED
      BY <3>1, <3>2
  <2> QED
    BY <1>0, <2>0, <2>1, <2>2 DEF Goto, SlotNamesHolder
<1>3. CASE Worker
  <2>1. worker # "none" /\ pc' = pc
    BY <1>3 DEF Worker, WorkerBuild, WorkerRaises, WorkerStamp, WorkerDone
  <2>2. \A u \in Sealers : pc[u] \notin {"reset", "start"}
    BY <1>0, <2>1 DEF SlotGuardsBuilders, HoldLabels
  <2> QED
    BY <2>1, <2>2 DEF SlotNamesHolder
<1>4. CASE Tick \/ Quiescent \/ UNCHANGED vars
  BY <1>4 DEF Tick, Quiescent, vars, SlotNamesHolder
<1> QED
  BY <1>1, <1>2, <1>3, <1>4 DEF Next

\* Types of the counters and of the two clocks.
LEMMA CountersKept ==
    ASSUME Counters, [Next]_vars
    PROVE  Counters'
<1>0. /\ {clock, capsules, tried, counts} \subseteq Nat /\ {armed, since} \subseteq Nat \cup {-1}
      /\ armed <= clock /\ mine \in [Sealers -> Nat]
      /\ ArmedAt \in Nat /\ ArmedAt <= clock
  BY DEF Counters, ArmedAt
<1>1. ASSUME UNCHANGED <<clock, counts, mine, armed>>,
             \/ UNCHANGED <<tried, since>> /\ capsules' \in {capsules, capsules + 1}
             \/ capsules' = capsules /\ tried' = capsules /\ since' = -1
      PROVE  Counters'
  BY <1>0, <1>1 DEF Counters
<1>2. ASSUME NEW t \in Sealers, Seal(t) \/ MaybeCheckpoint(t) PROVE Counters'
  <2>1. CASE Seal(t) \/ Claim(t) \/ ClaimFails(t) \/ StartWorker(t) \/ StartRaises(t)
    BY <1>1, <2>1 DEF Seal, Claim, ClaimFails, StartWorker, StartRaises, history
  <2>2. CASE CountNotDue(t)
    BY <1>0, <2>2 DEF CountNotDue, Counters
  <2>3. CASE CountDue(t)
    BY <1>0, <2>3 DEF CountDue, Counters
  <2>4. CASE Defer(t)
    BY <1>0, <2>4 DEF Defer, Counters
  <2>5. CASE Reset(t)
    BY <1>0, <2>5 DEF Reset, ResetCounters, Counters
  <2> QED
    BY <1>2, <2>1, <2>2, <2>3, <2>4, <2>5 DEF MaybeCheckpoint
<1>3. ASSUME NEW t \in Pushers, PushCall(t) \/ Push(t) PROVE Counters'
  <2>1. CASE PushReset(t)
    BY <1>0, <2>1 DEF PushReset, ResetCounters, Counters
  <2>2. CASE ~PushReset(t)
    BY <1>1, <1>3, <2>2
       DEF PushCall, Push, PushAcquire, PushNothingNew, PushRaises, PushBuild, PushStamp,
           Built, Attempted, history
  <2> QED
    BY <2>1, <2>2
<1>4. CASE Worker
  BY <1>1, <1>4
     DEF Worker, WorkerBuild, WorkerRaises, WorkerStamp, WorkerDone, Built, Attempted, history
<1>5. CASE Tick
  BY <1>0, <1>5 DEF Tick, Counters, history
<1>6. CASE Quiescent \/ UNCHANGED vars
  BY <1>1, <1>6 DEF Quiescent, vars, history
<1> QED
  BY <1>2, <1>3, <1>4, <1>5, <1>6 DEF Next

\* A build in flight stays in flight until it has looked at the ledger.
LEMMA FlightEnds ==
    ASSUME Base, InFlight, [Next]_vars
    PROVE  InFlight' \/ (capsules' = tried' /\ since' = -1)
<1>0. /\ pc \in [Threads -> Labels] /\ SlotGuardsBuilders /\ SlotNamesHolder
      /\ Threads = Sealers \cup Pushers
  BY CadenceAssumption DEF Base, SlotGuardsBuilders, Threads
<1>1. CASE capsules' = tried' /\ since' = -1
  BY <1>1
<1>2. CASE Leaked
  BY <1>0, <1>2, LeakedStays DEF InFlight
<1>3. CASE ~Leaked /\ \E t \in Threads : pc[t] \in {"start", "build"}
  <2>1. PICK t \in Threads : pc[t] \in {"start", "build"}
    BY <1>3
  <2>2. worker = "none" /\ \A u \in Threads : u # t => pc[u] \notin HoldLabels
    BY <1>0, <2>1 DEF SlotGuardsBuilders, HoldLabels
  <2>3. CASE pc'[t] = pc[t]
    BY <2>1, <2>3 DEF InFlight
  <2>4. CASE pc'[t] # pc[t]
    <3>1. StartWorker(t) \/ StartRaises(t) \/ PushRaises(t) \/ PushBuild(t)
      <4>1. ASSUME NEW u \in Threads, pc' # pc, \E l : Goto(u, l)
            PROVE  u = t
        BY <1>0, <2>4, <4>1 DEF Goto
      <4>2. pc' # pc
        BY <2>4
      <4>3. ASSUME NEW u \in Sealers, Seal(u) \/ MaybeCheckpoint(u)
            PROVE  StartWorker(t) \/ StartRaises(t)
        <5>1. u \in Threads /\ \E l : Goto(u, l)
          BY <1>0, <4>3 DEF Seal, MaybeCheckpoint, CountNotDue, CountDue, Claim, ClaimFails,
                            Defer, Reset, StartWorker, StartRaises
        <5>2. u = t
          BY <4>1, <4>2, <5>1
        <5> QED
          BY <2>1, <4>3, <5>2 DEF Seal, MaybeCheckpoint, CountNotDue, CountDue, Claim,
                                  ClaimFails, Defer, Reset
      <4>4. ASSUME NEW u \in Pushers, PushCall(u) \/ Push(u)
            PROVE  PushRaises(t) \/ PushBuild(t)
        <5>1. u \in Threads /\ \E l : Goto(u, l)
          BY <1>0, <4>4 DEF PushCall, Push, PushAcquire, PushNothingNew, PushRaises,
                            PushReset, PushBuild, PushStamp, PushReturn
        <5>2. u = t
          BY <4>1, <4>2, <5>1
        <5> QED
          BY <2>1, <4>4, <5>2 DEF PushCall, Push, PushAcquire, PushNothingNew, PushReset,
                                  PushStamp
      <4>5. ~Worker /\ ~Tick /\ ~Quiescent /\ ~UNCHANGED vars
        BY <4>2 DEF Worker, WorkerBuild, WorkerRaises, WorkerStamp, WorkerDone, Tick,
                    Quiescent, vars
      <4> QED
        BY <4>3, <4>4, <4>5 DEF Next
    <3>2. CASE StartWorker(t)
      BY <3>2 DEF StartWorker, InFlight
    <3>3. CASE StartRaises(t)
      <4>1. t \in Sealers /\ slot = "sealer"
        BY <1>0, <3>3 DEF StartRaises, SlotNamesHolder
      <4>2. Holding' = {} /\ slot' = slot
        BY <1>0, <2>2, <3>3 DEF StartRaises, Goto, Holding, HoldLabels
      <4> QED
        BY <4>1, <4>2 DEF Leaked, InFlight
    <3>4. CASE PushRaises(t) \/ PushBuild(t)
      <4>1. pc[t] = "build"
        BY <2>1, <3>4 DEF PushRaises, PushBuild
      <4>2. capsules' = capsules /\ tried' = capsules /\ since' = -1
        BY <3>4, <4>1 DEF PushRaises, PushBuild, Built, Attempted
      <4> QED
        BY <1>1, <4>2
    <3> QED
      BY <3>1, <3>2, <3>3, <3>4
  <2> QED
    BY <2>3, <2>4
<1>4. CASE worker = "build"
  <2>1. CASE worker' = "build"
    BY <2>1 DEF InFlight
  <2>2. CASE worker' # "build"
    <3>1. \A t \in Threads : pc[t] \notin HoldLabels
      BY <1>0, <1>4 DEF SlotGuardsBuilders
    <3>2. \A t \in Sealers : ~(Seal(t) \/ MaybeCheckpoint(t))
      BY <1>0, <1>4, <2>2, <3>1
         DEF Seal, MaybeCheckpoint, CountNotDue, CountDue, Claim, ClaimFails, Defer, Reset,
             StartWorker, StartRaises, HoldLabels
    <3>3. \A t \in Pushers : ~(PushCall(t) \/ Push(t))
      BY <1>4, <2>2
         DEF PushCall, Push, PushAcquire, PushNothingNew, PushRaises, PushReset, PushBuild,
             PushStamp
    <3>4. WorkerBuild \/ WorkerRaises
      BY <1>4, <2>2, <3>2, <3>3
         DEF Next, Worker, WorkerStamp, WorkerDone, Tick, Quiescent, vars
    <3> QED
      BY <1>1, <3>4 DEF WorkerBuild, WorkerRaises, Built, Attempted
  <2> QED
    BY <2>1, <2>2
<1> QED
  BY <1>2, <1>3, <1>4 DEF InFlight

\* How a step of one thread changes the set of those about to count.
LEMMA CountingMoves ==
    ASSUME Base, NEW t \in Sealers, NEW l, Goto(t, l)
    PROVE  /\ IsFiniteSet(Counting)'
           /\ l # "count" /\ pc[t] # "count" => Counting' = Counting
           /\ l = "count" => t \in Counting'
           /\ l = "count" /\ pc[t] # "count" =>
                Cardinality(Counting)' = Cardinality(Counting) + 1
           /\ l # "count" /\ pc[t] = "count" =>
                Cardinality(Counting)' = Cardinality(Counting) - 1
<1>0. pc \in [Threads -> Labels] /\ t \in Threads /\ IsFiniteSet(Counting)
  BY DEF Base, SlotGuardsBuilders, Threads
<1>1. CASE l = "count"
  <2>1. Counting' = Counting \cup {t}
    BY <1>0, <1>1 DEF Counting, Goto, Threads
  <2> QED
    BY <1>0, <1>1, <2>1, FS_AddElement DEF Counting
<1>2. CASE l # "count"
  <2>1. Counting' = Counting \ {t}
    BY <1>0, <1>2 DEF Counting, Goto, Threads
  <2> QED
    BY <1>0, <1>2, <2>1, FS_RemoveElement DEF Counting
<1> QED
  BY <1>1, <1>2

\* Nobody else is ever about to count.
LEMMA CountingStays ==
    ASSUME Base, [Next]_vars, \A t \in Sealers : ~(Seal(t) \/ MaybeCheckpoint(t))
    PROVE  Counting' = Counting /\ \A t \in Sealers : pc'[t] = pc[t]
<1>0. pc \in [Threads -> Labels] /\ Sealers \cap Pushers = {}
  BY CadenceAssumption DEF Base, SlotGuardsBuilders
<1>1. \A t \in Sealers : pc'[t] = pc[t]
  <2>1. ASSUME NEW t \in Pushers, NEW l, Goto(t, l) PROVE \A u \in Sealers : pc'[u] = pc[u]
    BY <1>0, <2>1 DEF Goto, Threads
  <2>2. ASSUME NEW t \in Pushers, PushCall(t) \/ Push(t) PROVE \E l : Goto(t, l)
    BY <2>2 DEF PushCall, Push, PushAcquire, PushNothingNew, PushRaises, PushReset,
                PushBuild, PushStamp, PushReturn
  <2>3. CASE Worker \/ Tick \/ Quiescent \/ UNCHANGED vars
    BY <2>3 DEF Worker, WorkerBuild, WorkerRaises, WorkerStamp, WorkerDone, Tick,
                Quiescent, vars
  <2> QED
    BY <2>1, <2>2, <2>3 DEF Next
<1> QED
  BY <1>1 DEF Counting

LEMMA BaseKept == Base /\ [Next]_vars => Base'
<1> SUFFICES ASSUME Base, [Next]_vars PROVE Base'
  OBVIOUS
<1>1. IsFiniteSet(Counting)'
  <2>1. ASSUME NEW t \in Sealers, Seal(t) \/ MaybeCheckpoint(t) PROVE IsFiniteSet(Counting)'
    <3>1. \E l : Goto(t, l)
      BY <2>1 DEF Seal, MaybeCheckpoint, CountNotDue, CountDue, Claim, ClaimFails, Defer,
                  Reset, StartWorker, StartRaises
    <3> QED
      BY <3>1, CountingMoves
  <2> QED
    BY <2>1, CountingStays DEF Base
<1> QED
  BY <1>1, GuardKept, NamesKept, CountersKept DEF Base

\* A deferred count that no reset has overtaken belongs to a window that is
\* due and stays due.
LEMMA DeferredKept ==
    ASSUME Base, DeferredAreDue, [Next]_vars
    PROVE  DeferredAreDue'
<1>0. /\ {clock, counts} \subseteq Nat /\ armed \in Nat \cup {-1}
      /\ mine \in [Sealers -> Nat] /\ Cadence \in Nat /\ AgeCadence \in Nat \ {0}
      /\ pc \in [Threads -> Labels] /\ Sealers \subseteq Threads
      /\ Sealers \cap Pushers = {}
  BY CadenceAssumption DEF Base, Counters, SlotGuardsBuilders, Threads
<1>1. ASSUME AgeDue => AgeDue', UNCHANGED <<mine, stale>>,
             \A t \in Sealers : pc'[t] \in {"claim", "defer"} => pc[t] \in {"claim", "defer"}
      PROVE  DeferredAreDue'
  BY <1>1 DEF DeferredAreDue
<1>2. UNCHANGED armed /\ clock' \in {clock, clock + 1} => (AgeDue => AgeDue')
  BY <1>0 DEF AgeDue
<1>3. ASSUME NEW t \in Sealers, Seal(t) \/ MaybeCheckpoint(t) PROVE DeferredAreDue'
  <2>1. CASE Seal(t) \/ Claim(t) \/ ClaimFails(t) \/ StartWorker(t) \/ StartRaises(t)
    <3>1. UNCHANGED <<armed, clock, mine, stale>>
      BY <2>1 DEF Seal, Claim, ClaimFails, StartWorker, StartRaises, history
    <3>2. \A u \in Sealers : pc'[u] \in {"claim", "defer"} => pc[u] \in {"claim", "defer"}
      BY <1>0, <2>1 DEF Seal, Claim, ClaimFails, StartWorker, StartRaises, Goto
    <3> QED
      BY <1>1, <1>2, <3>1, <3>2
  <2>2. CASE CountNotDue(t) \/ CountDue(t)
    <3>1. AgeDue => AgeDue'
      BY <1>0, <2>2 DEF CountNotDue, CountDue, AgeDue, ArmedAt
    <3>2. CASE CountNotDue(t)
      BY <1>0, <1>1, <3>1, <3>2 DEF CountNotDue, Goto
    <3>3. CASE CountDue(t)
      <4>1. mine'[t] >= Cadence \/ AgeDue'
        BY <1>0, <3>3 DEF CountDue, Due, ArmedAt, AgeDue
      <4>2. \A u \in Sealers \ {t} : mine'[u] = mine[u] /\ pc'[u] = pc[u]
        BY <1>0, <3>3 DEF CountDue, Goto
      <4>3. stale' = stale
        BY <3>3 DEF CountDue
      <4> QED
        BY <3>1, <4>1, <4>2, <4>3 DEF DeferredAreDue
    <3> QED
      BY <2>2, <3>2, <3>3
  <2>3. CASE Defer(t)
    <3>1. AgeDue => AgeDue'
      BY <1>2, <2>3 DEF Defer
    <3>2. \A u \in Sealers \ {t} : mine'[u] = mine[u] /\ pc'[u] = pc[u]
      BY <1>0, <2>3 DEF Defer, Goto
    <3>3. pc'[t] = "idle" /\ stale' = stale \ {t}
      BY <1>0, <2>3 DEF Defer, Goto, Writeback
    <3> QED
      BY <3>1, <3>2, <3>3 DEF DeferredAreDue
  <2>4. CASE Reset(t)
    <3>1. \A u \in Sealers : pc'[u] \in {"claim", "defer"} => u \in stale'
      BY <1>0, <2>4 DEF Reset, ResetCounters, Goto
    <3> QED
      BY <3>1 DEF DeferredAreDue
  <2> QED
    BY <1>3, <2>1, <2>2, <2>3, <2>4 DEF MaybeCheckpoint
<1>4. ASSUME NEW t \in Pushers, PushCall(t) \/ Push(t) PROVE DeferredAreDue'
  <2>0. \A u \in Sealers : pc'[u] = pc[u]
    <3>1. \E l : Goto(t, l)
      BY <1>4 DEF PushCall, Push, PushAcquire, PushNothingNew, PushRaises, PushReset,
                  PushBuild, PushStamp, PushReturn
    <3> QED
      BY <1>0, <3>1 DEF Goto
  <2>1. CASE PushReset(t)
    BY <2>0, <2>1 DEF PushReset, ResetCounters, DeferredAreDue
  <2>2. CASE ~PushReset(t)
    <3>1. UNCHANGED <<armed, clock, mine, stale>>
      BY <1>4, <2>2 DEF PushCall, Push, PushAcquire, PushNothingNew, PushRaises, PushBuild,
                        PushStamp, history
    <3> QED
      BY <1>1, <1>2, <2>0, <3>1
  <2> QED
    BY <2>1, <2>2
<1>5. CASE Worker \/ Tick \/ Quiescent \/ UNCHANGED vars
  BY <1>1, <1>2, <1>5 DEF Worker, WorkerBuild, WorkerRaises, WorkerStamp, WorkerDone, Tick,
                          Quiescent, vars, history
<1> QED
  BY <1>3, <1>4, <1>5 DEF Next

\* Steps that neither count, nor defer, nor reset: they add a capsule that its
\* sealer is about to count, or look at the ledger, or touch nothing of this.
LEMMA OtherSteps ==
    ASSUME Base, [Next]_vars
    PROVE  \/ \E t \in Sealers : Seal(t) \/ CountNotDue(t) \/ CountDue(t) \/ Defer(t) \/ Reset(t)
           \/ \E t \in Pushers : PushReset(t)
           \/ /\ UNCHANGED <<capsules, counts, armed, forgot>> /\ Counting' = Counting
              /\ clock' \in {clock, clock + 1}
              /\ UNCHANGED <<tried, since>> \/ (tried' = capsules /\ since' = -1)
<1>0. pc \in [Threads -> Labels] /\ Sealers \subseteq Threads
  BY DEF Base, SlotGuardsBuilders, Threads
<1>1. ASSUME NEW t \in Sealers, Claim(t) \/ ClaimFails(t) \/ StartWorker(t) \/ StartRaises(t)
      PROVE  /\ UNCHANGED <<capsules, counts, armed, forgot, clock, tried, since>>
             /\ Counting' = Counting
  <2>1. UNCHANGED <<capsules, counts, armed, forgot, clock, tried, since>>
    BY <1>1 DEF Claim, ClaimFails, StartWorker, StartRaises, history
  <2>2. pc[t] # "count" /\ \E l \in Labels : l # "count" /\ Goto(t, l)
    BY <1>1 DEF Claim, ClaimFails, StartWorker, StartRaises, Labels
  <2> QED
    BY <2>1, <2>2, CountingMoves
<1>2. ASSUME \A t \in Sealers : ~(Seal(t) \/ MaybeCheckpoint(t)),
             \A t \in Pushers : ~PushReset(t)
      PROVE  /\ UNCHANGED <<capsules, counts, armed, forgot>> /\ Counting' = Counting
             /\ clock' \in {clock, clock + 1}
             /\ UNCHANGED <<tried, since>> \/ (tried' = capsules /\ since' = -1)
  <2>1. Counting' = Counting
    BY <1>2, CountingStays
  <2>2. CASE \E t \in Pushers : PushCall(t) \/ Push(t)
    BY <1>2, <2>1, <2>2
       DEF PushCall, Push, PushAcquire, PushNothingNew, PushRaises, PushBuild, PushStamp,
           Built, Attempted, history
  <2>3. CASE Worker
    BY <2>1, <2>3 DEF Worker, WorkerBuild, WorkerRaises, WorkerStamp, WorkerDone, Built,
                      Attempted, history
  <2>4. CASE Tick \/ Quiescent \/ UNCHANGED vars
    BY <2>1, <2>4 DEF Tick, Quiescent, vars, history
  <2> QED
    BY <1>2, <2>2, <2>3, <2>4 DEF Next
<1> QED
  BY <1>1, <1>2 DEF MaybeCheckpoint

\* A reset is a build in flight.
LEMMA ResetFlies ==
    ASSUME Base, (\E t \in Sealers : Reset(t)) \/ (\E t \in Pushers : PushReset(t))
    PROVE  InFlight'
<1>1. PICK t \in Threads : Goto(t, "start") \/ Goto(t, "build")
  BY DEF Reset, PushReset, Threads
<1> QED
  BY <1>1 DEF Goto, InFlight, Base, SlotGuardsBuilders

\* The age clock starts no later than the count of the first unseen capsule.
LEMMA AgeClockKept ==
    ASSUME Base, AgeClockIsOld, [Next]_vars
    PROVE  AgeClockIsOld'
<1>0. /\ {clock, capsules, tried} \subseteq Nat /\ {armed, since} \subseteq Nat \cup {-1}
      /\ armed <= clock
  BY DEF Base, Counters
<1>1. CASE \E t \in Sealers : Seal(t)
  <2>1. PICK t \in Sealers : Seal(t)
    BY <1>1
  <2>2. Counting' # {} /\ UNCHANGED <<armed, since, worker, slot>>
    BY <2>1, CountingMoves DEF Seal, history
  <2>3. InFlight => InFlight' \/ since' = -1
    BY FlightEnds
  <2> QED
    BY <2>2, <2>3 DEF AgeClockIsOld
<1>2. CASE \E t \in Sealers : CountNotDue(t) \/ CountDue(t)
  <2>1. /\ UNCHANGED <<capsules, tried>> /\ armed' = ArmedAt
        /\ since' = IF capsules > tried /\ since = -1 THEN clock ELSE since
    BY <1>2 DEF CountNotDue, CountDue
  <2>2. InFlight => InFlight' \/ since' = -1
    BY FlightEnds
  <2> QED
    BY <1>0, <2>1, <2>2 DEF AgeClockIsOld, ArmedAt
<1>3. CASE \E t \in Sealers : Defer(t)
  <2>1. UNCHANGED <<capsules, tried, armed, since>> /\ Counting' = Counting
    <3>1. PICK t \in Sealers : Defer(t)
      BY <1>3
    <3> QED
      BY <3>1, CountingMoves DEF Defer
  <2>2. InFlight => InFlight' \/ since' = -1
    BY FlightEnds
  <2> QED
    BY <2>1, <2>2 DEF AgeClockIsOld
<1>4. CASE \/ \E t \in Sealers : Reset(t)
           \/ \E t \in Pushers : PushReset(t)
  <2>1. InFlight'
    BY <1>4, ResetFlies
  <2>2. UNCHANGED <<capsules, tried, since>> /\ Counting' = Counting
    <3>1. CASE \E t \in Sealers : Reset(t)
      <4>1. PICK t \in Sealers : Reset(t)
        BY <3>1
      <4> QED
        BY <4>1, CountingMoves DEF Reset
    <3>2. CASE \E t \in Pushers : PushReset(t)
      <4>1. PICK t \in Pushers : PushReset(t)
        BY <3>2
      <4>2. \A u \in Sealers : pc'[u] = pc[u]
        BY <4>1, CadenceAssumption
           DEF PushReset, Goto, Base, SlotGuardsBuilders, Threads
      <4> QED
        BY <4>1, <4>2 DEF PushReset, Counting
    <3> QED
      BY <1>4, <3>1, <3>2
  <2> QED
    BY <2>1, <2>2 DEF AgeClockIsOld
<1>5. CASE /\ UNCHANGED <<capsules, counts, armed, forgot>> /\ Counting' = Counting
           /\ UNCHANGED <<tried, since>> \/ (tried' = capsules /\ since' = -1)
  <2>1. InFlight => InFlight' \/ since' = -1
    BY FlightEnds
  <2> QED
    BY <1>0, <1>5, <2>1 DEF AgeClockIsOld
<1> QED
  BY <1>1, <1>2, <1>3, <1>4, <1>5, OtherSteps

\* What has been sealed since the last build attempt stays counted, unless a
\* count from before the last reset is written over it.
LEMMA CountedKept ==
    ASSUME Base, DeferredAreDue, Counted, [Next]_vars, Base'
    PROVE  Counted'
<1>0. /\ {clock, capsules, tried, counts} \subseteq Nat /\ armed \in Nat \cup {-1}
      /\ mine \in [Sealers -> Nat] /\ Cadence \in Nat /\ AgeCadence \in Nat \ {0}
      /\ Cardinality(Counting) \in Nat /\ Cardinality(Counting)' \in Nat
      /\ counts' \in Nat
  <2>1. Cardinality(Counting) \in Nat
    BY FS_CardinalityType DEF Base
  <2>2. Cardinality(Counting') \in Nat
    BY FS_CardinalityType DEF Base
  <2> QED
    BY <2>1, <2>2, CadenceAssumption DEF Base, Counters
<1>1. CASE InFlight
  <2>1. CASE capsules' = tried'
    <3>1. tried' \in Nat
      BY DEF Base, Counters
    <3>2. capsules' - tried' <= counts' + Cardinality(Counting)'
      BY <1>0, <2>1, <3>1
    <3> QED
      BY <3>2 DEF Counted
  <2> QED
    BY <1>1, <2>1, FlightEnds DEF Counted
<1>2. CASE ~InFlight /\ \E t \in Sealers : Seal(t)
  <2>1. PICK t \in Sealers : Seal(t)
    BY <1>2
  <2>2. /\ capsules' = capsules + 1 /\ Cardinality(Counting)' = Cardinality(Counting) + 1
        /\ UNCHANGED <<counts, armed, clock, tried, forgot>>
    BY <2>1, CountingMoves DEF Seal, history
  <2> QED
    BY <1>0, <1>2, <2>2 DEF Counted, AgeDue
<1>3. CASE ~InFlight /\ \E t \in Sealers : CountNotDue(t)
  <2>1. PICK t \in Sealers : CountNotDue(t)
    BY <1>3
  <2>2. /\ counts' = counts + 1 /\ Cardinality(Counting)' = Cardinality(Counting) - 1
        /\ UNCHANGED <<capsules, tried, forgot>>
    BY <2>1, CountingMoves DEF CountNotDue
  <2>3. ~Due
    BY <2>1 DEF CountNotDue
  <2> QED
    BY <1>0, <1>3, <2>2, <2>3 DEF Counted, AgeDue, Due, ArmedAt
<1>4. CASE \E t \in Sealers : CountDue(t)
  <2>1. Due /\ UNCHANGED <<counts, clock>> /\ armed' = ArmedAt
    BY <1>4 DEF CountDue
  <2> QED
    BY <1>0, <2>1 DEF Counted, AgeDue, Due, ArmedAt
<1>5. CASE ~InFlight /\ \E t \in Sealers : Defer(t)
  <2>1. PICK t \in Sealers : Defer(t)
    BY <1>5
  <2>2. /\ counts' = mine[t] /\ Counting' = Counting /\ pc[t] = "defer"
        /\ forgot' = (forgot \/ (t \in stale /\ mine[t] < counts))
        /\ UNCHANGED <<capsules, tried, armed, clock>>
    BY <2>1, CountingMoves DEF Defer, Writeback
  <2>3. CASE t \notin stale
    <3>1. mine[t] >= Cadence \/ AgeDue
      BY <2>2, <2>3 DEF DeferredAreDue
    <3> QED
      BY <1>0, <2>2, <3>1 DEF Counted, AgeDue
  <2>4. CASE t \in stale /\ mine[t] < counts
    BY <2>2, <2>4 DEF Counted
  <2>5. CASE mine[t] >= counts
    <3>1. CASE forgot
      BY <2>2, <3>1 DEF Counted
    <3>2. CASE counts + 1 >= Cadence \/ AgeDue
      BY <1>0, <2>2, <2>5, <3>2 DEF Counted, AgeDue
    <3>3. CASE capsules - tried <= counts + Cardinality(Counting)
      <4>1. Cardinality(Counting)' = Cardinality(Counting)
        BY <2>2
      <4> QED
        BY <1>0, <2>2, <2>5, <3>3, <4>1 DEF Counted
    <3> QED
      BY <1>5, <3>1, <3>2, <3>3 DEF Counted
  <2> QED
    BY <1>0, <2>3, <2>4, <2>5
<1>6. CASE (\E t \in Sealers : Reset(t)) \/ (\E t \in Pushers : PushReset(t))
  BY <1>6, ResetFlies DEF Counted
<1>7. CASE /\ ~InFlight
           /\ UNCHANGED <<capsules, counts, armed, forgot>> /\ Counting' = Counting
           /\ clock' \in {clock, clock + 1}
           /\ UNCHANGED <<tried, since>> \/ (tried' = capsules /\ since' = -1)
  <2>1. Cardinality(Counting)' = Cardinality(Counting)
    BY <1>7
  <2>2. capsules' - tried' <= capsules - tried \/ capsules' - tried' = 0
    BY <1>0, <1>7
  <2> QED
    BY <1>0, <1>7, <2>1, <2>2 DEF Counted, AgeDue
<1> QED
  BY <1>1, <1>2, <1>3, <1>4, <1>5, <1>6, <1>7, OtherSteps

\* A new checkpoint covers the ledger and grows over the one before.
LEMMA BuildsCover ==
    ASSUME [Next]_vars
    PROVE  CheckpointCoversDisk
<1>1. prev' = prev \/ (Size > prev /\ prev' = Size /\ covered' = capsules)
  <2>1. ASSUME NEW t \in Sealers, Seal(t) \/ MaybeCheckpoint(t) PROVE prev' = prev
    BY <2>1 DEF Seal, MaybeCheckpoint, CountNotDue, CountDue, Claim, ClaimFails, Defer,
                Reset, StartWorker, StartRaises
  <2>2. ASSUME NEW t \in Pushers, PushCall(t) \/ Push(t)
        PROVE  prev' = prev \/ (Size > prev /\ prev' = Size /\ covered' = capsules)
    BY <2>2 DEF PushCall, Push, PushAcquire, PushNothingNew, PushRaises, PushReset,
                PushBuild, PushStamp, Built
  <2>3. CASE Worker \/ Tick \/ Quiescent \/ UNCHANGED vars
    BY <2>3 DEF Worker, WorkerBuild, WorkerRaises, WorkerStamp, WorkerDone, Built, Tick,
                Quiescent, vars
  <2> QED
    BY <2>1, <2>2, <2>3 DEF Next
<1> QED
  BY <1>1 DEF CheckpointCoversDisk

\* maybe_checkpoint, "so nothing is lost": with any number of sealing and
\* pushing threads each checkpoint covers all that is on disk; capsules that no
\* build attempt has seen make the next seal() due once they fill a window,
\* unless a deferred thread has written a count from before the last reset over
\* a larger one, and in any case once AgeCadence has passed.
THEOREM SealsAreCheckpointed == Spec => WindowsAreCovered
<1>1. Init => WInv
  <2>1. ASSUME Init PROVE Counting = {}
    BY <2>1 DEF Init, Counting, Threads
  <2>2. ASSUME Init PROVE Base
    <3>1. SlotGuardsBuilders /\ SlotNamesHolder
      BY <2>2 DEF Init, SlotGuardsBuilders, Labels, HoldLabels, SlotNamesHolder, Threads
    <3>2. Counters
      BY <2>2 DEF Init, Counters
    <3>3. IsFiniteSet(Counting)
      BY <2>1, <2>2, FS_EmptySet
    <3> QED
      BY <3>1, <3>2, <3>3 DEF Base
  <2>3. ASSUME Init PROVE DeferredAreDue /\ AgeClockIsOld
    BY <2>3 DEF Init, DeferredAreDue, AgeClockIsOld, Threads
  <2>4. ASSUME Init PROVE Counted
    <3>1. Cardinality(Counting) = 0
      BY <2>1, <2>4, FS_EmptySet
    <3> QED
      BY <2>4, <3>1 DEF Init, Counted
  <2> QED
    BY <2>2, <2>3, <2>4 DEF WInv
<1>2. WInv /\ [Next]_vars => WInv'
  BY BaseKept, DeferredKept, AgeClockKept, CountedKept DEF WInv
<1>3. WInv => FullWindowIsDue /\ OverdueIsDue
  BY CountedIsDue
<1>4. [Next]_vars => [CheckpointCoversDisk]_vars
  BY BuildsCover
<1> QED
  BY <1>1, <1>2, <1>3, <1>4, PTL DEF Spec, WindowsAreCovered

=============================================================================
