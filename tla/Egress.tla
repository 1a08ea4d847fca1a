------------------------------- MODULE Egress -------------------------------
(***************************************************************************)
(* What leaves the process after a record is appended: the second half of  *)
(* capsule_emit.core._emit_capsule_at.  A seal may ask the witnesses,      *)
(* and, where the old channel is switched on, submit its id to an anchor,  *)
(* whose answer arrives on another thread.  A notice on stderr comes       *)
(* first, once per process.  Submissions without an answer are joined when *)
(* the process ends.                                                       *)
(*                                                                         *)
(* The cadence of checkpoints and what a push does are modules             *)
(* CheckpointCadence and WitnessBacklog: here, whether a checkpoint is due *)
(* and whether a witness confirms it are open.                             *)
(***************************************************************************)
EXTENDS Integers, Sequences, FiniteSets

CONSTANTS
    Threads,        \* threads that seal
    MaxSeals        \* bound: records appended

VARIABLES
    process,    \* the process's settings, its notice, and whether it is ending
    calls,      \* where each thread is, and with which seal
    seals,      \* what became of each seal, in the order of the appends
    tracked     \* _pending_anchors

egressVars == <<process, calls, seals, tracked>>

AtRest == [at |-> "rest", seal |-> 0]

\* witness: CAPSULE_WITNESS; named: a witness is named; anchor: the legacy
\* channel is on and has an endpoint.
EgressInit ==
    /\ process \in [witness : {"off", "on", "stub"}, named : BOOLEAN, production : BOOLEAN,
                    anchor : BOOLEAN, notice : {"none"}, ending : {FALSE}]
    /\ process.production => process.witness = "stub"
    /\ calls = [t \in Threads |-> AtRest]
    /\ seals = <<>>
    /\ tracked = {}

\* witness_mode: the call's own witness= before the process's, and "unnamed"
\* where no witness is there to dial.
ModeOf(explicit) ==
    LET asked == IF explicit = "default" THEN process.witness ELSE explicit
    IN IF asked = "on" /\ ~process.named THEN "unnamed" ELSE asked

Move(t, next) == calls' = [calls EXCEPT ![t].at = next]
Done(t) == calls' = [calls EXCEPT ![t] = AtRest]
SealOf(t) == calls[t].seal
Note(s, field, value) == seals' = [seals EXCEPT ![s][field] = value]
Leaves(s, channel) == [seals EXCEPT ![s].left = @ \cup {channel}]

\* anchor_enabled: the witness switch is the one that stops everything.
AnchorEnabled(mode) == process.anchor /\ mode # "off"

\* The record is appended.  A stub witness in production is refused before
\* that, so such a call leaves nothing behind.
Appended(t, explicit, require, wait) ==
    LET mode == ModeOf(explicit)
    IN /\ calls[t] = AtRest
       /\ ~process.ending
       /\ Len(seals) < MaxSeals
       /\ ~(mode = "stub" /\ process.production)
       /\ seals' = Append(seals, [mode |-> mode, anchor |-> AnchorEnabled(mode), require |-> require, wait |-> wait,
                                  left |-> {}, witness |-> "none", future |-> "none", told |-> "nothing"])
       /\ calls' = [calls EXCEPT ![t] = [at |-> "notice", seal |-> Len(seals) + 1]]
       /\ UNCHANGED <<process, tracked>>

\* _print_first_run_disclosure_once: the first thread with something to send
\* takes the notice and prints it after the lock is released; another goes
\* on at once.
FirstRunDisclosure(t) ==
    LET s == SealOf(t)
    IN /\ calls[t].at = "notice"
       /\ IF (seals[s].mode = "on" \/ seals[s].anchor) /\ process.notice = "none"
          THEN process' = [process EXCEPT !.notice = "claimed"] /\ Move(t, "print")
          ELSE Move(t, "witness") /\ UNCHANGED process
       /\ UNCHANGED <<seals, tracked>>

PrintDisclosure(t) ==
    /\ calls[t].at = "print"
    /\ process' = [process EXCEPT !.notice = "printed"]
    /\ Move(t, "witness")
    /\ UNCHANGED <<seals, tracked>>

\* require_witness: raises unless a witness confirmed.  The record stays.
RequireWitness(t, confirmed) ==
    LET s == SealOf(t)
    IN /\ calls[t].at = "witness" /\ seals[s].require
       /\ confirmed => seals[s].mode \in {"on", "stub"}
       /\ seals' = [IF seals[s].mode = "on" THEN Leaves(s, "witness") ELSE seals
                       EXCEPT ![s].witness = IF confirmed THEN "receipt" ELSE "raised"]
       /\ IF confirmed THEN Move(t, "anchor") ELSE Done(t)
       /\ UNCHANGED <<process, tracked>>

\* maybe_checkpoint: a checkpoint may be due, and a real one goes out.
MaybeCheckpoint(t, due) ==
    LET s == SealOf(t)
    IN /\ calls[t].at = "witness" /\ ~seals[s].require
       /\ due => seals[s].mode = "on"
       /\ seals' = [IF due THEN Leaves(s, "witness") ELSE seals
                       EXCEPT ![s].witness = IF seals[s].mode \in {"on", "stub"} THEN "queued" ELSE "local"]
       /\ Move(t, "anchor")
       /\ UNCHANGED <<process, tracked>>

\* async_anchor, or nothing to submit.
SubmitAnchor(t) ==
    LET s == SealOf(t)
    IN /\ calls[t].at = "anchor"
       /\ IF seals[s].anchor
          THEN /\ seals' = [Leaves(s, "anchor") EXCEPT ![s].future = "running"]
               /\ Move(t, "track")
          ELSE Done(t) /\ UNCHANGED seals
       /\ UNCHANGED <<process, tracked>>

Answered(s) == seals[s].future \in {"accepted", "failed"}

\* _track_pending_anchor: what has been answered is swept first.
Swept(s) == {p \in tracked : ~Answered(p)} \cup {s}

TrackPendingAnchor(t) ==
    LET s == SealOf(t)
    IN /\ calls[t].at = "track"
       /\ tracked' = Swept(s)
       /\ IF seals[s].wait THEN Move(t, "wait") ELSE Done(t)
       /\ UNCHANGED <<process, seals>>

\* Faulty variant: a submission that timed out is let go of.
TimeoutUntracks(t) ==
    LET s == SealOf(t)
    IN /\ calls[t].at = "wait"
       /\ Note(s, "told", IF Answered(s) THEN seals[s].future ELSE seals[s].told)
       /\ tracked' = tracked \ {s}
       /\ Done(t)
       /\ UNCHANGED process

\* anchor_wait: the answer, or the time is up and the submission stays.
AwaitAnchor(t) ==
    LET s == SealOf(t)
    IN /\ calls[t].at = "wait"
       /\ Note(s, "told", IF Answered(s) THEN seals[s].future ELSE seals[s].told)
       /\ tracked' = IF Answered(s) THEN tracked \ {s} ELSE tracked
       /\ Done(t)
       /\ UNCHANGED process

\* The anchor's worker thread.
AnchorAnswers(s, accepted) ==
    /\ seals[s].future = "running"
    /\ Note(s, "future", IF accepted THEN "accepted" ELSE "failed")
    /\ UNCHANGED <<process, calls, tracked>>

\* The interpreter ends once its threads have.
ProcessEnds ==
    /\ \A t \in Threads : calls[t] = AtRest
    /\ ~process.ending
    /\ process' = [process EXCEPT !.ending = TRUE]
    /\ UNCHANGED <<calls, seals, tracked>>

\* _join_pending_anchors_at_exit: one submission after the other, and a
\* warning unless it was accepted.
JoinAtExit(s) ==
    /\ process.ending /\ s \in tracked
    /\ tracked' = tracked \ {s}
    /\ IF seals[s].future = "accepted" THEN UNCHANGED seals ELSE Note(s, "told", "warned")
    /\ UNCHANGED <<process, calls>>

EgressNext ==
    \/ \E t \in Threads :
           \/ \E explicit \in {"default", "on", "off"}, require, wait \in BOOLEAN :
                  (wait => process.anchor) /\ Appended(t, explicit, require, wait)
           \/ FirstRunDisclosure(t)
           \/ PrintDisclosure(t)
           \/ \E confirmed \in BOOLEAN : RequireWitness(t, confirmed)
           \/ \E due \in BOOLEAN : MaybeCheckpoint(t, due)
           \/ SubmitAnchor(t)
           \/ TrackPendingAnchor(t)
           \/ AwaitAnchor(t)
    \/ \E s \in DOMAIN seals : \/ \E accepted \in BOOLEAN : AnchorAnswers(s, accepted)
                               \/ JoinAtExit(s)
    \/ ProcessEnds

-----------------------------------------------------------------------------
\* Nothing leaves for a call that switched it off, to a stub, or to an
\* anchor nobody opted into.
NothingLeavesUnasked ==
    \A s \in DOMAIN seals :
        /\ "witness" \in seals[s].left => seals[s].mode = "on"
        /\ "anchor" \in seals[s].left => process.anchor /\ seals[s].mode # "off"

\* Nothing leaves before the notice is on stderr, except what another thread
\* sends between the moment the flag was taken and the print: the thread
\* that took it has sent nothing by then, and the notice still comes.
NoticeComesFirst ==
    \A s \in DOMAIN seals :
        seals[s].left # {} =>
            \/ process.notice = "printed"
            \/ \E t \in Threads : calls[t].at = "print" /\ calls[t].seal # s

\* A submission without an answer is tracked from the time its call moves on
\* until the end of the process, where its caller is warned of it.
UnansweredIsNotForgotten ==
    \A s \in DOMAIN seals :
        seals[s].future = "running" =>
            \/ s \in tracked
            \/ \E t \in Threads : calls[t] = [at |-> "track", seal |-> s]
            \/ process.ending /\ seals[s].told = "warned"
=============================================================================
