--------------------------- MODULE CallListeners ----------------------------
(***************************************************************************)
(* The listeners of the framework adapters that pair the start and the end *)
(* of a tool call: LangChain, Agno, LiteLLM, Strands and CrewAI. Adapters  *)
(* attaches one of them.                                                   *)
(***************************************************************************)
EXTENDS Emitter

-----------------------------------------------------------------------------
(* capsule_emit.adapters.langchain_listener: planned, confirmed and failed *)
(* capsules paired by run_id, with the model last seen threaded into them. *)

VARIABLE captured   \* _captured_model; 0 is None

LangChainInit == captured = 0

\* A start event may name no model: the one captured before stays.
OnLlmStartCore(model, sealed) ==
    /\ captured' = IF model # 0 THEN model ELSE captured
    /\ IF include THEN SealNote(sealed) ELSE sealed /\ UNCHANGED <<ledger, lost>>
    /\ UNCHANGED <<phase, pending, include>>

\* The run is remembered even when its plan could not be sealed.
OnToolStartCore(c, sealed) ==
    /\ Becomes(c, "new", "running")
    /\ Seal(Attributed(Capsule(c, "planned", FALSE, 0, {}), captured), sealed)
    /\ pending' = Remember(pending, c, IdIf(sealed))
    /\ UNCHANGED <<captured, include>>

PlanOf(c) == Get(pending, c, 0)

\* _resolve_pending: a plan that was lost is told from a run never seen.
PlanWasDropped(c) == c \in Keys(pending) /\ PlanOf(c) = 0

\* The outcome takes the captured model with it.
ToolOutcome(c, end, status, output, sealed) ==
    /\ Becomes(c, "running", end)
    /\ pending' = Without(pending, c)
    /\ Seal(Attributed(Capsule(c, status, output, PlanOf(c),
                               Unchained(PlanWasDropped(c))), captured), sealed)
    /\ captured' = 0
    /\ UNCHANGED include

OnToolEndCore(c, output, sealed) == ToolOutcome(c, "done", "confirmed", output, sealed)
OnToolErrorCore(c, sealed) == ToolOutcome(c, "raised", "failed", TRUE, sealed)

\* Only the root run's lifecycle is recorded.
OnChainLifecycleCore(root, sealed) ==
    /\ include /\ root
    /\ SealNote(sealed)
    /\ UNCHANGED <<phase, pending, captured, include>>

\* capture: a record handed in by the caller; one from elsewhere is received.
Capture(c, foreign, output, sealed) ==
    /\ Becomes(c, "new", "done")
    /\ Seal(Capsule(c, IF foreign THEN "none" ELSE "confirmed", output, 0, {}), sealed)
    /\ UNCHANGED <<pending, captured, include>>

LangChainNext ==
    \E sealed \in BOOLEAN :
        \/ \E m \in Models \cup {0} : OnLlmStartCore(m, sealed)
        \/ \E root \in BOOLEAN : OnChainLifecycleCore(root, sealed)
        \/ \E c \in Calls :
            \/ OnToolStartCore(c, sealed)
            \/ OnToolErrorCore(c, sealed)
            \/ OnToolEndCore(c, HasOutput(c), sealed)
            \/ \E foreign \in BOOLEAN : Capture(c, foreign, HasOutput(c), sealed)

-----------------------------------------------------------------------------
(* capsule_emit.adapters.agno_listener: a hook around each tool call.  The *)
(* plan's id is a local variable of the hook, kept here in pending.  Agno  *)
(* may answer from its cache, so a call like one confirmed before is       *)
(* marked as a possible replay of it.                                      *)

VARIABLE seen   \* _seen: the last confirmed capsule of a signature

AgnoInit == seen = <<>>

\* wrap_call: the plan is sealed before the tool runs.
SealPlanned(c, sealed) ==
    /\ Becomes(c, "new", "running")
    /\ Seal(Capsule(c, "planned", FALSE, 0, {}), sealed)
    /\ pending' = Assign(pending, c, IdIf(sealed))
    /\ UNCHANGED <<seen, include>>

\* _replay_compute
ReplayMark(c) ==
    LET prior == Get(seen, Signature[c], 0)
    IN IF include /\ prior # 0 THEN {<<"replay_of", prior>>} ELSE {}

\* The confirmed capsule becomes the one later equal calls may replay.
SealConfirmed(c, output, sealed) ==
    /\ Becomes(c, "running", "done")
    /\ pending' = Without(pending, c)
    /\ Seal(Capsule(c, "confirmed", output, Get(pending, c, 0),
                    ReplayMark(c) \cup Unchained(Get(pending, c, 0) = 0)), sealed)
    /\ seen' = IF sealed THEN Remember(seen, Signature[c], NextId) ELSE seen
    /\ UNCHANGED include

SealFailed(c, sealed) ==
    /\ Becomes(c, "running", "raised")
    /\ pending' = Without(pending, c)
    /\ Seal(Capsule(c, "failed", TRUE, Get(pending, c, 0),
                    Unchained(Get(pending, c, 0) = 0)), sealed)
    /\ UNCHANGED <<seen, include>>

\* A cancelled hook is left by a BaseException: the plan stands alone.
WrapCancelled(c) ==
    /\ Becomes(c, "running", "cancelled")
    /\ pending' = Without(pending, c)
    /\ UNCHANGED <<ledger, lost, seen, include>>

AgnoNext ==
    \E c \in Calls :
        \/ WrapCancelled(c)
        \/ \E sealed \in BOOLEAN :
            \/ SealPlanned(c, sealed)
            \/ SealFailed(c, sealed)
            \/ SealConfirmed(c, HasOutput(c), sealed)

-----------------------------------------------------------------------------
(* capsule_emit.adapters.litellm_listener: LiteLLM reports a call when it  *)
(* is over.  The request record and the outcome are sealed one after the   *)
(* other from the same report; where include is FALSE the request record   *)
(* is switched off.  Other reports may be handled in between.              *)

\* _seal_request: the report arrives and its request is recorded first.
SealRequest(c, sealed) ==
    /\ Becomes(c, "new", "running")
    /\ IF include
       THEN /\ Seal(Capsule(c, "planned", FALSE, 0, {}), sealed)
            /\ pending' = Assign(pending, c, IdIf(sealed))
       ELSE sealed /\ UNCHANGED <<ledger, lost, pending>>
    /\ UNCHANGED include

\* _unchained: an outcome without parent says whether the request record
\* was lost or switched off.
RequestMissing(c) == Get(pending, c, 0) = 0

Reported(c, end, status, output, sealed) ==
    /\ Becomes(c, "running", end)
    /\ pending' = Without(pending, c)
    /\ Seal(Capsule(c, status, output, Get(pending, c, 0),
                    Unchained(RequestMissing(c))), sealed)
    /\ UNCHANGED include

\* A response the client did not wait for is dispatched, not confirmed.
OnSuccessCore(c, disconnected, output, sealed) ==
    Reported(c, "done", IF disconnected THEN "dispatched" ELSE "confirmed", output, sealed)

OnFailureCore(c, output, sealed) == Reported(c, "raised", "failed", output, sealed)

LiteLLMNext ==
    \E c \in Calls, sealed \in BOOLEAN :
        \/ SealRequest(c, sealed)
        \/ OnFailureCore(c, HasOutput(c), sealed)
        \/ \E disconnected \in BOOLEAN :
               OnSuccessCore(c, disconnected, HasOutput(c), sealed)

-----------------------------------------------------------------------------
(* capsule_emit.adapters.strands_listener: hooks around each tool call,    *)
(* paired by toolUseId.  The executor may run a call again under the same  *)
(* id; the listener counts the attempts and marks the later ones.          *)

CONSTANT MaxAttempts    \* bound: times the executor runs a call, in all

VARIABLES
    attempts,   \* _attempts: per id the attempt and the last plan sealed
    ran         \* how often the executor ran a call

strandsVars == <<attempts, ran>>

StrandsInit ==
    /\ attempts = <<>>
    /\ ran = 0

NoAttempt == [number |-> 0, plan |-> 0]

\* _attempt_compute
AttemptMarks(number, plan) ==
    IF ~include \/ number < 2 THEN {}
    ELSE {<<"attempt", number>>}
         \cup (IF plan # 0 THEN {<<"retry_of", plan>>} ELSE {})

\* Each before-event of an id is one more attempt, also when the after-event of
\* the one before never came.  Without an id the plan is sealed and nothing is
\* remembered.
OnBeforeToolCall(c, sealed) ==
    LET last == IF c \in Anonymous THEN NoAttempt ELSE Get(attempts, c, NoAttempt)
        number == last.number + 1
    IN /\ ran < MaxAttempts
       /\ phase[c] \in {"new", "running", "done", "raised"}
       /\ phase' = [phase EXCEPT ![c] = "running"]
       /\ ran' = ran + 1
       /\ Seal(Capsule(c, "planned", FALSE, 0, AttemptMarks(number, last.plan)), sealed)
       /\ IF c \in Anonymous THEN UNCHANGED <<attempts, pending>>
          ELSE /\ attempts' = Remember(attempts, c,
                      [number |-> number, plan |-> IF sealed THEN NextId ELSE last.plan])
               /\ pending' = IF sealed THEN Remember(pending, c, NextId) ELSE pending
       /\ UNCHANGED include

\* The three ends of a call: cancelled by a hook, an error, a result.
StrandsOutcomes == {<<"blocked", "blocked">>, <<"failed", "raised">>, <<"confirmed", "done">>}

\* The outcome's marks take the plan it answers, not that of the attempt before.
OnAfterToolCall(c, outcome, output, sealed) ==
    LET known == c \notin Anonymous
        plan == IF known THEN Get(pending, c, 0) ELSE 0
        number == IF known THEN Get(attempts, c, [NoAttempt EXCEPT !.number = 1]).number ELSE 1
    IN /\ Becomes(c, "running", outcome[2])
       /\ pending' = Without(pending, c)
       /\ Seal(Capsule(c, outcome[1], output, plan, AttemptMarks(number, plan)), sealed)
       /\ UNCHANGED <<strandsVars, include>>

StrandsNext ==
    \E c \in Calls, sealed \in BOOLEAN :
        \/ OnBeforeToolCall(c, sealed)
        \/ \E outcome \in StrandsOutcomes :
               OnAfterToolCall(c, outcome, outcome[1] # "confirmed" \/ HasOutput(c), sealed)

-----------------------------------------------------------------------------
(* capsule_emit.adapters.crewai and crewai_listener: CrewAI's events carry *)
(* no call id, so an outcome takes the oldest open plan with the same tool *)
(* and arguments.  Events the bus replays seal nothing.                    *)

\* The places of the open plans of a key, and the oldest of them.
WithKey(key) == {i \in DOMAIN pending : pending[i].key = key}
OldestOf(key) == CHOOSE i \in WithKey(key) : \A j \in WithKey(key) : i <= j

\* deque(maxlen): one more id pushes the key's oldest one out.
PlanStacked(key, id) ==
    LET kept == IF Cardinality(WithKey(key)) < MaxPending THEN pending
                ELSE LeaveOut(pending, OldestOf(key))
    IN Append(kept, [key |-> key, val |-> id])

OnToolStarted(c, replaying, sealed) ==
    /\ Becomes(c, "new", "running")
    /\ IF replaying THEN sealed /\ UNCHANGED <<ledger, lost, pending>>
       ELSE /\ Seal(Capsule(c, "planned", FALSE, 0, {}), sealed)
            /\ pending' = IF sealed THEN PlanStacked(Signature[c], NextId) ELSE pending
    /\ UNCHANGED include

\* _pop_planned: first started, first resolved.
PopPlanned(key) ==
    IF WithKey(key) = {} THEN [plan |-> 0, rest |-> pending]
    ELSE [plan |-> pending[OldestOf(key)].val, rest |-> LeaveOut(pending, OldestOf(key))]

\* An outcome without a plan is sealed without a parent.
CrewOutcome(c, end, status, output, replaying, sealed) ==
    /\ Becomes(c, "running", IF replaying THEN "replayed" ELSE end)
    /\ IF replaying THEN sealed /\ UNCHANGED <<ledger, lost, pending>>
       ELSE LET popped == PopPlanned(Signature[c])
            IN /\ pending' = popped.rest
               /\ Seal(Capsule(c, status, output, popped.plan, {}), sealed)
    /\ UNCHANGED include

OnToolFinished(c, output, replaying, sealed) ==
    CrewOutcome(c, "done", "confirmed", output, replaying, sealed)

OnToolError(c, replaying, sealed) ==
    CrewOutcome(c, "raised", "failed", TRUE, replaying, sealed)

\* Kickoff events, and model calls where they are asked for.
OnCrewKickoff(replaying, sealed) ==
    /\ include /\ ~replaying
    /\ SealNote(sealed)
    /\ UNCHANGED <<phase, pending, include>>

OnLlmCall(replaying, sealed) ==
    /\ include /\ ~replaying
    /\ SealNote(sealed)
    /\ UNCHANGED <<phase, pending, include>>

CrewNext ==
    \E replaying, sealed \in BOOLEAN :
        \/ OnCrewKickoff(replaying, sealed)
        \/ OnLlmCall(replaying, sealed)
        \/ \E c \in Calls :
            \/ OnToolStarted(c, replaying, sealed)
            \/ OnToolError(c, replaying, sealed)
            \/ OnToolFinished(c, HasOutput(c), replaying, sealed)
=============================================================================
