--------------------------- MODULE CallRecorders ----------------------------
(***************************************************************************)
(* The adapters that record a call around it or after it: the wrappers of  *)
(* MCP, Dapr, LangChain and Hermes, the chains of NeMo Guardrails and      *)
(* Inspect, the Agent Gateway service and the OTel exporter. Adapters      *)
(* attaches one of them.                                                   *)
(***************************************************************************)
EXTENDS Emitter

-----------------------------------------------------------------------------
(* The adapters that record a call after it ran: the decorators of         *)
(* capsule_emit.adapters.mcp (with the gate of capsule_emit.gate) and      *)
(* dapr_agents, and the callbacks of adapters.langchain and hermes.  The   *)
(* MCP emitter also names the toolset in every capsule and keeps a         *)
(* manifest of it on disk, unless include is FALSE.                        *)

CONSTANTS
    Gated,          \* the calls whose tool declares constraints
    Toolsets        \* the toolsets a server may present, as numbers

VARIABLES
    toolset,        \* _toolset_digest; 0 is None
    manifests,      \* the manifests on disk
    unwritten       \* ghost: toolsets whose manifest could not be written

wrapperVars == <<toolset, manifests, unwritten>>

WrapperInit == toolset = 0 /\ manifests = {} /\ unwritten = {}

\* The digest is set before the manifest is written: a failed write is not
\* tried again while the toolset stays the same.
CaptureToolset(t, writes) ==
    LET due == include /\ t # toolset
    IN /\ due /\ ~writes => Cardinality(unwritten) + Cardinality(lost) < MaxLost
       /\ toolset' = t
       /\ manifests' = IF due /\ writes THEN manifests \cup {t} ELSE manifests
       /\ unwritten' = IF due /\ ~writes THEN unwritten \cup {t} ELSE unwritten
       /\ UNCHANGED emitterVars

\* _ext_mcp_block
ToolsetMark == IF toolset = 0 THEN {} ELSE {<<"toolset", toolset>>}

\* The tool runs; when it raises, the wrapper is left with nothing sealed.
ToolRuns(c) == Becomes(c, "new", "running") /\ UNCHANGED <<ledger, pending, lost, include, wrapperVars>>
ToolRaises(c) == Becomes(c, "running", "gone") /\ UNCHANGED <<ledger, pending, lost, include, wrapperVars>>

\* _safe_emit: a seal that fails is a warning.
SafeEmit(c, sealed) ==
    /\ c \notin Gated
    /\ Becomes(c, "running", "done")
    /\ Seal(Capsule(c, "dispatched", TRUE, 0, ToolsetMark), sealed)
    /\ UNCHANGED <<pending, include, wrapperVars>>

\* gate_and_emit: every constraint runs.  With no callback a failed check
\* raises and seals nothing; a seal that fails raises too.
GateAndEmit(c, passed, escalates, marks, sealed) ==
    IF passed \/ escalates
    THEN /\ Seal(Capsule(c, IF passed THEN "dispatched" ELSE "blocked", TRUE, 0, marks), sealed)
         /\ Becomes(c, "running", IF sealed THEN "done" ELSE "raised")
    ELSE sealed /\ Becomes(c, "running", "refused") /\ UNCHANGED <<ledger, lost>>

EmitWithGate(c, passed, escalates, sealed) ==
    /\ c \in Gated
    /\ GateAndEmit(c, passed, escalates, ToolsetMark, sealed)
    /\ UNCHANGED <<pending, include, wrapperVars>>

\* dapr_agents: the decorator, and a human's decision on a tool request.
EmitAfter(c, sealed) ==
    /\ c \notin Gated
    /\ Becomes(c, "running", "done")
    /\ Seal(Capsule(c, "dispatched", TRUE, 0, {}), sealed)
    /\ UNCHANGED <<pending, include, wrapperVars>>

\* A rejected request does not run; a decision that is not sealed raises
\* and is taken again.
RecordHitl(c, accept, sealed) ==
    /\ phase[c] = "new"
    /\ Seal(Capsule(c, IF accept THEN "dispatched" ELSE "blocked", TRUE, 0, {}), sealed)
    /\ phase' = IF sealed THEN [phase EXCEPT ![c] = IF accept THEN "running" ELSE "refused"]
                ELSE phase
    /\ UNCHANGED <<pending, include, wrapperVars>>

\* adapters.langchain: the input is kept from start to end, the record is
\* made at the end, and an error forgets the call.
OnToolStart(c) ==
    /\ Becomes(c, "new", "started")
    /\ pending' = Assign(pending, c, 0)
    /\ UNCHANGED <<ledger, lost, include, wrapperVars>>

\* Here, as in hermes' after_tool, a seal that fails is the host's to handle.
OnToolEnd(c, sealed) ==
    /\ Becomes(c, "started", IF sealed THEN "done" ELSE "raised")
    /\ pending' = Without(pending, c)
    /\ Seal(Capsule(c, "dispatched", TRUE, 0, {}), sealed)
    /\ UNCHANGED <<include, wrapperVars>>

OnToolError(c) ==
    /\ Becomes(c, "started", "gone")
    /\ pending' = Without(pending, c)
    /\ UNCHANGED <<ledger, lost, include, wrapperVars>>

\* The call that a tool's record is made for ran on one adapter: the gated
\* ones on MCP, the others on any.
WrapperNext ==
    \/ \E t \in Toolsets, writes \in BOOLEAN : CaptureToolset(t, writes)
    \/ \E c \in Calls :
        \/ ToolRuns(c)
        \/ ToolRaises(c)
        \/ c \notin Gated /\ OnToolStart(c)
        \/ OnToolError(c)
        \/ \E sealed \in BOOLEAN :
            \/ SafeEmit(c, sealed)
            \/ EmitAfter(c, sealed)
            \/ OnToolEnd(c, sealed)
            \/ \E accept \in BOOLEAN : c \notin Gated /\ RecordHitl(c, accept, sealed)
            \/ \E passed, escalates \in BOOLEAN : EmitWithGate(c, passed, escalates, sealed)

-----------------------------------------------------------------------------
(* capsule_emit.adapters.nemo_guardrails and inspect_ai: what the host did *)
(* is read back from its log and sealed as a chain.  A turn (a sample) is  *)
(* a call here; each of its capsules cites the last one sealed before it.  *)
(* Where include is FALSE, rails that allowed are not recorded.            *)

CONSTANTS
    Turns,      \* the calls that are turns, or samples
    MaxRails    \* bound: rails of turns and events of samples, in all

VARIABLES
    tip,        \* prior: the last capsule sealed for the turn
    rails,      \* rails and events seen so far
    verdicts    \* the decisions of the turn's rails

chainVars == <<tip, rails, verdicts>>

ChainsInit ==
    /\ tip = [t \in Calls |-> 0]
    /\ rails = 0
    /\ verdicts = [t \in Calls |-> {}]

\* Each link cites the tip and becomes it if it is sealed.
Link(t, status, output, marks, sealed) ==
    /\ Seal(Capsule(t, status, output, tip[t], marks), sealed)
    /\ tip' = [tip EXCEPT ![t] = IF sealed THEN NextId ELSE @]

\* record_turn: the head is sealed first.
OpenTurn(t, sealed) ==
    /\ Becomes(t, "new", "running")
    /\ Link(t, "planned", FALSE, {}, sealed)
    /\ UNCHANGED <<pending, include, rails, verdicts>>

Decisions == {"allow", "block", "transform", "unknown", "failed"}

\* _verdict_and_status, and the status of the turn as a whole.
RailStatus(decision) ==
    CASE decision = "failed" -> "failed"
      [] decision = "block" -> "blocked"
      [] decision \in {"allow", "transform"} -> "confirmed"
      [] OTHER -> "planned"

\* record_rail: one that allowed may be left out.
RecordRail(t, decision, sealed) ==
    /\ phase[t] = "running" /\ rails < MaxRails
    /\ rails' = rails + 1
    /\ IF decision = "allow" /\ ~include
       THEN sealed /\ UNCHANGED <<ledger, lost, tip>>
       ELSE Link(t, RailStatus(decision), TRUE, {}, sealed)
    /\ verdicts' = [verdicts EXCEPT ![t] = @ \cup {decision}]
    /\ UNCHANGED <<phase, pending, include>>

\* Faulty variant: the tail sums up the records instead of the rails.
StatusOfRecords(t) ==
    LET recorded == {ledger[i].status : i \in {j \in DOMAIN ledger : ledger[j].call = t}}
    IN IF "failed" \in recorded THEN "failed"
       ELSE IF "blocked" \in recorded THEN "blocked" ELSE "confirmed"

\* The tail carries the verdict of all rails, recorded or not.
TurnStatus(t) ==
    IF "failed" \in verdicts[t] THEN "failed"
    ELSE IF "block" \in verdicts[t] THEN "blocked" ELSE "confirmed"

CloseTurn(t, sealed) ==
    /\ Becomes(t, "running", "done")
    /\ Link(t, TurnStatus(t), TRUE, {<<"close", 0>>}, sealed)
    /\ UNCHANGED <<pending, include, rails, verdicts>>

-----------------------------------------------------------------------------
(* inspect_ai.seal_eval_log: a capsule that cannot be sealed stops it.      *)

SampleStatuses == {"failed", "confirmed", "planned"}

SealEvent(s, status, sealed) ==
    /\ phase[s] \in {"new", "reading"} /\ rails < MaxRails
    /\ Link(s, status, status # "planned", {}, sealed)
    /\ rails' = rails + 1
    /\ phase' = [phase EXCEPT ![s] = IF sealed THEN "reading" ELSE "stopped"]
    /\ UNCHANGED <<pending, include, verdicts>>

SealSampleTerminal(s, status, sealed) ==
    /\ phase[s] \in {"new", "reading"}
    /\ Link(s, status, status # "planned", {}, sealed)
    /\ phase' = [phase EXCEPT ![s] = IF sealed THEN "done" ELSE "stopped"]
    /\ UNCHANGED <<pending, include, rails, verdicts>>

ChainsNext ==
    \E t \in Turns, sealed \in BOOLEAN :
        \/ OpenTurn(t, sealed)
        \/ CloseTurn(t, sealed)
        \/ \E decision \in Decisions : RecordRail(t, decision, sealed)
        \/ \E status \in SampleStatuses :
            \/ SealEvent(t, status, sealed)
            \/ SealSampleTerminal(t, status, sealed)

-----------------------------------------------------------------------------
(* capsule_emit.adapters.agentgateway: a service that sees the requests    *)
(* and the responses of a gateway, on a pool of threads, and pairs them by *)
(* order, for the protocol carries no id.  One pending call is paired with *)
(* the response; with several pending the response is left unchained and   *)
(* all of them are cleared; a call pending too long is given up.           *)

VARIABLES
    made,       \* CheckRequest's planned_id, from the seal to the append
    stale,      \* how many of the oldest pending entries are past the TTL
    taken,      \* what _resolve gave the thread that seals the outcome
    overlapped  \* ghost: a request came while another call was unsettled

gatewayVars == <<made, stale, taken, overlapped>>

NoEntry == [key |-> NoCall, val |-> 0, pairing |-> "none"]

GatewayInit ==
    /\ made = [c \in Calls |-> 0]
    /\ stale = 0
    /\ taken = [c \in Calls |-> NoEntry]
    /\ overlapped = FALSE

\* CheckRequest seals the plan before the tool can run ...
CheckRequest(c, sealed) ==
    /\ Becomes(c, "new", "sealing")
    /\ Seal(Capsule(c, "planned", FALSE, 0, {}), sealed)
    /\ made' = [made EXCEPT ![c] = IdIf(sealed)]
    /\ overlapped' = (overlapped \/ stale < Len(pending)
                      \/ \E d \in Calls : phase[d] \in {"sealing", "running", "resolved"})
    /\ UNCHANGED <<pending, include, stale, taken>>

\* ... and then remembers it, under the lock.
AppendPending(c) ==
    /\ Becomes(c, "sealing", "running")
    /\ pending' = Append(pending, [key |-> c, val |-> made[c]])
    /\ UNCHANGED <<ledger, lost, include, gatewayVars>>

\* Another processor rejects the call: no response comes for it.
RejectedDownstream(c) ==
    /\ Becomes(c, "running", "gone")
    /\ UNCHANGED <<ledger, pending, lost, include, gatewayVars>>

\* Time passes: the oldest entry that was not past the TTL now is.
PassTTL ==
    /\ stale < Len(pending)
    /\ stale' = stale + 1
    /\ UNCHANGED <<emitterVars, made, taken, overlapped>>

\* Faulty variant: an entry past the TTL stays.
NothingExpires == pending

\* _expire_pending
Unexpired == SubSeq(pending, stale + 1, Len(pending))

\* One entry is paired; none or several are not.
Paired(open) ==
    IF open = <<>> THEN [NoEntry EXCEPT !.pairing = "unmatched"]
    ELSE IF Len(open) = 1 THEN [key |-> open[1].key, val |-> open[1].val, pairing |-> "paired"]
    ELSE [NoEntry EXCEPT !.pairing = "unresolved"]

\* _resolve, under the lock: whatever the answer, nothing stays pending.
Resolve(c) ==
    /\ Becomes(c, "running", "resolved")
    /\ taken' = [taken EXCEPT ![c] = Paired(Unexpired)]
    /\ pending' = <<>>
    /\ stale' = 0
    /\ UNCHANGED <<ledger, lost, include, made, overlapped>>

\* CheckResponse: the outcome is sealed under the name of the entry.  The
\* mark keeps the call that was really answered.
CheckResponse(c, failed, sealed) ==
    LET entry == taken[c]
    IN /\ Becomes(c, "resolved", IF failed THEN "raised" ELSE "done")
       /\ Seal(Capsule(entry.key, IF failed THEN "failed" ELSE "confirmed", TRUE, entry.val,
                       {<<entry.pairing, c>>}
                       \cup Unchained(entry.pairing = "paired" /\ entry.val = 0)), sealed)
       /\ UNCHANGED <<pending, include, gatewayVars>>

GatewayNext ==
    \/ PassTTL
    \/ \E c \in Calls :
        \/ AppendPending(c)
        \/ RejectedDownstream(c)
        \/ Resolve(c)
        \/ \E sealed \in BOOLEAN :
            \/ CheckRequest(c, sealed)
            \/ CheckResponse(c, ~HasOutput(c), sealed)

-----------------------------------------------------------------------------
(* capsule_emit.otel: spans become capsules, live as the SDK exports them  *)
(* or later from a file.  A backfill reads the source references in the    *)
(* ledger once, when it starts, and seals the spans of the file that are   *)
(* not among them.  It may be interrupted and run again, one run at a      *)
(* time.  The spans are calls here and Signature is a span's identity, so  *)
(* two lines of the file may be the same span.                             *)

CONSTANTS
    File,           \* the lines of the OTLP file, calls in order
    Effects,        \* the spans that Signal-1 takes for effects
    MaxRuns         \* bound: backfills started

VARIABLES
    refs,       \* seen: the source references this run knows of
    at,         \* the line this run is at; 0 while no run is on
    missed,     \* ghost: lines whose seal failed in this run
    runs        \* runs started

backfillVars == <<refs, at, missed, runs>>

BackfillInit == refs = {} /\ at = 0 /\ missed = {} /\ runs = 0

\* process_span_facts: an observation is not sealed, an effect is, failed
\* or confirmed.  A backfilled capsule carries its source reference.
ProcessSpanFacts(c, isError, marks, sealed) ==
    Seal(Capsule(c, IF isError THEN "failed" ELSE "confirmed", TRUE, 0, marks), sealed)

\* The exporter: a live span has no source reference.
Export(c, isError, sealed) ==
    /\ Becomes(c, "new", "done")
    /\ IF c \in Effects THEN ProcessSpanFacts(c, isError, {}, sealed)
       ELSE sealed /\ ~isError /\ UNCHANGED <<ledger, lost>>
    /\ UNCHANGED <<pending, include, backfillVars>>

\* _sealed_source_refs
SealedSourceRefs ==
    {Signature[ledger[i].call] : i \in {j \in DOMAIN ledger : <<"source", 0>> \in ledger[j].marks}}

StartBackfill ==
    /\ at = 0 /\ runs < MaxRuns
    /\ refs' = SealedSourceRefs
    /\ at' = 1 /\ runs' = runs + 1 /\ missed' = {}
    /\ UNCHANGED emitterVars

\* Faulty variant: a span is known before it is known to be sealed.
BackfillMarksFirst(isError, sealed) ==
    LET c == File[at]
    IN /\ at \in DOMAIN File
       /\ at' = at + 1
       /\ IF Signature[c] \in refs \/ c \notin Effects
          THEN sealed /\ ~isError /\ UNCHANGED <<ledger, lost, refs, missed>>
          ELSE /\ ProcessSpanFacts(c, isError, {<<"source", 0>>}, sealed)
               /\ refs' = refs \cup {Signature[c]}
               /\ missed' = IF sealed THEN missed ELSE missed \cup {at}
       /\ UNCHANGED <<phase, pending, include, runs>>

\* One line of seal_otlp_file: duplicate, observation, failed or sealed.
BackfillLine(isError, sealed) ==
    LET c == File[at]
    IN /\ at \in DOMAIN File
       /\ at' = at + 1
       /\ IF Signature[c] \in refs \/ c \notin Effects
          THEN sealed /\ ~isError /\ UNCHANGED <<ledger, lost, refs, missed>>
          ELSE /\ ProcessSpanFacts(c, isError, {<<"source", 0>>}, sealed)
               /\ refs' = IF sealed THEN refs \cup {Signature[c]} ELSE refs
               /\ missed' = IF sealed THEN missed ELSE missed \cup {at}
       /\ UNCHANGED <<phase, pending, include, runs>>

\* The report, or the process stops in the middle.
BackfillEnds ==
    /\ at # 0
    /\ at' = 0 /\ refs' = {} /\ missed' = {}
    /\ UNCHANGED <<emitterVars, runs>>

BackfillNext ==
    \/ StartBackfill
    \/ BackfillEnds
    \/ \E isError, sealed \in BOOLEAN :
        \/ BackfillLine(isError, sealed)
        \/ \E c \in Calls : Export(c, isError, sealed)
=============================================================================
