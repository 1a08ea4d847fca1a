------------------------------ MODULE Adapters ------------------------------
(***************************************************************************)
(* What seals into a ledger, one of them at a time, chosen at the start:   *)
(* the framework adapters of capsule_emit.adapters and capsule_emit.otel,  *)
(* attached to a host, the parties of capsule_emit.bilateral, and the      *)
(* verbs of the package themselves, in two parts.  They share no state but *)
(* the emitter's, so each keeps its own variables in own1..own5, in the    *)
(* order in which its module declares them.                                *)
(***************************************************************************)
EXTENDS Emitter

CONSTANTS
    MaxAttempts, Spans, ParentSpan, RootOf, ModelOf, MaxRootWalk, Runs, Enclosing, RunModel,
    LongRunning, MaxLongRunning, MaxUpdates, Gated, Toolsets, Turns, MaxRails,
    File, Effects, MaxRuns, Threads, Ledgers, MaxCapsules, MaxSeals

\* A function of the agent framework is called from a run, or by the host;
\* the spans of LlamaIndex are trees.
ASSUME AdapterAssumption ==
    /\ Turns \subseteq Calls
    /\ Ledgers # {}
    /\ \A c \in Calls \ Runs : Enclosing[c] \in Runs \cup {NoCall}
    /\ Runs \cup Gated \subseteq Calls
    /\ File \in Seq(Calls)
    /\ MaxRootWalk \in Nat
    /\ \A s \in Spans \cup Calls :
           RootOf[s] = IF ParentSpan[s] = NoCall THEN s ELSE RootOf[ParentSpan[s]]

VARIABLES adapter, own1, own2, own3, own4, own5

vars == <<emitterVars, adapter, own1, own2, own3, own4, own5>>

Call == INSTANCE CallListeners WITH captured <- own1, seen <- own1, attempts <- own1, ran <- own2
Run == INSTANCE RunListeners WITH
           parents <- own1, modelByRoot <- own2, entered <- own3, runModel <- own1,
           seen <- own1, flagged <- own2, open <- own3, answered <- own4, evicted <- own5
Record == INSTANCE CallRecorders WITH
              toolset <- own1, manifests <- own2, unwritten <- own3,
              tip <- own1, rails <- own2, verdicts <- own3,
              made <- own1, stale <- own2, taken <- own3, overlapped <- own4,
              refs <- own1, at <- own2, missed <- own3, runs <- own4
Bilateral  == INSTANCE Bilateral WITH held <- own1, meant <- own2, owed <- own3, apart <- own4
Sealing    == INSTANCE Sealing WITH capsules <- own1, books <- own2, calls <- own3,
                                    known <- own4, refused <- own5
Egress     == INSTANCE Egress WITH process <- own1, calls <- own2, seals <- own3, tracked <- own4

None == 0
NoneFrom3 == own3 = None /\ own4 = None /\ own5 = None
NoneFrom2 == own2 = None /\ NoneFrom3

Init ==
    /\ EmitterInit
    /\ \/ adapter = "langchain" /\ Call!LangChainInit /\ NoneFrom2
       \/ adapter = "agno" /\ Call!AgnoInit /\ NoneFrom2
       \/ adapter = "strands" /\ Call!StrandsInit /\ NoneFrom3
       \/ adapter \in {"crewai", "openai", "litellm"} /\ own1 = None /\ NoneFrom2
       \/ adapter = "llamaindex" /\ Run!LlamaIndexInit /\ own4 = None /\ own5 = None
       \/ adapter = "microsoft" /\ Run!MiddlewareInit /\ NoneFrom2
       \/ adapter = "adk" /\ Run!AdkInit
       \/ adapter = "wrappers" /\ Record!WrapperInit /\ own4 = None /\ own5 = None
       \/ adapter = "chains" /\ Record!ChainsInit /\ own4 = None /\ own5 = None
       \/ adapter = "gateway" /\ Record!GatewayInit /\ own5 = None
       \/ adapter = "otel" /\ Record!BackfillInit /\ own5 = None
       \/ adapter = "bilateral" /\ ~include /\ Bilateral!BilateralInit /\ own5 = None
       \/ adapter = "sealing" /\ ~include /\ Sealing!SealingInit
       \/ adapter = "egress" /\ ~include /\ Egress!EgressInit /\ own5 = None

Next ==
    /\ UNCHANGED adapter
    /\ \/ adapter = "langchain" /\ Call!LangChainNext /\ UNCHANGED <<own2, own3, own4, own5>>
       \/ adapter = "agno" /\ Call!AgnoNext /\ UNCHANGED <<own2, own3, own4, own5>>
       \/ adapter = "strands" /\ Call!StrandsNext /\ UNCHANGED <<own3, own4, own5>>
       \/ adapter = "crewai" /\ Call!CrewNext /\ UNCHANGED <<own1, own2, own3, own4, own5>>
       \/ adapter = "openai" /\ Run!OpenAINext /\ UNCHANGED <<own1, own2, own3, own4, own5>>
       \/ adapter = "litellm" /\ Call!LiteLLMNext /\ UNCHANGED <<own1, own2, own3, own4, own5>>
       \/ adapter = "llamaindex" /\ Run!LlamaIndexNext /\ UNCHANGED <<own4, own5>>
       \/ adapter = "microsoft" /\ Run!MiddlewareNext /\ UNCHANGED <<own2, own3, own4, own5>>
       \/ adapter = "adk" /\ Run!AdkNext
       \/ adapter = "wrappers" /\ Record!WrapperNext /\ UNCHANGED <<own4, own5>>
       \/ adapter = "chains" /\ Record!ChainsNext /\ UNCHANGED <<own4, own5>>
       \/ adapter = "gateway" /\ Record!GatewayNext /\ UNCHANGED own5
       \/ adapter = "otel" /\ Record!BackfillNext /\ UNCHANGED own5
       \/ adapter = "bilateral" /\ Bilateral!BilateralNext /\ UNCHANGED own5
       \/ adapter = "sealing" /\ Sealing!SealingNext /\ UNCHANGED emitterVars
       \/ adapter = "egress" /\ Egress!EgressNext /\ UNCHANGED <<emitterVars, own5>>

Spec == Init /\ [][Next]_vars

-----------------------------------------------------------------------------
Sealed == DOMAIN ledger
PlansOf(c) == {i \in Sealed : ledger[i].call = c /\ ledger[i].status = "planned"}
OutcomesOf(c) == {i \in Sealed : ledger[i].call = c /\ ledger[i].status # "planned"}
MarkIds(i, name) == {m[2] : m \in {n \in ledger[i].marks : n[1] = name}}

\* A capsule that cites another is about the same call (for CrewAI, whose
\* events carry no id, about one with the same tool and arguments), however
\* the calls overlap, plans are lost and tables evict.
ChainsPairTheSameCall ==
    \A i \in Sealed :
        LET prior == ledger[i].prior
        IN prior # 0 => IF adapter = "crewai"
                        THEN Signature[ledger[prior].call] = Signature[ledger[i].call]
                        ELSE ledger[prior].call = ledger[i].call

\* No capsule is answered twice: each plan, each link of a chain and each
\* head of a long-running call is cited at most once.
PriorsAreNotShared ==
    adapter # "bilateral" =>
        \A i, j \in Sealed : ledger[i].prior # 0 /\ ledger[i].prior = ledger[j].prior => i = j

\* A call that ended is in the ledger with its outcome, unless a seal of it
\* failed: forgetting a plan never loses the outcome.
OutcomesRecorded ==
    adapter \notin {"gateway", "otel", "chains"} =>
        \A c \in Calls : phase[c] \in {"done", "raised"} => c \in lost \/ OutcomesOf(c) # {}

\* An outcome is marked unchained only if its plan is not in the ledger, and
\* one with no parent is marked, where nothing can have been evicted.
OrphansSayWhy ==
    adapter \in {"langchain", "agno", "litellm"} =>
        \A c \in Calls : \A i \in OutcomesOf(c) :
            /\ MarkIds(i, "unchained") # {} => PlansOf(c) = {} /\ ledger[i].prior = 0
            /\ \/ ledger[i].prior # 0 \/ MarkIds(i, "unchained") # {}
               \/ adapter = "langchain" /\ Cardinality({d \in Calls : phase[d] # "new"}) > MaxPending
               \/ adapter = "langchain" /\ c \notin lost

\* agno: what a call may replay is an earlier confirmed call like it.
ReplaysWereConfirmed ==
    adapter = "agno" =>
        \A i \in Sealed : \A n \in MarkIds(i, "replay_of") :
            /\ n < i
            /\ ledger[n].status = "confirmed"
            /\ Signature[ledger[n].call] = Signature[ledger[i].call]

\* strands: what a record of a later attempt gives as retry_of is the last plan
\* sealed before it for the same call.  For a plan this is the newest earlier
\* attempt that has one; for an outcome it is the plan the outcome answers, so
\* its own attempt's, and an earlier one's only if that plan was not sealed.
RetriesNameTheLastPlan ==
    adapter = "strands" =>
        \A c \in Calls : \A i \in PlansOf(c) \cup OutcomesOf(c) : \A n \in MarkIds(i, "retry_of") :
            /\ n \in PlansOf(c) /\ n < i /\ \A k \in PlansOf(c) : ~(n < k /\ k < i)
            /\ i \in OutcomesOf(c) => n = ledger[i].prior

\* llamaindex: the model a capsule names was observed under the call's root,
\* even when the walk to the root stopped early, because the table of parents
\* lost an entry or the tree is deeper than the walk.
ModelOfItsRoot ==
    adapter = "llamaindex" =>
        \A i \in Sealed : ledger[i].model # 0 =>
            \E span \in own3 : /\ ModelOf[span] = ledger[i].model
                               /\ RootOf[span] = RootOf[ledger[i].call]

\* msft_agent_framework: plan and outcome of a function name the model of
\* the run it was called from, whatever other runs did meanwhile.
FunctionModelIsItsRuns ==
    adapter = "microsoft" =>
        \A i \in Sealed :
            LET c == ledger[i].call
            IN ledger[i].model = IF c \in Runs THEN RunModel[c]
                                 ELSE IF Enclosing[c] = NoCall THEN 0 ELSE RunModel[Enclosing[c]]

\* adk: callbacks and stream together seal a call once, a long-running one
\* as one chain: the placeholder, updates, and nothing after the final
\* answer.  Refusals, and ids the bounded set gave up, are apart.
OneRecordPerCall ==
    adapter = "adk" =>
        \A c \in Calls \ own5 : \A i, j \in {k \in Sealed : ledger[k].call = c /\ ledger[k].status # "blocked"} :
            i < j => /\ ledger[i].status \in {"pending", "update"}
                     /\ ledger[j].status \in {"update", "final"}

\* adk: where callbacks are wired, one failed seal is made up for by the
\* other observer of the same call.
EitherObserverSeals ==
    adapter = "adk" /\ include /\ MaxLost = 1 =>
        \A c \in Calls \ own5 : phase[c] = "done" =>
            \E i \in OutcomesOf(c) : ledger[i].status # "blocked"

\* openai_agents: a call that ends is never refused for what its record
\* says: with no payload and no plan it is dispatched, not confirmed.
NoOutcomeIsRefused == adapter = "openai" => Cardinality(lost) <= MaxLost

\* mcp: a call whose tool has constraints returns a result only if it was
\* recorded, as run or as blocked.
GatedCallsAreRecorded ==
    adapter = "wrappers" => \A c \in Gated : phase[c] = "done" => OutcomesOf(c) # {}

\* mcp: each toolset a capsule names has its manifest on disk, unless the
\* write failed or manifests are off.
ManifestsBehindDigests ==
    adapter = "wrappers" /\ include =>
        \A i \in Sealed : MarkIds(i, "toolset") \subseteq own2 \cup own3

\* nemo_guardrails, inspect_ai: a turn's capsules are one chain, each citing
\* the turn's last capsule before it, also after a failed seal.
TurnsAreChains ==
    adapter = "chains" =>
        \A i \in Sealed :
            LET before == {j \in Sealed : j < i /\ ledger[j].call = ledger[i].call}
            IN IF before = {} THEN ledger[i].prior = 0
               ELSE \A j \in before : j <= ledger[i].prior

\* nemo_guardrails: the closing capsule of a turn does not confirm it when
\* a rail blocked or failed, even if that rail's own record is missing.
TurnsTellTheirRails ==
    adapter = "chains" =>
        \A i \in Sealed :
            MarkIds(i, "close") # {} /\ own3[ledger[i].call] \cap {"block", "failed"} # {} =>
                ledger[i].status \in {"blocked", "failed"}

\* agentgateway: while requests come one at a time, past calls having
\* answered or outlived the TTL, an outcome is chained to its own call or
\* left unmatched, rejected calls notwithstanding.
SequentialCallsPair ==
    adapter = "gateway" /\ ~own4 =>
        \A i \in Sealed :
            /\ MarkIds(i, "paired") \subseteq {ledger[i].call}
            /\ MarkIds(i, "unresolved") = {}

Backfilled == {Signature[ledger[i].call] : i \in {j \in Sealed : MarkIds(j, "source") # {}}}

\* otel: a span is backfilled once, however often the file is imported and
\* interrupted.
BackfilledOnce ==
    adapter = "otel" =>
        \A i, j \in Sealed :
            /\ MarkIds(i, "source") # {} /\ MarkIds(j, "source") # {}
            /\ Signature[ledger[i].call] = Signature[ledger[j].call]
            => i = j

\* otel: at the end of a file each effect of it is in the ledger, but for
\* lines whose seal failed in this run: a failed line hides no other.
BackfillMissesNothing ==
    adapter = "otel" /\ own2 > Len(File) =>
        \A n \in DOMAIN File \ own3 : File[n] \in Effects => Signature[File[n]] \in Backfilled

-----------------------------------------------------------------------------
\* What a capsule says of its parent is so: it is the same call's plan, no
\* other capsule claims it, and the gateway's pairing by order is right while
\* its requests come one at a time.
ParentsAreTrue == ChainsPairTheSameCall /\ PriorsAreNotShared /\ SequentialCallsPair

\* What a capsule says of others is so: of its parent, of the call it may
\* replay, of the model or toolset of its call, and the plan a strands retry
\* names is what RetriesNameTheLastPlan says.
CitationsAreTrue ==
    /\ ParentsAreTrue
    /\ ReplaysWereConfirmed /\ RetriesNameTheLastPlan
    /\ ModelOfItsRoot /\ FunctionModelIsItsRuns /\ ManifestsBehindDigests

\* No outcome is missing for another reason than a failed seal, and one whose
\* plan is missing says so.
OutcomesAreComplete ==
    /\ OutcomesRecorded
    /\ OrphansSayWhy
    /\ EitherObserverSeals
    /\ NoOutcomeIsRefused
    /\ GatedCallsAreRecorded
    /\ BackfillMissesNothing

\* Each outcome is recorded, and once: two observers of one call, and two
\* imports of one file, do not both record it.
OutcomesAreRecordedOnce == OutcomesAreComplete /\ OneRecordPerCall /\ BackfilledOnce

\* A turn is one chain from its first record to a close that tells its worst.
TurnsAreToldWhole == TurnsAreChains /\ TurnsTellTheirRails

\* What the parties of a handshake hold about it is what happened in it.
ExchangesAreTrue == adapter = "bilateral" => Bilateral!ExchangesAreTrue

\* The records in the ledgers are the ones asked for, whatever fails between
\* the calls of several threads.
RecordsAreWhole == adapter = "sealing" => Sealing!RecordsAreWhole

\* Nothing leaves the process unasked, nothing before the notice but what
\* overtakes its print, and no submission is forgotten before it is answered.
EgressIsAccounted ==
    adapter = "egress" =>
        /\ Egress!NothingLeavesUnasked
        /\ Egress!NoticeComesFirst
        /\ Egress!UnansweredIsNotForgotten
=============================================================================
