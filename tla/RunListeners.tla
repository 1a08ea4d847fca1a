---------------------------- MODULE RunListeners ----------------------------
(***************************************************************************)
(* The adapters that watch tool calls within the runs of a framework:      *)
(* LlamaIndex, OpenAI Agents, Agent Framework and ADK. Adapters attaches   *)
(* one of them.                                                            *)
(***************************************************************************)
EXTENDS Emitter

-----------------------------------------------------------------------------
(* capsule_emit.adapters.llamaindex_listener: a span handler.  A tool call *)
(* is a span; the model stamped on its capsules is the last one observed   *)
(* under the same root span.  The table of parents is bounded like the     *)
(* others, so a walk to the root may stop early.                           *)

CONSTANTS
    Spans,          \* spans that are no tool call: runs and model calls
    ParentSpan,     \* the host's span tree: parent of a span, or NoCall
    RootOf,         \* the root of each span in that tree
    ModelOf,        \* the model a span's instance names; 0 for none
    MaxRootWalk     \* _MAX_ROOT_WALK

VARIABLES
    parents,        \* _parent
    modelByRoot,    \* _model_by_root
    entered         \* the spans the host has entered

spanVars == <<parents, modelByRoot, entered>>

LlamaIndexInit == parents = <<>> /\ modelByRoot = <<>> /\ entered = {}

\* _root_of, in a table of parents.
RootIn(table, span) ==
    LET walk[n \in 0..MaxRootWalk] ==
            IF n = 0 THEN span
            ELSE LET parent == Get(table, walk[n - 1], NoCall)
                 IN IF parent = NoCall THEN walk[n - 1] ELSE parent
    IN walk[MaxRootWalk]

\* _model_for
ModelFor(table, models, span) ==
    IF include THEN Get(models, RootIn(table, span), 0) ELSE 0

\* Every span notes its parent; a model span also the model of its root.
ObserveSpanInstance(span) ==
    /\ span \notin entered
    /\ ParentSpan[span] \in entered \cup {NoCall}
    /\ entered' = entered \cup {span}
    /\ parents' = Remember(parents, span, ParentSpan[span])
    /\ modelByRoot' = IF include /\ ModelOf[span] # 0
                      THEN Remember(modelByRoot, RootIn(parents', span), ModelOf[span])
                      ELSE modelByRoot

EnterOtherSpan(span) ==
    /\ span \in Spans
    /\ ObserveSpanInstance(span)
    /\ UNCHANGED emitterVars

\* new_span of a tool call: observed first, then its plan is sealed.
OnSpanEnter(c, sealed) ==
    /\ ObserveSpanInstance(c)
    /\ Becomes(c, "new", "running")
    /\ Seal(Attributed(Capsule(c, "planned", FALSE, 0, {}),
                       ModelFor(parents', modelByRoot', c)), sealed)
    /\ pending' = Remember(pending, c, IdIf(sealed))
    /\ UNCHANGED include

\* The span ends with a result that is no tool result: no capsule, and the
\* plan is forgotten.
OnSpanExitOther(c) ==
    /\ Becomes(c, "running", "gone")
    /\ pending' = Without(pending, c)
    /\ UNCHANGED <<ledger, lost, spanVars, include>>

OnSpanExit(c, isError, output, sealed) ==
    /\ Becomes(c, "running", IF isError THEN "raised" ELSE "done")
    /\ pending' = Without(pending, c)
    /\ Seal(Attributed(Capsule(c, IF isError THEN "failed" ELSE "confirmed", output,
                               Get(pending, c, 0), {}),
                       ModelFor(parents, modelByRoot, c)), sealed)
    /\ UNCHANGED <<spanVars, include>>

\* A span that raised.  One that is not pending is not known to be a tool.
OnSpanDrop(c, sealed) ==
    /\ IF c \in Keys(pending)
       THEN /\ Becomes(c, "running", "raised")
            /\ pending' = Without(pending, c)
            /\ Seal(Attributed(Capsule(c, "failed", TRUE, Get(pending, c, 0), {}),
                               ModelFor(parents, modelByRoot, c)), sealed)
       ELSE /\ Becomes(c, "running", "gone")
            /\ sealed /\ UNCHANGED <<ledger, lost, pending>>
    /\ UNCHANGED <<spanVars, include>>

LlamaIndexNext ==
    \/ \E span \in Spans : EnterOtherSpan(span)
    \/ \E c \in Calls, sealed \in BOOLEAN :
        \/ OnSpanEnter(c, sealed)
        \/ OnSpanExitOther(c) /\ sealed
        \/ OnSpanDrop(c, sealed)
        \/ \E isError \in BOOLEAN : OnSpanExit(c, isError, isError \/ HasOutput(c), sealed)

-----------------------------------------------------------------------------
(* capsule_emit.adapters.openai_agents_listener: two surfaces over one     *)
(* core.  The tracing processor sees a span's start and end, errors too;   *)
(* the run hooks see a tool start and return, and nothing when it raises.  *)
(* Where include is TRUE the processor is attached, else the hooks.        *)

\* A span always has an id; a hook's context may carry none.
HasKey(c) == include \/ c \notin Anonymous

\* open_call and _remember: only a sealed plan is remembered.
OpenCall(c, sealed) ==
    /\ Becomes(c, "new", "running")
    /\ Seal(Capsule(c, "planned", FALSE, 0, {}), sealed)
    /\ pending' = IF sealed /\ HasKey(c) THEN Remember(pending, c, NextId) ELSE pending
    /\ UNCHANGED include

\* With no payload and no plan nothing can be confirmed.
CloseStatus(errored, output, plan) ==
    IF errored THEN "failed"
    ELSE IF ~output /\ plan = 0 THEN "dispatched" ELSE "confirmed"

CloseCall(c, end, errored, output, marks, sealed) ==
    LET plan == IF HasKey(c) THEN Get(pending, c, 0) ELSE 0
    IN /\ Becomes(c, "running", end)
       /\ pending' = Without(pending, c)
       /\ Seal(Capsule(c, CloseStatus(errored, output, plan), output, plan, marks), sealed)
       /\ UNCHANGED include

\* on_span_end: the payload may be withheld by the run's configuration.
OnSpanEnd(c, errored, output, sealed) ==
    /\ include
    /\ CloseCall(c, IF errored THEN "raised" ELSE "done", errored, output, {}, sealed)

\* on_tool_end of the hooks: an error the tool absorbed looks like a result.
OnToolEnd(c, absorbed, output, sealed) ==
    /\ ~include
    /\ CloseCall(c, IF absorbed THEN "raised" ELSE "done", FALSE, output,
                 {<<"no_error_hook", 0>>}, sealed)

\* An exception that is not absorbed ends the run: the hooks hear nothing.
RaisedUnheard(c) ==
    /\ ~include
    /\ Becomes(c, "running", "gone")
    /\ UNCHANGED <<ledger, pending, lost, include>>

OpenAINext ==
    \E c \in Calls :
        \/ RaisedUnheard(c)
        \/ \E sealed \in BOOLEAN :
            \/ OpenCall(c, sealed)
            \/ \E bad \in BOOLEAN :
                \/ OnSpanEnd(c, bad, bad \/ HasOutput(c), sealed)
                \/ OnToolEnd(c, bad, HasOutput(c), sealed)

-----------------------------------------------------------------------------
(* capsule_emit.adapters.msft_agent_framework: middleware around agent     *)
(* runs and around the functions they call.  Runs and functions nest; the  *)
(* model of the innermost run reaches the functions under it through a     *)
(* context variable.  Where include is FALSE runs are not sealed, but      *)
(* their model is still set.                                               *)

CONSTANTS
    Runs,           \* the calls that are agent runs
    Enclosing,      \* the call each call is made from, or NoCall
    RunModel        \* the model of each run's agent; 0 for none

VARIABLE runModel   \* _RUN_MODEL, as each running call's context sees it

MiddlewareInit == runModel = [c \in Calls \cup {NoCall} |-> 0]

SealedHere(c) == c \notin Runs \/ include

\* The value a call starts with, and restores when it ends.
Inherited(c) == IF Enclosing[c] = NoCall THEN 0 ELSE runModel[Enclosing[c]]

ModelSeen(c) == IF c \in Runs THEN RunModel[c] ELSE Inherited(c)

\* process: function_planned or run_planned, then the body runs.
Planned(c, sealed) ==
    /\ Enclosing[c] # NoCall => phase[Enclosing[c]] = "running"
    /\ Becomes(c, "new", "running")
    /\ runModel' = [runModel EXCEPT ![c] = ModelSeen(c)]
    /\ IF SealedHere(c)
       THEN /\ Seal(Attributed(Capsule(c, "planned", FALSE, 0, {}), ModelSeen(c)), sealed)
            /\ pending' = Assign(pending, c, IdIf(sealed))
       ELSE sealed /\ UNCHANGED <<ledger, lost, pending>>
    /\ UNCHANGED include

\* A caller ends after the calls it made.
Returning(c) == \A d \in Calls : Enclosing[d] = c => phase[d] # "running"

\* _confirmed, _failed and _blocked of a function or a run.  Every way out
\* resets the context variable before the run's outcome is sealed.
Ended(c, end, status, output, sealed) ==
    /\ Returning(c)
    /\ Becomes(c, "running", IF SealedHere(c) THEN end ELSE "gone")
    /\ runModel' = [runModel EXCEPT ![c] = Inherited(c)]
    /\ pending' = Without(pending, c)
    /\ IF SealedHere(c)
       THEN Seal(Attributed(Capsule(c, status, output, Get(pending, c, 0), {}),
                            runModel[c]), sealed)
       ELSE sealed /\ UNCHANGED <<ledger, lost>>
    /\ UNCHANGED include

Confirmed(c, output, sealed) == Ended(c, "done", "confirmed", output, sealed)

\* Any exception, a cancellation too; control flow of another middleware is
\* told from an error of the body.
Failed(c, sealed) == Ended(c, "raised", "failed", TRUE, sealed)
Blocked(c, sealed) == Ended(c, "blocked", "blocked", TRUE, sealed)

MiddlewareNext ==
    \E c \in Calls, sealed \in BOOLEAN :
        \/ Planned(c, sealed)
        \/ Failed(c, sealed)
        \/ Blocked(c, sealed)
        \/ Confirmed(c, HasOutput(c), sealed)

-----------------------------------------------------------------------------
(* capsule_emit.adapters.adk: tool callbacks and a tap on the event stream *)
(* watch the same calls.  A call with an id is sealed once, by whichever   *)
(* sees its answer first.  A long-running tool answers with a placeholder, *)
(* sealed as pending, then with updates that are chained to it, until a    *)
(* final one.  Where include is TRUE the callbacks are wired.              *)
(*                                                                         *)
(* Calls without an id are left out: the code pairs them by tool name, as  *)
(* its documentation says, on a best-effort basis.                         *)

CONSTANTS
    LongRunning,    \* the calls of long-running tools
    MaxLongRunning, \* max_long_running
    MaxUpdates      \* bound: answers after the placeholder

VARIABLES
    seen,           \* _seen: ids sealed, newest last
    flagged,        \* _lro_ids: ids the stream declared long-running
    open,           \* _lro_pending: per id the head of its chain
    answered,       \* ghost: answers the stream has carried for each call
    evicted         \* ghost: ids the sealed set gave up

adkVars == <<seen, flagged, open, answered, evicted>>

AdkInit ==
    /\ seen = <<>> /\ flagged = <<>> /\ open = <<>>
    /\ answered = [c \in Calls |-> 0]
    /\ evicted = {}

\* _BoundedSet.add: the newest moves to the end, the oldest falls out.
Noted(table, key) ==
    LET t == Append(Without(table, key), [key |-> key, val |-> 0])
    IN IF Len(t) > MaxPending THEN Tail(t) ELSE t

GoneFrom(before, after) == Keys(before) \ Keys(after)

\* An id is marked only when its capsule was sealed.
SeenIf(c, table, sealed) == IF sealed THEN Noted(table, c) ELSE table

\* _seal_pending: the placeholder opens a chain.  The oldest chain is given
\* up at the cap, and its id may then be sealed afresh.
SealPending(c, sealed) ==
    LET opened == Assign(open, c, NextId)
        full == Len(opened) > MaxLongRunning
        old == opened[1].key
    IN /\ Seal(Capsule(c, "pending", TRUE, 0, {}), sealed)
       /\ IF sealed
          THEN /\ open' = IF full THEN Tail(opened) ELSE opened
               /\ flagged' = Without(IF full THEN Without(flagged, old) ELSE flagged, c)
               /\ seen' = SeenIf(c, IF full THEN Without(seen, old) ELSE seen, sealed)
          ELSE UNCHANGED <<open, flagged, seen>>

\* _seal_update: the next answer is chained to the last; a final one closes
\* the chain.
SealUpdate(c, final, sealed) ==
    /\ Seal(Capsule(c, IF final THEN "final" ELSE "update", TRUE, Get(open, c, 0), {}), sealed)
    /\ open' = IF ~sealed THEN open
               ELSE IF final THEN Without(open, c)
               ELSE Append(Without(open, c), [key |-> c, val |-> NextId])
    /\ flagged' = IF sealed /\ final THEN Without(flagged, c) ELSE flagged
    /\ UNCHANGED seen

SealPlain(c, sealed) ==
    /\ Seal(Capsule(c, "dispatched", TRUE, 0, {}), sealed)
    /\ seen' = SeenIf(c, seen, sealed)
    /\ UNCHANGED <<open, flagged>>

SealNothing == UNCHANGED <<ledger, lost, seen, open, flagged>>

\* guard: a refusal is sealed and the tool does not run.  What guard returns
\* is the answer the host then reports like any other.
Guard(c, sealed) ==
    /\ Becomes(c, "running", "refused")
    /\ Seal(Capsule(c, "blocked", TRUE, 0, {}), sealed)
    /\ UNCHANGED <<pending, include, adkVars>>

\* The call as the stream shows it, perhaps flagged long-running.
TapCall(c) ==
    /\ Becomes(c, "new", "running")
    /\ flagged' = IF c \in LongRunning THEN Noted(flagged, c) ELSE flagged
    /\ pending' = LET t == Assign(pending, c, 0)
                  IN IF Len(t) > MaxPending THEN Tail(t) ELSE t
    /\ UNCHANGED <<ledger, lost, include, seen, open, answered, evicted>>

\* after_tool_callback, where callbacks are wired (include).  It runs once
\* the tool has returned, before the stream carries the answer.
AfterToolCallback(c, sealed) ==
    /\ include
    /\ phase[c] \in {"running", "refused"}
    /\ phase' = [phase EXCEPT ![c] = "returned"]
    /\ IF c \in Keys(seen) THEN sealed /\ SealNothing
       ELSE IF c \in LongRunning THEN SealPending(c, sealed) ELSE SealPlain(c, sealed)
    /\ evicted' = evicted \cup GoneFrom(seen, seen')
    /\ UNCHANGED <<pending, include, answered>>

\* emit_errored, from the application's except block: the call is marked so
\* that the stream's error response does not seal it again.
EmitErrored(c, sealed) ==
    /\ include
    /\ c \notin LongRunning
    /\ Becomes(c, "running", "returned")
    /\ SealPlain(c, sealed)
    /\ evicted' = evicted \cup GoneFrom(seen, seen')
    /\ UNCHANGED <<pending, include, open, flagged, answered>>

\* tap_event of a response: the placeholder's echo, an update of an open
\* chain, an answer sealed before, or an answer to seal now.
TapResponse(c, final, sealed) ==
    LET placeholder == answered[c] = 0
    IN /\ phase[c] \in {"running", "refused", "returned", "done"}
       /\ phase[c] \in {"running", "refused"} => ~include
       /\ answered[c] <= IF c \in LongRunning THEN MaxUpdates ELSE 0
       /\ phase' = [phase EXCEPT ![c] = "done"]
       /\ answered' = [answered EXCEPT ![c] = @ + 1]
       /\ pending' = Without(pending, c)
       /\ IF c \in Keys(open)
          THEN IF placeholder THEN sealed /\ SealNothing ELSE SealUpdate(c, final, sealed)
          ELSE IF c \in Keys(seen) THEN sealed /\ SealNothing
          ELSE IF c \in Keys(flagged) THEN SealPending(c, sealed)
          ELSE SealPlain(c, sealed)
       /\ evicted' = evicted \cup GoneFrom(seen, seen')
       /\ UNCHANGED include

AdkNext ==
    \E c \in Calls :
        \/ TapCall(c)
        \/ \E sealed \in BOOLEAN :
            \/ Guard(c, sealed)
            \/ AfterToolCallback(c, sealed)
            \/ EmitErrored(c, sealed)
            \/ \E final \in BOOLEAN : TapResponse(c, final, sealed)
=============================================================================
