------------------------------ MODULE Sealing ------------------------------
(***************************************************************************)
(* How the verbs of capsule_emit.surface and the primitives of             *)
(* capsule_emit.core build a record and append it: a payload, a leg of a   *)
(* settlement, an adjudication, an unsigned log entry, or slots that are   *)
(* sealed one by one and bound by a composition.  Threads seal into        *)
(* several ledgers at once, and a record may follow up one of any ledger.  *)
(*                                                                         *)
(* A record's id is the order in which it was built.  What comes after the *)
(* append (witnesses and anchors) is module Egress.  A ledger that moves   *)
(* while a call runs is module LedgerMove.                                 *)
(***************************************************************************)
EXTENDS Integers, Sequences, FiniteSets

CONSTANTS
    Threads,        \* threads that seal
    Ledgers,        \* the streams of this process
    MaxCapsules,    \* bound: records built
    MaxLost         \* bound: appends that fail

Slots == 1..2       \* who, can, did and audit, in their order; two of them here

VARIABLES
    capsules,   \* every record built, by id
    books,      \* the ids each ledger holds, in order
    calls,      \* what each thread is doing
    known,      \* the records callers were handed
    refused     \* requests the package itself made up and then refused

sealingVars == <<capsules, books, calls, known, refused>>

Idle == [doing |-> "nothing"]

SealingInit ==
    /\ capsules = <<>>
    /\ books = [l \in Ledgers |-> <<>>]
    /\ calls = [t \in Threads |-> Idle]
    /\ known = {}
    /\ refused = {}

-----------------------------------------------------------------------------
(* Requests: the arguments of one emission.  confirms is an id, 0 for none; *)
(* refs are the caller's references.                                        *)

Request(form, confirms, relation) ==
    [form |-> form, confirms |-> confirms, relation |-> relation, refs |-> {}, members |-> <<>>]

\* seal(payload), received(bytes): any relation a caller may write.
PayloadRequests ==
    {Request("payload", confirms, relation) :
        confirms \in {0} \cup known, relation \in {"confirms", "supersedes"}}
    \cup {Request("payload", 0, "unregistered")}

\* seal_leg: a leg without a prior one asserts no relation.
LegRequest(prior) == Request("leg", prior, IF prior = 0 THEN "none" ELSE "follows")

\* seal_adjudication: the first half is followed up; the other is named in
\* the record only.
AdjudicationRequest(half) == Request("adjudication", half, "confirms")

\* The unsigned entry of log().
LogRequest == Request("log", 0, "confirms")

\* The argument rules: a relation is a registered one, and any but the
\* default needs a target.
Lawful(request) ==
    /\ request.relation # "unregistered"
    /\ request.relation \notin {"none", "confirms"} => request.confirms # 0

-----------------------------------------------------------------------------
(* The record an emission builds                                            *)

\* _in_ledger
InLedger(id, l) == \E i \in DOMAIN books[l] : books[l][i] = id

\* _cite_foreign: one citation, beside the caller's.
CiteForeign(id, refs) == refs \cup {id}

\* A target in this ledger becomes the parent, any other a citation.  Of the
\* request, the record keeps what it follows up and binds; which relation
\* it asserts of the parent is left out.
RecordOf(request, l) ==
    LET here == InLedger(request.confirms, l)
    IN [slot    |-> request.form = "slot",
        signed  |-> request.form # "log",
        target  |-> request.confirms,
        parent  |-> IF here THEN request.confirms ELSE 0,
        cites   |-> IF request.confirms = 0 \/ here THEN request.refs
                    ELSE CiteForeign(request.confirms, request.refs),
        members |-> request.members]

\* The slot a member goes by: slots[capsule_id], where the last one wins.
SlotOf(resolved, id) ==
    LET named == {i \in DOMAIN resolved : resolved[i].id = id}
    IN resolved[CHOOSE i \in named : \A j \in named : j <= i].slot

\* resolved.sort: by slot, in the order of the arguments within one.
Composed(resolved) ==
    LET slot == [i \in DOMAIN resolved |-> SlotOf(resolved, resolved[i].id)]
        order == CHOOSE p \in [DOMAIN resolved -> DOMAIN resolved] :
                     \A i, j \in DOMAIN resolved :
                         i < j => \/ slot[p[i]] < slot[p[j]]
                                  \/ slot[p[i]] = slot[p[j]] /\ p[i] < p[j]
    IN [k \in DOMAIN resolved |-> [slot |-> slot[order[k]], id |-> resolved[order[k]].id]]

\* What a member is minted with: everything the caller asked for but the
\* references, so a member follows up what the composition does.  The
\* relation of both is the caller's and lawful, or the call had ended.
MemberRequest(confirms) == Request("slot", confirms, "confirms")

\* _compose
CompositionRequest(resolved, confirms, refs) ==
    [Request("composition", confirms, "confirms") EXCEPT !.members = Composed(resolved), !.refs = refs]

-----------------------------------------------------------------------------
(* Calls                                                                    *)

Appended == UNION {{books[l][n] : n \in DOMAIN books[l]} : l \in Ledgers}
BeingAppended == {calls[t].built : t \in {u \in Threads : calls[u] # Idle}}
Lost == (DOMAIN capsules \ Appended) \ BeingAppended

Become(t, call) == calls' = [calls EXCEPT ![t] = call]

\* A call: what is left to resolve, what was resolved, what the members and
\* the composition follow up, and the record of the emission under way.
Call(l, members, confirms, refs) ==
    [doing |-> "resolve", ledger |-> l, members |-> members, resolved |-> <<>>,
     confirms |-> confirms, refs |-> refs, built |-> 0]

\* Up to the append: the arguments are checked, the target is looked up, the
\* record is built and signed.  Nothing is written when one of them raises.
Build(t, call, request, succeeds) ==
    IF Lawful(request) /\ succeeds
    THEN /\ Len(capsules) < MaxCapsules
         /\ capsules' = Append(capsules, RecordOf(request, call.ledger))
         /\ Become(t, [call EXCEPT !.doing = "append", !.built = Len(capsules) + 1])
         /\ UNCHANGED <<books, known, refused>>
    ELSE /\ ~succeeds
         /\ refused' = IF Lawful(request) \/ request.form = "payload" THEN refused
                       ELSE refused \cup {request.form}
         /\ Become(t, Idle)
         /\ UNCHANGED <<capsules, books, known>>

\* seal(), received(), log() and what is made of them: one emission.  One
\* that raises before the append changes nothing, unless it was refused.
EmitOne(t, l, request, succeeds) ==
    /\ calls[t] = Idle
    /\ succeeds = Lawful(request)
    /\ Build(t, Call(l, <<>>, 0, {}), request, succeeds)

\* seal(who(..), can(..), .., confirms=, references=): the references are
\* kept for the composition, and the rest goes to every member as well.  With
\* a relation that is not lawful the first emission raises, before anything
\* is written: a call that changes nothing.
SealSlots(t, l, members, confirms, refs) ==
    /\ calls[t] = Idle
    /\ Become(t, Call(l, members, confirms, refs))
    /\ UNCHANGED <<capsules, books, known, refused>>

Resolving(t) == calls[t] # Idle /\ calls[t].doing = "resolve"

\* _resolve_slot_member: a capsule is referenced unchanged, a payload is
\* sealed.
ResolveSlotMember(t, succeeds) ==
    LET call == calls[t]
        member == Head(call.members)
    IN /\ Resolving(t) /\ call.members # <<>>
       /\ IF member.id # 0
          THEN /\ succeeds
               /\ Become(t, [call EXCEPT !.resolved = Append(@, member), !.members = Tail(@)])
               /\ UNCHANGED <<capsules, books, known, refused>>
          ELSE Build(t, call, MemberRequest(call.confirms), succeeds)

\* Every member is resolved: the composition is emitted.
Compose(t, succeeds) ==
    LET call == calls[t]
    IN /\ Resolving(t) /\ call.members = <<>>
       /\ Build(t, call, CompositionRequest(call.resolved, call.confirms, call.refs), succeeds)

\* What a finished emission gives its caller: the capsule, or a resolved
\* member of the slots that are being bound.
Resolved(t) ==
    LET call == calls[t]
    IN IF call.members = <<>>
       THEN Become(t, Idle) /\ known' = known \cup {call.built}
       ELSE /\ Become(t, [call EXCEPT !.doing = "resolve", !.members = Tail(@),
                              !.resolved = Append(@, [Head(call.members) EXCEPT !.id = call.built])])
            /\ UNCHANGED known

\* Faulty variant: a failed append goes on as if the record were there.
AppendIsAssumed(t, succeeds) ==
    LET call == calls[t]
    IN /\ call # Idle /\ call.doing = "append"
       /\ IF succeeds THEN books' = [books EXCEPT ![call.ledger] = Append(@, call.built)]
          ELSE UNCHANGED books
       /\ Resolved(t)
       /\ UNCHANGED <<capsules, refused>>

\* _append_capsule.  A log entry is appended before its checkpoint signer is
\* resolved, so it may be in the ledger although the call raises.
AppendCapsule(t, succeeds) ==
    LET call == calls[t]
    IN /\ call # Idle /\ call.doing = "append"
       /\ IF ~succeeds
          THEN /\ Cardinality(Lost) < MaxLost
               /\ Become(t, Idle)
               /\ UNCHANGED <<books, known>>
          ELSE /\ books' = [books EXCEPT ![call.ledger] = Append(@, call.built)]
               /\ IF ~capsules[call.built].signed
                  THEN Become(t, [call EXCEPT !.doing = "signer"]) /\ UNCHANGED known
                  ELSE Resolved(t)
       /\ UNCHANGED <<capsules, refused>>

ResolveLogSigner(t, succeeds) ==
    /\ calls[t] # Idle /\ calls[t].doing = "signer"
    /\ IF succeeds THEN Resolved(t) ELSE Become(t, Idle) /\ UNCHANGED known
    /\ UNCHANGED <<capsules, books, refused>>

\* The ledgers are alike: the first record goes to a given one.
Open == IF capsules = <<>> THEN {CHOOSE l \in Ledgers : TRUE} ELSE Ledgers

\* Two members, each a payload (0) or a capsule the caller holds.
SlotMembers == [slot : Slots, id : {0} \cup known]

SealingNext ==
    \E t \in Threads, succeeds \in BOOLEAN :
        \/ calls[t] = Idle /\ \E l \in Open :
               \/ \E request \in PayloadRequests \cup {LogRequest}
                                 \cup {LegRequest(prior) : prior \in {0} \cup known}
                                 \cup {AdjudicationRequest(half) : half \in known} :
                      EmitOne(t, l, request, succeeds)
               \/ /\ succeeds /\ Len(capsules) + 1 < MaxCapsules
                  /\ \E first, second \in SlotMembers, confirms \in {0} \cup known :
                         SealSlots(t, l, <<first, second>>, confirms, known)
        \/ ResolveSlotMember(t, succeeds)
        \/ Compose(t, succeeds)
        \/ AppendCapsule(t, succeeds)
        \/ ResolveLogSigner(t, succeeds)

-----------------------------------------------------------------------------
\* The ids in ledger l before its i-th record.
Before(l, i) == {books[l][j] : j \in 1..(i - 1)}

\* A record's parent stands before it in its own ledger; a target that does
\* not is cited instead.
FollowUpsAreInStream ==
    \A l \in Ledgers : \A i \in DOMAIN books[l] :
        LET record == capsules[books[l][i]]
        IN /\ record.parent # 0 => record.parent \in Before(l, i)
           /\ record.target # 0 => IF record.target \in Before(l, i)
                                   THEN record.parent = record.target
                                   ELSE record.target \in record.cites

\* A composition binds records that were in a ledger before it was built, in
\* the order of the slots, and its references reach none of the members it
\* had sealed: these cite at most what the whole call follows up.
CompositionsBindWhatIsThere ==
    \A id \in Appended :
        LET record == capsules[id]
            members == record.members
        IN /\ \A k \in DOMAIN members : members[k].id < id /\ members[k].id \in Appended
           /\ \A j, k \in DOMAIN members : j < k => members[j].slot <= members[k].slot
           /\ record.slot => record.cites \subseteq {record.target}

\* What a caller was handed is in a ledger.
HandedIsThere == known \subseteq Appended

\* Legs, adjudications and log entries are never refused for the relation
\* the package gave them.
OnlyCallersAreRefused == refused = {}

\* What the ledgers hold after any mix of calls is what was asked for.
RecordsAreWhole ==
    /\ FollowUpsAreInStream
    /\ CompositionsBindWhatIsThere
    /\ HandedIsThere
    /\ OnlyCallersAreRefused
=============================================================================
