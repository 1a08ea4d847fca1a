----------------------------- MODULE Bilateral -----------------------------
(***************************************************************************)
(* capsule_emit.bilateral: a requester and a responder attest to one       *)
(* action in a handshake of four moves, and each seals capsules about it.  *)
(* A call is a handshake here, Signature its action digest, and one in     *)
(* Anonymous names no responder.  The two may keep one ledger or two: in   *)
(* its own, a party cites what the other sealed instead of chaining to it. *)
(*                                                                         *)
(* A signature is what it signs: it verifies where the payload is the      *)
(* same.  A party presents one it makes for the purpose; anybody may       *)
(* present again one that some handshake holds.  Seals follow moves in     *)
(* steps of their own.                                                     *)
(***************************************************************************)
EXTENDS Emitter

VARIABLES
    held,       \* the signatures in each handshake's record, by move
    meant,      \* ghost: <<party, move, handshake>> that the party did sign
    owed,       \* <<seal, handshake>>: capsules a party goes on to seal
    apart       \* each party keeps a ledger of its own

bilateralVars == <<held, meant, owed, apart>>

Moves == {"request", "action", "requester_confirm", "responder_confirm"}
None == [kind |-> "none", by |-> "none", handshake |-> "none", digest |-> "none"]

BilateralInit ==
    /\ held = [h \in Calls |-> [m \in Moves |-> None]]
    /\ meant = {}
    /\ owed = {}
    /\ apart \in BOOLEAN

Payload(kind, by, h, digest) == [kind |-> kind, by |-> by, handshake |-> h, digest |-> digest]

\* A request is bound to the action, not to a handshake.
RequestPayload(h) == Payload("request", "requester", "any", Signature[h])

\* Bound to the handshake and to the request's signature.
ActionPayload(h) == Payload("action", "responder", h, held[h]["request"].digest)

\* The requester acknowledges the action, the responder the request.
ConfirmPayload(party, h) ==
    Payload("confirm", party, h,
            held[h][IF party = "requester" THEN "action" ELSE "request"].digest)

\* The signatures a caller may present for a payload: one the party makes
\* now, or one that is held anywhere.
Presented(payload, own) ==
    IF own THEN {payload} ELSE {held[h][m] : h \in Calls, m \in Moves}

Signed(party, move, h, own) ==
    meant' = IF own THEN meant \cup {<<party, move, h>>} ELSE meant

\* open
Open(h, own) ==
    /\ phase[h] = "new"
    /\ RequestPayload(h) \in Presented(RequestPayload(h), own)
    /\ phase' = [phase EXCEPT ![h] = IF h \in Anonymous THEN "one_sided" ELSE "requested"]
    /\ held' = [held EXCEPT ![h]["request"] = RequestPayload(h)]
    /\ Signed("requester", "request", h, own)
    /\ owed' = owed \cup {<<"request", h>>}
    /\ UNCHANGED <<ledger, pending, lost, include, apart>>

\* respond
Respond(h, own) ==
    /\ phase[h] = "requested"
    /\ ActionPayload(h) \in Presented(ActionPayload(h), own)
    /\ phase' = [phase EXCEPT ![h] = "acted"]
    /\ held' = [held EXCEPT ![h]["action"] = ActionPayload(h)]
    /\ Signed("responder", "action", h, own)
    /\ owed' = owed \cup {<<"action", h>>}
    /\ UNCHANGED <<ledger, pending, lost, include, apart>>

ConfirmOf(party) == IF party = "requester" THEN "requester_confirm" ELSE "responder_confirm"

\* confirm: the second acknowledgment makes the handshake bilateral.
Confirm(party, h, own) ==
    /\ phase[h] = "acted"
    /\ ConfirmPayload(party, h) \in Presented(ConfirmPayload(party, h), own)
    /\ held' = [held EXCEPT ![h][ConfirmOf(party)] = ConfirmPayload(party, h)]
    /\ Signed(party, "confirm", h, own)
    /\ IF None \in {held'[h]["requester_confirm"], held'[h]["responder_confirm"]}
       THEN UNCHANGED <<phase, owed>>
       ELSE /\ phase' = [phase EXCEPT ![h] = "bilateral"]
            /\ owed' = owed \cup {<<"bilateral", h>>}
    /\ UNCHANGED <<ledger, pending, lost, include, apart>>

\* Faulty variant: the requester gives up on a responder that has acted.
GhostAnytime(h) ==
    /\ phase[h] \in {"requested", "acted"}
    /\ phase' = [phase EXCEPT ![h] = "refused"]
    /\ owed' = owed \cup {<<"ghost", h>>}
    /\ UNCHANGED <<ledger, pending, lost, include, held, meant, apart>>

\* ghost
Ghost(h) ==
    /\ phase[h] = "requested"
    /\ phase' = [phase EXCEPT ![h] = "refused"]
    /\ owed' = owed \cup {<<"ghost", h>>}
    /\ UNCHANGED <<ledger, pending, lost, include, held, meant, apart>>

-----------------------------------------------------------------------------
CapsulesOf(h, what) == {i \in DOMAIN ledger : ledger[i].call = h /\ <<what, 0>> \in ledger[i].marks}

\* A party's follow-up of the request's capsule, which is the parent where
\* the party's ledger holds it and cited where it does not.  A confirmed
\* effect takes its digest from that capsule in either case.
FollowUp(party, h, what, status, target) ==
    LET foreign == apart /\ party = "responder"
    IN Capsule(h, status, foreign, IF foreign THEN 0 ELSE target,
               {<<what, 0>>} \cup (IF foreign THEN {<<"cites", target>>} ELSE {}))

\* seal_request.  The party that made a move seals it in a step of its own;
\* what follows the request needs the id of the request's capsule.
SealRequest(h, sealed) ==
    /\ <<"request", h>> \in owed
    /\ owed' = owed \ {<<"request", h>>}
    /\ Seal(Capsule(h, "dispatched", FALSE, 0, {<<"request", 0>>}), sealed)
    /\ UNCHANGED <<phase, pending, include, held, meant, apart>>

\* seal_action, seal_bilateral and seal_ghost.
SealFollowUp(party, h, what, status, sealed) ==
    /\ <<what, h>> \in owed
    /\ owed' = owed \ {<<what, h>>}
    /\ \E target \in CapsulesOf(h, "request") : Seal(FollowUp(party, h, what, status, target), sealed)
    /\ UNCHANGED <<phase, pending, include, held, meant, apart>>

BilateralNext ==
    \E h \in Calls :
        \/ \E own \in BOOLEAN : \/ Open(h, own)
                                \/ Respond(h, own)
                                \/ \E party \in {"requester", "responder"} : Confirm(party, h, own)
        \/ Ghost(h)
        \/ \E sealed \in BOOLEAN : \/ SealRequest(h, sealed)
                                   \/ SealFollowUp("responder", h, "action", "confirmed", sealed)
                                   \/ SealFollowUp("requester", h, "ghost", "planned", sealed)
                                   \/ \E party \in {"requester", "responder"} :
                                          SealFollowUp(party, h, "bilateral", "confirmed", sealed)

-----------------------------------------------------------------------------
\* A responder is held to an action it did sign in this handshake, and a
\* handshake is bilateral only where both did acknowledge it: no signature
\* of another handshake stands in, even for the same action.
AttestationsAreMeant ==
    \A h \in Calls :
        /\ phase[h] \in {"acted", "bilateral"} => <<"responder", "action", h>> \in meant
        /\ phase[h] = "bilateral" => /\ <<"requester", "confirm", h>> \in meant
                                     /\ <<"responder", "confirm", h>> \in meant

\* No handshake has a capsule of the responder's refusal beside one of its
\* action or of the completion, whenever the seals came.
RefusedOrActed ==
    \A h \in Calls :
        CapsulesOf(h, "ghost") # {} =>
            CapsulesOf(h, "action") = {} /\ CapsulesOf(h, "bilateral") = {}

\* A capsule follows up the request of its own handshake.
FollowUpsAreOfTheHandshake ==
    \A i \in DOMAIN ledger :
        LET targets == ({ledger[i].prior} \ {0}) \cup {m[2] : m \in {n \in ledger[i].marks : n[1] = "cites"}}
        IN /\ \A j \in targets : j \in CapsulesOf(ledger[i].call, "request")
           /\ (<<"request", 0>> \notin ledger[i].marks) => targets # {}

\* What the two parties hold about a handshake is what happened in it.
ExchangesAreTrue == AttestationsAreMeant /\ RefusedOrActed /\ FollowUpsAreOfTheHandshake
=============================================================================
