---------------------------- MODULE RustDelivery ----------------------------
(***************************************************************************)
(* How the checkpoints of a Rust log reach its witnesses, in the two       *)
(* layouts of the log (checkpoint.rs, substrate.rs).                       *)
(***************************************************************************)
EXTENDS RustCheckpoint

-----------------------------------------------------------------------------
(* The witnesses of the flat layout.  A clock cut is offered to each of    *)
(* them before it is committed, so its receipts are in its own line; a     *)
(* push cut, and a witness that did not answer, wait for a later tick.  A  *)
(* witness that missed cuts is caught up from checkpoints.jsonl.           *)

\* log_holds_checkpoint(), or the checkpoint itself.
IsOurOwn(t, root) == t = root \/ t \in Roots

\* The lines behind the first one that is t, of checkpoints before root.
Between(t, root) ==
    LET start == Min({k \in Legible : cuts[k].leaves = t})
    IN InOrder({k \in Legible : start < k /\ Len(cuts[k].leaves) < Len(root)})

\* A line follows the one sent before it, or t: the witness accepts it.
Follows(ks, t, n) == cuts[ks[n]].prev = IF n = 1 THEN t ELSE cuts[ks[n - 1]].leaves

\* Sending them one after the other to a witness at t, until one is refused or
\* fails: how many were accepted and how many answers were heard.
Sendings(ks, t) ==
    {s \in [accepted : 0 .. Len(ks), heard : 0 .. Len(ks)] :
        /\ s.heard \in {s.accepted - 1, s.accepted}
        /\ \A n \in 1 .. s.accepted : Follows(ks, t, n)}

\* All of them were sent, or one was refused.
AtEnd(ks, t, n) == n = Len(ks) \/ ~Follows(ks, t, n + 1)

\* What offering root to w ends in: the witness's tip, the roots it accepted,
\* the receipts recorded beside the log, and what became of root itself.
Ended(t, accepted, noted, says, fault) ==
    [tip |-> t, accepted |-> accepted, noted |-> noted, says |-> says, fault |-> fault]

Resent(t, root, prev, sent) ==
    {Ended(a.tip, ToSet(sent) \cup IF a.tip = root THEN {root} ELSE {}, ToSet(sent),
           IF a.says = "receipt" THEN "receipt" ELSE "pending", a.says = "error") :
        a \in Answers(t, root, prev)}

\* register_with() for one witness.
Offered(w, root, prev) ==
    LET t == tip[w]
        ks == Between(t, root)
        first(n) == [i \in 1 .. n |-> cuts[ks[i]].leaves]
    IN IF t \in {<<>>, prev} THEN Resent(t, root, prev, <<>>)
       ELSE {Ended(t, {}, {}, "pending", TRUE)}
            \cup IF Legible # DOMAIN cuts THEN {Ended(t, {}, {}, "pending", FALSE)} ELSE {}
            \cup IF Len(t) >= Len(root)
                 THEN {Ended(t, {}, {}, IF IsOurOwn(t, root) THEN "dropped" ELSE "pending", FALSE)}
                 ELSE IF t \notin Roots THEN {Ended(t, {}, {}, "pending", FALSE)}
                 ELSE UNION {LET sent == first(s.accepted)
                                 now == IF sent = <<>> THEN t ELSE Last(sent)
                             IN IF s.heard = Len(ks) THEN Resent(now, root, prev, sent)
                                ELSE {Ended(now, ToSet(sent), ToSet(first(s.heard)), "pending",
                                            s.heard < s.accepted \/ ~AtEnd(ks, t, s.heard))} :
                             s \in Sendings(ks, t)}

\* One witness of a registration, before the commit or after it.
Offer(r) ==
    LET x == run[r]
        w == Head(x.todo)
        cutting == x.prep # <<>>
        root == IF cutting THEN x.prep ELSE x.last
        prev == IF cutting THEN x.last ELSE PreviousOf(root)
    IN /\ x.at = "offer"
       /\ \E o \in Offered(w, root, prev) :
             LET y == [x EXCEPT !.todo = Tail(@),
                                !.pending = IF o.says = "pending" THEN @ \cup {w} ELSE @,
                                !.given = IF o.says = "receipt" THEN @ \cup {w} ELSE @]
             IN /\ IF o.fault THEN Fault ELSE UNCHANGED faults
                /\ tip' = [tip EXCEPT ![w] = o.tip]
                /\ took' = [took EXCEPT ![w] = @ \cup o.accepted]
                /\ receipts' = receipts \cup {<<w, l>> : l \in o.noted}
                       \cup IF o.says = "receipt" /\ ~cutting THEN {<<w, root>>} ELSE {}
                /\ run' = [run EXCEPT ![r] =
                      IF y.todo # <<>> THEN y
                      ELSE IF cutting THEN [y EXCEPT !.at = "commit"] ELSE Idle(y)]
       /\ UNCHANGED <<layout, file, torn, bodies, led, sealed, misled,
                      bucket, configs, cuts, stored, rows>>

\* retry_pending_witnesses() of the last checkpoint.
RetriesPending(x) ==
    LET ks == InOrder({k \in DOMAIN x.urls : x.urls[k] \in x.pending})
    IN IF x.last = <<>> \/ ks = <<>> THEN Idle(x)
       ELSE [x EXCEPT !.at = "offer", !.pending = {},
                      !.todo = [j \in DOMAIN ks |-> x.urls[ks[j]]]]

\* offer_deferred_to_witnesses(): all of them, unless some are pending already.
OffersDeferred(x) ==
    [x EXCEPT !.deferred = FALSE,
              !.pending = IF x.deferred /\ @ = {} THEN ToSet(x.urls) ELSE @]

-----------------------------------------------------------------------------
(* The witnesses of a log in a CLL backend.  Each cut has a row per        *)
(* witness, written with it; a pass sends each witness the oldest row it   *)
(* has not been delivered, then the next, until one fails.  A row is       *)
(* replaced by compare-and-set on its attempts, and another runner may     *)
(* have moved it between the submission and that.                          *)

CONSTANT MaxTries    \* bound: attempts counted in a row

Pops(x, w) == [x EXCEPT !.queue[w] = Tail(@)]

\* The pass goes on with the next witness, or ends.
Leaves(x) ==
    IF Len(x.todo) = 1 THEN Idle(x)
    ELSE [x EXCEPT !.at = "send", !.todo = Tail(@), !.answer = None, !.caught = FALSE]

Untouched == UNCHANGED <<layout, file, torn, bodies, led, sealed, misled,
                         bucket, configs, cuts, stored, receipts>>

\* Bound: a row is not tried again.
Tried(row) == row.tries = MaxTries

\* The front row is gone, closed or held, or there is none.
Skip(r) ==
    LET x == run[r]
        w == Head(x.todo)
        st == rows[w][Head(x.queue[w])].st
    IN /\ x.at = "send"
       /\ run' = [run EXCEPT ![r] =
             IF x.queue[w] = <<>> THEN Leaves(x)
             ELSE IF st \in {"held", "open"} THEN Leaves(x)
             ELSE Pops(x, w)]
       /\ x.queue[w] # <<>> /\ st = "open" => Tried(rows[w][Head(x.queue[w])])
       /\ Untouched /\ UNCHANGED <<tip, took, rows, faults>>

\* It is open: its checkpoint is submitted.
Submit(r) ==
    LET x == run[r]
        w == Head(x.todo)
        k == Head(x.queue[w])
    IN /\ x.at = "send"
       /\ x.queue[w] # <<>>
       /\ rows[w][k].st = "open" /\ ~Tried(rows[w][k])
       /\ \E a \in Answers(tip[w], cuts[k].leaves, cuts[k].prev) :
             /\ IF a.says = "error" THEN Fault ELSE UNCHANGED faults
             /\ tip' = [tip EXCEPT ![w] = a.tip]
             /\ took' = [took EXCEPT ![w] = @ \cup IF a.tip = tip[w] THEN {} ELSE {a.tip}]
             /\ run' = [run EXCEPT ![r] =
                   [x EXCEPT !.at = "record",
                             !.answer = [k |-> k, tries |-> rows[w][k].tries,
                                         says |-> a.says, tip |-> a.tip]]]
       /\ Untouched /\ UNCHANGED rows

Moved(w, a) == rows[w][a.k].tries # a.tries
Attempted(row, st) == [st |-> st, tries |-> row.tries + 1]

\* cut_at(): some witness known to the runner has a row of this cut.
Readable(x, k) == \E w \in x.known : rows[w][k] # NoRow

\* holds(): the latest checkpoint, or one that a row carries.
Holds(x, t) ==
    \/ t = x.last
    \/ \E k \in DOMAIN cuts : cuts[k].leaves = t /\ Readable(x, k)

\* An answer with a receipt, on a row nobody moved.
RecordReceipt(r) ==
    LET x == run[r]
        w == Head(x.todo)
        a == x.answer
    IN /\ x.at = "record" /\ a.says = "receipt"
       /\ IF Moved(w, a)
          THEN run' = [run EXCEPT ![r] = Leaves(x)] /\ UNCHANGED rows
          ELSE /\ rows' = [rows EXCEPT ![w][a.k] = Attempted(@, "receipt")]
               /\ run' = [run EXCEPT ![r] = [Pops(x, w) EXCEPT !.at = "send", !.answer = None]]
       /\ Untouched /\ UNCHANGED <<tip, took, faults>>

\* fail(): one more attempt on the row, and the witness is left for this pass.
Fails(r, x, w, a) ==
    /\ rows' = IF Moved(w, a) THEN rows ELSE [rows EXCEPT ![w][a.k] = Attempted(@, "open")]
    /\ run' = [run EXCEPT ![r] = Leaves(x)]

Ahead(a) == a.says = "refused" /\ Len(a.tip) >= Len(cuts[a.k].leaves)
Behind(a) == a.says = "refused" /\ Len(a.tip) < Len(cuts[a.k].leaves)

\* No answer, a checkpoint that is not this log's, or a second refusal.
RecordFailure(r) ==
    LET x == run[r]
        w == Head(x.todo)
        a == x.answer
    IN /\ x.at = "record"
       /\ \/ a.says = "error"
          \/ Ahead(a) /\ ~Holds(x, a.tip)
          \/ Behind(a) /\ x.caught
       /\ Fails(r, x, w, a)
       /\ Untouched /\ UNCHANGED <<tip, took, faults>>

UpTo(q, t) == SelectLastInSeq(q, LAMBDA k : Len(cuts[k].leaves) <= Len(t))

\* close_ahead(): the queued rows up to what the witness holds are closed, up to
\* one that is held, or until a row cannot be written.
CloseAhead(r) ==
    LET x == run[r]
        w == Head(x.todo)
        a == x.answer
        q == x.queue[w]
        upTo == UpTo(q, a.tip)
        held == {j \in 1 .. upTo : rows[w][q[j]].st = "held"}
        all == IF held = {} THEN upTo ELSE Min(held) - 1
        closed(n) == {q[j] : j \in 1 .. n}
        closes(n) == rows' = [rows EXCEPT ![w] = [k \in DOMAIN @ |->
                         IF k \in closed(n) /\ @[k].st = "open" THEN Attempted(@[k], "ahead") ELSE @[k]]]
        drops(n) == [x EXCEPT !.queue[w] = SubSeq(@, n + 1, Len(@)), !.answer = None]
    IN /\ x.at = "record"
       /\ Ahead(a) /\ Holds(x, a.tip)
       /\ \/ /\ closes(all)
             /\ run' = [run EXCEPT ![r] = [drops(all) EXCEPT !.at = "send"]]
             /\ UNCHANGED faults
          \/ /\ Fault
             /\ \E n \in 0 .. all - 1 : closes(n) /\ run' = [run EXCEPT ![r] = Leaves(drops(n))]
       /\ Untouched /\ UNCHANGED <<tip, took>>

\* The cuts a witness at t is sent before cut k, following prev from it; <<0>>
\* when the walk does not reach t.
MissedCuts(x, t, k) ==
    LET j == CHOOSE j \in DOMAIN cuts : cuts[j].leaves = t
    IN IF t \in Roots /\ \A i \in j .. k - 1 : Readable(x, i)
       THEN [i \in 1 .. k - 1 - j |-> j + i] ELSE <<0>>

\* catch_up(), once in a pass: the cuts it missed are sent in order, each
\* receipt on the witness's own open row, and the front row goes again; or that
\* stops half way.
CatchUp(r) ==
    LET x == run[r]
        w == Head(x.todo)
        a == x.answer
        ks == MissedCuts(x, a.tip, a.k)
        last(n) == IF n = 0 THEN a.tip ELSE cuts[ks[n]].leaves
        accepts(n) == /\ tip' = [tip EXCEPT ![w] = last(n)]
                      /\ took' = [took EXCEPT ![w] = @ \cup {cuts[ks[i]].leaves : i \in 1 .. n}]
        given(n) == [rows EXCEPT ![w] = [k \in DOMAIN @ |->
                        IF @[k].st = "open" /\ \E i \in 1 .. n : ks[i] = k
                        THEN Attempted(@[k], "receipt") ELSE @[k]]]
    IN /\ x.at = "record" /\ Behind(a) /\ ~x.caught
       /\ \/ /\ ks # <<0>> /\ tip[w] = a.tip
             /\ accepts(Len(ks))
             /\ rows' = given(Len(ks))
             /\ run' = [run EXCEPT ![r] = [x EXCEPT !.at = "send", !.answer = None, !.caught = TRUE]]
             /\ UNCHANGED faults
          \/ /\ ks # <<0>> /\ tip[w] = a.tip
             /\ Fault
             /\ \E n \in 0 .. Len(ks), h \in 0 .. Len(ks) - 1 :
                   /\ h \in {n - 1, n}
                   /\ accepts(n)
                   /\ rows' = IF Moved(w, a) THEN given(h)
                              ELSE [given(h) EXCEPT ![w][a.k] = Attempted(@, "open")]
             /\ run' = [run EXCEPT ![r] = Leaves([x EXCEPT !.caught = TRUE])]
          \/ /\ ks = <<0>> \/ tip[w] # a.tip
             /\ Fails(r, x, w, a)
             /\ UNCHANGED <<tip, took, faults>>
       /\ Untouched

\* A runner of another kind closes a row for good.
Hold(w) ==
    /\ Fault
    /\ \E k \in DOMAIN rows[w] :
          /\ rows[w][k].st = "open"
          /\ rows' = [rows EXCEPT ![w][k] = Attempted(@, "held")]
    /\ Untouched /\ UNCHANGED <<tip, took, run>>

Deliver(r) ==
    \/ Skip(r) \/ Submit(r) \/ RecordReceipt(r) \/ RecordFailure(r)
    \/ CloseAhead(r) \/ CatchUp(r)
=============================================================================
