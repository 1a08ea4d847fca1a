------------------------------- MODULE Holds -------------------------------
(***************************************************************************)
(* The budget-hold engine of capsule_emit.holds (engine.py, aggregate.py,  *)
(* capsules.py, scope.py) and the resume path of approval.py.              *)
(*                                                                         *)
(* Threads share one HoldEngine, hence one registry of scope locks, and    *)
(* one ledger.  A call reads the ledger, waits for the lock of its scope   *)
(* (action class, developer), reads the ledger again, and appends exactly  *)
(* one record while it still holds the lock.  Steps that touch only a      *)
(* thread's own locals are folded into the step before them.               *)
(*                                                                         *)
(* Simplifications:                                                        *)
(*  - a capsule id is the record's position in the ledger: action ids are  *)
(*    fresh UUIDs, so ids never repeat;                                    *)
(*  - a record keeps the fields that the engine reads back; "ok" is the    *)
(*    verdict of verify_capsule on it;                                     *)
(*  - as_of, currency, target and reason texts are left out;               *)
(*  - a call that names an unknown id is answered without a record and     *)
(*    changes nothing, so it has no action.                                *)
(***************************************************************************)
EXTENDS Integers, Sequences, FiniteSets

CONSTANTS
    Callers,      \* threads that call the engine
    NoCaller,     \* "nobody holds the lock"
    Classes,      \* action classes that have a cap and a tolerance
    NoClass,      \* action_class is None: uncapped, and sums over all classes
    Subjects,     \* developers
    Cap,          \* cap_minor: [Classes -> Nat]
    Tolerance,    \* tolerance_minor: [Classes -> Nat]
    Amounts,      \* amounts a caller may ask to reserve, or report executed
    MaxRecords,   \* bound: records in the ledger
    MaxCorrupt    \* bound: records that rot on disk

ASSUME HoldsAssumption ==
    /\ NoCaller \notin Callers
    /\ NoClass \notin Classes
    /\ Subjects # {}
    /\ Cap \in [Classes -> Nat]
    /\ Tolerance \in [Classes -> Nat]
    /\ Amounts \subseteq Nat
    /\ MaxRecords \in Nat
    /\ MaxCorrupt \in Nat

VARIABLES
    ledger,   \* the ledger file: a sequence of records
    cited,    \* aggregate_before_minor of each record, 0 where it has none
    holder,   \* ScopeLocks: the thread inside each scope's critical section
    pc,       \* where each thread is
    call,     \* each thread's arguments and the hold status it last read
    agg       \* the aggregate each thread last read

vars == <<ledger, cited, holder, pc, call, agg>>

AnyClass == Classes \cup {NoClass}
Scopes == AnyClass \X Subjects
CloseVerbs == {"release", "expire", "reconcile"}
HoldVerbs == {"reserve"} \cup CloseVerbs
Ops == HoldVerbs \cup {"approve"}

StatusOf == [release |-> "released", expire |-> "expired", reconcile |-> "reconciled"]
Statuses == {"active", "ambiguous", "released", "expired", "reconciled"}

-----------------------------------------------------------------------------
(* Records.  A reserve carries its class; every other record inherits the   *)
(* class of the reserve it chains to.                                       *)

Record == [verb: HoldVerbs \cup {"other"}, accept: BOOLEAN, class: AnyClass,
           subj: Subjects, amount: Int, reserved: Int, executed: Int,
           parent: Nat, rel: {"none", "supersedes", "confirms"},
           ok: BOOLEAN]

ReserveRecord(cls, s, amt) ==
    [verb |-> "reserve", accept |-> TRUE, class |-> cls, subj |-> s,
     amount |-> amt, reserved |-> amt, executed |-> 0,
     parent |-> 0, rel |-> "none", ok |-> TRUE]

\* release and expire unwind the reservation: neither carries a
\* reserved_amount_minor of its own.
UnwindRecord(verb, s, h, reserved) ==
    [verb |-> verb, accept |-> TRUE, class |-> NoClass, subj |-> s,
     amount |-> -reserved, reserved |-> 0, executed |-> 0,
     parent |-> h, rel |-> "supersedes", ok |-> TRUE]

ReconcileRecord(s, h, reserved, executed) ==
    [verb |-> "reconcile", accept |-> TRUE, class |-> NoClass, subj |-> s,
     amount |-> executed - reserved, reserved |-> reserved,
     executed |-> executed,
     parent |-> h, rel |-> "supersedes", ok |-> TRUE]

\* A refused attempt; "confirms" its parent when it has one.
DecisionRecord(verb, s, parent) ==
    [verb |-> verb, accept |-> FALSE, class |-> NoClass, subj |-> s,
     amount |-> 0, reserved |-> 0, executed |-> 0,
     parent |-> parent, rel |-> IF parent = 0 THEN "none" ELSE "confirms",
     ok |-> TRUE]

\* The capsule of seal_approval: it supersedes the blocked capsule, with a
\* verb that closes no hold.
ApprovalRecord(s, h, approved) ==
    [verb |-> "other", accept |-> approved, class |-> NoClass, subj |-> s,
     amount |-> 0, reserved |-> 0, executed |-> 0,
     parent |-> h, rel |-> "supersedes", ok |-> TRUE]

-----------------------------------------------------------------------------
(* Reading the ledger.                                                      *)

IsTerminal(r, h) == r.parent = h /\ r.rel = "supersedes" /\ r.verb \in CloseVerbs

TerminalsOf(l, h) == {i \in DOMAIN l : IsTerminal(l[i], h)}

\* The earliest terminal record in ledger order, 0 when there is none.
FirstTerminal(l, h) ==
    IF TerminalsOf(l, h) = {} THEN 0
    ELSE CHOOSE i \in TerminalsOf(l, h) : \A j \in TerminalsOf(l, h) : i <= j

\* Faulty variant: a terminal record that does not verify is skipped.
SkipDamagedTerminal(l, h) ==
    LET t == FirstTerminal(l, h)
    IN  IF ~l[h].ok THEN "ambiguous"
        ELSE IF t = 0 \/ ~l[t].ok THEN "active"
        ELSE StatusOf[l[t].verb]

HoldStatus(l, h) ==
    LET t == FirstTerminal(l, h)
    IN  IF ~l[h].ok THEN "ambiguous"
        ELSE IF t = 0 THEN "active"
        ELSE IF ~l[t].ok THEN "ambiguous"
        ELSE StatusOf[l[t].verb]

\* The record hold_status names as terminal; none when the reserve itself
\* does not verify.
TerminalSeen(l, h) == IF l[h].ok THEN FirstTerminal(l, h) ELSE 0

RecordClass(l, i) ==
    IF l[i].verb = "reserve" THEN l[i].class
    ELSE IF l[i].parent # 0 /\ l[l[i].parent].verb = "reserve"
         THEN l[l[i].parent].class
         ELSE NoClass

Counted(l, i, s, cls) ==
    /\ l[i].subj = s
    /\ l[i].accept
    /\ l[i].verb \in HoldVerbs
    /\ cls # NoClass => RecordClass(l, i) = cls

\* The sum of f[1], ..., f[n], added up in this order.
Total(f, n) ==
    LET sum[k \in 0 .. n] == IF k = 0 THEN 0 ELSE sum[k - 1] + f[k]
    IN  sum[n]

ActiveExposure(l, s, cls) ==
    Total([i \in DOMAIN l |-> IF Counted(l, i, s, cls) THEN l[i].amount ELSE 0],
          Len(l))

-----------------------------------------------------------------------------
Call == [op: Ops, id: Nat, class: AnyClass, subj: Subjects, amount: Int,
         status: Statuses, term: Nat]

NoCall == [op |-> "reserve", id |-> 0, class |-> NoClass,
           subj |-> CHOOSE s \in Subjects : TRUE, amount |-> 0,
           status |-> "active", term |-> 0]

Init ==
    /\ ledger = <<>> /\ cited = <<>>
    /\ holder = [sc \in Scopes |-> NoCaller]
    /\ pc = [c \in Callers |-> "idle"]
    /\ call = [c \in Callers |-> NoCall]
    /\ agg = [c \in Callers |-> 0]

Busy == {c \in Callers : pc[c] # "idle"}

\* A call is admitted only while the bounded ledger has room for its record.
Room == Len(ledger) + Cardinality(Busy) < MaxRecords

Goto(c, label) == pc' = [pc EXCEPT ![c] = label]
Finish(c) ==
    /\ Goto(c, "idle")
    /\ call' = [call EXCEPT ![c] = NoCall]
    /\ agg' = [agg EXCEPT ![c] = 0]
Write(record, before) ==
    /\ ledger' = Append(ledger, record)
    /\ cited' = Append(cited, before)
MyScope(c) == <<call[c].class, call[c].subj>>
Unlock(c) == holder' = [holder EXCEPT ![MyScope(c)] = NoCaller]

-----------------------------------------------------------------------------
(* evaluate_and_reserve                                                     *)

\* The scope's serialization point is unreachable: a DENY record, no lock.
EvaluateUnavailable(c) ==
    /\ pc[c] = "idle" /\ Room
    /\ \E s \in Subjects : Write(DecisionRecord("other", s, 0), 0)
    /\ UNCHANGED <<holder, pc, call, agg>>

Evaluate(c) ==
    /\ pc[c] = "idle" /\ Room
    /\ \E cls \in AnyClass, s \in Subjects, amt \in Amounts :
          call' = [call EXCEPT ![c] = [NoCall EXCEPT !.class = cls, !.subj = s,
                                                     !.amount = amt]]
    /\ Goto(c, "wait")
    /\ UNCHANGED <<ledger, cited, holder, agg>>

\* release, expire and reconcile look the record up before they lock, and
\* take the scope from it.  Any record's id may be passed.
Close(c) ==
    /\ pc[c] = "idle" /\ Room
    /\ \E op \in CloseVerbs, h \in DOMAIN ledger :
          \E amt \in IF op = "reconcile" THEN Amounts ELSE {0} :
             call' = [call EXCEPT ![c] =
                        [NoCall EXCEPT !.op = op, !.id = h, !.amount = amt,
                                       !.class = ledger[h].class,
                                       !.subj = ledger[h].subj]]
    /\ Goto(c, "wait")
    /\ UNCHANGED <<ledger, cited, holder, agg>>

\* Faulty variant: a lock per caller, not per scope.
EnterUnserialized(c) ==
    /\ pc[c] = "wait"
    /\ holder' = [holder EXCEPT ![MyScope(c)] = c]
    /\ Goto(c, "locked")
    /\ UNCHANGED <<ledger, cited, call, agg>>

Enter(c) ==
    /\ pc[c] = "wait"
    /\ holder[MyScope(c)] = NoCaller
    /\ holder' = [holder EXCEPT ![MyScope(c)] = c]
    /\ Goto(c, "locked")
    /\ UNCHANGED <<ledger, cited, call, agg>>

ReadAggregate(c) ==
    /\ pc[c] = "locked" /\ call[c].op = "reserve"
    /\ agg' = [agg EXCEPT ![c] =
                  ActiveExposure(ledger, call[c].subj, call[c].class)]
    /\ Goto(c, "decide")
    /\ UNCHANGED <<ledger, cited, holder, call>>

ReadStatus(c) ==
    /\ pc[c] = "locked" /\ call[c].op \in CloseVerbs
    /\ call' = [call EXCEPT ![c].status = HoldStatus(ledger, call[c].id),
                            ![c].term = TerminalSeen(ledger, call[c].id)]
    /\ Goto(c, "decide")
    /\ UNCHANGED <<ledger, cited, holder, agg>>

\* Faulty variant: the cap is checked against the exposure before the request.
OverCapBefore(c) ==
    /\ call[c].class \in Classes
    /\ agg[c] >= Cap[call[c].class]

OverCap(c) ==
    /\ call[c].class \in Classes
    /\ agg[c] + call[c].amount > Cap[call[c].class]

ReserveDecision(c) ==
    IF OverCap(c)
    THEN DecisionRecord("other", call[c].subj, 0)
    ELSE ReserveRecord(call[c].class, call[c].subj, call[c].amount)

OverTolerance(c) ==
    call[c].amount - ledger[call[c].id].reserved
        > IF call[c].class \in Classes THEN Tolerance[call[c].class] ELSE 0

\* What a release, expire or reconcile appends: a refusal of a hold that is
\* not active, an over-tolerance refusal, or the terminal record.
CloseDecision(c) ==
    LET h == call[c].id
        s == call[c].subj
    IN  IF call[c].status # "active"
        THEN DecisionRecord(call[c].op, s,
                            IF call[c].term # 0 THEN call[c].term ELSE h)
        ELSE IF call[c].op # "reconcile"
        THEN UnwindRecord(call[c].op, s, h, ledger[h].reserved)
        ELSE IF OverTolerance(c)
        THEN DecisionRecord("reconcile", s, h)
        ELSE ReconcileRecord(s, h, ledger[h].reserved, call[c].amount)

\* Faulty variant: cites the aggregate that includes the request.
CiteAfter(c) ==
    /\ pc[c] = "decide" /\ call[c].op = "reserve"
    /\ Write(ReserveDecision(c), agg[c] + call[c].amount)
    /\ Unlock(c) /\ Finish(c)

AppendReserve(c) ==
    /\ pc[c] = "decide" /\ call[c].op = "reserve"
    /\ Write(ReserveDecision(c), agg[c])
    /\ Unlock(c) /\ Finish(c)

AppendClose(c) ==
    /\ pc[c] = "decide" /\ call[c].op \in CloseVerbs
    /\ Write(CloseDecision(c), 0)
    /\ Unlock(c) /\ Finish(c)

\* The append raises (another process holds the ledger, or the write fails):
\* nothing lands, and leaving the "with" block frees the scope.
AppendFails(c) ==
    /\ pc[c] = "decide"
    /\ Unlock(c) /\ Finish(c)
    /\ UNCHANGED <<ledger, cited>>

-----------------------------------------------------------------------------
(* seal_approval, with the caller's own hold_status recheck before it.  The *)
(* recheck takes no lock.                                                   *)

RecheckHold(c) ==
    /\ pc[c] = "idle" /\ Room
    /\ \E h \in DOMAIN ledger :
          call' = [call EXCEPT ![c] =
                     [NoCall EXCEPT !.op = "approve", !.id = h,
                                    !.subj = ledger[h].subj,
                                    !.status = HoldStatus(ledger, h)]]
    /\ Goto(c, "resume")
    /\ UNCHANGED <<ledger, cited, holder, agg>>

\* resume_ok = FALSE turns an approval into a denial; a denial stands.
SealApproval(c) ==
    /\ pc[c] = "resume"
    /\ \E approve \in BOOLEAN :
          Write(ApprovalRecord(call[c].subj, call[c].id,
                               approve /\ call[c].status = "active"), 0)
    /\ Finish(c)
    /\ UNCHANGED holder

\* resume_ok left unset: refused (ValueError, nothing changes) when the
\* blocked capsule is a reserve, and taken as "no hold applies" otherwise.
SealWithoutHold(c) ==
    /\ pc[c] = "idle" /\ Room
    /\ \E h \in DOMAIN ledger, approve \in BOOLEAN :
          /\ ledger[h].verb # "reserve"
          /\ Write(ApprovalRecord(ledger[h].subj, h, approve), 0)
    /\ UNCHANGED <<holder, pc, call, agg>>

-----------------------------------------------------------------------------
\* A record on disk stops verifying (disk damage or an edit).
Corrupt ==
    /\ Cardinality({i \in DOMAIN ledger : ~ledger[i].ok}) < MaxCorrupt
    /\ \E i \in DOMAIN ledger :
          /\ ledger[i].ok
          /\ ledger' = [ledger EXCEPT ![i].ok = FALSE]
    /\ UNCHANGED <<cited, holder, pc, call, agg>>

\* The bound is reached and every call has returned.
Quiescent ==
    /\ Busy = {} /\ ~Room
    /\ UNCHANGED vars

Step(c) ==
    \/ EvaluateUnavailable(c) \/ Evaluate(c) \/ Close(c) \/ Enter(c)
    \/ ReadAggregate(c) \/ ReadStatus(c)
    \/ AppendReserve(c) \/ AppendClose(c) \/ AppendFails(c)
    \/ RecheckHold(c) \/ SealApproval(c) \/ SealWithoutHold(c)

Next == (\E c \in Callers : Step(c)) \/ Corrupt \/ Quiescent

Spec == Init /\ [][Next]_vars

-----------------------------------------------------------------------------
(* Properties.                                                              *)

\* Every variable has its type, and a call names a record that exists.
TypeOK ==
    /\ ledger \in Seq(Record)
    /\ holder \in [Scopes -> Callers \cup {NoCaller}]
    /\ pc \in [Callers -> {"idle", "wait", "locked", "decide", "resume"}]
    /\ call \in [Callers -> Call]

\* engine.py closes a hold once: of all the release, expire and reconcile
\* calls that race for one capsule, at most one lands a terminal record.
OneTerminalPerHold ==
    \A h \in DOMAIN ledger :
        \A i, j \in TerminalsOf(ledger, h) : i = j

IsReserve(h, cls, s) ==
    /\ ledger[h].verb = "reserve" /\ ledger[h].accept
    /\ ledger[h].class = cls /\ ledger[h].subj = s

\* What a hold is finally worth, from its own terminal record alone.
SettledValue(h) ==
    LET t == FirstTerminal(ledger, h)
    IN  IF t = 0 THEN ledger[h].reserved
        ELSE IF ledger[t].verb = "reconcile" THEN ledger[t].executed
        ELSE 0

\* What reconciling may have added on top of the reservations, within
\* tolerance, in one scope.
Overrun(cls, s) ==
    Total([h \in DOMAIN ledger |->
              IF IsReserve(h, cls, s) /\ SettledValue(h) > ledger[h].reserved
              THEN Tolerance[cls] ELSE 0],
          Len(ledger))

\* scope.py and evaluate_and_reserve: however calls interleave, the exposure
\* of a capped scope exceeds its cap by no more than the tolerance of the
\* holds reconciled above their reservation.
CapRespected ==
    \A cls \in Classes, s \in Subjects :
        ActiveExposure(ledger, s, cls) <= Cap[cls] + Overrun(cls, s)

\* What the holds of one scope settled to, added up.
SettledSum(cls, s) ==
    Total([h \in DOMAIN ledger |->
              IF IsReserve(h, cls, s) THEN SettledValue(h) ELSE 0],
          Len(ledger))

\* aggregate.py: in a capped scope, summing signed deltas over the whole
\* ledger gives the same number as adding up what each hold settled to.
ExposureIsSettledSum ==
    \A cls \in Classes, s \in Subjects :
        ActiveExposure(ledger, s, cls) = SettledSum(cls, s)

\* capsules.py: the aggregate a reserve of a capped class cites is the one
\* recomputed from the ledger prefix in front of it.  (A reserve without a
\* class sums over scopes whose locks it does not hold: there it can differ.)
CappedCitationExact ==
    \A i \in DOMAIN ledger :
        (ledger[i].verb = "reserve" /\ ledger[i].class \in Classes)
            => cited[i] = ActiveExposure(SubSeq(ledger, 1, i - 1),
                                         ledger[i].subj, ledger[i].class)

\* engine.py hold_status: once a hold is closed it never reads active again,
\* and never closes a second way; damage can only make it ambiguous.
TerminalIsFinal ==
    [][\A h \in DOMAIN ledger :
          HoldStatus(ledger, h) # "active" =>
              HoldStatus(ledger, h)' \in {HoldStatus(ledger, h), "ambiguous"}]_vars

\* The aggregate of a capped scope is exact: for the decision that cites it
\* (engine.py, under the scope's lock) and for whoever adds up the ledger.
AggregatesAreExact == ExposureIsSettledSum /\ CappedCitationExact
=============================================================================
