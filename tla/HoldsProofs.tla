---------------------------- MODULE HoldsProofs ----------------------------
(***************************************************************************)
(* Proofs about the hold engine, for any number of threads, classes,       *)
(* developers, caps and records.                                           *)
(*                                                                         *)
(* "At most one terminal record per capsule" is not inductive: a thread    *)
(* that is about to append one must know that nobody else did so since it  *)
(* read the hold's status.  It knows, because the scope of the hold is a   *)
(* function of the record (CallInv), every appender of a terminal record   *)
(* holds that scope (LockInv), and so its reading is still true when it    *)
(* appends (DecideInv).                                                    *)
(*                                                                         *)
(* The cap and the exactness of the aggregates are one invariant (EInv):   *)
(* an admitted reservation keeps the cap because the aggregate it was      *)
(* admitted by is still the exposure when it is appended (AggInv), and a   *)
(* terminal record moves the exposure and the settled sum of its hold's    *)
(* scope by the same amount because it is the hold's only one.  That a sum *)
(* over the ledger changes by the terms that change is shown by least      *)
(* counterexample (SumsAgree, TotalStep, TotalChange).                     *)
(***************************************************************************)
EXTENDS Holds, WellFoundedInduction, TLAPS

\* The thread inside a critical section owns the scope it works on.
LockInv ==
    \A c \in Callers : pc[c] \in {"locked", "decide"} => holder[MyScope(c)] = c

\* A call that names a record works on that record's own scope.
CallInv ==
    \A c \in Callers :
        /\ pc[c] \in {"wait", "locked", "decide"} => call[c].op \in HoldVerbs
        /\ pc[c] = "resume" => call[c].id \in DOMAIN ledger
        /\ (pc[c] # "idle" /\ call[c].op \in CloseVerbs) =>
              /\ call[c].id \in DOMAIN ledger
              /\ call[c].class = ledger[call[c].id].class
              /\ call[c].subj = ledger[call[c].id].subj
              /\ call[c].term \in 0 .. Len(ledger)

\* A status read as active under the lock is still true.
DecideInv ==
    \A c \in Callers :
        (pc[c] = "decide" /\ call[c].op \in CloseVerbs /\ call[c].status = "active")
            => TerminalsOf(ledger, call[c].id) = {}

\* Records chain to records already in the ledger.
ParentInv == \A i \in DOMAIN ledger : ledger[i].parent <= Len(ledger)

IInv == TypeOK /\ LockInv /\ CallInv /\ DecideInv /\ ParentInv /\ OneTerminalPerHold

-----------------------------------------------------------------------------
LEMMA NoCallType == NoCall \in Call /\ NoCall.op = "reserve"
  BY HoldsAssumption DEF NoCall, Call, AnyClass, Ops, HoldVerbs, CloseVerbs, Statuses

\* What starting a call, and reading a status, put into a call's record.
LEMMA ReserveCall ==
  ASSUME NEW cls \in AnyClass, NEW s \in Subjects, NEW amt \in Int
  PROVE  LET new == [NoCall EXCEPT !.class = cls, !.subj = s, !.amount = amt]
         IN  new \in Call /\ new.op = "reserve"
  BY DEF NoCall, Call, Ops, HoldVerbs, Statuses

LEMMA ReadCall ==
  ASSUME NEW k \in Call, NEW st \in Statuses, NEW t \in Nat
  PROVE  LET new == [k EXCEPT !.status = st, !.term = t]
         IN  /\ new \in Call /\ new.op = k.op /\ new.id = k.id
             /\ new.class = k.class /\ new.subj = k.subj
             /\ new.status = st /\ new.term = t
  BY DEF Call

LEMMA ScopeType ==
  ASSUME TypeOK, NEW c \in Callers
  PROVE  MyScope(c) \in Scopes
  BY DEF TypeOK, Call, MyScope, Scopes

\* A nonempty set of naturals has a least element.
LEMMA LeastNat ==
  ASSUME NEW T, T \subseteq Nat, T # {}
  PROVE  \E i \in T : \A j \in T : i <= j
<1> DEFINE R == {p \in Nat \X Nat : p[1] < p[2]}
<1>1. IsWellFoundedOn(R, Nat)
  BY NatLessThanWellFounded DEF OpToRel
<1>2. PICK i \in T : \A j \in T : ~(<<j, i>> \in R)
  BY <1>1, WFMin
<1>3. ASSUME NEW j \in T
      PROVE  i <= j
  <2>1. ~(<<j, i>> \in R)
    BY <1>2
  <2>2. i \in Nat /\ j \in Nat
    OBVIOUS
  <2> QED
    BY <2>1, <2>2
<1> QED
  BY <1>3

\* hold_status finds a terminal record exactly when there is one, and what it
\* finds is a terminal record of the hold.
LEMMA FirstTerminalIs ==
  ASSUME NEW l \in Seq(Record), NEW h \in Nat
  PROVE  /\ FirstTerminal(l, h) \in 0 .. Len(l)
         /\ (FirstTerminal(l, h) = 0) <=> (TerminalsOf(l, h) = {})
         /\ FirstTerminal(l, h) # 0 => FirstTerminal(l, h) \in TerminalsOf(l, h)
<1> DEFINE T == TerminalsOf(l, h)
<1>1. T \subseteq 1 .. Len(l)
  BY DEF TerminalsOf
<1>2. ASSUME T # {}
      PROVE  FirstTerminal(l, h) \in T
  <2>1. \E i \in T : \A j \in T : i <= j
    BY <1>1, <1>2, LeastNat
  <2> QED
    BY <1>2, <2>1 DEF FirstTerminal
<1>3. ASSUME T = {}
      PROVE  FirstTerminal(l, h) = 0
  BY <1>3 DEF FirstTerminal
<1> QED
  BY <1>1, <1>2, <1>3

\* A hold that reads active has no terminal record.
LEMMA ActiveMeansOpen ==
  ASSUME NEW l \in Seq(Record), NEW h \in DOMAIN l, HoldStatus(l, h) = "active"
  PROVE  TerminalsOf(l, h) = {}
<1>1. h \in Nat
  OBVIOUS
<1>2. ASSUME FirstTerminal(l, h) # 0
      PROVE  l[FirstTerminal(l, h)].verb \in CloseVerbs
  BY <1>1, <1>2, FirstTerminalIs DEF TerminalsOf, IsTerminal
<1>3. FirstTerminal(l, h) = 0
  BY <1>2 DEF HoldStatus, StatusOf, CloseVerbs
<1> QED
  BY <1>1, <1>3, FirstTerminalIs

LEMMA StatusType ==
  ASSUME NEW l \in Seq(Record), NEW h \in DOMAIN l
  PROVE  /\ HoldStatus(l, h) \in Statuses
         /\ TerminalSeen(l, h) \in 0 .. Len(l)
<1>1. h \in Nat
  OBVIOUS
<1>2. ASSUME FirstTerminal(l, h) # 0
      PROVE  l[FirstTerminal(l, h)].verb \in CloseVerbs
  BY <1>1, <1>2, FirstTerminalIs DEF TerminalsOf, IsTerminal
<1>3. HoldStatus(l, h) \in Statuses
  BY <1>2 DEF HoldStatus, StatusOf, CloseVerbs, Statuses
<1>4. TerminalSeen(l, h) \in 0 .. Len(l)
  BY <1>1, FirstTerminalIs DEF TerminalSeen
<1> QED
  BY <1>3, <1>4

-----------------------------------------------------------------------------
(* What one append does to the ledger.                                      *)

LEMMA AppendFacts ==
  ASSUME NEW l \in Seq(Record), NEW r \in Record
  PROVE  /\ Append(l, r) \in Seq(Record)
         /\ Len(Append(l, r)) = Len(l) + 1
         /\ DOMAIN l = 1 .. Len(l)
         /\ DOMAIN Append(l, r) = 1 .. Len(l) + 1
         /\ \A i \in 1 .. Len(l) : Append(l, r)[i] = l[i]
         /\ Append(l, r)[Len(l) + 1] = r
  OBVIOUS

\* The new record is the only terminal record an append can add.
LEMMA AppendTerminals ==
  ASSUME NEW l \in Seq(Record), NEW r \in Record, NEW h
  PROVE  TerminalsOf(Append(l, r), h)
           = TerminalsOf(l, h) \cup (IF IsTerminal(r, h) THEN {Len(l) + 1} ELSE {})
  BY AppendFacts DEF TerminalsOf

\* Appending a record that chains backwards, and that is terminal only for a
\* hold without a terminal record, keeps the ledger's own invariants.
LEMMA AppendKeepsLedger ==
  ASSUME TypeOK, ParentInv, OneTerminalPerHold,
         NEW r \in Record, ledger' = Append(ledger, r),
         r.parent <= Len(ledger),
         \A h \in DOMAIN ledger : IsTerminal(r, h) => TerminalsOf(ledger, h) = {}
  PROVE  ParentInv' /\ OneTerminalPerHold' /\ ledger' \in Seq(Record)
<1>0. ledger \in Seq(Record)
  BY DEF TypeOK
<1>a. \A i \in DOMAIN ledger : ledger[i] \in Record
  BY <1>0
<1>b. \A i \in DOMAIN ledger : ledger[i].parent \in Nat /\ ledger[i].parent <= Len(ledger)
  BY <1>a DEF ParentInv, Record
<1>c. r.parent \in Nat
  BY DEF Record
<1>1. ParentInv'
  <2>1. ASSUME NEW i \in DOMAIN ledger'
        PROVE  ledger'[i].parent <= Len(ledger')
    <3>1. CASE i \in DOMAIN ledger
      BY <1>0, <1>b, <3>1, AppendFacts
    <3>2. CASE i = Len(ledger) + 1
      BY <1>0, <1>c, <3>2, AppendFacts
    <3> QED
      BY <1>0, <3>1, <3>2, AppendFacts
  <2> QED
    BY <2>1 DEF ParentInv
<1>2. ASSUME NEW h \in DOMAIN ledger'
      PROVE  \A i, j \in TerminalsOf(ledger', h) : i = j
  <2>1. CASE h \in DOMAIN ledger
    BY <1>0, <2>1, AppendTerminals DEF OneTerminalPerHold
  <2>2. CASE h = Len(ledger) + 1
    <3>1. ~IsTerminal(r, h)
      BY <1>0, <1>c, <2>2 DEF IsTerminal
    <3>2. \A i \in DOMAIN ledger : ledger[i].parent # h
      BY <1>0, <1>b, <2>2
    <3>3. TerminalsOf(ledger, h) = {}
      BY <3>2 DEF TerminalsOf, IsTerminal
    <3> QED
      BY <1>0, <3>1, <3>3, AppendTerminals
  <2> QED
    BY <1>0, <2>1, <2>2, AppendFacts
<1>3. OneTerminalPerHold'
  BY <1>2 DEF OneTerminalPerHold
<1> QED
  BY <1>0, <1>1, <1>3, AppendFacts

\* ... and what the threads know of their own calls.
LEMMA AppendKeepsCalls ==
  ASSUME TypeOK, CallInv,
         NEW r \in Record, ledger' = Append(ledger, r),
         NEW d \in Callers, pc'[d] = pc[d], call'[d] = call[d]
  PROVE  /\ pc'[d] \in {"wait", "locked", "decide"} => call'[d].op \in HoldVerbs
         /\ pc'[d] = "resume" => call'[d].id \in DOMAIN ledger'
         /\ (pc'[d] # "idle" /\ call'[d].op \in CloseVerbs) =>
              /\ call'[d].id \in DOMAIN ledger'
              /\ call'[d].class = ledger'[call'[d].id].class
              /\ call'[d].subj = ledger'[call'[d].id].subj
              /\ call'[d].term \in 0 .. Len(ledger')
<1>1. ledger \in Seq(Record)
  BY DEF TypeOK
<1> QED
  BY <1>1, AppendFacts DEF CallInv

-----------------------------------------------------------------------------
(* The inductive invariant.                                                 *)

LEMMA InitIInv == Init => IInv
<1> SUFFICES ASSUME Init PROVE IInv
  OBVIOUS
<1> USE DEF Init
<1>1. TypeOK
  BY NoCallType DEF TypeOK
<1>2. LockInv /\ CallInv /\ DecideInv
  BY DEF LockInv, CallInv, DecideInv
<1>3. ParentInv /\ OneTerminalPerHold
  BY DEF ParentInv, OneTerminalPerHold
<1> QED
  BY <1>1, <1>2, <1>3 DEF IInv

\* Steps that leave the ledger alone keep the invariants of the ledger.
LEMMA SameLedger ==
  ASSUME ParentInv, OneTerminalPerHold, ledger' = ledger
  PROVE  ParentInv' /\ OneTerminalPerHold'
  BY DEF ParentInv, OneTerminalPerHold, TerminalsOf

\* What a thread's own move changes: nothing of any other thread.
LEMMA OwnMove ==
  ASSUME TypeOK, NEW c \in Callers, NEW new \in Call, NEW label,
         call' = [call EXCEPT ![c] = new], pc' = [pc EXCEPT ![c] = label]
  PROVE  /\ call' \in [Callers -> Call]
         /\ pc'[c] = label /\ call'[c] = new
         /\ \A d \in Callers \ {c} : pc'[d] = pc[d] /\ call'[d] = call[d]
  BY DEF TypeOK

LEMMA EvaluateStep ==
  ASSUME IInv, NEW c \in Callers, Evaluate(c)
  PROVE  IInv'
<1>1. TypeOK /\ LockInv /\ CallInv /\ DecideInv /\ ParentInv /\ OneTerminalPerHold
  BY DEF IInv
<1>2. PICK cls \in AnyClass, s \in Subjects, amt \in Amounts :
         call' = [call EXCEPT ![c] = [NoCall EXCEPT !.class = cls, !.subj = s,
                                                    !.amount = amt]]
  BY DEF Evaluate
<1>3. pc' = [pc EXCEPT ![c] = "wait"] /\ ledger' = ledger /\ holder' = holder
  BY DEF Evaluate, Goto
<1> DEFINE new == [NoCall EXCEPT !.class = cls, !.subj = s, !.amount = amt]
<1>4. amt \in Int
  BY HoldsAssumption
<1>5. new \in Call /\ new.op = "reserve"
  BY <1>4, ReserveCall
<1>6. call' = [call EXCEPT ![c] = new]
  BY <1>2
<1> HIDE DEF new
<1>7. /\ call' \in [Callers -> Call]
      /\ pc'[c] = "wait" /\ call'[c].op = "reserve"
      /\ \A d \in Callers \ {c} : pc'[d] = pc[d] /\ call'[d] = call[d]
  BY <1>1, <1>3, <1>5, <1>6, OwnMove
<1>8. TypeOK'
  BY <1>1, <1>3, <1>7 DEF TypeOK
<1>9. LockInv'
  BY <1>1, <1>3, <1>7 DEF LockInv, MyScope
<1>10. CallInv'
  BY <1>1, <1>3, <1>7 DEF CallInv, HoldVerbs, CloseVerbs
<1>11. DecideInv'
  BY <1>1, <1>3, <1>7 DEF DecideInv
<1> QED
  BY <1>1, <1>3, <1>8, <1>9, <1>10, <1>11, SameLedger DEF IInv

LEMMA CloseStep ==
  ASSUME IInv, NEW c \in Callers, Close(c)
  PROVE  IInv'
<1>1. TypeOK /\ LockInv /\ CallInv /\ DecideInv /\ ParentInv /\ OneTerminalPerHold
  BY DEF IInv
<1>2. PICK op \in CloseVerbs, h \in DOMAIN ledger :
         \E amt \in IF op = "reconcile" THEN Amounts ELSE {0} :
            call' = [call EXCEPT ![c] =
                        [NoCall EXCEPT !.op = op, !.id = h, !.amount = amt,
                                       !.class = ledger[h].class,
                                       !.subj = ledger[h].subj]]
  BY DEF Close
<1>3. PICK amt \in IF op = "reconcile" THEN Amounts ELSE {0} :
            call' = [call EXCEPT ![c] =
                        [NoCall EXCEPT !.op = op, !.id = h, !.amount = amt,
                                       !.class = ledger[h].class,
                                       !.subj = ledger[h].subj]]
  BY <1>2
<1>4. pc' = [pc EXCEPT ![c] = "wait"] /\ ledger' = ledger /\ holder' = holder
  BY DEF Close, Goto
<1> DEFINE new == [NoCall EXCEPT !.op = op, !.id = h, !.amount = amt,
                                 !.class = ledger[h].class,
                                 !.subj = ledger[h].subj]
<1>5. ledger[h] \in Record /\ h \in 1 .. Len(ledger) /\ Len(ledger) \in Nat
  BY <1>1 DEF TypeOK
<1>6. ledger[h].class \in AnyClass /\ ledger[h].subj \in Subjects
  BY <1>5 DEF Record
<1>7. amt \in Int /\ h \in Nat
  BY <1>5, HoldsAssumption
<1>8. /\ new \in Call /\ new.op = op /\ new.id = h
      /\ new.class = ledger[h].class /\ new.subj = ledger[h].subj
      /\ new.term = 0
  BY <1>6, <1>7 DEF NoCall, Call, Ops, HoldVerbs, Statuses
<1>9. call' = [call EXCEPT ![c] = new]
  BY <1>3
<1> HIDE DEF new
<1>10. /\ call' \in [Callers -> Call]
       /\ pc'[c] = "wait" /\ call'[c] = new
       /\ \A d \in Callers \ {c} : pc'[d] = pc[d] /\ call'[d] = call[d]
  BY <1>1, <1>4, <1>8, <1>9, OwnMove
<1>11. TypeOK'
  BY <1>1, <1>4, <1>10 DEF TypeOK
<1>12. LockInv'
  BY <1>1, <1>4, <1>10 DEF LockInv, MyScope
<1>13. CallInv'
  <2>1. SUFFICES ASSUME NEW d \in Callers PROVE CallInv!(d)'
    BY DEF CallInv
  <2>2. CASE d = c
    BY <1>4, <1>5, <1>8, <1>10, <2>2 DEF HoldVerbs
  <2>3. CASE d # c
    BY <1>1, <1>4, <1>10, <2>3 DEF CallInv
  <2> QED
    BY <2>2, <2>3
<1>14. DecideInv'
  BY <1>1, <1>4, <1>10 DEF DecideInv
<1> QED
  BY <1>1, <1>4, <1>11, <1>12, <1>13, <1>14, SameLedger DEF IInv

LEMMA EnterStep ==
  ASSUME IInv, NEW c \in Callers, Enter(c)
  PROVE  IInv'
<1> USE DEF IInv, Enter, Goto
<1>1. MyScope(c) \in Scopes
  BY ScopeType
<1>2. TypeOK'
  BY <1>1 DEF TypeOK
<1>3. \A d \in Callers : MyScope(d)' = MyScope(d)
  BY DEF MyScope
<1>4. LockInv'
  <2>1. SUFFICES ASSUME NEW d \in Callers, pc'[d] \in {"locked", "decide"}
                 PROVE  holder'[MyScope(d)] = d
    BY <1>3 DEF LockInv
  <2>2. CASE d = c
    BY <1>1, <2>2 DEF TypeOK
  <2>3. CASE d # c
    <3>1. holder[MyScope(d)] = d
      BY <2>1, <2>3 DEF LockInv, TypeOK
    <3>2. MyScope(d) # MyScope(c)
      BY <3>1, HoldsAssumption
    <3> QED
      BY <3>1, <3>2, <1>1, ScopeType DEF TypeOK
  <2> QED
    BY <2>2, <2>3
<1>5. CallInv' /\ DecideInv'
  BY DEF CallInv, DecideInv, TypeOK
<1> QED
  BY <1>2, <1>4, <1>5, SameLedger

LEMMA ReadAggregateStep ==
  ASSUME IInv, NEW c \in Callers, ReadAggregate(c)
  PROVE  IInv'
<1> USE DEF IInv, ReadAggregate, Goto
<1>1. TypeOK'
  BY DEF TypeOK
<1>2. LockInv'
  BY DEF LockInv, MyScope, TypeOK
<1>3. CallInv'
  BY DEF CallInv, TypeOK
<1>4. DecideInv'
  BY DEF DecideInv, TypeOK, CloseVerbs
<1> QED
  BY <1>1, <1>2, <1>3, <1>4, SameLedger

LEMMA ReadStatusStep ==
  ASSUME IInv, NEW c \in Callers, ReadStatus(c)
  PROVE  IInv'
<1>1. TypeOK /\ LockInv /\ CallInv /\ DecideInv /\ ParentInv /\ OneTerminalPerHold
  BY DEF IInv
<1> DEFINE h == call[c].id
<1> DEFINE st == HoldStatus(ledger, h)
<1> DEFINE t == TerminalSeen(ledger, h)
<1>2. /\ pc[c] = "locked" /\ call[c].op \in CloseVerbs
      /\ call' = [call EXCEPT ![c] = [call[c] EXCEPT !.status = st, !.term = t]]
      /\ pc' = [pc EXCEPT ![c] = "decide"] /\ ledger' = ledger /\ holder' = holder
  BY <1>1 DEF ReadStatus, Goto, TypeOK
<1>3. ledger \in Seq(Record) /\ h \in DOMAIN ledger
  BY <1>1, <1>2 DEF TypeOK, CallInv
<1>4. st \in Statuses /\ t \in 0 .. Len(ledger)
  BY <1>3, StatusType
<1>5. st = "active" => TerminalsOf(ledger, h) = {}
  BY <1>3, ActiveMeansOpen
<1> HIDE DEF st, t
<1> DEFINE new == [call[c] EXCEPT !.status = st, !.term = t]
<1>6. call[c] \in Call /\ t \in Nat
  BY <1>1, <1>3, <1>4 DEF TypeOK
<1>7. /\ new \in Call /\ new.op = call[c].op /\ new.id = call[c].id
      /\ new.class = call[c].class /\ new.subj = call[c].subj
      /\ new.status = st /\ new.term = t
  BY <1>4, <1>6, ReadCall
<1>8. call' = [call EXCEPT ![c] = new]
  BY <1>2
<1> HIDE DEF new
<1>9. /\ call' \in [Callers -> Call]
      /\ pc'[c] = "decide" /\ call'[c] = new
      /\ \A d \in Callers \ {c} : pc'[d] = pc[d] /\ call'[d] = call[d]
  BY <1>1, <1>2, <1>7, <1>8, OwnMove
<1>10. TypeOK'
  BY <1>1, <1>2, <1>9 DEF TypeOK
<1>11. LockInv'
  BY <1>1, <1>2, <1>7, <1>9 DEF LockInv, MyScope
<1>12. CallInv'
  <2>1. SUFFICES ASSUME NEW d \in Callers PROVE CallInv!(d)'
    BY DEF CallInv
  <2>2. CASE d = c
    BY <1>1, <1>2, <1>4, <1>7, <1>9, <2>2 DEF CallInv
  <2>3. CASE d # c
    BY <1>1, <1>2, <1>9, <2>3 DEF CallInv
  <2> QED
    BY <2>2, <2>3
<1>13. DecideInv'
  BY <1>1, <1>2, <1>5, <1>7, <1>9 DEF DecideInv
<1> QED
  BY <1>1, <1>2, <1>10, <1>11, <1>12, <1>13, SameLedger DEF IInv

-----------------------------------------------------------------------------
(* The records that actions append are records.                             *)

LEMMA DecisionIs ==
  ASSUME NEW v \in HoldVerbs \cup {"other"}, NEW s \in Subjects, NEW p \in Nat
  PROVE  /\ DecisionRecord(v, s, p) \in Record
         /\ DecisionRecord(v, s, p).parent = p
         /\ \A h : ~IsTerminal(DecisionRecord(v, s, p), h)
  BY DEF DecisionRecord, Record, AnyClass, IsTerminal

LEMMA ApprovalIs ==
  ASSUME NEW s \in Subjects, NEW p \in Nat, NEW a \in BOOLEAN
  PROVE  /\ ApprovalRecord(s, p, a) \in Record
         /\ ApprovalRecord(s, p, a).parent = p
         /\ \A h : ~IsTerminal(ApprovalRecord(s, p, a), h)
  BY DEF ApprovalRecord, Record, AnyClass, IsTerminal, CloseVerbs

LEMMA ReserveIs ==
  ASSUME NEW cls \in AnyClass, NEW s \in Subjects, NEW amt \in Int
  PROVE  /\ ReserveRecord(cls, s, amt) \in Record
         /\ ReserveRecord(cls, s, amt).parent = 0
         /\ \A h : ~IsTerminal(ReserveRecord(cls, s, amt), h)
  BY DEF ReserveRecord, Record, HoldVerbs, IsTerminal

LEMMA UnwindIs ==
  ASSUME NEW v \in CloseVerbs, NEW s \in Subjects, NEW p \in Nat, NEW amt \in Int
  PROVE  /\ UnwindRecord(v, s, p, amt) \in Record
         /\ UnwindRecord(v, s, p, amt).parent = p
  BY DEF UnwindRecord, Record, AnyClass, HoldVerbs

LEMMA ReconcileIs ==
  ASSUME NEW s \in Subjects, NEW p \in Nat, NEW r \in Int, NEW x \in Int
  PROVE  /\ ReconcileRecord(s, p, r, x) \in Record
         /\ ReconcileRecord(s, p, r, x).parent = p
  BY DEF ReconcileRecord, Record, AnyClass, HoldVerbs, CloseVerbs

\* What a close appends: a record that chains to the hold or to its terminal
\* record, and that is terminal only when the hold was read as active.
LEMMA CloseDecisionIs ==
  ASSUME TypeOK, CallInv, NEW c \in Callers,
         pc[c] = "decide", call[c].op \in CloseVerbs
  PROVE  /\ CloseDecision(c) \in Record
         /\ CloseDecision(c).parent <= Len(ledger)
         /\ \A h \in DOMAIN ledger : IsTerminal(CloseDecision(c), h) =>
               h = call[c].id /\ call[c].status = "active"
<1> DEFINE h == call[c].id
<1> DEFINE s == call[c].subj
<1> DEFINE p == IF call[c].term # 0 THEN call[c].term ELSE h
<1>1. /\ h \in DOMAIN ledger /\ call[c].term \in 0 .. Len(ledger)
      /\ call[c] \in Call /\ ledger \in Seq(Record)
  BY DEF TypeOK, CallInv
<1>2. /\ h \in Nat /\ h <= Len(ledger) /\ p \in Nat /\ p <= Len(ledger)
      /\ Len(ledger) \in Nat /\ ledger[h] \in Record
  BY <1>1
<1>3. s \in Subjects /\ call[c].amount \in Int /\ ledger[h].reserved \in Int
  BY <1>1, <1>2 DEF Call, Record
<1>4. CASE call[c].status # "active"
  <2>1. CloseDecision(c) = DecisionRecord(call[c].op, s, p)
    BY <1>4 DEF CloseDecision
  <2> HIDE DEF p
  <2>2. call[c].op \in HoldVerbs \cup {"other"}
    BY DEF HoldVerbs
  <2> QED
    BY <1>2, <1>3, <2>1, <2>2, DecisionIs
<1>5. CASE call[c].status = "active" /\ call[c].op # "reconcile"
  <2>1. CloseDecision(c) = UnwindRecord(call[c].op, s, h, ledger[h].reserved)
    BY <1>5 DEF CloseDecision
  <2> QED
    BY <1>2, <1>3, <1>5, <2>1, UnwindIs DEF IsTerminal
<1>6. CASE call[c].status = "active" /\ call[c].op = "reconcile" /\ OverTolerance(c)
  <2>1. CloseDecision(c) = DecisionRecord("reconcile", s, h)
    BY <1>6 DEF CloseDecision
  <2>2. "reconcile" \in HoldVerbs \cup {"other"}
    BY DEF HoldVerbs, CloseVerbs
  <2> QED
    BY <1>2, <1>3, <2>1, <2>2, DecisionIs
<1>7. CASE call[c].status = "active" /\ call[c].op = "reconcile" /\ ~OverTolerance(c)
  <2>1. CloseDecision(c) = ReconcileRecord(s, h, ledger[h].reserved, call[c].amount)
    BY <1>7 DEF CloseDecision
  <2> QED
    BY <1>2, <1>3, <1>7, <2>1, ReconcileIs DEF IsTerminal
<1> QED
  BY <1>4, <1>5, <1>6, <1>7

-----------------------------------------------------------------------------
(* Steps that append.                                                       *)

\* Appending a record that closes no hold, or closes the one its writer has
\* locked and read as active, keeps everybody's readings true.
LEMMA AppendStep ==
  ASSUME IInv, NEW c \in Callers, NEW r \in Record,
         ledger' = Append(ledger, r), r.parent <= Len(ledger),
         \A h \in DOMAIN ledger : IsTerminal(r, h) =>
             /\ pc[c] = "decide" /\ call[c].op \in CloseVerbs
             /\ h = call[c].id /\ call[c].status = "active",
         pc' \in [Callers -> {"idle", "wait", "locked", "decide", "resume"}],
         call' \in [Callers -> Call], pc'[c] = "idle",
         \A d \in Callers \ {c} : pc'[d] = pc[d] /\ call'[d] = call[d],
         \/ holder' = holder
         \/ /\ pc[c] \in {"locked", "decide"}
            /\ holder' = [holder EXCEPT ![MyScope(c)] = NoCaller]
  PROVE  IInv'
<1>1. TypeOK /\ LockInv /\ CallInv /\ DecideInv /\ ParentInv /\ OneTerminalPerHold
  BY DEF IInv
<1>2. \A h \in DOMAIN ledger : IsTerminal(r, h) => TerminalsOf(ledger, h) = {}
  BY <1>1 DEF DecideInv
<1>3. ParentInv' /\ OneTerminalPerHold' /\ ledger' \in Seq(Record)
  BY <1>1, <1>2, AppendKeepsLedger
<1>4. TypeOK'
  <2>1. holder' \in [Scopes -> Callers \cup {NoCaller}]
    BY <1>1 DEF TypeOK
  <2> QED
    BY <1>3, <2>1 DEF TypeOK
<1>5. LockInv'
  <2>1. SUFFICES ASSUME NEW d \in Callers, d # c, pc[d] \in {"locked", "decide"}
                 PROVE  holder'[MyScope(d)] = d
    BY DEF LockInv, MyScope
  <2>2. holder[MyScope(d)] = d
    BY <1>1, <2>1 DEF LockInv
  <2>3. ASSUME pc[c] \in {"locked", "decide"}
        PROVE  MyScope(d) # MyScope(c)
    BY <1>1, <2>1, <2>2, <2>3 DEF LockInv
  <2>4. MyScope(d) \in Scopes
    BY <1>1, ScopeType
  <2> QED
    BY <1>1, <2>2, <2>3, <2>4 DEF TypeOK
<1>6. CallInv'
  <2>1. ASSUME NEW d \in Callers PROVE CallInv!(d)'
    <3>1. CASE d = c
      BY <3>1
    <3>2. CASE d # c
      BY <1>1, <3>2, AppendKeepsCalls
    <3> QED
      BY <3>1, <3>2
  <2> QED
    BY <2>1 DEF CallInv
<1>7. DecideInv'
  <2>1. SUFFICES ASSUME NEW d \in Callers, d # c, pc[d] = "decide",
                        call[d].op \in CloseVerbs, call[d].status = "active"
                 PROVE  TerminalsOf(ledger', call[d].id) = {}
    BY DEF DecideInv
  <2>2. TerminalsOf(ledger, call[d].id) = {} /\ call[d].id \in DOMAIN ledger
    BY <1>1, <2>1 DEF DecideInv, CallInv
  <2>3. ~IsTerminal(r, call[d].id)
    <3>1. SUFFICES ASSUME IsTerminal(r, call[d].id) PROVE FALSE
      OBVIOUS
    <3>2. pc[c] = "decide" /\ call[c].op \in CloseVerbs /\ call[d].id = call[c].id
      BY <2>2, <3>1
    <3>3. MyScope(c) = MyScope(d)
      BY <1>1, <2>1, <3>2 DEF CallInv, MyScope
    <3> QED
      BY <1>1, <2>1, <3>2, <3>3 DEF LockInv
  <2> QED
    BY <1>1, <2>2, <2>3, AppendTerminals DEF TypeOK
<1> QED
  BY <1>3, <1>4, <1>5, <1>6, <1>7 DEF IInv

LEMMA FinishMove ==
  ASSUME TypeOK, NEW c \in Callers, Finish(c)
  PROVE  /\ pc' \in [Callers -> {"idle", "wait", "locked", "decide", "resume"}]
         /\ call' \in [Callers -> Call] /\ pc'[c] = "idle"
         /\ \A d \in Callers \ {c} : pc'[d] = pc[d] /\ call'[d] = call[d]
  BY NoCallType DEF TypeOK, Finish, Goto

LEMMA AppendReserveStep ==
  ASSUME IInv, NEW c \in Callers, AppendReserve(c)
  PROVE  IInv'
<1>1. TypeOK /\ call[c] \in Call /\ Len(ledger) \in Nat
  BY DEF IInv, TypeOK
<1>2. /\ ReserveDecision(c) \in Record
      /\ ReserveDecision(c).parent = 0
      /\ \A h : ~IsTerminal(ReserveDecision(c), h)
  <2>1. /\ call[c].subj \in Subjects /\ call[c].class \in AnyClass
        /\ call[c].amount \in Int /\ "other" \in HoldVerbs \cup {"other"}
    BY <1>1 DEF Call
  <2>2. CASE OverCap(c)
    BY <2>1, <2>2, DecisionIs DEF ReserveDecision
  <2>3. CASE ~OverCap(c)
    BY <2>1, <2>3, ReserveIs DEF ReserveDecision
  <2> QED
    BY <2>2, <2>3
<1>3. /\ ledger' = Append(ledger, ReserveDecision(c)) /\ pc[c] = "decide"
      /\ holder' = [holder EXCEPT ![MyScope(c)] = NoCaller] /\ Finish(c)
  BY DEF AppendReserve, Write, Unlock
<1>4. ReserveDecision(c).parent <= Len(ledger)
  BY <1>1, <1>2
<1>5. /\ pc' \in [Callers -> {"idle", "wait", "locked", "decide", "resume"}]
      /\ call' \in [Callers -> Call] /\ pc'[c] = "idle"
      /\ \A d \in Callers \ {c} : pc'[d] = pc[d] /\ call'[d] = call[d]
  BY <1>1, <1>3, FinishMove
<1> QED
  BY <1>2, <1>3, <1>4, <1>5, AppendStep

LEMMA AppendCloseStep ==
  ASSUME IInv, NEW c \in Callers, AppendClose(c)
  PROVE  IInv'
<1>1. TypeOK /\ CallInv
  BY DEF IInv
<1>2. /\ ledger' = Append(ledger, CloseDecision(c)) /\ pc[c] = "decide"
      /\ call[c].op \in CloseVerbs
      /\ holder' = [holder EXCEPT ![MyScope(c)] = NoCaller] /\ Finish(c)
  BY DEF AppendClose, Write, Unlock
<1>3. /\ CloseDecision(c) \in Record
      /\ CloseDecision(c).parent <= Len(ledger)
      /\ \A h \in DOMAIN ledger : IsTerminal(CloseDecision(c), h) =>
            h = call[c].id /\ call[c].status = "active"
  BY <1>1, <1>2, CloseDecisionIs
<1> QED
  BY <1>1, <1>2, <1>3, FinishMove, AppendStep

LEMMA UnavailableStep ==
  ASSUME IInv, NEW c \in Callers, EvaluateUnavailable(c)
  PROVE  IInv'
<1>1. TypeOK /\ Len(ledger) \in Nat
  BY DEF IInv, TypeOK
<1>2. PICK s \in Subjects : ledger' = Append(ledger, DecisionRecord("other", s, 0))
  BY DEF EvaluateUnavailable, Write
<1>3. pc[c] = "idle" /\ holder' = holder /\ pc' = pc /\ call' = call
  BY DEF EvaluateUnavailable
<1>4. /\ DecisionRecord("other", s, 0) \in Record
      /\ DecisionRecord("other", s, 0).parent = 0
      /\ \A h : ~IsTerminal(DecisionRecord("other", s, 0), h)
  BY DecisionIs
<1> HIDE DEF DecisionRecord
<1> QED
  BY <1>1, <1>2, <1>3, <1>4, AppendStep DEF TypeOK

LEMMA SealApprovalStep ==
  ASSUME IInv, NEW c \in Callers, SealApproval(c)
  PROVE  IInv'
<1>1. TypeOK /\ CallInv /\ pc[c] = "resume" /\ holder' = holder /\ Finish(c)
  BY DEF IInv, SealApproval
<1>2. PICK a \in BOOLEAN :
         ledger' = Append(ledger, ApprovalRecord(call[c].subj, call[c].id,
                                      a /\ call[c].status = "active"))
  BY DEF SealApproval, Write
<1>3. (a /\ call[c].status = "active") \in BOOLEAN
  OBVIOUS
<1>4. /\ call[c].subj \in Subjects /\ call[c].id \in Nat
      /\ call[c].id <= Len(ledger) /\ call[c] \in Call
  BY <1>1 DEF TypeOK, CallInv, Call
<1>5. PICK b \in BOOLEAN : ledger' = Append(ledger, ApprovalRecord(call[c].subj, call[c].id, b))
  BY <1>2, <1>3
<1>6. /\ ApprovalRecord(call[c].subj, call[c].id, b) \in Record
      /\ ApprovalRecord(call[c].subj, call[c].id, b).parent = call[c].id
      /\ \A h : ~IsTerminal(ApprovalRecord(call[c].subj, call[c].id, b), h)
  BY <1>4, ApprovalIs
<1> QED
  BY <1>1, <1>4, <1>5, <1>6, FinishMove, AppendStep

LEMMA SealWithoutHoldStep ==
  ASSUME IInv, NEW c \in Callers, SealWithoutHold(c)
  PROVE  IInv'
<1>1. TypeOK /\ pc[c] = "idle" /\ holder' = holder /\ pc' = pc /\ call' = call
  BY DEF IInv, SealWithoutHold
<1>2. PICK h \in DOMAIN ledger, a \in BOOLEAN :
         ledger' = Append(ledger, ApprovalRecord(ledger[h].subj, h, a))
  BY DEF SealWithoutHold, Write
<1>3. ledger[h] \in Record /\ h \in Nat /\ h <= Len(ledger)
  BY <1>1 DEF TypeOK
<1>4. ledger[h].subj \in Subjects
  BY <1>3 DEF Record
<1>5. /\ ApprovalRecord(ledger[h].subj, h, a) \in Record
      /\ ApprovalRecord(ledger[h].subj, h, a).parent = h
      /\ \A k : ~IsTerminal(ApprovalRecord(ledger[h].subj, h, a), k)
  BY <1>3, <1>4, ApprovalIs
<1> QED
  BY <1>1, <1>2, <1>3, <1>5, AppendStep DEF TypeOK

-----------------------------------------------------------------------------
(* The remaining steps.                                                     *)

LEMMA AppendFailsStep ==
  ASSUME IInv, NEW c \in Callers, AppendFails(c)
  PROVE  IInv'
<1>1. TypeOK /\ LockInv /\ CallInv /\ DecideInv /\ ParentInv /\ OneTerminalPerHold
  BY DEF IInv
<1>2. /\ ledger' = ledger /\ pc[c] = "decide" /\ Finish(c)
      /\ holder' = [holder EXCEPT ![MyScope(c)] = NoCaller]
  BY DEF AppendFails, Unlock
<1>3. /\ pc' \in [Callers -> {"idle", "wait", "locked", "decide", "resume"}]
      /\ call' \in [Callers -> Call] /\ pc'[c] = "idle"
      /\ \A d \in Callers \ {c} : pc'[d] = pc[d] /\ call'[d] = call[d]
  BY <1>1, <1>2, FinishMove
<1>4. TypeOK'
  BY <1>1, <1>2, <1>3 DEF TypeOK
<1>5. LockInv'
  <2>1. SUFFICES ASSUME NEW d \in Callers, d # c, pc[d] \in {"locked", "decide"}
                 PROVE  holder'[MyScope(d)] = d
    BY <1>3 DEF LockInv, MyScope
  <2>2. holder[MyScope(d)] = d /\ MyScope(d) # MyScope(c)
    BY <1>1, <1>2, <2>1 DEF LockInv
  <2> QED
    BY <1>1, <1>2, <2>2, ScopeType DEF TypeOK
<1>6. CallInv'
  BY <1>1, <1>2, <1>3 DEF CallInv
<1>7. DecideInv'
  BY <1>1, <1>2, <1>3 DEF DecideInv
<1> QED
  BY <1>1, <1>2, <1>4, <1>5, <1>6, <1>7, SameLedger DEF IInv

LEMMA RecheckHoldStep ==
  ASSUME IInv, NEW c \in Callers, RecheckHold(c)
  PROVE  IInv'
<1>1. TypeOK /\ LockInv /\ CallInv /\ DecideInv /\ ParentInv /\ OneTerminalPerHold
  BY DEF IInv
<1>2. PICK h \in DOMAIN ledger :
         call' = [call EXCEPT ![c] =
                     [NoCall EXCEPT !.op = "approve", !.id = h,
                                    !.subj = ledger[h].subj,
                                    !.status = HoldStatus(ledger, h)]]
  BY DEF RecheckHold
<1>3. pc' = [pc EXCEPT ![c] = "resume"] /\ ledger' = ledger /\ holder' = holder
  BY DEF RecheckHold, Goto
<1> DEFINE st == HoldStatus(ledger, h)
<1> DEFINE new == [NoCall EXCEPT !.op = "approve", !.id = h,
                                 !.subj = ledger[h].subj, !.status = st]
<1>4. ledger \in Seq(Record) /\ ledger[h] \in Record /\ h \in Nat
  BY <1>1 DEF TypeOK
<1>5. ledger[h].subj \in Subjects /\ st \in Statuses
  BY <1>4, StatusType DEF Record
<1>6. call' = [call EXCEPT ![c] = new]
  BY <1>2
<1> HIDE DEF st
<1>7. new \in Call /\ new.op = "approve" /\ new.id = h
  BY <1>4, <1>5, NoCallType DEF Call, Ops
<1> HIDE DEF new
<1>8. /\ call' \in [Callers -> Call]
      /\ pc'[c] = "resume" /\ call'[c] = new
      /\ \A d \in Callers \ {c} : pc'[d] = pc[d] /\ call'[d] = call[d]
  BY <1>1, <1>3, <1>6, <1>7, OwnMove
<1>9. TypeOK'
  BY <1>1, <1>3, <1>8 DEF TypeOK
<1>10. LockInv'
  BY <1>1, <1>3, <1>8 DEF LockInv, MyScope
<1>11. CallInv'
  BY <1>1, <1>3, <1>7, <1>8 DEF CallInv, CloseVerbs
<1>12. DecideInv'
  BY <1>1, <1>3, <1>8 DEF DecideInv
<1> QED
  BY <1>1, <1>3, <1>9, <1>10, <1>11, <1>12, SameLedger DEF IInv

\* Damage changes no field that says what closed what.
LEMMA CorruptStep ==
  ASSUME IInv, Corrupt
  PROVE  IInv'
<1>1. TypeOK /\ LockInv /\ CallInv /\ DecideInv /\ ParentInv /\ OneTerminalPerHold
  BY DEF IInv
<1>2. PICK i \in DOMAIN ledger : ledger' = [ledger EXCEPT ![i].ok = FALSE]
  BY DEF Corrupt
<1>3. pc' = pc /\ call' = call /\ holder' = holder
  BY DEF Corrupt
<1>4. ledger \in Seq(Record) /\ ledger[i] \in Record
  BY <1>1 DEF TypeOK
<1> DEFINE new == [ledger[i] EXCEPT !.ok = FALSE]
<1>5. /\ new \in Record /\ new.parent = ledger[i].parent /\ new.rel = ledger[i].rel
      /\ new.verb = ledger[i].verb /\ new.class = ledger[i].class
      /\ new.subj = ledger[i].subj
  BY <1>4 DEF Record
<1>6. ledger' = [ledger EXCEPT ![i] = new]
  BY <1>2
<1> HIDE DEF new
<1>7. /\ ledger' \in Seq(Record) /\ Len(ledger') = Len(ledger)
      /\ DOMAIN ledger' = DOMAIN ledger /\ ledger'[i] = new
      /\ \A j \in DOMAIN ledger : j # i => ledger'[j] = ledger[j]
  BY <1>4, <1>5, <1>6
<1>8. \A j \in DOMAIN ledger :
         /\ ledger'[j].parent = ledger[j].parent /\ ledger'[j].rel = ledger[j].rel
         /\ ledger'[j].verb = ledger[j].verb /\ ledger'[j].class = ledger[j].class
         /\ ledger'[j].subj = ledger[j].subj
  BY <1>5, <1>7
<1>9. \A h : TerminalsOf(ledger', h) = TerminalsOf(ledger, h)
  BY <1>7, <1>8 DEF TerminalsOf, IsTerminal
<1>10. TypeOK'
  BY <1>1, <1>3, <1>7 DEF TypeOK
<1>11. LockInv'
  BY <1>1, <1>3 DEF LockInv, MyScope
<1>12. CallInv'
  BY <1>1, <1>3, <1>7, <1>8 DEF CallInv
<1>13. DecideInv'
  BY <1>1, <1>3, <1>9 DEF DecideInv
<1>14. ParentInv' /\ OneTerminalPerHold'
  BY <1>1, <1>7, <1>8, <1>9 DEF ParentInv, OneTerminalPerHold
<1> QED
  BY <1>10, <1>11, <1>12, <1>13, <1>14 DEF IInv

-----------------------------------------------------------------------------
(* The results.                                                             *)

\* The invariant is inductive: every step of every thread keeps it.
LEMMA NextIInv == IInv /\ [Next]_vars => IInv'
<1> SUFFICES ASSUME IInv, [Next]_vars PROVE IInv'
  OBVIOUS
<1>1. ASSUME NEW c \in Callers, Step(c) PROVE IInv'
  BY <1>1, UnavailableStep, EvaluateStep, CloseStep, EnterStep, ReadAggregateStep,
     ReadStatusStep, AppendReserveStep, AppendCloseStep, AppendFailsStep,
     RecheckHoldStep, SealApprovalStep, SealWithoutHoldStep DEF Step
<1>2. CASE Corrupt
  BY <1>2, CorruptStep
<1>3. CASE UNCHANGED vars
  BY <1>3 DEF vars, IInv, TypeOK, LockInv, CallInv, DecideInv, ParentInv,
     OneTerminalPerHold, TerminalsOf, MyScope
<1> QED
  BY <1>1, <1>2, <1>3 DEF Next, Quiescent

\* Every behaviour keeps the types of the ledger, the locks and the calls.
THEOREM TypeCorrect == Spec => []TypeOK
<1>1. IInv => TypeOK
  BY DEF IInv
<1> QED
  BY <1>1, InitIInv, NextIInv, PTL DEF Spec

\* However many threads race, a hold is closed at most once.
THEOREM ClosedOnce == Spec => []OneTerminalPerHold
<1>1. IInv => OneTerminalPerHold
  BY DEF IInv
<1> QED
  BY <1>1, InitIInv, NextIInv, PTL DEF Spec

-----------------------------------------------------------------------------
(* A closed hold stays closed.                                              *)

\* One ledger continues another when it begins with its records.
Continues(m, l) == Len(l) <= Len(m) /\ \A i \in DOMAIN l : m[i] = l[i]

\* The first terminal record is the earliest one, and more records behind it
\* do not change which one is first.
LEMMA FirstTerminalKept ==
  ASSUME NEW l \in Seq(Record), NEW m \in Seq(Record), Continues(m, l), NEW h \in Nat,
         FirstTerminal(l, h) # 0
  PROVE  FirstTerminal(m, h) = FirstTerminal(l, h)
<1> DEFINE T == TerminalsOf(l, h)
           U == TerminalsOf(m, h)
<1>1. T \subseteq U /\ T \subseteq 1 .. Len(l) /\ U \subseteq 1 .. Len(m) /\ T # {}
  BY DEF TerminalsOf, Continues, FirstTerminal
<1>2. \A i \in U : i \in T \/ i > Len(l)
  BY DEF TerminalsOf, Continues
<1>3. PICK t \in T : \A j \in T : t <= j
  BY <1>1, LeastNat
<1>4. t \in U /\ \A j \in U : t <= j
  BY <1>1, <1>2, <1>3
<1>5. \A k \in T : (\A j \in T : k <= j) => k = t
  BY <1>1, <1>3
<1>6. \A k \in U : (\A j \in U : k <= j) => k = t
  BY <1>1, <1>4
<1>7. FirstTerminal(l, h) = t
  BY <1>1, <1>3, <1>5 DEF FirstTerminal
<1>8. FirstTerminal(m, h) = t
  BY <1>1, <1>4, <1>6 DEF FirstTerminal
<1> QED
  BY <1>7, <1>8

LEMMA ClosedStays ==
  ASSUME NEW l \in Seq(Record), NEW m \in Seq(Record), Continues(m, l),
         NEW h \in DOMAIN l, HoldStatus(l, h) # "active"
  PROVE  HoldStatus(m, h) = HoldStatus(l, h)
<1>1. h \in Nat /\ m[h] = l[h]
  BY DEF Continues
<1>2. CASE ~l[h].ok
  BY <1>1, <1>2 DEF HoldStatus
<1>3. CASE l[h].ok
  <2>1. FirstTerminal(l, h) # 0
    BY <1>3 DEF HoldStatus
  <2>2. FirstTerminal(l, h) \in DOMAIN l
    BY <1>1, <2>1, FirstTerminalIs DEF TerminalsOf
  <2>3. FirstTerminal(m, h) = FirstTerminal(l, h)
    BY <1>1, <2>1, FirstTerminalKept
  <2> QED
    BY <1>1, <2>2, <2>3 DEF HoldStatus, Continues
<1> QED
  BY <1>2, <1>3

\* Damage to one record leaves every status as it was, or makes it ambiguous.
LEMMA DamageOnlyBlurs ==
  ASSUME NEW l \in Seq(Record), NEW i \in DOMAIN l, NEW h \in DOMAIN l,
         HoldStatus(l, h) # "active"
  PROVE  HoldStatus([l EXCEPT ![i].ok = FALSE], h) \in {HoldStatus(l, h), "ambiguous"}
<1> DEFINE m == [l EXCEPT ![i].ok = FALSE]
<1>1. l[i] \in Record /\ h \in Nat
  OBVIOUS
<1>2. /\ DOMAIN m = DOMAIN l
      /\ \A j \in DOMAIN l : /\ m[j].parent = l[j].parent /\ m[j].rel = l[j].rel
                             /\ m[j].verb = l[j].verb
                             /\ m[j].ok => l[j].ok
                             /\ j # i => m[j] = l[j]
  BY <1>1 DEF Record
<1> HIDE DEF m
<1>3. TerminalsOf(m, h) = TerminalsOf(l, h)
  BY <1>2 DEF TerminalsOf, IsTerminal
<1>4. FirstTerminal(m, h) = FirstTerminal(l, h)
  BY <1>3 DEF FirstTerminal
<1>5. FirstTerminal(l, h) # 0 => FirstTerminal(l, h) \in DOMAIN l
  BY <1>1, FirstTerminalIs
<1> DEFINE t == FirstTerminal(l, h)
<1>6. t # 0 => (m[t].verb = l[t].verb /\ (m[t].ok => l[t].ok))
  BY <1>2, <1>5
<1> HIDE DEF t
<1>7. HoldStatus(l, h) = IF ~l[h].ok THEN "ambiguous"
                         ELSE IF t = 0 THEN "active"
                         ELSE IF ~l[t].ok THEN "ambiguous"
                         ELSE StatusOf[l[t].verb]
  BY DEF HoldStatus, t
<1>8. HoldStatus(m, h) = IF ~m[h].ok THEN "ambiguous"
                         ELSE IF t = 0 THEN "active"
                         ELSE IF ~m[t].ok THEN "ambiguous"
                         ELSE StatusOf[m[t].verb]
  BY <1>4 DEF HoldStatus, t
<1>9. m[h].ok => l[h].ok
  BY <1>2
<1>10. HoldStatus(m, h) \in {HoldStatus(l, h), "ambiguous"}
  BY <1>6, <1>7, <1>8, <1>9
<1> QED
  BY <1>10 DEF m

\* What a step does to the ledger: nothing, one more record, or damage.
LEMMA LedgerStep ==
  ASSUME TypeOK, TypeOK', Next
  PROVE  \/ ledger' = ledger
         \/ \E r : ledger' = Append(ledger, r)
         \/ \E i \in DOMAIN ledger : ledger' = [ledger EXCEPT ![i].ok = FALSE]
<1>1. ASSUME NEW c \in Callers, Step(c)
      PROVE  ledger' = ledger \/ \E r : ledger' = Append(ledger, r)
  BY <1>1 DEF Step, EvaluateUnavailable, Evaluate, Close, Enter, ReadAggregate,
     ReadStatus, AppendReserve, AppendClose, AppendFails, RecheckHold,
     SealApproval, SealWithoutHold, Write
<1> QED
  BY <1>1 DEF Next, Corrupt, Quiescent, vars

\* engine.py hold_status, "once closed": whatever is appended and whatever
\* rots, a hold that does not read active never reads active again and never
\* reads as closed another way.
THEOREM ClosedIsFinal == Spec => TerminalIsFinal
<1> DEFINE Final == \A h \in DOMAIN ledger :
                       HoldStatus(ledger, h) # "active" =>
                          HoldStatus(ledger, h)' \in {HoldStatus(ledger, h), "ambiguous"}
<1>1. ASSUME IInv, IInv', [Next]_vars
      PROVE  [Final]_vars
  <2> SUFFICES ASSUME Next, NEW h \in DOMAIN ledger, HoldStatus(ledger, h) # "active"
               PROVE  HoldStatus(ledger', h) \in {HoldStatus(ledger, h), "ambiguous"}
    BY <1>1
  <2>1. TypeOK /\ TypeOK' /\ ledger \in Seq(Record) /\ ledger' \in Seq(Record)
    BY <1>1 DEF IInv, TypeOK
  <2>2. CASE ledger' = ledger
    BY <2>2
  <2>3. CASE \E r : ledger' = Append(ledger, r)
    <3>1. Continues(ledger', ledger)
      BY <2>1, <2>3 DEF Continues
    <3> QED
      BY <2>1, <3>1, ClosedStays
  <2>4. CASE \E i \in DOMAIN ledger : ledger' = [ledger EXCEPT ![i].ok = FALSE]
    BY <2>1, <2>4, DamageOnlyBlurs
  <2> QED
    BY <2>1, <2>2, <2>3, <2>4, LedgerStep
<1>2. IInv /\ [Next]_vars => IInv'
  BY NextIInv
<1> QED
  BY <1>1, <1>2, InitIInv, PTL DEF Spec, TerminalIsFinal

-----------------------------------------------------------------------------
(* Sums.  Each of these is an induction on n, as the absence of a least     *)
(* counterexample.                                                          *)

IsSum(g, f, n) == g = [k \in 0 .. n |-> IF k = 0 THEN 0 ELSE g[k - 1] + f[k]]

LEMMA SumExists ==
  ASSUME NEW f, NEW n \in Nat
  PROVE  \E g : IsSum(g, f, n)
<1> DEFINE Bad == {m \in Nat : ~ \E g : IsSum(g, f, m)}
<1>1. SUFFICES ASSUME Bad # {} PROVE FALSE
  OBVIOUS
<1>2. PICK m \in Bad : \A j \in Bad : m <= j
  <2>1. Bad \subseteq Nat
    OBVIOUS
  <2> HIDE DEF Bad
  <2> QED
    BY <1>1, <2>1, LeastNat
<1>3. CASE m = 0
  <2> DEFINE g == [k \in 0 .. 0 |-> 0]
  <2>1. g = [k \in 0 .. 0 |-> IF k = 0 THEN 0 ELSE g[k - 1] + f[k]]
    OBVIOUS
  <2> QED
    BY <1>3, <2>1 DEF IsSum
<1>4. CASE m # 0
  <2>1. m \in Nat /\ m - 1 \in Nat /\ ~(m <= m - 1)
    BY <1>4
  <2>2. PICK g : IsSum(g, f, m - 1)
    BY <1>2, <2>1
  <2> DEFINE h == [k \in 0 .. m |-> IF k = m THEN g[m - 1] + f[m] ELSE g[k]]
  <2>3. ASSUME NEW k \in 0 .. m
        PROVE  h[k] = IF k = 0 THEN 0 ELSE h[k - 1] + f[k]
    <3>1. CASE k = 0
      <4>1. h[k] = g[0]
        BY <1>4, <2>1, <3>1
      <4>2. 0 \in 0 .. (m - 1)
        BY <2>1
      <4> QED
        BY <2>2, <3>1, <4>1, <4>2 DEF IsSum
    <3>2. CASE k # 0 /\ k # m
      <4>1. k \in 0 .. (m - 1) /\ k - 1 \in 0 .. m /\ k - 1 # m
        BY <2>1, <3>2
      <4>2. h[k] = g[k] /\ h[k - 1] = g[k - 1]
        BY <3>2, <4>1
      <4> QED
        BY <2>2, <3>2, <4>1, <4>2 DEF IsSum
    <3>3. CASE k = m
      <4>1. m - 1 \in 0 .. m /\ m - 1 # m
        BY <2>1
      <4> QED
        BY <1>4, <3>3, <4>1
    <3> QED
      BY <3>1, <3>2, <3>3
  <2>4. h = [k \in 0 .. m |-> IF k = 0 THEN 0 ELSE h[k - 1] + f[k]]
    BY <2>3
  <2> HIDE DEF h
  <2>5. IsSum(h, f, m)
    BY <2>4 DEF IsSum
  <2> QED
    BY <2>5
<1> QED
  BY <1>3, <1>4

\* Two sums over the same first terms agree, and are integers.
LEMMA SumsAgree ==
  ASSUME NEW n \in Nat, NEW m \in Nat, NEW f, NEW e, NEW g, NEW h,
         IsSum(g, f, n), IsSum(h, e, m),
         NEW k \in 0 .. n, k <= m, \A j \in 1 .. k : f[j] = e[j] /\ f[j] \in Int
  PROVE  g[k] = h[k] /\ g[k] \in Int
<1> DEFINE Bad == {j \in 0 .. k : ~(g[j] = h[j] /\ g[j] \in Int)}
<1>1. SUFFICES ASSUME Bad # {} PROVE FALSE
  OBVIOUS
<1>2. PICK j \in Bad : \A i \in Bad : j <= i
  <2>1. Bad \subseteq Nat
    OBVIOUS
  <2> HIDE DEF Bad
  <2> QED
    BY <1>1, <2>1, LeastNat
<1>3. j \in 0 .. n /\ j \in 0 .. m /\ j \in 0 .. k
  OBVIOUS
<1>4. /\ g[j] = IF j = 0 THEN 0 ELSE g[j - 1] + f[j]
      /\ h[j] = IF j = 0 THEN 0 ELSE h[j - 1] + e[j]
  BY <1>3 DEF IsSum
<1>5. CASE j = 0
  BY <1>4, <1>5
<1>6. CASE j # 0
  <2>1. j - 1 \in 0 .. k /\ ~(j <= j - 1) /\ j \in 1 .. k
    BY <1>3, <1>6
  <2>2. g[j - 1] = h[j - 1] /\ g[j - 1] \in Int
    BY <1>2, <2>1
  <2> QED
    BY <1>4, <1>6, <2>1, <2>2
<1> QED
  BY <1>5, <1>6

LEMMA TotalIs ==
  ASSUME NEW f, NEW n \in Nat
  PROVE  \E g : IsSum(g, f, n) /\ Total(f, n) = g[n]
<1> DEFINE sum == CHOOSE g : g = [k \in 0 .. n |-> IF k = 0 THEN 0 ELSE g[k - 1] + f[k]]
<1>1. \E g : g = [k \in 0 .. n |-> IF k = 0 THEN 0 ELSE g[k - 1] + f[k]]
  BY SumExists DEF IsSum
<1>2. sum = [k \in 0 .. n |-> IF k = 0 THEN 0 ELSE sum[k - 1] + f[k]]
  BY <1>1
<1>3. Total(f, n) = sum[n]
  BY DEF Total
<1> HIDE DEF sum
<1> QED
  BY <1>2, <1>3 DEF IsSum

\* The same terms have the same total.
LEMMA TotalSame ==
  ASSUME NEW n \in Nat, NEW f, NEW e, \A j \in 1 .. n : f[j] = e[j] /\ f[j] \in Int
  PROVE  Total(f, n) = Total(e, n) /\ Total(f, n) \in Int
<1>1. PICK g : IsSum(g, f, n) /\ Total(f, n) = g[n]
  BY TotalIs
<1>2. PICK h : IsSum(h, e, n) /\ Total(e, n) = h[n]
  BY TotalIs
<1>3. n \in 0 .. n /\ n <= n
  OBVIOUS
<1> QED
  BY <1>1, <1>2, <1>3, SumsAgree

\* One more term at the end.
LEMMA TotalStep ==
  ASSUME NEW n \in Nat, NEW f, NEW e, \A j \in 1 .. n : f[j] = e[j] /\ f[j] \in Int
  PROVE  Total(f, n + 1) = Total(e, n) + f[n + 1]
<1>1. PICK g : IsSum(g, f, n + 1) /\ Total(f, n + 1) = g[n + 1]
  BY TotalIs
<1>2. PICK h : IsSum(h, e, n) /\ Total(e, n) = h[n]
  BY TotalIs
<1>3. n \in 0 .. (n + 1) /\ n <= n /\ n + 1 \in Nat
  OBVIOUS
<1>4. g[n] = h[n]
  BY <1>1, <1>2, <1>3, SumsAgree
<1>5. g[n + 1] = g[(n + 1) - 1] + f[n + 1]
  BY <1>1 DEF IsSum
<1>6. (n + 1) - 1 = n
  OBVIOUS
<1> QED
  BY <1>1, <1>2, <1>4, <1>5, <1>6

\* One term changed.
LEMMA TotalChange ==
  ASSUME NEW n \in Nat, NEW f, NEW e, NEW h \in 1 .. n,
         \A j \in 1 .. n : f[j] \in Int /\ e[j] \in Int /\ (j # h => f[j] = e[j])
  PROVE  Total(f, n) = Total(e, n) + (f[h] - e[h])
<1> DEFINE d(k) == IF k >= h THEN f[h] - e[h] ELSE 0
           Bad == {k \in 0 .. n : Total(f, k) # Total(e, k) + d(k)}
<1>1. SUFFICES ASSUME Bad # {} PROVE FALSE
  OBVIOUS
<1>2. PICK k \in Bad : \A i \in Bad : k <= i
  <2>1. Bad \subseteq Nat
    OBVIOUS
  <2> HIDE DEF Bad
  <2> QED
    BY <1>1, <2>1, LeastNat
<1>3. k \in Nat /\ k <= n
  OBVIOUS
<1>4. \A j \in 1 .. k : f[j] \in Int /\ e[j] \in Int
  BY <1>3
<1>5. CASE k = 0
  <2>1. Total(f, 0) = Total(e, 0) /\ Total(f, 0) \in Int
    BY TotalSame
  <2> QED
    BY <1>5, <2>1
<1>6. CASE k # 0
  <2> DEFINE m == k - 1
  <2>1. m \in Nat /\ m \in 0 .. n /\ ~(k <= m) /\ m + 1 = k /\ k \in 1 .. n
    BY <1>3, <1>6
  <2>2. Total(f, m) = Total(e, m) + d(m)
    BY <1>2, <2>1
  <2>3. \A j \in 1 .. m : f[j] \in Int /\ e[j] \in Int
    BY <1>4, <2>1
  <2>4. Total(f, m) \in Int /\ Total(e, m) \in Int
    BY <2>1, <2>3, TotalSame
  <2>5. Total(f, k) = Total(f, m) + f[k] /\ Total(e, k) = Total(e, m) + e[k]
    <3>1. Total(f, m + 1) = Total(f, m) + f[m + 1]
      BY <2>1, <2>3, TotalStep
    <3>2. Total(e, m + 1) = Total(e, m) + e[m + 1]
      BY <2>1, <2>3, TotalStep
    <3> QED
      BY <2>1, <3>1, <3>2
  <2>6. f[k] \in Int /\ e[k] \in Int /\ f[h] \in Int /\ e[h] \in Int
    BY <2>1
  <2>7. d(k) = d(m) + (f[k] - e[k])
    <3>1. CASE k = h
      BY <2>1, <2>6, <3>1
    <3>2. CASE k # h
      BY <2>1, <2>6, <3>2
    <3> QED
      BY <3>1, <3>2
  <2>8. d(m) \in Int
    BY <2>6
  <2> HIDE DEF d, m
  <2>9. Total(f, k) = Total(e, k) + d(k)
    BY <2>2, <2>4, <2>5, <2>6, <2>7, <2>8
  <2> QED
    BY <2>9
<1> QED
  BY <1>5, <1>6

\* A sum of naturals is a natural.
LEMMA TotalIsNat ==
  ASSUME NEW n \in Nat, NEW f, \A j \in 1 .. n : f[j] \in Nat
  PROVE  Total(f, n) \in Nat
<1> DEFINE Bad == {k \in 0 .. n : Total(f, k) \notin Nat}
<1>1. SUFFICES ASSUME Bad # {} PROVE FALSE
  OBVIOUS
<1>2. PICK k \in Bad : \A i \in Bad : k <= i
  <2>1. Bad \subseteq Nat
    OBVIOUS
  <2> HIDE DEF Bad
  <2> QED
    BY <1>1, <2>1, LeastNat
<1>3. PICK g : IsSum(g, f, k) /\ Total(f, k) = g[k]
  BY TotalIs
<1>4. CASE k = 0
  BY <1>3, <1>4 DEF IsSum
<1>5. CASE k # 0
  <2>1. k - 1 \in 0 .. n /\ ~(k <= k - 1) /\ k \in 1 .. n /\ (k - 1) + 1 = k /\ k - 1 \in Nat
    BY <1>5
  <2>2. Total(f, k - 1) \in Nat
    BY <1>2, <2>1
  <2>3. \A j \in 1 .. (k - 1) : f[j] \in Int
    BY <2>1
  <2>4. Total(f, (k - 1) + 1) = Total(f, k - 1) + f[(k - 1) + 1]
    BY <2>1, <2>3, TotalStep
  <2> QED
    BY <2>1, <2>2, <2>4
<1> QED
  BY <1>4, <1>5

-----------------------------------------------------------------------------
(* The aggregate.  ETerms, STerms and OTerms are what ActiveExposure,       *)
(* SettledSum and Overrun add up.                                           *)

\* Records chain backwards.
Backwards(l) == \A i \in DOMAIN l : l[i].parent < i

ETerms(l, s, cls) ==
    [i \in DOMAIN l |-> IF Counted(l, i, s, cls) THEN l[i].amount ELSE 0]

STerms(cls, s) ==
    [h \in DOMAIN ledger |-> IF IsReserve(h, cls, s) THEN SettledValue(h) ELSE 0]

OTerms(cls, s) ==
    [h \in DOMAIN ledger |->
        IF IsReserve(h, cls, s) /\ SettledValue(h) > ledger[h].reserved
        THEN Tolerance[cls] ELSE 0]

LEMMA SumsOfTerms ==
  /\ \A l, s, cls : ActiveExposure(l, s, cls) = Total(ETerms(l, s, cls), Len(l))
  /\ \A cls, s : SettledSum(cls, s) = Total(STerms(cls, s), Len(ledger))
  /\ \A cls, s : Overrun(cls, s) = Total(OTerms(cls, s), Len(ledger))
  BY DEF ActiveExposure, SettledSum, Overrun, ETerms, STerms, OTerms

LEMMA ExposureType ==
  ASSUME NEW l \in Seq(Record), NEW s, NEW cls
  PROVE  /\ \A i \in 1 .. Len(l) : ETerms(l, s, cls)[i] \in Int
         /\ ActiveExposure(l, s, cls) \in Int
<1>1. \A i \in 1 .. Len(l) : l[i] \in Record
  OBVIOUS
<1>2. \A i \in 1 .. Len(l) : ETerms(l, s, cls)[i] \in Int
  BY <1>1 DEF ETerms, Record
<1>3. Len(l) \in Nat
  OBVIOUS
<1> QED
  BY <1>2, <1>3, TotalSame, SumsOfTerms

\* A record counts the same in every ledger that continues this one.
LEMMA CountedKept ==
  ASSUME NEW l \in Seq(Record), NEW m \in Seq(Record), Continues(m, l), Backwards(l),
         NEW i \in DOMAIN l, NEW s, NEW cls
  PROVE  Counted(m, i, s, cls) <=> Counted(l, i, s, cls)
<1>1. l[i] \in Record /\ m[i] = l[i]
  BY DEF Continues
<1>2. l[i].parent \in Nat /\ l[i].parent < i
  BY <1>1 DEF Record, Backwards
<1>3. l[i].parent # 0 => m[l[i].parent] = l[l[i].parent]
  BY <1>2 DEF Continues
<1>4. RecordClass(m, i) = RecordClass(l, i)
  BY <1>1, <1>3 DEF RecordClass
<1> QED
  BY <1>1, <1>4 DEF Counted

\* One more record adds its amount when it counts.
LEMMA ExposureOfAppend ==
  ASSUME NEW l \in Seq(Record), Backwards(l), NEW r \in Record, NEW s, NEW cls
  PROVE  ActiveExposure(Append(l, r), s, cls)
            = ActiveExposure(l, s, cls)
              + (IF Counted(Append(l, r), Len(l) + 1, s, cls) THEN r.amount ELSE 0)
<1> DEFINE m == Append(l, r)
           n == Len(l)
<1>1. /\ m \in Seq(Record) /\ Len(m) = n + 1 /\ n \in Nat /\ m[n + 1] = r
      /\ Continues(m, l) /\ DOMAIN l = 1 .. n /\ DOMAIN m = 1 .. n + 1
  BY AppendFacts DEF Continues
<1> HIDE DEF m
<1>2. \A i \in 1 .. n : Counted(m, i, s, cls) <=> Counted(l, i, s, cls)
  BY <1>1, CountedKept
<1>3. \A i \in 1 .. n : ETerms(m, s, cls)[i] = ETerms(l, s, cls)[i]
  BY <1>1, <1>2 DEF ETerms, Continues
<1>4. \A i \in 1 .. n : ETerms(l, s, cls)[i] \in Int
  BY ExposureType
<1>5. ETerms(m, s, cls)[n + 1] = IF Counted(m, n + 1, s, cls) THEN r.amount ELSE 0
  BY <1>1 DEF ETerms
<1>6. Total(ETerms(m, s, cls), n + 1) = Total(ETerms(l, s, cls), n) + ETerms(m, s, cls)[n + 1]
  BY <1>1, <1>3, <1>4, TotalStep
<1>7. ActiveExposure(m, s, cls) = ActiveExposure(l, s, cls) + ETerms(m, s, cls)[n + 1]
  BY <1>1, <1>6, SumsOfTerms
<1> QED
  BY <1>5, <1>7 DEF m

\* Two ledgers differ at most in what no longer verifies.
SameBooks(m, l) ==
    /\ Len(m) = Len(l) /\ DOMAIN m = DOMAIN l
    /\ \A i \in DOMAIN l :
          /\ m[i].verb = l[i].verb /\ m[i].accept = l[i].accept
          /\ m[i].class = l[i].class /\ m[i].subj = l[i].subj
          /\ m[i].amount = l[i].amount /\ m[i].reserved = l[i].reserved
          /\ m[i].executed = l[i].executed
          /\ m[i].parent = l[i].parent /\ m[i].rel = l[i].rel

LEMMA ExposureOfBooks ==
  ASSUME NEW l \in Seq(Record), NEW m \in Seq(Record), SameBooks(m, l), Backwards(l),
         NEW s, NEW cls
  PROVE  ActiveExposure(m, s, cls) = ActiveExposure(l, s, cls)
<1>1. Len(l) \in Nat /\ DOMAIN l = 1 .. Len(l) /\ Len(m) = Len(l) /\ DOMAIN m = DOMAIN l
  BY DEF SameBooks
<1>2. ASSUME NEW i \in 1 .. Len(l)
      PROVE  ETerms(m, s, cls)[i] = ETerms(l, s, cls)[i]
  <2>1. l[i] \in Record
    OBVIOUS
  <2>2. l[i].parent \in Nat /\ l[i].parent < i
    BY <1>1, <2>1 DEF Record, Backwards
  <2>3. l[i].parent # 0 => l[i].parent \in DOMAIN l
    BY <1>1, <2>2
  <2>4. RecordClass(m, i) = RecordClass(l, i)
    BY <1>1, <2>3 DEF SameBooks, RecordClass
  <2>5. Counted(m, i, s, cls) <=> Counted(l, i, s, cls)
    BY <1>1, <2>4 DEF SameBooks, Counted
  <2> QED
    BY <1>1, <2>5 DEF SameBooks, ETerms
<1>3. \A i \in 1 .. Len(l) : ETerms(l, s, cls)[i] \in Int
  BY ExposureType
<1>4. Total(ETerms(l, s, cls), Len(l)) = Total(ETerms(m, s, cls), Len(l))
  BY <1>1, <1>2, <1>3, TotalSame
<1> QED
  BY <1>1, <1>4, SumsOfTerms

LEMMA SettledType ==
  ASSUME TypeOK, NEW cls, NEW s
  PROVE  /\ \A h \in 1 .. Len(ledger) : SettledValue(h) \in Int /\ ledger[h].reserved \in Int
         /\ \A h \in 1 .. Len(ledger) : STerms(cls, s)[h] \in Int
         /\ SettledSum(cls, s) \in Int
<1>1. ledger \in Seq(Record) /\ Len(ledger) \in Nat
  BY DEF TypeOK
<1>2. \A h \in 1 .. Len(ledger) : /\ ledger[h].reserved \in Int /\ ledger[h].executed \in Int
                                  /\ h \in Nat
  <2>1. \A h \in 1 .. Len(ledger) : ledger[h] \in Record
    BY <1>1
  <2> QED
    BY <2>1 DEF Record
<1>3. ASSUME NEW h \in 1 .. Len(ledger)
      PROVE  SettledValue(h) \in Int
  <2>1. FirstTerminal(ledger, h) \in 0 .. Len(ledger)
    BY <1>1, FirstTerminalIs
  <2>2. FirstTerminal(ledger, h) # 0 => FirstTerminal(ledger, h) \in 1 .. Len(ledger)
    BY <1>1, <2>1
  <2> QED
    BY <1>2, <2>2 DEF SettledValue
<1>4. \A h \in 1 .. Len(ledger) : STerms(cls, s)[h] \in Int
  BY <1>1, <1>3 DEF STerms
<1> QED
  BY <1>1, <1>2, <1>3, <1>4, TotalSame, SumsOfTerms

LEMMA OverrunType ==
  ASSUME TypeOK, NEW cls \in Classes, NEW s
  PROVE  /\ \A h \in 1 .. Len(ledger) : OTerms(cls, s)[h] \in Nat
         /\ Overrun(cls, s) \in Nat
<1>1. ledger \in Seq(Record) /\ Len(ledger) \in Nat /\ Tolerance[cls] \in Nat
  BY HoldsAssumption DEF TypeOK
<1>2. \A h \in 1 .. Len(ledger) : OTerms(cls, s)[h] \in Nat
  BY <1>1 DEF OTerms
<1> QED
  BY <1>1, <1>2, TotalIsNat, SumsOfTerms

-----------------------------------------------------------------------------
(* What one record changes in the three sums of a capped scope.             *)

\* The exposure and the settled sum move together, by d; the overrun by o.
Moves(cls, s, d, o) ==
    /\ ActiveExposure(ledger, s, cls)' = ActiveExposure(ledger, s, cls) + d
    /\ SettledSum(cls, s)' = SettledSum(cls, s) + d
    /\ Overrun(cls, s)' = Overrun(cls, s) + o

\* The value of a hold changes only when its terminal record arrives.
LEMMA ValuesAfterAppend ==
  ASSUME TypeOK, Backwards(ledger), NEW r \in Record, r.parent <= Len(ledger),
         ledger' = Append(ledger, r), NEW n \in Nat, n = Len(ledger)
  PROVE  /\ ledger' \in Seq(Record) /\ Len(ledger)' = n + 1
         /\ \A h \in 1 .. n :
               /\ ledger'[h] = ledger[h]
               /\ ~IsTerminal(r, h) => SettledValue(h)' = SettledValue(h)
               /\ (IsTerminal(r, h) /\ TerminalsOf(ledger, h) = {}) =>
                     /\ SettledValue(h) = ledger[h].reserved
                     /\ SettledValue(h)' = IF r.verb = "reconcile" THEN r.executed ELSE 0
         /\ ledger'[n + 1] = r
         /\ SettledValue(n + 1)' = r.reserved
<1>1. /\ ledger \in Seq(Record) /\ ledger' \in Seq(Record) /\ n \in Nat
      /\ Len(ledger') = n + 1 /\ DOMAIN ledger = 1 .. n
      /\ \A h \in 1 .. n : ledger'[h] = ledger[h]
      /\ ledger'[n + 1] = r /\ Continues(ledger', ledger)
  BY AppendFacts DEF TypeOK, Continues
<1>2. \A h : TerminalsOf(ledger', h)
               = TerminalsOf(ledger, h) \cup (IF IsTerminal(r, h) THEN {n + 1} ELSE {})
  BY <1>1, AppendTerminals
<1>3. ASSUME NEW h \in 1 .. n, ~IsTerminal(r, h)
      PROVE  SettledValue(h)' = SettledValue(h)
  <2>1. TerminalsOf(ledger', h) = TerminalsOf(ledger, h)
    BY <1>2, <1>3
  <2>2. FirstTerminal(ledger', h) = FirstTerminal(ledger, h)
    BY <2>1 DEF FirstTerminal
  <2>3. FirstTerminal(ledger, h) # 0 => FirstTerminal(ledger, h) \in 1 .. n
    BY <1>1, FirstTerminalIs
  <2> QED
    BY <1>1, <2>2, <2>3 DEF SettledValue
<1>4. ASSUME NEW h \in 1 .. n, IsTerminal(r, h), TerminalsOf(ledger, h) = {}
      PROVE  /\ SettledValue(h) = ledger[h].reserved
             /\ SettledValue(h)' = IF r.verb = "reconcile" THEN r.executed ELSE 0
  <2>1. FirstTerminal(ledger, h) = 0
    BY <1>4 DEF FirstTerminal
  <2>2. TerminalsOf(ledger', h) = {n + 1}
    BY <1>2, <1>4
  <2>3. FirstTerminal(ledger', h) = n + 1
    <3>1. h \in Nat
      OBVIOUS
    <3> QED
      BY <1>1, <2>2, <3>1, FirstTerminalIs
  <2>4. n + 1 # 0
    BY <1>1
  <2> QED
    BY <1>1, <2>1, <2>3, <2>4 DEF SettledValue
<1>5. SettledValue(n + 1)' = r.reserved
  <2>1. r.parent \in Nat /\ \A i \in 1 .. n : ledger[i].parent < i
    BY <1>1 DEF Record, Backwards
  <2>2. ~IsTerminal(r, n + 1)
    BY <1>1, <2>1 DEF IsTerminal
  <2>3. \A i \in 1 .. n : ledger[i].parent # n + 1
    <3>1. \A i \in 1 .. n : ledger[i] \in Record
      BY <1>1
    <3>2. \A i \in 1 .. n : ledger[i].parent \in Nat
      BY <3>1 DEF Record
    <3> QED
      BY <1>1, <2>1, <3>2
  <2>4. TerminalsOf(ledger, n + 1) = {}
    BY <1>1, <2>3 DEF TerminalsOf, IsTerminal
  <2>5. TerminalsOf(ledger', n + 1) = {}
    BY <1>2, <2>2, <2>4
  <2>6. FirstTerminal(ledger', n + 1) = 0
    BY <2>5 DEF FirstTerminal
  <2> QED
    BY <1>1, <2>6 DEF SettledValue
<1> QED
  BY <1>1, <1>3, <1>4, <1>5

\* A record that neither counts, reserves nor closes.
LEMMA QuietRecord ==
  ASSUME TypeOK, Backwards(ledger), NEW r \in Record, r.parent <= Len(ledger),
         ledger' = Append(ledger, r),
         r.verb # "reserve", ~r.accept \/ r.verb \notin HoldVerbs,
         \A h \in DOMAIN ledger : ~IsTerminal(r, h),
         NEW cls \in Classes, NEW s
  PROVE  Moves(cls, s, 0, 0)
<1>0. PICK n \in Nat : n = Len(ledger)
  BY DEF TypeOK
<1>1. ledger \in Seq(Record) /\ n = Len(ledger) /\ DOMAIN ledger = 1 .. n
  BY <1>0 DEF TypeOK
<1>2. /\ ledger' \in Seq(Record) /\ Len(ledger') = n + 1 /\ DOMAIN ledger' = 1 .. n + 1
      /\ ledger'[n + 1] = r
      /\ \A h \in 1 .. n : ledger'[h] = ledger[h] /\ SettledValue(h)' = SettledValue(h)
  BY <1>1, ValuesAfterAppend
<1>3. \A h \in 1 .. n : IsReserve(h, cls, s)' <=> IsReserve(h, cls, s)
  BY <1>2 DEF IsReserve
<1>4. ~IsReserve(n + 1, cls, s)'
  BY <1>2 DEF IsReserve
<1>5. ~Counted(ledger', n + 1, s, cls)
  BY <1>2 DEF Counted
<1>6. ActiveExposure(ledger', s, cls) = ActiveExposure(ledger, s, cls) + 0
  BY <1>1, <1>5, ExposureOfAppend
<1>7. SettledSum(cls, s)' = SettledSum(cls, s) + 0
  <2>1. \A h \in 1 .. n : STerms(cls, s)'[h] = STerms(cls, s)[h] /\ STerms(cls, s)[h] \in Int
    BY <1>1, <1>2, <1>3, SettledType DEF STerms
  <2>2. STerms(cls, s)'[n + 1] = 0
    BY <1>1, <1>2, <1>4 DEF STerms
  <2>3. Total(STerms(cls, s)', n + 1) = Total(STerms(cls, s), n) + STerms(cls, s)'[n + 1]
    BY <1>1, <2>1, TotalStep
  <2>4. SettledSum(cls, s)' = Total(STerms(cls, s)', n + 1)
    BY <1>2 DEF SettledSum, STerms
  <2> QED
    BY <1>1, <2>2, <2>3, <2>4, SumsOfTerms
<1>8. Overrun(cls, s)' = Overrun(cls, s) + 0
  <2>1. \A h \in 1 .. n : OTerms(cls, s)'[h] = OTerms(cls, s)[h]
    BY <1>1, <1>2, <1>3 DEF OTerms
  <2>2. \A h \in 1 .. n : OTerms(cls, s)[h] \in Int
    BY <1>1, OverrunType
  <2>3. OTerms(cls, s)'[n + 1] = 0
    BY <1>1, <1>2, <1>4 DEF OTerms
  <2>4. Total(OTerms(cls, s)', n + 1) = Total(OTerms(cls, s), n) + OTerms(cls, s)'[n + 1]
    BY <1>1, <2>1, <2>2, TotalStep
  <2>5. Overrun(cls, s)' = Total(OTerms(cls, s)', n + 1)
    BY <1>2 DEF Overrun, OTerms
  <2> QED
    BY <1>1, <2>3, <2>4, <2>5, SumsOfTerms
<1> QED
  BY <1>6, <1>7, <1>8 DEF Moves

\* A reservation adds its amount to its own scope, settled and exposed.
LEMMA ReserveRecordMoves ==
  ASSUME TypeOK, Backwards(ledger), NEW k \in AnyClass, NEW t \in Subjects, NEW amt \in Nat,
         ledger' = Append(ledger, ReserveRecord(k, t, amt)),
         NEW cls \in Classes, NEW s
  PROVE  Moves(cls, s, IF k = cls /\ t = s THEN amt ELSE 0, 0)
<1>0. PICK n \in Nat : n = Len(ledger)
  BY DEF TypeOK
<1> DEFINE r == ReserveRecord(k, t, amt)
           d == IF k = cls /\ t = s THEN amt ELSE 0
<1>1. ledger \in Seq(Record) /\ n = Len(ledger) /\ DOMAIN ledger = 1 .. n
  BY <1>0 DEF TypeOK
<1>2. /\ r \in Record /\ r.parent = 0 /\ r.verb = "reserve" /\ r.accept /\ r.class = k
      /\ r.subj = t /\ r.amount = amt /\ r.reserved = amt /\ \A h : ~IsTerminal(r, h)
  <2>1. amt \in Int
    OBVIOUS
  <2> QED
    BY <2>1, ReserveIs DEF ReserveRecord
<1> HIDE DEF r
<1>3. r.parent <= n /\ ledger' = Append(ledger, r)
  BY <1>1, <1>2 DEF r
<1>4. /\ ledger' \in Seq(Record) /\ Len(ledger') = n + 1 /\ DOMAIN ledger' = 1 .. n + 1
      /\ ledger'[n + 1] = r /\ SettledValue(n + 1)' = amt
      /\ \A h \in 1 .. n : ledger'[h] = ledger[h] /\ SettledValue(h)' = SettledValue(h)
  BY <1>1, <1>2, <1>3, ValuesAfterAppend
<1>5. \A h \in 1 .. n : IsReserve(h, cls, s)' <=> IsReserve(h, cls, s)
  BY <1>4 DEF IsReserve
<1>6. IsReserve(n + 1, cls, s)' <=> (k = cls /\ t = s)
  BY <1>2, <1>4 DEF IsReserve
<1>7. Counted(ledger', n + 1, s, cls) <=> (k = cls /\ t = s)
  <2>1. cls # NoClass /\ "reserve" \in HoldVerbs
    BY HoldsAssumption DEF HoldVerbs
  <2> QED
    BY <1>2, <1>4, <2>1 DEF Counted, RecordClass
<1>8. ActiveExposure(ledger', s, cls) = ActiveExposure(ledger, s, cls) + d
  BY <1>1, <1>2, <1>3, <1>7, ExposureOfAppend
<1>9. SettledSum(cls, s)' = SettledSum(cls, s) + d
  <2>1. \A h \in 1 .. n : STerms(cls, s)'[h] = STerms(cls, s)[h] /\ STerms(cls, s)[h] \in Int
    BY <1>1, <1>4, <1>5, SettledType DEF STerms
  <2>2. STerms(cls, s)'[n + 1] = d
    BY <1>1, <1>4, <1>6 DEF STerms
  <2>3. Total(STerms(cls, s)', n + 1) = Total(STerms(cls, s), n) + STerms(cls, s)'[n + 1]
    BY <1>1, <2>1, TotalStep
  <2>4. SettledSum(cls, s)' = Total(STerms(cls, s)', n + 1)
    BY <1>4 DEF SettledSum, STerms
  <2> QED
    BY <1>1, <2>2, <2>3, <2>4, SumsOfTerms
<1>10. Overrun(cls, s)' = Overrun(cls, s) + 0
  <2>1. \A h \in 1 .. n : OTerms(cls, s)'[h] = OTerms(cls, s)[h]
    BY <1>1, <1>4, <1>5 DEF OTerms
  <2>2. \A h \in 1 .. n : OTerms(cls, s)[h] \in Int
    BY <1>1, OverrunType
  <2>3. OTerms(cls, s)'[n + 1] = 0
    BY <1>1, <1>2, <1>4 DEF OTerms
  <2>4. Total(OTerms(cls, s)', n + 1) = Total(OTerms(cls, s), n) + OTerms(cls, s)'[n + 1]
    BY <1>1, <2>1, <2>2, TotalStep
  <2>5. Overrun(cls, s)' = Total(OTerms(cls, s)', n + 1)
    BY <1>4 DEF Overrun, OTerms
  <2> QED
    BY <1>1, <2>3, <2>4, <2>5, SumsOfTerms
<1> QED
  BY <1>8, <1>9, <1>10 DEF Moves

\* A terminal record brings its hold to the value it settles at: in the hold's
\* own scope by the difference to the reservation, in no other at all.
LEMMA CloseRecordMoves ==
  ASSUME TypeOK, Backwards(ledger), NEW r \in Record, r.parent <= Len(ledger),
         ledger' = Append(ledger, r),
         NEW h \in DOMAIN ledger, IsTerminal(r, h), TerminalsOf(ledger, h) = {},
         r.accept, r.subj = ledger[h].subj, ledger[h].verb = "reserve" => ledger[h].accept,
         NEW v \in Int, v = (IF r.verb = "reconcile" THEN r.executed ELSE 0),
         r.amount = v - ledger[h].reserved,
         NEW cls \in Classes, NEW s
  PROVE  Moves(cls, s, IF IsReserve(h, cls, s) THEN v - ledger[h].reserved ELSE 0,
                       IF IsReserve(h, cls, s) /\ v > ledger[h].reserved
                       THEN Tolerance[cls] ELSE 0)
<1>0. PICK n \in Nat : n = Len(ledger)
  BY DEF TypeOK
<1>a. PICK x \in Int : x = ledger[h].reserved
  <2>1. ledger[h] \in Record
    BY DEF TypeOK
  <2> QED
    BY <2>1 DEF Record
<1>b. PICK own \in BOOLEAN : own = IsReserve(h, cls, s)
  BY DEF IsReserve
<1> DEFINE d == IF own THEN v - x ELSE 0
           o == IF own /\ v > x THEN Tolerance[cls] ELSE 0
<1>1. ledger \in Seq(Record) /\ n = Len(ledger) /\ DOMAIN ledger = 1 .. n
  BY <1>0 DEF TypeOK
<1>2. /\ ledger' \in Seq(Record) /\ Len(ledger') = n + 1 /\ DOMAIN ledger' = 1 .. n + 1
      /\ ledger'[n + 1] = r /\ SettledValue(n + 1)' = r.reserved
      /\ \A k \in 1 .. n : ledger'[k] = ledger[k]
      /\ \A k \in 1 .. n : k # h => SettledValue(k)' = SettledValue(k)
      /\ SettledValue(h) = x /\ SettledValue(h)' = v
  <2>1. \A k \in 1 .. n : k # h => ~IsTerminal(r, k)
    BY DEF IsTerminal
  <2> QED
    BY <1>1, <1>a, <2>1, ValuesAfterAppend
<1>3. r.verb \in CloseVerbs /\ r.verb # "reserve" /\ r.parent = h /\ r.verb \in HoldVerbs
  BY DEF IsTerminal, CloseVerbs, HoldVerbs
<1>4. \A k \in 1 .. n : IsReserve(k, cls, s)' <=> IsReserve(k, cls, s)
  BY <1>2 DEF IsReserve
<1>5. ~IsReserve(n + 1, cls, s)'
  BY <1>2, <1>3 DEF IsReserve
<1>6. Counted(ledger', n + 1, s, cls) <=> own
  <2>1. cls # NoClass /\ h # 0 /\ ledger'[h] = ledger[h]
    BY <1>1, <1>2, HoldsAssumption
  <2>2. RecordClass(ledger', n + 1) = IF ledger[h].verb = "reserve" THEN ledger[h].class
                                                                    ELSE NoClass
    BY <1>2, <1>3, <2>1 DEF RecordClass
  <2> QED
    BY <1>2, <1>3, <1>b, <2>1, <2>2 DEF Counted, IsReserve
<1>7. ActiveExposure(ledger', s, cls) = ActiveExposure(ledger, s, cls) + d
  BY <1>1, <1>6, <1>a, ExposureOfAppend
<1>8. SettledSum(cls, s)' = SettledSum(cls, s) + d
  <2> DEFINE f == STerms(cls, s)
             g == STerms(cls, s)'
  <2>1. \A k \in 1 .. n : f[k] \in Int /\ (k # h => g[k] = f[k])
    <3>1. \A k \in 1 .. n : f[k] \in Int
      BY <1>1, SettledType
    <3>2. \A k \in 1 .. n : k # h => g[k] = f[k]
      BY <1>1, <1>2, <1>4 DEF STerms
    <3> QED
      BY <3>1, <3>2
  <2>2. f[h] = (IF own THEN x ELSE 0) /\ g[h] = (IF own THEN v ELSE 0)
    BY <1>1, <1>2, <1>4, <1>b DEF STerms
  <2>3. g[n + 1] = 0
    BY <1>1, <1>2, <1>5 DEF STerms
  <2>4. SettledSum(cls, s)' = Total(g, n + 1) /\ SettledSum(cls, s) = Total(f, n)
    BY <1>1, <1>2 DEF SettledSum, STerms
  <2>5. h \in 1 .. n /\ g[h] \in Int
    BY <1>1, <2>2
  <2> HIDE DEF f, g
  <2>6. \A k \in 1 .. n : g[k] \in Int /\ f[k] \in Int /\ (k # h => g[k] = f[k])
    BY <2>1, <2>5
  <2>7. Total(g, n) = Total(f, n) + (g[h] - f[h])
    BY <2>5, <2>6, TotalChange
  <2>8. Total(g, n + 1) = Total(g, n) + g[n + 1]
    BY <2>6, TotalStep
  <2>9. Total(f, n) \in Int /\ Total(g, n) \in Int
    BY <2>6, TotalSame
  <2>10. g[h] - f[h] = d
    BY <2>2
  <2> QED
    BY <2>3, <2>4, <2>7, <2>8, <2>9, <2>10
<1>9. Overrun(cls, s)' = Overrun(cls, s) + o
  <2> DEFINE f == OTerms(cls, s)
             g == OTerms(cls, s)'
  <2>1. \A k \in 1 .. n : f[k] \in Int /\ (k # h => g[k] = f[k])
    <3>1. \A k \in 1 .. n : f[k] \in Int
      BY <1>1, OverrunType
    <3>2. \A k \in 1 .. n : k # h => g[k] = f[k]
      BY <1>1, <1>2, <1>4 DEF OTerms
    <3> QED
      BY <3>1, <3>2
  <2>2. f[h] = 0 /\ g[h] = o
    BY <1>1, <1>2, <1>4, <1>a, <1>b DEF OTerms
  <2>3. g[n + 1] = 0
    BY <1>1, <1>2, <1>5 DEF OTerms
  <2>4. Overrun(cls, s)' = Total(g, n + 1) /\ Overrun(cls, s) = Total(f, n)
    BY <1>1, <1>2 DEF Overrun, OTerms
  <2>5. h \in 1 .. n /\ o \in Int
    BY <1>1, HoldsAssumption
  <2> HIDE DEF f, g, o
  <2>6. \A k \in 1 .. n : g[k] \in Int /\ f[k] \in Int /\ (k # h => g[k] = f[k])
    BY <2>1, <2>2, <2>5
  <2>7. Total(g, n) = Total(f, n) + (g[h] - f[h])
    BY <2>5, <2>6, TotalChange
  <2>8. Total(g, n + 1) = Total(g, n) + g[n + 1]
    BY <2>6, TotalStep
  <2>9. Total(f, n) \in Int /\ Total(g, n) \in Int
    BY <2>6, TotalSame
  <2> QED
    BY <2>2, <2>3, <2>4, <2>5, <2>7, <2>8, <2>9
<1> QED
  BY <1>7, <1>8, <1>9, <1>a, <1>b DEF Moves

\* Damage changes none of the three sums.
LEMMA BooksMove ==
  ASSUME TypeOK, Backwards(ledger), ledger' \in Seq(Record), SameBooks(ledger', ledger),
         NEW cls \in Classes, NEW s
  PROVE  Moves(cls, s, 0, 0)
<1>0. PICK n \in Nat : n = Len(ledger)
  BY DEF TypeOK
<1>1. /\ ledger \in Seq(Record) /\ n = Len(ledger) /\ DOMAIN ledger = 1 .. n
      /\ Len(ledger') = n /\ DOMAIN ledger' = 1 .. n
  BY <1>0 DEF TypeOK, SameBooks
<1>2. ActiveExposure(ledger', s, cls) = ActiveExposure(ledger, s, cls) + 0
  BY <1>1, ExposureOfBooks, ExposureType
<1>3. \A h \in 1 .. n : IsReserve(h, cls, s)' <=> IsReserve(h, cls, s)
  BY <1>1 DEF IsReserve, SameBooks
<1>4. ASSUME NEW h \in 1 .. n
      PROVE  SettledValue(h)' = SettledValue(h) /\ ledger'[h].reserved = ledger[h].reserved
  <2>1. TerminalsOf(ledger', h) = TerminalsOf(ledger, h)
    BY <1>1 DEF TerminalsOf, IsTerminal, SameBooks
  <2>2. FirstTerminal(ledger', h) = FirstTerminal(ledger, h)
    BY <2>1 DEF FirstTerminal
  <2>3. FirstTerminal(ledger, h) # 0 => FirstTerminal(ledger, h) \in 1 .. n
    BY <1>1, FirstTerminalIs
  <2> QED
    BY <1>1, <2>2, <2>3 DEF SettledValue, SameBooks
<1>5. SettledSum(cls, s)' = SettledSum(cls, s) + 0
  <2>1. \A h \in 1 .. n : STerms(cls, s)[h] = STerms(cls, s)'[h] /\ STerms(cls, s)[h] \in Int
    BY <1>1, <1>3, <1>4, SettledType DEF STerms
  <2>2. Total(STerms(cls, s), n) = Total(STerms(cls, s)', n) /\ Total(STerms(cls, s), n) \in Int
    BY <2>1, TotalSame
  <2>3. SettledSum(cls, s)' = Total(STerms(cls, s)', n)
    BY <1>1 DEF SettledSum, STerms
  <2> QED
    BY <1>1, <2>2, <2>3, SumsOfTerms
<1>6. Overrun(cls, s)' = Overrun(cls, s) + 0
  <2>1. \A h \in 1 .. n : OTerms(cls, s)[h] = OTerms(cls, s)'[h]
    BY <1>1, <1>3, <1>4 DEF OTerms
  <2>2. \A h \in 1 .. n : OTerms(cls, s)[h] \in Int
    BY <1>1, OverrunType
  <2>3. Total(OTerms(cls, s), n) = Total(OTerms(cls, s)', n) /\ Total(OTerms(cls, s), n) \in Int
    BY <2>1, <2>2, TotalSame
  <2>4. Overrun(cls, s)' = Total(OTerms(cls, s)', n)
    BY <1>1 DEF Overrun, OTerms
  <2> QED
    BY <1>1, <2>3, <2>4, SumsOfTerms
<1> QED
  BY <1>2, <1>5, <1>6 DEF Moves

-----------------------------------------------------------------------------
(* The invariant of the aggregate.  A thread that is about to reserve has   *)
(* read an aggregate that is still true (AggInv): only a writer that holds  *)
(* the lock of a scope can move the sums of that scope.                     *)

BookInv ==
    /\ Backwards(ledger)
    /\ \A i \in DOMAIN ledger :
          ledger[i].verb = "reserve" => ledger[i].accept /\ ledger[i].reserved \in Nat
    /\ \A c \in Callers : call[c].amount \in Nat
    /\ agg \in [Callers -> Int]
    /\ cited \in Seq(Int) /\ Len(cited) = Len(ledger)

AggInv ==
    \A c \in Callers :
        (pc[c] = "decide" /\ call[c].op = "reserve" /\ call[c].class \in Classes)
            => agg[c] = ActiveExposure(ledger, call[c].subj, call[c].class)

EInv == IInv /\ BookInv /\ AggInv /\ AggregatesAreExact /\ CapRespected

\* The prefix in front of a record, before and after an append.
LEMMA PrefixOfAppend ==
  ASSUME NEW l \in Seq(Record), NEW r \in Record
  PROVE  /\ SubSeq(Append(l, r), 1, Len(l)) = l
         /\ \A i \in 1 .. Len(l) : SubSeq(Append(l, r), 1, i - 1) = SubSeq(l, 1, i - 1)
<1>1. Len(l) \in Nat /\ Append(l, r) \in Seq(Record) /\ Len(Append(l, r)) = Len(l) + 1
      /\ \A j \in 1 .. Len(l) : Append(l, r)[j] = l[j]
  BY AppendFacts
<1>2. SubSeq(Append(l, r), 1, Len(l)) = l
  BY <1>1
<1>3. ASSUME NEW i \in 1 .. Len(l)
      PROVE  SubSeq(Append(l, r), 1, i - 1) = SubSeq(l, 1, i - 1)
  BY <1>1
<1> QED
  BY <1>2, <1>3

LEMMA PrefixIs ==
  ASSUME NEW l \in Seq(Record), NEW k \in 0 .. Len(l)
  PROVE  /\ SubSeq(l, 1, k) \in Seq(Record) /\ Len(SubSeq(l, 1, k)) = k
         /\ DOMAIN SubSeq(l, 1, k) = 1 .. k
         /\ \A j \in 1 .. k : SubSeq(l, 1, k)[j] = l[j]
  OBVIOUS

LEMMA InitEInv == Init => EInv
<1> SUFFICES ASSUME Init PROVE EInv
  OBVIOUS
<1>1. IInv
  BY InitIInv
<1>2. ledger = <<>> /\ Len(ledger) = 0
  BY DEF Init
<1>3. BookInv
  BY <1>2 DEF Init, BookInv, Backwards, NoCall
<1>4. AggInv
  BY DEF Init, AggInv
<1>5. ASSUME NEW cls \in Classes, NEW s
      PROVE  /\ ActiveExposure(ledger, s, cls) = 0 /\ SettledSum(cls, s) = 0
             /\ Overrun(cls, s) = 0
  <2>1. \A f : Total(f, 0) = 0
    <3>1. ASSUME NEW f PROVE Total(f, 0) = 0
      <4>1. PICK g : IsSum(g, f, 0) /\ Total(f, 0) = g[0]
        BY TotalIs
      <4> QED
        BY <4>1 DEF IsSum
    <3> QED
      BY <3>1
  <2> QED
    BY <1>2, <2>1, SumsOfTerms
<1>6. ExposureIsSettledSum
  BY <1>5 DEF ExposureIsSettledSum
<1>7. CapRespected
  BY <1>5, HoldsAssumption DEF CapRespected
<1>8. CappedCitationExact
  BY <1>2 DEF CappedCitationExact
<1> QED
  BY <1>1, <1>3, <1>4, <1>6, <1>7, <1>8 DEF EInv, AggregatesAreExact

\* A step that writes nothing keeps the sums.
LEMMA SumsSame ==
  ASSUME AggregatesAreExact, CapRespected, UNCHANGED <<ledger, cited>>
  PROVE  AggregatesAreExact' /\ CapRespected'
<1>1. \A cls, s : SettledSum(cls, s)' = SettledSum(cls, s)
  BY DEF SettledSum, IsReserve, SettledValue
<1>2. \A cls, s : Overrun(cls, s)' = Overrun(cls, s)
  BY DEF Overrun, IsReserve, SettledValue
<1>3. ExposureIsSettledSum'
  BY <1>1 DEF AggregatesAreExact, ExposureIsSettledSum
<1>4. CapRespected'
  BY <1>2 DEF CapRespected
<1>5. CappedCitationExact'
  BY DEF AggregatesAreExact, CappedCitationExact
<1> QED
  BY <1>3, <1>4, <1>5 DEF AggregatesAreExact

LEMMA NoWriteStep ==
  ASSUME EInv, IInv', UNCHANGED <<ledger, cited>>, agg' \in [Callers -> Int],
         \A c \in Callers : call'[c].amount \in Nat, AggInv'
  PROVE  EInv'
<1>1. BookInv'
  BY DEF EInv, BookInv, Backwards
<1> QED
  BY <1>1, SumsSame DEF EInv

\* A step of thread c that writes a record.  The sums move only in a scope
\* that c has locked, and within the cap.
LEMMA WriteStep ==
  ASSUME EInv, IInv', NEW c \in Callers, NEW r \in Record, NEW before \in Int,
         ledger' = Append(ledger, r), cited' = Append(cited, before),
         r.parent <= Len(ledger),
         r.verb = "reserve" => r.accept /\ r.reserved \in Nat,
         \A cls \in Classes, s \in Subjects :
             \E d, o \in Int :
                /\ Moves(cls, s, d, o)
                /\ d # 0 => pc[c] = "decide" /\ MyScope(c) = <<cls, s>>
                /\ ActiveExposure(ledger, s, cls) + d <= Cap[cls] + Overrun(cls, s) + o,
         (r.verb = "reserve" /\ r.class \in Classes) =>
             before = ActiveExposure(ledger, r.subj, r.class),
         agg' \in [Callers -> Int], pc'[c] # "decide", call'[c].amount \in Nat,
         \A d \in Callers \ {c} :
             pc'[d] = pc[d] /\ call'[d] = call[d] /\ agg'[d] = agg[d]
  PROVE  EInv'
<1>0. PICK n \in Nat : n = Len(ledger)
  BY DEF EInv, IInv, TypeOK
<1>1. /\ ledger \in Seq(Record) /\ ledger' \in Seq(Record)
      /\ DOMAIN ledger = 1 .. n /\ DOMAIN ledger' = 1 .. n + 1 /\ Len(ledger') = n + 1
      /\ ledger'[n + 1] = r /\ \A i \in 1 .. n : ledger'[i] = ledger[i]
  BY <1>0, AppendFacts DEF EInv, IInv, TypeOK
<1>2. /\ cited \in Seq(Int) /\ Len(cited) = n /\ cited' \in Seq(Int) /\ Len(cited') = n + 1
      /\ cited'[n + 1] = before /\ \A i \in 1 .. n : cited'[i] = cited[i]
  BY <1>0 DEF EInv, BookInv
<1>3. BookInv'
  <2>1. Backwards(ledger')
    <3>1. r.parent \in Nat
      BY DEF Record
    <3> QED
      BY <1>0, <1>1, <3>1 DEF EInv, BookInv, Backwards
  <2>2. \A i \in DOMAIN ledger' :
           ledger'[i].verb = "reserve" => ledger'[i].accept /\ ledger'[i].reserved \in Nat
    BY <1>1 DEF EInv, BookInv
  <2>3. \A d \in Callers : call'[d].amount \in Nat
    BY DEF EInv, BookInv
  <2> QED
    BY <1>1, <1>2, <2>1, <2>2, <2>3 DEF BookInv
<1>4. AggInv'
  <2> SUFFICES ASSUME NEW d \in Callers, pc'[d] = "decide", call'[d].op = "reserve",
                      call'[d].class \in Classes
               PROVE  agg'[d] = ActiveExposure(ledger', call'[d].subj, call'[d].class)
    BY DEF AggInv
  <2>1. d # c /\ pc[d] = "decide" /\ call'[d] = call[d] /\ agg'[d] = agg[d]
    OBVIOUS
  <2> DEFINE cls == call[d].class
             s == call[d].subj
  <2>2. cls \in Classes /\ s \in Subjects /\ agg[d] = ActiveExposure(ledger, s, cls)
    <3>1. call[d] \in Call
      BY DEF EInv, IInv, TypeOK
    <3> QED
      BY <2>1, <3>1 DEF EInv, AggInv, Call
  <2>3. PICK e, o \in Int :
           Moves(cls, s, e, o) /\ (e # 0 => pc[c] = "decide" /\ MyScope(c) = <<cls, s>>)
    BY <2>2
  <2>4. e = 0
    <3>1. SUFFICES ASSUME pc[c] = "decide", MyScope(c) = MyScope(d) PROVE FALSE
      BY <2>3 DEF MyScope
    <3> QED
      BY <2>1, <3>1 DEF EInv, IInv, LockInv
  <2>5. ActiveExposure(ledger, s, cls)' = ActiveExposure(ledger, s, cls) + 0
    BY <2>3, <2>4 DEF Moves
  <2>6. ActiveExposure(ledger', call[d].subj, call[d].class) = ActiveExposure(ledger, s, cls) + 0
    BY <2>1, <2>5
  <2>7. ActiveExposure(ledger, s, cls) \in Int
    BY <1>1, ExposureType
  <2> QED
    BY <2>1, <2>2, <2>6, <2>7
<1>5. ExposureIsSettledSum' /\ CapRespected'
  <2>1. ASSUME NEW cls \in Classes, NEW s \in Subjects
        PROVE  /\ ActiveExposure(ledger, s, cls)' = SettledSum(cls, s)'
               /\ ActiveExposure(ledger, s, cls)' <= Cap[cls] + Overrun(cls, s)'
    <3>1. PICK d, o \in Int :
             /\ Moves(cls, s, d, o)
             /\ ActiveExposure(ledger, s, cls) + d <= Cap[cls] + Overrun(cls, s) + o
      OBVIOUS
    <3>2. ActiveExposure(ledger, s, cls) = SettledSum(cls, s)
      BY DEF EInv, AggregatesAreExact, ExposureIsSettledSum
    <3>3. /\ ActiveExposure(ledger, s, cls) \in Int /\ Overrun(cls, s) \in Int
          /\ Cap[cls] \in Int
      BY <1>1, ExposureType, OverrunType, HoldsAssumption DEF EInv, IInv
    <3> QED
      BY <3>1, <3>2, <3>3 DEF Moves
  <2> QED
    BY <2>1 DEF ExposureIsSettledSum, CapRespected
<1>6. CappedCitationExact'
  <2> SUFFICES ASSUME NEW i \in DOMAIN ledger', ledger'[i].verb = "reserve",
                      ledger'[i].class \in Classes
               PROVE  cited'[i] = ActiveExposure(SubSeq(ledger', 1, i - 1),
                                                 ledger'[i].subj, ledger'[i].class)
    BY DEF CappedCitationExact
  <2>1. CASE i \in 1 .. n
    <3>1. SubSeq(ledger', 1, i - 1) = SubSeq(ledger, 1, i - 1)
      BY <1>0, <1>1, <2>1, PrefixOfAppend
    <3>2. i \in DOMAIN ledger /\ ledger'[i] = ledger[i] /\ cited'[i] = cited[i]
      BY <1>1, <1>2, <2>1
    <3>3. cited[i] = ActiveExposure(SubSeq(ledger, 1, i - 1), ledger[i].subj, ledger[i].class)
      BY <3>2 DEF EInv, AggregatesAreExact, CappedCitationExact
    <3> QED
      BY <3>1, <3>2, <3>3
  <2>2. CASE i = n + 1
    <3>1. SubSeq(ledger', 1, n) = ledger
      BY <1>0, <1>1, PrefixOfAppend
    <3>2. i - 1 = n
      BY <2>2
    <3> QED
      BY <1>1, <1>2, <2>2, <3>1, <3>2
  <2>3. i \in 1 .. n \/ i = n + 1
    BY <1>0, <1>1
  <2> QED
    BY <2>1, <2>2, <2>3
<1> QED
  BY <1>3, <1>4, <1>5, <1>6 DEF EInv, AggregatesAreExact

\* A writer of a record that neither counts, reserves nor closes.
LEMMA QuietWriteStep ==
  ASSUME EInv, IInv', NEW c \in Callers, NEW r \in Record,
         ledger' = Append(ledger, r), cited' = Append(cited, 0),
         r.parent <= Len(ledger), r.verb # "reserve",
         ~r.accept \/ r.verb \notin HoldVerbs,
         \A h \in DOMAIN ledger : ~IsTerminal(r, h),
         agg' \in [Callers -> Int], pc'[c] # "decide", call'[c].amount \in Nat,
         \A d \in Callers \ {c} :
             pc'[d] = pc[d] /\ call'[d] = call[d] /\ agg'[d] = agg[d]
  PROVE  EInv'
<1>1. ASSUME NEW cls \in Classes, NEW s \in Subjects
      PROVE  \E d, o \in Int :
                /\ Moves(cls, s, d, o)
                /\ d # 0 => pc[c] = "decide" /\ MyScope(c) = <<cls, s>>
                /\ ActiveExposure(ledger, s, cls) + d <= Cap[cls] + Overrun(cls, s) + o
  <2>1. Moves(cls, s, 0, 0)
    BY QuietRecord DEF EInv, IInv, BookInv
  <2>2. ActiveExposure(ledger, s, cls) <= Cap[cls] + Overrun(cls, s)
    BY DEF EInv, CapRespected
  <2>3. ActiveExposure(ledger, s, cls) \in Int /\ Overrun(cls, s) \in Int /\ Cap[cls] \in Int
    BY ExposureType, OverrunType, HoldsAssumption DEF EInv, IInv, TypeOK
  <2>4. ActiveExposure(ledger, s, cls) + 0 <= Cap[cls] + Overrun(cls, s) + 0
    BY <2>2, <2>3
  <2> QED
    BY <2>1, <2>4
<1> QED
  BY <1>1, WriteStep

\* What Finish leaves behind: an idle caller, and the others as they were.
LEMMA FinishLeaves ==
  ASSUME EInv, NEW c \in Callers, Finish(c)
  PROVE  /\ agg' \in [Callers -> Int] /\ pc'[c] # "decide" /\ call'[c].amount \in Nat
         /\ \A d \in Callers \ {c} :
               pc'[d] = pc[d] /\ call'[d] = call[d] /\ agg'[d] = agg[d]
<1>1. TypeOK /\ agg \in [Callers -> Int]
  BY DEF EInv, IInv, BookInv
<1>2. call'[c] = NoCall /\ NoCall.amount = 0
  BY <1>1 DEF TypeOK, Finish, NoCall
<1>3. pc'[c] = "idle" /\ agg' \in [Callers -> Int]
  BY <1>1 DEF TypeOK, Finish, Goto
<1>4. \A d \in Callers \ {c} : pc'[d] = pc[d] /\ call'[d] = call[d] /\ agg'[d] = agg[d]
  BY <1>1 DEF TypeOK, Finish, Goto
<1> QED
  BY <1>2, <1>3, <1>4

LEMMA DecisionIsQuiet ==
  ASSUME NEW v \in CloseVerbs \cup {"other"}, NEW s \in Subjects, NEW p \in Nat
  PROVE  /\ DecisionRecord(v, s, p) \in Record /\ DecisionRecord(v, s, p).parent = p
         /\ DecisionRecord(v, s, p).verb # "reserve" /\ ~DecisionRecord(v, s, p).accept
         /\ \A h : ~IsTerminal(DecisionRecord(v, s, p), h)
<1>1. v \in HoldVerbs \cup {"other"} /\ v # "reserve"
  BY DEF HoldVerbs, CloseVerbs
<1> QED
  BY <1>1, DecisionIs DEF DecisionRecord

LEMMA ApprovalIsQuiet ==
  ASSUME NEW s \in Subjects, NEW p \in Nat, NEW a \in BOOLEAN
  PROVE  /\ ApprovalRecord(s, p, a) \in Record /\ ApprovalRecord(s, p, a).parent = p
         /\ ApprovalRecord(s, p, a).verb # "reserve"
         /\ ApprovalRecord(s, p, a).verb \notin HoldVerbs
         /\ \A h : ~IsTerminal(ApprovalRecord(s, p, a), h)
  BY ApprovalIs DEF ApprovalRecord, HoldVerbs, CloseVerbs

LEMMA UnavailableMoves ==
  ASSUME EInv, IInv', NEW c \in Callers, EvaluateUnavailable(c)
  PROVE  EInv'
<1>1. PICK s \in Subjects : Write(DecisionRecord("other", s, 0), 0)
  BY DEF EvaluateUnavailable
<1>2. PICK r : r = DecisionRecord("other", s, 0)
  OBVIOUS
<1>3. /\ r \in Record /\ r.parent = 0 /\ r.verb # "reserve" /\ ~r.accept
      /\ \A h : ~IsTerminal(r, h)
  BY <1>2, DecisionIsQuiet
<1>4. ledger' = Append(ledger, r) /\ cited' = Append(cited, 0) /\ r.parent <= Len(ledger)
  BY <1>1, <1>2, <1>3 DEF Write, EInv, IInv, TypeOK
<1>5. /\ pc[c] = "idle" /\ UNCHANGED <<pc, call, agg>>
      /\ agg \in [Callers -> Int] /\ call[c].amount \in Nat
  BY DEF EvaluateUnavailable, EInv, BookInv
<1> QED
  BY <1>3, <1>4, <1>5, QuietWriteStep

LEMMA SealWithoutHoldMoves ==
  ASSUME EInv, IInv', NEW c \in Callers, SealWithoutHold(c)
  PROVE  EInv'
<1>1. PICK h \in DOMAIN ledger, a \in BOOLEAN :
         Write(ApprovalRecord(ledger[h].subj, h, a), 0)
  BY DEF SealWithoutHold
<1>2. PICK r : r = ApprovalRecord(ledger[h].subj, h, a)
  OBVIOUS
<1>3. ledger[h] \in Record /\ h \in Nat /\ h <= Len(ledger)
  BY DEF EInv, IInv, TypeOK
<1>4. ledger[h].subj \in Subjects
  BY <1>3 DEF Record
<1>5. /\ r \in Record /\ r.parent = h /\ r.verb # "reserve" /\ r.verb \notin HoldVerbs
      /\ \A k : ~IsTerminal(r, k)
  BY <1>2, <1>3, <1>4, ApprovalIsQuiet
<1>6. ledger' = Append(ledger, r) /\ cited' = Append(cited, 0)
  BY <1>1, <1>2 DEF Write
<1>7. /\ pc[c] = "idle" /\ UNCHANGED <<pc, call, agg>>
      /\ agg \in [Callers -> Int] /\ call[c].amount \in Nat
  BY DEF SealWithoutHold, EInv, BookInv
<1> QED
  BY <1>3, <1>5, <1>6, <1>7, QuietWriteStep

LEMMA SealApprovalMoves ==
  ASSUME EInv, IInv', NEW c \in Callers, SealApproval(c)
  PROVE  EInv'
<1>1. PICK approve \in BOOLEAN :
         Write(ApprovalRecord(call[c].subj, call[c].id,
                              approve /\ call[c].status = "active"), 0)
  BY DEF SealApproval
<1>2. PICK a \in BOOLEAN : a = (approve /\ call[c].status = "active")
  OBVIOUS
<1>3. PICK r : r = ApprovalRecord(call[c].subj, call[c].id, a)
  OBVIOUS
<1>4. /\ call[c].subj \in Subjects /\ call[c].id \in Nat /\ call[c].id <= Len(ledger)
  <2>1. call[c] \in Call /\ call[c].id \in DOMAIN ledger /\ ledger \in Seq(Record)
    BY DEF SealApproval, EInv, IInv, TypeOK, CallInv
  <2> QED
    BY <2>1 DEF Call
<1>5. /\ r \in Record /\ r.parent = call[c].id /\ r.verb # "reserve" /\ r.verb \notin HoldVerbs
      /\ \A k : ~IsTerminal(r, k)
  BY <1>3, <1>4, ApprovalIsQuiet
<1>6. ledger' = Append(ledger, r) /\ cited' = Append(cited, 0)
  BY <1>1, <1>2, <1>3 DEF Write
<1>7. Finish(c)
  BY DEF SealApproval
<1> QED
  BY <1>4, <1>5, <1>6, <1>7, FinishLeaves, QuietWriteStep

\* The reservation that is admitted fits under the cap, by the aggregate read
\* under the lock, which is still true.
LEMMA AppendReserveMoves ==
  ASSUME EInv, IInv', NEW c \in Callers, AppendReserve(c)
  PROVE  EInv'
<1>1. /\ pc[c] = "decide" /\ call[c].op = "reserve" /\ Finish(c)
      /\ ledger' = Append(ledger, ReserveDecision(c)) /\ cited' = Append(cited, agg[c])
  BY DEF AppendReserve, Write
<1>2. /\ call[c] \in Call /\ call[c].amount \in Nat /\ agg[c] \in Int /\ TypeOK
      /\ Backwards(ledger) /\ Len(ledger) \in Nat /\ ledger \in Seq(Record)
  BY DEF EInv, IInv, TypeOK, BookInv
<1>3. call[c].subj \in Subjects /\ call[c].class \in AnyClass
  BY <1>2 DEF Call
<1>4. ASSUME NEW cls \in Classes, NEW s \in Subjects
      PROVE  /\ ActiveExposure(ledger, s, cls) \in Int /\ Overrun(cls, s) \in Nat
             /\ Cap[cls] \in Nat
             /\ ActiveExposure(ledger, s, cls) <= Cap[cls] + Overrun(cls, s)
  BY <1>2, ExposureType, OverrunType, HoldsAssumption DEF EInv, CapRespected
<1>5. CASE OverCap(c)
  <2>1. PICK r : r = DecisionRecord("other", call[c].subj, 0)
    OBVIOUS
  <2>2. ReserveDecision(c) = r
    BY <1>5, <2>1 DEF ReserveDecision
  <2>3. /\ r \in Record /\ r.parent = 0 /\ r.verb # "reserve" /\ ~r.accept
        /\ \A h : ~IsTerminal(r, h)
    BY <1>3, <2>1, DecisionIsQuiet
  <2>4. ASSUME NEW cls \in Classes, NEW s \in Subjects
        PROVE  \E d, o \in Int :
                  /\ Moves(cls, s, d, o)
                  /\ d # 0 => pc[c] = "decide" /\ MyScope(c) = <<cls, s>>
                  /\ ActiveExposure(ledger, s, cls) + d <= Cap[cls] + Overrun(cls, s) + o
    <3>1. Moves(cls, s, 0, 0)
      BY <1>1, <1>2, <2>2, <2>3, QuietRecord
    <3>2. ActiveExposure(ledger, s, cls) + 0 <= Cap[cls] + Overrun(cls, s) + 0
      BY <1>4
    <3> QED
      BY <3>1, <3>2
  <2>5. r.parent <= Len(ledger) /\ ledger' = Append(ledger, r)
    BY <1>1, <1>2, <2>2, <2>3
  <2>6. /\ agg' \in [Callers -> Int] /\ pc'[c] # "decide" /\ call'[c].amount \in Nat
        /\ \A d \in Callers \ {c} :
              pc'[d] = pc[d] /\ call'[d] = call[d] /\ agg'[d] = agg[d]
    BY <1>1, FinishLeaves
  <2> QED
    BY <1>1, <1>2, <2>3, <2>4, <2>5, <2>6, WriteStep
<1>6. CASE ~OverCap(c)
  <2> DEFINE k == call[c].class
             t == call[c].subj
             amt == call[c].amount
  <2>1. PICK r : r = ReserveRecord(k, t, amt)
    OBVIOUS
  <2>2. ReserveDecision(c) = r
    BY <1>6, <2>1 DEF ReserveDecision
  <2>3. /\ r \in Record /\ r.parent = 0 /\ r.verb = "reserve" /\ r.accept
        /\ r.reserved = amt /\ r.class = k /\ r.subj = t
    BY <1>2, <1>3, <2>1, ReserveIs DEF ReserveRecord
  <2>4. k \in Classes => agg[c] = ActiveExposure(ledger, t, k)
    BY <1>1 DEF EInv, AggInv
  <2>5. k \in Classes => agg[c] + amt <= Cap[k]
    BY <1>2, <1>6, HoldsAssumption DEF OverCap
  <2>6. ASSUME NEW cls \in Classes, NEW s \in Subjects
        PROVE  \E d, o \in Int :
                  /\ Moves(cls, s, d, o)
                  /\ d # 0 => pc[c] = "decide" /\ MyScope(c) = <<cls, s>>
                  /\ ActiveExposure(ledger, s, cls) + d <= Cap[cls] + Overrun(cls, s) + o
    <3>1. PICK d \in Int : d = IF k = cls /\ t = s THEN amt ELSE 0
      BY <1>2
    <3>2. Moves(cls, s, d, 0)
      BY <1>1, <1>2, <1>3, <2>1, <2>2, <3>1, ReserveRecordMoves
    <3>3. d # 0 => MyScope(c) = <<cls, s>>
      BY <3>1 DEF MyScope
    <3>4. ActiveExposure(ledger, s, cls) + d <= Cap[cls] + Overrun(cls, s) + 0
      <4>1. CASE k = cls /\ t = s
        BY <1>2, <1>4, <2>4, <2>5, <3>1, <4>1
      <4>2. CASE ~(k = cls /\ t = s)
        BY <1>4, <3>1, <4>2
      <4> QED
        BY <4>1, <4>2
    <3> QED
      BY <1>1, <3>2, <3>3, <3>4
  <2> HIDE DEF k, t, amt
  <2>7. (r.verb = "reserve" /\ r.class \in Classes) =>
             agg[c] = ActiveExposure(ledger, r.subj, r.class)
    BY <2>3, <2>4
  <2>8. r.verb = "reserve" => r.accept /\ r.reserved \in Nat
    BY <1>2, <2>3 DEF amt
  <2> QED
    BY <1>1, <1>2, <2>2, <2>3, <2>6, <2>7, <2>8, FinishLeaves, WriteStep
<1> QED
  BY <1>5, <1>6

\* A terminal record moves its hold's own scope, whose lock its writer holds,
\* and above the reservation by no more than the tolerance.
LEMMA TerminalMoves ==
  ASSUME EInv, IInv', NEW c \in Callers, Finish(c),
         pc[c] = "decide", call[c].op \in CloseVerbs, call[c].status = "active",
         NEW h, h = call[c].id, NEW r \in Record, IsTerminal(r, h),
         ledger' = Append(ledger, r), cited' = Append(cited, 0),
         r.accept, r.subj = call[c].subj,
         NEW v \in Int, v = (IF r.verb = "reconcile" THEN r.executed ELSE 0),
         r.amount = v - ledger[h].reserved,
         (ledger[h].reserved \in Nat /\ ledger[h].class \in Classes
             /\ v > ledger[h].reserved) =>
                 v - ledger[h].reserved <= Tolerance[ledger[h].class]
  PROVE  EInv'
<1>1. /\ TypeOK /\ Backwards(ledger) /\ ledger \in Seq(Record) /\ h \in DOMAIN ledger
      /\ MyScope(c) = <<ledger[h].class, ledger[h].subj>>
      /\ r.subj = ledger[h].subj /\ TerminalsOf(ledger, h) = {}
      /\ (ledger[h].verb = "reserve" => ledger[h].accept /\ ledger[h].reserved \in Nat)
  BY DEF EInv, IInv, TypeOK, BookInv, CallInv, DecideInv, MyScope
<1>2. PICK x \in Int : x = ledger[h].reserved
  <2>1. ledger[h] \in Record
    BY <1>1
  <2> QED
    BY <2>1 DEF Record
<1>3. r.parent = h /\ r.parent <= Len(ledger) /\ r.verb # "reserve"
  BY <1>1 DEF IsTerminal, CloseVerbs
<1>4. ASSUME NEW cls \in Classes, NEW s \in Subjects
      PROVE  \E d, o \in Int :
                /\ Moves(cls, s, d, o)
                /\ d # 0 => pc[c] = "decide" /\ MyScope(c) = <<cls, s>>
                /\ ActiveExposure(ledger, s, cls) + d <= Cap[cls] + Overrun(cls, s) + o
  <2>1. /\ ActiveExposure(ledger, s, cls) \in Int /\ Overrun(cls, s) \in Nat
        /\ Cap[cls] \in Nat /\ Tolerance[cls] \in Nat
        /\ ActiveExposure(ledger, s, cls) <= Cap[cls] + Overrun(cls, s)
    BY <1>1, ExposureType, OverrunType, HoldsAssumption DEF EInv, CapRespected
  <2>2. PICK own \in BOOLEAN : own = IsReserve(h, cls, s)
    BY DEF IsReserve
  <2>3. PICK d, o \in Int :
           /\ d = IF own THEN v - x ELSE 0
           /\ o = IF own /\ v > x THEN Tolerance[cls] ELSE 0
    BY <1>2, <2>1
  <2>4. Moves(cls, s, d, o)
    <3>1. Moves(cls, s, IF IsReserve(h, cls, s) THEN v - ledger[h].reserved ELSE 0,
                        IF IsReserve(h, cls, s) /\ v > ledger[h].reserved
                        THEN Tolerance[cls] ELSE 0)
      BY <1>1, <1>3, CloseRecordMoves
    <3> QED
      BY <1>2, <2>2, <2>3, <3>1
  <2>5. own => MyScope(c) = <<cls, s>> /\ x \in Nat /\ (v > x => v - x <= Tolerance[cls])
    BY <1>1, <1>2, <2>2 DEF IsReserve
  <2>6. ActiveExposure(ledger, s, cls) + d <= Cap[cls] + Overrun(cls, s) + o
    <3>1. d <= o
      BY <1>2, <2>1, <2>3, <2>5
    <3> QED
      BY <2>1, <3>1
  <2> QED
    BY <2>3, <2>4, <2>5, <2>6
<1>5. /\ agg' \in [Callers -> Int] /\ pc'[c] # "decide" /\ call'[c].amount \in Nat
      /\ \A d \in Callers \ {c} :
            pc'[d] = pc[d] /\ call'[d] = call[d] /\ agg'[d] = agg[d]
  BY FinishLeaves
<1>6. PICK before \in Int : before = 0
  OBVIOUS
<1>7. /\ cited' = Append(cited, before)
      /\ r.verb = "reserve" => r.accept /\ r.reserved \in Nat
      /\ (r.verb = "reserve" /\ r.class \in Classes) =>
             before = ActiveExposure(ledger, r.subj, r.class)
  BY <1>3, <1>6
<1> QED
  BY <1>3, <1>4, <1>5, <1>7, WriteStep

LEMMA AppendCloseMoves ==
  ASSUME EInv, IInv', NEW c \in Callers, AppendClose(c)
  PROVE  EInv'
<1>1. /\ pc[c] = "decide" /\ call[c].op \in CloseVerbs /\ Finish(c)
      /\ ledger' = Append(ledger, CloseDecision(c)) /\ cited' = Append(cited, 0)
  BY DEF AppendClose, Write
<1> DEFINE h == call[c].id
           s == call[c].subj
           p == IF call[c].term # 0 THEN call[c].term ELSE h
<1>2. /\ call[c] \in Call /\ h \in DOMAIN ledger /\ ledger \in Seq(Record)
      /\ h \in Nat /\ h <= Len(ledger) /\ p \in Nat /\ p <= Len(ledger)
      /\ s \in Subjects /\ call[c].class = ledger[h].class /\ call[c].amount \in Nat
  <2>1. /\ call[c] \in Call /\ h \in DOMAIN ledger /\ ledger \in Seq(Record)
        /\ call[c].term \in 0 .. Len(ledger) /\ call[c].class = ledger[h].class
        /\ call[c].amount \in Nat
    BY <1>1 DEF EInv, IInv, TypeOK, CallInv, BookInv
  <2>2. s \in Subjects
    BY <2>1 DEF Call
  <2> QED
    BY <2>1, <2>2
<1>3. ledger[h] \in Record /\ ledger[h].reserved \in Int
  <2>1. ledger[h] \in Record
    BY <1>2
  <2> QED
    BY <2>1 DEF Record
<1>4. PICK r : r = CloseDecision(c)
  OBVIOUS
<1>5. /\ agg' \in [Callers -> Int] /\ pc'[c] # "decide" /\ call'[c].amount \in Nat
      /\ \A d \in Callers \ {c} :
            pc'[d] = pc[d] /\ call'[d] = call[d] /\ agg'[d] = agg[d]
  BY <1>1, FinishLeaves
<1>6. ASSUME NEW v \in CloseVerbs, NEW q \in Nat, q <= Len(ledger),
             CloseDecision(c) = DecisionRecord(v, s, q)
      PROVE  EInv'
  <2>1. /\ r \in Record /\ r.parent = q /\ r.verb # "reserve" /\ ~r.accept
        /\ \A k : ~IsTerminal(r, k)
    BY <1>2, <1>4, <1>6, DecisionIsQuiet
  <2>2. ledger' = Append(ledger, r) /\ r.parent <= Len(ledger)
    BY <1>1, <1>4, <1>6, <2>1
  <2> QED
    BY <1>1, <1>5, <2>1, <2>2, QuietWriteStep
<1>7. CASE call[c].status # "active"
  <2>1. CloseDecision(c) = DecisionRecord(call[c].op, s, p)
    BY <1>7 DEF CloseDecision
  <2> HIDE DEF p, s
  <2> QED
    BY <1>1, <1>2, <1>6, <2>1
<1>8. CASE call[c].status = "active" /\ call[c].op # "reconcile"
  <2>1. CloseDecision(c) = UnwindRecord(call[c].op, s, h, ledger[h].reserved)
    BY <1>8 DEF CloseDecision
  <2>2. r \in Record
    BY <1>1, <1>2, <1>3, <1>4, <2>1, UnwindIs
  <2>3. /\ IsTerminal(r, h) /\ r.accept /\ r.subj = s
        /\ r.verb # "reconcile" /\ r.amount = 0 - ledger[h].reserved
    BY <1>1, <1>3, <1>4, <1>8, <2>1 DEF UnwindRecord, IsTerminal
  <2>4. ledger[h].reserved \in Nat => ~(0 > ledger[h].reserved)
    OBVIOUS
  <2>5. PICK v \in Int : v = 0
    OBVIOUS
  <2>6. /\ v = (IF r.verb = "reconcile" THEN r.executed ELSE 0)
        /\ r.amount = v - ledger[h].reserved
        /\ (ledger[h].reserved \in Nat /\ ledger[h].class \in Classes
              /\ v > ledger[h].reserved) =>
                  v - ledger[h].reserved <= Tolerance[ledger[h].class]
    BY <2>3, <2>4, <2>5
  <2>7. ledger' = Append(ledger, r)
    BY <1>1, <1>4
  <2> QED
    BY <1>1, <1>8, <2>2, <2>3, <2>6, <2>7, TerminalMoves
<1>9. CASE call[c].status = "active" /\ call[c].op = "reconcile" /\ OverTolerance(c)
  <2>1. CloseDecision(c) = DecisionRecord("reconcile", s, h)
    BY <1>9 DEF CloseDecision
  <2>2. "reconcile" \in CloseVerbs
    BY DEF CloseVerbs
  <2> HIDE DEF h, s
  <2> QED
    BY <1>2, <1>6, <2>1, <2>2
<1>10. CASE call[c].status = "active" /\ call[c].op = "reconcile" /\ ~OverTolerance(c)
  <2>1. CloseDecision(c) = ReconcileRecord(s, h, ledger[h].reserved, call[c].amount)
    BY <1>10 DEF CloseDecision
  <2>2. r \in Record
    BY <1>2, <1>3, <1>4, <2>1, ReconcileIs
  <2>3. /\ IsTerminal(r, h) /\ r.accept /\ r.subj = s /\ r.verb = "reconcile"
        /\ r.executed = call[c].amount
        /\ r.amount = call[c].amount - ledger[h].reserved
    BY <1>4, <2>1 DEF ReconcileRecord, IsTerminal, CloseVerbs
  <2>4. PICK v \in Int : v = call[c].amount
    BY <1>2
  <2>5. ledger[h].class \in Classes =>
           v - ledger[h].reserved <= Tolerance[ledger[h].class]
    BY <1>2, <1>3, <1>10, <2>4, HoldsAssumption DEF OverTolerance
  <2>6. ledger' = Append(ledger, r)
    BY <1>1, <1>4
  <2> QED
    BY <1>1, <1>10, <2>2, <2>3, <2>4, <2>5, <2>6, TerminalMoves
<1> QED
  BY <1>7, <1>8, <1>9, <1>10

\* A step of thread c that writes nothing, and does not bring c to the point
\* where it reserves.
LEMMA NoWriteMoves ==
  ASSUME EInv, IInv', NEW c \in Callers, UNCHANGED <<ledger, cited>>,
         agg' \in [Callers -> Int], call'[c].amount \in Nat,
         pc'[c] # "decide" \/ call'[c].op # "reserve",
         \A d \in Callers \ {c} :
             pc'[d] = pc[d] /\ call'[d] = call[d] /\ agg'[d] = agg[d]
  PROVE  EInv'
<1>1. AggInv'
  BY DEF EInv, AggInv
<1>2. \A d \in Callers : call'[d].amount \in Nat
  BY DEF EInv, BookInv
<1> QED
  BY <1>1, <1>2, NoWriteStep

LEMMA EvaluateMoves ==
  ASSUME EInv, IInv', NEW c \in Callers, Evaluate(c)
  PROVE  EInv'
<1>1. PICK cls \in AnyClass, s \in Subjects, amt \in Amounts :
         call' = [call EXCEPT ![c] = [NoCall EXCEPT !.class = cls, !.subj = s,
                                                    !.amount = amt]]
  BY DEF Evaluate
<1>2. /\ TypeOK /\ agg \in [Callers -> Int] /\ pc' = [pc EXCEPT ![c] = "wait"]
      /\ UNCHANGED <<ledger, cited, agg>>
  BY DEF EInv, IInv, BookInv, Evaluate, Goto
<1>3. call'[c].amount = amt /\ amt \in Nat
  BY <1>1, <1>2, HoldsAssumption DEF TypeOK, NoCall
<1>4. \A d \in Callers \ {c} : pc'[d] = pc[d] /\ call'[d] = call[d] /\ agg'[d] = agg[d]
  BY <1>1, <1>2 DEF TypeOK
<1>5. pc'[c] # "decide"
  BY <1>2 DEF TypeOK
<1> QED
  BY <1>2, <1>3, <1>4, <1>5, NoWriteMoves

LEMMA CloseMoves ==
  ASSUME EInv, IInv', NEW c \in Callers, Close(c)
  PROVE  EInv'
<1>1. PICK op \in CloseVerbs, h \in DOMAIN ledger :
         \E amt \in IF op = "reconcile" THEN Amounts ELSE {0} :
            call' = [call EXCEPT ![c] =
                        [NoCall EXCEPT !.op = op, !.id = h, !.amount = amt,
                                       !.class = ledger[h].class,
                                       !.subj = ledger[h].subj]]
  BY DEF Close
<1>2. PICK amt \in IF op = "reconcile" THEN Amounts ELSE {0} :
            call' = [call EXCEPT ![c] =
                        [NoCall EXCEPT !.op = op, !.id = h, !.amount = amt,
                                       !.class = ledger[h].class,
                                       !.subj = ledger[h].subj]]
  BY <1>1
<1>3. /\ TypeOK /\ agg \in [Callers -> Int] /\ pc' = [pc EXCEPT ![c] = "wait"]
      /\ UNCHANGED <<ledger, cited, agg>>
  BY DEF EInv, IInv, BookInv, Close, Goto
<1>4. call'[c].amount = amt /\ amt \in Nat
  <2>1. amt \in Nat
    BY HoldsAssumption
  <2> QED
    BY <1>2, <1>3, <2>1 DEF TypeOK, NoCall
<1>5. \A d \in Callers \ {c} : pc'[d] = pc[d] /\ call'[d] = call[d] /\ agg'[d] = agg[d]
  BY <1>2, <1>3 DEF TypeOK
<1>6. pc'[c] # "decide"
  BY <1>3 DEF TypeOK
<1> QED
  BY <1>3, <1>4, <1>5, <1>6, NoWriteMoves

LEMMA EnterMoves ==
  ASSUME EInv, IInv', NEW c \in Callers, Enter(c)
  PROVE  EInv'
<1>1. /\ TypeOK /\ agg \in [Callers -> Int] /\ pc' = [pc EXCEPT ![c] = "locked"]
      /\ UNCHANGED <<ledger, cited, call, agg>> /\ call[c].amount \in Nat
  BY DEF EInv, IInv, BookInv, Enter, Goto
<1>2. \A d \in Callers \ {c} : pc'[d] = pc[d] /\ call'[d] = call[d] /\ agg'[d] = agg[d]
  BY <1>1 DEF TypeOK
<1>3. pc'[c] # "decide"
  BY <1>1 DEF TypeOK
<1> QED
  BY <1>1, <1>2, <1>3, NoWriteMoves

\* Under the lock, the aggregate that is read is the aggregate.
LEMMA ReadAggregateMoves ==
  ASSUME EInv, IInv', NEW c \in Callers, ReadAggregate(c)
  PROVE  EInv'
<1>1. /\ TypeOK /\ agg \in [Callers -> Int] /\ ledger \in Seq(Record)
      /\ pc' = [pc EXCEPT ![c] = "decide"]
      /\ agg' = [agg EXCEPT ![c] = ActiveExposure(ledger, call[c].subj, call[c].class)]
      /\ UNCHANGED <<ledger, cited, call>>
  BY DEF EInv, IInv, TypeOK, BookInv, ReadAggregate, Goto
<1>2. PICK x \in Int : x = ActiveExposure(ledger, call[c].subj, call[c].class)
  BY <1>1, ExposureType
<1>3. agg' \in [Callers -> Int] /\ agg'[c] = x /\ \A d \in Callers \ {c} : agg'[d] = agg[d]
  BY <1>1, <1>2
<1>4. \A d \in Callers \ {c} : pc'[d] = pc[d]
  BY <1>1 DEF TypeOK
<1>5. AggInv'
  <2> SUFFICES ASSUME NEW d \in Callers, pc'[d] = "decide", call'[d].op = "reserve",
                      call'[d].class \in Classes
               PROVE  agg'[d] = ActiveExposure(ledger', call'[d].subj, call'[d].class)
    BY DEF AggInv
  <2>1. call' = call /\ ledger' = ledger
    BY <1>1
  <2>2. CASE d = c
    BY <1>2, <1>3, <2>1, <2>2
  <2>3. CASE d # c
    BY <1>3, <1>4, <2>1, <2>3 DEF EInv, AggInv
  <2> QED
    BY <2>2, <2>3
<1>6. \A d \in Callers : call'[d].amount \in Nat
  BY <1>1 DEF EInv, BookInv
<1> QED
  BY <1>1, <1>3, <1>5, <1>6, NoWriteStep

LEMMA ReadStatusMoves ==
  ASSUME EInv, IInv', NEW c \in Callers, ReadStatus(c)
  PROVE  EInv'
<1>1. /\ TypeOK /\ agg \in [Callers -> Int] /\ pc' = [pc EXCEPT ![c] = "decide"]
      /\ call' = [call EXCEPT ![c].status = HoldStatus(ledger, call[c].id),
                              ![c].term = TerminalSeen(ledger, call[c].id)]
      /\ UNCHANGED <<ledger, cited, agg>> /\ call[c].amount \in Nat
      /\ call[c].op \in CloseVerbs
  BY DEF EInv, IInv, BookInv, ReadStatus, Goto
<1>2. call'[c].amount = call[c].amount /\ call'[c].op = call[c].op
  BY <1>1 DEF TypeOK, Call
<1>3. call[c].op # "reserve"
  BY <1>1 DEF CloseVerbs
<1>4. \A d \in Callers \ {c} : pc'[d] = pc[d] /\ call'[d] = call[d] /\ agg'[d] = agg[d]
  BY <1>1 DEF TypeOK
<1> QED
  BY <1>1, <1>2, <1>3, <1>4, NoWriteMoves

LEMMA AppendFailsMoves ==
  ASSUME EInv, IInv', NEW c \in Callers, AppendFails(c)
  PROVE  EInv'
<1>1. Finish(c) /\ UNCHANGED <<ledger, cited>>
  BY DEF AppendFails
<1> QED
  BY <1>1, FinishLeaves, NoWriteMoves

LEMMA RecheckMoves ==
  ASSUME EInv, IInv', NEW c \in Callers, RecheckHold(c)
  PROVE  EInv'
<1>1. PICK h \in DOMAIN ledger :
         call' = [call EXCEPT ![c] =
                     [NoCall EXCEPT !.op = "approve", !.id = h,
                                    !.subj = ledger[h].subj,
                                    !.status = HoldStatus(ledger, h)]]
  BY DEF RecheckHold
<1>2. /\ TypeOK /\ agg \in [Callers -> Int] /\ pc' = [pc EXCEPT ![c] = "resume"]
      /\ UNCHANGED <<ledger, cited, agg>>
  BY DEF EInv, IInv, BookInv, RecheckHold, Goto
<1>3. call'[c].amount = 0
  BY <1>1, <1>2 DEF TypeOK, NoCall
<1>4. \A d \in Callers \ {c} : pc'[d] = pc[d] /\ call'[d] = call[d] /\ agg'[d] = agg[d]
  BY <1>1, <1>2 DEF TypeOK
<1>5. pc'[c] # "decide"
  BY <1>2 DEF TypeOK
<1> QED
  BY <1>2, <1>3, <1>4, <1>5, NoWriteMoves

\* A record that stops verifying still counts: hold statuses change, sums do
\* not.
LEMMA CorruptMoves ==
  ASSUME EInv, IInv', Corrupt
  PROVE  EInv'
<1>1. /\ TypeOK /\ Backwards(ledger) /\ ledger \in Seq(Record)
      /\ UNCHANGED <<cited, pc, call, agg>>
  BY DEF EInv, IInv, TypeOK, BookInv, Corrupt
<1>2. PICK i \in DOMAIN ledger : ledger' = [ledger EXCEPT ![i].ok = FALSE]
  BY DEF Corrupt
<1>3. PICK new : new = [ledger[i] EXCEPT !.ok = FALSE]
  OBVIOUS
<1>4. ledger[i] \in Record
  BY <1>1
<1>5. /\ new \in Record /\ new.parent = ledger[i].parent /\ new.rel = ledger[i].rel
      /\ new.verb = ledger[i].verb /\ new.class = ledger[i].class
      /\ new.subj = ledger[i].subj /\ new.accept = ledger[i].accept
      /\ new.amount = ledger[i].amount /\ new.reserved = ledger[i].reserved
      /\ new.executed = ledger[i].executed
  BY <1>3, <1>4 DEF Record
<1>6. ledger' = [ledger EXCEPT ![i] = new]
  BY <1>2, <1>3
<1>7. /\ ledger' \in Seq(Record) /\ Len(ledger') = Len(ledger)
      /\ DOMAIN ledger' = DOMAIN ledger /\ ledger'[i] = new
      /\ \A j \in DOMAIN ledger : j # i => ledger'[j] = ledger[j]
  BY <1>1, <1>5, <1>6
<1>8. SameBooks(ledger', ledger)
  BY <1>5, <1>7 DEF SameBooks
<1>9. \A s, cls : ActiveExposure(ledger', s, cls) = ActiveExposure(ledger, s, cls)
  BY <1>1, <1>7, <1>8, ExposureOfBooks
<1>10. BookInv'
  BY <1>1, <1>7, <1>8 DEF EInv, BookInv, Backwards, SameBooks
<1>11. AggInv'
  BY <1>1, <1>9 DEF EInv, AggInv
<1>12. ExposureIsSettledSum' /\ CapRespected'
  <2>1. ASSUME NEW cls \in Classes, NEW s \in Subjects
        PROVE  /\ ActiveExposure(ledger, s, cls)' = SettledSum(cls, s)'
               /\ ActiveExposure(ledger, s, cls)' <= Cap[cls] + Overrun(cls, s)'
    <3>1. Moves(cls, s, 0, 0)
      BY <1>1, <1>7, <1>8, BooksMove
    <3>2. /\ ActiveExposure(ledger, s, cls) = SettledSum(cls, s)
          /\ ActiveExposure(ledger, s, cls) <= Cap[cls] + Overrun(cls, s)
      BY DEF EInv, AggregatesAreExact, ExposureIsSettledSum, CapRespected
    <3>3. /\ ActiveExposure(ledger, s, cls) \in Int /\ Overrun(cls, s) \in Int
          /\ Cap[cls] \in Int
      BY <1>1, ExposureType, OverrunType, HoldsAssumption
    <3> QED
      BY <3>1, <3>2, <3>3 DEF Moves
  <2> QED
    BY <2>1 DEF ExposureIsSettledSum, CapRespected
<1>13. CappedCitationExact'
  <2> SUFFICES ASSUME NEW k \in DOMAIN ledger', ledger'[k].verb = "reserve",
                      ledger'[k].class \in Classes
               PROVE  cited'[k] = ActiveExposure(SubSeq(ledger', 1, k - 1),
                                                 ledger'[k].subj, ledger'[k].class)
    BY DEF CappedCitationExact
  <2>1. PICK l, m : l = SubSeq(ledger, 1, k - 1) /\ m = SubSeq(ledger', 1, k - 1)
    OBVIOUS
  <2>2. k - 1 \in 0 .. Len(ledger)
    BY <1>1, <1>7
  <2>3. /\ l \in Seq(Record) /\ Len(l) = k - 1 /\ DOMAIN l = 1 .. (k - 1)
        /\ \A j \in 1 .. (k - 1) : l[j] = ledger[j]
    BY <1>1, <2>1, <2>2, PrefixIs
  <2>4. /\ m \in Seq(Record) /\ Len(m) = k - 1 /\ DOMAIN m = 1 .. (k - 1)
        /\ \A j \in 1 .. (k - 1) : m[j] = ledger'[j]
    BY <1>7, <2>1, <2>2, PrefixIs
  <2>5. 1 .. (k - 1) \subseteq DOMAIN ledger
    BY <1>1, <2>2
  <2>6. SameBooks(m, l)
    BY <1>8, <2>3, <2>4, <2>5 DEF SameBooks
  <2>7. Backwards(l)
    BY <1>1, <2>3, <2>5 DEF Backwards
  <2>8. \A s, cls : ActiveExposure(m, s, cls) = ActiveExposure(l, s, cls)
    BY <2>3, <2>4, <2>6, <2>7, ExposureOfBooks
  <2>9. /\ ledger[k].verb = "reserve" /\ ledger[k].class \in Classes /\ k \in DOMAIN ledger
        /\ ledger'[k].subj = ledger[k].subj /\ ledger'[k].class = ledger[k].class
    BY <1>7, <1>8 DEF SameBooks
  <2>10. cited[k] = ActiveExposure(l, ledger[k].subj, ledger[k].class)
    BY <2>1, <2>9 DEF EInv, AggregatesAreExact, CappedCitationExact
  <2> QED
    BY <1>1, <2>1, <2>8, <2>9, <2>10
<1> QED
  BY <1>10, <1>11, <1>12, <1>13 DEF EInv, AggregatesAreExact

LEMMA StutterMoves ==
  ASSUME EInv, IInv', UNCHANGED vars
  PROVE  EInv'
<1>1. UNCHANGED <<ledger, cited>> /\ pc' = pc /\ call' = call /\ agg' = agg
  BY DEF vars
<1>2. AggInv'
  BY <1>1 DEF EInv, AggInv
<1>3. agg' \in [Callers -> Int] /\ \A c \in Callers : call'[c].amount \in Nat
  BY <1>1 DEF EInv, BookInv
<1> QED
  BY <1>1, <1>2, <1>3, NoWriteStep

LEMMA NextEInv == EInv /\ [Next]_vars => EInv'
<1> SUFFICES ASSUME EInv, [Next]_vars PROVE EInv'
  OBVIOUS
<1>1. IInv'
  BY NextIInv DEF EInv
<1>2. ASSUME NEW c \in Callers, Step(c)
      PROVE  EInv'
  <2>1. CASE EvaluateUnavailable(c)
    BY <1>1, <2>1, UnavailableMoves
  <2>2. CASE Evaluate(c)
    BY <1>1, <2>2, EvaluateMoves
  <2>3. CASE Close(c)
    BY <1>1, <2>3, CloseMoves
  <2>4. CASE Enter(c)
    BY <1>1, <2>4, EnterMoves
  <2>5. CASE ReadAggregate(c)
    BY <1>1, <2>5, ReadAggregateMoves
  <2>6. CASE ReadStatus(c)
    BY <1>1, <2>6, ReadStatusMoves
  <2>7. CASE AppendReserve(c)
    BY <1>1, <2>7, AppendReserveMoves
  <2>8. CASE AppendClose(c)
    BY <1>1, <2>8, AppendCloseMoves
  <2>9. CASE AppendFails(c)
    BY <1>1, <2>9, AppendFailsMoves
  <2>10. CASE RecheckHold(c)
    BY <1>1, <2>10, RecheckMoves
  <2>11. CASE SealApproval(c)
    BY <1>1, <2>11, SealApprovalMoves
  <2>12. CASE SealWithoutHold(c)
    BY <1>1, <2>12, SealWithoutHoldMoves
  <2> QED
    BY <1>2, <2>1, <2>2, <2>3, <2>4, <2>5, <2>6, <2>7, <2>8, <2>9, <2>10, <2>11, <2>12
       DEF Step
<1>3. CASE Corrupt
  BY <1>1, <1>3, CorruptMoves
<1>4. CASE UNCHANGED vars \/ Quiescent
  <2>1. UNCHANGED vars
    BY <1>4 DEF Quiescent
  <2> QED
    BY <1>1, <2>1, StutterMoves
<1> QED
  BY <1>2, <1>3, <1>4 DEF Next

\* scope.py and evaluate_and_reserve: however calls interleave, no thread
\* reserves a scope beyond its cap; only reconciling within tolerance exceeds it.
THEOREM CapHolds == Spec => []CapRespected
<1>1. EInv => CapRespected
  BY DEF EInv
<1> QED
  BY <1>1, InitEInv, NextEInv, PTL DEF Spec

\* aggregate.py: the signed deltas of a capped scope always add up to what its
\* holds settled to, and each reserve cites the sum of the prefix before it.
THEOREM AggregatesStayExact == Spec => []AggregatesAreExact
<1>1. EInv => AggregatesAreExact
  BY DEF EInv
<1> QED
  BY <1>1, InitEInv, NextEInv, PTL DEF Spec

=============================================================================
