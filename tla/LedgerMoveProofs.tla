------------------------- MODULE LedgerMoveProofs -------------------------
(***************************************************************************)
(* Proofs about LedgerMove, for any number of sealing processes, engines   *)
(* and imports and any number of failures.                                 *)
(*                                                                         *)
(* Nothing is left behind (IInv): while an import holds both locks, what   *)
(* it read is what the file holds, and a call that passed its recheck has  *)
(* the lock the import would need.                                         *)
(*                                                                         *)
(* One producer (KInv): the key beside the flat ledger signed all that is  *)
(* in it, an import that reports no difference publishes that key with the *)
(* store, and a key that exists stays.                                     *)
(***************************************************************************)
EXTENDS LedgerMove, TLAPS

\* Who is past a lock holds it.
LocksHeld ==
    \A p \in Procs :
        /\ pc[p] \in {"precheck", "write"} => flatLock = p
        /\ pc[p] \in {"lock flat", "read", "copy key", "publish"} => storeLock = p
        /\ pc[p] \in {"read", "copy key", "publish"} => flatLock = p

\* While an import holds both locks, what it read is what the file holds,
\* and nobody else publishes a store.
SnapIsFlat ==
    \A p \in Procs :
        pc[p] \in {"copy key", "publish"} => snap[p] = flat /\ dir # "store"

\* A call that passed the precheck writes before any import publishes.
WriteBeforeMove == \A p \in Procs : pc[p] = "write" => copied = -1

MovedMeansStore == copied # -1 => dir = "store"

\* The second attempt starts when a store is there, and targets it.
RetryTargetsStore ==
    \A p \in Procs :
        /\ pc[p] \in {"precheck", "write"} => call[p].target = "flat"
        /\ call[p].attempt = 2 => dir = "store"
        /\ call[p].attempt = 2 /\ pc[p] # "resolve" => call[p].target = "store"
        /\ pc[p] # "raised"

EmptyUntilStore == dir # "store" => store = <<>>

IInv ==
    /\ TypeOK /\ LocksHeld /\ SnapIsFlat /\ WriteBeforeMove /\ MovedMeansStore
    /\ RetryTargetsStore /\ EmptyUntilStore /\ NothingLeftBehind

-----------------------------------------------------------------------------
\* The initial states satisfy the invariant.
LEMMA InitIInv == Init => IInv
  <1> SUFFICES ASSUME Init PROVE IInv
    OBVIOUS
  <1> USE MoveAssumption DEF Init
  <1>1. TypeOK
    <2>1. Line(0, "capsule", FlatKey) \in LineType
      BY DEF Line, LineType, Keys
    <2>a. flat \in Seq(LineType) /\ store \in Seq(LineType)
      <3>1. <<>> \in Seq(LineType) /\ <<Line(0, "capsule", FlatKey)>> \in Seq(LineType)
        BY <2>1
      <3> QED
        BY <3>1
    <2>b. differs \in BOOLEAN /\ copied \in Nat \cup {-1}
      OBVIOUS
    <2>2. DiskOK
      BY <2>a, <2>b DEF DiskOK
    <2>3. NoCall \in CallType /\ "idle" \in Labels /\ <<>> \in Seq(LineType)
      BY DEF NoCall, CallType, Labels
    <2>4. CallsOK
      BY <2>3 DEF CallsOK
    <2> QED
      BY <2>2, <2>4 DEF TypeOK
  <1>2. LocksHeld /\ SnapIsFlat /\ WriteBeforeMove /\ MovedMeansStore
    BY DEF LocksHeld, SnapIsFlat, WriteBeforeMove, MovedMeansStore
  <1>3. RetryTargetsStore /\ EmptyUntilStore
    BY DEF RetryTargetsStore, EmptyUntilStore, NoCall
  <1>4. NothingLeftBehind
    BY DEF NothingLeftBehind, Stragglers
  <1> QED
    BY <1>1, <1>2, <1>3, <1>4 DEF IInv

\* A line has the type of a line.
LEMMA LineTyped ==
  ASSUME NEW id \in Nat, NEW kind \in {"capsule", "hold", "stamp"},
         NEW k \in Keys \cup {NoKey}
  PROVE  Line(id, kind, k) \in LineType
  BY DEF Line, LineType

\* A call that is set up, resolved, signed or retried is still a call.
LEMMA CallTyped ==
  ASSUME NEW c \in CallType
  PROVE  /\ NoCall \in CallType
         /\ \A x \in Nat : [c EXCEPT !.id = x] \in CallType
         /\ \A x \in {"flat", "store"} : [c EXCEPT !.target = x] \in CallType
         /\ \A x \in Keys \cup {NoKey} : [c EXCEPT !.key = x] \in CallType
         /\ \A x \in 1..2 : [c EXCEPT !.attempt = x] \in CallType
  BY DEF CallType, NoCall

\* What leaving a call does to the calls and the locks.
LEMMA ReturnTyped ==
  ASSUME NEW p \in Procs, CallsOK, Return(p)
  PROVE  /\ pc' \in [Procs -> Labels] /\ call' \in [Procs -> CallType]
         /\ snap' \in [Procs -> Seq(LineType)]
         /\ flatLock' \in Procs \cup {Nobody} /\ storeLock' \in Procs \cup {Nobody}
  <1>1. NoCall \in CallType
    BY CallTyped DEF CallsOK
  <1>2. <<>> \in Seq(LineType)
    OBVIOUS
  <1>3. "idle" \in Labels
    BY DEF Labels
  <1>4. pc' \in [Procs -> Labels] /\ call' \in [Procs -> CallType]
    BY <1>1, <1>3 DEF CallsOK, Return, Goto
  <1>5. snap' \in [Procs -> Seq(LineType)]
    BY <1>2 DEF CallsOK, Return
  <1>6. flatLock' \in Procs \cup {Nobody} /\ storeLock' \in Procs \cup {Nobody}
    BY DEF CallsOK, Return, Release
  <1> QED
    BY <1>4, <1>5, <1>6

\* Types are kept by the steps of a seal().
LEMMA SealTyped ==
  ASSUME IInv, NEW t \in Sealers, Seal(t) \/ SealStep(t)
  PROVE  TypeOK'
  <1> USE DEF disk, keys, locks, calls, bounds
  <1>0. /\ t \in Procs /\ CallsOK /\ DiskOK /\ t \in Keys
        /\ call[t] \in CallType /\ FlatKey \in Keys
    BY DEF Procs, Keys, IInv, TypeOK, CallsOK
  <1>a. call[t].id \in Nat /\ call[t].key \in Keys \cup {NoKey}
    BY <1>0 DEF CallType
  <1>b. Line(call[t].id, "capsule", call[t].key) \in LineType
    BY <1>a, LineTyped
  <1>1. CASE Seal(t)
    <2>1. DiskOK'
      BY <1>1, <1>0 DEF Seal, DiskOK
    <2>a. lines' \in Nat
      BY <1>1, <1>0 DEF Seal, CallsOK
    <2>2. [call[t] EXCEPT !.id = lines'] \in CallType
      BY <2>a, <1>0, CallTyped
    <2>3. CallsOK'
      BY <1>1, <1>0, <2>a, <2>2 DEF Seal, Goto, CallsOK, Labels
    <2> QED
      BY <2>1, <2>3 DEF TypeOK
  <1>2. CASE Resolve(t)
    <2>1. DiskOK'
      BY <1>2, <1>0 DEF Resolve, DiskOK
    <2>2. [call[t] EXCEPT !.target = DefaultTarget] \in CallType
      BY <1>0, CallTyped DEF DefaultTarget
    <2>3. CallsOK'
      BY <1>2, <1>0, <2>2 DEF Resolve, Goto, CallsOK, Labels
    <2> QED
      BY <2>1, <2>3 DEF TypeOK
  <1>3. CASE SignFlat(t)
    <2>1. DiskOK'
      BY <1>3, <1>0 DEF SignFlat, DiskOK
    <2>2. [call[t] EXCEPT !.key = FlatKey] \in CallType
      BY <1>0, CallTyped
    <2>3. CallsOK'
      BY <1>3, <1>0, <2>2 DEF SignFlat, Goto, CallsOK, Labels
    <2> QED
      BY <2>1, <2>3 DEF TypeOK
  <1>4. CASE SignStore(t)
    <2>1. DiskOK'
      BY <1>4, <1>0 DEF SignStore, DiskOK
    <2>2. [call[t] EXCEPT !.key = storeKey'] \in CallType
      BY <2>1, <1>0, CallTyped DEF DiskOK
    <2>3. CallsOK'
      BY <1>4, <1>0, <2>2 DEF SignStore, Goto, CallsOK, Labels
    <2> QED
      BY <2>1, <2>3 DEF TypeOK
  <1>5. CASE LockFlat(t) \/ Precheck(t)
    BY <1>5, <1>0 DEF LockFlat, Precheck, Goto, TypeOK, DiskOK, CallsOK, Labels
  <1>6. CASE Locked(t)
    <2>1. DiskOK'
      BY <1>6, <1>0 DEF Locked, DiskOK
    <2>2. CallsOK'
      BY <1>6, <1>0, ReturnTyped DEF Locked, CallsOK
    <2> QED
      BY <2>1, <2>2 DEF TypeOK
  <1>7. CASE RunAgain(t)
    <2>1. DiskOK'
      BY <1>7, <1>0 DEF RunAgain, DiskOK
    <2>2. call[t].attempt = 1
      BY <1>7, <1>0 DEF RunAgain, IInv, RetryTargetsStore, CallType
    <2>a. call[t].attempt + 1 \in 1..2
      BY <2>2
    <2>3. [call[t] EXCEPT !.attempt = call[t].attempt + 1] \in CallType
      BY <1>0, <2>a, CallTyped
    <2>4. CallsOK'
      BY <1>7, <1>0, <2>3 DEF RunAgain, Release, Goto, CallsOK, Labels
    <2> QED
      BY <2>1, <2>4 DEF TypeOK
  <1>8. CASE WriteFlat(t)
    <2>1. DiskOK'
      BY <1>8, <1>0, <1>b DEF WriteFlat, DiskOK
    <2>2. CallsOK'
      BY <1>8, <1>0, ReturnTyped DEF WriteFlat, CallsOK
    <2> QED
      BY <2>1, <2>2 DEF TypeOK
  <1>9. CASE WriteStore(t)
    <2>1. DiskOK'
      BY <1>9, <1>0, <1>b DEF WriteStore, AppendToStore, DiskOK
    <2>2. CallsOK'
      BY <1>9, <1>0, ReturnTyped DEF WriteStore, CallsOK
    <2> QED
      BY <2>1, <2>2 DEF TypeOK
  <1> QED
    BY <1>1, <1>2, <1>3, <1>4, <1>5, <1>6, <1>7, <1>8, <1>9 DEF SealStep

\* Types are kept by engines, imports and failures.
LEMMA OthersTyped ==
  ASSUME IInv,
         \/ \E e \in Engines : OpenEngine(e) \/ AppendHold(e)
         \/ \E i \in Importers : Import(i) \/ ImportStep(i)
         \/ \E p \in Sealers \cup Importers : Fails(p)
         \/ Stamp \/ MakeDir
  PROVE  TypeOK'
  <1> USE DEF disk, keys, locks, calls, bounds
  <1>0. CallsOK /\ DiskOK
    BY DEF IInv, TypeOK
  <1>1. ASSUME NEW e \in Engines, OpenEngine(e) PROVE TypeOK'
    <2>0. e \in Procs /\ call[e] \in CallType
      BY <1>0 DEF Procs, CallsOK
    <2>1. DiskOK'
      BY <1>1, <1>0 DEF OpenEngine, DiskOK
    <2>2. [call[e] EXCEPT !.target = DefaultTarget] \in CallType
      BY <2>0, CallTyped DEF DefaultTarget
    <2>3. CallsOK'
      BY <1>1, <1>0, <2>0, <2>2 DEF OpenEngine, Goto, CallsOK, Labels
    <2> QED
      BY <2>1, <2>3 DEF TypeOK
  <1>2. ASSUME NEW e \in Engines, AppendHold(e) PROVE TypeOK'
    <2>1. CallsOK' /\ lines + 1 \in Nat
      BY <1>2, <1>0 DEF AppendHold, CallsOK
    <2>2. Line(lines + 1, "hold", NoKey) \in LineType
      BY <2>1, LineTyped
    <2>3. DiskOK'
      <3>1. CASE AppendToFlat(Line(lines + 1, "hold", NoKey))
        BY <1>2, <1>0, <2>2, <3>1 DEF AppendHold, AppendToFlat, DiskOK
      <3>2. CASE AppendToStore(Line(lines + 1, "hold", NoKey))
        BY <1>2, <1>0, <2>2, <3>2 DEF AppendHold, AppendToStore, DiskOK
      <3> QED
        BY <1>2, <3>1, <3>2 DEF AppendHold
    <2> QED
      BY <2>1, <2>3 DEF TypeOK
  <1>3. ASSUME Stamp PROVE TypeOK'
    <2>1. CallsOK' /\ lines + 1 \in Nat
      BY <1>3, <1>0 DEF Stamp, CallsOK
    <2>2. Line(lines + 1, "stamp", NoKey) \in LineType
      BY <2>1, LineTyped
    <2>3. DiskOK'
      BY <1>3, <1>0, <2>2 DEF Stamp, AppendToFlat, DiskOK
    <2> QED
      BY <2>1, <2>3 DEF TypeOK
  <1>4. ASSUME MakeDir PROVE TypeOK'
    BY <1>4, <1>0 DEF MakeDir, TypeOK, DiskOK, CallsOK
  <1>5. ASSUME NEW i \in Importers, Import(i) \/ ImportStep(i) PROVE TypeOK'
    <2>0. i \in Procs
      BY DEF Procs
    <2>1. CASE Import(i) \/ ImportLocksStore(i) \/ ImportLocksFlat(i)
      <3>1. DiskOK'
        BY <2>1, <1>0 DEF Import, ImportLocksStore, ImportLocksFlat, DiskOK
      <3>2. CallsOK'
        BY <2>1, <1>0, <2>0
        DEF Import, ImportLocksStore, ImportLocksFlat, Goto, CallsOK, Labels
      <3> QED
        BY <3>1, <3>2 DEF TypeOK
    <2>2. CASE ReadSource(i)
      <3>1. DiskOK'
        BY <2>2, <1>0 DEF ReadSource, DiskOK
      <3>2. flat \in Seq(LineType)
        BY <1>0 DEF DiskOK
      <3>3. CallsOK'
        BY <2>2, <1>0, <2>0, <3>2 DEF ReadSource, Goto, CallsOK, Labels
      <3> QED
        BY <3>1, <3>3 DEF TypeOK
    <2>3. CASE CopyKey(i)
      <3>1. differs' \in BOOLEAN
        BY <2>3 DEF CopyKey
      <3>2. DiskOK'
        BY <2>3, <1>0, <3>1 DEF CopyKey, DiskOK, Keys
      <3>3. CallsOK'
        BY <2>3, <1>0, <2>0 DEF CopyKey, Goto, CallsOK, Labels
      <3> QED
        BY <3>2, <3>3 DEF TypeOK
    <2>4. CASE Publish(i)
      <3>1. snap[i] \in Seq(LineType) /\ Len(snap[i]) \in Nat
        BY <1>0, <2>0 DEF CallsOK
      <3>2. DiskOK'
        BY <2>4, <1>0, <3>1 DEF Publish, DiskOK
      <3>3. CallsOK'
        BY <2>4, <1>0, <2>0, ReturnTyped DEF Publish, CallsOK
      <3> QED
        BY <3>2, <3>3 DEF TypeOK
    <2> QED
      BY <1>5, <2>1, <2>2, <2>3, <2>4 DEF ImportStep
  <1>6. ASSUME NEW p \in Sealers \cup Importers, Fails(p) PROVE TypeOK'
    <2>0. p \in Procs
      BY DEF Procs
    <2>1. DiskOK'
      BY <1>6, <1>0 DEF Fails, DiskOK
    <2>2. failures' \in Nat /\ lines' \in Nat
      BY <1>6, <1>0 DEF Fails, CallsOK
    <2>3. CallsOK'
      BY <1>6, <1>0, <2>0, <2>2, ReturnTyped DEF Fails, CallsOK
    <2> QED
      BY <2>1, <2>3 DEF TypeOK
  <1> QED
    BY <1>1, <1>2, <1>3, <1>4, <1>5, <1>6

-----------------------------------------------------------------------------
\* The locks and the labels agree after every step: a lock is taken only
\* when nobody has it, and the one who has it releases it when the call ends.
LEMMA LocksKept == IInv /\ Next => LocksHeld'
  <1> SUFFICES ASSUME IInv, Next PROVE LocksHeld'
    OBVIOUS
  <1> USE MoveAssumption DEF locks, calls, Goto
  <1>0. /\ pc \in [Procs -> Labels] /\ LocksHeld /\ Nobody \notin Procs
        /\ Sealers \subseteq Procs /\ Importers \subseteq Procs
        /\ Engines \subseteq Procs
    BY DEF IInv, TypeOK, CallsOK, Procs
  <1>1. ASSUME NEW p \in Procs, Return(p) PROVE LocksHeld'
    BY <1>1, <1>0 DEF Return, Release, LocksHeld
  <1>2. ASSUME NEW t \in Sealers, Seal(t) \/ SealStep(t) PROVE LocksHeld'
    <2>0. t \in Procs
      BY <1>0
    <2>1. CASE Seal(t) \/ Resolve(t) \/ SignFlat(t) \/ SignStore(t) \/ Precheck(t)
      BY <2>1, <2>0, <1>0
      DEF Seal, Resolve, SignFlat, SignStore, Precheck, LocksHeld
    <2>2. CASE LockFlat(t)
      BY <2>2, <2>0, <1>0 DEF LockFlat, LocksHeld
    <2>3. CASE RunAgain(t)
      BY <2>3, <2>0, <1>0 DEF RunAgain, Release, LocksHeld
    <2>4. CASE Locked(t) \/ WriteFlat(t) \/ WriteStore(t)
      BY <2>4, <2>0, <1>1 DEF Locked, WriteFlat, WriteStore
    <2> QED
      BY <1>2, <2>1, <2>2, <2>3, <2>4 DEF SealStep
  <1>3. ASSUME NEW e \in Engines, OpenEngine(e) \/ AppendHold(e) PROVE LocksHeld'
    BY <1>3, <1>0 DEF OpenEngine, AppendHold, LocksHeld
  <1>4. ASSUME NEW i \in Importers, Import(i) \/ ImportStep(i) PROVE LocksHeld'
    <2>0. i \in Procs
      BY <1>0
    <2>1. CASE Import(i) \/ ReadSource(i) \/ CopyKey(i)
      BY <2>1, <2>0, <1>0 DEF Import, ReadSource, CopyKey, LocksHeld
    <2>2. CASE ImportLocksStore(i)
      BY <2>2, <2>0, <1>0 DEF ImportLocksStore, LocksHeld
    <2>3. CASE ImportLocksFlat(i)
      BY <2>3, <2>0, <1>0 DEF ImportLocksFlat, LocksHeld
    <2>4. CASE Publish(i)
      BY <2>4, <2>0, <1>1 DEF Publish
    <2> QED
      BY <1>4, <2>1, <2>2, <2>3, <2>4 DEF ImportStep
  <1>5. ASSUME NEW p \in Sealers \cup Importers, Fails(p) PROVE LocksHeld'
    BY <1>5, <1>0, <1>1 DEF Fails
  <1>6. CASE Stamp \/ MakeDir
    BY <1>6, <1>0 DEF Stamp, MakeDir, LocksHeld
  <1> QED
    BY <1>2, <1>3, <1>4, <1>5, <1>6 DEF Next

\* Who writes, and when: a line reaches a ledger whose lock is free or the
\* writer's own, and a store is published by an import that holds both locks.
LEMMA DiskSteps ==
  ASSUME IInv, Next
  PROVE  \/ UNCHANGED disk
         \/ MakeDir
         \/ \E t \in Sealers : WriteFlat(t)
         \/ \E k \in {"hold", "stamp"} : AppendToFlat(Line(lines + 1, k, NoKey))
         \/ \E x \in LineType : AppendToStore(x)
         \/ \E i \in Importers : Publish(i)
  <1> USE DEF disk
  <1>1. ASSUME NEW t \in Sealers, WriteStore(t)
        PROVE \E x \in LineType : AppendToStore(x)
    <2>1. call[t] \in CallType
      BY DEF IInv, TypeOK, CallsOK, Procs
    <2>2. Line(call[t].id, "capsule", call[t].key) \in LineType
      BY <2>1, LineTyped DEF CallType
    <2> QED
      BY <1>1, <2>2 DEF WriteStore
  <1>2. ASSUME NEW t \in Sealers, Seal(t) \/ SealStep(t), ~WriteFlat(t), ~WriteStore(t)
        PROVE UNCHANGED disk
    BY <1>2 DEF Seal, SealStep, Resolve, SignFlat, SignStore, LockFlat, Locked,
                Precheck, RunAgain
  <1>3. ASSUME NEW e \in Engines, AppendHold(e)
        PROVE \/ \E k \in {"hold", "stamp"} : AppendToFlat(Line(lines + 1, k, NoKey))
              \/ \E x \in LineType : AppendToStore(x)
    <2>1. lines + 1 \in Nat
      BY <1>3 DEF AppendHold, IInv, TypeOK, CallsOK
    <2>2. Line(lines + 1, "hold", NoKey) \in LineType
      BY <2>1, LineTyped
    <2> QED
      BY <1>3, <2>2 DEF AppendHold
  <1>4. ASSUME NEW e \in Engines, OpenEngine(e) PROVE UNCHANGED disk
    BY <1>4 DEF OpenEngine
  <1>5. ASSUME NEW i \in Importers, Import(i) \/ ImportStep(i), ~Publish(i)
        PROVE UNCHANGED disk
    BY <1>5 DEF Import, ImportStep, ImportLocksStore, ImportLocksFlat, ReadSource,
                CopyKey
  <1>6. ASSUME NEW p \in Sealers \cup Importers, Fails(p) PROVE UNCHANGED disk
    BY <1>6 DEF Fails
  <1>7. ASSUME Stamp
        PROVE \E k \in {"hold", "stamp"} : AppendToFlat(Line(lines + 1, k, NoKey))
    BY <1>7 DEF Stamp
  <1> QED
    BY <1>1, <1>2, <1>3, <1>4, <1>5, <1>6, <1>7 DEF Next, SealStep, ImportStep

\* A published store stays published, and nothing but a line or an import
\* makes one.
LEMMA DirKept ==
  IInv /\ Next => /\ dir = "store" => dir' = "store"
                  /\ MovedMeansStore' /\ EmptyUntilStore'
  <1> SUFFICES ASSUME IInv, Next
               PROVE  /\ dir = "store" => dir' = "store"
                      /\ MovedMeansStore' /\ EmptyUntilStore'
    OBVIOUS
  <1> USE DEF IInv, MovedMeansStore, EmptyUntilStore, disk
  <1>1. CASE UNCHANGED disk
    BY <1>1
  <1>2. CASE MakeDir
    BY <1>2 DEF MakeDir
  <1>3. ASSUME NEW t \in Sealers, WriteFlat(t)
        PROVE  /\ dir = "store" => dir' = "store"
               /\ MovedMeansStore' /\ EmptyUntilStore'
    BY <1>3 DEF WriteFlat
  <1>4. ASSUME NEW x, AppendToFlat(x)
        PROVE  /\ dir = "store" => dir' = "store"
               /\ MovedMeansStore' /\ EmptyUntilStore'
    BY <1>4 DEF AppendToFlat
  <1>5. ASSUME NEW x, AppendToStore(x)
        PROVE  /\ dir = "store" => dir' = "store"
               /\ MovedMeansStore' /\ EmptyUntilStore'
    BY <1>5 DEF AppendToStore
  <1>6. ASSUME NEW i \in Importers, Publish(i)
        PROVE  /\ dir = "store" => dir' = "store"
               /\ MovedMeansStore' /\ EmptyUntilStore'
    BY <1>6 DEF Publish
  <1> QED
    BY <1>1, <1>2, <1>3, <1>4, <1>5, <1>6, DiskSteps

\* While an import holds both locks nobody else changes the flat file or
\* publishes a store.
LEMMA SnapKept == IInv /\ Next => SnapIsFlat'
  <1> SUFFICES ASSUME IInv, Next, NEW p \in Procs, pc'[p] \in {"copy key", "publish"}
               PROVE  snap'[p] = flat' /\ dir' # "store"
    BY DEF SnapIsFlat
  <1> USE MoveAssumption
  <1>0. /\ pc \in [Procs -> Labels] /\ LocksHeld /\ SnapIsFlat
        /\ snap \in [Procs -> Seq(LineType)]
    BY DEF IInv, TypeOK, CallsOK
  <1>1. CASE ReadSource(p)
    BY <1>1, <1>0 DEF ReadSource, Goto, DestinationIsNew, disk
  <1>2. CASE ~ReadSource(p)
    <2>1. /\ pc[p] \in {"copy key", "publish"} /\ snap'[p] = snap[p]
          /\ ~Publish(p) /\ ~WriteFlat(p)
      <3> USE <1>0, <1>2 DEF Goto, calls, locks
      <3>1. ASSUME NEW q \in Procs, Return(q)
            PROVE  q # p /\ pc'[p] = pc[p] /\ snap'[p] = snap[p]
        BY <3>1 DEF Return
      <3>2. ASSUME NEW t \in Sealers, Seal(t) \/ SealStep(t)
            PROVE  pc'[p] = pc[p] /\ snap'[p] = snap[p] /\ t # p
        <4>1. CASE Locked(t) \/ WriteFlat(t) \/ WriteStore(t)
          BY <3>1, <4>1 DEF Procs, Locked, WriteFlat, WriteStore
        <4>2. CASE Seal(t) \/ Resolve(t) \/ SignFlat(t) \/ SignStore(t)
          BY <4>2 DEF Procs, Seal, Resolve, SignFlat, SignStore
        <4>3. CASE LockFlat(t) \/ Precheck(t) \/ RunAgain(t)
          BY <4>3 DEF Procs, LockFlat, Precheck, RunAgain
        <4> QED
          BY <3>2, <4>1, <4>2, <4>3 DEF SealStep
      <3>3. ASSUME NEW i \in Importers, Import(i) \/ ImportStep(i)
            PROVE  /\ snap'[p] = snap[p]
                   /\ pc'[p] = pc[p] \/ pc[p] = "copy key"
        <4>1. CASE Import(i) \/ ImportLocksStore(i) \/ ImportLocksFlat(i)
          BY <4>1 DEF Procs, Import, ImportLocksStore, ImportLocksFlat
        <4>2. CASE ReadSource(i)
          BY <4>2 DEF Procs, ReadSource
        <4>3. CASE CopyKey(i)
          BY <4>3 DEF Procs, CopyKey
        <4>4. CASE Publish(i)
          BY <4>4, <3>1 DEF Procs, Publish
        <4> QED
          BY <3>3, <4>1, <4>2, <4>3, <4>4 DEF ImportStep
      <3>4. ASSUME NEW e \in Engines, OpenEngine(e) \/ AppendHold(e)
            PROVE  snap'[p] = snap[p] /\ pc'[p] = pc[p]
        BY <3>4 DEF OpenEngine, AppendHold, Procs
      <3>5. ASSUME NEW q \in Sealers \cup Importers, Fails(q)
            PROVE  snap'[p] = snap[p] /\ pc'[p] = pc[p]
        BY <3>5, <3>1 DEF Fails, Procs
      <3>6. ASSUME Stamp \/ MakeDir PROVE snap'[p] = snap[p] /\ pc'[p] = pc[p]
        BY <3>6 DEF Stamp, MakeDir
      <3>7. ~Publish(p) /\ ~WriteFlat(p)
        BY DEF Publish, WriteFlat, Return
      <3> QED
        BY <3>2, <3>3, <3>4, <3>5, <3>6, <3>7 DEF Next
    <2>2. snap[p] = flat /\ dir # "store" /\ flatLock = p /\ storeLock = p
      BY <2>1, <1>0 DEF LocksHeld, SnapIsFlat
    <2>3. ASSUME NEW t \in Sealers, WriteFlat(t) PROVE FALSE
      BY <2>3, <2>1, <2>2, <1>0 DEF WriteFlat, LocksHeld, Procs
    <2>4. ASSUME NEW x, AppendToFlat(x) \/ AppendToStore(x) PROVE FALSE
      BY <2>4, <2>2 DEF AppendToFlat, AppendToStore
    <2>5. ASSUME NEW i \in Importers, Publish(i) PROVE FALSE
      BY <2>5, <2>1, <2>2, <1>0 DEF Publish, LocksHeld, Procs
    <2>6. UNCHANGED disk \/ MakeDir
      BY <2>3, <2>4, <2>5, DiskSteps
    <2> QED
      BY <2>1, <2>2, <2>6 DEF disk, MakeDir
  <1> QED
    BY <1>1, <1>2

\* Nobody who passed the precheck is still to write when a store is there.
LEMMA WriteKept == IInv /\ Next => WriteBeforeMove'
  <1> SUFFICES ASSUME IInv, Next, NEW p \in Procs, pc'[p] = "write"
               PROVE  copied' = -1
    BY DEF WriteBeforeMove
  <1> USE MoveAssumption
  <1>0. pc \in [Procs -> Labels] /\ LocksHeld /\ WriteBeforeMove /\ MovedMeansStore
    BY DEF IInv, TypeOK, CallsOK
  <1>1. CASE Precheck(p)
    BY <1>1, <1>0 DEF Precheck, DefaultMoved, MovedMeansStore, disk
  <1>2. CASE ~Precheck(p)
    <2>1. pc[p] = "write"
      <3> USE <1>0, <1>2 DEF Goto, calls, locks
      <3>1. ASSUME NEW q \in Procs, Return(q) PROVE pc'[p] = pc[p]
        BY <3>1 DEF Return
      <3>2. ASSUME NEW t \in Sealers, Seal(t) \/ SealStep(t) PROVE pc'[p] = pc[p]
        <4>1. CASE Locked(t) \/ WriteFlat(t) \/ WriteStore(t)
          BY <3>1, <4>1 DEF Procs, Locked, WriteFlat, WriteStore
        <4>2. CASE Seal(t) \/ Resolve(t) \/ SignFlat(t) \/ SignStore(t)
          BY <4>2 DEF Procs, Seal, Resolve, SignFlat, SignStore
        <4>3. CASE LockFlat(t) \/ Precheck(t) \/ RunAgain(t)
          BY <4>3 DEF Procs, LockFlat, Precheck, RunAgain
        <4> QED
          BY <3>2, <4>1, <4>2, <4>3 DEF SealStep
      <3>3. ASSUME NEW i \in Importers, Import(i) \/ ImportStep(i)
            PROVE  pc'[p] = pc[p]
        <4>1. CASE Import(i) \/ ImportLocksStore(i) \/ ImportLocksFlat(i)
          BY <4>1 DEF Procs, Import, ImportLocksStore, ImportLocksFlat
        <4>2. CASE ReadSource(i) \/ CopyKey(i)
          BY <4>2 DEF Procs, ReadSource, CopyKey
        <4>3. CASE Publish(i)
          BY <4>3, <3>1 DEF Procs, Publish
        <4> QED
          BY <3>3, <4>1, <4>2, <4>3 DEF ImportStep
      <3>4. ASSUME NEW e \in Engines, OpenEngine(e) \/ AppendHold(e)
            PROVE  pc'[p] = pc[p]
        BY <3>4 DEF OpenEngine, AppendHold, Procs
      <3>5. ASSUME NEW q \in Sealers \cup Importers, Fails(q) PROVE pc'[p] = pc[p]
        BY <3>5, <3>1 DEF Fails, Procs
      <3>6. CASE Stamp \/ MakeDir
        BY <3>6 DEF Stamp, MakeDir
      <3> QED
        BY <3>2, <3>3, <3>4, <3>5, <3>6 DEF Next
    <2>2. copied = -1 /\ flatLock = p
      BY <2>1, <1>0 DEF WriteBeforeMove, LocksHeld
    <2>3. ASSUME NEW i \in Importers, Publish(i) PROVE FALSE
      <3>1. i = p
        BY <2>3, <2>2, <1>0 DEF Publish, LocksHeld, Procs
      <3> QED
        BY <3>1, <2>3, <2>1 DEF Publish
    <2>4. copied' = copied
      BY <2>3, DiskSteps DEF disk, MakeDir, WriteFlat, AppendToFlat, AppendToStore
    <2> QED
      BY <2>2, <2>4
  <1> QED
    BY <1>1, <1>2

\* A call that targets the flat file is on its first attempt: the second one
\* starts when the store is there.
LEMMA RetryKept == IInv /\ Next => RetryTargetsStore'
  <1> SUFFICES ASSUME IInv, Next PROVE RetryTargetsStore'
    OBVIOUS
  <1> USE MoveAssumption DEF Goto, calls, locks, disk
  <1>0. /\ pc \in [Procs -> Labels] /\ call \in [Procs -> CallType]
        /\ RetryTargetsStore /\ (dir = "store" => dir' = "store")
        /\ Sealers \subseteq Procs /\ Importers \subseteq Procs
        /\ Engines \subseteq Procs
    BY DirKept DEF IInv, TypeOK, CallsOK, Procs
  <1>1. ASSUME NEW p \in Procs, Return(p) PROVE RetryTargetsStore'
    BY <1>1, <1>0 DEF Return, RetryTargetsStore, NoCall
  <1>2. ASSUME NEW t \in Sealers, Seal(t) \/ SealStep(t) PROVE RetryTargetsStore'
    <2>0. t \in Procs /\ call[t] \in CallType
      BY <1>0
    <2>1. CASE Seal(t)
      BY <2>1, <2>0, <1>0 DEF Seal, RetryTargetsStore, CallType
    <2>2. CASE Resolve(t)
      BY <2>2, <2>0, <1>0 DEF Resolve, DefaultTarget, RetryTargetsStore, CallType
    <2>3. CASE SignFlat(t)
      BY <2>3, <2>0, <1>0 DEF SignFlat, RetryTargetsStore, CallType
    <2>4. CASE SignStore(t)
      BY <2>4, <2>0, <1>0 DEF SignStore, RetryTargetsStore, CallType
    <2>5. CASE LockFlat(t) \/ Precheck(t)
      BY <2>5, <2>0, <1>0 DEF LockFlat, Precheck, RetryTargetsStore
    <2>6. CASE RunAgain(t)
      <3>1. call[t].attempt = 1
        BY <2>6, <2>0, <1>0 DEF RunAgain, RetryTargetsStore, CallType
      <3>2. pc'[t] = "resolve" /\ dir = "store"
        BY <2>6, <2>0, <1>0, <3>1 DEF RunAgain, DefaultMoved
      <3> QED
        BY <2>6, <2>0, <1>0, <3>2 DEF RunAgain, RetryTargetsStore
    <2>7. CASE Locked(t) \/ WriteFlat(t) \/ WriteStore(t)
      BY <2>7, <2>0, <1>1 DEF Locked, WriteFlat, WriteStore
    <2> QED
      BY <1>2, <2>1, <2>2, <2>3, <2>4, <2>5, <2>6, <2>7 DEF SealStep
  <1>3. ASSUME NEW e \in Engines, OpenEngine(e) \/ AppendHold(e)
        PROVE  RetryTargetsStore'
    <2>1. CASE OpenEngine(e)
      <3>1. e \in Procs /\ call[e] \in CallType
        BY <1>0
      <3> QED
        BY <2>1, <3>1, <1>0 DEF OpenEngine, DefaultTarget, RetryTargetsStore, CallType
    <2>2. CASE AppendHold(e)
      BY <2>2, <1>0 DEF AppendHold, RetryTargetsStore
    <2> QED
      BY <1>3, <2>1, <2>2
  <1>4. ASSUME NEW i \in Importers, Import(i) \/ ImportStep(i)
        PROVE  RetryTargetsStore'
    <2>0. i \in Procs
      BY <1>0
    <2>1. CASE Import(i) \/ ImportLocksStore(i) \/ ImportLocksFlat(i)
      BY <2>1, <2>0, <1>0 DEF Import, ImportLocksStore, ImportLocksFlat,
                              RetryTargetsStore
    <2>2. CASE ReadSource(i) \/ CopyKey(i)
      BY <2>2, <2>0, <1>0 DEF ReadSource, CopyKey, RetryTargetsStore
    <2>3. CASE Publish(i)
      BY <2>3, <2>0, <1>1 DEF Publish
    <2> QED
      BY <1>4, <2>1, <2>2, <2>3 DEF ImportStep
  <1>5. ASSUME NEW p \in Sealers \cup Importers, Fails(p) PROVE RetryTargetsStore'
    BY <1>5, <1>0, <1>1 DEF Fails
  <1>6. CASE Stamp \/ MakeDir
    BY <1>6, <1>0 DEF Stamp, MakeDir, RetryTargetsStore
  <1> QED
    BY <1>2, <1>3, <1>4, <1>5, <1>6 DEF Next

\* What an import copied stays where it was, and what is added to the flat
\* file afterwards is no capsule.
LEMMA NothingLeftKept == IInv /\ Next => NothingLeftBehind'
  <1> SUFFICES ASSUME IInv, Next PROVE NothingLeftBehind'
    OBVIOUS
  <1>0. /\ flat \in Seq(LineType) /\ store \in Seq(LineType)
        /\ copied \in Nat \cup {-1} /\ NothingLeftBehind
    BY DEF IInv, TypeOK, DiskOK
  <1>1. CASE UNCHANGED disk
    BY <1>1, <1>0 DEF disk, NothingLeftBehind, Stragglers
  <1>2. CASE MakeDir
    BY <1>2, <1>0 DEF MakeDir, NothingLeftBehind, Stragglers
  <1>3. ASSUME NEW t \in Sealers, WriteFlat(t) PROVE NothingLeftBehind'
    <2>1. copied = -1
      BY <1>3 DEF WriteFlat, IInv, WriteBeforeMove, Procs
    <2> QED
      BY <1>3, <2>1 DEF WriteFlat, NothingLeftBehind, Stragglers
  <1>4. ASSUME NEW k \in {"hold", "stamp"}, AppendToFlat(Line(lines + 1, k, NoKey))
        PROVE  NothingLeftBehind'
    <2> DEFINE x == Line(lines + 1, k, NoKey)
    <2>1. lines + 1 \in Nat
      BY DEF IInv, TypeOK, CallsOK
    <2>2. x \in LineType /\ x.kind # "capsule"
      BY <2>1, LineTyped DEF Line
    <2> HIDE DEF x
    <2>3. /\ flat' = Append(flat, x) /\ store' = store /\ copied' = copied
      BY <1>4 DEF AppendToFlat, x
    <2>4. /\ Len(flat') = Len(flat) + 1 /\ Len(flat) \in Nat
          /\ \A n \in 1..Len(flat) : flat'[n] = flat[n]
          /\ flat'[Len(flat) + 1] = x
      BY <2>2, <2>3, <1>0
    <2> QED
      BY <2>2, <2>3, <2>4, <1>0 DEF NothingLeftBehind, Stragglers
  <1>5. ASSUME NEW x \in LineType, AppendToStore(x) PROVE NothingLeftBehind'
    <2>1. store' = Append(store, x) /\ flat' = flat /\ copied' = copied
      BY <1>5 DEF AppendToStore
    <2>2. /\ Len(store') = Len(store) + 1 /\ Len(store) \in Nat
          /\ \A n \in 1..Len(store) : store'[n] = store[n]
      BY <2>1, <1>0
    <2> QED
      BY <2>1, <2>2, <1>0 DEF NothingLeftBehind, Stragglers
  <1>6. ASSUME NEW i \in Importers, Publish(i) PROVE NothingLeftBehind'
    <2>1. snap[i] = flat
      BY <1>6 DEF Publish, IInv, SnapIsFlat, Procs
    <2>2. store' = flat /\ flat' = flat /\ copied' = Len(flat)
      BY <1>6, <2>1 DEF Publish
    <2>3. Len(flat) \in Nat
      BY <1>0
    <2> QED
      BY <2>2, <2>3 DEF NothingLeftBehind, Stragglers
  <1> QED
    BY <1>1, <1>2, <1>3, <1>4, <1>5, <1>6, DiskSteps

\* Every step keeps the invariant.
LEMMA NextIInv == IInv /\ [Next]_vars => IInv'
  <1> SUFFICES ASSUME IInv, [Next]_vars PROVE IInv'
    OBVIOUS
  <1>1. CASE Next
    <2>1. TypeOK'
      BY <1>1, SealTyped, OthersTyped DEF Next
    <2> QED
      BY <1>1, <2>1, LocksKept, DirKept, SnapKept, WriteKept, RetryKept,
         NothingLeftKept DEF IInv
  <1>2. CASE UNCHANGED vars
    <2> USE <1>2 DEF vars, disk, keys, locks, calls, bounds, IInv
    <2>1. TypeOK'
      BY DEF TypeOK, DiskOK, CallsOK
    <2>2. LocksHeld' /\ SnapIsFlat' /\ WriteBeforeMove' /\ MovedMeansStore'
      BY DEF LocksHeld, SnapIsFlat, WriteBeforeMove, MovedMeansStore
    <2>3. RetryTargetsStore' /\ EmptyUntilStore'
      BY DEF RetryTargetsStore, EmptyUntilStore
    <2>4. NothingLeftBehind'
      BY DEF NothingLeftBehind, Stragglers
    <2> QED
      BY <2>1, <2>2, <2>3, <2>4
  <1> QED
    BY <1>1, <1>2

\* The invariant holds in every state of the system.
LEMMA Invariance == Spec => []IInv
  BY InitIInv, NextIInv, PTL DEF Spec

-----------------------------------------------------------------------------
\* core._with_resolved_ledger and import_ledger, for any number of sealing
\* processes, hold engines, imports and failures: the imported store starts
\* with the flat file's lines, and no capsule is left in the flat file only.
THEOREM NoCapsuleIsLeft == Spec => []NothingLeftBehind
  <1>1. IInv => NothingLeftBehind
    BY DEF IInv
  <1> QED
    BY <1>1, Invariance, PTL

\* The retry of _with_resolved_ledger always finds the store: DefaultMoved
\* never reaches a caller of seal().
THEOREM NoCallerSeesMoved == Spec => []MovedStaysInternal
  <1>1. IInv => MovedStaysInternal
    BY DEF IInv, RetryTargetsStore, MovedStaysInternal, Procs
  <1> QED
    BY <1>1, Invariance, PTL

\* ledger_store and import_ledger: no step replaces or shortens a published
\* store.
THEOREM StoreIsAppendOnly == Spec => StoreOnlyGrows
  <1> DEFINE Grows ==
        /\ dir = "store" => dir' = "store"
        /\ Len(store) <= Len(store') /\ SubSeq(store', 1, Len(store)) = store
  <1>1. ASSUME IInv, Next PROVE Grows
    <2>0. store \in Seq(LineType)
      BY <1>1 DEF IInv, TypeOK, DiskOK
    <2>1. dir = "store" => dir' = "store"
      BY <1>1, DirKept
    <2>2. Len(store) \in Nat /\ SubSeq(store, 1, Len(store)) = store
      BY <2>0
    <2>3. ASSUME NEW x \in LineType, AppendToStore(x)
          PROVE  Len(store) <= Len(store') /\ SubSeq(store', 1, Len(store)) = store
      <3>1. store' = Append(store, x)
        BY <2>3 DEF AppendToStore
      <3> QED
        BY <3>1, <2>0, <2>2
    <2>4. ASSUME NEW i \in Importers, Publish(i)
          PROVE  Len(store) <= Len(store') /\ SubSeq(store', 1, Len(store)) = store
      <3>1. store = <<>>
        BY <1>1, <2>4 DEF Publish, IInv, SnapIsFlat, EmptyUntilStore, Procs
      <3>2. store' = snap[i] /\ snap[i] \in Seq(LineType)
        BY <1>1, <2>4 DEF Publish, IInv, TypeOK, CallsOK, Procs
      <3>3. Len(store) = 0 /\ Len(store') \in Nat /\ SubSeq(store', 1, 0) = <<>>
        BY <3>1, <3>2
      <3> QED
        BY <3>1, <3>3
    <2>5. ASSUME store' = store
          PROVE  Len(store) <= Len(store') /\ SubSeq(store', 1, Len(store)) = store
      BY <2>5, <2>2
    <2>6. Len(store) <= Len(store') /\ SubSeq(store', 1, Len(store)) = store
      BY <1>1, <2>3, <2>4, <2>5, DiskSteps
      DEF disk, MakeDir, WriteFlat, AppendToFlat
    <2> QED
      BY <2>1, <2>6
  <1>2. IInv /\ [Next]_vars => [Grows]_vars
    BY <1>1
  <1> QED
    BY <1>2, Invariance, PTL DEF Spec, StoreOnlyGrows
-----------------------------------------------------------------------------
\* A capsule of the flat file was signed with the key beside it.
FlatKeyed ==
    \A n \in DOMAIN flat :
        flat[n].kind = "capsule" => flat[n].key = FlatKey /\ flatKey = FlatKey

\* A call that signed did so with the key of the ledger it targets.
CallsKeyed ==
    \A p \in Procs : pc[p] \in {"append", "precheck", "write"} =>
        /\ call[p].target = "flat" => call[p].key = FlatKey /\ flatKey = FlatKey
        /\ call[p].target = "store" => call[p].key = storeKey /\ storeKey # NoKey

\* The key an import is about to publish with signed what it is to publish,
\* unless the import reports a difference.
CopyKeyed ==
    \A p \in Procs : pc[p] = "publish" /\ ~differs =>
        \A n \in DOMAIN flat : flat[n].kind = "capsule" => flat[n].key = storeKey

\* The capsules of an imported store are signed with the store's key.
StoreKeyed ==
    copied # -1 /\ ~differs =>
        \A n \in DOMAIN store :
            store[n].kind = "capsule" => store[n].key = storeKey /\ storeKey # NoKey

KInv == IInv /\ FlatKeyed /\ CallsKeyed /\ CopyKeyed /\ StoreKeyed

\* The initial states satisfy it.
LEMMA InitKInv == Init => KInv
  <1> SUFFICES ASSUME Init PROVE KInv
    OBVIOUS
  <1>1. FlatKeyed
    BY DEF Init, FlatKeyed, Line
  <1>2. CallsKeyed /\ CopyKeyed /\ StoreKeyed
    BY DEF Init, CallsKeyed, CopyKeyed, StoreKeyed
  <1> QED
    BY <1>1, <1>2, InitIInv DEF KInv

\* Who touches the key files, and that a key that exists stays.
LEMMA KeySteps ==
  ASSUME IInv, Next
  PROVE  /\ \/ UNCHANGED keys
            \/ \E t \in Sealers : SignFlat(t) \/ SignStore(t)
            \/ \E i \in Importers : CopyKey(i)
         /\ flatKey = FlatKey => flatKey' = FlatKey
         /\ storeKey # NoKey => storeKey' = storeKey
  <1> USE DEF keys
  <1>1. ASSUME NEW t \in Sealers, Seal(t) \/ SealStep(t)
        PROVE  UNCHANGED keys \/ SignFlat(t) \/ SignStore(t)
    BY <1>1 DEF Seal, SealStep, Resolve, LockFlat, Locked, Precheck, RunAgain,
                WriteFlat, WriteStore
  <1>2. ASSUME NEW e \in Engines, OpenEngine(e) \/ AppendHold(e)
        PROVE  UNCHANGED keys
    BY <1>2 DEF OpenEngine, AppendHold
  <1>3. ASSUME NEW i \in Importers, Import(i) \/ ImportStep(i)
        PROVE  UNCHANGED keys \/ CopyKey(i)
    BY <1>3 DEF Import, ImportStep, ImportLocksStore, ImportLocksFlat, ReadSource,
                Publish
  <1>4. ASSUME NEW p \in Sealers \cup Importers, Fails(p) PROVE UNCHANGED keys
    BY <1>4 DEF Fails
  <1>5. ASSUME Stamp \/ MakeDir PROVE UNCHANGED keys
    BY <1>5 DEF Stamp, MakeDir
  <1>6. \/ UNCHANGED keys
        \/ \E t \in Sealers : SignFlat(t) \/ SignStore(t)
        \/ \E i \in Importers : CopyKey(i)
    BY <1>1, <1>2, <1>3, <1>4, <1>5 DEF Next
  <1>7. ASSUME NEW t \in Sealers, SignFlat(t) \/ SignStore(t)
        PROVE  /\ flatKey = FlatKey => flatKey' = FlatKey
               /\ storeKey # NoKey => storeKey' = storeKey
    BY <1>7 DEF SignFlat, SignStore
  <1>8. ASSUME NEW i \in Importers, CopyKey(i)
        PROVE  /\ flatKey = FlatKey => flatKey' = FlatKey
               /\ storeKey # NoKey => storeKey' = storeKey
    BY <1>8 DEF CopyKey
  <1> QED
    BY <1>6, <1>7, <1>8

\* A step that signs or copies a key writes no line.
LEMMA KeyStepsWriteNothing ==
  /\ \A t \in Sealers : SignFlat(t) \/ SignStore(t) => UNCHANGED disk
  /\ \A i \in Importers : CopyKey(i) => UNCHANGED disk
  BY DEF SignFlat, SignStore, CopyKey

\* What is added to the store: a capsule whose call targets it, or a hold.
LEMMA StoreSteps ==
  ASSUME IInv, Next
  PROVE  \/ UNCHANGED <<store, copied>>
         \/ \E t \in Sealers : WriteStore(t)
         \/ AppendToStore(Line(lines + 1, "hold", NoKey))
         \/ \E i \in Importers : Publish(i)
  <1> USE DEF disk
  <1>1. ASSUME NEW t \in Sealers, Seal(t) \/ SealStep(t), ~WriteStore(t)
        PROVE  UNCHANGED <<store, copied>>
    BY <1>1 DEF Seal, SealStep, Resolve, SignFlat, SignStore, LockFlat, Locked,
                Precheck, RunAgain, WriteFlat
  <1>2. ASSUME NEW e \in Engines, OpenEngine(e) \/ AppendHold(e)
        PROVE  \/ UNCHANGED <<store, copied>>
               \/ AppendToStore(Line(lines + 1, "hold", NoKey))
    BY <1>2 DEF OpenEngine, AppendHold, AppendToFlat
  <1>3. ASSUME NEW i \in Importers, Import(i) \/ ImportStep(i), ~Publish(i)
        PROVE  UNCHANGED <<store, copied>>
    BY <1>3 DEF Import, ImportStep, ImportLocksStore, ImportLocksFlat, ReadSource,
                CopyKey
  <1>4. ASSUME NEW p \in Sealers \cup Importers, Fails(p)
        PROVE  UNCHANGED <<store, copied>>
    BY <1>4 DEF Fails
  <1>5. ASSUME Stamp \/ MakeDir PROVE UNCHANGED <<store, copied>>
    BY <1>5 DEF Stamp, MakeDir, AppendToFlat
  <1> QED
    BY <1>1, <1>2, <1>3, <1>4, <1>5 DEF Next

\* The key of the flat file signs every capsule that reaches it.
LEMMA FlatKeyedKept == KInv /\ Next => FlatKeyed'
  <1> SUFFICES ASSUME KInv, Next PROVE FlatKeyed'
    OBVIOUS
  <1>0. /\ flat \in Seq(LineType) /\ FlatKeyed
        /\ flatKey = FlatKey => flatKey' = FlatKey
    BY KeySteps DEF KInv, IInv, TypeOK, DiskOK
  <1>1. CASE UNCHANGED flat
    BY <1>1, <1>0 DEF FlatKeyed
  <1>2. ASSUME NEW x, flat' = Append(flat, x),
               x.kind = "capsule" => x.key = FlatKey /\ flatKey' = FlatKey
        PROVE  FlatKeyed'
    <2>1. ASSUME NEW n \in DOMAIN flat'
          PROVE  flat'[n] = x \/ (n \in DOMAIN flat /\ flat'[n] = flat[n])
      BY <1>2, <1>0, <2>1
    <2> QED
      BY <2>1, <1>2, <1>0 DEF FlatKeyed
  <1>3. ASSUME NEW t \in Sealers, WriteFlat(t) PROVE FlatKeyed'
    <2>1. /\ pc[t] = "write" /\ t \in Procs
          /\ flat' = Append(flat, Line(call[t].id, "capsule", call[t].key))
          /\ UNCHANGED keys
      BY <1>3 DEF WriteFlat, Procs
    <2>2. call[t].key = FlatKey /\ flatKey = FlatKey
      BY <2>1 DEF KInv, IInv, CallsKeyed, RetryTargetsStore
    <2>3. Line(call[t].id, "capsule", call[t].key).key = FlatKey
      BY <2>2 DEF Line
    <2> QED
      BY <2>1, <2>2, <2>3, <1>2 DEF keys
  <1>4. ASSUME NEW k \in {"hold", "stamp"}, AppendToFlat(Line(lines + 1, k, NoKey))
        PROVE  FlatKeyed'
    <2>1. Line(lines + 1, k, NoKey).kind # "capsule"
      BY DEF Line
    <2> QED
      BY <1>4, <2>1, <1>2 DEF AppendToFlat
  <1> QED
    BY <1>1, <1>3, <1>4, DiskSteps
    DEF KInv, disk, MakeDir, AppendToStore, Publish

\* A call keeps the key it signed with, and the key file keeps it too.
LEMMA CallsKeyedKept == KInv /\ Next => CallsKeyed'
  <1> SUFFICES ASSUME KInv, Next PROVE CallsKeyed'
    OBVIOUS
  <1> USE MoveAssumption DEF Goto, calls, locks
  <1>0. /\ pc \in [Procs -> Labels] /\ call \in [Procs -> CallType] /\ CallsKeyed
        /\ flatKey = FlatKey => flatKey' = FlatKey
        /\ storeKey # NoKey => storeKey' = storeKey
        /\ Sealers \subseteq Procs /\ Importers \subseteq Procs
        /\ Engines \subseteq Procs
    BY KeySteps DEF KInv, IInv, TypeOK, CallsOK, Procs
  <1>a. ASSUME NEW p \in Procs,
               \A q \in Procs : pc'[q] \in {"append", "precheck", "write"} =>
                   \/ q = p
                   \/ pc[q] \in {"append", "precheck", "write"} /\ call'[q] = call[q],
               pc'[p] \in {"append", "precheck", "write"} =>
                   pc[p] \in {"append", "precheck", "write"} /\ call'[p] = call[p]
        PROVE  CallsKeyed'
    BY <1>a, <1>0 DEF CallsKeyed
  <1>1. ASSUME NEW p \in Procs, Return(p) PROVE CallsKeyed'
    BY <1>1, <1>0, <1>a DEF Return
  <1>2. ASSUME NEW t \in Sealers, Seal(t) \/ SealStep(t) PROVE CallsKeyed'
    <2>0. t \in Procs /\ call[t] \in CallType
      BY <1>0
    <2>1. CASE Seal(t) \/ Resolve(t) \/ LockFlat(t) \/ Precheck(t) \/ RunAgain(t)
      BY <2>1, <2>0, <1>0, <1>a DEF Seal, Resolve, LockFlat, Precheck, RunAgain
    <2>2. CASE SignFlat(t)
      <3>1. call'[t].target = "flat" /\ call'[t].key = FlatKey /\ flatKey' = FlatKey
        BY <2>2, <2>0, <1>0 DEF SignFlat, CallType
      <3>2. \A q \in Procs \ {t} : pc'[q] = pc[q] /\ call'[q] = call[q]
        BY <2>2, <2>0, <1>0 DEF SignFlat
      <3> QED
        BY <3>1, <3>2, <1>0 DEF CallsKeyed
    <2>3. CASE SignStore(t)
      <3>a. t # NoKey
        BY DEF Keys
      <3>1. /\ call'[t].target = "store" /\ call'[t].key = storeKey'
            /\ storeKey' # NoKey
        BY <2>3, <3>a, <2>0, <1>0 DEF SignStore, CallType
      <3>2. \A q \in Procs \ {t} : pc'[q] = pc[q] /\ call'[q] = call[q]
        BY <2>3, <2>0, <1>0 DEF SignStore
      <3> QED
        BY <3>1, <3>2, <1>0 DEF CallsKeyed
    <2>4. CASE Locked(t) \/ WriteFlat(t) \/ WriteStore(t)
      BY <2>4, <2>0, <1>1 DEF Locked, WriteFlat, WriteStore
    <2> QED
      BY <1>2, <2>1, <2>2, <2>3, <2>4 DEF SealStep
  <1>3. ASSUME NEW e \in Engines, OpenEngine(e) \/ AppendHold(e) PROVE CallsKeyed'
    <2>1. CASE OpenEngine(e)
      BY <2>1, <1>0, <1>a DEF OpenEngine
    <2>2. CASE AppendHold(e)
      BY <2>2, <1>0 DEF AppendHold, CallsKeyed
    <2> QED
      BY <1>3, <2>1, <2>2
  <1>4. ASSUME NEW i \in Importers, Import(i) \/ ImportStep(i) PROVE CallsKeyed'
    <2>0. i \in Procs
      BY <1>0
    <2>1. CASE \/ Import(i) \/ ImportLocksStore(i) \/ ImportLocksFlat(i)
               \/ ReadSource(i) \/ CopyKey(i)
      BY <2>1, <2>0, <1>0, <1>a
      DEF Import, ImportLocksStore, ImportLocksFlat, ReadSource, CopyKey
    <2>2. CASE Publish(i)
      BY <2>2, <2>0, <1>1 DEF Publish
    <2> QED
      BY <1>4, <2>1, <2>2 DEF ImportStep
  <1>5. ASSUME NEW p \in Sealers \cup Importers, Fails(p) PROVE CallsKeyed'
    BY <1>5, <1>0, <1>1 DEF Fails
  <1>6. CASE Stamp \/ MakeDir
    BY <1>6, <1>0 DEF Stamp, MakeDir, CallsKeyed
  <1> QED
    BY <1>2, <1>3, <1>4, <1>5, <1>6 DEF Next

\* A process arrives before the rename by copying the key, and by nothing else.
LEMMA PublishComesFromCopy ==
  ASSUME IInv, Next, NEW p \in Procs, pc'[p] = "publish"
  PROVE  pc[p] = "publish" \/ (p \in Importers /\ CopyKey(p))
  <1> USE MoveAssumption DEF Goto, calls
  <1>0. pc \in [Procs -> Labels]
    BY DEF IInv, TypeOK, CallsOK
  <1>1. ASSUME NEW q \in Procs, Return(q) PROVE pc[p] = "publish"
    BY <1>1, <1>0 DEF Return
  <1>2. ASSUME NEW t \in Sealers, Seal(t) \/ SealStep(t) PROVE pc[p] = "publish"
    <2>1. CASE \/ Seal(t) \/ Resolve(t) \/ SignFlat(t) \/ SignStore(t)
               \/ LockFlat(t) \/ Precheck(t) \/ RunAgain(t)
      BY <2>1, <1>0 DEF Seal, Resolve, SignFlat, SignStore, LockFlat, Precheck,
                        RunAgain, Procs
    <2>2. CASE Locked(t) \/ WriteFlat(t) \/ WriteStore(t)
      BY <2>2, <1>1 DEF Locked, WriteFlat, WriteStore, Procs
    <2> QED
      BY <1>2, <2>1, <2>2 DEF SealStep
  <1>3. ASSUME NEW e \in Engines, OpenEngine(e) \/ AppendHold(e)
        PROVE  pc[p] = "publish"
    BY <1>3, <1>0 DEF OpenEngine, AppendHold, Procs
  <1>4. ASSUME NEW i \in Importers, Import(i) \/ ImportStep(i)
        PROVE  pc[p] = "publish" \/ (p \in Importers /\ CopyKey(p))
    <2>1. CASE Import(i) \/ ImportLocksStore(i) \/ ImportLocksFlat(i) \/ ReadSource(i)
      BY <2>1, <1>0 DEF Import, ImportLocksStore, ImportLocksFlat, ReadSource, Procs
    <2>2. CASE CopyKey(i)
      BY <2>2, <1>0 DEF CopyKey, Procs
    <2>3. CASE Publish(i)
      BY <2>3, <1>1 DEF Publish, Procs
    <2> QED
      BY <1>4, <2>1, <2>2, <2>3 DEF ImportStep
  <1>5. ASSUME NEW q \in Sealers \cup Importers, Fails(q) PROVE pc[p] = "publish"
    BY <1>5, <1>1 DEF Fails, Procs
  <1>6. CASE Stamp \/ MakeDir
    BY <1>6 DEF Stamp, MakeDir
  <1> QED
    BY <1>2, <1>3, <1>4, <1>5, <1>6 DEF Next

\* From CopyKey to the rename the flat file and the store's key do not change:
\* the import holds both locks, and a store's key is created under its lock.
LEMMA CopyKeyedKept == KInv /\ Next => CopyKeyed'
  <1> SUFFICES ASSUME KInv, Next, NEW p \in Procs, pc'[p] = "publish", ~differs',
                      NEW n \in DOMAIN flat', flat'[n].kind = "capsule"
               PROVE  flat'[n].key = storeKey'
    BY DEF CopyKeyed
  <1>0. IInv /\ FlatKeyed /\ CopyKeyed
    BY DEF KInv
  <1>1. CASE p \in Importers /\ CopyKey(p)
    <2>1. flat' = flat
      BY <1>1 DEF CopyKey, disk
    <2>2. flat[n].key = FlatKey /\ flatKey = FlatKey
      BY <2>1, <1>0 DEF FlatKeyed
    <2>3. storeKey' = flatKey
      BY <1>1, <2>2, MoveAssumption DEF CopyKey, Keys
    <2> QED
      BY <2>1, <2>2, <2>3
  <1>2. CASE pc[p] = "publish"
    <2>1. /\ snap[p] = flat /\ flatLock = p /\ storeLock = p /\ dir # "store"
          /\ p # Nobody
      BY <1>2, <1>0, MoveAssumption DEF IInv, SnapIsFlat, LocksHeld
    <2>2. flat' = flat
      <3>1. ASSUME NEW t \in Sealers, WriteFlat(t) PROVE FALSE
        <4>1. t \in Procs /\ pc[t] = "write"
          BY <3>1 DEF WriteFlat, Procs
        <4> QED
          BY <4>1, <1>2, <2>1, <1>0 DEF IInv, LocksHeld
      <3>2. ASSUME NEW x, AppendToFlat(x) PROVE FALSE
        BY <3>2, <2>1 DEF AppendToFlat
      <3> QED
        BY <3>1, <3>2, <1>0, DiskSteps DEF disk, MakeDir, AppendToStore, Publish
    <2>3. ASSUME NEW i \in Importers, CopyKey(i) PROVE FALSE
      <3>1. i \in Procs /\ pc[i] = "copy key"
        BY <2>3 DEF CopyKey, Procs
      <3> QED
        BY <3>1, <1>2, <2>1, <1>0 DEF IInv, LocksHeld
    <2>4. UNCHANGED <<storeKey, differs>>
      <3>1. ASSUME NEW t \in Sealers, SignStore(t) PROVE UNCHANGED <<storeKey, differs>>
        BY <3>1, <2>1 DEF SignStore
      <3>2. ASSUME NEW t \in Sealers, SignFlat(t) PROVE UNCHANGED <<storeKey, differs>>
        BY <3>2 DEF SignFlat
      <3> QED
        BY <3>1, <3>2, <2>3, <1>0, KeySteps DEF keys
    <2> QED
      BY <2>2, <2>4, <1>2, <1>0 DEF CopyKeyed
  <1> QED
    BY <1>0, <1>1, <1>2, PublishComesFromCopy

\* What reaches an imported store is signed with its key, and what the import
\* put there was.
LEMMA StoreKeyedKept == KInv /\ Next => StoreKeyed'
  <1> SUFFICES ASSUME KInv, Next PROVE StoreKeyed'
    OBVIOUS
  <1> USE MoveAssumption
  <1>0. /\ IInv /\ store \in Seq(LineType) /\ StoreKeyed
        /\ storeKey # NoKey => storeKey' = storeKey
    BY KeySteps DEF KInv, IInv, TypeOK, DiskOK
  <1>1. CASE UNCHANGED <<store, copied>>
    <2>1. CASE differs' = differs
      BY <1>1, <2>1, <1>0 DEF StoreKeyed
    <2>2. ASSUME NEW i \in Importers, CopyKey(i) PROVE StoreKeyed'
      <3>1. dir # "store"
        BY <2>2, <1>0 DEF CopyKey, IInv, SnapIsFlat, Procs
      <3>2. copied' = -1
        BY <1>1, <3>1, <1>0 DEF IInv, MovedMeansStore
      <3> QED
        BY <3>2 DEF StoreKeyed
    <2>3. ASSUME NEW t \in Sealers, SignFlat(t) \/ SignStore(t)
          PROVE  differs' = differs
      BY <2>3 DEF SignFlat, SignStore
    <2> QED
      BY <2>1, <2>2, <2>3, <1>0, KeySteps DEF keys
  <1>2. ASSUME NEW x, store' = Append(store, x), UNCHANGED <<copied, keys>>,
               x.kind = "capsule" => x.key = storeKey /\ storeKey # NoKey
        PROVE  StoreKeyed'
    <2>1. ASSUME NEW n \in DOMAIN store'
          PROVE  store'[n] = x \/ (n \in DOMAIN store /\ store'[n] = store[n])
      BY <1>2, <1>0, <2>1
    <2> QED
      BY <2>1, <1>2, <1>0 DEF StoreKeyed, keys
  <1>3. ASSUME NEW t \in Sealers, WriteStore(t) PROVE StoreKeyed'
    <2> DEFINE x == Line(call[t].id, "capsule", call[t].key)
    <2>1. /\ pc[t] = "append" /\ call[t].target = "store" /\ t \in Procs
          /\ store' = Append(store, x) /\ UNCHANGED <<copied, keys>>
      BY <1>3 DEF WriteStore, AppendToStore, Procs
    <2>2. call[t].key = storeKey /\ storeKey # NoKey
      BY <2>1 DEF KInv, CallsKeyed
    <2>3. x.key = storeKey
      BY <2>2 DEF Line
    <2> HIDE DEF x
    <2> QED
      BY <2>1, <2>2, <2>3, <1>2
  <1>4. ASSUME AppendToStore(Line(lines + 1, "hold", NoKey)) PROVE StoreKeyed'
    <2> DEFINE x == Line(lines + 1, "hold", NoKey)
    <2>1. x.kind # "capsule"
      BY DEF Line
    <2>2. store' = Append(store, x) /\ copied' = copied /\ storeLock = Nobody
      BY <1>4 DEF AppendToStore
    <2> HIDE DEF x
    <2>3. CASE UNCHANGED keys
      BY <2>1, <2>2, <2>3, <1>2
    <2>4. CASE ~UNCHANGED keys
      <3>1. UNCHANGED disk
        BY <2>4, <1>0, KeySteps, KeyStepsWriteNothing
      <3> QED
        BY <3>1, <1>1 DEF disk
    <2> QED
      BY <2>3, <2>4
  <1>5. ASSUME NEW i \in Importers, Publish(i) PROVE StoreKeyed'
    <2>1. /\ i \in Procs /\ pc[i] = "publish" /\ store' = snap[i]
          /\ UNCHANGED <<flat, keys>>
      BY <1>5 DEF Publish, Procs
    <2>2. store' = flat
      BY <2>1, <1>0 DEF IInv, SnapIsFlat
    <2>3. ASSUME ~differs', NEW n \in DOMAIN store', store'[n].kind = "capsule"
          PROVE  store'[n].key = storeKey' /\ storeKey' # NoKey
      <3>1. flat[n].key = FlatKey
        BY <2>2, <2>3 DEF KInv, FlatKeyed
      <3>2. flat[n].key = storeKey
        BY <2>1, <2>2, <2>3 DEF KInv, CopyKeyed, keys
      <3> QED
        BY <3>1, <3>2, <2>1, <2>2 DEF keys, Keys
    <2> QED
      BY <2>3 DEF StoreKeyed
  <1> QED
    BY <1>0, <1>1, <1>3, <1>4, <1>5, StoreSteps

\* Every step keeps the invariant.
LEMMA NextKInv == KInv /\ [Next]_vars => KInv'
  <1> SUFFICES ASSUME KInv, [Next]_vars PROVE KInv'
    OBVIOUS
  <1>1. CASE Next
    BY <1>1, NextIInv, FlatKeyedKept, CallsKeyedKept, CopyKeyedKept, StoreKeyedKept
    DEF KInv
  <1>2. CASE UNCHANGED vars
    <2>1. IInv'
      BY <1>2, NextIInv DEF KInv
    <2>2. FlatKeyed' /\ CallsKeyed' /\ CopyKeyed' /\ StoreKeyed'
      BY <1>2 DEF vars, disk, keys, locks, calls, KInv, FlatKeyed, CallsKeyed,
                  CopyKeyed, StoreKeyed
    <2> QED
      BY <2>1, <2>2 DEF KInv
  <1> QED
    BY <1>1, <1>2

-----------------------------------------------------------------------------
\* ledger_migrate "the producer key is carried over" and _with_resolved_ledger,
\* for any number of processes and failures: the capsules of an imported store
\* have one signer unless the import reported a difference, and DefaultMoved
\* never reaches a caller.
THEOREM MoveStaysSeamless == Spec => []MoveIsSeamless
  <1>1. KInv => OneProducer
    BY DEF KInv, StoreKeyed, OneProducer
  <1>2. KInv => MovedStaysInternal
    BY DEF KInv, IInv, RetryTargetsStore, MovedStaysInternal, Procs
  <1>3. KInv => MoveIsSeamless
    BY <1>1, <1>2 DEF MoveIsSeamless
  <1> QED
    BY <1>3, InitKInv, NextKInv, PTL DEF Spec
=============================================================================
