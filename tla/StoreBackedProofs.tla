------------------------- MODULE StoreBackedProofs -------------------------
(***************************************************************************)
(* Proofs about StoreBackedLedger, for any number of processes, imports,   *)
(* records and failures.  The writer lock makes the process in the middle  *)
(* of a call the only one, and what it knows (Busy) stays true until it    *)
(* writes: that is why a record is there before its entry, why its lines   *)
(* are the whole log when it appends, and why an import that appends has   *)
(* every record in the store.                                              *)
(*                                                                         *)
(* The chain needs more (CInv): a writer in a call is about to extend the  *)
(* head of its own lines, or to pad, and those lines are the log when it   *)
(* writes; an import is about to write the record that follows the ones    *)
(* it has.                                                                 *)
(***************************************************************************)
EXTENDS StoreBackedLedger, TLAPS

Labels == {"idle", "check", "put", "entry", "putall"}
CallType == [id : Nat, left : Int, fill : BOOLEAN, pos : Nat]

IsSequence(s) == \E S : s \in Seq(S)

Typed ==
    /\ IsSequence(made) /\ FlatLength <= Len(made)
    /\ log \in Seq(Nat) /\ lines \in [Procs -> Seq(Nat)]
    /\ pc \in [Procs -> Labels] /\ call \in [Procs -> CallType]

\* One sequence is the beginning of another.
Begins(s, t) == Len(s) <= Len(t) /\ \A n \in 1..Len(s) : s[n] = t[n]

\* What an import in the middle of its work knows.
Importing(p) ==
    /\ Len(lines[p]) <= FlatLength
    /\ pc[p] = "putall" =>
          \A n \in 1..FlatLength : n < call[p].pos => n \in records
    /\ pc[p] # "putall" =>
          /\ call[p].left = FlatLength - Len(lines[p]) /\ call[p].left >= 1
          /\ call[p].id \in 1..FlatLength
          /\ 1..FlatLength \subseteq records

\* What any process in the middle of a call knows.
Busy(p) ==
    /\ owner = p
    /\ pc[p] \in {"put", "entry"} => Len(log) = Len(lines[p])
    /\ pc[p] = "entry" => call[p].id \in records
    /\ p \in Writers => call[p].id > FlatLength /\ pc[p] # "putall"
    /\ p \in Importers => Importing(p)

BusyInv == \A p \in Procs : pc[p] # "idle" => Busy(p)
PrefixInv == \A p \in Procs : Begins(lines[p], log)

IInv == Typed /\ BusyInv /\ PrefixInv /\ EntriesHaveRecords /\ NoPartialImport

-----------------------------------------------------------------------------
\* The initial states satisfy the invariant.
LEMMA InitIInv == Init => IInv
  <1> SUFFICES ASSUME Init PROVE IInv
    OBVIOUS
  <1> USE StoreBackedAssumption DEF Init
  <1>1. IsSequence(made) /\ FlatLength <= Len(made)
    <2>1. PICK c \in BOOLEAN :
              made = [n \in 1..FlatLength |->
                        [parent |-> IF c THEN n - 1 ELSE 0, pad |-> FALSE]]
      OBVIOUS
    <2> DEFINE S == {made[n] : n \in 1..FlatLength}
    <2>2. made \in [1..FlatLength -> S]
      BY <2>1
    <2> HIDE DEF S
    <2>3. made \in Seq(S) /\ Len(made) = FlatLength
      BY <2>2
    <2>4. \E T : made \in Seq(T)
      BY ONLY <2>3, Zenon
    <2>5. FlatLength <= Len(made)
      BY <2>3
    <2> QED
      BY <2>4, <2>5, Zenon DEF IsSequence
  <1>2. NoCall \in CallType
    BY DEF NoCall, CallType
  <1>3. Typed
    BY <1>1, <1>2 DEF Typed, Labels
  <1>4. BusyInv
    BY DEF BusyInv
  <1>5. PrefixInv
    BY DEF PrefixInv, Begins
  <1>6. EntriesHaveRecords /\ NoPartialImport
    BY DEF EntriesHaveRecords, NoPartialImport
  <1> QED
    BY <1>3, <1>4, <1>5, <1>6 DEF IInv

\* The process in the middle of a call is alone.
LEMMA Alone ==
  ASSUME BusyInv, NEW p \in Procs, pc[p] # "idle" \/ owner = Nobody,
         NEW q \in Procs, q # p
  PROVE  pc[q] = "idle"
  BY StoreBackedAssumption DEF BusyInv, Busy

\* A step of p that leaves the others where they are and goes to idle, or to
\* a state in which p knows what it should, keeps BusyInv.
LEMMA BusyKept ==
  ASSUME Typed, BusyInv, NEW p \in Procs, pc[p] # "idle" \/ owner = Nobody,
         pc' \in [Procs -> Labels],
         \A q \in Procs : q # p => pc'[q] = pc[q],
         pc'[p] # "idle" => Busy(p)'
  PROVE  BusyInv'
  <1> SUFFICES ASSUME NEW q \in Procs, pc'[q] # "idle" PROVE Busy(q)'
    BY DEF BusyInv
  <1>1. CASE q = p
    BY <1>1
  <1>2. CASE q # p
    BY <1>2, Alone
  <1> QED
    BY <1>1, <1>2

\* Lines that begin the log still begin it when an id is added.
LEMMA BeginsGrows ==
  ASSUME NEW s \in Seq(Nat), NEW t \in Seq(Nat), NEW x \in Nat, Begins(s, t)
  PROVE  /\ Append(t, x) \in Seq(Nat) /\ Begins(s, Append(t, x))
         /\ Len(s) = Len(t) => /\ Append(s, x) \in Seq(Nat)
                               /\ Begins(Append(s, x), Append(t, x))
                               /\ Len(Append(s, x)) = Len(Append(t, x))
                               /\ Len(Append(s, x)) = Len(s) + 1
  BY DEF Begins

\* The log keeps its two promises when an id is added whose record is stored.
LEMMA EntryKept ==
  ASSUME IInv, NEW p \in Procs, pc[p] = "entry",
         log' = Append(log, call[p].id), records' = records
  PROVE  EntriesHaveRecords' /\ NoPartialImport' /\ log' \in Seq(Nat)
  <1>1. /\ call[p].id \in Nat /\ call[p].id \in records /\ log \in Seq(Nat)
        /\ EntriesHaveRecords /\ NoPartialImport
        /\ p \in Writers \cup Importers /\ Busy(p)
    BY DEF IInv, Typed, CallType, BusyInv, Busy, Procs
  <1>2. /\ Len(log') = Len(log) + 1 /\ DOMAIN log = 1..Len(log) /\ Len(log) \in Nat
        /\ DOMAIN log' = 1..Len(log')
        /\ \A n \in 1..Len(log) : log'[n] = log[n]
        /\ log'[Len(log) + 1] = call[p].id
        /\ log' \in Seq(Nat)
    BY <1>1
  <1>3. EntriesHaveRecords'
    BY <1>1, <1>2 DEF EntriesHaveRecords
  <1>4. call[p].id <= FlatLength => 1..FlatLength \subseteq records
    <2>1. CASE p \in Writers
      BY <1>1, <2>1, StoreBackedAssumption DEF Busy
    <2>2. CASE p \in Importers
      BY <1>1, <2>2 DEF Busy, Importing
    <2> QED
      BY <1>1, <2>1, <2>2
  <1>5. NoPartialImport'
    BY <1>1, <1>2, <1>4 DEF NoPartialImport
  <1> QED
    BY <1>2, <1>3, <1>5

-----------------------------------------------------------------------------
\* Returning keeps the types, and the process is idle afterwards.
LEMMA ReturnTyped ==
  ASSUME Typed, NEW p \in Procs, Return(p)
  PROVE  /\ pc' \in [Procs -> Labels] /\ call' \in [Procs -> CallType]
         /\ pc'[p] = "idle" /\ \A q \in Procs : q # p => pc'[q] = pc[q]
  <1>1. NoCall \in CallType
    BY DEF NoCall, CallType
  <1> QED
    BY <1>1 DEF Typed, Return, Goto, Labels

\* A call that ends without touching the stores keeps the invariant: the
\* process keeps its lines or loses them.
LEMMA EndKept ==
  ASSUME IInv, NEW p \in Procs, pc[p] # "idle", Return(p),
         UNCHANGED <<made, stores>>,
         lines' = lines \/ lines' = [lines EXCEPT ![p] = <<>>]
  PROVE  IInv'
  <1> USE DEF stores
  <1>0. Typed /\ BusyInv
    BY DEF IInv
  <1>1. Typed'
    <2>1. lines' \in [Procs -> Seq(Nat)]
      <3>1. <<>> \in Seq(Nat)
        OBVIOUS
      <3> QED
        BY <1>0, <3>1 DEF Typed
    <2> QED
      BY <1>0, <2>1, ReturnTyped DEF Typed
  <1>2. BusyInv'
    BY <1>0, ReturnTyped, BusyKept
  <1>3. PrefixInv'
    BY <1>0 DEF IInv, Typed, PrefixInv, Begins
  <1>4. EntriesHaveRecords' /\ NoPartialImport'
    BY DEF IInv, EntriesHaveRecords, NoPartialImport
  <1> QED
    BY <1>1, <1>2, <1>3, <1>4 DEF IInv

\* open_stores reads the whole log.
LEMMA OpenKept ==
  ASSUME IInv, NEW p \in Writers, OpenStores(p)
  PROVE  IInv'
  <1> USE DEF stores
  <1>0. Typed /\ BusyInv /\ p \in Procs
    BY DEF IInv, Procs
  <1>1. Typed'
    BY <1>0 DEF Typed, OpenStores
  <1>2. BusyInv'
    <2>1. \A q \in Procs : pc'[q] = "idle"
      BY <1>0, Alone DEF OpenStores
    <2> QED
      BY <2>1 DEF BusyInv
  <1>3. PrefixInv'
    BY <1>0 DEF IInv, Typed, PrefixInv, Begins, OpenStores
  <1>4. EntriesHaveRecords' /\ NoPartialImport'
    BY DEF IInv, EntriesHaveRecords, NoPartialImport, OpenStores
  <1> QED
    BY <1>1, <1>2, <1>3, <1>4 DEF IInv

\* A sequence with one more element is a sequence.
LEMMA AppendIsSequence ==
  ASSUME NEW s, IsSequence(s), NEW x
  PROVE  IsSequence(Append(s, x)) /\ Len(s) \in Nat /\ Len(Append(s, x)) = Len(s) + 1
  <1>1. PICK S : s \in Seq(S)
    BY DEF IsSequence
  <1> DEFINE T == S \cup {x}
  <1>2. s \in Seq(T) /\ x \in T
    BY <1>1
  <1> HIDE DEF T
  <1>3. Append(s, x) \in Seq(T) /\ Len(s) \in Nat /\ Len(Append(s, x)) = Len(s) + 1
    BY <1>2
  <1> QED
    BY <1>3 DEF IsSequence

\* A writer's call starts with a record that is not one of the flat ledger's.
LEMMA BeginKept ==
  ASSUME IInv, NEW p \in Writers, NEW id \in Nat, NEW left \in Int,
         NEW fill \in BOOLEAN, id > FlatLength, Begin(p, id, left, fill),
         IsSequence(made'), FlatLength <= Len(made')
  PROVE  IInv'
  <1> USE DEF stores
  <1>0. Typed /\ BusyInv /\ p \in Procs /\ p \notin Importers
    BY StoreBackedAssumption DEF IInv, Procs
  <1>1. [id |-> id, left |-> left, fill |-> fill, pos |-> 0] \in CallType
    BY DEF CallType
  <1>2. Typed'
    BY <1>0, <1>1 DEF Typed, Begin, Goto, Labels
  <1>3. /\ pc'[p] = "check" /\ call'[p].id = id /\ owner' = p
        /\ \A q \in Procs : q # p => pc'[q] = pc[q]
    BY <1>0 DEF Begin, Goto, Take, Typed, NoCall
  <1>4. Busy(p)'
    BY <1>0, <1>3 DEF Busy
  <1>5. BusyInv'
    BY <1>0, <1>2, <1>3, <1>4, BusyKept DEF Begin, Take, Typed
  <1>6. PrefixInv'
    BY DEF IInv, PrefixInv, Begins, Begin
  <1>7. EntriesHaveRecords' /\ NoPartialImport'
    BY DEF IInv, EntriesHaveRecords, NoPartialImport, Begin
  <1> QED
    BY <1>2, <1>5, <1>6, <1>7 DEF IInv

\* The three kinds of call.
LEMMA WriterKept ==
  ASSUME IInv, NEW p \in Writers, AppendNew(p) \/ AppendAgain(p) \/ PadToBucket(p)
  PROVE  IInv'
  <1>0. /\ IsSequence(made) /\ FlatLength <= Len(made)
        /\ FlatLength \in Nat /\ Bucket \in Nat \ {0}
        /\ lines[p] \in Seq(Nat)
    BY StoreBackedAssumption DEF IInv, Typed, Procs
  <1>1. Len(made) \in Nat
    BY <1>0 DEF IsSequence
  <1>2. ASSUME NEW r, made' = Append(made, r)
        PROVE  IsSequence(made') /\ FlatLength <= Len(made')
    BY <1>2, <1>0, AppendIsSequence
  <1>3. CASE AppendAgain(p)
    <2>1. PICK id \in (FlatLength + 1)..Len(made) : Begin(p, id, 1, FALSE) /\ made' = made
      BY <1>3 DEF AppendAgain
    <2>2. id \in Nat /\ id > FlatLength /\ 1 \in Int /\ FALSE \in BOOLEAN
      BY <1>0, <1>1
    <2>3. IsSequence(made') /\ FlatLength <= Len(made')
      BY <2>1, <1>0
    <2> QED
      BY <2>1, <2>2, <2>3, BeginKept, Zenon
  <1>4. CASE PadToBucket(p)
    <2>1. Len(lines[p]) \in Nat
      BY <1>0
    <2>2. Missing(Len(lines[p])) \in Int
      <3>1. ASSUME NEW x \in Int PROVE x % Bucket \in Int
        BY <1>0
      <3>2. Bucket - (Len(lines[p]) % Bucket) \in Int
        BY <2>1, <3>1, <1>0
      <3> QED
        BY <3>1, <3>2 DEF Missing
    <2>3. IsSequence(made') /\ FlatLength <= Len(made')
      BY <1>2, <1>4 DEF PadToBucket, Make
    <2>4. Begin(p, Len(made) + 1, Missing(Len(lines[p])), TRUE)
      BY <1>4 DEF PadToBucket
    <2>5. Len(made) + 1 \in Nat /\ Len(made) + 1 > FlatLength /\ TRUE \in BOOLEAN
      BY <1>0, <1>1
    <2> QED
      BY <2>2, <2>3, <2>4, <2>5, BeginKept, Zenon
  <1>5. CASE AppendNew(p)
    <2>1. IsSequence(made') /\ FlatLength <= Len(made')
      BY <1>2, <1>5 DEF AppendNew, Make
    <2>2. Begin(p, Len(made) + 1, 1, FALSE)
      BY <1>5 DEF AppendNew
    <2>3. /\ Len(made) + 1 \in Nat /\ Len(made) + 1 > FlatLength
          /\ 1 \in Int /\ FALSE \in BOOLEAN
      BY <1>0, <1>1
    <2> QED
      BY <2>1, <2>2, <2>3, BeginKept, Zenon
  <1> QED
    BY <1>3, <1>4, <1>5

-----------------------------------------------------------------------------
\* The log is as long as the lines of the process that is about to write.
LEMMA CheckKept ==
  ASSUME IInv, NEW p \in Procs, CheckNotStale(p)
  PROVE  IInv'
  <1> USE DEF stores
  <1>0. Typed /\ BusyInv /\ pc[p] = "check" /\ Busy(p)
    BY DEF IInv, CheckNotStale, BusyInv
  <1>1. Typed'
    BY <1>0 DEF Typed, CheckNotStale, Goto, Labels
  <1>2. pc'[p] = "put" /\ \A q \in Procs : q # p => pc'[q] = pc[q]
    BY <1>0 DEF CheckNotStale, Goto, Typed
  <1>3. Busy(p)'
    BY <1>0, <1>2 DEF CheckNotStale, Busy, Importing
  <1>4. BusyInv'
    BY <1>0, <1>1, <1>2, <1>3, BusyKept DEF Typed
  <1>5. PrefixInv' /\ EntriesHaveRecords' /\ NoPartialImport'
    BY DEF IInv, PrefixInv, Begins, EntriesHaveRecords, NoPartialImport, CheckNotStale
  <1> QED
    BY <1>1, <1>4, <1>5 DEF IInv

\* The record is in the store before the entry is written.
LEMMA PutKept ==
  ASSUME IInv, NEW p \in Procs, Put(p)
  PROVE  IInv'
  <1>0. Typed /\ BusyInv /\ pc[p] = "put" /\ Busy(p)
    BY DEF IInv, Put, BusyInv
  <1>1. Typed'
    BY <1>0 DEF Typed, Put, Goto, Labels
  <1>2. /\ pc'[p] = "entry" /\ \A q \in Procs : q # p => pc'[q] = pc[q]
        /\ records \subseteq records' /\ call[p].id \in records'
    BY <1>0 DEF Put, Goto, Typed
  <1>3. Busy(p)'
    BY <1>0, <1>2 DEF Put, Busy, Importing
  <1>4. BusyInv'
    BY <1>0, <1>1, <1>2, <1>3, BusyKept DEF Typed
  <1>5. PrefixInv' /\ EntriesHaveRecords' /\ NoPartialImport'
    BY <1>2 DEF IInv, PrefixInv, Begins, EntriesHaveRecords, NoPartialImport, Put
  <1> QED
    BY <1>1, <1>4, <1>5 DEF IInv

\* An entry leaves every other Ledger's lines a beginning of the log.
LEMMA PrefixKept ==
  ASSUME IInv, NEW p \in Procs, pc[p] = "entry",
         log' = Append(log, call[p].id),
         lines' = lines \/ lines' = [lines EXCEPT ![p] = Append(@, call[p].id)]
  PROVE  /\ PrefixInv' /\ lines' \in [Procs -> Seq(Nat)]
         /\ lines' # lines => Len(lines'[p]) = Len(lines[p]) + 1
  <1>0. /\ log \in Seq(Nat) /\ lines \in [Procs -> Seq(Nat)]
        /\ call[p].id \in Nat /\ Len(log) = Len(lines[p])
        /\ \A q \in Procs : lines[q] \in Seq(Nat) /\ Begins(lines[q], log)
    BY DEF IInv, Typed, CallType, BusyInv, Busy, PrefixInv
  <1>1. \A q \in Procs : Begins(lines[q], log')
    BY <1>0, BeginsGrows
  <1>2. /\ Append(lines[p], call[p].id) \in Seq(Nat)
        /\ Begins(Append(lines[p], call[p].id), log')
        /\ Len(Append(lines[p], call[p].id)) = Len(lines[p]) + 1
    BY <1>0, BeginsGrows
  <1>3. CASE lines' = lines
    BY <1>0, <1>1, <1>3 DEF PrefixInv
  <1>4. CASE lines' = [lines EXCEPT ![p] = Append(@, call[p].id)]
    <2>1. /\ lines'[p] = Append(lines[p], call[p].id)
          /\ \A q \in Procs : q # p => lines'[q] = lines[q]
          /\ lines' \in [Procs -> Seq(Nat)]
      BY <1>0, <1>2, <1>4
    <2>2. ASSUME NEW q \in Procs PROVE Begins(lines'[q], log')
      BY <1>1, <1>2, <2>1
    <2> QED
      BY <1>2, <2>1, <2>2 DEF PrefixInv
  <1> QED
    BY <1>3, <1>4

\* What moving an import's position leaves.
LEMMA PositionUpdated ==
  ASSUME NEW f \in [Procs -> CallType], NEW p \in Procs, NEW n \in Nat
  PROVE  /\ [f EXCEPT ![p].pos = n] \in [Procs -> CallType]
         /\ [f EXCEPT ![p].pos = n][p].pos = n
  BY DEF CallType

\* After an entry the call returns, or goes on with its next line.
LEMMA EntryStepKept ==
  ASSUME IInv, NEW p \in Procs, AppendEntry(p)
  PROVE  IInv'
  <1>0. /\ Typed /\ BusyInv /\ pc[p] = "entry" /\ Busy(p)
        /\ log' = Append(log, call[p].id) /\ records' = records
        /\ lines' = [lines EXCEPT ![p] = Append(@, call[p].id)]
        /\ Continue(p, Len(lines[p]) + 1)
        /\ FlatLength \in Nat /\ Writers \cap Importers = {} /\ p \in Writers \cup Importers
    BY StoreBackedAssumption DEF IInv, AppendEntry, BusyInv, Procs
  <1>1. /\ EntriesHaveRecords' /\ NoPartialImport' /\ log' \in Seq(Nat)
        /\ PrefixInv' /\ lines' \in [Procs -> Seq(Nat)]
        /\ Len(lines[p]) \in Nat
        /\ Len(lines'[p]) = Len(lines[p]) + 1
    <2>1. /\ EntriesHaveRecords' /\ NoPartialImport' /\ log' \in Seq(Nat)
          /\ PrefixInv' /\ lines' \in [Procs -> Seq(Nat)]
      BY <1>0, EntryKept, PrefixKept
    <2>2. /\ lines[p] \in Seq(Nat) /\ call[p].id \in Nat
          /\ lines'[p] = Append(lines[p], call[p].id)
      BY <1>0 DEF Typed, CallType
    <2> QED
      BY <2>1, <2>2
  <1>2. /\ IsSequence(made) /\ FlatLength <= Len(made) /\ Len(made) \in Nat
        /\ call[p].left \in Int
    BY <1>0, AppendIsSequence DEF Typed, CallType
  <1>3. CASE call[p].left <= 1
    <2>1. Return(p) /\ made' = made
      BY <1>0, <1>3 DEF Continue
    <2>2. Typed'
      BY <1>0, <1>1, <2>1, ReturnTyped DEF Typed
    <2>3. BusyInv'
      BY <1>0, <2>1, ReturnTyped, BusyKept
    <2> QED
      BY <1>1, <2>2, <2>3 DEF IInv
  <1>4. CASE ~(call[p].left <= 1) /\ p \in Writers
    <2>1. /\ made' = Append(made, Padding) /\ owner' = owner
          /\ call' = [call EXCEPT ![p].left = @ - 1, ![p].id = Len(made) + 1]
          /\ pc' = [pc EXCEPT ![p] = "check"]
      BY <1>0, <1>4 DEF Continue, Goto
    <2>2. /\ call'[p].id = Len(made) + 1 /\ call' \in [Procs -> CallType]
          /\ pc'[p] = "check" /\ pc' \in [Procs -> Labels]
          /\ \A q \in Procs : q # p => pc'[q] = pc[q]
      <3>1. call'[p].id = Len(made) + 1 /\ call' \in [Procs -> CallType]
        <4> DEFINE x == Len(made) + 1
                   l == call[p].left - 1
        <4>1. /\ l \in Int /\ x \in Nat /\ call \in [Procs -> CallType]
              /\ call' = [call EXCEPT ![p].left = l, ![p].id = x]
          BY <1>0, <1>2, <2>1 DEF Typed
        <4> HIDE DEF x, l
        <4>2. call'[p].id = x /\ call' \in [Procs -> CallType]
          BY <4>1 DEF CallType
        <4> QED
          BY <4>2 DEF x
      <3> QED
        BY <1>0, <2>1, <3>1 DEF Typed, Labels
    <2>3. IsSequence(made') /\ FlatLength <= Len(made')
      BY <1>0, <1>2, <2>1, AppendIsSequence
    <2>4. Typed'
      BY <1>1, <2>2, <2>3 DEF Typed
    <2>5. Busy(p)'
      BY <1>0, <1>2, <1>4, <2>1, <2>2 DEF Busy
    <2>6. BusyInv'
      BY <1>0, <2>2, <2>5, BusyKept
    <2> QED
      BY <1>1, <2>4, <2>6 DEF IInv
  <1>5. CASE ~(call[p].left <= 1) /\ p \notin Writers
    <2>0. /\ p \in Importers /\ Importing(p)
      BY <1>0, <1>5 DEF Busy
    <2>1. /\ made' = made /\ owner' = owner
          /\ call' = [call EXCEPT ![p].left = @ - 1, ![p].id = Flat[Len(lines[p]) + 2]]
          /\ pc' = [pc EXCEPT ![p] = "check"]
      <3>1. (Len(lines[p]) + 1) + 1 = Len(lines[p]) + 2
        BY <1>1
      <3> QED
        BY <1>0, <1>5, <3>1 DEF Continue, Goto
    <2>2. Len(lines[p]) + 2 \in 1..FlatLength /\ Flat[Len(lines[p]) + 2] \in 1..FlatLength
      BY <1>0, <1>1, <1>2, <1>5, <2>0 DEF Importing, Flat
    <2>3. /\ call'[p].id \in 1..FlatLength /\ call'[p].left = call[p].left - 1
          /\ call' \in [Procs -> CallType]
          /\ pc'[p] = "check" /\ pc' \in [Procs -> Labels]
          /\ \A q \in Procs : q # p => pc'[q] = pc[q]
      <3>1. /\ call'[p].id \in 1..FlatLength /\ call'[p].left = call[p].left - 1
            /\ call' \in [Procs -> CallType]
        <4> DEFINE x == Flat[Len(lines[p]) + 2]
                   l == call[p].left - 1
        <4>1. /\ l \in Int /\ x \in Nat /\ call \in [Procs -> CallType]
              /\ call' = [call EXCEPT ![p].left = l, ![p].id = x]
          BY <1>0, <1>2, <2>1, <2>2 DEF Typed
        <4> HIDE DEF x, l
        <4>2. call'[p].id = x /\ call'[p].left = l /\ call' \in [Procs -> CallType]
          BY <4>1 DEF CallType
        <4> QED
          BY <2>2, <4>2 DEF x, l
      <3> QED
        BY <1>0, <2>1, <3>1 DEF Typed, Labels
    <2>4. Typed'
      BY <1>0, <1>1, <2>1, <2>3 DEF Typed
    <2>5. Importing(p)'
      BY <1>0, <1>1, <1>2, <1>5, <2>0, <2>3 DEF Importing
    <2>6. Busy(p)'
      BY <1>0, <1>5, <2>1, <2>3, <2>5 DEF Busy
    <2>7. BusyInv'
      BY <1>0, <2>3, <2>6, BusyKept
    <2> QED
      BY <1>1, <2>4, <2>7 DEF IInv
  <1> QED
    BY <1>3, <1>4, <1>5

-----------------------------------------------------------------------------
\* An import that starts knows that the log holds the first flat records,
\* and so does not put them again.
LEMMA ImportKept ==
  ASSUME IInv, NEW i \in Importers, Import(i)
  PROVE  IInv'
  <1> USE DEF stores
  <1>0. /\ Typed /\ BusyInv /\ i \in Procs /\ i \notin Writers /\ FlatLength \in Nat
        /\ pc[i] = "idle" /\ owner = Nobody /\ log \in Seq(Nat) /\ Len(log) \in Nat
    <2>1. i \in Procs /\ i \notin Writers /\ FlatLength \in Nat
      BY StoreBackedAssumption DEF Procs
    <2>2. Typed /\ BusyInv /\ log \in Seq(Nat)
      BY DEF IInv, Typed
    <2>3. pc[i] = "idle" /\ owner = Nobody
      BY DEF Import, Take
    <2> QED
      BY <2>1, <2>2, <2>3
  <1>1. /\ lines'[i] = log /\ lines' \in [Procs -> Seq(Nat)]
        /\ call'[i].pos = Len(log) + 1 /\ call' \in [Procs -> CallType]
        /\ pc'[i] = "putall" /\ pc' \in [Procs -> Labels]
        /\ \A q \in Procs : q # i => pc'[q] = pc[q] /\ lines'[q] = lines[q]
        /\ owner' = i /\ log' = log /\ records' = records /\ made' = made
    <2>1. call'[i].pos = Len(log) + 1 /\ call' \in [Procs -> CallType]
      <3> DEFINE n == Len(log) + 1
      <3>1. /\ n \in Nat /\ call \in [Procs -> CallType]
            /\ call' = [call EXCEPT ![i].pos = n]
        BY <1>0 DEF Typed, Import
      <3> HIDE DEF n
      <3>2. call'[i].pos = n /\ call' \in [Procs -> CallType]
        BY <1>0, <3>1, PositionUpdated
      <3> QED
        BY <3>2 DEF n
    <2>2. /\ lines'[i] = log /\ lines' \in [Procs -> Seq(Nat)]
          /\ \A q \in Procs : q # i => lines'[q] = lines[q]
      BY <1>0 DEF Import, Typed
    <2>3. /\ pc'[i] = "putall" /\ pc' \in [Procs -> Labels]
          /\ \A q \in Procs : q # i => pc'[q] = pc[q]
      BY <1>0 DEF Import, Goto, Typed, Labels
    <2>4. owner' = i /\ log' = log /\ records' = records /\ made' = made
      BY DEF Import, Take
    <2> QED
      BY <2>1, <2>2, <2>3, <2>4
  <1>2. Typed'
    BY <1>0, <1>1 DEF Typed
  <1>3. Importing(i)'
    <2>1. Len(log) <= FlatLength /\ \A n \in 1..Len(log) : log[n] = n /\ log[n] \in records
      <3>1. /\ Len(log) <= FlatLength /\ \A n \in DOMAIN log : log[n] = Flat[n]
            /\ \A n \in DOMAIN log : log[n] \in records
        BY DEF Import, Resumable, Admits
      <3>2. \A n \in 1..Len(log) : n \in 1..FlatLength /\ n \in DOMAIN log
        BY <1>0, <3>1
      <3>3. \A n \in 1..FlatLength : Flat[n] = n
        BY DEF Flat
      <3> QED
        BY <3>1, <3>2, <3>3
    <2>2. ASSUME NEW n \in 1..FlatLength, n < call'[i].pos PROVE n \in records'
      <3>1. n \in 1..Len(log)
        BY <1>0, <1>1, <2>2
      <3> QED
        BY <1>1, <2>1, <3>1
    <2> QED
      BY <1>1, <2>1, <2>2 DEF Importing
  <1>4. Busy(i)'
    BY <1>0, <1>1, <1>3 DEF Busy
  <1>5. BusyInv'
    BY <1>0, <1>1, <1>4, BusyKept
  <1>6. PrefixInv'
    <2>1. Begins(log, log)
      BY <1>0 DEF Begins
    <2> QED
      BY <1>1, <2>1 DEF IInv, PrefixInv
  <1>7. EntriesHaveRecords' /\ NoPartialImport'
    BY <1>1 DEF IInv, EntriesHaveRecords, NoPartialImport
  <1> QED
    BY <1>2, <1>5, <1>6, <1>7 DEF IInv

\* The records before an import's position are in the store.
LEMMA ImportPutKept ==
  ASSUME IInv, NEW i \in Importers, ImportPut(i)
  PROVE  IInv'
  <1>0. /\ Typed /\ BusyInv /\ i \in Procs /\ i \notin Writers /\ FlatLength \in Nat
        /\ pc[i] = "putall" /\ Busy(i) /\ Importing(i)
        /\ call[i].pos \in Nat /\ call[i].pos <= FlatLength
    BY StoreBackedAssumption DEF IInv, Procs, ImportPut, Typed, BusyInv, Busy, CallType
  <1>1. /\ call'[i].pos = call[i].pos + 1 /\ call' \in [Procs -> CallType]
        /\ pc' = pc /\ lines' = lines /\ owner' = owner /\ log' = log /\ made' = made
        /\ records \subseteq records'
        /\ call[i].pos >= 1 => call[i].pos \in records'
    <2>1. call'[i].pos = call[i].pos + 1 /\ call' \in [Procs -> CallType]
      <3>1. call[i].pos + 1 \in Nat /\ call \in [Procs -> CallType]
        BY <1>0 DEF Typed
      <3>2. call' = [call EXCEPT ![i].pos = call[i].pos + 1]
        BY DEF ImportPut
      <3> QED
        BY <1>0, <3>1, <3>2, PositionUpdated
    <2>2. call[i].pos >= 1 => Flat[call[i].pos] = call[i].pos
      BY <1>0 DEF Flat
    <2>3. /\ pc' = pc /\ lines' = lines /\ owner' = owner /\ log' = log /\ made' = made
          /\ records' = records \cup {Flat[call[i].pos]}
      BY DEF ImportPut
    <2> QED
      BY <2>1, <2>2, <2>3
  <1>2. Typed'
    BY <1>0, <1>1 DEF Typed
  <1>3. Importing(i)'
    <2>1. ASSUME NEW n \in 1..FlatLength, n < call'[i].pos PROVE n \in records'
      <3>1. n \in Nat /\ n >= 1 /\ n < call[i].pos + 1
        BY <1>0, <1>1, <2>1
      <3>2. CASE n < call[i].pos
        BY <1>0, <1>1, <3>2 DEF Importing
      <3>3. CASE n = call[i].pos
        BY <1>1, <3>1, <3>3
      <3> QED
        BY <1>0, <3>1, <3>2, <3>3
    <2> QED
      BY <1>0, <1>1, <2>1 DEF Importing
  <1>4. Busy(i)'
    BY <1>0, <1>1, <1>3 DEF Busy
  <1>5. BusyInv'
    BY <1>0, <1>1, <1>2, <1>4, BusyKept DEF Typed
  <1>6. PrefixInv' /\ EntriesHaveRecords' /\ NoPartialImport'
    BY <1>1 DEF IInv, PrefixInv, EntriesHaveRecords, NoPartialImport
  <1> QED
    BY <1>2, <1>5, <1>6 DEF IInv

\* Entries are appended only when every record is in the store.
LEMMA ImportCommitsKept ==
  ASSUME IInv, NEW i \in Importers, ImportCommits(i)
  PROVE  IInv'
  <1> USE DEF stores
  <1>0. /\ Typed /\ BusyInv /\ i \in Procs /\ i \notin Writers /\ FlatLength \in Nat
        /\ pc[i] = "putall" /\ Busy(i) /\ Importing(i) /\ Len(lines[i]) \in Nat
        /\ call[i].pos \in Nat /\ call[i].pos > FlatLength
        /\ made' = made /\ log' = log /\ records' = records /\ lines' = lines
    <2>1. i \in Procs /\ i \notin Writers /\ FlatLength \in Nat
      BY StoreBackedAssumption DEF Procs
    <2>2. /\ pc[i] = "putall" /\ call[i].pos > FlatLength
          /\ made' = made /\ log' = log /\ records' = records /\ lines' = lines
      BY DEF ImportCommits, ImportCommit
    <2>3. Typed /\ BusyInv /\ lines[i] \in Seq(Nat) /\ call[i].pos \in Nat
      BY <2>1 DEF IInv, Typed, CallType
    <2>4. Busy(i) /\ Importing(i)
      BY <2>1, <2>2, <2>3 DEF BusyInv, Busy
    <2> QED
      BY <2>1, <2>2, <2>3, <2>4
  <1>1. CASE Len(lines[i]) = FlatLength
    <2>1. Return(i)
      BY <1>1 DEF ImportCommits, ImportCommit
    <2> QED
      BY <1>0, <2>1, EndKept
  <1>2. CASE Len(lines[i]) # FlatLength
    <2>1. /\ Len(lines[i]) < FlatLength /\ Flat[Len(lines[i]) + 1] \in 1..FlatLength
          /\ 1..FlatLength \subseteq records
      <3>1. Len(lines[i]) < FlatLength
        BY <1>0, <1>2 DEF Importing
      <3>2. Flat[Len(lines[i]) + 1] \in 1..FlatLength
        BY <1>0, <3>1 DEF Flat
      <3>3. ASSUME NEW n \in 1..FlatLength PROVE n \in records
        <4>1. n < call[i].pos
          BY <1>0
        <4> QED
          BY <1>0, <4>1 DEF Importing
      <3> QED
        BY <3>1, <3>2, <3>3
    <2>2. /\ call'[i].id \in 1..FlatLength /\ call'[i].left = FlatLength - Len(lines[i])
          /\ call' \in [Procs -> CallType] /\ owner' = owner
          /\ pc'[i] = "check" /\ pc' \in [Procs -> Labels]
          /\ \A q \in Procs : q # i => pc'[q] = pc[q]
      <3> DEFINE x == Flat[Len(lines[i]) + 1]
                 l == FlatLength - Len(lines[i])
      <3>1. /\ call' = [call EXCEPT ![i].id = x, ![i].left = l]
            /\ pc' = [pc EXCEPT ![i] = "check"] /\ owner' = owner
        BY <1>2 DEF ImportCommits, ImportCommit, Goto
      <3>2. x \in 1..FlatLength /\ x \in Nat /\ l \in Int /\ call \in [Procs -> CallType]
        BY <1>0, <2>1 DEF Typed
      <3> HIDE DEF x, l
      <3>3. call'[i].id = x /\ call'[i].left = l /\ call' \in [Procs -> CallType]
        BY <1>0, <3>1, <3>2 DEF CallType
      <3>4. /\ pc'[i] = "check" /\ pc' \in [Procs -> Labels]
            /\ \A q \in Procs : q # i => pc'[q] = pc[q]
        BY <1>0, <3>1 DEF Typed, Labels
      <3> QED
        BY <3>1, <3>2, <3>3, <3>4 DEF l
    <2>3. Typed'
      BY <1>0, <2>2 DEF Typed
    <2>4. Importing(i)'
      BY <1>0, <2>1, <2>2 DEF Importing
    <2>5. Busy(i)'
      BY <1>0, <2>2, <2>4 DEF Busy
    <2>6. BusyInv'
      BY <1>0, <2>2, <2>5, BusyKept
    <2>7. PrefixInv' /\ EntriesHaveRecords' /\ NoPartialImport'
      BY <1>0 DEF IInv, PrefixInv, EntriesHaveRecords, NoPartialImport
    <2> QED
      BY <2>3, <2>6, <2>7 DEF IInv
  <1> QED
    BY <1>1, <1>2

\* A write that fails, or one whose answer is lost.
LEMMA FailsKept ==
  ASSUME IInv, NEW p \in Procs, Fails(p)
  PROVE  IInv'
  <1>0. /\ Typed /\ BusyInv /\ pc[p] # "idle" /\ Return(p)
        /\ made' = made /\ records' = records /\ lines' = lines
    BY DEF IInv, Fails
  <1>1. CASE log' = log
    BY <1>0, <1>1, EndKept DEF stores
  <1>2. CASE pc[p] = "entry" /\ log' = Append(log, call[p].id)
    <2>1. EntriesHaveRecords' /\ NoPartialImport' /\ log' \in Seq(Nat) /\ PrefixInv'
      BY <1>0, <1>2, EntryKept, PrefixKept
    <2>2. Typed'
      BY <1>0, <2>1, ReturnTyped DEF Typed
    <2>3. BusyInv'
      BY <1>0, ReturnTyped, BusyKept
    <2> QED
      BY <2>1, <2>2, <2>3 DEF IInv
  <1> QED
    BY <1>1, <1>2 DEF Fails

\* Every step keeps the invariant.
LEMMA NextIInv == IInv /\ [Next]_vars => IInv'
  <1> SUFFICES ASSUME IInv, [Next]_vars PROVE IInv'
    OBVIOUS
  <1>1. ASSUME NEW p \in Writers,
               OpenStores(p) \/ AppendNew(p) \/ AppendAgain(p) \/ PadToBucket(p)
        PROVE  IInv'
    BY <1>1, OpenKept, WriterKept
  <1>2. ASSUME NEW i \in Importers, Import(i) \/ ImportStep(i)
        PROVE  IInv'
    BY <1>2, ImportKept, ImportPutKept, ImportCommitsKept DEF ImportStep
  <1>3. ASSUME NEW p \in Procs, Stale(p) \/ AlreadyInLog(p) \/ Crash(p)
        PROVE  IInv'
    <2>1. /\ pc[p] # "idle" /\ Return(p) /\ UNCHANGED <<made, stores>>
          /\ lines' = lines \/ lines' = [lines EXCEPT ![p] = <<>>]
      BY <1>3 DEF Stale, AlreadyInLog, Crash
    <2> QED
      BY <2>1, EndKept
  <1>4. ASSUME NEW p \in Procs, Step(p) \/ Fails(p) \/ Crash(p)
        PROVE  IInv'
    BY <1>3, <1>4, CheckKept, PutKept, EntryStepKept, FailsKept DEF Step
  <1>5. CASE UNCHANGED vars
    BY <1>5 DEF vars, stores, IInv, Typed, BusyInv, Busy, Importing, PrefixInv,
                EntriesHaveRecords, NoPartialImport
  <1> QED
    BY <1>1, <1>2, <1>4, <1>5 DEF Next

-----------------------------------------------------------------------------
\* No entry of the log ever names a record that the store does not hold,
\* whatever fails or dies between the two writes of _commit.
THEOREM EntriesAlwaysHaveRecords == Spec => []EntriesHaveRecords
  <1>1. IInv => EntriesHaveRecords
    BY DEF IInv
  <1> QED
    BY <1>1, InitIInv, NextIInv, PTL DEF Spec

\* import_flat has put every flat record before the log holds one of them.
THEOREM ImportsPutEverythingFirst == Spec => []NoPartialImport
  <1>1. IInv => NoPartialImport
    BY DEF IInv
  <1> QED
    BY <1>1, InitIInv, NextIInv, PTL DEF Spec

\* The lines a Ledger keeps in memory are the log's first lines, also after
\* a write whose outcome it was not told.
THEOREM LinesAreAlwaysThePrefix == Spec => []LinesAreThePrefix
  <1>1. IInv => LinesAreThePrefix
    <2> SUFFICES ASSUME IInv, NEW p \in Procs
                 PROVE  /\ Len(lines[p]) <= Len(log)
                        /\ lines[p] = SubSeq(log, 1, Len(lines[p]))
      BY DEF LinesAreThePrefix
    <2>1. lines[p] \in Seq(Nat) /\ log \in Seq(Nat) /\ Begins(lines[p], log)
      BY DEF IInv, Typed, PrefixInv
    <2> QED
      BY <2>1 DEF Begins
  <1> QED
    BY <1>1, InitIInv, NextIInv, PTL DEF Spec

-----------------------------------------------------------------------------
(* The chain.  A writer that is in a call extends the head of its own       *)
(* lines, or pads; when it writes, its lines are the log (Busy).  An import *)
(* has the first flat records, and writes the next one.                     *)

Knows(p) ==
    /\ p \in Writers =>
          /\ call[p].id \in 1..Len(made)
          /\ made[call[p].id].pad \/ made[call[p].id].parent = ChainHead(lines[p])
          /\ call[p].fill => (Len(lines[p]) + call[p].left) % Bucket = 0
    /\ p \in Importers =>
          /\ \A n \in DOMAIN lines[p] : lines[p][n] = n
          /\ pc[p] # "putall" => call[p].id = Len(lines[p]) + 1

KnowInv == \A p \in Procs : IF pc[p] = "idle" THEN ~call[p].fill ELSE Knows(p)

CInv ==
    /\ \A n \in 1..FlatLength : ~made[n].pad
    /\ \A n \in DOMAIN log : log[n] \in 1..Len(made)
    /\ KnowInv
    /\ ChainNeverForks

\* ChainHead and Linear of given records.
HeadIn(m, ids) ==
    LET chained == {n \in DOMAIN ids : ~m[ids[n]].pad}
    IN  IF chained = {} THEN 0 ELSE ids[Max(chained)]

LinearIn(m, ids) ==
    \A n \in DOMAIN ids :
        m[ids[n]].pad \/ m[ids[n]].parent = HeadIn(m, SubSeq(ids, 1, n - 1))

LEMMA InMade ==
  /\ \A p : ChainHead(lines[p]) = HeadIn(made, lines[p])
  /\ Linear(log) <=> LinearIn(made, log)
  BY DEF ChainHead, HeadIn, Linear, LinearIn

\* Records that are made later change neither.
LEMMA SameHead ==
  ASSUME NEW m, NEW k, NEW ids,
         \A n \in DOMAIN ids : k[ids[n]] = m[ids[n]]
  PROVE  HeadIn(k, ids) = HeadIn(m, ids)
  <1>1. {n \in DOMAIN ids : ~k[ids[n]].pad} = {n \in DOMAIN ids : ~m[ids[n]].pad}
    OBVIOUS
  <1> QED
    BY <1>1 DEF HeadIn

LEMMA FrontIs ==
  ASSUME NEW ids \in Seq(Nat), NEW n \in DOMAIN ids
  PROVE  /\ SubSeq(ids, 1, n - 1) \in Seq(Nat) /\ DOMAIN SubSeq(ids, 1, n - 1) = 1..(n - 1)
         /\ \A j \in 1..(n - 1) : j \in DOMAIN ids /\ SubSeq(ids, 1, n - 1)[j] = ids[j]
  OBVIOUS

LEMMA SameLinear ==
  ASSUME NEW m, NEW k, NEW ids \in Seq(Nat),
         \A n \in DOMAIN ids : k[ids[n]] = m[ids[n]], LinearIn(m, ids)
  PROVE  LinearIn(k, ids)
  <1> SUFFICES ASSUME NEW n \in DOMAIN ids
               PROVE  k[ids[n]].pad \/ k[ids[n]].parent = HeadIn(k, SubSeq(ids, 1, n - 1))
    BY DEF LinearIn
  <1> DEFINE s == SubSeq(ids, 1, n - 1)
  <1>1. \A j \in DOMAIN s : k[s[j]] = m[s[j]]
    <2>1. /\ DOMAIN s = 1..(n - 1)
          /\ \A j \in 1..(n - 1) : j \in DOMAIN ids /\ s[j] = ids[j]
      BY FrontIs
    <2> HIDE DEF s
    <2> QED
      BY <2>1
  <1>2. HeadIn(k, s) = HeadIn(m, s)
    BY <1>1, SameHead
  <1> QED
    BY <1>2 DEF LinearIn

\* A record that extends the head, or pads, may be added.
LEMMA LinearGrows ==
  ASSUME NEW m, NEW ids \in Seq(Nat), NEW x \in Nat, LinearIn(m, ids),
         m[x].pad \/ m[x].parent = HeadIn(m, ids)
  PROVE  LinearIn(m, Append(ids, x))
  <1> DEFINE t == Append(ids, x)
  <1>1. PICK l \in Nat : l = Len(ids)
    OBVIOUS
  <1>2. /\ t \in Seq(Nat) /\ DOMAIN t = 1..(l + 1) /\ DOMAIN ids = 1..l
        /\ \A n \in 1..l : t[n] = ids[n]
        /\ t[l + 1] = x
    BY <1>1
  <1>3. ASSUME NEW n \in 1..l PROVE SubSeq(t, 1, n - 1) = SubSeq(ids, 1, n - 1)
    BY <1>1
  <1>4. SubSeq(t, 1, (l + 1) - 1) = ids
    BY <1>1
  <1> HIDE DEF t
  <1> SUFFICES ASSUME NEW n \in DOMAIN t
               PROVE  m[t[n]].pad \/ m[t[n]].parent = HeadIn(m, SubSeq(t, 1, n - 1))
    BY DEF LinearIn, t
  <1>5. CASE n \in 1..l
    BY <1>2, <1>3, <1>5 DEF LinearIn
  <1>6. CASE n = l + 1
    BY <1>2, <1>4, <1>6
  <1> QED
    BY <1>2, <1>5, <1>6

\* The head of the first k flat records is the k-th.
LEMMA FlatHead ==
  ASSUME NEW m, NEW ids \in Seq(Nat), \A n \in DOMAIN ids : ids[n] = n /\ ~m[n].pad
  PROVE  HeadIn(m, ids) = Len(ids)
  <1> DEFINE chained == {n \in DOMAIN ids : ~m[ids[n]].pad}
  <1>1. PICK l \in Nat : l = Len(ids) /\ DOMAIN ids = 1..l
    OBVIOUS
  <1>2. chained = 1..l
    BY <1>1
  <1>3. CASE l = 0
    BY <1>1, <1>2, <1>3 DEF HeadIn
  <1>4. CASE l # 0
    <2>1. Max(1..l) = l
      BY <1>4 DEF Max
    <2>2. l \in DOMAIN ids /\ l \in chained
      BY <1>1, <1>2, <1>4
    <2>3. chained # {} /\ ids[Max(chained)] = l
      BY <1>2, <2>1, <2>2
    <2> QED
      BY <1>1, <2>3 DEF HeadIn
  <1> QED
    BY <1>3, <1>4

\* Adding what is missing fills the bucket.
LEMMA MissingFills ==
  ASSUME NEW n \in Nat
  PROVE  Missing(n) \in Nat /\ (n + Missing(n)) % Bucket = 0
  <1>1. PICK b \in Nat \ {0} : b = Bucket
    BY StoreBackedAssumption
  <1>2. n \div b \in Nat /\ n % b \in 0..(b - 1) /\ n = b * (n \div b) + (n % b)
    OBVIOUS
  <1>3. PICK q \in Nat, r \in 0..(b - 1) : q = n \div b /\ r = n % b
    BY <1>2
  <1>4. Missing(n) = (b - r) % b
    BY <1>1, <1>3 DEF Missing
  <1>5. CASE r = 0
    <2>1. b % b = 0 /\ b - 0 = b /\ n + 0 = n
      OBVIOUS
    <2>2. Missing(n) = 0 /\ n % b = 0
      BY <1>3, <1>4, <1>5, <2>1
    <2> QED
      BY <1>1, <2>1, <2>2
  <1>6. CASE r # 0
    <2>1. r \in 1..(b - 1)
      BY <1>6
    <2>2. (b - r) % b = b - r /\ b - r \in Nat
      BY <2>1
    <2>3. n + (b - r) = b * (q + 1)
      <3>1. n = b * q + r
        BY <1>2, <1>3
      <3>2. (b * q + r) + (b - r) = b * (q + 1)
        OBVIOUS
      <3> QED
        BY <3>1, <3>2
    <2>4. (b * (q + 1)) % b = 0
      OBVIOUS
    <2> QED
      BY <1>1, <1>4, <2>2, <2>3, <2>4
  <1> QED
    BY <1>5, <1>6

LEMMA SameSequence ==
  ASSUME NEW s \in Seq(Nat), NEW t \in Seq(Nat), Len(s) = Len(t),
         \A n \in 1..Len(s) : s[n] = t[n]
  PROVE  s = t
  OBVIOUS

\* What a process adds to the log extends the chain.
LEMMA ExtendsHead ==
  ASSUME IInv, CInv, NEW p \in Procs, pc[p] = "entry",
         FlatIsChain \/ call[p].id > FlatLength
  PROVE  /\ call[p].id \in 1..Len(made)
         /\ made[call[p].id].pad \/ made[call[p].id].parent = HeadIn(made, log)
  <1>1. /\ Typed /\ Busy(p) /\ Knows(p) /\ Begins(lines[p], log)
        /\ Len(log) = Len(lines[p]) /\ log \in Seq(Nat) /\ lines[p] \in Seq(Nat)
        /\ p \in Writers \cup Importers /\ FlatLength \in Nat
    BY StoreBackedAssumption
       DEF IInv, Typed, BusyInv, Busy, PrefixInv, CInv, KnowInv, Procs
  <1>2. lines[p] = log
    BY <1>1, SameSequence DEF Begins
  <1>3. CASE p \in Writers
    BY <1>1, <1>2, <1>3, InMade DEF Knows
  <1>4. CASE p \in Importers
    <2>1. /\ \A n \in DOMAIN log : log[n] = n
          /\ call[p].id = Len(log) + 1 /\ call[p].id \in 1..FlatLength
      BY <1>1, <1>2, <1>4 DEF Knows, Busy, Importing
    <2>2. FlatIsChain /\ \A n \in DOMAIN log : n \in 1..FlatLength /\ ~made[n].pad
      <3>1. FlatIsChain
        BY <1>1, <2>1
      <3>2. \A n \in DOMAIN log : n \in 1..FlatLength
        BY <1>1, <2>1
      <3> QED
        BY <3>1, <3>2 DEF CInv
    <2>3. HeadIn(made, log) = Len(log)
      BY <1>1, <2>1, <2>2, FlatHead
    <2>4. made[call[p].id].parent = Len(log)
      <3>1. (Len(log) + 1) - 1 = Len(log)
        BY <1>1
      <3> QED
        BY <2>1, <2>2, <3>1 DEF FlatIsChain
    <2>5. FlatLength <= Len(made) /\ Len(made) \in Nat
      BY <1>1, AppendIsSequence DEF Typed
    <2> QED
      BY <1>1, <2>1, <2>3, <2>4, <2>5
  <1> QED
    BY <1>1, <1>3, <1>4

\* A step of p keeps the chain if p knows what it should afterwards.
LEMMA ChainKept ==
  ASSUME IInv, CInv, NEW p \in Procs, pc[p] # "idle" \/ owner = Nobody,
         Len(made') \in Nat, Begins(made, made'),
         \A q \in Procs : q # p => pc'[q] = pc[q] /\ call'[q] = call[q],
         IF pc'[p] = "idle" THEN ~call'[p].fill ELSE Knows(p)',
         \/ log' = log
         \/ pc[p] = "entry" /\ log' = Append(log, call[p].id)
  PROVE  CInv'
  <1>1. /\ FlatLength \in Nat /\ FlatLength <= Len(made) /\ Len(made) \in Nat
        /\ Len(made) <= Len(made') /\ \A n \in 1..Len(made) : made'[n] = made[n]
        /\ log \in Seq(Nat) /\ BusyInv
        /\ pc[p] = "entry" => call[p].id \in 1..Len(made)
    <2>1. Len(made) \in Nat /\ FlatLength <= Len(made) /\ FlatLength \in Nat
      BY AppendIsSequence, StoreBackedAssumption DEF IInv, Typed
    <2>2. pc[p] = "entry" => call[p].id \in 1..Len(made)
      <3>1. CASE p \in Writers
        BY <3>1 DEF CInv, KnowInv, Knows
      <3>2. CASE p \in Importers
        BY <2>1, <3>2 DEF IInv, BusyInv, Busy, Importing
      <3> QED
        BY <3>1, <3>2 DEF Procs
    <2> QED
      BY <2>1, <2>2 DEF IInv, Typed, Begins
  <1>2. \A n \in 1..FlatLength : made'[n] = made[n]
    BY <1>1
  <1>3. (\A n \in 1..FlatLength : ~made[n].pad)'
    BY <1>2 DEF CInv
  <1>4. /\ log' \in Seq(Nat) /\ \A n \in DOMAIN log' : log'[n] \in 1..Len(made)
        /\ \A n \in DOMAIN log : n \in DOMAIN log' /\ log'[n] = log[n]
    <2>1. CASE log' = log
      BY <1>1, <2>1 DEF CInv
    <2>2. CASE pc[p] = "entry" /\ log' = Append(log, call[p].id)
      <3>1. PICK x \in 1..Len(made) : x = call[p].id
        BY <1>1, <2>2
      <3>2. PICK l \in Nat : l = Len(log)
        BY <1>1
      <3>3. /\ log' = Append(log, x) /\ x \in Nat /\ DOMAIN log = 1..l
            /\ log' \in Seq(Nat) /\ DOMAIN log' = 1..(l + 1) /\ log'[l + 1] = x
            /\ \A n \in 1..l : log'[n] = log[n]
        BY <1>1, <2>2, <3>1, <3>2
      <3>4. \A n \in 1..l : log[n] \in 1..Len(made)
        BY <3>3 DEF CInv
      <3>5. \A n \in 1..(l + 1) : n \in 1..l \/ n = l + 1
        OBVIOUS
      <3> QED
        BY <3>1, <3>3, <3>4, <3>5
    <2> QED
      BY <2>1, <2>2
  <1>5. \A n \in DOMAIN log' : log'[n] \in 1..Len(made')
    BY <1>1, <1>4
  <1>6. KnowInv'
    <2>1. \A q \in Procs : q # p => pc[q] = "idle"
      BY <1>1, Alone
    <2> QED
      BY <2>1 DEF CInv, KnowInv
  <1>7. ChainNeverForks'
    <2> SUFFICES ASSUME FlatIsChain' \/ \A n \in DOMAIN log' : log'[n] > FlatLength
                 PROVE  Linear(log)'
      BY DEF ChainNeverForks
    <2>1. FlatIsChain' <=> FlatIsChain
      BY <1>2 DEF FlatIsChain
    <2>2. LinearIn(made, log)
      BY <1>4, <2>1, InMade DEF CInv, ChainNeverForks
    <2>3. LinearIn(made, log')
      <3>1. CASE log' = log
        BY <2>2, <3>1
      <3>2. CASE pc[p] = "entry" /\ log' = Append(log, call[p].id)
        <4>1. FlatIsChain \/ call[p].id > FlatLength
          <5>1. Len(log) + 1 \in DOMAIN log' /\ log'[Len(log) + 1] = call[p].id
            BY <1>1, <3>2
          <5> QED
            BY <2>1, <5>1
        <4>2. /\ call[p].id \in Nat
              /\ made[call[p].id].pad \/ made[call[p].id].parent = HeadIn(made, log)
          BY <1>1, <3>2, <4>1, ExtendsHead
        <4>3. LinearIn(made, Append(log, call[p].id))
          BY <1>1, <2>2, <4>2, LinearGrows
        <4> QED
          BY <3>2, <4>3
      <3> QED
        BY <3>1, <3>2
    <2>4. \A n \in DOMAIN log' : made'[log'[n]] = made[log'[n]]
      BY <1>1, <1>4
    <2>5. LinearIn(made', log')
      BY <1>4, <2>3, <2>4, SameLinear
    <2>6. Linear(log)' <=> LinearIn(made', log')
      BY DEF Linear, LinearIn, ChainHead, HeadIn
    <2> QED
      BY <2>5, <2>6
  <1> QED
    BY <1>3, <1>5, <1>6, <1>7 DEF CInv

-----------------------------------------------------------------------------
LEMMA BeginsMade ==
  ASSUME IInv
  PROVE  /\ Len(made) \in Nat /\ Begins(made, made) /\ FlatLength \in Nat
         /\ FlatLength <= Len(made)
         /\ \A r : /\ Begins(made, Append(made, r))
                   /\ Len(Append(made, r)) = Len(made) + 1
                   /\ Append(made, r)[Len(made) + 1] = r
  <1>1. IsSequence(made) /\ FlatLength <= Len(made) /\ FlatLength \in Nat
    BY StoreBackedAssumption DEF IInv, Typed
  <1>2. Len(made) \in Nat
    BY <1>1, AppendIsSequence
  <1>3. ASSUME NEW r
        PROVE  /\ Begins(made, Append(made, r))
               /\ Len(Append(made, r)) = Len(made) + 1
               /\ Append(made, r)[Len(made) + 1] = r
    <2>1. PICK S : made \in Seq(S)
      BY <1>1 DEF IsSequence
    <2> DEFINE T == S \cup {r}
    <2>2. made \in Seq(T) /\ r \in T
      BY <2>1
    <2> HIDE DEF T
    <2> QED
      BY <2>2 DEF Begins
  <1>4. Begins(made, made)
    BY <1>2 DEF Begins
  <1> QED
    BY <1>1, <1>2, <1>3, <1>4

\* The head of a process's lines does not change when records are made.
LEMMA HeadKept ==
  ASSUME IInv, CInv, NEW p \in Procs, Begins(made, made'), lines'[p] = lines[p]
  PROVE  ChainHead(lines[p])' = ChainHead(lines[p])
  <1>1. \A n \in DOMAIN lines[p] : lines[p][n] \in 1..Len(made)
    <2>1. /\ lines[p] \in Seq(Nat) /\ log \in Seq(Nat) /\ Begins(lines[p], log)
          /\ \A n \in DOMAIN log : log[n] \in 1..Len(made)
      BY DEF IInv, Typed, PrefixInv, CInv
    <2>2. /\ Len(lines[p]) \in Nat /\ Len(log) \in Nat
          /\ DOMAIN lines[p] = 1..Len(lines[p]) /\ DOMAIN log = 1..Len(log)
      BY <2>1
    <2>3. \A n \in 1..Len(lines[p]) : n \in DOMAIN log /\ lines[p][n] = log[n]
      BY <2>1, <2>2 DEF Begins
    <2> QED
      BY <2>1, <2>2, <2>3
  <1>2. \A n \in DOMAIN lines[p] : made'[lines[p][n]] = made[lines[p][n]]
    BY <1>1 DEF Begins
  <1>3. HeadIn(made', lines[p]) = HeadIn(made, lines[p])
    BY <1>2, SameHead
  <1>4. ChainHead(lines[p])' = HeadIn(made', lines[p])
    BY DEF ChainHead, HeadIn
  <1> QED
    BY <1>3, <1>4, InMade

\* A call that ends, with or without an entry in the log.
LEMMA EndChain ==
  ASSUME IInv, CInv, NEW p \in Procs, pc[p] # "idle", Return(p), made' = made,
         \/ log' = log
         \/ pc[p] = "entry" /\ log' = Append(log, call[p].id)
  PROVE  CInv'
  <1>1. /\ pc'[p] = "idle" /\ ~call'[p].fill
        /\ \A q \in Procs : q # p => pc'[q] = pc[q] /\ call'[q] = call[q]
    BY DEF IInv, Typed, Return, Goto, NoCall
  <1>2. Begins(made, made') /\ Len(made') \in Nat
    BY BeginsMade
  <1> QED
    BY <1>1, <1>2, ChainKept

LEMMA OpenChain ==
  ASSUME IInv, CInv, NEW p \in Writers, OpenStores(p)
  PROVE  CInv'
  <1>1. /\ p \in Procs /\ pc[p] = "idle" /\ owner = Nobody
        /\ pc' = pc /\ call' = call /\ made' = made /\ log' = log
    BY DEF OpenStores, Procs, stores
  <1>2. ~call'[p].fill
    BY <1>1 DEF CInv, KnowInv
  <1>3. Begins(made, made') /\ Len(made') \in Nat
    BY <1>1, BeginsMade
  <1> QED
    BY <1>1, <1>2, <1>3, ChainKept

\* A call begins with a record that extends the head of the Ledger's lines.
LEMMA BeginChain ==
  ASSUME IInv, CInv, NEW p \in Writers, NEW id, NEW left, NEW fill,
         Begin(p, id, left, fill), Begins(made, made'), Len(made') \in Nat,
         id \in 1..Len(made'),
         made'[id].pad \/ made'[id].parent = ChainHead(lines[p]),
         fill => (Len(lines[p]) + left) % Bucket = 0
  PROVE  CInv'
  <1>1. /\ p \in Procs /\ p \notin Importers /\ owner = Nobody
        /\ pc' = [pc EXCEPT ![p] = "check"] /\ log' = log /\ lines' = lines
        /\ call' = [call EXCEPT ![p] = [id |-> id, left |-> left, fill |-> fill, pos |-> 0]]
        /\ pc \in [Procs -> Labels] /\ call \in [Procs -> CallType]
    BY StoreBackedAssumption DEF IInv, Typed, Begin, Take, Goto, Procs, stores
  <1>2. /\ call'[p].id = id /\ call'[p].left = left /\ call'[p].fill = fill
        /\ pc'[p] = "check" /\ lines'[p] = lines[p]
        /\ \A q \in Procs : q # p => pc'[q] = pc[q] /\ call'[q] = call[q]
    BY <1>1
  <1>3. ChainHead(lines[p])' = ChainHead(lines[p])
    BY <1>1, <1>2, HeadKept
  <1>4. Knows(p)'
    BY <1>1, <1>2, <1>3 DEF Knows
  <1> QED
    BY <1>1, <1>2, <1>4, ChainKept

LEMMA WriterChain ==
  ASSUME IInv, CInv, NEW p \in Writers, AppendNew(p) \/ AppendAgain(p) \/ PadToBucket(p)
  PROVE  CInv'
  <1>0. Len(lines[p]) \in Nat /\ Len(made) \in Nat
    BY BeginsMade DEF IInv, Typed, Procs
  <1>1. CASE AppendNew(p)
    <2>1. PICK r : r = [parent |-> ChainHead(lines[p]), pad |-> FALSE]
      OBVIOUS
    <2>2. made' = Append(made, r) /\ Begin(p, Len(made) + 1, 1, FALSE)
      BY <1>1, <2>1 DEF AppendNew, Make
    <2>3. /\ Begins(made, made') /\ Len(made') = Len(made) + 1
          /\ made'[Len(made) + 1] = r /\ r.parent = ChainHead(lines[p])
      BY <2>1, <2>2, BeginsMade
    <2>4. Len(made) + 1 \in 1..Len(made') /\ Len(made') \in Nat
      BY <1>0, <2>3
    <2> QED
      BY <2>2, <2>3, <2>4, BeginChain
  <1>2. CASE AppendAgain(p)
    <2>1. PICK id \in (FlatLength + 1)..Len(made) :
             /\ made[id].pad \/ made[id].parent = ChainHead(lines[p])
             /\ Begin(p, id, 1, FALSE) /\ made' = made
      BY <1>2 DEF AppendAgain
    <2>2. Begins(made, made') /\ Len(made') \in Nat /\ id \in 1..Len(made')
      BY <2>1, BeginsMade
    <2> QED
      BY <2>1, <2>2, BeginChain
  <1>3. CASE PadToBucket(p)
    <2>1. made' = Append(made, Padding) /\ Begin(p, Len(made) + 1, Missing(Len(lines[p])), TRUE)
      BY <1>3 DEF PadToBucket, Make
    <2>2. /\ Begins(made, made') /\ Len(made') = Len(made) + 1
          /\ made'[Len(made) + 1].pad
      BY <2>1, BeginsMade DEF Padding
    <2>3. Len(made) + 1 \in 1..Len(made') /\ Len(made') \in Nat
      BY <1>0, <2>2
    <2>4. (Len(lines[p]) + Missing(Len(lines[p]))) % Bucket = 0
      BY <1>0, MissingFills
    <2> QED
      BY <2>1, <2>2, <2>3, <2>4, BeginChain
  <1> QED
    BY <1>1, <1>2, <1>3

\* Checking the log and putting the record leave what is known.
LEMMA StayChain ==
  ASSUME IInv, CInv, NEW p \in Procs, CheckNotStale(p) \/ Put(p)
  PROVE  CInv'
  <1>1. /\ pc[p] \in {"check", "put"} /\ pc'[p] \in {"put", "entry"}
        /\ \A q \in Procs : q # p => pc'[q] = pc[q]
        /\ call' = call /\ lines' = lines /\ made' = made /\ log' = log
    BY DEF CheckNotStale, Put, Goto, stores, IInv, Typed
  <1>2. Begins(made, made') /\ Len(made') \in Nat
    BY <1>1, BeginsMade
  <1>3. Knows(p)
    BY <1>1 DEF CInv, KnowInv
  <1>4. Knows(p)'
    BY <1>1, <1>3 DEF Knows, ChainHead
  <1> QED
    BY <1>1, <1>2, <1>4, ChainKept

\* The lines of the process that appends grow by what it appends.
LEMMA LinesGrow ==
  ASSUME IInv, NEW p \in Procs, AppendEntry(p)
  PROVE  /\ lines'[p] = Append(lines[p], call[p].id) /\ Len(lines[p]) \in Nat
         /\ Len(lines'[p]) = Len(lines[p]) + 1
         /\ \A n \in DOMAIN lines'[p] :
               lines'[p][n] = IF n = Len(lines[p]) + 1 THEN call[p].id ELSE lines[p][n]
         /\ \A n \in DOMAIN lines'[p] : n = Len(lines[p]) + 1 \/ n \in DOMAIN lines[p]
  <1>1. lines[p] \in Seq(Nat) /\ call[p].id \in Nat /\ lines \in [Procs -> Seq(Nat)]
    BY DEF IInv, Typed, CallType
  <1>2. lines'[p] = Append(lines[p], call[p].id)
    BY <1>1 DEF AppendEntry
  <1> QED
    BY <1>1, <1>2

\* An entry, and the next line of a call that has more.
LEMMA EntryChain ==
  ASSUME IInv, CInv, NEW p \in Procs, AppendEntry(p)
  PROVE  CInv'
  <1>1. /\ pc[p] = "entry" /\ Busy(p) /\ Knows(p) /\ log' = Append(log, call[p].id)
        /\ Continue(p, Len(lines[p]) + 1)
        /\ p \in Writers \cup Importers /\ Writers \cap Importers = {}
        /\ pc \in [Procs -> Labels] /\ call \in [Procs -> CallType]
        /\ call[p].left \in Int /\ Len(lines[p]) \in Nat /\ Len(made) \in Nat
    <2>1. pc[p] = "entry" /\ Typed /\ BusyInv /\ KnowInv
      BY DEF AppendEntry, IInv, CInv
    <2>2. p \in Writers \cup Importers /\ Writers \cap Importers = {}
      BY StoreBackedAssumption DEF Procs
    <2>3. log' = Append(log, call[p].id) /\ Continue(p, Len(lines[p]) + 1)
      BY DEF AppendEntry
    <2>4. Busy(p) /\ Knows(p)
      BY <2>1 DEF BusyInv, KnowInv
    <2>5. /\ pc \in [Procs -> Labels] /\ call \in [Procs -> CallType]
          /\ call[p].left \in Int /\ Len(lines[p]) \in Nat /\ Len(made) \in Nat
      BY <2>1, BeginsMade DEF Typed, CallType
    <2> QED
      BY <2>1, <2>2, <2>3, <2>4, <2>5
  <1>2. CASE call[p].left <= 1
    <2>1. Return(p) /\ made' = made
      BY <1>1, <1>2 DEF Continue
    <2> QED
      BY <1>1, <2>1, EndChain
  <1>3. CASE ~(call[p].left <= 1) /\ p \in Writers
    <2>1. PICK x \in Nat, l \in Int : x = Len(made) + 1 /\ l = call[p].left - 1
      BY <1>1
    <2>2. /\ made' = Append(made, Padding) /\ pc' = [pc EXCEPT ![p] = "check"]
          /\ call' = [call EXCEPT ![p].left = l, ![p].id = x]
      BY <1>1, <1>3, <2>1 DEF Continue, Goto
    <2>3. /\ Begins(made, made') /\ Len(made') = x /\ made'[x].pad
          /\ Len(made') \in Nat /\ x \in 1..Len(made')
      BY <1>1, <2>1, <2>2, BeginsMade DEF Padding
    <2>4. /\ call'[p].id = x /\ call'[p].left = l /\ call'[p].fill = call[p].fill
          /\ pc'[p] = "check"
          /\ \A q \in Procs : q # p => pc'[q] = pc[q] /\ call'[q] = call[q]
      BY <1>1, <2>2 DEF CallType
    <2>5. Len(lines'[p]) + l = Len(lines[p]) + call[p].left
      <3>1. Len(lines'[p]) = Len(lines[p]) + 1
        BY LinesGrow
      <3>2. Len(lines[p]) \in Nat /\ call[p].left \in Int
        BY <1>1
      <3>3. PICK n \in Nat, k \in Int : n = Len(lines[p]) /\ k = call[p].left
        BY <3>2
      <3>4. l = k - 1 /\ Len(lines'[p]) = n + 1
        BY <2>1, <3>1, <3>3
      <3>5. (n + 1) + (k - 1) = n + k
        OBVIOUS
      <3> QED
        BY <3>3, <3>4, <3>5
    <2>6. Knows(p)'
      BY <1>1, <1>3, <2>3, <2>4, <2>5 DEF Knows
    <2> QED
      BY <1>1, <2>3, <2>4, <2>6, ChainKept
  <1>4. CASE ~(call[p].left <= 1) /\ p \notin Writers
    <2>0. p \in Importers /\ Importing(p)
      BY <1>1, <1>4 DEF Busy
    <2>1. PICK x, l : x = Flat[Len(lines[p]) + 2] /\ l = call[p].left - 1
      OBVIOUS
    <2>2. /\ made' = made /\ pc' = [pc EXCEPT ![p] = "check"]
          /\ call' = [call EXCEPT ![p].left = l, ![p].id = x]
      <3>1. (Len(lines[p]) + 1) + 1 = Len(lines[p]) + 2
        BY <1>1
      <3> QED
        BY <1>1, <1>4, <2>1, <3>1 DEF Continue, Goto
    <2>3. x = Len(lines[p]) + 2
      <3>1. Len(lines[p]) + 2 \in 1..FlatLength
        BY <1>1, <1>4, <2>0, BeginsMade DEF Importing
      <3> QED
        BY <2>1, <3>1 DEF Flat
    <2>4. /\ call'[p].id = x /\ pc'[p] = "check"
          /\ \A q \in Procs : q # p => pc'[q] = pc[q] /\ call'[q] = call[q]
      BY <1>1, <2>2 DEF CallType
    <2>5. \A n \in DOMAIN lines'[p] : lines'[p][n] = n
      <3>1. call[p].id = Len(lines[p]) + 1 /\ \A n \in DOMAIN lines[p] : lines[p][n] = n
        BY <1>1, <2>0 DEF Knows
      <3> QED
        BY <3>1, LinesGrow
    <2>6. call'[p].id = Len(lines'[p]) + 1
      BY <1>1, <2>3, <2>4, LinesGrow
    <2>7. Knows(p)'
      BY <1>4, <2>4, <2>5, <2>6 DEF Knows
    <2>8. Begins(made, made') /\ Len(made') \in Nat
      BY <2>2, BeginsMade
    <2> QED
      BY <1>1, <2>4, <2>7, <2>8, ChainKept
  <1> QED
    BY <1>2, <1>3, <1>4

\* An import starts with the first flat records as its lines.
LEMMA ImportChain ==
  ASSUME IInv, CInv, NEW i \in Importers, Import(i)
  PROVE  CInv'
  <1>1. /\ i \in Procs /\ i \notin Writers /\ pc[i] = "idle" /\ owner = Nobody
        /\ made' = made /\ log' = log /\ Typed
    BY StoreBackedAssumption DEF Import, Take, Procs, stores, IInv
  <1>2. /\ lines'[i] = log /\ pc'[i] = "putall"
        /\ \A q \in Procs : q # i => pc'[q] = pc[q] /\ call'[q] = call[q]
    BY <1>1 DEF Import, Goto, Typed
  <1>3. \A n \in DOMAIN log : log[n] = n
    <2>1. Len(log) <= FlatLength /\ \A n \in DOMAIN log : log[n] = Flat[n]
      BY DEF Import, Resumable
    <2>2. \A n \in DOMAIN log : n \in 1..FlatLength
      <3>1. log \in Seq(Nat) /\ FlatLength \in Nat
        BY <1>1, BeginsMade DEF Typed
      <3> QED
        BY <2>1, <3>1
    <2> QED
      BY <2>1, <2>2 DEF Flat
  <1>4. Knows(i)'
    BY <1>1, <1>2, <1>3 DEF Knows
  <1>5. Begins(made, made') /\ Len(made') \in Nat
    BY <1>1, BeginsMade
  <1> QED
    BY <1>1, <1>2, <1>4, <1>5, ChainKept

LEMMA ImportStepChain ==
  ASSUME IInv, CInv, NEW i \in Importers, ImportStep(i)
  PROVE  CInv'
  <1>1. /\ i \in Procs /\ i \notin Writers /\ pc[i] = "putall" /\ Knows(i)
        /\ made' = made /\ log' = log /\ lines' = lines /\ Typed
    <2>1. i \in Procs /\ i \notin Writers
      BY StoreBackedAssumption DEF Procs
    <2>2. /\ pc[i] = "putall" /\ made' = made /\ log' = log /\ lines' = lines
      BY DEF ImportStep, ImportPut, ImportCommits, ImportCommit, stores
    <2> QED
      BY <2>1, <2>2 DEF IInv, CInv, KnowInv
  <1>2. Begins(made, made') /\ Len(made') \in Nat
    BY <1>1, BeginsMade
  <1>3. CASE ImportPut(i)
    <2>1. /\ pc' = pc /\ \A q \in Procs : q # i => call'[q] = call[q]
      BY <1>1, <1>3 DEF ImportPut, Typed
    <2>2. Knows(i)'
      BY <1>1, <2>1 DEF Knows
    <2> QED
      BY <1>1, <1>2, <2>1, <2>2, ChainKept
  <1>4. CASE ImportCommits(i) /\ Len(lines[i]) = FlatLength
    <2>1. Return(i)
      BY <1>4 DEF ImportCommits, ImportCommit
    <2> QED
      BY <1>1, <2>1, EndChain
  <1>5. CASE ImportCommits(i) /\ Len(lines[i]) # FlatLength
    <2>1. PICK x, l : x = Flat[Len(lines[i]) + 1] /\ l = FlatLength - Len(lines[i])
      OBVIOUS
    <2>2. /\ call' = [call EXCEPT ![i].id = x, ![i].left = l]
          /\ pc' = [pc EXCEPT ![i] = "check"]
      BY <1>5, <2>1 DEF ImportCommits, ImportCommit, Goto
    <2>3. /\ call'[i].id = x /\ pc'[i] = "check"
          /\ \A q \in Procs : q # i => pc'[q] = pc[q] /\ call'[q] = call[q]
      BY <1>1, <2>2 DEF Typed, CallType
    <2>4. x = Len(lines[i]) + 1
      <3>1. Len(lines[i]) \in Nat /\ Len(lines[i]) <= FlatLength
        BY <1>1 DEF IInv, BusyInv, Busy, Importing, Typed
      <3>2. Len(lines[i]) + 1 \in 1..FlatLength
        BY <1>5, <3>1, BeginsMade
      <3> QED
        BY <2>1, <3>2 DEF Flat
    <2>5. Knows(i)'
      BY <1>1, <2>3, <2>4 DEF Knows
    <2> QED
      BY <1>1, <1>2, <2>3, <2>5, ChainKept
  <1> QED
    BY <1>3, <1>4, <1>5 DEF ImportStep

\* Whether a process has a Ledger is a Boolean.
OpenTyped == open \in [Procs -> BOOLEAN]

LEMMA NextOpenTyped == OpenTyped /\ [Next]_vars => OpenTyped'
  <1> SUFFICES ASSUME OpenTyped, [Next]_vars PROVE OpenTyped'
    OBVIOUS
  <1>1. ASSUME NEW p \in Writers,
               OpenStores(p) \/ AppendNew(p) \/ AppendAgain(p) \/ PadToBucket(p)
        PROVE  OpenTyped'
    BY <1>1 DEF OpenTyped, OpenStores, AppendNew, AppendAgain, PadToBucket, Begin
  <1>2. ASSUME NEW i \in Importers, Import(i) \/ ImportStep(i)
        PROVE  OpenTyped'
    BY <1>2 DEF OpenTyped, Import, ImportStep, ImportPut, ImportCommits, ImportCommit
  <1>3. ASSUME NEW p \in Procs, Step(p) \/ Fails(p) \/ Crash(p)
        PROVE  OpenTyped'
    BY <1>3 DEF OpenTyped, Step, CheckNotStale, Stale, Put, AppendEntry, AlreadyInLog,
                Fails, Crash
  <1> QED
    BY <1>1, <1>2, <1>3 DEF Next, vars, OpenTyped

LEMMA InitCInv == Init => CInv
  <1> SUFFICES ASSUME Init PROVE CInv
    OBVIOUS
  <1>1. \A n \in 1..FlatLength : ~made[n].pad
    <2>1. PICK c \in BOOLEAN :
             made = [n \in 1..FlatLength |->
                        [parent |-> IF c THEN n - 1 ELSE 0, pad |-> FALSE]]
      BY DEF Init
    <2> QED
      BY <2>1
  <1>2. log = <<>> /\ KnowInv
    BY DEF Init, KnowInv, NoCall
  <1>3. ChainNeverForks
    BY <1>2 DEF ChainNeverForks, Linear
  <1> QED
    BY <1>1, <1>2, <1>3 DEF CInv

LEMMA NextCInv == IInv /\ CInv /\ [Next]_vars => CInv'
  <1> SUFFICES ASSUME IInv, CInv, [Next]_vars PROVE CInv'
    OBVIOUS
  <1>1. ASSUME NEW p \in Writers,
               OpenStores(p) \/ AppendNew(p) \/ AppendAgain(p) \/ PadToBucket(p)
        PROVE  CInv'
    BY <1>1, OpenChain, WriterChain
  <1>2. ASSUME NEW i \in Importers, Import(i) \/ ImportStep(i)
        PROVE  CInv'
    BY <1>2, ImportChain, ImportStepChain
  <1>3. ASSUME NEW p \in Procs, Stale(p) \/ AlreadyInLog(p) \/ Crash(p) \/ Fails(p)
        PROVE  CInv'
    <2>1. /\ pc[p] # "idle" /\ Return(p) /\ made' = made
          /\ log' = log \/ (pc[p] = "entry" /\ log' = Append(log, call[p].id))
      BY <1>3 DEF Stale, AlreadyInLog, Crash, Fails, stores
    <2> QED
      BY <2>1, EndChain
  <1>4. ASSUME NEW p \in Procs, Step(p) \/ Fails(p) \/ Crash(p)
        PROVE  CInv'
    BY <1>3, <1>4, StayChain, EntryChain DEF Step
  <1>5. CASE UNCHANGED vars
    <2>1. /\ made' = made /\ log' = log /\ lines' = lines /\ pc' = pc /\ call' = call
      BY <1>5 DEF vars, stores
    <2>2. \A p : Knows(p) => Knows(p)'
      BY <2>1 DEF Knows, ChainHead
    <2>3. KnowInv'
      BY <2>1, <2>2 DEF CInv, KnowInv
    <2>4. FlatIsChain' <=> FlatIsChain
      BY <2>1 DEF FlatIsChain
    <2>5. Linear(log)' <=> Linear(log)
      BY <2>1 DEF Linear, ChainHead
    <2>6. ChainNeverForks'
      BY <2>1, <2>4, <2>5 DEF CInv, ChainNeverForks
    <2> QED
      BY <2>1, <2>3, <2>6 DEF CInv
  <1> QED
    BY <1>1, <1>2, <1>4, <1>5 DEF Next

\* The entry with which pad_to_bucket says it is done fills a bucket.
LEMMA LastPadFills ==
  ASSUME IInv, CInv, OpenTyped, [Next]_vars, NEW p \in Writers,
         call[p].fill, call[p].left = 1, lines'[p] # lines[p], open'[p]
  PROVE  Len(log') % Bucket = 0
  <1>0. Typed /\ KnowInv /\ BusyInv /\ p \in Procs
    BY DEF IInv, CInv, Procs
  <1>1. pc[p] # "idle" /\ Knows(p) /\ Busy(p)
    BY <1>0 DEF KnowInv, BusyInv
  <1>2. AppendEntry(p)
    <2>1. ASSUME NEW q \in Writers,
                 OpenStores(q) \/ AppendNew(q) \/ AppendAgain(q) \/ PadToBucket(q)
          PROVE  FALSE
      BY <1>0, <1>1, <2>1, Alone DEF OpenStores, AppendNew, AppendAgain, PadToBucket, Begin,
                                     Take, Procs
    <2>2. ASSUME NEW i \in Importers, Import(i) \/ ImportStep(i)
          PROVE  FALSE
      <3>1. i # p /\ i \in Procs
        BY StoreBackedAssumption DEF Procs
      <3>2. CASE Import(i)
        BY <1>0, <1>1, <3>1, <3>2, Alone DEF Import, Take
      <3>3. CASE ImportStep(i)
        BY <3>3 DEF ImportStep, ImportPut, ImportCommits, ImportCommit
      <3> QED
        BY <2>2, <3>2, <3>3
    <2>3. ASSUME NEW q \in Procs, Step(q) \/ Fails(q) \/ Crash(q)
          PROVE  AppendEntry(p)
      <3>1. pc[q] # "idle"
        BY <2>3 DEF Step, CheckNotStale, Stale, Put, AppendEntry, AlreadyInLog, Fails, Crash
      <3>2. q = p
        BY <1>0, <1>1, <3>1, Alone
      <3>3. ~Crash(p)
        BY <1>0 DEF Crash, OpenTyped
      <3> QED
        BY <2>3, <3>2, <3>3
           DEF Step, CheckNotStale, Stale, Put, AlreadyInLog, Fails
    <2> QED
      BY <2>1, <2>2, <2>3 DEF Next, vars
  <1>3. /\ log \in Seq(Nat) /\ call[p].id \in Nat /\ Len(log) = Len(lines[p])
        /\ log' = Append(log, call[p].id)
    BY <1>0, <1>1, <1>2 DEF AppendEntry, Typed, CallType, Busy
  <1>4. Len(log') = Len(lines[p]) + 1
    BY <1>3
  <1> QED
    BY <1>1, <1>4 DEF Knows

\* Whatever heads processes hold, and however writes fail, are retried or are
\* lost, the log stays the one chain that open_stores accepts, and padding
\* that is through ends on a full bucket.
THEOREM ChainIsAlwaysKept == Spec => ChainIsKept
  <1>1. CInv => ChainNeverForks
    BY DEF CInv
  <1>2. Init => OpenTyped
    BY DEF Init, OpenTyped
  <1>3. IInv /\ CInv /\ OpenTyped /\ [Next]_vars =>
           [\A p \in Writers :
               (call[p].fill /\ call[p].left = 1 /\ lines'[p] # lines[p] /\ open'[p])
               => Len(log') % Bucket = 0]_vars
    BY LastPadFills
  <1> QED
    BY <1>1, <1>2, <1>3, InitIInv, NextIInv, InitCInv, NextCInv, NextOpenTyped, PTL
       DEF Spec, ChainIsKept, PadsFillTheBucket

=============================================================================
