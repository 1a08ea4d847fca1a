------------------------- MODULE FlatLedgerProofs -------------------------
(***************************************************************************)
(* Proofs about FlatLedger, for any number of threads, processes, appends, *)
(* failed writes and crashes.                                              *)
(*                                                                         *)
(* One writer: whoever is inside the write owns the flock.                 *)
(*                                                                         *)
(* One log (LInv): because nobody else writes, the id a writer found new   *)
(* stays new until its line is there, and the last piece is the one it     *)
(* left (StageInv); because finished pieces never change (Grown), what an  *)
(* index once read stays a prefix of what the file reads as (Indexed), and *)
(* a refresh that reads on from there shows everything (RefreshShowsAll).  *)
(* From this every step of the code is a step of AppendOnlyLog or none.    *)
(***************************************************************************)
EXTENDS FlatLedger, SequenceTheorems, WellFoundedInduction, TLAPS

Inside == {"check", "repair", "part", "body", "nl", "done"}
Labels == Inside \cup {"idle", "append", "flock"}

\* The inductive invariant: the lock's owner is what OneWriter leaves out.
WriterOwnsFlock ==
    /\ pc \in [Threads -> Labels]
    /\ \A t \in Threads : pc[t] \in Inside => flock = t

\* Whoever is inside owns the one flock, so two insiders are the same thread.
LEMMA OwnerIsOne == WriterOwnsFlock => OneWriter
  BY DEF WriterOwnsFlock, OneWriter, Writing, Inside

\* A thread that goes to another label outside the lock keeps the rule.
LEMMA GotoOutside ==
    ASSUME WriterOwnsFlock, NEW t \in Threads,
           NEW l \in {"idle", "append", "flock"}, Goto(t, l), UNCHANGED flock
    PROVE  WriterOwnsFlock'
  BY DEF WriterOwnsFlock, Goto, Inside, Labels

\* The owner may move about inside the lock.
LEMMA GotoInside ==
    ASSUME WriterOwnsFlock, NEW t \in Threads, pc[t] \in Inside,
           NEW l \in Inside, Goto(t, l), UNCHANGED flock
    PROVE  WriterOwnsFlock'
  BY DEF WriterOwnsFlock, Goto, Inside, Labels

\* Leaving the with block gives up the flock only if it was the leaver's.
LEMMA LeaveKeeps ==
    ASSUME WriterOwnsFlock, NEW t \in Threads, Leave(t)
    PROVE  WriterOwnsFlock'
  BY FlatLedgerAssumption DEF WriterOwnsFlock, Leave, Goto, Inside, Labels

\* Every step keeps the ownership rule.
LEMMA OwnershipInductive ==
    WriterOwnsFlock /\ [Next]_vars => WriterOwnsFlock'
<1> SUFFICES ASSUME WriterOwnsFlock, [Next]_vars PROVE WriterOwnsFlock'
  OBVIOUS
<1>1. CASE UNCHANGED vars
  BY <1>1 DEF vars, WriterOwnsFlock
<1>2. ASSUME NEW t \in Threads, CallAppend(t) PROVE WriterOwnsFlock'
  BY <1>2, GotoOutside DEF CallAppend
<1>3. ASSUME NEW t \in Threads, LockAppend(t) PROVE WriterOwnsFlock'
  BY <1>3, GotoOutside DEF LockAppend
<1>4. ASSUME NEW t \in Threads, LockFile(t) PROVE WriterOwnsFlock'
  BY <1>4, FlatLedgerAssumption
     DEF LockFile, WriterOwnsFlock, Goto, Inside, Labels
<1>5. ASSUME NEW t \in Threads,
             Locked(t) \/ CheckFound(t) \/ WriteFails(t) \/ Inserted(t)
      PROVE WriterOwnsFlock'
  BY <1>5, LeaveKeeps DEF Locked, CheckFound, WriteFails, Inserted
<1>6. ASSUME NEW t \in Threads, CheckNew(t) PROVE WriterOwnsFlock'
  <2>1. pc[t] \in Inside /\ UNCHANGED flock
    BY <1>6 DEF CheckNew, Inside
  <2>2. CASE Torn
    BY <1>6, <2>1, <2>2, GotoInside DEF CheckNew, Inside
  <2>3. CASE ~Torn
    BY <1>6, <2>1, <2>3, GotoInside DEF CheckNew, Inside
  <2> QED BY <2>2, <2>3
<1>7. ASSUME NEW t \in Threads,
             RepairTail(t) \/ WritePart(t) \/ WriteBody(t) \/ WriteNewline(t)
      PROVE WriterOwnsFlock'
  BY <1>7, GotoInside DEF RepairTail, WritePart, WriteBody, WriteNewline, Inside
<1>8. ASSUME NEW p \in Procs, Read(p) PROVE WriterOwnsFlock'
  BY <1>8 DEF Read, WriterOwnsFlock
<1>9. ASSUME NEW p \in Procs, Crash(p) PROVE WriterOwnsFlock'
  BY <1>9, FlatLedgerAssumption DEF Crash, WriterOwnsFlock, Inside, Labels
<1> QED
  BY <1>1, <1>2, <1>3, <1>4, <1>5, <1>6, <1>7, <1>8, <1>9 DEF Next, Step

\* docs/concurrency.md, "One log, one writer": _append_lock and the flock let
\* one thread of one process into the write, whatever crashes or fails.
THEOREM OneLogOneWriter == Spec => []OneWriter
<1>1. Init => WriterOwnsFlock
  BY DEF Init, WriterOwnsFlock, Inside, Labels
<1> QED
  BY <1>1, OwnershipInductive, OwnerIsOne, PTL DEF Spec

-----------------------------------------------------------------------------
(* Reading pieces.  What EntriesOf computes is shown by least               *)
(* counterexample on the number of pieces.                                  *)

Piece == [entry : Entry, parses : BOOLEAN, nl : BOOLEAN]

\* A nonempty set of naturals has a least element.
LEMMA LeastNat ==
  ASSUME NEW T, T \subseteq Nat, T # {}
  PROVE  \E i \in T : \A j \in T : i <= j
<1> DEFINE R == {p \in Nat \X Nat : p[1] < p[2]}
<1>1. IsWellFoundedOn(R, Nat)
  BY NatLessThanWellFounded DEF OpToRel
<1>2. PICK i \in T : \A j \in T : ~(<<j, i>> \in R)
  BY <1>1, WFMin
<1>3. ASSUME NEW j \in T PROVE i <= j
  <2>1. ~(<<j, i>> \in R) /\ i \in Nat /\ j \in Nat
    BY <1>2
  <2> QED
    BY <2>1
<1> QED
  BY <1>3

\* g[k] is what a reader sees of the first k of the pieces s.
IsScan(g, s, n) ==
    g = [k \in 0 .. n |->
           IF k = 0 THEN <<>>
           ELSE IF s[k].parses THEN Append(g[k - 1], s[k].entry)
           ELSE g[k - 1]]

LEMMA ScanExists ==
  ASSUME NEW s, NEW n \in Nat
  PROVE  \E g : IsScan(g, s, n)
<1> DEFINE Bad == {m \in Nat : ~ \E g : IsScan(g, s, m)}
<1>1. SUFFICES ASSUME Bad # {} PROVE FALSE
  OBVIOUS
<1>2. PICK m \in Bad : \A j \in Bad : m <= j
  <2>1. Bad \subseteq Nat
    OBVIOUS
  <2> HIDE DEF Bad
  <2> QED
    BY <1>1, <2>1, LeastNat
<1>3. CASE m = 0
  <2> DEFINE g == [k \in 0 .. 0 |-> <<>>]
  <2>1. g = [k \in 0 .. 0 |->
               IF k = 0 THEN <<>>
               ELSE IF s[k].parses THEN Append(g[k - 1], s[k].entry)
               ELSE g[k - 1]]
    OBVIOUS
  <2> QED
    BY <1>3, <2>1 DEF IsScan
<1>4. CASE m # 0
  <2>1. m \in Nat /\ m - 1 \in Nat /\ ~(m <= m - 1)
    BY <1>4
  <2>2. PICK g : IsScan(g, s, m - 1)
    BY <1>2, <2>1
  <2> DEFINE last == IF s[m].parses THEN Append(g[m - 1], s[m].entry) ELSE g[m - 1]
             h == [k \in 0 .. m |-> IF k = m THEN last ELSE g[k]]
  <2>3. ASSUME NEW k \in 0 .. m
        PROVE h[k] = IF k = 0 THEN <<>>
                     ELSE IF s[k].parses THEN Append(h[k - 1], s[k].entry)
                     ELSE h[k - 1]
    <3>1. CASE k = 0
      <4>1. h[k] = g[0] /\ 0 \in 0 .. (m - 1)
        BY <1>4, <2>1, <3>1
      <4> QED
        BY <2>2, <3>1, <4>1 DEF IsScan
    <3>2. CASE k # 0 /\ k # m
      <4>1. k \in 0 .. (m - 1) /\ k - 1 \in 0 .. m /\ k - 1 # m
        BY <2>1, <3>2
      <4>2. h[k] = g[k] /\ h[k - 1] = g[k - 1]
        BY <3>2, <4>1
      <4> QED
        BY <2>2, <3>2, <4>1, <4>2 DEF IsScan
    <3>3. CASE k = m
      <4>1. m - 1 \in 0 .. m /\ m - 1 # m
        BY <2>1
      <4>2. h[k] = last /\ h[k - 1] = g[m - 1]
        BY <3>3, <4>1
      <4> QED
        BY <1>4, <3>3, <4>2
    <3> QED
      BY <3>1, <3>2, <3>3
  <2>4. h = [k \in 0 .. m |->
               IF k = 0 THEN <<>>
               ELSE IF s[k].parses THEN Append(h[k - 1], s[k].entry)
               ELSE h[k - 1]]
    BY <2>3
  <2> HIDE DEF h
  <2>5. IsScan(h, s, m)
    BY <2>4 DEF IsScan
  <2> QED
    BY <2>5
<1> QED
  BY <1>3, <1>4

LEMMA ScanIs ==
  ASSUME NEW s, Len(s) \in Nat
  PROVE  \E g : IsScan(g, s, Len(s)) /\ EntriesOf(s) = g[Len(s)]
<1> DEFINE seen == CHOOSE g : g = [n \in 0 .. Len(s) |->
                      IF n = 0 THEN <<>>
                      ELSE IF s[n].parses THEN Append(g[n - 1], s[n].entry)
                      ELSE g[n - 1]]
<1>1. \E g : g = [n \in 0 .. Len(s) |->
                      IF n = 0 THEN <<>>
                      ELSE IF s[n].parses THEN Append(g[n - 1], s[n].entry)
                      ELSE g[n - 1]]
  BY ScanExists DEF IsScan
<1>2. seen = [n \in 0 .. Len(s) |->
                      IF n = 0 THEN <<>>
                      ELSE IF s[n].parses THEN Append(seen[n - 1], s[n].entry)
                      ELSE seen[n - 1]]
  BY <1>1
<1>3. EntriesOf(s) = seen[Len(s)]
  BY DEF EntriesOf
<1> HIDE DEF seen
<1> QED
  BY <1>2, <1>3 DEF IsScan

\* Two pieces a reader cannot tell apart.
Alike(a, b) == a.parses = b.parses /\ a.entry = b.entry

\* Scans of runs of pieces that begin alike begin alike.
LEMMA ScansAgree ==
  ASSUME NEW s \in Seq(Piece), NEW t \in Seq(Piece), NEW n \in Nat, NEW m \in Nat,
         NEW g, NEW h, IsScan(g, s, n), IsScan(h, t, m),
         NEW k \in 0 .. n, k <= m, k <= Len(s),
         \A j \in 1 .. k : Alike(s[j], t[j])
  PROVE  g[k] = h[k] /\ g[k] \in Seq(Entry)
<1> DEFINE Bad == {j \in 0 .. k : ~(g[j] = h[j] /\ g[j] \in Seq(Entry))}
<1>1. SUFFICES ASSUME Bad # {} PROVE FALSE
  OBVIOUS
<1>2. PICK j \in Bad : \A i \in Bad : j <= i
  <2>1. Bad \subseteq Nat
    OBVIOUS
  <2> HIDE DEF Bad
  <2> QED
    BY <1>1, <2>1, LeastNat
<1>3. j \in 0 .. n /\ j \in 0 .. m /\ j \in 0 .. k
  OBVIOUS
<1>4. /\ g[j] = IF j = 0 THEN <<>> ELSE IF s[j].parses THEN Append(g[j - 1], s[j].entry)
                ELSE g[j - 1]
      /\ h[j] = IF j = 0 THEN <<>> ELSE IF t[j].parses THEN Append(h[j - 1], t[j].entry)
                ELSE h[j - 1]
  BY <1>3 DEF IsScan
<1>5. CASE j = 0
  <2>1. <<>> \in Seq(Entry)
    OBVIOUS
  <2> QED
    BY <1>4, <1>5, <2>1
<1>6. CASE j # 0
  <2>1. j - 1 \in 0 .. k /\ ~(j <= j - 1) /\ j \in 1 .. k /\ j \in 1 .. Len(s)
    BY <1>3, <1>6
  <2>2. g[j - 1] = h[j - 1] /\ g[j - 1] \in Seq(Entry)
    BY <1>2, <2>1
  <2>3. Alike(s[j], t[j]) /\ s[j] \in Piece
    BY <2>1
  <2>4. s[j].entry \in Entry /\ s[j].parses \in BOOLEAN
    BY <2>3 DEF Piece
  <2>5. Append(g[j - 1], s[j].entry) \in Seq(Entry)
    BY <2>2, <2>4
  <2>6. g[j] = h[j] /\ g[j] \in Seq(Entry)
    BY <1>4, <1>6, <2>2, <2>3, <2>5 DEF Alike
  <2> QED
    BY <2>6
<1> QED
  BY <1>5, <1>6

\* What is read depends on what a reader can tell apart, and is entries.
LEMMA ReadAlike ==
  ASSUME NEW s \in Seq(Piece), NEW t \in Seq(Piece), Len(s) = Len(t),
         \A j \in 1 .. Len(s) : Alike(s[j], t[j])
  PROVE  EntriesOf(s) = EntriesOf(t) /\ EntriesOf(s) \in Seq(Entry)
<1>1. PICK g : IsScan(g, s, Len(s)) /\ EntriesOf(s) = g[Len(s)]
  BY ScanIs
<1>2. PICK h : IsScan(h, t, Len(t)) /\ EntriesOf(t) = h[Len(t)]
  BY ScanIs
<1>3. Len(s) \in Nat /\ Len(t) \in Nat
  OBVIOUS
<1>4. PICK k \in Nat : k = Len(s)
  BY <1>3
<1>5. k \in 0 .. Len(s) /\ k <= Len(t) /\ k <= Len(s)
  BY <1>3, <1>4
<1>6. g[k] = h[k] /\ g[k] \in Seq(Entry)
  BY <1>1, <1>2, <1>3, <1>4, <1>5, ScansAgree
<1> QED
  BY <1>1, <1>2, <1>4, <1>6

LEMMA EntriesTyped ==
  ASSUME NEW s \in Seq(Piece)
  PROVE  EntriesOf(s) \in Seq(Entry)
<1>1. \A j \in 1 .. Len(s) : Alike(s[j], s[j])
  BY DEF Alike
<1> QED
  BY <1>1, ReadAlike

LEMMA ReadNothing == EntriesOf(<<>>) = <<>>
<1>1. PICK g : IsScan(g, <<>>, Len(<<>>)) /\ EntriesOf(<<>>) = g[Len(<<>>)]
  BY ScanIs
<1>2. Len(<<>>) = 0
  OBVIOUS
<1> QED
  BY <1>1, <1>2 DEF IsScan

\* One more piece.
LEMMA ReadOneMore ==
  ASSUME NEW s \in Seq(Piece), NEW x \in Piece
  PROVE  EntriesOf(Append(s, x)) =
           IF x.parses THEN Append(EntriesOf(s), x.entry) ELSE EntriesOf(s)
<1> DEFINE t == Append(s, x)
<1>1. t \in Seq(Piece) /\ Len(t) = Len(s) + 1 /\ Len(s) \in Nat /\ t[Len(s) + 1] = x
      /\ \A j \in 1 .. Len(s) : t[j] = s[j]
  OBVIOUS
<1> HIDE DEF t
<1>2. PICK g : IsScan(g, s, Len(s)) /\ EntriesOf(s) = g[Len(s)]
  BY <1>1, ScanIs
<1>3. PICK h : IsScan(h, t, Len(t)) /\ EntriesOf(t) = h[Len(t)]
  BY <1>1, ScanIs
<1>4. PICK k \in Nat : k = Len(s)
  BY <1>1
<1>5. k \in 0 .. Len(s) /\ k <= Len(t) /\ k <= Len(s) /\ Len(t) \in Nat
  BY <1>1, <1>4
<1>6. \A j \in 1 .. k : Alike(s[j], t[j])
  BY <1>1, <1>4 DEF Alike
<1>7. g[k] = h[k]
  BY <1>1, <1>2, <1>3, <1>4, <1>5, <1>6, ScansAgree
<1>8. k + 1 \in 0 .. Len(t) /\ k + 1 # 0 /\ (k + 1) - 1 = k
  BY <1>1, <1>4
<1>9. h[k + 1] = IF t[k + 1].parses THEN Append(h[k], t[k + 1].entry) ELSE h[k]
  BY <1>3, <1>8 DEF IsScan
<1>10. t[k + 1] = x /\ Len(t) = k + 1
  BY <1>1, <1>4
<1> QED
  BY <1>2, <1>3, <1>4, <1>7, <1>9, <1>10 DEF t

LEMMA LastOfConcat ==
  ASSUME NEW u \in Seq(Entry), NEW v \in Seq(Entry), NEW e \in Entry
  PROVE  Append(u \o v, e) = u \o Append(v, e)
  OBVIOUS

\* Reading a run in two parts.
LEMMA ReadInParts ==
  ASSUME NEW s \in Seq(Piece), NEW m \in Nat, NEW n \in Nat, m <= n, n <= Len(s)
  PROVE  EntriesOf(SubSeq(s, 1, n)) =
           EntriesOf(SubSeq(s, 1, m)) \o EntriesOf(SubSeq(s, m + 1, n))
<1> DEFINE Holds(k) == EntriesOf(SubSeq(s, 1, k)) =
                         EntriesOf(SubSeq(s, 1, m)) \o EntriesOf(SubSeq(s, m + 1, k))
           Bad == {k \in m .. n : ~Holds(k)}
<1>1. SUFFICES ASSUME Bad # {} PROVE FALSE
  OBVIOUS
<1>2. PICK k \in Bad : \A i \in Bad : k <= i
  <2>1. Bad \subseteq Nat
    OBVIOUS
  <2> HIDE DEF Bad
  <2> QED
    BY <1>1, <2>1, LeastNat
<1>3. k \in Nat /\ m <= k /\ k <= n /\ k <= Len(s)
  OBVIOUS
<1>a. \A i, j \in Nat : j <= Len(s) /\ i >= 1 => SubSeq(s, i, j) \in Seq(Piece)
  OBVIOUS
<1>4. CASE k = m
  <2>1. SubSeq(s, m + 1, k) = <<>>
    BY <1>4, SubSeqEmpty
  <2>a. SubSeq(s, 1, m) \in Seq(Piece)
    BY <1>3, <1>4, <1>a
  <2>2. EntriesOf(SubSeq(s, 1, m)) \in Seq(Entry)
    BY <2>a, EntriesTyped
  <2>3. EntriesOf(SubSeq(s, 1, m)) \o <<>> = EntriesOf(SubSeq(s, 1, m))
    BY <2>2, ConcatEmptySeq
  <2> QED
    BY <1>4, <2>1, <2>3, ReadNothing
<1>5. CASE k # m
  <2>1. PICK i \in Nat : k = i + 1 /\ m <= i /\ i <= n /\ i <= Len(s) /\ ~(k <= i)
    <3>1. k - 1 \in Nat /\ k = (k - 1) + 1 /\ m <= k - 1 /\ k - 1 <= n /\ k - 1 <= Len(s)
          /\ ~(k <= k - 1)
      BY <1>3, <1>5
    <3> QED
      BY <3>1
  <2>2. Holds(i)
    BY <1>2, <2>1
  <2>3. s[k] \in Piece
    BY <1>3, <2>1
  <2>4. SubSeq(s, 1, k) = Append(SubSeq(s, 1, i), s[k])
    BY <1>3, <2>1
  <2>5. SubSeq(s, m + 1, k) = Append(SubSeq(s, m + 1, i), s[k])
    BY <1>3, <2>1
  <2> DEFINE a == EntriesOf(SubSeq(s, 1, m))
             b == EntriesOf(SubSeq(s, m + 1, i))
  <2>7. /\ SubSeq(s, 1, i) \in Seq(Piece) /\ SubSeq(s, m + 1, i) \in Seq(Piece)
        /\ SubSeq(s, 1, m) \in Seq(Piece)
    BY <1>3, <2>1, <1>a
  <2>6. a \in Seq(Entry) /\ b \in Seq(Entry)
    BY <2>7, EntriesTyped
  <2>8. EntriesOf(SubSeq(s, 1, k)) = IF s[k].parses THEN Append(a \o b, s[k].entry)
                                     ELSE a \o b
    BY <2>2, <2>3, <2>4, <2>7, ReadOneMore
  <2>9. EntriesOf(SubSeq(s, m + 1, k)) = IF s[k].parses THEN Append(b, s[k].entry) ELSE b
    BY <2>3, <2>5, <2>7, ReadOneMore
  <2>10. s[k].entry \in Entry
    BY <2>3 DEF Piece
  <2> HIDE DEF a, b
  <2>11. Append(a \o b, s[k].entry) = a \o Append(b, s[k].entry)
    BY <2>6, <2>10, LastOfConcat
  <2>12. Holds(k)
    BY <2>8, <2>9, <2>11 DEF a
  <2> QED
    BY <2>12
<1> QED
  BY <1>4, <1>5

-----------------------------------------------------------------------------
(* The file, and an index of it.                                            *)

\* Only the last piece may lack its newline.
FileInv ==
    /\ file \in Seq(Piece)
    /\ \A i \in 1 .. Len(file) : i < Len(file) => file[i].nl

\* x is what a reader once saw: the pieces it consumed were finished, and are
\* read the same today; its torn tail, if it has one, still reads the same.
Indexed(x) ==
    /\ x.lines \in Seq(Entry) /\ x.consumed \in Nat
    /\ x.tail \in Entry \cup {NoEntry}
    /\ x.consumed <= Complete
    /\ x.lines = EntriesOf(SubSeq(file, 1, x.consumed))
    /\ x.tail # NoEntry =>
         /\ x.consumed < Len(file)
         /\ file[x.consumed + 1].parses /\ file[x.consumed + 1].entry = x.tail

LEMMA FileFacts ==
  ASSUME FileInv
  PROVE  /\ Len(file) \in Nat /\ Complete \in Nat /\ Complete <= Len(file)
         /\ Torn => Len(file) >= 1 /\ Complete = Len(file) - 1 /\ file[Len(file)] \in Piece
         /\ ~Torn => Complete = Len(file)
         /\ file # <<>> => Len(file) >= 1 /\ file[Len(file)] \in Piece
<1>1. Len(file) \in Nat /\ (file # <<>> => Len(file) >= 1)
  BY DEF FileInv
<1>2. file # <<>> => file[Len(file)] \in Piece
  BY <1>1 DEF FileInv
<1> QED
  BY <1>1, <1>2 DEF Complete, Torn

LEMMA EntriesInParts ==
  ASSUME FileInv, NEW k \in Nat, k <= Len(file)
  PROVE  /\ SubSeq(file, 1, k) \in Seq(Piece)
         /\ SubSeq(file, k + 1, Len(file)) \in Seq(Piece)
         /\ Entries = EntriesOf(SubSeq(file, 1, k)) \o
                      EntriesOf(SubSeq(file, k + 1, Len(file)))
         /\ k < Len(file) => SubSeq(file, 1, k + 1) = Append(SubSeq(file, 1, k), file[k + 1])
<1>1. file \in Seq(Piece) /\ Len(file) \in Nat
  BY FileFacts DEF FileInv
<1>2. SubSeq(file, 1, Len(file)) = file
  BY <1>1
<1>3. Entries = EntriesOf(SubSeq(file, 1, k)) \o
                EntriesOf(SubSeq(file, k + 1, Len(file)))
  <2>1. PICK n \in Nat : n = Len(file)
    BY <1>1
  <2>2. EntriesOf(SubSeq(file, 1, n)) =
          EntriesOf(SubSeq(file, 1, k)) \o EntriesOf(SubSeq(file, k + 1, n))
    <3>1. file \in Seq(Piece) /\ k <= n /\ n <= Len(file)
      BY <1>1, <2>1
    <3> QED
      BY <3>1, ReadInParts
  <2> QED
    BY <1>2, <2>1, <2>2 DEF Entries
<1>4. SubSeq(file, 1, k) \in Seq(Piece) /\ SubSeq(file, k + 1, Len(file)) \in Seq(Piece)
  BY <1>1
<1>5. k < Len(file) => SubSeq(file, 1, k + 1) = Append(SubSeq(file, 1, k), file[k + 1])
  BY <1>1
<1> QED
  BY <1>3, <1>4, <1>5

LEMMA PrefixOfConcat ==
  ASSUME NEW u \in Seq(Entry), NEW v \in Seq(Entry)
  PROVE  Len(u) <= Len(u \o v) /\ u = SubSeq(u \o v, 1, Len(u))
  OBVIOUS

\* What a prefix of the file reads as is a prefix of the entries.
LEMMA PrefixReads ==
  ASSUME FileInv, NEW k \in Nat, k <= Len(file)
  PROVE  LET e == EntriesOf(SubSeq(file, 1, k))
         IN  Len(e) <= Len(Entries) /\ e = SubSeq(Entries, 1, Len(e))
<1> DEFINE e == EntriesOf(SubSeq(file, 1, k))
           r == EntriesOf(SubSeq(file, k + 1, Len(file)))
<1>1. Entries = e \o r
  BY EntriesInParts
<1>2. SubSeq(file, 1, k) \in Seq(Piece) /\ SubSeq(file, k + 1, Len(file)) \in Seq(Piece)
  BY EntriesInParts
<1>3. e \in Seq(Entry) /\ r \in Seq(Entry)
  BY <1>2, EntriesTyped
<1> HIDE DEF e, r
<1>4. Len(e) <= Len(Entries) /\ e = SubSeq(Entries, 1, Len(e))
  BY <1>1, <1>3, PrefixOfConcat
<1> QED
  BY <1>4 DEF e

\* What an index shows is a prefix of what the file holds.
LEMMA IndexedIsPrefix ==
  ASSUME FileInv, NEW x, Indexed(x)
  PROVE  Len(All(x)) <= Len(Entries) /\ All(x) = SubSeq(Entries, 1, Len(All(x)))
<1>0. /\ x.consumed \in Nat /\ x.consumed <= Len(file) /\ file \in Seq(Piece)
      /\ x.lines = EntriesOf(SubSeq(file, 1, x.consumed))
  BY FileFacts DEF Indexed, FileInv
<1>1. CASE x.tail = NoEntry
  <2>1. All(x) = EntriesOf(SubSeq(file, 1, x.consumed))
    BY <1>0, <1>1 DEF All
  <2> QED
    BY <1>0, <2>1, PrefixReads
<1>2. CASE x.tail # NoEntry
  <2>1. PICK k \in Nat : k = x.consumed
    BY <1>0
  <2>2. k < Len(file) /\ file[k + 1].parses /\ file[k + 1].entry = x.tail
    BY <1>2, <2>1 DEF Indexed
  <2>3. file[k + 1] \in Piece /\ k + 1 \in Nat /\ k + 1 <= Len(file) /\ k <= Len(file)
    BY <1>0, <2>2, FileFacts
  <2>4. /\ SubSeq(file, 1, k) \in Seq(Piece)
        /\ SubSeq(file, 1, k + 1) = Append(SubSeq(file, 1, k), file[k + 1])
    BY <2>2, <2>3, EntriesInParts
  <2>5. EntriesOf(SubSeq(file, 1, k + 1)) = Append(x.lines, x.tail)
    BY <1>0, <2>1, <2>2, <2>3, <2>4, ReadOneMore
  <2>6. All(x) = EntriesOf(SubSeq(file, 1, k + 1))
    BY <1>2, <2>5 DEF All
  <2> QED
    BY <2>3, <2>6, PrefixReads
<1> QED
  BY <1>1, <1>2

\* A refresh reads on where the last one stopped, and then shows everything.
LEMMA RefreshShowsAll ==
  ASSUME FileInv, NEW x, Indexed(x)
  PROVE  Indexed(Refreshed(x)) /\ All(Refreshed(x)) = Entries
<1> DEFINE y == Refreshed(x)
<1>0. /\ x.consumed \in Nat /\ x.consumed <= Complete /\ Complete <= Len(file)
      /\ Complete \in Nat /\ Len(file) \in Nat /\ file \in Seq(Piece)
      /\ x.lines = EntriesOf(SubSeq(file, 1, x.consumed))
  BY FileFacts DEF Indexed, FileInv
<1>1. /\ y.lines = x.lines \o EntriesOf(SubSeq(file, x.consumed + 1, Complete))
      /\ y.consumed = Complete
      /\ y.tail = IF Torn /\ file[Len(file)].parses THEN file[Len(file)].entry
                  ELSE NoEntry
  BY DEF Refreshed
<1> HIDE DEF y
<1>2. y.lines = EntriesOf(SubSeq(file, 1, Complete))
  <2>1. PICK m, n : m = x.consumed /\ n = Complete
    OBVIOUS
  <2>2. m \in Nat /\ n \in Nat /\ m <= n /\ n <= Len(file) /\ file \in Seq(Piece)
    BY <1>0, <2>1
  <2>3. EntriesOf(SubSeq(file, 1, n)) =
          EntriesOf(SubSeq(file, 1, m)) \o EntriesOf(SubSeq(file, m + 1, n))
    BY <2>2, ReadInParts
  <2> QED BY <1>0, <1>1, <2>1, <2>3
<1>3. SubSeq(file, 1, Complete) \in Seq(Piece)
  BY <1>0, EntriesInParts
<1>4. y.lines \in Seq(Entry)
  BY <1>2, <1>3, EntriesTyped
<1>5. CASE Torn
  <2>1. /\ Len(file) >= 1 /\ Complete = Len(file) - 1 /\ file[Len(file)] \in Piece
    BY <1>5, FileFacts
  <2>2. Complete < Len(file) /\ Complete + 1 = Len(file)
    BY <1>0, <2>1
  <2>3. SubSeq(file, 1, Len(file)) = Append(SubSeq(file, 1, Complete), file[Len(file)])
    BY <1>0, <2>2, EntriesInParts
  <2>4. SubSeq(file, 1, Len(file)) = file
    BY <1>0
  <2>5. Entries = IF file[Len(file)].parses THEN Append(y.lines, file[Len(file)].entry)
                  ELSE y.lines
    BY <1>2, <1>3, <2>1, <2>3, <2>4, ReadOneMore DEF Entries
  <2>6. file[Len(file)].entry \in Entry /\ file[Len(file)].entry # NoEntry
    BY <2>1, FlatLedgerAssumption DEF Piece
  <2>7. All(y) = Entries
    BY <1>1, <1>5, <2>5, <2>6 DEF All
  <2>8. Indexed(y)
    BY <1>0, <1>1, <1>2, <1>4, <1>5, <2>2, <2>6 DEF Indexed
  <2> QED
    BY <2>7, <2>8 DEF y
<1>6. CASE ~Torn
  <2>1. Complete = Len(file) /\ SubSeq(file, 1, Len(file)) = file /\ y.tail = NoEntry
    BY <1>0, <1>1, <1>6, FileFacts
  <2>2. All(y) = Entries
    BY <1>2, <2>1 DEF All, Entries
  <2>3. Indexed(y)
    BY <1>0, <1>1, <1>2, <1>4, <2>1 DEF Indexed
  <2> QED
    BY <2>2, <2>3 DEF y
<1> QED
  BY <1>5, <1>6

LEMMA EmptyIsIndexed ==
  ASSUME FileInv
  PROVE  Indexed(EmptyIndex)
<1>1. SubSeq(file, 1, 0) = <<>> /\ <<>> \in Seq(Entry)
  BY SubSeqEmpty
<1>2. Complete \in Nat /\ 0 <= Complete
  BY FileFacts
<1> QED
  BY <1>1, <1>2, ReadNothing DEF Indexed, EmptyIndex

\* What a writer may do to the file: finished pieces stay as they are, and a
\* piece that parses does not change its meaning.
Grown ==
    /\ Len(file) <= Len(file') /\ Complete <= Complete'
    /\ \A i \in 1 .. Len(file) :
          /\ file'[i].entry = file[i].entry
          /\ file[i].parses => file'[i].parses
          /\ i <= Complete => file'[i].parses = file[i].parses

LEMMA IndexedKept ==
  ASSUME FileInv, FileInv', Grown, NEW x, Indexed(x)
  PROVE  Indexed(x)'
<1>0. /\ x.consumed \in Nat /\ x.consumed <= Complete /\ Complete <= Len(file)
      /\ Complete \in Nat /\ Len(file) \in Nat /\ file \in Seq(Piece)
  BY FileFacts DEF Indexed, FileInv
<1>1. file' \in Seq(Piece) /\ Len(file') \in Nat /\ Complete' \in Nat
  <2>1. file' \in Seq(Piece) /\ Len(file') \in Nat
    BY DEF FileInv
  <2> QED
    BY <2>1 DEF Complete, Torn
<1>2. PICK k \in Nat : k = x.consumed
  BY <1>0
<1> DEFINE s == SubSeq(file, 1, k)
           t == SubSeq(file', 1, k)
<1>3. k <= Len(file) /\ k <= Len(file') /\ k <= Complete
  BY <1>0, <1>1, <1>2 DEF Grown
<1>4. /\ s \in Seq(Piece) /\ t \in Seq(Piece) /\ Len(s) = k /\ Len(t) = k
      /\ \A j \in 1 .. k : s[j] = file[j] /\ t[j] = file'[j]
  BY <1>0, <1>1, <1>3
<1>5. \A j \in 1 .. k : Alike(s[j], t[j])
  <2> SUFFICES ASSUME NEW j \in 1 .. k PROVE Alike(s[j], t[j])
    OBVIOUS
  <2>1. j \in 1 .. Len(file) /\ j <= Complete
    BY <1>0, <1>3
  <2> QED
    BY <1>4, <2>1 DEF Grown, Alike
<1>6. EntriesOf(t) = EntriesOf(s)
  <2> HIDE DEF s, t
  <2> QED
    BY <1>4, <1>5, ReadAlike
<1>7. x.lines = EntriesOf(SubSeq(file', 1, x.consumed))
  BY <1>2, <1>6 DEF Indexed
<1>8. x.consumed <= Complete'
  BY <1>0, <1>1 DEF Grown
<1>9. x.tail # NoEntry =>
         /\ x.consumed < Len(file')
         /\ file'[x.consumed + 1].parses /\ file'[x.consumed + 1].entry = x.tail
  <2> SUFFICES ASSUME x.tail # NoEntry
               PROVE  /\ k < Len(file')
                      /\ file'[k + 1].parses /\ file'[k + 1].entry = x.tail
    BY <1>2
  <2>1. k < Len(file) /\ file[k + 1].parses /\ file[k + 1].entry = x.tail
    BY <1>2 DEF Indexed
  <2>2. k + 1 \in 1 .. Len(file)
    BY <1>0, <2>1
  <2> QED
    BY <1>0, <1>1, <2>1, <2>2 DEF Grown
<1> QED
  BY <1>7, <1>8, <1>9 DEF Indexed

-----------------------------------------------------------------------------
(* What each write does to the file.                                        *)

\* Giving the last piece its newline changes nothing a reader sees.
LEMMA NewlineKeeps ==
  ASSUME FileInv, file # <<>>, SetLast([file[Len(file)] EXCEPT !.nl = TRUE])
  PROVE  FileInv' /\ Grown /\ Entries' = Entries /\ ~Torn'
<1>0. /\ file \in Seq(Piece) /\ Len(file) \in Nat /\ Len(file) >= 1
      /\ file[Len(file)] \in Piece /\ Complete <= Len(file)
  BY FileFacts DEF FileInv
<1> DEFINE x == [file[Len(file)] EXCEPT !.nl = TRUE]
<1>1. /\ x \in Piece /\ x.nl /\ x.entry = file[Len(file)].entry
      /\ x.parses = file[Len(file)].parses
  BY <1>0 DEF Piece
<1>2. file' = [file EXCEPT ![Len(file)] = x]
  BY DEF SetLast
<1> HIDE DEF x
<1>3. /\ file' \in Seq(Piece) /\ Len(file') = Len(file) /\ file' # <<>>
      /\ \A j \in 1 .. Len(file) : file'[j] = IF j = Len(file) THEN x ELSE file[j]
  BY <1>0, <1>1, <1>2
<1>4. file'[Len(file')].nl
  BY <1>0, <1>1, <1>3
<1>5. FileInv'
  BY <1>0, <1>3 DEF FileInv
<1>6. ~Torn' /\ Complete' = Len(file')
  BY <1>4 DEF Torn, Complete
<1>7. \A j \in 1 .. Len(file) : Alike(file[j], file'[j])
  BY <1>1, <1>3 DEF Alike
<1>8. Grown
  BY <1>0, <1>3, <1>6, <1>7 DEF Grown, Alike
<1>9. EntriesOf(file') = EntriesOf(file)
  BY <1>0, <1>3, <1>7, ReadAlike
<1> QED
  BY <1>5, <1>6, <1>8, <1>9 DEF Entries

\* When the last byte of a line is there, and not before, the line is.
LEMMA BodyAdds ==
  ASSUME FileInv, Torn, ~file[Len(file)].parses,
         SetLast([file[Len(file)] EXCEPT !.parses = TRUE])
  PROVE  /\ FileInv' /\ Grown /\ Torn'
         /\ Entries' = Append(Entries, file[Len(file)].entry)
         /\ file[Len(file)].entry \in Entry
<1>0. /\ file \in Seq(Piece) /\ Len(file) \in Nat /\ Len(file) >= 1
      /\ file[Len(file)] \in Piece /\ Complete = Len(file) - 1
      /\ file # <<>> /\ ~file[Len(file)].nl
  BY FileFacts DEF FileInv, Torn
<1> DEFINE x == [file[Len(file)] EXCEPT !.parses = TRUE]
<1>1. /\ x \in Piece /\ ~x.nl /\ x.entry = file[Len(file)].entry /\ x.parses
  BY <1>0 DEF Piece
<1>2. file' = [file EXCEPT ![Len(file)] = x]
  BY DEF SetLast
<1> HIDE DEF x
<1>3. /\ file' \in Seq(Piece) /\ Len(file') = Len(file) /\ file' # <<>>
      /\ \A j \in 1 .. Len(file) : file'[j] = IF j = Len(file) THEN x ELSE file[j]
  BY <1>0, <1>1, <1>2
<1>4. file'[Len(file')] = x
  BY <1>0, <1>3
<1>5. FileInv'
  BY <1>0, <1>3 DEF FileInv
<1>6. Torn' /\ Complete' = Len(file') - 1
  BY <1>1, <1>3, <1>4 DEF Torn, Complete
<1>7. Grown
  BY <1>0, <1>1, <1>3, <1>6 DEF Grown
<1>8. PICK k \in Nat : k + 1 = Len(file)
  <2>1. Len(file) - 1 \in Nat /\ (Len(file) - 1) + 1 = Len(file)
    BY <1>0
  <2> QED
    BY <2>1
<1> DEFINE front == SubSeq(file, 1, k)
           front2 == SubSeq(file', 1, k)
<1>9. /\ front \in Seq(Piece) /\ front2 \in Seq(Piece)
      /\ Len(front) = k /\ Len(front2) = k
      /\ \A j \in 1 .. k : front[j] = file[j] /\ front2[j] = file'[j]
  BY <1>0, <1>3, <1>8
<1>10. \A j \in 1 .. k : front[j] = front2[j]
  BY <1>3, <1>8, <1>9
<1>11. front = front2
  <2> HIDE DEF front, front2
  <2> QED
    BY <1>9, <1>10, SeqEqual
<1>12. file = Append(front, file[Len(file)])
  BY <1>0, <1>8
<1>13. file' = Append(front2, x)
  BY <1>0, <1>3, <1>4, <1>8
<1>14. Entries = EntriesOf(front)
  <2> HIDE DEF front
  <2>1. EntriesOf(Append(front, file[Len(file)])) = EntriesOf(front)
    BY <1>0, <1>9, ReadOneMore
  <2> QED
    BY <1>12, <2>1 DEF Entries
<1>15. Entries' = Append(EntriesOf(front), x.entry)
  <2> HIDE DEF front, front2
  <2>1. EntriesOf(Append(front2, x)) = Append(EntriesOf(front2), x.entry)
    BY <1>1, <1>9, ReadOneMore
  <2> QED
    BY <1>11, <1>13, <2>1 DEF Entries
<1>16. x.entry \in Entry
  BY <1>1 DEF Piece
<1> HIDE DEF front, front2
<1> QED
  BY <1>1, <1>5, <1>6, <1>7, <1>14, <1>15, <1>16

\* The first bytes of a line are no line yet.
LEMMA PartKeeps ==
  ASSUME FileInv, ~Torn, NEW e \in Entry,
         file' = Append(file, [entry |-> e, parses |-> FALSE, nl |-> FALSE])
  PROVE  /\ FileInv' /\ Grown /\ Entries' = Entries /\ Torn'
         /\ file'[Len(file')].entry = e /\ ~file'[Len(file')].parses
<1> DEFINE x == [entry |-> e, parses |-> FALSE, nl |-> FALSE]
<1>0. /\ file \in Seq(Piece) /\ Len(file) \in Nat /\ Complete = Len(file)
      /\ (file # <<>> => file[Len(file)].nl)
  BY FileFacts DEF FileInv, Torn
<1>1. x \in Piece /\ ~x.nl /\ ~x.parses /\ x.entry = e
  BY DEF Piece
<1>2. file' = Append(file, x)
  OBVIOUS
<1> HIDE DEF x
<1>3. /\ file' \in Seq(Piece) /\ Len(file') = Len(file) + 1 /\ file' # <<>>
      /\ \A j \in 1 .. Len(file) : file'[j] = file[j]
      /\ file'[Len(file) + 1] = x
  BY <1>0, <1>1, <1>2
<1>4. file'[Len(file')] = x
  BY <1>3
<1>5. Torn' /\ Complete' = Len(file') - 1
  BY <1>1, <1>3, <1>4 DEF Torn, Complete
<1>6. ASSUME NEW i \in 1 .. Len(file'), i < Len(file') PROVE file'[i].nl
  <2>1. i \in 1 .. Len(file)
    BY <1>0, <1>3, <1>6
  <2>2. CASE i < Len(file)
    BY <1>3, <2>1, <2>2 DEF FileInv
  <2>3. CASE i = Len(file)
    <3>1. file # <<>>
      BY <2>1, <2>3
    <3> QED
      BY <1>0, <1>3, <2>1, <2>3, <3>1
  <2> QED
    BY <1>0, <2>1, <2>2, <2>3
<1>7. FileInv'
  BY <1>3, <1>6 DEF FileInv
<1>8. Grown
  BY <1>0, <1>3, <1>5 DEF Grown
<1>9. EntriesOf(file') = EntriesOf(file)
  BY <1>0, <1>1, <1>2, ReadOneMore
<1> QED
  BY <1>1, <1>4, <1>5, <1>7, <1>8, <1>9 DEF Entries

-----------------------------------------------------------------------------
(* The inductive invariant of the log.                                      *)

\* No line of the ledger has this id.
Fresh(id) == \A i \in DOMAIN Entries : Entries[i].id # id

\* What a writer knows of the file at each step: nobody else writes, so the
\* id it found new stays new, and the last piece is the one it left there.
StageInv ==
    \A t \in Threads :
        /\ pc[t] \in {"repair", "nl"} => file # <<>>
        /\ pc[t] = "part" => ~Torn
        /\ pc[t] = "body" => /\ Torn /\ ~file[Len(file)].parses
                             /\ file[Len(file)].entry = call[t].entry
        /\ pc[t] \in {"repair", "part", "body"} => Fresh(call[t].entry.id)

CallInv ==
    /\ call \in [Threads -> [entry : Entry \cup {NoEntry}, wait : BOOLEAN]]
    /\ \A t \in Threads : pc[t] # "idle" => call[t].entry \in Entry

IndexInv == DOMAIN index = Procs /\ \A p \in Procs : Indexed(index[p])

UniqueIds ==
    \A i, j \in DOMAIN Entries : Entries[i].id = Entries[j].id => i = j

LInv == WriterOwnsFlock /\ FileInv /\ IndexInv /\ CallInv /\ StageInv /\ UniqueIds

LEMMA InitLInv == Init => LInv
<1> SUFFICES ASSUME Init PROVE LInv
  OBVIOUS
<1>1. WriterOwnsFlock
  BY DEF Init, WriterOwnsFlock, Inside, Labels
<1>2. FileInv
  BY DEF Init, FileInv
<1>3. IndexInv
  BY <1>2, EmptyIsIndexed DEF Init, IndexInv
<1>4. CallInv
  BY DEF Init, CallInv, NoCall
<1>5. StageInv
  BY DEF Init, StageInv
<1>6. Entries = <<>>
  BY ReadNothing DEF Init, Entries
<1>7. UniqueIds
  BY <1>6 DEF UniqueIds
<1> QED
  BY <1>1, <1>2, <1>3, <1>4, <1>5, <1>7 DEF LInv

\* Who changes the file.
LEMMA FileSteps ==
  ASSUME [Next]_vars
  PROVE  \/ UNCHANGED file
         \/ \E t \in Threads : /\ UNCHANGED <<index, appendLock, flock, call, told>>
                               /\ \/ RepairTail(t) \/ WritePart(t)
                                  \/ WriteBody(t) \/ WriteNewline(t)
<1>1. ASSUME NEW t \in Threads, CallAppend(t) PROVE UNCHANGED file
  BY <1>1 DEF CallAppend
<1>2. ASSUME NEW t \in Threads, Step(t),
             ~RepairTail(t), ~WritePart(t), ~WriteBody(t), ~WriteNewline(t)
      PROVE  UNCHANGED file
  BY <1>2 DEF Step, LockAppend, LockFile, Locked, CheckFound, CheckNew, WriteFails,
              Inserted
<1>3. ASSUME NEW t \in Threads,
             RepairTail(t) \/ WritePart(t) \/ WriteBody(t) \/ WriteNewline(t)
      PROVE  UNCHANGED <<index, appendLock, flock, call, told>>
  BY <1>3 DEF RepairTail, WritePart, WriteBody, WriteNewline
<1>4. ASSUME NEW p \in Procs, Read(p) \/ Crash(p) PROVE UNCHANGED file
  BY <1>4 DEF Read, Crash
<1>5. ASSUME UNCHANGED vars PROVE UNCHANGED file
  BY <1>5 DEF vars
<1> QED
  BY <1>1, <1>2, <1>3, <1>4, <1>5 DEF Next

\* The file only grows, and its entries by the line of the one who writes.
LEMMA FileKept ==
  ASSUME LInv, [Next]_vars
  PROVE  /\ FileInv' /\ (UNCHANGED file \/ Grown)
         /\ \/ Entries' = Entries
            \/ \E t \in Threads : /\ pc[t] = "body" /\ WriteBody(t)
                                  /\ Entries' = Append(Entries, call[t].entry)
<1>0. FileInv /\ CallInv /\ StageInv
  BY DEF LInv
<1>1. CASE UNCHANGED file
  BY <1>0, <1>1 DEF FileInv, Entries
<1>2. ASSUME NEW t \in Threads, RepairTail(t) \/ WriteNewline(t)
      PROVE  FileInv' /\ Grown /\ Entries' = Entries
  <2>1. file # <<>> /\ SetLast([file[Len(file)] EXCEPT !.nl = TRUE])
    BY <1>0, <1>2 DEF StageInv, RepairTail, WriteNewline
  <2> QED
    BY <1>0, <2>1, NewlineKeeps
<1>3. ASSUME NEW t \in Threads, WritePart(t)
      PROVE  FileInv' /\ Grown /\ Entries' = Entries
  <2>1. /\ ~Torn /\ call[t].entry \in Entry
        /\ file' = Append(file, [entry |-> call[t].entry, parses |-> FALSE, nl |-> FALSE])
    BY <1>0, <1>3 DEF StageInv, CallInv, WritePart
  <2> QED
    BY <1>0, <2>1, PartKeeps
<1>4. ASSUME NEW t \in Threads, WriteBody(t)
      PROVE  /\ FileInv' /\ Grown /\ pc[t] = "body"
             /\ Entries' = Append(Entries, call[t].entry)
  <2>1. /\ Torn /\ ~file[Len(file)].parses /\ file[Len(file)].entry = call[t].entry
        /\ SetLast([file[Len(file)] EXCEPT !.parses = TRUE]) /\ pc[t] = "body"
    BY <1>0, <1>4 DEF StageInv, WriteBody
  <2> QED
    BY <1>0, <2>1, BodyAdds
<1> QED
  BY <1>1, <1>2, <1>3, <1>4, FileSteps

\* How an index changes: by a refresh, or its process dies.
LEMMA IndexSteps ==
  ASSUME LInv, [Next]_vars, UNCHANGED file
  PROVE  /\ DOMAIN index' = Procs
         /\ \A p \in Procs :
               index'[p] \in {index[p], Refreshed(index[p]), EmptyIndex}
<1>0. DOMAIN index = Procs /\ ProcOf \in [Threads -> Procs]
  BY FlatLedgerAssumption DEF LInv, IndexInv
<1> DEFINE Goal == /\ DOMAIN index' = Procs
                   /\ \A p \in Procs :
                         index'[p] \in {index[p], Refreshed(index[p]), EmptyIndex}
<1>a. ASSUME index' = index PROVE Goal
  BY <1>0, <1>a
<1>b. ASSUME NEW q \in Procs, index' = [index EXCEPT ![q] = Refreshed(index[q])]
      PROVE Goal
  BY <1>0, <1>b
<1>c. ASSUME NEW q \in Procs, index' = [index EXCEPT ![q] = EmptyIndex] PROVE Goal
  BY <1>0, <1>c
<1> HIDE DEF Goal
<1>1. ASSUME NEW t \in Threads, CallAppend(t) PROVE Goal
  BY <1>1, <1>a DEF CallAppend
<1>2. ASSUME NEW t \in Threads, Step(t) PROVE Goal
  <2>0. ProcOf[t] \in Procs
    BY <1>0
  <2>1. CASE CheckFound(t) \/ CheckNew(t) \/ Inserted(t)
    <3>1. index' = [index EXCEPT ![ProcOf[t]] = Refreshed(index[ProcOf[t]])]
      BY <2>1 DEF CheckFound, CheckNew, Inserted
    <3> QED
      BY <2>0, <3>1, <1>b
  <2>2. CASE ~(CheckFound(t) \/ CheckNew(t) \/ Inserted(t))
    <3>1. index' = index
      BY <1>2, <2>2 DEF Step, LockAppend, LockFile, Locked, RepairTail, WritePart,
                        WriteBody, WriteNewline, WriteFails
    <3> QED
      BY <3>1, <1>a
  <2> QED
    BY <2>1, <2>2
<1>3. ASSUME NEW p \in Procs, Read(p) PROVE Goal
  BY <1>3, <1>b DEF Read
<1>4. ASSUME NEW p \in Procs, Crash(p) PROVE Goal
  BY <1>4, <1>c DEF Crash
<1>5. ASSUME UNCHANGED vars PROVE Goal
  BY <1>5, <1>a DEF vars
<1>6. Goal
  BY <1>1, <1>2, <1>3, <1>4, <1>5 DEF Next
<1> QED
  BY <1>6 DEF Goal

LEMMA IndexKept ==
  ASSUME LInv, [Next]_vars
  PROVE  IndexInv'
<1>0. FileInv /\ FileInv' /\ IndexInv
  BY FileKept DEF LInv
<1>1. CASE UNCHANGED file
  <2>1. ASSUME NEW p \in Procs PROVE Indexed(index'[p])
    <3>1. Indexed(index[p]) /\ Indexed(Refreshed(index[p])) /\ Indexed(EmptyIndex)
      BY <1>0, RefreshShowsAll, EmptyIsIndexed DEF IndexInv
    <3>2. index'[p] \in {index[p], Refreshed(index[p]), EmptyIndex}
      BY <1>1, IndexSteps
    <3> QED
      BY <3>1, <3>2
  <2>2. ASSUME NEW p \in Procs PROVE Indexed(index[p])'
    <3>1. Indexed(index'[p])
      BY <2>1
    <3> QED
      BY <1>1, <3>1 DEF Indexed, Complete, Torn
  <2>3. DOMAIN index' = Procs
    BY <1>1, IndexSteps
  <2> QED
    BY <2>2, <2>3 DEF IndexInv
<1>2. CASE ~UNCHANGED file
  <2>1. index' = index
    BY <1>2, FileSteps
  <2>2. Grown
    BY <1>2, FileKept
  <2>3. ASSUME NEW p \in Procs PROVE Indexed(index[p])'
    <3>1. Indexed(index[p])
      BY <1>0 DEF IndexInv
    <3>2. PICK x : x = index[p]
      OBVIOUS
    <3>3. Indexed(x)'
      BY <1>0, <2>2, <3>1, <3>2, IndexedKept
    <3> QED
      BY <2>1, <3>2, <3>3 DEF Indexed
  <2> QED
    BY <1>0, <2>1, <2>3 DEF IndexInv
<1> QED
  BY <1>1, <1>2

\* A thread that is in a call keeps its line until it leaves.
LEMMA CallKept ==
  ASSUME LInv, [Next]_vars
  PROVE  CallInv'
<1>0. CallInv /\ pc \in [Threads -> Labels]
  BY DEF LInv, WriterOwnsFlock
<1> USE <1>0 DEF CallInv
<1>1. CASE UNCHANGED vars
  BY <1>1 DEF vars
<1>2. ASSUME NEW t \in Threads, Leave(t) PROVE CallInv'
  BY <1>2 DEF Leave, Goto, NoCall
<1>3. ASSUME NEW t \in Threads, CallAppend(t) PROVE CallInv'
  <2>1. PICK e \in Entry, w \in {FALSE, MayWait} :
          call' = [call EXCEPT ![t] = [entry |-> e, wait |-> w]]
    BY <1>3 DEF CallAppend
  <2>2. w \in BOOLEAN
    BY FlatLedgerAssumption
  <2>3. pc' = [pc EXCEPT ![t] = "append"]
    BY <1>3 DEF CallAppend, Goto
  <2> QED
    BY <2>1, <2>2, <2>3
<1>4. ASSUME NEW t \in Threads, Step(t) PROVE CallInv'
  <2>1. CASE Locked(t) \/ CheckFound(t) \/ WriteFails(t) \/ Inserted(t)
    BY <2>1, <1>2 DEF Locked, CheckFound, WriteFails, Inserted
  <2>2. CASE LockAppend(t) \/ LockFile(t) \/ CheckNew(t) \/ RepairTail(t)
             \/ WritePart(t) \/ WriteBody(t) \/ WriteNewline(t)
    <3>1. pc[t] # "idle" /\ call' = call /\ \A u \in Threads \ {t} : pc'[u] = pc[u]
      BY <2>2 DEF LockAppend, LockFile, CheckNew, RepairTail, WritePart, WriteBody,
                  WriteNewline, Goto
    <3> QED
      BY <3>1
  <2> QED
    BY <1>4, <2>1, <2>2 DEF Step
<1>5. ASSUME NEW p \in Procs, Read(p) PROVE CallInv'
  BY <1>5 DEF Read
<1>6. ASSUME NEW p \in Procs, Crash(p) PROVE CallInv'
  <2>1. NoCall \in [entry : Entry \cup {NoEntry}, wait : BOOLEAN]
    BY DEF NoCall
  <2> QED
    BY <1>6, <2>1 DEF Crash
<1> QED
  BY <1>1, <1>3, <1>4, <1>5, <1>6 DEF Next

\* A refreshed index in which an id is not found: the id is fresh.
LEMMA NotFoundIsFresh ==
  ASSUME LInv, NEW p \in Procs, NEW id, Found(Refreshed(index[p]), id) = {}
  PROVE  Fresh(id)
<1>1. All(Refreshed(index[p])) = Entries
  BY RefreshShowsAll DEF LInv, IndexInv
<1> QED
  BY <1>1 DEF Found, Fresh

\* One thread moves on, nobody else's label or line changes, and the file is
\* as the one before it left it.
LEMMA StageKept ==
  ASSUME LInv, [Next]_vars
  PROVE  StageInv'
<1>0. /\ pc \in [Threads -> Labels] /\ \A t \in Threads : pc[t] \in Inside => flock = t
      /\ FileInv /\ StageInv /\ CallInv
  BY DEF LInv, WriterOwnsFlock
<1> DEFINE StageOf(u) ==
        /\ pc[u] \in {"repair", "nl"} => file # <<>>
        /\ pc[u] = "part" => ~Torn
        /\ pc[u] = "body" => /\ Torn /\ ~file[Len(file)].parses
                             /\ file[Len(file)].entry = call[u].entry
        /\ pc[u] \in {"repair", "part", "body"} => Fresh(call[u].entry.id)
\* A step that leaves the file alone.
<1>1. ASSUME UNCHANGED file, NEW u \in Threads,
             (pc'[u] = pc[u] /\ call'[u] = call[u]) \/ pc'[u] \in {"idle", "append", "flock", "check", "done"}
      PROVE  StageOf(u)'
  <2>1. Entries' = Entries /\ Torn' = Torn
    BY <1>1 DEF Entries, Torn
  <2>2. StageOf(u)
    BY <1>0 DEF StageInv
  <2> QED
    BY <1>1, <2>1, <2>2 DEF Fresh
<1>2. ASSUME NEW t \in Threads, CheckNew(t) PROVE StageInv'
  <2>1. UNCHANGED file
    BY <1>2 DEF CheckNew
  <2>2. \A u \in Threads \ {t} : pc'[u] = pc[u] /\ call'[u] = call[u]
    BY <1>0, <1>2 DEF CheckNew, Goto
  <2>3. Entries' = Entries /\ Torn' = Torn /\ call' = call
    BY <1>2, <2>1 DEF Entries, Torn, CheckNew
  <2>4. ProcOf[t] \in Procs /\ DOMAIN index = Procs
    BY FlatLedgerAssumption DEF LInv, IndexInv
  <2>5. index'[ProcOf[t]] = Refreshed(index[ProcOf[t]])
    BY <1>2, <2>4 DEF CheckNew
  <2>6. Found(Refreshed(index[ProcOf[t]]), call[t].entry.id) = {}
    BY <1>2, <2>5 DEF CheckNew
  <2>7. Fresh(call[t].entry.id)
    BY <2>4, <2>6, NotFoundIsFresh
  <2>8. pc'[t] = IF Torn THEN "repair" ELSE "part"
    BY <1>0, <1>2 DEF CheckNew, Goto
  <2>9. Torn => file # <<>>
    BY DEF Torn
  <2>10. StageOf(t)'
    BY <2>1, <2>3, <2>7, <2>8, <2>9 DEF Fresh
  <2>11. ASSUME NEW u \in Threads PROVE StageOf(u)'
    BY <1>1, <2>1, <2>2, <2>10
  <2> QED
    BY <2>11 DEF StageInv
\* A step that leaves the file and everybody's line alone, but for one who
\* goes to a label outside the write.
<1>3. ASSUME UNCHANGED file,
             \A u \in Threads :
                \/ pc'[u] = pc[u] /\ call'[u] = call[u]
                \/ pc'[u] \in {"idle", "append", "flock", "check", "done"}
      PROVE  StageInv'
  <2>1. ASSUME NEW u \in Threads PROVE StageOf(u)'
    BY <1>1, <1>3
  <2> QED
    BY <2>1 DEF StageInv
<1>4. ASSUME NEW t \in Threads, Leave(t), UNCHANGED file PROVE StageInv'
  BY <1>0, <1>3, <1>4 DEF Leave, Goto, CallInv
\* A step of the writer: everybody else is outside the write.
<1>5. ASSUME NEW t \in Threads, pc[t] \in Inside,
             \A u \in Threads \ {t} : pc'[u] = pc[u], StageOf(t)'
      PROVE  StageInv'
  <2>1. ASSUME NEW u \in Threads, u # t PROVE pc'[u] \notin {"repair", "part", "body", "nl"}
    BY <1>0, <1>5, <2>1 DEF Inside
  <2>2. ASSUME NEW u \in Threads PROVE StageOf(u)'
    BY <1>5, <2>1
  <2> QED
    BY <2>2 DEF StageInv
<1>6. ASSUME NEW t \in Threads, RepairTail(t) PROVE StageInv'
  <2>1. /\ pc[t] = "repair" /\ pc' = [pc EXCEPT ![t] = "part"] /\ call' = call
        /\ SetLast([file[Len(file)] EXCEPT !.nl = TRUE])
    BY <1>6 DEF RepairTail, Goto
  <2>2. file # <<>> /\ Fresh(call[t].entry.id)
    BY <1>0, <2>1 DEF StageInv
  <2>3. Entries' = Entries /\ ~Torn'
    BY <1>0, <2>1, <2>2, NewlineKeeps
  <2>4. StageOf(t)'
    BY <1>0, <2>1, <2>2, <2>3 DEF Fresh
  <2> QED
    BY <1>0, <1>5, <2>1, <2>4 DEF Inside
<1>7. ASSUME NEW t \in Threads, WritePart(t) PROVE StageInv'
  <2>1. /\ pc[t] = "part" /\ pc' = [pc EXCEPT ![t] = "body"] /\ call' = call
        /\ file' = Append(file, [entry |-> call[t].entry, parses |-> FALSE, nl |-> FALSE])
    BY <1>7 DEF WritePart, Goto
  <2>2. ~Torn /\ Fresh(call[t].entry.id) /\ call[t].entry \in Entry
    BY <1>0, <2>1 DEF StageInv, CallInv
  <2>3. /\ Entries' = Entries /\ Torn'
        /\ file'[Len(file')].entry = call[t].entry /\ ~file'[Len(file')].parses
    BY <1>0, <2>1, <2>2, PartKeeps
  <2>4. StageOf(t)'
    BY <1>0, <2>1, <2>2, <2>3 DEF Fresh
  <2> QED
    BY <1>0, <1>5, <2>1, <2>4 DEF Inside
<1>8. ASSUME NEW t \in Threads, WriteBody(t) PROVE StageInv'
  <2>1. /\ pc[t] = "body" /\ pc' = [pc EXCEPT ![t] = "nl"]
        /\ SetLast([file[Len(file)] EXCEPT !.parses = TRUE])
    BY <1>8 DEF WriteBody, Goto
  <2>2. Torn /\ ~file[Len(file)].parses
    BY <1>0, <2>1 DEF StageInv
  <2>3. Torn'
    BY <1>0, <2>1, <2>2, BodyAdds
  <2>4. file' # <<>>
    BY <2>3 DEF Torn
  <2>5. StageOf(t)'
    BY <1>0, <2>1, <2>4
  <2> QED
    BY <1>0, <1>5, <2>1, <2>5 DEF Inside
<1>9. ASSUME NEW t \in Threads, WriteNewline(t) PROVE StageInv'
  <2>1. pc[t] = "nl" /\ pc' = [pc EXCEPT ![t] = "done"]
    BY <1>9 DEF WriteNewline, Goto
  <2>2. StageOf(t)'
    BY <1>0, <2>1
  <2> QED
    BY <1>0, <1>5, <2>1, <2>2 DEF Inside
<1> HIDE DEF StageOf
<1>10. ASSUME NEW t \in Threads, CallAppend(t) PROVE StageInv'
  BY <1>0, <1>3, <1>10 DEF CallAppend, Goto, CallInv
<1>11. ASSUME NEW t \in Threads, Step(t) PROVE StageInv'
  <2>1. CASE LockAppend(t) \/ LockFile(t)
    BY <1>0, <1>3, <2>1 DEF LockAppend, LockFile, Goto
  <2>2. CASE Locked(t) \/ CheckFound(t) \/ WriteFails(t) \/ Inserted(t)
    BY <1>4, <2>2 DEF Locked, CheckFound, WriteFails, Inserted
  <2> QED
    BY <1>2, <1>6, <1>7, <1>8, <1>9, <1>11, <2>1, <2>2 DEF Step
<1>12. ASSUME NEW p \in Procs, Read(p) PROVE StageInv'
  BY <1>3, <1>12 DEF Read
<1>13. ASSUME NEW p \in Procs, Crash(p) PROVE StageInv'
  BY <1>0, <1>3, <1>13 DEF Crash, CallInv
<1>14. CASE UNCHANGED vars
  BY <1>3, <1>14 DEF vars
<1> QED
  BY <1>10, <1>11, <1>12, <1>13, <1>14 DEF Next

\* An id is added only while it is fresh.
LEMMA UniqueKept ==
  ASSUME LInv, [Next]_vars
  PROVE  UniqueIds'
<1>0. UniqueIds /\ Entries \in Seq(Entry)
  BY EntriesTyped DEF LInv, FileInv, Entries
<1>1. CASE Entries' = Entries
  BY <1>0, <1>1 DEF UniqueIds
<1>2. ASSUME NEW t \in Threads, pc[t] = "body",
             Entries' = Append(Entries, call[t].entry)
      PROVE  UniqueIds'
  <2>1. Fresh(call[t].entry.id) /\ call[t].entry \in Entry
    BY <1>2 DEF LInv, StageInv, CallInv
  <2> DEFINE e == call[t].entry
  <2>2. /\ Len(Entries) \in Nat /\ DOMAIN Entries = 1 .. Len(Entries)
        /\ DOMAIN Entries' = 1 .. (Len(Entries) + 1)
        /\ \A i \in 1 .. Len(Entries) : Entries'[i] = Entries[i]
        /\ Entries'[Len(Entries) + 1] = e
    BY <1>0, <1>2, <2>1
  <2> HIDE DEF e
  <2>3. \A i \in 1 .. Len(Entries) : Entries[i].id # e.id
    BY <2>1, <2>2 DEF Fresh, e
  <2>4. ASSUME NEW i \in DOMAIN Entries', NEW j \in DOMAIN Entries',
               Entries'[i].id = Entries'[j].id
        PROVE  i = j
    <3>1. /\ i \in 1 .. Len(Entries) \/ i = Len(Entries) + 1
          /\ j \in 1 .. Len(Entries) \/ j = Len(Entries) + 1
      BY <2>2
    <3> QED
      BY <1>0, <2>2, <2>3, <2>4, <3>1 DEF UniqueIds
  <2> QED
    BY <2>4 DEF UniqueIds
<1> QED
  BY <1>1, <1>2, FileKept

LEMMA NextLInv == LInv /\ [Next]_vars => LInv'
<1> SUFFICES ASSUME LInv, [Next]_vars PROVE LInv'
  OBVIOUS
<1>1. WriterOwnsFlock'
  BY OwnershipInductive DEF LInv
<1>2. FileInv' /\ IndexInv' /\ CallInv' /\ StageInv' /\ UniqueIds'
  BY FileKept, IndexKept, CallKept, StageKept, UniqueKept
<1> QED
  BY <1>1, <1>2 DEF LInv

-----------------------------------------------------------------------------
\* legacy_ledger.LegacyLedger, for any number of threads, processes, failed
\* writes and crashes: what a process has indexed is at every moment the
\* beginning of what a full read of the file would give.
THEOREM IndexStaysPrefix == Spec => []IndexIsPrefix
<1>1. LInv => IndexIsPrefix
  BY IndexedIsPrefix DEF LInv, IndexInv, IndexIsPrefix
<1> QED
  BY <1>1, InitLInv, NextLInv, PTL DEF Spec

\* Every step of the ledger is a step of the append-only log, or none.
LEMMA StepOfLog ==
  ASSUME LInv, [Next]_vars
  PROVE  [Log!Next]_(Log!vars)
<1>0. FileInv /\ IndexInv /\ UniqueIds /\ ProcOf \in [Threads -> Procs]
  BY FlatLedgerAssumption DEF LInv
<1>1. ASSUME NEW t \in Threads, pc[t] = "body", WriteBody(t),
             Entries' = Append(Entries, call[t].entry)
      PROVE  Log!Next
  <2>1. Fresh(call[t].entry.id) /\ call[t].entry \in Entry /\ told' = told
    BY <1>1 DEF LInv, StageInv, CallInv, WriteBody
  <2>2. Log!Add(call[t].entry)
    BY <1>1, <2>1 DEF Log!Add, Fresh
  <2> QED
    BY <2>1, <2>2 DEF Log!Next
<1>2. ASSUME Entries' = Entries, told' = told PROVE UNCHANGED Log!vars
  BY <1>2 DEF Log!vars
\* What a caller is told is read from a refreshed index.
<1>3. ASSUME NEW t \in Threads,
             index' = [index EXCEPT ![ProcOf[t]] = Refreshed(index[ProcOf[t]])]
      PROVE  All(index'[ProcOf[t]]) = Entries
  <2>1. ProcOf[t] \in Procs /\ DOMAIN index = Procs /\ Indexed(index[ProcOf[t]])
    BY <1>0 DEF IndexInv
  <2>2. index'[ProcOf[t]] = Refreshed(index[ProcOf[t]])
    BY <1>3, <2>1
  <2> QED
    BY <1>0, <2>1, <2>2, RefreshShowsAll
<1>4. ASSUME NEW t \in Threads, CheckFound(t) PROVE Log!Next \/ UNCHANGED Log!vars
  <2>1. All(index'[ProcOf[t]]) = Entries /\ Entries' = Entries
    BY <1>3, <1>4 DEF CheckFound, Entries
  <2>2. PICK i \in Found(index'[ProcOf[t]], call[t].entry.id) :
          told' = IF All(index'[ProcOf[t]])[i] = call[t].entry
                  THEN told \cup {[entry |-> All(index'[ProcOf[t]])[i], seq |-> i]}
                  ELSE told
    BY <1>4 DEF CheckFound
  <2>3. i \in DOMAIN Entries
    BY <2>1, <2>2 DEF Found
  <2>4. Log!Tell(i) \/ UNCHANGED Log!vars
    BY <2>1, <2>2 DEF Log!Tell, Log!vars
  <2> QED
    BY <2>3, <2>4 DEF Log!Next
<1>5. ASSUME NEW t \in Threads, Inserted(t) PROVE Log!Next \/ UNCHANGED Log!vars
  <2> DEFINE id == call[t].entry.id
             F == Found(index'[ProcOf[t]], id)
  <2>1. All(index'[ProcOf[t]]) = Entries /\ Entries' = Entries
    BY <1>3, <1>5 DEF Inserted, Entries
  <2>2. told' = told \cup {[entry |-> Entries[i], seq |-> i] : i \in F}
    BY <1>5, <2>1 DEF Inserted
  <2>3. F = {i \in DOMAIN Entries : Entries[i].id = id}
    BY <2>1 DEF Found
  <2> HIDE DEF F, id
  <2>4. CASE F = {}
    BY <2>1, <2>2, <2>4 DEF Log!vars
  <2>5. CASE F # {}
    <3>1. PICK i \in DOMAIN Entries : i \in F
      BY <2>3, <2>5
    <3>2. F = {i}
      BY <1>0, <2>3, <3>1 DEF UniqueIds
    <3>3. told' = told \cup {[entry |-> Entries[i], seq |-> i]}
      BY <2>2, <3>2
    <3>4. Log!Tell(i)
      BY <2>1, <3>3 DEF Log!Tell
    <3> QED
      BY <3>1, <3>4 DEF Log!Next
  <2> QED
    BY <2>4, <2>5
<1>6. ASSUME ~ \E t \in Threads : CheckFound(t) \/ Inserted(t) PROVE told' = told
  <2>1. ASSUME NEW t \in Threads, CallAppend(t) \/ Step(t) PROVE told' = told
    BY <1>6, <2>1 DEF CallAppend, Step, LockAppend, LockFile, Locked, CheckNew,
                      RepairTail, WritePart, WriteBody, WriteNewline, WriteFails
  <2>2. ASSUME NEW p \in Procs, Read(p) \/ Crash(p) PROVE told' = told
    BY <2>2 DEF Read, Crash
  <2>3. ASSUME UNCHANGED vars PROVE told' = told
    BY <2>3 DEF vars
  <2> QED
    BY <2>1, <2>2, <2>3 DEF Next
<1> QED
  BY <1>1, <1>2, <1>4, <1>5, <1>6, FileKept

\* docs/concurrency.md and append_to_ledger, for any number of threads,
\* processes, failed writes and crashes: the file is one append-only log with
\* one line per id, callers are told the truth about it, and every index is a
\* prefix of it.
THEOREM FileIsOneLog == Spec => ImplementsLog
<1>1. Init => Log!Init
  <2> SUFFICES ASSUME Init PROVE Log!Init
    OBVIOUS
  <2>1. Entries = <<>> /\ told = {}
    BY ReadNothing DEF Init, Entries
  <2> QED
    BY <2>1 DEF Log!Init
<1>2. LInv /\ [Next]_vars => [Log!Next]_(Log!vars)
  BY StepOfLog
<1>3. Spec => Log!Spec
  BY <1>1, <1>2, InitLInv, NextLInv, PTL DEF Spec, Log!Spec
<1> QED
  BY <1>3, IndexStaysPrefix, PTL DEF ImplementsLog
=============================================================================
