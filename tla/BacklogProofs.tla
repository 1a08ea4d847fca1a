--------------------------- MODULE BacklogProofs ---------------------------
(***************************************************************************)
(* What the witness lines of a ledger say is true, and its stamps are one  *)
(* chain, for any number of witnesses, capsules, checkpoints, failures and *)
(* crashes.                                                                *)
(*                                                                         *)
(* Neither property is inductive.  A confirmation is first in the memory   *)
(* of the builder or of a drain, and reaches the ledger some steps later,  *)
(* while the other process appends: ConfirmedInv follows it there.  A      *)
(* stamp is built from what the builder remembers of the last one:         *)
(* ChainInv relates that memory, and what a restart puts in its place, to  *)
(* the stamps on record.                                                   *)
(***************************************************************************)
EXTENDS WitnessBacklog, SequenceTheorems, WellFoundedInduction, TLAPS

StampLines ==
    [kind : {"stamp"}, size : Nat, prev : Nat, cose : BOOLEAN, wit : SUBSET Urls]
BackfillLines == [kind : {"backfill"}, stamp : Nat, url : Urls]
Lines == {Capsule} \cup StampLines \cup BackfillLines

Labels == {"idle", "drain", "backfill", "build", "register", "stamp", "return"}
Positions == [pc : Labels, snap : Nat, url : DOMAIN Witnesses, pos : Nat]

TypeInv ==
    /\ lines \in Seq(Lines)
    /\ prev \in CheckpointType
    /\ at \in [Procs -> Positions]
    /\ \A p \in Procs : at[p].snap <= Size
    /\ last \in [Urls -> Nat] /\ accepted \in [Urls -> SUBSET Nat]

\* A line that names a witness is true.
Truthful(i) ==
    /\ lines[i].kind = "stamp" =>
          \A w \in lines[i].wit : lines[i].size \in accepted[w]
    /\ lines[i].kind = "backfill" => lines[i].stamp \in accepted[lines[i].url]

\* The drain p works on a stamp that its witness accepted.
Answered(p) == Todo(p) # {} /\ lines[Oldest(p)].size \in accepted[Url(p)]

\* Every line, the checkpoint being registered, and a drain that has an answer
\* but has not written it down yet, name acceptances that happened.
ConfirmedInv ==
    /\ \A i \in 1..Size : Truthful(i)
    /\ \A w \in prev.wit : prev.size \in accepted[w]
    /\ \A p \in Procs : at[p].pc = "backfill" => Answered(p)

\* The builder has a checkpoint that is not stamped yet.
Unstamped == at["builder"].pc \in {"register", "stamp"}

\* The checkpoint in memory continues the chain on record: it is past every
\* stamp, or, until it is stamped itself, its prev is.
MemoryContinues ==
    /\ prev.prev <= prev.size /\ prev.size <= Size
    /\ \A i \in Stamps(Size) :
          /\ lines[i].prev <= lines[i].size
          /\ IF Unstamped THEN lines[i].size <= prev.prev /\ i <= prev.size
                          ELSE lines[i].size <= prev.size

ChainInv == StampsChain /\ MemoryContinues

-----------------------------------------------------------------------------
(* Least and greatest elements; Min and Max are choices.                    *)

LEMMA LeastNat ==
    ASSUME NEW T, T \subseteq Nat, T # {}
    PROVE  \E i \in T : \A j \in T : i <= j
<1> DEFINE R == {p \in Nat \X Nat : p[1] < p[2]}
<1>1. IsWellFoundedOn(R, Nat)
  BY NatLessThanWellFounded DEF OpToRel
<1>2. PICK i \in T : \A j \in T : ~(<<j, i>> \in R)
  BY <1>1, WFMin
<1>3. ASSUME NEW j \in T
      PROVE  i <= j
  <2>1. ~(<<j, i>> \in R)
    BY <1>2
  <2>2. i \in Nat /\ j \in Nat
    OBVIOUS
  <2> QED
    BY <2>1, <2>2
<1> QED
  BY <1>3

LEMMA MinIs ==
    ASSUME NEW T, T \subseteq Nat, T # {}
    PROVE  Min(T) \in T
  BY LeastNat DEF Min

LEMMA MaxIs ==
    ASSUME NEW n \in Nat, NEW T, T \subseteq 1..n, T # {}
    PROVE  Max(T) \in T /\ \A j \in T : j <= Max(T)
<1> DEFINE D == {n - i : i \in T}
<1>1. PICK d \in D : \A e \in D : d <= e
  <2>1. \A i \in T : n - i \in Nat
    OBVIOUS
  <2>2. D \subseteq Nat
    BY <2>1
  <2>3. D # {}
    <3>1. PICK i \in T : TRUE
      OBVIOUS
    <3>2. n - i \in D
      BY <3>1
    <3> QED
      BY <3>2
  <2> QED
    BY <2>2, <2>3, LeastNat
<1>2. PICK m \in T : d = n - m
  OBVIOUS
<1>3. ASSUME NEW j \in T
      PROVE  m >= j
  <2>1. n - m <= n - j
    BY <1>1, <1>2
  <2> QED
    BY <2>1
<1>4. \E x \in T : \A y \in T : x >= y
  BY <1>3
<1>5. Max(T) \in T /\ \A y \in T : Max(T) >= y
  BY <1>4 DEF Max
<1> QED
  BY <1>5

-----------------------------------------------------------------------------
(* Lines are only appended, so what a snapshot says does not change.        *)

LinesKept ==
    /\ lines' \in Seq(Lines) /\ Size' \in Nat /\ Size <= Size'
    /\ \A i \in 1..Size : lines'[i] = lines[i]

LEMMA AppendKeeps ==
    ASSUME TypeInv, NEW l \in Lines, lines' = Append(lines, l)
    PROVE  LinesKept /\ Size' = Size + 1 /\ lines'[Size + 1] = l
  BY AppendProperties DEF TypeInv, LinesKept, Size

LEMMA SameKeeps ==
    ASSUME TypeInv, UNCHANGED lines
    PROVE  LinesKept /\ Size' = Size
  BY DEF TypeInv, LinesKept, Size

LEMMA SizeType ==
    ASSUME TypeInv
    PROVE  Size \in Nat /\ \A i \in 1..Size : lines[i] \in Lines
  BY DEF TypeInv, Size

LEMMA UrlType ==
    ASSUME TypeInv, NEW p \in Procs
    PROVE  Url(p) \in Urls
  BY DEF TypeInv, Positions, Url, Urls

\* The next stamp a drain sends is a stamp of the ledger.
LEMMA OldestIs ==
    ASSUME TypeInv, NEW p \in Procs, Todo(p) # {}
    PROVE  Oldest(p) \in 1..Size /\ lines[Oldest(p)] \in StampLines
<1>1. at[p].snap \in Nat /\ at[p].snap <= Size /\ Size \in Nat
  BY SizeType DEF TypeInv, Positions
<1>2. Todo(p) \subseteq {i \in 1..Size : lines[i].kind = "stamp"}
  BY <1>1 DEF Todo, Backlog, Stamps
<1>3. Oldest(p) \in Todo(p)
  BY <1>1, <1>2, MinIs DEF Oldest
<1>4. Oldest(p) \in 1..Size /\ lines[Oldest(p)].kind = "stamp"
  BY <1>2, <1>3
<1>5. lines[Oldest(p)] \in Lines
  BY <1>4, SizeType
<1> QED
  BY <1>4, <1>5 DEF Lines, Capsule, BackfillLines

\* A drain that stands still sees the same work whatever is appended.
LEMMA SnapshotKept ==
    ASSUME TypeInv, LinesKept, NEW p \in Procs, at'[p] = at[p]
    PROVE  /\ Todo(p)' = Todo(p) /\ Oldest(p)' = Oldest(p) /\ Url(p)' = Url(p)
<1> DEFINE n == at[p].snap
<1>1. n \in Nat /\ n <= Size /\ Size \in Nat
  BY SizeType DEF TypeInv, Positions
<1>2. \A i \in 1..n : lines'[i] = lines[i]
  BY <1>1 DEF LinesKept
<1>3. Url(p)' = Url(p)
  BY DEF Url
<1>4. Stamps(n)' = Stamps(n)
  BY <1>2 DEF Stamps
<1>5. \A i \in 1..n : EffectiveWitnesses(i, n)' = EffectiveWitnesses(i, n)
  BY <1>2 DEF EffectiveWitnesses
<1>6. Stamps(n) \subseteq 1..n
  BY DEF Stamps
<1>7. Backlog(Url(p), n)' = Backlog(Url(p), n)
  BY <1>3, <1>4, <1>5, <1>6 DEF Backlog
<1>8. Backlog(Url(p), n) \subseteq 1..n
  BY <1>6 DEF Backlog
<1>9. Todo(p)' = Todo(p)
  BY <1>2, <1>7, <1>8 DEF Todo
<1> QED
  BY <1>3, <1>9 DEF Oldest

-----------------------------------------------------------------------------
(* What one step must do to keep each part of the invariant.                *)

AcceptedKept == \A w \in Urls : accepted[w] \subseteq accepted'[w]

\* New lines, a new confirmation in memory and a new answer must be true; the
\* rest stays true because neither a line nor an acceptance goes away.
LEMMA ConfirmedStep ==
    ASSUME TypeInv, ConfirmedInv, LinesKept, AcceptedKept,
           \A i \in 1..Size' : i > Size => Truthful(i)',
           \A w \in prev'.wit : prev'.size \in accepted'[w],
           \A p \in Procs : at'[p].pc = "backfill" =>
               (at'[p] = at[p] \/ Answered(p)')
    PROVE  ConfirmedInv'
<1>1. ASSUME NEW i \in 1..Size'
      PROVE  Truthful(i)'
  <2>1. CASE i > Size
    BY <2>1
  <2>2. CASE i \in 1..Size
    <3>1. lines'[i] = lines[i] /\ Truthful(i)
      BY <2>2 DEF LinesKept, ConfirmedInv
    <3>2. lines[i] \in Lines
      BY <2>2, SizeType
    <3>3. ASSUME lines[i].kind = "stamp"
          PROVE  \A w \in lines[i].wit : lines[i].size \in accepted'[w]
      <4>1. lines[i].wit \subseteq Urls
        BY <3>2, <3>3 DEF Lines, StampLines, BackfillLines, Capsule
      <4> QED
        BY <3>1, <3>3, <4>1 DEF Truthful, AcceptedKept
    <3>4. ASSUME lines[i].kind = "backfill"
          PROVE  lines[i].stamp \in accepted'[lines[i].url]
      <4>1. lines[i].url \in Urls
        BY <3>2, <3>4 DEF Lines, StampLines, BackfillLines, Capsule
      <4> QED
        BY <3>1, <3>4, <4>1 DEF Truthful, AcceptedKept
    <3> QED
      BY <3>1, <3>3, <3>4 DEF Truthful
  <2>3. i > Size \/ i \in 1..Size
    BY SizeType DEF LinesKept
  <2> QED
    BY <2>1, <2>2, <2>3
<1>2. ASSUME NEW p \in Procs, at'[p].pc = "backfill", at'[p] = at[p]
      PROVE  Answered(p)'
  <2>1. Answered(p)
    BY <1>2 DEF ConfirmedInv
  <2>2. Todo(p)' = Todo(p) /\ Oldest(p)' = Oldest(p) /\ Url(p)' = Url(p)
    BY <1>2, SnapshotKept
  <2>3. Oldest(p) \in 1..Size /\ Url(p) \in Urls
    BY <2>1, OldestIs, UrlType DEF Answered
  <2>4. lines'[Oldest(p)] = lines[Oldest(p)]
    BY <2>3 DEF LinesKept
  <2> QED
    BY <2>1, <2>2, <2>3, <2>4 DEF Answered, AcceptedKept
<1> QED
  BY <1>1, <1>2 DEF ConfirmedInv

LEMMA StampsKept ==
    ASSUME TypeInv, LinesKept, \A i \in 1..Size' : i > Size => lines'[i].kind # "stamp"
    PROVE  /\ Stamps(Size)' = Stamps(Size)
           /\ \A i \in Stamps(Size) : i \in 1..Size /\ lines'[i] = lines[i]
                                      /\ lines[i] \in StampLines
<1>1. Size \in Nat /\ \A i \in 1..Size : lines[i] \in Lines
  BY SizeType
<1>2. \A i \in 1..Size' : i > Size \/ i \in 1..Size
  BY <1>1 DEF LinesKept
<1>3. 1..Size \subseteq 1..Size'
  BY <1>1 DEF LinesKept
<1>4. Stamps(Size)' = Stamps(Size)
  BY <1>2, <1>3 DEF LinesKept, Stamps
<1>5. \A i \in Stamps(Size) : i \in 1..Size /\ lines[i].kind = "stamp"
  BY DEF Stamps
<1>6. \A i \in Stamps(Size) : lines[i] \in StampLines
  BY <1>1, <1>5 DEF Lines, BackfillLines, Capsule
<1> QED
  BY <1>4, <1>5, <1>6 DEF LinesKept

\* A step that appends no stamp and leaves the builder's checkpoint alone.
LEMMA ChainStep ==
    ASSUME TypeInv, ChainInv, LinesKept,
           \A i \in 1..Size' : i > Size => lines'[i].kind # "stamp",
           prev'.size = prev.size, prev'.prev = prev.prev, Unstamped' => Unstamped
    PROVE  ChainInv'
<1>1. /\ Stamps(Size)' = Stamps(Size)
      /\ \A i \in Stamps(Size) : i \in 1..Size /\ lines'[i] = lines[i]
                                 /\ lines[i] \in StampLines
  BY StampsKept
<1>2. StampsChain'
  BY <1>1 DEF ChainInv, StampsChain, NextCoversStamp, NeverChainsBack
<1>3. Size \in Nat /\ Size' \in Nat /\ Size <= Size'
  BY SizeType DEF LinesKept
<1>4. prev.size \in Nat /\ prev.prev \in Nat
  BY DEF TypeInv, CheckpointType
<1>5. \A i \in Stamps(Size) : lines[i].size \in Nat /\ lines[i].prev \in Nat
  BY <1>1 DEF StampLines
<1>6. MemoryContinues'
  <2>1. prev'.prev <= prev'.size /\ prev'.size <= Size'
    BY <1>3, <1>4 DEF ChainInv, MemoryContinues
  <2>2. ASSUME NEW i \in Stamps(Size)
        PROVE  /\ lines'[i].prev <= lines'[i].size
               /\ IF Unstamped' THEN lines'[i].size <= prev'.prev /\ i <= prev'.size
                                ELSE lines'[i].size <= prev'.size
    <3>1. lines'[i] = lines[i]
      BY <1>1
    <3>2. lines[i].prev <= lines[i].size
      BY DEF ChainInv, MemoryContinues
    <3>3. CASE Unstamped
      BY <1>4, <1>5, <3>1, <3>2, <3>3 DEF ChainInv, MemoryContinues
    <3>4. CASE ~Unstamped
      BY <3>1, <3>2, <3>4 DEF ChainInv, MemoryContinues
    <3> QED
      BY <3>3, <3>4
  <2> QED
    BY <1>1, <2>1, <2>2 DEF MemoryContinues
<1> QED
  BY <1>2, <1>6 DEF ChainInv

-----------------------------------------------------------------------------
(* The moves of the two processes, and the answers of a witness.            *)

BInv == TypeInv /\ ConfirmedInv /\ ChainInv

MovesTo(p, labels) ==
    /\ at' \in [Procs -> Positions]
    /\ at'[p].pc \in labels /\ at'[p].snap <= Size
    /\ \A q \in Procs \ {p} : at'[q] = at[q]

WorldKept ==
    /\ last' \in [Urls -> Nat] /\ accepted' \in [Urls -> SUBSET Nat]
    /\ AcceptedKept

LEMMA WitnessesType ==
    /\ DOMAIN Witnesses = 1..Len(Witnesses) /\ Len(Witnesses) \in Nat /\ 1 \in DOMAIN Witnesses
  BY BacklogAssumption, EmptySeq

LEMMA IdleType == Idle \in Positions /\ Idle.pc = "idle" /\ Idle.snap = 0
  BY WitnessesType DEF Idle, Positions, Labels

LEMMA PcType ==
    ASSUME TypeInv, NEW p \in Procs
    PROVE  /\ at[p].pc \in Labels /\ at[p].snap \in Nat /\ at[p].snap <= Size
           /\ at[p].url \in 1..Len(Witnesses) /\ at[p].pos \in Nat
  BY WitnessesType DEF TypeInv, Positions

LEMMA GoMoves ==
    ASSUME TypeInv, NEW p \in Procs, NEW label \in Labels, Go(p, label)
    PROVE  /\ MovesTo(p, {label}) /\ at'[p].snap = at[p].snap
           /\ at'[p].url = at[p].url /\ at'[p].pos = at[p].pos
  BY PcType DEF TypeInv, Positions, Go, MovesTo

LEMMA BeginMoves ==
    ASSUME TypeInv, NEW p \in Procs, DrainBegins(p)
    PROVE  MovesTo(p, {"drain"})
<1> DEFINE here == [Idle EXCEPT !.pc = "drain", !.snap = Size]
<1>1. here \in Positions /\ here.pc = "drain" /\ here.snap = Size
  BY IdleType, SizeType DEF Idle, Positions, Labels
<1>2. at' = [at EXCEPT ![p] = here]
  BY DEF DrainBegins
<1> QED
  BY <1>1, <1>2, SizeType DEF TypeInv, MovesTo

LEMMA NextUrlMoves ==
    ASSUME TypeInv, NEW p \in Procs, NextUrl(p)
    PROVE  MovesTo(p, {"drain", "build", "idle"})
<1>1. CASE at[p].url < Len(Witnesses)
  <2>1. at[p].url + 1 \in DOMAIN Witnesses
    BY <1>1, WitnessesType, PcType
  <2>2. at' = [at EXCEPT ![p] = [at[p] EXCEPT !.pc = "drain", !.url = at[p].url + 1, !.pos = 0]]
    BY <1>1 DEF NextUrl
  <2> QED
    BY <2>1, <2>2, PcType DEF TypeInv, Positions, Labels, MovesTo
<1>2. CASE ~(at[p].url < Len(Witnesses))
  <2>1. at' = [at EXCEPT ![p] = [Idle EXCEPT !.pc = AfterDrain(p)]]
    BY <1>2 DEF NextUrl
  <2>2. AfterDrain(p) \in {"build", "idle"}
    BY DEF AfterDrain
  <2>3. [Idle EXCEPT !.pc = AfterDrain(p)] \in Positions
    BY <2>2, IdleType DEF Positions, Labels
  <2>4. at'[p].pc = AfterDrain(p) /\ at'[p].snap = 0
    BY <2>1 DEF TypeInv, Idle
  <2> QED
    BY <2>1, <2>2, <2>3, <2>4, SizeType DEF TypeInv, MovesTo
<1> QED
  BY <1>1, <1>2

LEMMA NextStampMoves ==
    ASSUME TypeInv, NEW p \in Procs, Todo(p) # {}, NextStamp(p)
    PROVE  MovesTo(p, {"drain"})
<1>1. Oldest(p) \in Nat
  BY OldestIs, SizeType
<1> QED
  BY <1>1, PcType DEF TypeInv, Positions, Labels, NextStamp, MovesTo

LEMMA RegisterMoves ==
    ASSUME TypeInv, at["builder"].pc = "register", RegisterNext
    PROVE  MovesTo("builder", {"register", "stamp"})
<1>1. "builder" \in Procs
  BY DEF Procs
<1>2. CASE at["builder"].url < Len(Witnesses)
  <2>1. at["builder"].url + 1 \in DOMAIN Witnesses
    BY <1>1, <1>2, WitnessesType, PcType
  <2>2. at' = [at EXCEPT !["builder"] = [at["builder"] EXCEPT !.url = at["builder"].url + 1]]
    BY <1>2 DEF RegisterNext, Builder
  <2> QED
    BY <1>1, <2>1, <2>2, PcType DEF TypeInv, Positions, MovesTo
<1>3. CASE ~(at["builder"].url < Len(Witnesses))
  <2>1. at' = [at EXCEPT !["builder"] = [Idle EXCEPT !.pc = "stamp"]]
    BY <1>3 DEF RegisterNext
  <2> QED
    BY <1>1, <2>1, IdleType, SizeType DEF TypeInv, Idle, Positions, Labels, MovesTo
<1> QED
  BY <1>2, <1>3

LEMMA SameWorld ==
    ASSUME TypeInv, UNCHANGED world
    PROVE  WorldKept
  BY DEF TypeInv, world, WorldKept, AcceptedKept

LEMMA AcceptWorld ==
    ASSUME TypeInv, NEW w \in Urls, NEW c, c.size \in Nat, Accept(w, c)
    PROVE  WorldKept /\ c.size \in accepted'[w]
  BY DEF TypeInv, Accept, WorldKept, AcceptedKept

LEMMA NoAnswerWorld ==
    ASSUME TypeInv, NEW w \in Urls, NEW c, c.size \in Nat, NoAnswer(w, c)
    PROVE  WorldKept
  BY SameWorld, AcceptWorld DEF NoAnswer

-----------------------------------------------------------------------------
(* The steps.                                                               *)

LEMMA TypeStep ==
    ASSUME TypeInv, LinesKept, WorldKept, prev' \in CheckpointType,
           at' \in [Procs -> Positions],
           \A p \in Procs : at'[p].snap <= Size \/ at'[p] = at[p]
    PROVE  TypeInv'
<1>1. ASSUME NEW p \in Procs
      PROVE  at'[p].snap <= Size'
  <2>1. at'[p].snap <= Size
    BY PcType
  <2>2. at'[p].snap \in Nat
    BY DEF Positions
  <2> QED
    BY <2>1, <2>2, SizeType DEF LinesKept
<1> QED
  BY <1>1 DEF TypeInv, LinesKept, WorldKept

\* A step of one process that gives no new confirmation, builds nothing and
\* appends at most lines that are true and no stamps.
LEMMA QuietStep ==
    ASSUME BInv, NEW p \in Procs, NEW labels, MovesTo(p, labels),
           "backfill" \notin labels,
           p = "builder" => (Unstamped \/ ("register" \notin labels /\ "stamp" \notin labels)),
           LinesKept, WorldKept, UNCHANGED prev,
           \A i \in 1..Size' : i > Size => (Truthful(i)' /\ lines'[i].kind # "stamp")
    PROVE  BInv'
<1>1. TypeInv'
  <2>1. prev' \in CheckpointType
    BY DEF BInv, TypeInv
  <2> QED
    BY <2>1, TypeStep DEF BInv, MovesTo
<1>2. ConfirmedInv'
  <2>1. \A w \in prev'.wit : prev'.size \in accepted'[w]
    <3>1. prev.wit \subseteq Urls
      BY DEF BInv, TypeInv, CheckpointType
    <3> QED
      BY <3>1 DEF BInv, ConfirmedInv, WorldKept, AcceptedKept
  <2>2. \A q \in Procs : at'[q].pc = "backfill" => at'[q] = at[q]
    BY DEF MovesTo
  <2> QED
    BY <2>1, <2>2, ConfirmedStep DEF BInv, WorldKept
<1>3. ChainInv'
  <2>1. Unstamped' => Unstamped
    BY DEF MovesTo, Unstamped, Procs
  <2> QED
    BY <2>1, ChainStep DEF BInv
<1> QED
  BY <1>1, <1>2, <1>3 DEF BInv

\* The same, for a step that appends nothing.
LEMMA SilentStep ==
    ASSUME BInv, NEW p \in Procs, NEW labels, MovesTo(p, labels),
           "backfill" \notin labels,
           p = "builder" => (Unstamped \/ ("register" \notin labels /\ "stamp" \notin labels)),
           UNCHANGED <<lines, prev>>, WorldKept
    PROVE  BInv'
<1>1. LinesKept /\ Size' = Size
  BY SameKeeps DEF BInv
<1>2. \A i \in 1..Size' : ~(i > Size)
  BY <1>1, SizeType DEF BInv
<1> QED
  BY <1>1, <1>2, QuietStep

LEMMA StutterKeeps ==
    ASSUME BInv, UNCHANGED <<lines, prev, at, world>>
    PROVE  BInv'
<1>1. WorldKept
  BY SameWorld DEF BInv
<1>2. LinesKept /\ Size' = Size /\ \A i \in 1..Size' : ~(i > Size)
  BY SameKeeps, SizeType DEF BInv
<1>3. TypeInv'
  BY <1>1, <1>2, TypeStep DEF BInv, TypeInv
<1>4. ConfirmedInv'
  BY <1>1, <1>2, ConfirmedStep DEF BInv, WorldKept, ConfirmedInv, world
<1>5. ChainInv'
  BY <1>2, ChainStep DEF BInv, Unstamped
<1> QED
  BY <1>3, <1>4, <1>5 DEF BInv

LEMMA SealKeeps ==
    ASSUME BInv, Seal
    PROVE  BInv'
<1>1. lines' = Append(lines, Capsule) /\ Capsule \in Lines
  BY DEF Seal, Lines
<1>2. LinesKept /\ Size' = Size + 1 /\ lines'[Size + 1] = Capsule
  BY <1>1, AppendKeeps DEF BInv
<1>3. \A i \in 1..Size' : i > Size => lines'[i] = Capsule
  BY <1>2, SizeType DEF BInv
<1>4. \A i \in 1..Size' : i > Size => (Truthful(i)' /\ lines'[i].kind # "stamp")
  BY <1>3 DEF Truthful, Capsule
<1>6. WorldKept
  BY SameWorld DEF Seal, BInv
<1>7. TypeInv'
  BY <1>2, <1>6, TypeStep DEF Seal, BInv, TypeInv
<1>8. ConfirmedInv'
  <2>1. \A w \in prev'.wit : prev'.size \in accepted'[w]
    BY DEF Seal, world, BInv, ConfirmedInv
  <2> QED
    BY <1>2, <1>4, <1>6, <2>1, ConfirmedStep DEF Seal, BInv, WorldKept
<1>9. ChainInv'
  BY <1>2, <1>4, ChainStep DEF Seal, BInv, Unstamped
<1> QED
  BY <1>7, <1>8, <1>9 DEF BInv

LEMMA DrainEmptyKeeps ==
    ASSUME BInv, NEW p \in Procs, DrainEmpty(p) \/ DrainRefused(p)
    PROVE  BInv'
<1>1. NextUrl(p) /\ UNCHANGED <<lines, prev>> /\ UNCHANGED world
  BY DEF DrainEmpty, DrainRefused
<1>2. MovesTo(p, {"drain", "build", "idle"})
  BY <1>1, NextUrlMoves DEF BInv
<1>3. WorldKept
  BY <1>1, SameWorld DEF BInv
<1> QED
  BY <1>1, <1>2, <1>3, SilentStep

LEMMA DrainNoAnswerKeeps ==
    ASSUME BInv, NEW p \in Procs, DrainNoAnswer(p)
    PROVE  BInv'
<1>1. Todo(p) # {} /\ NoAnswer(Url(p), lines[Oldest(p)]) /\ NextUrl(p)
      /\ UNCHANGED <<lines, prev>>
  BY DEF DrainNoAnswer
<1>2. MovesTo(p, {"drain", "build", "idle"})
  BY <1>1, NextUrlMoves DEF BInv
<1>3. lines[Oldest(p)].size \in Nat /\ Url(p) \in Urls
  BY <1>1, OldestIs, UrlType DEF BInv, StampLines
<1>4. WorldKept
  BY <1>1, <1>3, NoAnswerWorld DEF BInv
<1> QED
  BY <1>1, <1>2, <1>4, SilentStep

LEMMA DrainSkipsKeeps ==
    ASSUME BInv, NEW p \in Procs, DrainSkips(p)
    PROVE  BInv'
<1>1. Todo(p) # {} /\ NextStamp(p) /\ UNCHANGED <<lines, prev>> /\ UNCHANGED world
  BY DEF DrainSkips
<1>2. MovesTo(p, {"drain"})
  BY <1>1, NextStampMoves DEF BInv
<1>3. WorldKept
  BY <1>1, SameWorld DEF BInv
<1> QED
  BY <1>1, <1>2, <1>3, SilentStep

\* The witness accepted: the drain holds an answer it has not written down.
LEMMA DrainAcceptedKeeps ==
    ASSUME BInv, NEW p \in Procs, DrainAccepted(p)
    PROVE  BInv'
<1> DEFINE c == lines[Oldest(p)]
<1>1. Todo(p) # {} /\ Accept(Url(p), c) /\ Go(p, "backfill") /\ UNCHANGED <<lines, prev>>
  BY DEF DrainAccepted
<1>2. MovesTo(p, {"backfill"}) /\ at'[p].snap = at[p].snap
      /\ at'[p].url = at[p].url /\ at'[p].pos = at[p].pos
  BY <1>1, GoMoves DEF BInv, Labels
<1>3. c.size \in Nat /\ Url(p) \in Urls
  BY <1>1, OldestIs, UrlType DEF BInv, StampLines
<1>4. WorldKept /\ c.size \in accepted'[Url(p)]
  BY <1>1, <1>3, AcceptWorld DEF BInv
<1>5. LinesKept /\ Size' = Size
  BY <1>1, SameKeeps DEF BInv
<1>6. \A i \in 1..Size' : ~(i > Size)
  BY <1>5, SizeType DEF BInv
<1>7. TypeInv'
  <2>1. prev' \in CheckpointType
    BY <1>1 DEF BInv, TypeInv
  <2> QED
    BY <1>2, <1>4, <1>5, <2>1, TypeStep DEF BInv, MovesTo
<1>8. Answered(p)'
  <2>1. Url(p)' = Url(p)
    BY <1>2 DEF Url
  <2>3. Todo(p)' = Todo(p)
    BY <1>1, <1>2, <2>1 DEF Todo, Backlog, Stamps, EffectiveWitnesses
  <2>4. Oldest(p)' = Oldest(p)
    BY <2>3 DEF Oldest
  <2> QED
    BY <1>1, <1>4, <2>1, <2>3, <2>4 DEF Answered
<1>9. ConfirmedInv'
  <2>1. \A w \in prev'.wit : prev'.size \in accepted'[w]
    <3>1. prev.wit \subseteq Urls
      BY DEF BInv, TypeInv, CheckpointType
    <3> QED
      BY <1>1, <1>4, <3>1 DEF BInv, ConfirmedInv, WorldKept, AcceptedKept
  <2>2. \A q \in Procs : at'[q] = at[q] \/ Answered(q)'
    BY <1>2, <1>8 DEF MovesTo
  <2> QED
    BY <1>4, <1>5, <1>6, <2>1, <2>2, ConfirmedStep DEF BInv, WorldKept
<1>10. ChainInv'
  <2>1. Unstamped' => Unstamped
    BY <1>2 DEF MovesTo, Unstamped, Procs
  <2> QED
    BY <1>1, <1>5, <1>6, <2>1, ChainStep DEF BInv
<1> QED
  BY <1>7, <1>9, <1>10 DEF BInv

\* The drain writes down the acceptance it remembers, or fails to.
LEMMA BackfillKeeps ==
    ASSUME BInv, NEW p \in Procs, PersistWitnessBackfill(p)
    PROVE  BInv'
<1> DEFINE l == BackfillLine(lines[Oldest(p)].size, Url(p))
<1>1. at[p].pc = "backfill" /\ NextStamp(p) /\ UNCHANGED prev /\ UNCHANGED world
  BY DEF PersistWitnessBackfill
<1>2. Todo(p) # {} /\ lines[Oldest(p)].size \in accepted[Url(p)]
  BY <1>1 DEF BInv, ConfirmedInv, Answered
<1>3. MovesTo(p, {"drain"})
  BY <1>1, <1>2, NextStampMoves DEF BInv
<1>4. WorldKept
  BY <1>1, SameWorld DEF BInv
<1>5. CASE UNCHANGED lines
  BY <1>1, <1>3, <1>4, <1>5, SilentStep
<1>6. CASE lines' = Append(lines, l)
  <2>1. lines[Oldest(p)].size \in Nat /\ Url(p) \in Urls
    BY <1>2, OldestIs, UrlType DEF BInv, StampLines
  <2>2. l \in Lines
    BY <2>1 DEF Lines, BackfillLines, BackfillLine
  <2>3. LinesKept /\ Size' = Size + 1 /\ lines'[Size + 1] = l
    BY <1>6, <2>2, AppendKeeps DEF BInv
  <2>4. \A i \in 1..Size' : i > Size => lines'[i] = l
    BY <2>3, SizeType DEF BInv
  <2>5. l.kind = "backfill" /\ l.stamp \in accepted'[l.url]
    BY <1>1, <1>2 DEF BackfillLine, world
  <2>6. \A i \in 1..Size' : i > Size => (Truthful(i)' /\ lines'[i].kind # "stamp")
    BY <2>4, <2>5 DEF Truthful
  <2> QED
    BY <1>1, <1>3, <1>4, <2>3, <2>6, QuietStep
<1> QED
  BY <1>5, <1>6 DEF PersistWitnessBackfill

LEMMA BeginKeeps ==
    ASSUME BInv, NEW p \in Procs, DrainBegins(p), UNCHANGED <<lines, prev, world>>
    PROVE  BInv'
<1>1. MovesTo(p, {"drain"})
  BY BeginMoves DEF BInv
<1>2. WorldKept
  BY SameWorld DEF BInv
<1> QED
  BY <1>1, <1>2, SilentStep

\* The builder goes to a place where it has no checkpoint in hand.
LEMMA BuilderDropsKeeps ==
    ASSUME BInv, Go("builder", "return"), UNCHANGED <<lines, prev, world>>
    PROVE  BInv'
<1>1. MovesTo("builder", {"return"}) /\ "builder" \in Procs
  BY GoMoves DEF BInv, Labels, Procs
<1>2. WorldKept
  BY SameWorld DEF BInv
<1> QED
  BY <1>1, <1>2, SilentStep

LEMMA ReturnKeeps ==
    ASSUME BInv, Return
    PROVE  BInv'
<1>1. MovesTo("builder", {"idle"}) /\ "builder" \in Procs
  BY IdleType, SizeType DEF Return, MovesTo, BInv, TypeInv, Procs
<1>2. WorldKept
  BY SameWorld DEF Return, BInv
<1> QED
  BY <1>1, <1>2, SilentStep DEF Return

\* The new checkpoint covers every line, so every stamp, and chains from the
\* one in memory.
LEMMA BuildKeeps ==
    ASSUME BInv, Build
    PROVE  BInv'
<1>1. PICK cose \in BOOLEAN :
          /\ prev' = [size |-> Size, prev |-> prev.size, cose |-> cose, wit |-> {}]
          /\ Go("builder", IF cose THEN "register" ELSE "stamp")
  BY DEF Build
<1>2. /\ at["builder"].pc = "build" /\ Size > prev.size
      /\ UNCHANGED lines /\ UNCHANGED world
  BY DEF Build, Builder
<1>3. MovesTo("builder", {"register", "stamp"}) /\ "builder" \in Procs
  <2>1. CASE cose
    BY <1>1, <2>1, GoMoves DEF BInv, Labels, Procs, MovesTo
  <2>2. CASE ~cose
    BY <1>1, <2>2, GoMoves DEF BInv, Labels, Procs, MovesTo
  <2> QED
    BY <2>1, <2>2
<1>4. WorldKept
  BY <1>2, SameWorld DEF BInv
<1>5. LinesKept /\ Size' = Size
  BY <1>2, SameKeeps DEF BInv
<1>6. Size \in Nat /\ prev.size \in Nat /\ prev.prev \in Nat
  BY SizeType DEF BInv, TypeInv, CheckpointType
<1>7. TypeInv'
  <2>1. prev' \in CheckpointType
    BY <1>1, <1>6 DEF CheckpointType
  <2> QED
    BY <1>3, <1>4, <1>5, <2>1, TypeStep DEF BInv, MovesTo
<1>8. ConfirmedInv'
  <2>1. prev'.wit = {}
    BY <1>1
  <2>2. \A q \in Procs : at'[q].pc = "backfill" => at'[q] = at[q]
    BY <1>3 DEF MovesTo
  <2>3. \A i \in 1..Size' : ~(i > Size)
    BY <1>5, <1>6
  <2> QED
    BY <1>4, <1>5, <2>1, <2>2, <2>3, ConfirmedStep DEF BInv, WorldKept
<1>9. ChainInv'
  <2>1. Stamps(Size)' = Stamps(Size) /\ \A i \in Stamps(Size) : i \in 1..Size
    BY <1>2, <1>5 DEF Stamps
  <2>2. StampsChain'
    BY <1>2, <2>1 DEF BInv, ChainInv, StampsChain, NextCoversStamp, NeverChainsBack
  <2>3. prev'.prev = prev.size /\ prev'.size = Size
    BY <1>1
  <2>4. Unstamped' /\ ~Unstamped
    BY <1>2, <1>3 DEF Unstamped, MovesTo
  <2>5. \A i \in Stamps(Size) :
            /\ lines'[i].prev <= lines'[i].size
            /\ lines'[i].size <= prev'.prev /\ i <= prev'.size
    BY <1>2, <2>1, <2>3, <2>4 DEF BInv, ChainInv, MemoryContinues
  <2>6. prev'.prev <= prev'.size /\ prev'.size <= Size'
    BY <1>2, <1>5, <1>6, <2>3
  <2> QED
    BY <2>1, <2>2, <2>4, <2>5, <2>6 DEF ChainInv, MemoryContinues
<1> QED
  BY <1>7, <1>8, <1>9 DEF BInv

LEMMA RegisterFailsKeeps ==
    ASSUME BInv, RegisterFails
    PROVE  BInv'
<1>1. /\ at["builder"].pc = "register" /\ RegisterNext /\ "builder" \in Procs
      /\ UNCHANGED <<lines, prev>>
  BY DEF RegisterFails, Builder, Procs
<1>2. MovesTo("builder", {"register", "stamp"})
  BY <1>1, RegisterMoves DEF BInv
<1>3. WorldKept
  <2>1. prev.size \in Nat /\ Url("builder") \in Urls
    BY <1>1, UrlType DEF BInv, TypeInv, CheckpointType
  <2>2. CASE NoAnswer(Url("builder"), prev)
    BY <2>1, <2>2, NoAnswerWorld DEF BInv
  <2>3. CASE UNCHANGED world
    BY <2>3, SameWorld DEF BInv
  <2> QED
    BY <2>2, <2>3 DEF RegisterFails
<1>4. Unstamped
  BY <1>1 DEF Unstamped
<1> QED
  BY <1>1, <1>2, <1>3, <1>4, SilentStep

LEMMA RegisterAcceptedKeeps ==
    ASSUME BInv, RegisterAccepted
    PROVE  BInv'
<1> DEFINE w == Url("builder")
<1>1. /\ at["builder"].pc = "register" /\ RegisterNext /\ "builder" \in Procs
      /\ UNCHANGED lines /\ Accept(w, prev)
      /\ prev' = [prev EXCEPT !.wit = @ \cup {w}]
  BY DEF RegisterAccepted, Builder, Procs
<1>2. MovesTo("builder", {"register", "stamp"})
  BY <1>1, RegisterMoves DEF BInv
<1>3. prev \in CheckpointType /\ prev.size \in Nat /\ prev.wit \subseteq Urls /\ w \in Urls
  BY <1>1, UrlType DEF BInv, TypeInv, CheckpointType
<1>4. WorldKept /\ prev.size \in accepted'[w]
  BY <1>1, <1>3, AcceptWorld DEF BInv
<1>5. /\ prev' \in CheckpointType /\ prev'.size = prev.size /\ prev'.prev = prev.prev
      /\ prev'.wit = prev.wit \cup {w}
  BY <1>1, <1>3 DEF CheckpointType
<1>6. LinesKept /\ Size' = Size /\ \A i \in 1..Size' : ~(i > Size)
  BY <1>1, SameKeeps, SizeType DEF BInv
<1>7. TypeInv'
  BY <1>2, <1>4, <1>5, <1>6, TypeStep DEF BInv, MovesTo
<1>8. ConfirmedInv'
  <2>1. \A v \in prev'.wit : prev'.size \in accepted'[v]
    BY <1>3, <1>4, <1>5 DEF BInv, ConfirmedInv, WorldKept, AcceptedKept
  <2>2. \A q \in Procs : at'[q].pc = "backfill" => at'[q] = at[q]
    BY <1>2 DEF MovesTo
  <2> QED
    BY <1>4, <1>6, <2>1, <2>2, ConfirmedStep DEF BInv, WorldKept
<1>9. ChainInv'
  <2>1. Unstamped
    BY <1>1 DEF Unstamped
  <2> QED
    BY <1>5, <1>6, <2>1, ChainStep DEF BInv
<1> QED
  BY <1>7, <1>8, <1>9 DEF BInv

\* The stamp of the checkpoint in memory: its prev is at or past every stamp
\* on record, and it covers every line there was when it was built.
LEMMA StampKeeps ==
    ASSUME BInv, PersistCheckpointStamp, lines' = Append(lines, StampLine(prev))
    PROVE  BInv'
<1> DEFINE l == StampLine(prev)
<1>1. /\ at["builder"].pc = "stamp" /\ Go("builder", "return") /\ "builder" \in Procs
      /\ UNCHANGED prev /\ UNCHANGED world
  BY DEF PersistCheckpointStamp, Builder, Procs
<1>2. MovesTo("builder", {"return"})
  BY <1>1, GoMoves DEF BInv, Labels
<1>3. WorldKept
  BY <1>1, SameWorld DEF BInv
<1>4. prev \in CheckpointType /\ l \in Lines
  BY DEF BInv, TypeInv, CheckpointType, StampLine, StampLines, Lines
<1>5. LinesKept /\ Size' = Size + 1 /\ lines'[Size + 1] = l
  BY <1>4, AppendKeeps DEF BInv
<1>6. Size \in Nat /\ \A i \in 1..Size : lines[i] \in Lines
  BY SizeType DEF BInv
<1>7. \A i \in 1..Size' : i \in 1..Size \/ i = Size + 1
  <2>1. \A i \in 1..(Size + 1) : i \in 1..Size \/ i = Size + 1
    BY <1>6
  <2> QED
    BY <1>5, <2>1
<1>8. l.kind = "stamp" /\ l.size = prev.size /\ l.prev = prev.prev /\ l.wit = prev.wit
  BY DEF StampLine
<1>9. TypeInv'
  BY <1>1, <1>2, <1>3, <1>4, <1>5, TypeStep DEF BInv, MovesTo
<1>10. ConfirmedInv'
  <2>1. \A w \in prev.wit : prev.size \in accepted'[w]
    BY <1>1 DEF BInv, ConfirmedInv, world
  <2>2. \A i \in 1..Size' : i > Size => lines'[i] = l
    <3>1. \A i \in 1..Size' : i > Size => i = Size + 1
      BY <1>6, <1>7
    <3> QED
      BY <1>5, <3>1
  <2>3. \A i \in 1..Size' : i > Size => Truthful(i)'
    BY <1>8, <2>1, <2>2 DEF Truthful
  <2>4. \A q \in Procs : at'[q].pc = "backfill" => at'[q] = at[q]
    BY <1>2 DEF MovesTo
  <2> QED
    BY <1>1, <1>3, <1>5, <2>1, <2>3, <2>4, ConfirmedStep DEF BInv, WorldKept
<1>11. ChainInv'
  <2>1. Unstamped /\ ~Unstamped'
    BY <1>1, <1>2 DEF Unstamped, MovesTo
  <2>2. \A i \in Stamps(Size) : i \in 1..Size /\ lines[i].kind = "stamp" /\ lines'[i] = lines[i]
    BY <1>5 DEF Stamps, LinesKept
  <2>3. \A i \in Stamps(Size) : lines[i] \in StampLines
    BY <1>6, <2>2 DEF Lines, BackfillLines, Capsule
  <2>4. \A i \in Stamps(Size)' : i \in Stamps(Size) \/ i = Size + 1
    BY <1>5, <1>7 DEF Stamps, LinesKept
  <2>5. \A i \in Stamps(Size) : /\ lines[i].prev <= lines[i].size
                                /\ lines[i].size <= prev.prev /\ i <= prev.size
    BY <2>1 DEF BInv, ChainInv, MemoryContinues
  <2>6. /\ prev.prev <= prev.size /\ prev.size <= Size
        /\ prev.prev \in Nat /\ prev.size \in Nat
    BY <1>4 DEF BInv, ChainInv, MemoryContinues, CheckpointType
  <2>7. NextCoversStamp'
    <3> SUFFICES ASSUME NEW i \in Stamps(Size)', NEW j \in Stamps(Size)', i < j
                 PROVE  lines'[j].size >= i
      BY DEF NextCoversStamp
    <3>1. CASE j \in Stamps(Size)
      <4>1. i \in Stamps(Size)
        BY <1>6, <2>2, <2>4, <3>1
      <4> QED
        BY <2>2, <3>1, <4>1 DEF BInv, ChainInv, StampsChain, NextCoversStamp
    <3>2. CASE j = Size + 1
      <4>1. i \in Stamps(Size) /\ i \in 1..Size
        BY <1>6, <2>2, <2>4, <3>2
      <4>2. i <= prev.size /\ lines'[j].size = prev.size
        BY <1>5, <1>8, <2>5, <3>2, <4>1
      <4> QED
        BY <1>6, <2>6, <4>1, <4>2
    <3> QED
      BY <2>4, <3>1, <3>2
  <2>8. NeverChainsBack'
    <3> SUFFICES ASSUME NEW i \in Stamps(Size)', NEW j \in Stamps(Size)', i < j
                 PROVE  lines'[j].prev >= lines'[i].size
      BY DEF NeverChainsBack
    <3>1. CASE j \in Stamps(Size)
      <4>1. i \in Stamps(Size)
        BY <1>6, <2>2, <2>4, <3>1
      <4> QED
        BY <2>2, <3>1, <4>1 DEF BInv, ChainInv, StampsChain, NeverChainsBack
    <3>2. CASE j = Size + 1
      <4>1. i \in Stamps(Size)
        BY <1>6, <2>2, <2>4, <3>2
      <4>2. lines[i].size <= prev.prev /\ lines'[j].prev = prev.prev /\ lines'[i] = lines[i]
        BY <1>5, <1>8, <2>2, <2>5, <3>2, <4>1
      <4>3. lines[i].size \in Nat
        BY <2>3, <4>1 DEF StampLines
      <4> QED
        BY <2>6, <4>2, <4>3
    <3> QED
      BY <2>4, <3>1, <3>2
  <2>9. ASSUME NEW i \in Stamps(Size)'
        PROVE  lines'[i].prev <= lines'[i].size /\ lines'[i].size <= prev'.size
    <3>1. CASE i \in Stamps(Size)
      <4>1. lines[i].size \in Nat /\ lines[i].prev \in Nat /\ lines'[i] = lines[i]
        BY <2>2, <2>3, <3>1 DEF StampLines
      <4> QED
        BY <1>1, <2>5, <2>6, <3>1, <4>1
    <3>2. CASE i = Size + 1
      <4>1. lines'[i].prev = prev.prev /\ lines'[i].size = prev.size /\ prev'.size = prev.size
        BY <1>1, <1>5, <1>8, <3>2
      <4> QED
        BY <2>6, <4>1
    <3> QED
      BY <2>4, <3>1, <3>2
  <2>10. prev'.prev <= prev'.size /\ prev'.size <= Size'
    BY <1>1, <1>5, <1>6, <2>6
  <2> QED
    BY <2>1, <2>7, <2>8, <2>9, <2>10 DEF ChainInv, StampsChain, MemoryContinues
<1> QED
  BY <1>9, <1>10, <1>11 DEF BInv

\* The new process chains from the newest stamp, which is past all the others.
LEMMA RestartKeeps ==
    ASSUME BInv, Restart
    PROVE  BInv'
<1>1. /\ prev' = LastPersistedCheckpoint /\ at' = [p \in Procs |-> Idle]
      /\ UNCHANGED lines /\ UNCHANGED world
  BY DEF Restart
<1>2. LinesKept /\ Size' = Size /\ Size \in Nat
  BY <1>1, SameKeeps, SizeType DEF BInv
<1>3. WorldKept
  BY <1>1, SameWorld DEF BInv
<1>4. \A i \in 1..Size' : ~(i > Size)
  BY <1>2
<1>5. /\ at' \in [Procs -> Positions]
      /\ \A p \in Procs : at'[p].pc = "idle" /\ at'[p].snap <= Size
  BY <1>1, <1>2, IdleType
<1>6. ~Unstamped'
  BY <1>5 DEF Unstamped, Procs
<1>7. \A i \in Stamps(Size) : i \in 1..Size /\ lines[i] \in StampLines
  BY <1>2, SizeType DEF BInv, Stamps, Lines, BackfillLines, Capsule
<1>8. CASE Stamps(Size) = {}
  <2>1. prev' = NoCheckpoint
    BY <1>1, <1>8 DEF LastPersistedCheckpoint
  <2>2. prev' \in CheckpointType /\ prev'.wit = {} /\ prev'.size = 0 /\ prev'.prev = 0
    BY <2>1 DEF NoCheckpoint, CheckpointType
  <2>3. TypeInv'
    BY <1>2, <1>3, <1>5, <2>2, TypeStep DEF BInv
  <2>4. ConfirmedInv'
    BY <1>2, <1>3, <1>4, <1>5, <2>2, ConfirmedStep DEF BInv, WorldKept
  <2>5. Stamps(Size)' = {}
    BY <1>1, <1>2, <1>8 DEF Stamps
  <2>6. ChainInv'
    BY <1>2, <2>2, <2>5
       DEF ChainInv, StampsChain, NextCoversStamp, NeverChainsBack, MemoryContinues
  <2> QED
    BY <2>3, <2>4, <2>6 DEF BInv
<1>9. CASE Stamps(Size) # {}
  <2> DEFINE m == Max(Stamps(Size))
  <2>1. m \in Stamps(Size) /\ \A j \in Stamps(Size) : j <= m
    <3>1. Stamps(Size) \subseteq 1..Size
      BY <1>7
    <3> QED
      BY <1>2, <1>9, <3>1, MaxIs
  <2>2. m \in 1..Size /\ lines[m] \in StampLines
    BY <1>7, <2>1
  <2>3. prev' = Checkpoint(lines[m])
    BY <1>1, <1>9 DEF LastPersistedCheckpoint
  <2>4. /\ prev'.size = lines[m].size /\ prev'.prev = lines[m].prev
        /\ prev'.wit = lines[m].wit /\ prev' \in CheckpointType
    BY <2>2, <2>3 DEF Checkpoint, CheckpointType, StampLines
  <2>5. TypeInv'
    BY <1>2, <1>3, <1>5, <2>4, TypeStep DEF BInv
  <2>6. ConfirmedInv'
    <3>1. Truthful(m) /\ lines[m].kind = "stamp"
      BY <2>2 DEF BInv, ConfirmedInv, StampLines
    <3>2. \A w \in prev'.wit : prev'.size \in accepted'[w]
      BY <1>1, <2>4, <3>1 DEF Truthful, world
    <3> QED
      BY <1>2, <1>3, <1>4, <1>5, <3>2, ConfirmedStep DEF BInv, WorldKept
  <2>7. Stamps(Size)' = Stamps(Size)
    BY <1>1, <1>2 DEF Stamps
  <2>8. StampsChain'
    BY <1>1, <2>7 DEF BInv, ChainInv, StampsChain, NextCoversStamp, NeverChainsBack
  <2>9. \A i \in Stamps(Size) : lines[i].prev <= lines[i].size
    BY DEF BInv, ChainInv, MemoryContinues
  <2>10. lines[m].size \in Nat /\ lines[m].prev \in Nat
    BY <2>2 DEF StampLines
  <2>11. ASSUME NEW i \in Stamps(Size)
         PROVE  lines[i].size <= lines[m].size
    <3>1. lines[i].size \in Nat /\ i \in Nat /\ m \in Nat /\ i <= m
      BY <1>7, <2>1, <2>2 DEF StampLines
    <3>2. CASE i < m
      <4>1. lines[m].prev >= lines[i].size
        BY <2>1, <3>2 DEF BInv, ChainInv, StampsChain, NeverChainsBack
      <4> QED
        BY <2>1, <2>9, <2>10, <3>1, <4>1
    <3>3. CASE i = m
      BY <2>10, <3>3
    <3> QED
      BY <3>1, <3>2, <3>3
  <2>12. lines[m].size <= Size
    <3>1. IF Unstamped THEN lines[m].size <= prev.prev ELSE lines[m].size <= prev.size
      BY <2>1 DEF BInv, ChainInv, MemoryContinues
    <3>2. /\ prev.prev <= prev.size /\ prev.size <= Size
          /\ prev.prev \in Nat /\ prev.size \in Nat
      BY DEF BInv, ChainInv, MemoryContinues, TypeInv, CheckpointType
    <3> QED
      BY <1>2, <2>10, <3>1, <3>2
  <2>13. MemoryContinues'
    BY <1>1, <1>2, <1>6, <2>1, <2>4, <2>7, <2>9, <2>11, <2>12 DEF MemoryContinues
  <2> QED
    BY <2>5, <2>6, <2>8, <2>13 DEF BInv, ChainInv
<1> QED
  BY <1>8, <1>9

LEMMA InitHolds ==
    ASSUME Init
    PROVE  BInv
<1>1. Size = 0 /\ Stamps(Size) = {}
  BY DEF Init, Size, Stamps
<1>2. TypeInv
  BY <1>1, IdleType DEF Init, TypeInv, NoCheckpoint, CheckpointType
<1>3. ConfirmedInv
  BY <1>1, IdleType DEF Init, ConfirmedInv, NoCheckpoint
<1>4. ChainInv
  BY <1>1 DEF Init, ChainInv, StampsChain, NextCoversStamp, NeverChainsBack,
              MemoryContinues, NoCheckpoint
<1> QED
  BY <1>2, <1>3, <1>4 DEF BInv

LEMMA NextKeeps ==
    ASSUME BInv, [Next]_vars
    PROVE  BInv'
<1>1. CASE Seal
  BY <1>1, SealKeeps
<1>2. CASE Worker \/ RequireWitness
  BY <1>2, BeginKeeps DEF Worker, RequireWitness, CycleBegins, Procs, world
<1>3. CASE Build
  BY <1>3, BuildKeeps
<1>4. CASE BuildFails
  BY <1>4, BuilderDropsKeeps DEF BuildFails, world
<1>5. CASE RegisterAccepted
  BY <1>5, RegisterAcceptedKeeps
<1>6. CASE RegisterFails
  BY <1>6, RegisterFailsKeeps
<1>7. CASE PersistCheckpointStamp
  <2>1. CASE lines' = Append(lines, StampLine(prev))
    BY <1>7, <2>1, StampKeeps
  <2>2. CASE UNCHANGED lines
    BY <1>7, <2>2, BuilderDropsKeeps DEF PersistCheckpointStamp, world
  <2> QED
    BY <1>7, <2>1, <2>2 DEF PersistCheckpointStamp
<1>8. CASE Return
  BY <1>8, ReturnKeeps
<1>9. CASE DrainCall
  BY <1>9, BeginKeeps DEF DrainCall, Procs, world
<1>10. CASE \E p \in Procs : Drain(p)
  BY <1>10, DrainEmptyKeeps, DrainAcceptedKeeps, DrainNoAnswerKeeps,
     DrainSkipsKeeps, BackfillKeeps DEF Drain
<1>11. CASE Restart
  BY <1>11, RestartKeeps
<1>12. CASE UNCHANGED vars
  BY <1>12, StutterKeeps DEF vars, world
<1> QED
  BY <1>1, <1>2, <1>3, <1>4, <1>5, <1>6, <1>7, <1>8, <1>9, <1>10, <1>11, <1>12
     DEF Next, BuildAndRegister

LEMMA Inductive == Spec => []BInv
<1>1. Init => BInv
  BY InitHolds
<1>2. BInv /\ [Next]_vars => BInv'
  BY NextKeeps
<1> QED
  BY <1>1, <1>2, PTL DEF Spec

\* The module docstring's "never shown as witnessed before a stamp genuinely
\* arrives": whatever fails, whoever drains and whenever the process dies, a
\* witness that a stamp or a backfill names has accepted that checkpoint.
THEOREM ConfirmationsAreTrue == Spec => []ConfirmedWasAccepted
<1>1. BInv => ConfirmedWasAccepted
  <2> SUFFICES ASSUME BInv, NEW i \in Stamps(Size), NEW w \in EffectiveWitnesses(i, Size)
               PROVE  lines[i].size \in accepted[w]
    BY DEF ConfirmedWasAccepted
  <2>1. i \in 1..Size /\ lines[i].kind = "stamp"
    BY DEF Stamps
  <2>2. CASE w \in lines[i].wit
    BY <2>1, <2>2 DEF BInv, ConfirmedInv, Truthful
  <2>3. CASE w \notin lines[i].wit
    <3>1. PICK k \in 1..Size : /\ lines[k].kind = "backfill" /\ lines[k].url = w
                               /\ lines[k].stamp = lines[i].size
      BY <2>3 DEF EffectiveWitnesses
    <3> QED
      BY <3>1 DEF BInv, ConfirmedInv, Truthful
  <2> QED
    BY <2>2, <2>3
<1> QED
  BY <1>1, Inductive, PTL

\* "Checkpoint N's stamp is covered by checkpoint N+1", and a restarted process
\* does not chain back behind a stamp: the stamps on record are one chain,
\* also across failed builds, failed appends and crashes.
THEOREM StampsAreOneChain == Spec => []StampsChain
<1>1. BInv => StampsChain
  BY DEF BInv, ChainInv
<1> QED
  BY <1>1, Inductive, PTL

=============================================================================
