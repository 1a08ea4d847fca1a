----------------------------- MODULE RustProofs -----------------------------
(***************************************************************************)
(* Proofs about RustNode, for any number of runners, witnesses, faults and *)
(* records, any bucket and any cadence.                                    *)
(*                                                                         *)
(* The writer (WriterInv): a line it is to write names the head it knows,  *)
(* has its body on disk and is not padding, so whichever way a write or an *)
(* append_padding() ends, the lines that are there can be replayed and its *)
(* head and count are still theirs.                                        *)
(*                                                                         *)
(* The runners (RunInv): what a call folded stays a prefix of the ledger,  *)
(* because lines are only added while somebody runs (Extends), and what it *)
(* prepared is of what it folded, ends where padding ended and holds the   *)
(* pushed record (PreparedOk).  A commit names, on a CLL backend, the last *)
(* cut, by the compare-and-set; in the flat layout, where the writer is    *)
(* the one runner there is (NodesAssumption), the last line whose write is *)
(* known to have succeeded, or one behind it (Heads).                      *)
(*                                                                         *)
(* Witnesses (WitnessesOk): the tip of a witness is a root it accepted, or *)
(* another log's under the same id.                                        *)
(*                                                                         *)
(* Rows (RowForward): a row leaves "open" once, and until then each answer *)
(* that is recorded adds an attempt, whoever recorded it.  So an answer    *)
(* in hand (AnswerOk) whose row still has the attempts it was asked with   *)
(* is of an open row, and what it says is closed was accepted.             *)
(*                                                                         *)
(* Queues (Accounted): a runner at the latest checkpoint has each cut in   *)
(* the queue of each witness it is configured with, unless the witness     *)
(* has no row for it, or a later or equal cut of that witness is closed.   *)
(* A load lists what undelivered() finds, in order (InOrder, Ordered).     *)
(*                                                                         *)
(* A step of one runner carries all of this for the others                 *)
(* (DeliversCarries): a row goes forward and a commit moves Latest, so     *)
(* that only the runner that committed is held to it.                      *)
(***************************************************************************)
EXTENDS RustNode, SequenceTheorems, FiniteSetTheorems, WellFoundedInduction, TLAPS

LineSet == [id : Nat, parent : Nat, pad : BOOLEAN]
CutSet == [leaves : Seq(Nat), prev : Seq(Nat), padded : BOOLEAN,
           how : {"written", "unheard", "torn", "glued"}]
Labels == {"absent", "off", "idle", "pad", "fold", "offer", "commit", "send", "record"}
Out == {"off", "absent"}

\* A record with the fields of a checkpoint state.
Fields == {"at", "urls", "known", "mem", "last", "seen", "pending", "deferred", "queue",
           "register", "push", "goal", "prep", "given", "todo", "answer", "caught"}
IsState(x) == x = [f \in Fields |-> x[f]]

LedgerType ==
    /\ layout \in {"flat", "stores"} /\ bucket \in Nat
    /\ file \in Seq(LineSet)
    /\ torn \in BOOLEAN /\ misled \in BOOLEAN
    /\ sealed \in Nat
    /\ \/ led = Closed
       \/ led \in [open : {TRUE}, head : Nat, count : Nat, writing : LineSet]

\* What the writer knows of its file, and the line it is to write.
WriterInv ==
    /\ ReopenFindsTheChain
    /\ ~misled /\ led.open => ~torn
    /\ layout = "stores" => ~torn
    /\ led.open /\ led.writing # Free =>
          /\ led.writing.id \in bodies /\ led.writing.id # 0
          /\ led.writing.parent = led.head /\ ~led.writing.pad

\* What r is about to commit.
PreparedOk(r, x) ==
    /\ IsStrictPrefix(x.last, x.prep)
    /\ IsPrefix(x.prep, x.mem)
    /\ HasSink(r) => Len(x.prep) % bucket = 0
    /\ x.push # 0 /\ ~misled => x.push \in ToSet(x.prep)

\* What a cut may name: behind it, no write is known to have succeeded.
Heads(root) ==
    \E j \in 0 .. Len(cuts) :
        /\ root = IF j = 0 THEN <<>> ELSE cuts[j].leaves
        /\ \A i \in j + 1 .. Len(cuts) : cuts[i].how # "written"

\* What the call of r has in hand is of the lines it folded.
StateOk(r, x) ==
    /\ IsState(x)
    /\ x.at \in Labels
    /\ x.mem \in Seq(Nat) /\ x.last \in Seq(Nat) /\ x.prep \in Seq(Nat)
    /\ x.push \in Nat /\ x.goal \in Nat
    /\ layout = "flat" /\ r # Writer => x.at = "absent"
    /\ x.at \notin Out => IsPrefix(x.mem, Ids(file))
    /\ layout = "flat" /\ x.at \notin Out => Heads(x.last)
    /\ x.at \notin {"offer", "commit"} => x.prep = <<>>
    /\ x.at = "pad" => HasSink(r) /\ (x.push # 0 => x.push \in ToSet(x.mem))
    /\ x.at = "fold" =>
          /\ HasSink(r) /\ x.goal % bucket = 0
          /\ x.push # 0 => x.push \in ToSet(x.mem)
          /\ ~misled => Len(x.mem) <= x.goal
    /\ x.at = "commit" => x.prep # <<>>
    /\ x.prep # <<>> => PreparedOk(r, x)

CutsInv == /\ cuts \in Seq(CutSet) /\ CutsChain
           /\ layout = "stores" => \A k \in DOMAIN cuts : cuts[k].how = "written"

RunInv == /\ run = [r \in Runners |-> run[r]]
          /\ \A r \in Runners : StateOk(r, run[r])

RInv == LedgerType /\ WriterInv /\ CutsInv /\ stored \in Seq(Nat) /\ RunInv

-----------------------------------------------------------------------------
(* Records.                                                                 *)

\* y is x but for what no theorem here is about, and for where the call is.
Alike(x, y) == /\ IsState(y)
               /\ y.mem = x.mem /\ y.last = x.last /\ y.prep = x.prep
               /\ y.push = x.push /\ y.goal = x.goal

\* y is x with nothing in hand.
Rested(x, y) == /\ IsState(y)
                /\ y.mem = x.mem /\ y.last = x.last /\ y.prep = <<>>
                /\ y.push = 0 /\ y.goal = 0

LEMMA IdleIs ==
    ASSUME NEW x, IsState(x)
    PROVE  Rested(x, Idle(x)) /\ Idle(x).at = "idle"
  BY DEF IsState, Idle, Rested, Fields

LEMMA OffIs == IsState(Off) /\ Off.at = "off" /\ Off.mem = <<>> /\ Off.last = <<>> /\ Off.prep = <<>>
               /\ Off.push = 0 /\ Off.goal = 0
  BY DEF IsState, Off, Fields

LEMMA LoadedIs ==
    ASSUME NEW urls, NEW leaves
    PROVE  LET y == Loaded(urls, leaves)
           IN /\ IsState(y) /\ y.at = "idle"
              /\ y.mem = leaves /\ y.last = Latest /\ y.prep = <<>> /\ y.push = 0 /\ y.goal = 0
  BY DEF IsState, Loaded, Off, Fields

LEMMA FoldedIs ==
    ASSUME NEW x, IsState(x)
    PROVE  LET y == Folded(x)
           IN /\ IsState(y) /\ y.at = x.at /\ y.mem = Folding(x.mem) /\ y.last = x.last
              /\ y.prep = x.prep /\ y.push = x.push /\ y.goal = x.goal
  BY DEF IsState, Folded, Fields

LEMMA PopsIs ==
    ASSUME NEW x, IsState(x), NEW w
    PROVE  Alike(x, Pops(x, w)) /\ Pops(x, w).at = x.at
<1>1. PICK v : Pops(x, w) = [x EXCEPT !.queue = v]
  BY DEF Pops
<1> QED BY <1>1 DEF IsState, Alike, Fields

\* The calls of a runner that leave what it folded and committed alone.
Resting(x, y) == /\ IsState(y) /\ y.at \in {"idle", "send", "record", "offer"}
                 /\ y.mem = x.mem /\ y.last = x.last /\ y.prep = <<>>
                 /\ y.push \in Nat /\ y.goal \in Nat

LEMMA LeavesIs ==
    ASSUME NEW x, IsState(x), x.prep = <<>>, x.push \in Nat, x.goal \in Nat
    PROVE  Resting(x, Leaves(x))
<1>1. CASE Len(x.todo) = 1
  BY <1>1, IdleIs DEF Leaves, Rested, Resting
<1>2. CASE Len(x.todo) # 1
  BY <1>2 DEF Leaves, IsState, Resting, Fields
<1> QED BY <1>1, <1>2

LEMMA TickIs ==
    ASSUME NEW x, IsState(x), x.prep = <<>>, x.push \in Nat, x.goal \in Nat
    PROVE  /\ Resting(x, RetriesPending(x))
           /\ Resting(x, RetriesPending(OffersDeferred(x)))
           /\ Resting(x, Delivers(x))
<1>1. ASSUME NEW z, IsState(z), z.prep = <<>>, z.push \in Nat, z.goal \in Nat
      PROVE  Resting(z, RetriesPending(z))
  <2> DEFINE ks == InOrder({k \in DOMAIN z.urls : z.urls[k] \in z.pending})
  <2>1. CASE z.last = <<>> \/ ks = <<>>
    BY <1>1, <2>1, IdleIs DEF RetriesPending, Rested, Resting
  <2>2. CASE ~(z.last = <<>> \/ ks = <<>>)
    <3>1. PICK v : RetriesPending(z) = [z EXCEPT !.at = "offer", !.pending = {}, !.todo = v]
      BY <2>2 DEF RetriesPending
    <3> QED BY <1>1, <3>1 DEF IsState, Resting, Fields
  <2> QED BY <2>1, <2>2
<1>2. PICK v : OffersDeferred(x) = [x EXCEPT !.deferred = FALSE, !.pending = v]
  BY DEF OffersDeferred
<1>3. Alike(x, OffersDeferred(x))
  BY <1>2 DEF IsState, Alike, Fields
<1>4. Resting(x, Delivers(x))
  BY DEF Delivers, IsState, Resting, Fields
<1> QED BY <1>1, <1>3, <1>4 DEF Alike, Resting

-----------------------------------------------------------------------------
(* Sequences.                                                               *)

\* A prefix, element by element.
LEMMA PrefixElts ==
    ASSUME NEW s \in Seq(Nat), NEW t \in Seq(Nat)
    PROVE  IsPrefix(s, t) <=> Len(s) <= Len(t) /\ \A i \in 1 .. Len(s) : s[i] = t[i]
<1>1. ASSUME Len(s) <= Len(t), \A i \in 1 .. Len(s) : s[i] = t[i] PROVE IsPrefix(s, t)
  BY <1>1 DEF IsPrefix
<1>2. ASSUME IsPrefix(s, t) PROVE Len(s) <= Len(t) /\ \A i \in 1 .. Len(s) : s[i] = t[i]
  <2>1. Len(s) <= Len(t) /\ SubSeq(s, 1, Len(s)) = SubSeq(t, 1, Len(s))
    BY <1>2 DEF IsPrefix
  <2>2. ASSUME NEW i \in 1 .. Len(s) PROVE s[i] = t[i]
    <3>1. SubSeq(s, 1, Len(s))[i] = s[i] /\ SubSeq(t, 1, Len(s))[i] = t[i]
      BY <2>1
    <3> QED BY <2>1, <3>1
  <2> QED BY <2>1, <2>2
<1> QED BY <1>1, <1>2

LEMMA PrefixTrans ==
    ASSUME NEW s \in Seq(Nat), NEW t \in Seq(Nat), NEW u \in Seq(Nat),
           IsPrefix(s, t), IsPrefix(t, u)
    PROVE  IsPrefix(s, u)
  BY PrefixElts

LEMMA FirstOf ==
    ASSUME NEW s \in Seq(Nat), NEW n \in 0 .. Len(s)
    PROVE  /\ SubSeq(s, 1, n) \in Seq(Nat) /\ Len(SubSeq(s, 1, n)) = n
           /\ \A i \in 1 .. n : SubSeq(s, 1, n)[i] = s[i]
<1>1. \A i \in 1 .. n : s[i] \in Nat
  OBVIOUS
<1> QED BY <1>1, SubSeqProperties

LEMMA FirstIsPrefix ==
    ASSUME NEW s \in Seq(Nat), NEW n \in 0 .. Len(s)
    PROVE  IsPrefix(SubSeq(s, 1, n), s)
<1> DEFINE u == SubSeq(s, 1, n)
<1>1. u \in Seq(Nat) /\ Len(u) = n /\ \A i \in 1 .. n : u[i] = s[i]
  BY FirstOf
<1> HIDE DEF u
<1>2. IsPrefix(u, s)
  BY <1>1, PrefixElts
<1> QED BY <1>2 DEF u

\* A shorter prefix of the same sequence is a prefix of the longer one.
LEMMA PrefixOfLonger ==
    ASSUME NEW s \in Seq(Nat), NEW t \in Seq(Nat), NEW n \in 0 .. Len(t),
           IsPrefix(s, t), n > Len(s)
    PROVE  IsStrictPrefix(s, SubSeq(t, 1, n))
<1> DEFINE u == SubSeq(t, 1, n)
<1>1. u \in Seq(Nat) /\ Len(u) = n /\ \A i \in 1 .. n : u[i] = t[i]
  BY FirstOf
<1> HIDE DEF u
<1>2. Len(s) <= Len(t) /\ \A i \in 1 .. Len(s) : s[i] = t[i]
  BY PrefixElts
<1>3. \A i \in 1 .. Len(s) : s[i] = u[i]
  BY <1>1, <1>2
<1>4. IsPrefix(s, u) /\ s # u
  BY <1>1, <1>3, PrefixElts
<1> QED BY <1>4 DEF u, IsStrictPrefix

\* Folding what is missing of t makes it t.
LEMMA FoldsToWhole ==
    ASSUME NEW s \in Seq(Nat), NEW t \in Seq(Nat), IsPrefix(s, t)
    PROVE  s \o SubSeq(t, Len(s) + 1, Len(t)) = t
<1>1. Len(s) \in Nat /\ Len(t) \in Nat /\ Len(s) <= Len(t) /\ \A i \in 1 .. Len(s) : s[i] = t[i]
  BY PrefixElts
<1> DEFINE u == SubSeq(t, Len(s) + 1, Len(t))
<1>2. u \in Seq(Nat) /\ Len(u) = Len(t) - Len(s)
      /\ \A i \in 1 .. Len(u) : u[i] = t[Len(s) + i]
  BY <1>1
<1> HIDE DEF u
<1>3. s \o u \in Seq(Nat) /\ Len(s \o u) = Len(t)
  BY <1>1, <1>2
<1>4. ASSUME NEW i \in 1 .. Len(t) PROVE (s \o u)[i] = t[i]
  <2>1. CASE i <= Len(s)
    BY <1>1, <1>2, <2>1
  <2>2. CASE ~(i <= Len(s))
    <3>1. i - Len(s) \in 1 .. Len(u) /\ Len(s) + (i - Len(s)) = i
      BY <1>1, <1>2, <2>2
    <3>2. (s \o u)[i] = u[i - Len(s)]
      BY <1>1, <1>2, <2>2
    <3>3. u[i - Len(s)] = t[Len(s) + (i - Len(s))]
      BY <1>2, <3>1
    <3> QED BY <3>1, <3>2, <3>3, Zenon
  <2> QED BY <2>1, <2>2, Zenon
<1>5. s \o u = t
  BY <1>3, <1>4, SeqEqual
<1> QED BY <1>5 DEF u

LEMMA IdsType ==
    ASSUME NEW lines \in Seq(LineSet)
    PROVE  /\ Ids(lines) \in Seq(Nat) /\ Len(Ids(lines)) = Len(lines)
           /\ \A k \in 1 .. Len(lines) : Ids(lines)[k] = lines[k].id
<1>1. ASSUME NEW k \in 1 .. Len(lines) PROVE lines[k].id \in Nat
  <2>1. lines[k] \in LineSet
    OBVIOUS
  <2> QED BY <2>1 DEF LineSet
<1>2. DOMAIN lines = 1 .. Len(lines) /\ Len(lines) \in Nat
  OBVIOUS
<1> QED BY <1>1, <1>2 DEF Ids

\* Lines that are there stay where they are when more are written.
Extends(lines, more) ==
    /\ Len(lines) <= Len(more)
    /\ \A k \in 1 .. Len(lines) : more[k] = lines[k]

LEMMA IdsGrow ==
    ASSUME NEW lines \in Seq(LineSet), NEW more \in Seq(LineSet), Extends(lines, more)
    PROVE  IsPrefix(Ids(lines), Ids(more))
<1>1. Ids(lines) \in Seq(Nat) /\ Ids(more) \in Seq(Nat)
  BY IdsType
<1>2. Len(Ids(lines)) <= Len(Ids(more))
  BY IdsType DEF Extends
<1>3. ASSUME NEW k \in 1 .. Len(Ids(lines)) PROVE Ids(lines)[k] = Ids(more)[k]
  <2>1. k \in 1 .. Len(lines) /\ k \in 1 .. Len(more)
    BY <1>2, IdsType
  <2> QED BY <2>1, IdsType DEF Extends
<1> QED BY <1>1, <1>2, <1>3, PrefixElts

LEMMA AppendExtends ==
    ASSUME NEW lines \in Seq(LineSet), NEW l \in LineSet
    PROVE  /\ Append(lines, l) \in Seq(LineSet) /\ Len(Append(lines, l)) = Len(lines) + 1
           /\ Append(lines, l)[Len(lines) + 1] = l
           /\ Extends(lines, Append(lines, l))
  BY DEF Extends

-----------------------------------------------------------------------------
(* The chain of the lines.                                                  *)

\* A set of numbers up to n has a largest one.
LEMMA MaxIsIn ==
    ASSUME NEW n \in Nat, NEW S \in SUBSET (1 .. n), S # {}
    PROVE  Max(S) \in S /\ \A y \in S : Max(S) >= y
<1> DEFINE From == {d \in Nat : \E m \in S : d = n - m}
           R == {p \in Nat \X Nat : p[1] < p[2]}
<1>1. ASSUME NEW m \in S PROVE n - m \in From
  <2>1. n - m \in Nat
    OBVIOUS
  <2> QED BY <2>1
<1>2. From # {} /\ From \subseteq Nat
  BY <1>1
<1>3. IsWellFoundedOn(R, Nat)
  BY NatLessThanWellFounded DEF OpToRel
<1>4. PICK d \in From : \A e \in From : ~(<<e, d>> \in R)
  BY <1>2, <1>3, WFMin
<1>5. PICK top \in S : d = n - top
  OBVIOUS
<1>6. ASSUME NEW y \in S PROVE top >= y
  <2>1. n - y \in From /\ ~(<<n - y, d>> \in R)
    BY <1>1, <1>4
  <2>2. n - y \in Nat /\ d \in Nat
    BY <1>2, <2>1
  <2>3. ~(n - y < d)
    BY <2>1, <2>2
  <2> HIDE DEF From, R
  <2> QED BY <1>5, <2>3
<1>7. \E x \in S : \A y \in S : x >= y
  BY <1>6
<1> HIDE DEF From
<1> QED BY <1>7 DEF Max

Real(lines, k) == {j \in 1 .. k - 1 : ~lines[j].pad}

\* The head is that of the lines so far, whatever is written behind them ...
LEMMA HeadIsLocal ==
    ASSUME NEW lines \in Seq(LineSet), NEW more \in Seq(LineSet), Extends(lines, more),
           NEW k \in 1 .. Len(lines) + 1
    PROVE  HeadBefore(more, k) = HeadBefore(lines, k)
<1>1. k - 1 \in Nat /\ \A j \in 1 .. k - 1 : more[j] = lines[j]
  BY DEF Extends
<1>2. Real(more, k) = Real(lines, k) /\ Real(lines, k) \in SUBSET (1 .. k - 1)
  BY <1>1 DEF Real
<1>3. CASE Real(lines, k) = {}
  BY <1>2, <1>3 DEF HeadBefore, Real
<1>4. CASE Real(lines, k) # {}
  <2>1. Max(Real(lines, k)) \in 1 .. k - 1
    BY <1>1, <1>2, <1>4, MaxIsIn
  <2>2. more[Max(Real(lines, k))] = lines[Max(Real(lines, k))]
    BY <1>1, <2>1
  <2> QED BY <1>2, <1>4, <2>2 DEF HeadBefore, Real
<1> QED BY <1>3, <1>4

\* ... and padding does not move it ...
LEMMA HeadPassesPads ==
    ASSUME NEW lines \in Seq(LineSet), NEW more \in Seq(LineSet), Extends(lines, more),
           NEW k \in Len(lines) + 1 .. Len(more) + 1,
           \A j \in Len(lines) + 1 .. k - 1 : more[j].pad
    PROVE  HeadBefore(more, k) = HeadBefore(lines, Len(lines) + 1)
<1> DEFINE n == Len(lines) + 1
<1>1. n \in 1 .. k /\ n - 1 = Len(lines) /\ k \in Nat
  OBVIOUS
<1>2. Real(more, k) = Real(more, n)
  <2>1. ASSUME NEW j \in 1 .. k - 1, ~more[j].pad PROVE j \in 1 .. n - 1
    BY <1>1, <2>1
  <2>2. 1 .. n - 1 \subseteq 1 .. k - 1
    BY <1>1
  <2> QED BY <2>1, <2>2 DEF Real
<1>3. HeadBefore(more, k) = HeadBefore(more, n)
  BY <1>2 DEF HeadBefore, Real
<1> QED BY <1>1, <1>3, HeadIsLocal

\* ... and a chained line is the next head.
LEMMA HeadIsLast ==
    ASSUME NEW lines \in Seq(LineSet), NEW k \in 1 .. Len(lines), ~lines[k].pad
    PROVE  HeadBefore(lines, k + 1) = lines[k].id
<1>1. k \in Nat /\ (k + 1) - 1 = k
  OBVIOUS
<1>2. k \in Real(lines, k + 1) /\ Real(lines, k + 1) \in SUBSET (1 .. k)
  BY <1>1 DEF Real
<1>3. Max(Real(lines, k + 1)) \in 1 .. k /\ Max(Real(lines, k + 1)) >= k
  BY <1>1, <1>2, MaxIsIn
<1>4. Max(Real(lines, k + 1)) = k
  BY <1>1, <1>3
<1> QED BY <1>2, <1>4 DEF HeadBefore, Real

\* What replaying with these bodies admits.
AdmittedBy(lines, B) ==
    \A k \in DOMAIN lines :
        /\ lines[k] # Glued
        /\ lines[k].pad \/ lines[k].parent = HeadBefore(lines, k)
        /\ lines[k].id \in B

\* Lines that are admitted stay so behind more bodies and more lines, if these
\* are in order themselves.
LEMMA AdmittedGrows ==
    ASSUME NEW lines \in Seq(LineSet), NEW more \in Seq(LineSet), Extends(lines, more),
           NEW B, NEW C, B \subseteq C, AdmittedBy(lines, B),
           \A k \in Len(lines) + 1 .. Len(more) :
               /\ more[k] # Glued
               /\ more[k].pad \/ more[k].parent = HeadBefore(more, k)
               /\ more[k].id \in C
    PROVE  AdmittedBy(more, C)
<1> SUFFICES ASSUME NEW k \in 1 .. Len(more)
             PROVE  /\ more[k] # Glued
                    /\ more[k].pad \/ more[k].parent = HeadBefore(more, k)
                    /\ more[k].id \in C
  BY DEF AdmittedBy
<1>1. CASE k <= Len(lines)
  <2>1. k \in 1 .. Len(lines) /\ k \in DOMAIN lines /\ k \in 1 .. Len(lines) + 1
    BY <1>1
  <2>2. more[k] = lines[k]
    BY <2>1 DEF Extends
  <2>3. HeadBefore(more, k) = HeadBefore(lines, k)
    BY <2>1, HeadIsLocal
  <2> QED BY <2>1, <2>2, <2>3 DEF AdmittedBy
<1>2. CASE ~(k <= Len(lines))
  <2>1. k \in Len(lines) + 1 .. Len(more)
    BY <1>2
  <2> QED BY <2>1
<1> QED BY <1>1, <1>2

\* The first lines of an admitted file are admitted.
LEMMA AdmittedFirst ==
    ASSUME NEW lines \in Seq(LineSet), NEW kept \in Seq(LineSet), Extends(kept, lines),
           NEW B, AdmittedBy(lines, B)
    PROVE  AdmittedBy(kept, B)
<1> SUFFICES ASSUME NEW k \in 1 .. Len(kept)
             PROVE  /\ kept[k] # Glued
                    /\ kept[k].pad \/ kept[k].parent = HeadBefore(kept, k)
                    /\ kept[k].id \in B
  BY DEF AdmittedBy
<1>1. k \in DOMAIN lines /\ lines[k] = kept[k] /\ k \in 1 .. Len(kept) + 1
  BY DEF Extends
<1>2. HeadBefore(lines, k) = HeadBefore(kept, k)
  BY <1>1, HeadIsLocal
<1> QED BY <1>1, <1>2 DEF AdmittedBy

-----------------------------------------------------------------------------
(* Buckets.                                                                 *)

LEMMA MultipleIsLarge ==
    ASSUME NEW b \in Nat, b > 0, NEW q \in Int, NEW r \in Int, b * q = r, r > 0 PROVE r >= b
<1>1. q >= 1
  OBVIOUS
<1> QED BY <1>1
LEMMA MultipleIsWhole ==
    ASSUME NEW b \in Nat, b > 0, NEW q \in Nat
 PROVE (b * q) % b = 0
<1> DEFINE r == (b * q) % b
      d == (b*q) \div b
<1>1. r \in 0 .. b-1 /\ b * q = b * d + r /\ d \in Int
  OBVIOUS
<1> HIDE DEF r, d
<1>2. b * (q - d) = r
  BY <1>1
<1> QED BY <1>1, <1>2, MultipleIsLarge DEF r
LEMMA PadsToTheBoundary ==
    ASSUME NEW b \in Nat, b > 0, NEW c \in Nat
 PROVE Missing(b, c) \in Nat /\ (c + Missing(b,c)) % b = 0
<1> DEFINE m == c % b
           q == c \div b
<1>1. m \in 0 .. b - 1 /\ c = b * q + m /\ q \in Nat
  OBVIOUS
<1> HIDE DEF m, q
<1>2. CASE m = 0
  <2>1. b % b = 0
    <3>1. b = b * 1 
      OBVIOUS
    <3> QED BY MultipleIsWhole, <3>1
  <2>2. Missing(b,c) = 0
    BY <1>1, <1>2, <2>1 DEF Missing, m
  <2> QED BY <1>2, <2>2 DEF m
<1>3. CASE m # 0
  <2>1. b - m \in 1 .. b - 1
    BY <1>1, <1>3
  <2>2. (b - m) % b = b - m
    BY <2>1
  <2>3. Missing(b, c) = b - m
    BY <2>2 DEF Missing, m
  <2>4. c + (b - m) = b * (q + 1)
    BY <1>1
  <2> QED BY <1>1, <2>1, <2>3, <2>4, MultipleIsWhole
<1> QED BY <1>1, <1>2, <1>3

-----------------------------------------------------------------------------
(* The writer.                                                              *)

LEMMA AdmittedIs == ASSUME NEW lines PROVE Admitted(lines) <=> AdmittedBy(lines, bodies)
  BY DEF Admitted, AdmittedBy

LedgerInv == LedgerType /\ WriterInv

\* What a step of the ledger does to the lines.
Wrote == LedgerInv' /\ Extends(file, file')

LEMMA LineIs == ASSUME NEW i \in Nat, NEW p \in Nat, NEW b \in BOOLEAN
                PROVE  Line(i, p, b) \in LineSet /\ Free \in LineSet /\ Glued \in LineSet
  BY DEF Line, LineSet, Free, Glued

LEMMA OpenLed ==
    ASSUME LedgerType, led.open
    PROVE  led \in [open : {TRUE}, head : Nat, count : Nat, writing : LineSet]
<1>1. Closed.open = FALSE
  BY DEF Closed
<1>2. led # Closed
  BY <1>1
<1> QED BY <1>2 DEF LedgerType

LEMMA NothingExtends == ASSUME NEW lines \in Seq(LineSet) PROVE Extends(lines, lines)
  BY DEF Extends

LEMMA WrittenIs ==
    ASSUME LedgerType, NEW l \in LineSet, Written(l)
    PROVE  /\ file' \in Seq(LineSet) /\ Extends(file, file') /\ torn' = FALSE
           /\ ~torn => file' = Append(file, l)
<1>1. Glued \in LineSet
  BY LineIs DEF Glued, Free, LineSet
<1>2. file \in Seq(LineSet)
  BY DEF LedgerType
<1> QED BY <1>1, <1>2, AppendExtends DEF Written

\* The line in hand is in order behind the file.
LEMMA LineIsAdmitted ==
    ASSUME LedgerInv, ~misled, led.open, led.writing # Free, file' = Append(file, led.writing)
    PROVE  /\ AdmittedBy(file', bodies)
           /\ HeadBefore(file', Len(file') + 1) = led.writing.id
           /\ Len(file') = Len(file) + 1
<1> DEFINE n == Len(file) + 1
<1>1. /\ led.writing \in LineSet /\ file \in Seq(LineSet)
  BY OpenLed DEF LedgerInv, LedgerType
<1>2. /\ file' \in Seq(LineSet) /\ Len(file') = n /\ file'[n] = led.writing /\ Extends(file, file')
  BY <1>1, AppendExtends
<1>3. /\ AdmittedBy(file, bodies) /\ led.head = HeadBefore(file, n)
      /\ led.writing.parent = led.head /\ led.writing.id \in bodies /\ led.writing.id # 0
      /\ ~led.writing.pad
  BY AdmittedIs DEF LedgerInv, WriterInv, ReopenFindsTheChain
<1>4. HeadBefore(file', n) = HeadBefore(file, n)
  <2>1. n \in 1 .. Len(file) + 1
    BY <1>1
  <2> HIDE DEF n
  <2> QED BY <1>1, <1>2, <2>1, HeadIsLocal
<1>5. led.writing # Glued
  BY <1>3 DEF Glued, Free
<1>6. \A k \in Len(file) + 1 .. Len(file') : k = n
  BY <1>1, <1>2
<1>7. AdmittedBy(file', bodies)
  BY <1>1, <1>2, <1>3, <1>4, <1>5, <1>6, AdmittedGrows
<1>8. HeadBefore(file', n + 1) = file'[n].id
  <2>1. n \in 1 .. Len(file') /\ ~file'[n].pad
    BY <1>1, <1>2, <1>3
  <2> HIDE DEF n
  <2> QED BY <1>2, <2>1, HeadIsLast
<1> QED BY <1>2, <1>7, <1>8

LEMMA HeadIsNat ==
    ASSUME NEW lines \in Seq(LineSet), NEW n \in 0 .. Len(lines)
    PROVE  HeadBefore(lines, n + 1) \in Nat
<1>1. CASE Real(lines, n + 1) = {}
  BY <1>1 DEF HeadBefore, Real
<1>2. CASE Real(lines, n + 1) # {}
  <2>1. Real(lines, n + 1) \in SUBSET (1 .. n) /\ n \in Nat
    BY DEF Real
  <2>2. Max(Real(lines, n + 1)) \in 1 .. n
    BY <1>2, <2>1, MaxIsIn
  <2>3. Max(Real(lines, n + 1)) \in 1 .. Len(lines)
    BY <2>1, <2>2
  <2>4. lines[Max(Real(lines, n + 1))] \in LineSet
    BY <2>3
  <2> QED BY <1>2, <2>4 DEF HeadBefore, Real, LineSet
<1> QED BY <1>1, <1>2

LEMMA OpenKeeps ==
    ASSUME LedgerInv, OpenFlat \/ OpenStores, UNCHANGED bucket
    PROVE  Wrote
<1>1. file \in Seq(LineSet) /\ file' = file /\ bodies' = bodies /\ misled' = misled
      /\ ~led.open /\ UNCHANGED <<layout, sealed>>
  BY DEF OpenFlat, OpenStores, LedgerInv, LedgerType
<1>2. led' = Opened(HeadBefore(file, Len(file) + 1), Len(file)) /\ Admitted(file)
  BY DEF OpenFlat, OpenStores
<1>3. torn' = FALSE
  BY DEF OpenFlat, OpenStores, LedgerInv, LedgerType, WriterInv
<1>4. HeadBefore(file, Len(file) + 1) \in Nat
  <2>1. Len(file) \in 0 .. Len(file)
    BY <1>1
  <2> QED BY <1>1, <2>1, HeadIsNat
<1>5. led' \in [open : {TRUE}, head : Nat, count : Nat, writing : LineSet]
  BY <1>1, <1>2, <1>4, LineIs DEF Opened, Free, LineSet
<1>6. LedgerType'
  BY <1>1, <1>3, <1>5 DEF LedgerInv, LedgerType
<1>7. /\ led'.head = HeadBefore(file, Len(file) + 1) /\ led'.count = Len(file)
      /\ led'.writing = Free
  BY <1>2 DEF Opened
<1>8. Admitted(file)'
  BY <1>1, <1>2, AdmittedIs DEF Admitted, HeadBefore
<1>9. WriterInv'
  BY <1>1, <1>3, <1>7, <1>8 DEF WriterInv, ReopenFindsTheChain, HeadBefore
<1> QED BY <1>1, <1>6, <1>9, NothingExtends DEF Wrote, LedgerInv

LEMMA Append1Keeps ==
    ASSUME LedgerInv, Append1, UNCHANGED bucket
    PROVE  Wrote
<1>1. /\ UNCHANGED <<layout, file, torn, misled>> /\ file \in Seq(LineSet)
      /\ led.open /\ sealed \in Nat /\ sealed' = sealed + 1
      /\ bodies' = bodies \cup {sealed + 1}
  BY DEF Append1, BodyFirst, LedgerInv, LedgerType
<1>2. led \in [open : {TRUE}, head : Nat, count : Nat, writing : LineSet]
  BY <1>1, OpenLed DEF LedgerInv
<1> DEFINE l == Line(sealed + 1, led.head, FALSE)
<1>3. l \in LineSet /\ l.id = sealed + 1 /\ l.parent = led.head /\ ~l.pad
  <2>1. sealed + 1 \in Nat /\ led.head \in Nat /\ FALSE \in BOOLEAN
    BY <1>1, <1>2
  <2>2. l \in LineSet
    BY <2>1, LineIs
  <2> QED BY <2>2 DEF Line
<1>4. led' = [led EXCEPT !.writing = l]
  BY DEF Append1
<1> HIDE DEF l
<1>5. /\ led' \in [open : {TRUE}, head : Nat, count : Nat, writing : LineSet]
      /\ led'.head = led.head /\ led'.count = led.count /\ led'.writing = l
  BY <1>2, <1>3, <1>4
<1>6. LedgerType'
  <2>1. sealed' \in Nat
    BY <1>1
  <2> QED BY <1>1, <1>5, <2>1 DEF LedgerInv, LedgerType
<1>7. ASSUME ~misled PROVE AdmittedBy(file', bodies')
  <2>1. AdmittedBy(file, bodies)
    BY <1>7, AdmittedIs DEF LedgerInv, WriterInv, ReopenFindsTheChain
  <2>2. \A k \in DOMAIN file : file[k].id \in bodies'
    BY <1>1, <2>1 DEF AdmittedBy
  <2> QED BY <1>1, <2>1, <2>2 DEF AdmittedBy
<1>8. WriterInv'
  <2>1. ReopenFindsTheChain'
    BY <1>1, <1>5, <1>7 DEF LedgerInv, WriterInv, ReopenFindsTheChain, Admitted, AdmittedBy, HeadBefore
  <2>2. led'.writing.id \in bodies' /\ led'.writing.id # 0 /\ led'.writing.parent = led'.head
        /\ ~led'.writing.pad
    BY <1>1, <1>3, <1>5
  <2> QED BY <1>1, <2>1, <2>2 DEF LedgerInv, WriterInv
<1> QED BY <1>1, <1>6, <1>8, NothingExtends DEF Wrote, LedgerInv

LEMMA WriteLineKeeps ==
    ASSUME LedgerInv, WriteLine, UNCHANGED bucket
    PROVE  Wrote
<1>1. /\ UNCHANGED <<layout, bodies, sealed, misled>> /\ file \in Seq(LineSet)
      /\ led.open /\ led.writing # Free /\ Written(led.writing)
      /\ led' = Opened(led.writing.id, led.count + 1)
  BY DEF WriteLine, LedgerInv, LedgerType
<1>2. led \in [open : {TRUE}, head : Nat, count : Nat, writing : LineSet]
  BY <1>1, OpenLed DEF LedgerInv
<1>3. /\ file' \in Seq(LineSet) /\ Extends(file, file') /\ torn' = FALSE
      /\ ~torn => file' = Append(file, led.writing)
  BY <1>1, <1>2, WrittenIs DEF LedgerInv
<1>4. led.writing.id \in Nat /\ led.count \in Nat
  BY <1>2 DEF LineSet
<1>5. /\ led'.head = led.writing.id /\ led'.count = led.count + 1 /\ led'.writing = Free
      /\ led' \in [open : {TRUE}, head : Nat, count : Nat, writing : LineSet]
  BY <1>1, <1>4, LineIs DEF Opened, Free, LineSet
<1>6. LedgerType'
  BY <1>1, <1>3, <1>5 DEF LedgerInv, LedgerType
<1>7. ASSUME ~misled
      PROVE  /\ AdmittedBy(file', bodies') /\ led'.head = HeadBefore(file', Len(file') + 1)
             /\ led'.count = Len(file')
  <2>1. ~torn /\ led.count = Len(file)
    BY <1>1, <1>7 DEF LedgerInv, WriterInv, ReopenFindsTheChain
  <2>2. file' = Append(file, led.writing)
    BY <1>3, <2>1
  <2>3. /\ AdmittedBy(file', bodies)
        /\ HeadBefore(file', Len(file') + 1) = led.writing.id
        /\ Len(file') = Len(file) + 1
    BY <1>1, <1>7, <2>2, LineIsAdmitted
  <2>4. bodies' = bodies
    BY <1>1
  <2> QED BY <1>5, <2>1, <2>3, <2>4
<1>8. WriterInv'
  <2>1. ReopenFindsTheChain'
    BY <1>1, <1>7 DEF ReopenFindsTheChain, Admitted, AdmittedBy, HeadBefore
  <2> QED BY <1>3, <1>5, <2>1 DEF WriterInv
<1> QED BY <1>3, <1>6, <1>8 DEF Wrote, LedgerInv

LEMMA WriteFailsKeeps ==
    ASSUME LedgerInv, WriteFails, UNCHANGED bucket
    PROVE  Wrote
<1>1. /\ UNCHANGED <<layout, bodies, sealed>> /\ file \in Seq(LineSet)
      /\ led.open /\ led.writing # Free
      /\ led' = [led EXCEPT !.writing = Free]
  BY DEF WriteFails, LedgerInv, LedgerType
<1>2. led \in [open : {TRUE}, head : Nat, count : Nat, writing : LineSet]
  BY <1>1, OpenLed DEF LedgerInv
<1>3. /\ led'.head = led.head /\ led'.count = led.count /\ led'.writing = Free
      /\ led' \in [open : {TRUE}, head : Nat, count : Nat, writing : LineSet]
  BY <1>1, <1>2, LineIs DEF Free, LineSet
<1>4. /\ file' \in Seq(LineSet) /\ Extends(file, file') /\ torn' \in BOOLEAN
      /\ layout = "stores" => ~torn'
      /\ UNCHANGED <<file, torn, misled>> \/ misled'
      /\ misled' \in BOOLEAN
  <2>1. CASE UNCHANGED <<file, torn, misled>>
    BY <1>1, <2>1, NothingExtends DEF LedgerInv, LedgerType, WriterInv
  <2>2. CASE layout = "flat" /\ torn' = TRUE /\ misled' = TRUE /\ UNCHANGED file
    BY <1>1, <2>2, NothingExtends
  <2>3. CASE Written(led.writing) /\ misled' = TRUE
    <3>1. file' \in Seq(LineSet) /\ Extends(file, file') /\ torn' = FALSE
      BY <1>2, <2>3, WrittenIs DEF LedgerInv
    <3> QED BY <2>3, <3>1
  <2> QED BY <2>1, <2>2, <2>3 DEF WriteFails
<1>5. LedgerType'
  BY <1>1, <1>3, <1>4 DEF LedgerInv, LedgerType
<1>6. WriterInv'
  <2>1. CASE UNCHANGED <<file, torn, misled>>
    <3>1. ReopenFindsTheChain'
      BY <1>1, <1>3, <2>1 DEF LedgerInv, WriterInv, ReopenFindsTheChain, Admitted, HeadBefore
    <3> QED BY <1>1, <1>3, <1>4, <2>1, <3>1 DEF LedgerInv, WriterInv
  <2>2. CASE misled'
    BY <1>1, <1>3, <1>4, <2>2 DEF WriterInv, ReopenFindsTheChain
  <2> QED BY <1>4, <2>1, <2>2
<1> QED BY <1>4, <1>5, <1>6 DEF Wrote, LedgerInv

LEMMA LedgerDiesKeeps ==
    ASSUME LedgerInv, LedgerDies, UNCHANGED bucket
    PROVE  Wrote
<1>1. /\ UNCHANGED <<layout, bodies, sealed, misled>> /\ file \in Seq(LineSet) /\ led' = Closed
  BY DEF LedgerDies, LedgerInv, LedgerType
<1>2. led'.open = FALSE
  BY <1>1 DEF Closed
<1>3. /\ file' \in Seq(LineSet) /\ Extends(file, file') /\ torn' \in BOOLEAN
      /\ layout = "stores" => ~torn'
      /\ ~misled => AdmittedBy(file', bodies)
  <2>1. ~misled => AdmittedBy(file, bodies)
    BY AdmittedIs DEF LedgerInv, WriterInv, ReopenFindsTheChain
  <2>2. CASE UNCHANGED <<file, torn>>
    BY <1>1, <2>1, <2>2, NothingExtends DEF LedgerInv, LedgerType, WriterInv
  <2>3. CASE layout = "flat" /\ torn' = TRUE /\ UNCHANGED file
    BY <1>1, <2>1, <2>3, NothingExtends
  <2>4. CASE led.open /\ led.writing # Free /\ Written(led.writing)
    <3>1. led \in [open : {TRUE}, head : Nat, count : Nat, writing : LineSet]
      BY <2>4, OpenLed DEF LedgerInv
    <3>2. /\ file' \in Seq(LineSet) /\ Extends(file, file') /\ torn' = FALSE
          /\ ~torn => file' = Append(file, led.writing)
      BY <2>4, <3>1, WrittenIs DEF LedgerInv
    <3>3. ASSUME ~misled PROVE AdmittedBy(file', bodies)
      <4>1. ~torn
        BY <2>4, <3>3 DEF LedgerInv, WriterInv
      <4> QED BY <2>4, <3>2, <3>3, <4>1, LineIsAdmitted
    <3> QED BY <3>2, <3>3
  <2> QED BY <2>2, <2>3, <2>4 DEF LedgerDies
<1>4. LedgerType'
  BY <1>1, <1>3 DEF LedgerInv, LedgerType, Closed
<1>5. WriterInv'
  <2>1. ReopenFindsTheChain'
    BY <1>1, <1>2, <1>3 DEF ReopenFindsTheChain, Admitted, AdmittedBy, HeadBefore
  <2> QED BY <1>1, <1>2, <1>3, <2>1 DEF WriterInv
<1> QED BY <1>3, <1>4, <1>5 DEF Wrote, LedgerInv

\* Lines behind lines.
LEMMA ConcatExtends ==
    ASSUME NEW lines \in Seq(LineSet), NEW more \in Seq(LineSet)
    PROVE  /\ lines \o more \in Seq(LineSet) /\ Len(lines \o more) = Len(lines) + Len(more)
           /\ Extends(lines, lines \o more)
           /\ \A k \in Len(lines) + 1 .. Len(lines \o more) :
                  k - Len(lines) \in 1 .. Len(more) /\ (lines \o more)[k] = more[k - Len(lines)]
<1>1. Len(lines) \in Nat /\ Len(more) \in Nat
  OBVIOUS
<1>2. lines \o more \in Seq(LineSet) /\ Len(lines \o more) = Len(lines) + Len(more)
  OBVIOUS
<1>3. Extends(lines, lines \o more)
  BY <1>1, <1>2 DEF Extends
<1>4. ASSUME NEW k \in Len(lines) + 1 .. Len(lines \o more)
      PROVE  k - Len(lines) \in 1 .. Len(more) /\ (lines \o more)[k] = more[k - Len(lines)]
  BY <1>1, <1>2
<1> QED BY <1>2, <1>3, <1>4

\* The padding that is written, and the head it is written behind.
LEMMA PadsKeep ==
    ASSUME LedgerInv, NEW k \in Nat, led.open, led.writing = Free, PadsBy(k), UNCHANGED bucket
    PROVE  /\ Wrote
           /\ ~misled => Len(file) <= led.count + k
           /\ led.count \in Nat /\ UNCHANGED <<layout, misled>>
<1> DEFINE ids == [j \in 1 .. k |-> sealed + j]
           pads == [j \in 1 .. k |-> IF j = 1 /\ torn THEN Glued ELSE Line(ids[j], 0, TRUE)]
<1>1. led \in [open : {TRUE}, head : Nat, count : Nat, writing : LineSet]
  BY OpenLed DEF LedgerInv
<1>2. /\ file' = file \o pads /\ torn' = (torn /\ k = 0)
      /\ bodies' = bodies \cup ToSet(ids) /\ sealed' = sealed + k
      /\ led' = [led EXCEPT !.count = led.count + k, !.head = led.head]
      /\ UNCHANGED <<layout, misled>>
  BY DEF PadsBy, HeadAfterPads
<1>3. file \in Seq(LineSet) /\ sealed \in Nat /\ torn \in BOOLEAN
  BY DEF LedgerInv, LedgerType
<1>4. ids \in Seq(Nat) /\ Len(ids) = k /\ \A j \in 1 .. k : ids[j] \in Nat /\ ids[j] \in ToSet(ids)
  <2>1. \A j \in 1 .. k : sealed + j \in Nat
    BY <1>3
  <2>2. ids \in Seq(Nat) /\ Len(ids) = k /\ DOMAIN ids = 1 .. k
    BY <2>1
  <2> QED BY <2>1, <2>2 DEF ToSet
<1> HIDE DEF ids
<1>5. ASSUME NEW j \in 1 .. k
      PROVE  /\ pads[j] \in LineSet
             /\ ~torn => pads[j].pad /\ pads[j] # Glued /\ pads[j].id \in ToSet(ids)
  <2>1. /\ Line(ids[j], 0, TRUE) \in LineSet /\ Glued \in LineSet
        /\ Line(ids[j], 0, TRUE).pad /\ Line(ids[j], 0, TRUE).id = ids[j] /\ ~Glued.pad
    BY <1>4, LineIs DEF Line, Glued, Free
  <2> QED BY <1>4, <2>1
<1>6a. pads = [j \in 1 .. k |-> pads[j]]
  OBVIOUS
<1> HIDE DEF pads
<1>6. pads \in Seq(LineSet) /\ Len(pads) = k
  BY <1>5, <1>6a
<1>7. /\ file' \in Seq(LineSet) /\ Len(file') = Len(file) + k /\ Extends(file, file')
      /\ \A n \in Len(file) + 1 .. Len(file') :
             n - Len(file) \in 1 .. k /\ file'[n] = pads[n - Len(file)]
  BY <1>2, <1>3, <1>6, ConcatExtends
<1>8. /\ led' \in [open : {TRUE}, head : Nat, count : Nat, writing : LineSet]
      /\ led'.head = led.head /\ led'.count = led.count + k /\ led'.writing = Free /\ led'.open
  <2>1. led.count + k \in Nat /\ led.head \in Nat
    BY <1>1
  <2> QED BY <1>1, <1>2, <2>1
<1>9. LedgerType'
  <2>1. sealed' \in Nat /\ torn' \in BOOLEAN
    BY <1>2, <1>3
  <2> QED BY <1>2, <1>7, <1>8, <2>1 DEF LedgerInv, LedgerType
<1>10. ASSUME ~misled
       PROVE  /\ ~torn /\ AdmittedBy(file', bodies') /\ led.count = Len(file)
              /\ led.head = HeadBefore(file', Len(file') + 1)
  <2>1. /\ ~torn /\ AdmittedBy(file, bodies) /\ led.count = Len(file)
        /\ led.head = HeadBefore(file, Len(file) + 1)
    BY <1>10, AdmittedIs DEF LedgerInv, WriterInv, ReopenFindsTheChain
  <2>2. ASSUME NEW n \in Len(file) + 1 .. Len(file')
        PROVE  file'[n].pad /\ file'[n] # Glued /\ file'[n].id \in bodies'
    BY <1>2, <1>5, <1>7, <2>1
  <2>3. AdmittedBy(file', bodies')
    <3>1. bodies \subseteq bodies'
      BY <1>2
    <3> QED BY <1>3, <1>7, <2>1, <2>2, <3>1, AdmittedGrows
  <2>4. Len(file') + 1 \in Len(file) + 1 .. Len(file') + 1 /\ (Len(file') + 1) - 1 = Len(file')
    BY <1>3, <1>7
  <2>5. HeadBefore(file', Len(file') + 1) = HeadBefore(file, Len(file) + 1)
    BY <1>3, <1>7, <2>2, <2>4, HeadPassesPads
  <2> QED BY <2>1, <2>3, <2>5
<1>11. WriterInv'
  <2>1. ReopenFindsTheChain'
    BY <1>2, <1>7, <1>8, <1>10 DEF ReopenFindsTheChain, Admitted, AdmittedBy, HeadBefore
  <2>2. torn' => torn
    BY <1>2
  <2> QED BY <1>2, <1>8, <1>10, <2>1, <2>2 DEF LedgerInv, WriterInv
<1>12. led.count \in Nat
  BY <1>1
<1>13. ~misled => Len(file) <= led.count + k
  BY <1>3, <1>10, <1>12
<1> QED BY <1>2, <1>7, <1>9, <1>11, <1>12, <1>13 DEF Wrote, LedgerInv

\* The lines before line n are a ledger too.
LEMMA KeptIs ==
    ASSUME NEW lines \in Seq(LineSet), NEW n \in 0 .. Len(lines)
    PROVE  /\ SubSeq(lines, 1, n) \in Seq(LineSet) /\ Len(SubSeq(lines, 1, n)) = n
           /\ Extends(SubSeq(lines, 1, n), lines)
<1>1. \A i \in 1 .. n : lines[i] \in LineSet
  OBVIOUS
<1>2. /\ SubSeq(lines, 1, n) \in Seq(LineSet) /\ Len(SubSeq(lines, 1, n)) = n
      /\ \A i \in 1 .. n : SubSeq(lines, 1, n)[i] = lines[i]
  BY <1>1, SubSeqProperties
<1> QED BY <1>2 DEF Extends

\* A ledger that is cut back, or written anew from a line on, is admitted.
LEMMA RewriteKeeps ==
    ASSUME LedgerInv, Rewrite
    PROVE  LedgerInv'
<1>1. /\ ~led.open /\ torn' = FALSE
      /\ UNCHANGED <<layout, led, misled, bucket>> /\ file \in Seq(LineSet) /\ sealed \in Nat
  BY DEF Rewrite, nodeVars, LedgerInv, LedgerType
<1>2. PICK n \in 0 .. Len(file) - 1 :
          LET kept == SubSeq(file, 1, n)
              fresh == Line(sealed + 1, HeadBefore(file, n + 1), FALSE)
          IN \/ /\ file' = kept
                /\ UNCHANGED <<bodies, sealed>>
             \/ /\ file' = Append(kept, fresh)
                /\ bodies' = bodies \cup {fresh.id}
                /\ sealed' = sealed + 1
  BY DEF Rewrite
<1> DEFINE kept == SubSeq(file, 1, n)
           fresh == Line(sealed + 1, HeadBefore(file, n + 1), FALSE)
<1>3. n \in 0 .. Len(file) /\ n \in Nat
  BY <1>1
<1>4. kept \in Seq(LineSet) /\ Len(kept) = n /\ Extends(kept, file)
  BY <1>1, <1>3, KeptIs
<1>5. \/ file' = kept /\ UNCHANGED <<bodies, sealed>>
      \/ file' = Append(kept, fresh) /\ bodies' = bodies \cup {fresh.id} /\ sealed' = sealed + 1
  BY <1>2
<1> HIDE DEF kept
<1>6. HeadBefore(file, n + 1) = HeadBefore(kept, n + 1)
  <2>1. n + 1 \in 1 .. Len(kept) + 1
    BY <1>3, <1>4
  <2> QED BY <1>1, <1>4, <2>1, HeadIsLocal
<1>7. ~misled => AdmittedBy(kept, bodies)
  <2>1. ~misled => AdmittedBy(file, bodies)
    BY AdmittedIs DEF LedgerInv, WriterInv, ReopenFindsTheChain
  <2> QED BY <1>1, <1>4, <2>1, AdmittedFirst
<1>8. /\ fresh \in LineSet /\ fresh.id = sealed + 1 /\ fresh.parent = HeadBefore(kept, n + 1)
      /\ ~fresh.pad
  <2>1. HeadBefore(file, n + 1) \in Nat
    BY <1>1, <1>3, HeadIsNat
  <2>2. sealed + 1 \in Nat /\ FALSE \in BOOLEAN
    BY <1>1
  <2>3. fresh \in LineSet
    BY <2>1, <2>2, LineIs
  <2> QED BY <1>6, <2>3 DEF Line
<1> HIDE DEF fresh
<1>9. CASE file' = kept /\ UNCHANGED <<bodies, sealed>>
  <2>1. LedgerType'
    BY <1>1, <1>4, <1>9 DEF LedgerInv, LedgerType
  <2>2. ReopenFindsTheChain'
    BY <1>1, <1>7, <1>9 DEF ReopenFindsTheChain, Admitted, AdmittedBy, HeadBefore
  <2>3. WriterInv'
    BY <1>1, <2>2 DEF WriterInv
  <2> QED BY <2>1, <2>3 DEF LedgerInv
<1>10. CASE file' = Append(kept, fresh) /\ bodies' = bodies \cup {fresh.id} /\ sealed' = sealed + 1
  <2>1. /\ file' \in Seq(LineSet) /\ Len(file') = n + 1 /\ file'[n + 1] = fresh
        /\ Extends(kept, file')
    BY <1>4, <1>8, <1>10, AppendExtends
  <2>2. LedgerType'
    <3>1. sealed' \in Nat
      BY <1>1, <1>10
    <3> QED BY <1>1, <2>1, <3>1 DEF LedgerInv, LedgerType
  <2>3. HeadBefore(file', n + 1) = HeadBefore(kept, n + 1)
    <3>1. n + 1 \in 1 .. Len(kept) + 1
      BY <1>3, <1>4
    <3> QED BY <1>4, <2>1, <3>1, HeadIsLocal
  <2>4. ASSUME ~misled PROVE AdmittedBy(file', bodies')
    <3>1. bodies \subseteq bodies' /\ fresh.id \in bodies' /\ fresh # Glued
      <4>1. fresh.id # 0
        BY <1>1, <1>8
      <4> QED BY <1>10, <4>1 DEF Glued, Free
    <3>2. ASSUME NEW k \in Len(kept) + 1 .. Len(file') PROVE k = n + 1
      BY <1>3, <1>4, <2>1
    <3>3. AdmittedBy(kept, bodies)
      BY <1>7, <2>4
    <3> QED BY <1>4, <1>8, <2>1, <2>3, <3>1, <3>2, <3>3, AdmittedGrows
  <2>5. ReopenFindsTheChain'
    BY <1>1, <2>4 DEF ReopenFindsTheChain, Admitted, AdmittedBy, HeadBefore
  <2>6. WriterInv'
    BY <1>1, <2>5 DEF WriterInv
  <2> QED BY <2>2, <2>6 DEF LedgerInv
<1> QED BY <1>5, <1>9, <1>10

-----------------------------------------------------------------------------
(* The runners.                                                             *)

\* The lines only grow under a runner, and nobody else cuts in the layout that
\* relies on it.
Grew(x) ==
    /\ UNCHANGED <<layout, bucket>>
    /\ misled => misled'
    /\ file \in Seq(LineSet) /\ file' \in Seq(LineSet) /\ Extends(file, file')
    /\ layout = "flat" /\ x.at \notin Out => cuts' = cuts

LEMMA StateCarries ==
    ASSUME NEW r, NEW x, StateOk(r, x), Grew(x)
    PROVE  StateOk(r, x)'
<1>1. /\ layout' = layout /\ bucket' = bucket /\ HasSink(r)' = HasSink(r)
      /\ misled => misled'
  BY DEF Grew, HasSink
<1>2. ASSUME x.at \notin Out PROVE IsPrefix(x.mem, Ids(file'))
  <2>1. IsPrefix(x.mem, Ids(file)) /\ x.mem \in Seq(Nat)
    BY <1>2 DEF StateOk
  <2>2. IsPrefix(Ids(file), Ids(file'))
    BY IdsGrow DEF Grew
  <2>3. Ids(file) \in Seq(Nat) /\ Ids(file') \in Seq(Nat)
    BY IdsType DEF Grew
  <2> QED BY <2>1, <2>2, <2>3, PrefixTrans
<1>3. layout = "flat" /\ x.at \notin Out => Heads(x.last)'
  BY DEF StateOk, Grew, Heads
<1>4. x.prep # <<>> => PreparedOk(r, x)'
  BY <1>1 DEF StateOk, PreparedOk
<1> QED BY <1>1, <1>2, <1>3, <1>4 DEF StateOk

\* The runner r goes on as y.
LEMMA RunStep ==
    ASSUME RunInv, NEW r \in Runners, NEW y, run' = [run EXCEPT ![r] = y], StateOk(r, y)',
           \A q \in Runners \ {r} : Grew(run[q])
    PROVE  RunInv'
<1>1. /\ run = [q \in Runners |-> run[q]] /\ \A q \in Runners : StateOk(q, run[q])
  BY DEF RunInv
<1>2. /\ run' = [q \in Runners |-> run'[q]] /\ run'[r] = y
      /\ \A q \in Runners \ {r} : run'[q] = run[q]
  BY <1>1
<1>3. ASSUME NEW q \in Runners \ {r} PROVE StateOk(q, run[q])'
  <2>1. PICK x : x = run[q]
    OBVIOUS
  <2>2. StateOk(q, x) /\ Grew(x)
    BY <1>1, <2>1
  <2>3. StateOk(q, x)'
    BY <2>2, StateCarries
  <2>4. run'[q] = x
    BY <1>2, <2>1
  <2> QED BY <2>3, <2>4
<1>4. StateOk(r, run[r])'
  BY <1>2
<1>5. \A q \in Runners : StateOk(q, run[q])'
  BY <1>3, <1>4
<1> QED BY <1>2, <1>5 DEF RunInv

\* The runners stand still while the ledger writes.
LEMMA RunsCarry ==
    ASSUME RunInv, UNCHANGED <<run, bucket, cuts, layout>>, misled => misled', file \in Seq(LineSet),
           file' \in Seq(LineSet), Extends(file, file')
    PROVE  RunInv'
<1>1. ASSUME NEW q \in Runners PROVE StateOk(q, run[q])'
  <2>1. PICK x : x = run[q]
    OBVIOUS
  <2>2. StateOk(q, x)
    BY <2>1 DEF RunInv
  <2>4. Grew(x)
    BY DEF Grew
  <2>5. StateOk(q, x)'
    BY <2>2, <2>4, StateCarries
  <2>6. run'[q] = x
    BY <2>1
  <2> QED BY <2>5, <2>6
<1> QED BY <1>1 DEF RunInv

\* The runner r goes on as y while the checkpoints stay what they are.
LEMMA MoveStep ==
    ASSUME RunInv, NEW r \in Runners, NEW y, run' = [run EXCEPT ![r] = y], StateOk(r, y),
           UNCHANGED <<bucket, cuts, layout>>, misled => misled', file \in Seq(LineSet),
           file' \in Seq(LineSet), Extends(file, file')
    PROVE  RunInv'
<1>2. \A x : Grew(x)
  BY DEF Grew
<1>3. StateOk(r, y)'
  BY <1>2, StateCarries
<1> QED BY <1>2, <1>3, RunStep

\* A state in the hands of a call: what StateOk says but for what is prepared.
BasicOk(r, x) ==
    /\ IsState(x) /\ x.at \in Labels
    /\ x.mem \in Seq(Nat) /\ x.last \in Seq(Nat) /\ x.push \in Nat /\ x.goal \in Nat
    /\ layout = "flat" => r = Writer
    /\ IsPrefix(x.mem, Ids(file))
    /\ layout = "flat" => Heads(x.last)

LEMMA StateIsBasic ==
    ASSUME NEW r, NEW x, StateOk(r, x), x.at \notin Out
    PROVE  BasicOk(r, x) /\ x.at # "absent"
  BY DEF StateOk, BasicOk, Out

\* With nothing in hand there is no more to say.
LEMMA RestingOk ==
    ASSUME NEW r, NEW x, NEW y, BasicOk(r, x), Resting(x, y)
    PROVE  StateOk(r, y)
<1>1. <<>> \in Seq(Nat)
  OBVIOUS
<1> QED BY <1>1 DEF BasicOk, StateOk, Resting, Labels, Out

LEMMA IdleOk ==
    ASSUME NEW r, NEW x, BasicOk(r, x)
    PROVE  StateOk(r, Idle(x))
<1>1. IsState(x)
  BY DEF BasicOk
<1>2. Resting(x, Idle(x))
  BY <1>1, IdleIs DEF Rested, Resting
<1> QED BY <1>2, RestingOk

\* A cut of the first n leaves.
LEMMA PreparedIsOk ==
    ASSUME NEW r, NEW x, BasicOk(r, x), NEW n \in 0 .. Len(x.mem), x.prep = <<>>,
           HasSink(r) => n % bucket = 0,
           x.push # 0 /\ ~misled => \E i \in 1 .. n : x.mem[i] = x.push
    PROVE  StateOk(r, Prepared(x, n))
<1> DEFINE cut == Grows(x, n) /\ IsPrefix(x.last, x.mem)
           p == SubSeq(x.mem, 1, n)
<1>1. CASE ~cut
  <2>1. Prepared(x, n) = Idle(x)
    BY <1>1 DEF Prepared
  <2> QED BY <2>1, IdleOk
<1>2. CASE cut
  <2>1. x.mem \in Seq(Nat) /\ x.last \in Seq(Nat) /\ IsState(x)
    BY DEF BasicOk
  <2>2. p \in Seq(Nat) /\ Len(p) = n /\ \A i \in 1 .. n : p[i] = x.mem[i]
    BY <2>1, FirstOf
  <2>3. IsPrefix(p, x.mem)
    BY <2>1, FirstIsPrefix
  <2>4. IsStrictPrefix(x.last, p)
    BY <1>2, <2>1, PrefixOfLonger DEF Grows
  <2>5. p # <<>>
    <3>1. n > Len(x.last) /\ Len(x.last) \in Nat
      BY <1>2, <2>1 DEF Grows
    <3>2. n # 0
      BY <3>1
    <3> QED BY <2>2, <3>2
  <2>6. x.push # 0 /\ ~misled => x.push \in ToSet(p)
    <3>1. DOMAIN p = 1 .. n
      BY <2>2
    <3> QED BY <2>2, <3>1 DEF ToSet
  <2>7. PICK y : /\ y = Prepared(x, n)
                 /\ \/ \E l \in {"offer", "commit"} :
                           y = [x EXCEPT !.prep = p, !.at = l, !.todo = x.urls,
                                         !.pending = {}, !.deferred = FALSE]
                    \/ y = [x EXCEPT !.prep = p, !.at = "commit"]
    BY <1>2 DEF Prepared
  <2> HIDE DEF p
  <2>8. /\ IsState(y) /\ y.at \in {"offer", "commit"} /\ y.prep = p
        /\ y.mem = x.mem /\ y.last = x.last /\ y.push = x.push /\ y.goal = x.goal
    BY <2>1, <2>7 DEF IsState, Fields
  <2>9. PreparedOk(r, y)
    BY <2>2, <2>3, <2>4, <2>6, <2>8 DEF PreparedOk
  <2>10. StateOk(r, y)
    BY <2>2, <2>5, <2>8, <2>9 DEF BasicOk, StateOk, Labels, Out
  <2> QED BY <2>7, <2>10
<1> QED BY <1>1, <1>2

LEMMA CutsIsOk ==
    ASSUME NEW r, NEW x, BasicOk(r, x), x.at = "idle", x.prep = <<>>,
           NEW register \in BOOLEAN, NEW push \in Nat, push # 0 => push \in ToSet(x.mem)
    PROVE  StateOk(r, Cuts(r, x, register, push))
<1> DEFINE y == [x EXCEPT !.register = register, !.push = push]
<1>1. /\ IsState(y) /\ y.at = "idle" /\ y.prep = <<>> /\ y.mem = x.mem /\ y.last = x.last
      /\ y.push = push /\ y.goal = x.goal
  BY DEF BasicOk, IsState, Fields
<1>2. Cuts(r, x, register, push) =
          IF HasSink(r) THEN [y EXCEPT !.at = "pad"] ELSE Prepared(y, Len(y.mem))
  BY DEF Cuts
<1> HIDE DEF y
<1>3. BasicOk(r, y)
  BY <1>1 DEF BasicOk
<1>4. CASE HasSink(r)
  <2> DEFINE z == [y EXCEPT !.at = "pad"]
  <2>1. /\ IsState(z) /\ z.at = "pad" /\ z.prep = <<>> /\ z.mem = x.mem /\ z.last = x.last
        /\ z.push = push /\ z.goal = x.goal
    BY <1>1 DEF IsState, Fields
  <2>2. Cuts(r, x, register, push) = z
    BY <1>2, <1>4
  <2> HIDE DEF z
  <2>3. <<>> \in Seq(Nat)
    OBVIOUS
  <2>4. StateOk(r, z)
    BY <1>4, <2>1, <2>3 DEF BasicOk, StateOk, Labels, Out
  <2> QED BY <2>2, <2>4
<1>5. CASE ~HasSink(r)
  <2>1. Len(y.mem) \in 0 .. Len(y.mem) /\ DOMAIN y.mem = 1 .. Len(y.mem)
    BY <1>3 DEF BasicOk
  <2>2. y.push # 0 => \E i \in 1 .. Len(y.mem) : y.mem[i] = y.push
    BY <1>1, <2>1 DEF ToSet
  <2> QED BY <1>1, <1>2, <1>3, <1>5, <2>1, <2>2, PreparedIsOk
<1> QED BY <1>4, <1>5

\* Folding brings the leaves up to the lines.
LEMMA FoldedIsBasic ==
    ASSUME NEW r, NEW x, StateOk(r, x), x.at \notin {"off", "absent"}, file \in Seq(LineSet)
    PROVE  LET y == Folded(x)
           IN /\ BasicOk(r, y) /\ y.mem = Ids(file) /\ IsPrefix(x.mem, y.mem)
              /\ y.at = x.at /\ y.prep = x.prep /\ y.push = x.push /\ y.goal = x.goal
<1>1. BasicOk(r, x)
  BY StateIsBasic DEF Out
<1>2. Ids(file) \in Seq(Nat) /\ Len(Ids(file)) = Len(file)
  BY IdsType
<1>3. Folding(x.mem) = Ids(file)
  <2>1. x.mem \o SubSeq(Ids(file), Len(x.mem) + 1, Len(Ids(file))) = Ids(file)
    BY <1>1, <1>2, FoldsToWhole DEF BasicOk
  <2> QED BY <1>2, <2>1 DEF Folding
<1> DEFINE y == Folded(x)
<1>4. /\ IsState(y) /\ y.at = x.at /\ y.mem = Ids(file) /\ y.last = x.last
      /\ y.prep = x.prep /\ y.push = x.push /\ y.goal = x.goal
  BY <1>1, <1>3, FoldedIs DEF BasicOk
<1> HIDE DEF y
<1>5. IsPrefix(Ids(file), Ids(file)) /\ IsPrefix(x.mem, Ids(file))
  BY <1>1, <1>2, PrefixElts DEF BasicOk
<1>6. BasicOk(r, y)
  BY <1>1, <1>2, <1>4, <1>5 DEF BasicOk
<1> QED BY <1>4, <1>5, <1>6 DEF y

NodeStep == RunInv' /\ stored' \in Seq(Nat)

\* A call of r becomes y, and nothing else moves but the stored leaves.
LEMMA BecomesStep ==
    ASSUME RunInv, stored \in Seq(Nat), NEW r \in Runners, NEW y, Becomes(r, y), StateOk(r, y),
           misled => misled', file \in Seq(LineSet), file' \in Seq(LineSet), Extends(file, file')
    PROVE  NodeStep
<1>1. /\ run' = [run EXCEPT ![r] = y] /\ UNCHANGED <<bucket, cuts, layout>>
      /\ stored' \in {y.mem, stored}
  BY DEF Becomes
<1>2. RunInv'
  BY <1>1, MoveStep
<1>3. y.mem \in Seq(Nat)
  BY DEF StateOk
<1> QED BY <1>1, <1>2, <1>3 DEF NodeStep

LEMMA TickKeeps ==
    ASSUME RInv, NEW r \in Runners, Tick(r) \/ Push(r) \/ Reconnect(r)
    PROVE  NodeStep
<1> DEFINE x == Folded(run[r])
<1>1. run[r].at = "idle" /\ Quiet
  BY DEF Tick, Push, Reconnect
<1>2. /\ StateOk(r, run[r]) /\ file \in Seq(LineSet) /\ stored \in Seq(Nat) /\ RunInv
  BY DEF RInv, RunInv, LedgerType
<1>3. run[r].prep = <<>>
  BY <1>1, <1>2 DEF StateOk
<1>4. BasicOk(r, x) /\ x.at = "idle" /\ x.prep = <<>>
  BY <1>1, <1>2, <1>3, FoldedIsBasic
<1>5. PICK y : /\ Becomes(r, y)
               /\ \/ y = Cuts(r, x, TRUE, 0)
                  \/ y \in {RetriesPending(x), RetriesPending(OffersDeferred(x)), Delivers(x)}
                  \/ y = x
                  \/ \E i \in DOMAIN x.mem : y = Cuts(r, x, FALSE, x.mem[i])
  BY DEF Tick, Push, Reconnect
<1> HIDE DEF x
<1>6. x.mem \in Seq(Nat) /\ IsState(x) /\ x.push \in Nat /\ x.goal \in Nat
  BY <1>4 DEF BasicOk
<1>7. CASE y = Cuts(r, x, TRUE, 0)
  <2>1. StateOk(r, y)
    BY <1>4, <1>7, CutsIsOk
  <2> QED BY <1>1, <1>2, <1>5, <2>1, BecomesStep, NothingExtends DEF Quiet
<1>8. CASE y \in {RetriesPending(x), RetriesPending(OffersDeferred(x)), Delivers(x)}
  <2>1. Resting(x, y)
    BY <1>4, <1>6, <1>8, TickIs
  <2>2. StateOk(r, y)
    BY <1>4, <2>1, RestingOk
  <2> QED BY <1>1, <1>2, <1>5, <2>2, BecomesStep, NothingExtends DEF Quiet
<1>9. CASE y = x
  <2>1. Resting(x, x)
    BY <1>4, <1>6 DEF Resting
  <2>2. StateOk(r, y)
    BY <1>4, <1>9, <2>1, RestingOk
  <2> QED BY <1>1, <1>2, <1>5, <2>2, BecomesStep, NothingExtends DEF Quiet
<1>10. CASE \E i \in DOMAIN x.mem : y = Cuts(r, x, FALSE, x.mem[i])
  <2>1. PICK i \in DOMAIN x.mem : y = Cuts(r, x, FALSE, x.mem[i])
    BY <1>10
  <2>2. x.mem[i] \in Nat /\ x.mem[i] \in ToSet(x.mem)
    BY <1>6, <2>1 DEF ToSet
  <2>3. StateOk(r, y)
    BY <1>4, <2>1, <2>2, CutsIsOk
  <2> QED BY <1>1, <1>2, <1>5, <2>3, BecomesStep, NothingExtends DEF Quiet
<1> QED BY <1>5, <1>7, <1>8, <1>9, <1>10

\* The last line that can be read.
LEMMA LatestType ==
    ASSUME CutsInv
    PROVE  /\ Latest \in Seq(Nat) /\ Heads(Latest)
           /\ layout = "stores" => Latest = IF cuts = <<>> THEN <<>> ELSE cuts[Len(cuts)].leaves
<1>1. cuts \in Seq(CutSet) /\ Len(cuts) \in Nat /\ DOMAIN cuts = 1 .. Len(cuts)
  BY DEF CutsInv
<1>2. ASSUME NEW k \in 1 .. Len(cuts) PROVE cuts[k] \in CutSet /\ cuts[k].leaves \in Seq(Nat)
  <2>1. cuts[k] \in CutSet
    BY <1>1
  <2> QED BY <2>1 DEF CutSet
<1>3. Legible \in SUBSET (1 .. Len(cuts))
  BY <1>1 DEF Legible
<1>4. \A k \in 1 .. Len(cuts) : k \notin Legible => cuts[k].how # "written"
  BY <1>1 DEF Legible
<1>5. layout = "stores" => Legible = 1 .. Len(cuts)
  BY <1>1 DEF Legible, CutsInv
<1>6. CASE Legible = {}
  <2>1. Latest = <<>>
    BY <1>6 DEF Latest
  <2>2. Heads(Latest)
    <3>1. 0 \in 0 .. Len(cuts) /\ \A i \in 0 + 1 .. Len(cuts) : i \in 1 .. Len(cuts)
      BY <1>1
    <3> QED BY <1>4, <1>6, <2>1, <3>1 DEF Heads
  <2>3. layout = "stores" => cuts = <<>>
    BY <1>1, <1>5, <1>6
  <2> QED BY <2>1, <2>2, <2>3
<1>7. CASE Legible # {}
  <2>1. PICK top : top = Max(Legible)
    OBVIOUS
  <2>2. top \in Legible /\ \A k \in Legible : top >= k
    BY <1>1, <1>3, <1>7, <2>1, MaxIsIn
  <2>3. Latest = cuts[top].leaves /\ top \in 1 .. Len(cuts)
    BY <1>3, <1>7, <2>1, <2>2 DEF Latest
  <2>4. Heads(Latest)
    <3>1. ASSUME NEW i \in top + 1 .. Len(cuts) PROVE i \in 1 .. Len(cuts) /\ i \notin Legible
      BY <1>1, <2>2, <2>3
    <3>2. top \in 0 .. Len(cuts) /\ top # 0
      BY <2>3
    <3> QED BY <1>4, <2>3, <3>1, <3>2 DEF Heads
  <2>5. ASSUME layout = "stores" PROVE top = Len(cuts) /\ cuts # <<>>
    <3>1. Len(cuts) \in Legible
      BY <1>1, <1>5, <2>3, <2>5
    <3>2. PICK n : n = Len(cuts)
      OBVIOUS
    <3>3. top = Len(cuts)
      <4>1. n \in Nat /\ top \in 1 .. n /\ top >= n
        BY <1>1, <2>2, <2>3, <3>1, <3>2
      <4>2. top = n
        BY <4>1
      <4> QED BY <3>2, <4>2
    <3>4. Len(<<>>) = 0 /\ Len(cuts) # 0
      BY <2>3
    <3> QED BY <3>3, <3>4
  <2> QED BY <1>2, <2>3, <2>4, <2>5
<1> QED BY <1>6, <1>7

LEMMA LoadKeeps ==
    ASSUME RInv, NEW r \in Runners, LoadFlat(r) \/ LoadLog(r)
    PROVE  NodeStep
<1>1. /\ run[r].at = "off" /\ StoredMatches
      /\ UNCHANGED <<ledgerVars, bucket, cuts>>
  BY DEF LoadFlat, LoadLog
<1>2. /\ StateOk(r, run[r]) /\ file \in Seq(LineSet) /\ stored \in Seq(Nat) /\ RunInv
      /\ Latest \in Seq(Nat) /\ Heads(Latest)
  BY LatestType DEF RInv, RunInv, LedgerType
<1>3. layout = "flat" => r = Writer
  BY <1>1, <1>2 DEF StateOk
<1>4. Ids(file) \in Seq(Nat) /\ Len(Ids(file)) = Len(file)
  BY <1>2, IdsType
<1>5. Folding(stored) = Ids(file)
  <2>1. stored \o SubSeq(Ids(file), Len(stored) + 1, Len(Ids(file))) = Ids(file)
    BY <1>1, <1>2, <1>4, FoldsToWhole DEF StoredMatches
  <2> QED BY <1>4, <2>1 DEF Folding
<1>6. PICK y : /\ run' = [run EXCEPT ![r] = y] /\ stored' \in Seq(Nat)
               /\ IsState(y) /\ y.at = "idle" /\ y.mem = Ids(file) /\ y.last = Latest
               /\ y.prep = <<>> /\ y.push = 0 /\ y.goal = 0
  <2>1. CASE LoadFlat(r)
    <3>1. PICK urls \in configs : run' = [run EXCEPT ![r] = Loaded(urls, stored')]
      BY <2>1 DEF LoadFlat
    <3>2. stored' = Ids(file)
      BY <1>5, <2>1 DEF LoadFlat
    <3> DEFINE y == Loaded(urls, Ids(file))
    <3>3. /\ IsState(y) /\ y.at = "idle" /\ y.mem = Ids(file) /\ y.last = Latest
          /\ y.prep = <<>> /\ y.push = 0 /\ y.goal = 0
      BY LoadedIs
    <3>4. run' = [run EXCEPT ![r] = y]
      BY <3>1, <3>2
    <3> HIDE DEF y
    <3> QED BY <1>4, <3>2, <3>3, <3>4
  <2>2. CASE LoadLog(r)
    <3>1. PICK urls, v1, v2 :
              run' = [run EXCEPT ![r] =
                         [Loaded(urls, Ids(file)) EXCEPT !.known = v1, !.queue = v2]]
      BY <2>2 DEF LoadLog
    <3> DEFINE z == Loaded(urls, Ids(file))
               y == [z EXCEPT !.known = v1, !.queue = v2]
    <3>2. /\ IsState(z) /\ z.at = "idle" /\ z.mem = Ids(file) /\ z.last = Latest
          /\ z.prep = <<>> /\ z.push = 0 /\ z.goal = 0
      BY LoadedIs
    <3> HIDE DEF z
    <3>3. /\ IsState(y) /\ y.at = "idle" /\ y.mem = Ids(file) /\ y.last = Latest
          /\ y.prep = <<>> /\ y.push = 0 /\ y.goal = 0
      BY <3>2 DEF IsState, Fields
    <3>4. run' = [run EXCEPT ![r] = y]
      BY <3>1 DEF z
    <3>5. stored' = stored
      BY <2>2 DEF LoadLog
    <3> QED BY <1>2, <3>3, <3>4, <3>5
  <2> QED BY <2>1, <2>2
<1>7. IsPrefix(Ids(file), Ids(file))
  BY <1>4, PrefixElts
<1>8. BasicOk(r, y) /\ Resting(y, y)
  BY <1>2, <1>3, <1>4, <1>6, <1>7 DEF BasicOk, Resting, Labels
<1>9. StateOk(r, y)
  BY <1>8, RestingOk
<1>10. RunInv'
  BY <1>1, <1>2, <1>6, <1>9, MoveStep, NothingExtends DEF ledgerVars
<1> QED BY <1>6, <1>10 DEF NodeStep

LEMMA PadKeeps ==
    ASSUME RInv, NEW r \in Runners, Pad(r)
    PROVE  Wrote /\ NodeStep
<1>1. /\ run[r].at = "pad" /\ led.open /\ led.writing = Free
  BY DEF Pad
<1>2. /\ StateOk(r, run[r]) /\ file \in Seq(LineSet) /\ stored \in Seq(Nat) /\ RunInv
      /\ LedgerInv /\ bucket \in Nat
  BY DEF RInv, RunInv, LedgerType, LedgerInv
<1>3. BasicOk(r, run[r])
  BY <1>1, <1>2, StateIsBasic DEF Out
<1>4. HasSink(r) /\ bucket > 0 /\ (run[r].push # 0 => run[r].push \in ToSet(run[r].mem))
  BY <1>1, <1>2 DEF StateOk, HasSink
<1>5. led.count \in Nat
  BY <1>1, <1>2, OpenLed DEF LedgerInv
<1> DEFINE k == Missing(bucket, led.count)
<1>6. k \in Nat /\ (led.count + k) % bucket = 0
  BY <1>2, <1>4, <1>5, PadsToTheBoundary
<1>7. PICK j, y :
          /\ j \in Nat /\ PadsBy(j) /\ Becomes(r, y)
          /\ \/ j = k /\ y = [run[r] EXCEPT !.at = "fold", !.goal = led.count + k]
             \/ y = Idle(run[r])
  <2>1. CASE PadsBy(k) /\ Becomes(r, [run[r] EXCEPT !.at = "fold", !.goal = led.count + k])
    BY <1>6, <2>1
  <2>2. CASE (\E j \in 0 .. k - 1 : PadsBy(j)) /\ Becomes(r, Idle(run[r]))
    <3>1. PICK j \in 0 .. k - 1 : PadsBy(j)
      BY <2>2
    <3>2. j \in Nat
      BY <1>6
    <3> QED BY <2>2, <3>1, <3>2
  <2> QED BY <2>1, <2>2 DEF Pad
<1> HIDE DEF k
<1>8. UNCHANGED bucket
  BY <1>7 DEF Becomes
<1>9. /\ Wrote /\ UNCHANGED <<layout, misled>>
      /\ ~misled => Len(file) <= led.count + j
  BY <1>1, <1>2, <1>7, <1>8, PadsKeep
<1>10. file' \in Seq(LineSet) /\ Extends(file, file')
  BY <1>9 DEF Wrote, LedgerInv, LedgerType
<1>11. StateOk(r, y)
  <2>1. CASE y = Idle(run[r])
    BY <1>3, <2>1, IdleOk
  <2>2. CASE j = k /\ y = [run[r] EXCEPT !.at = "fold", !.goal = led.count + k]
    <3> DEFINE x == run[r]
               g == led.count + k
    <3>1. g \in Nat
      BY <1>5, <1>6
    <3>2. ~misled => Len(x.mem) <= g
      <4>1. Len(x.mem) <= Len(file) /\ Len(x.mem) \in Nat
        <5>1. Ids(file) \in Seq(Nat) /\ Len(Ids(file)) = Len(file)
          BY <1>2, IdsType
        <5> QED BY <1>3, <5>1, PrefixElts DEF BasicOk
      <4>2. Len(file) \in Nat
        BY <1>2
      <4> QED BY <1>9, <2>2, <3>1, <4>1, <4>2
    <3>3. IsState(x) /\ x.prep = <<>> /\ g % bucket = 0
      BY <1>1, <1>2, <1>3, <1>6 DEF StateOk, BasicOk
    <3> HIDE DEF x, g
    <3>4. y = [x EXCEPT !.at = "fold", !.goal = g]
      BY <2>2 DEF x, g
    <3>5. /\ IsState(y) /\ y.at = "fold" /\ y.goal = g /\ y.mem = x.mem /\ y.last = x.last
          /\ y.prep = <<>> /\ y.push = x.push
      BY <3>3, <3>4 DEF IsState, Fields
    <3>6. <<>> \in Seq(Nat)
      OBVIOUS
    <3>7. BasicOk(r, x) /\ (x.push # 0 => x.push \in ToSet(x.mem))
      BY <1>3, <1>4 DEF x
    <3> QED BY <1>4, <3>1, <3>2, <3>3, <3>5, <3>6, <3>7 DEF BasicOk, StateOk, Labels, Out
  <2> QED BY <1>7, <2>1, <2>2
<1>12. NodeStep
  BY <1>2, <1>7, <1>9, <1>10, <1>11, BecomesStep
<1> QED BY <1>9, <1>12

LEMMA FoldKeeps ==
    ASSUME RInv, NEW r \in Runners, Fold(r)
    PROVE  NodeStep
<1> DEFINE x == Folded(run[r])
<1>1. run[r].at = "fold" /\ UNCHANGED <<file, misled>>
  BY DEF Fold
<1>2. /\ StateOk(r, run[r]) /\ file \in Seq(LineSet) /\ stored \in Seq(Nat) /\ RunInv
  BY DEF RInv, RunInv, LedgerType
<1>3. /\ run[r].prep = <<>> /\ HasSink(r) /\ run[r].goal % bucket = 0
      /\ run[r].push # 0 => run[r].push \in ToSet(run[r].mem)
      /\ ~misled => Len(run[r].mem) <= run[r].goal
  BY <1>1, <1>2 DEF StateOk
<1>4. /\ BasicOk(r, x) /\ IsPrefix(run[r].mem, x.mem) /\ x.prep = <<>>
      /\ x.push = run[r].push /\ x.goal = run[r].goal
  BY <1>1, <1>2, <1>3, FoldedIsBasic
<1>5. BasicOk(r, run[r])
  BY <1>1, <1>2, StateIsBasic DEF Out
<1>6. PICK y : /\ Becomes(r, y)
               /\ \/ y = Idle(run[r])
                  \/ y = Idle(x)
                  \/ ~(Len(x.mem) < x.goal) /\ y = Prepared(x, x.goal)
  BY DEF Fold, Goal
<1> HIDE DEF x
<1>7. StateOk(r, y)
  <2>1. CASE y = Idle(run[r])
    BY <1>5, <2>1, IdleOk
  <2>2. CASE y = Idle(x)
    BY <1>4, <2>2, IdleOk
  <2>3. CASE ~(Len(x.mem) < x.goal) /\ y = Prepared(x, x.goal)
    <3>1. x.mem \in Seq(Nat) /\ x.goal \in Nat /\ run[r].mem \in Seq(Nat)
      BY <1>4, <1>5 DEF BasicOk
    <3>2. x.goal \in 0 .. Len(x.mem)
      BY <2>3, <3>1
    <3>3. ASSUME x.push # 0, ~misled PROVE \E i \in 1 .. x.goal : x.mem[i] = x.push
      <4>0. DOMAIN run[r].mem = 1 .. Len(run[r].mem)
        BY <3>1
      <4>1. PICK i \in 1 .. Len(run[r].mem) : run[r].mem[i] = x.push
        BY <1>3, <1>4, <3>3, <4>0 DEF ToSet
      <4>2. x.mem[i] = x.push
        BY <1>4, <3>1, <4>1, PrefixElts
      <4>3. i \in 1 .. x.goal
        BY <1>3, <1>4, <3>1, <3>3
      <4> QED BY <4>2, <4>3
    <3> QED BY <1>3, <1>4, <2>3, <3>2, <3>3, PreparedIsOk
  <2> QED BY <1>6, <2>1, <2>2, <2>3
<1> QED BY <1>1, <1>2, <1>6, <1>7, BecomesStep, NothingExtends

-----------------------------------------------------------------------------
(* The chain of the cuts.                                                   *)

\* A cut that names a head, and holds more.
LEMMA CutAppended ==
    ASSUME CutsInv, NEW c \in CutSet, Heads(c.prev), IsStrictPrefix(c.prev, c.leaves),
           layout = "stores" => c.how = "written", layout \in {"flat", "stores"},
           layout' = layout, cuts' = Append(cuts, c)
    PROVE  /\ CutsInv' /\ Last(cuts') = c
           /\ c.how # "written" => \A root : Heads(root) => Heads(root)'
           /\ Heads(c.leaves)'
<1>1. cuts \in Seq(CutSet) /\ CutsChain /\ Len(cuts) \in Nat
  BY DEF CutsInv
<1> DEFINE n == Len(cuts) + 1
<1>2. /\ cuts' \in Seq(CutSet) /\ Len(cuts') = n /\ cuts'[n] = c /\ cuts' # <<>>
      /\ DOMAIN cuts' = 1 .. n /\ DOMAIN cuts = 1 .. Len(cuts)
      /\ \A k \in 1 .. Len(cuts) : cuts'[k] = cuts[k]
  BY <1>1, AppendProperties
<1>3. Last(cuts') = c
  BY <1>2 DEF Last
<1>4. ASSUME NEW k \in 1 .. n
      PROVE  /\ IsStrictPrefix(cuts'[k].prev, cuts'[k].leaves)
             /\ \E j \in 0 .. k - 1 :
                   /\ cuts'[k].prev = IF j = 0 THEN <<>> ELSE cuts'[j].leaves
                   /\ \A i \in j + 1 .. k - 1 : layout = "flat" /\ cuts'[i].how # "written"
  <2>1. CASE k = n
    <3>1. PICK j \in 0 .. Len(cuts) :
              /\ c.prev = IF j = 0 THEN <<>> ELSE cuts[j].leaves
              /\ \A i \in j + 1 .. Len(cuts) : cuts[i].how # "written"
      BY DEF Heads
    <3>2. j \in 0 .. k - 1 /\ (j # 0 => j \in 1 .. Len(cuts)) /\ k - 1 = Len(cuts)
      BY <1>1, <2>1
    <3>3. ASSUME NEW i \in j + 1 .. k - 1 PROVE layout = "flat" /\ cuts'[i].how # "written"
      <4>1. i \in 1 .. Len(cuts) /\ i \in j + 1 .. Len(cuts)
        BY <1>1, <3>2
      <4>2. cuts'[i] = cuts[i] /\ cuts[i].how # "written"
        BY <1>2, <3>1, <4>1
      <4> QED BY <1>2, <4>1, <4>2 DEF CutsInv
    <3>4. c.prev = IF j = 0 THEN <<>> ELSE cuts'[j].leaves
      BY <1>2, <3>1, <3>2
    <3> HIDE DEF n
    <3> QED BY <1>2, <2>1, <3>2, <3>3, <3>4
  <2>2. CASE k # n
    <3>1. k \in 1 .. Len(cuts)
      BY <1>1, <2>2
    <3>2. /\ IsStrictPrefix(cuts[k].prev, cuts[k].leaves)
          /\ \E j \in 0 .. k - 1 :
                /\ cuts[k].prev = IF j = 0 THEN <<>> ELSE cuts[j].leaves
                /\ \A i \in j + 1 .. k - 1 : layout = "flat" /\ cuts[i].how # "written"
      BY <1>1, <1>2, <3>1 DEF CutsChain
    <3>3. PICK j \in 0 .. k - 1 :
                /\ cuts[k].prev = IF j = 0 THEN <<>> ELSE cuts[j].leaves
                /\ \A i \in j + 1 .. k - 1 : layout = "flat" /\ cuts[i].how # "written"
      BY <3>2
    <3>4. /\ j # 0 => j \in 1 .. Len(cuts)
          /\ \A i \in j + 1 .. k - 1 : i \in 1 .. Len(cuts)
      BY <1>1, <3>1
    <3>5. cuts'[k] = cuts[k] /\ (j # 0 => cuts'[j] = cuts[j])
          /\ \A i \in j + 1 .. k - 1 : cuts'[i] = cuts[i]
      BY <1>2, <3>1, <3>4
    <3> HIDE DEF n
    <3> QED BY <3>2, <3>3, <3>5
  <2> QED BY <2>1, <2>2
<1>5. CutsChain'
  BY <1>2, <1>4 DEF CutsChain
<1>6. ASSUME layout = "stores", NEW k \in 1 .. n PROVE cuts'[k].how = "written"
  <2>1. k = n \/ k \in 1 .. Len(cuts)
    BY <1>1
  <2> HIDE DEF n
  <2> QED BY <1>2, <1>6, <2>1 DEF CutsInv
<1>7. CutsInv'
  BY <1>2, <1>5, <1>6 DEF CutsInv
<1>8. ASSUME c.how # "written", NEW root, Heads(root) PROVE Heads(root)'
  <2>1. PICK j \in 0 .. Len(cuts) :
            /\ root = IF j = 0 THEN <<>> ELSE cuts[j].leaves
            /\ \A i \in j + 1 .. Len(cuts) : cuts[i].how # "written"
    BY <1>8 DEF Heads
  <2>2. j \in 0 .. n /\ (j # 0 => j \in 1 .. Len(cuts))
    BY <1>1
  <2>3. ASSUME NEW i \in j + 1 .. n PROVE cuts'[i].how # "written"
    <3>1. i = n \/ (i \in j + 1 .. Len(cuts) /\ i \in 1 .. Len(cuts))
      BY <1>1
    <3> HIDE DEF n
    <3> QED BY <1>2, <1>8, <2>1, <3>1
  <2>4. root = IF j = 0 THEN <<>> ELSE cuts'[j].leaves
    BY <1>2, <2>1, <2>2
  <2> HIDE DEF n
  <2> QED BY <1>2, <2>2, <2>3, <2>4 DEF Heads
<1>9. Heads(c.leaves)'
  <2>1. n \in 0 .. n /\ n # 0 /\ n + 1 .. n = {}
    BY <1>1
  <2> HIDE DEF n
  <2> QED BY <1>2, <2>1 DEF Heads
<1> QED BY <1>3, <1>7, <1>8, <1>9

ledgerLines == <<layout, file, torn, bodies, led, sealed, misled, bucket>>

\* What a commit does to the cuts and to its runner.
Committed(r, y, how) ==
    LET x == run[r]
    IN \/ cuts' = cuts /\ y.last = x.last
       \/ /\ cuts' = Append(cuts, Cut(r, how)) /\ Heads(x.last)
          /\ how \in {"written", "unheard", "torn", "glued"}
          /\ layout = "stores" => how = "written"
          /\ y.last \in {x.last, x.prep}
          /\ layout = "flat" /\ how = "written" => y.last = x.prep

LEMMA CommitIs ==
    ASSUME RInv, NEW r \in Runners, CommitFlat(r) \/ CommitStores(r)
    PROVE  /\ run[r].at = "commit" /\ UNCHANGED ledgerLines
           /\ stored' \in Seq(Nat)
           /\ \E y, how :
                 /\ run' = [run EXCEPT ![r] = y] /\ IsState(y)
                 /\ y.at \in {"idle", "send"} /\ y.mem = run[r].mem /\ y.prep = <<>>
                 /\ y.push \in Nat /\ y.goal \in Nat /\ Committed(r, y, how)
<1> DEFINE x == run[r]
<1>1. /\ x.at = "commit" /\ UNCHANGED ledgerLines
  BY DEF CommitFlat, CommitStores, ledgerLines
<1>2. StateOk(r, x) /\ stored \in Seq(Nat) /\ CutsInv
  BY DEF RInv, RunInv
<1>3. IsState(x) /\ x.mem \in Seq(Nat) /\ (layout = "flat" => Heads(x.last))
  BY <1>1, <1>2 DEF StateOk, Out
<1>4. stored' \in Seq(Nat)
  BY <1>2, <1>3 DEF CommitFlat, CommitStores
<1>5. Rested(x, Idle(x)) /\ Idle(x).at = "idle"
  BY <1>3, IdleIs
<1>6. CASE run' = [run EXCEPT ![r] = Idle(x)]
           /\ \/ cuts' = cuts
              \/ cuts' = Append(cuts, Cut(r, "written")) /\ Heads(x.last) /\ layout # "flat"
              \/ /\ \E how \in {"unheard", "torn"} : cuts' = Append(cuts, Cut(r, how))
                 /\ Heads(x.last) /\ layout = "flat"
  <2>1. \E how : Committed(r, Idle(x), how)
    <3>1. Idle(x).last = x.last
      BY <1>5 DEF Rested
    <3> QED BY <1>6, <3>1 DEF Committed
  <2> HIDE DEF x
  <2>2. Idle(x).push \in Nat /\ Idle(x).goal \in Nat
    BY <1>5 DEF Rested
  <2> QED BY <1>1, <1>4, <1>5, <1>6, <2>1, <2>2 DEF Rested, x
<1>7. CASE /\ CommitFlat(r)
           /\ \E how \in {"written", "glued"} : cuts' = Append(cuts, Cut(r, how))
           /\ run' = [run EXCEPT ![r] =
                         [Idle(x) EXCEPT !.last = x.prep, !.deferred = @ \/ ~x.register]]
  <2> DEFINE i == Idle(x)
  <2>1. PICK v : v = (i.deferred \/ ~x.register)
    OBVIOUS
  <2> DEFINE y == [i EXCEPT !.last = x.prep, !.deferred = v]
  <2>2. run' = [run EXCEPT ![r] = y]
    BY <1>7, <2>1
  <2>3. /\ IsState(i) /\ i.at = "idle" /\ i.mem = x.mem /\ i.prep = <<>> /\ i.push = 0 /\ i.goal = 0
    BY <1>5 DEF Rested
  <2>4. /\ IsState(y) /\ y.at = "idle" /\ y.mem = x.mem /\ y.prep = <<>> /\ y.push = 0
        /\ y.goal = 0 /\ y.last = x.prep
    <3> HIDE DEF i, x
    <3> QED BY <2>3 DEF IsState, Fields
  <2>5. Heads(x.last) /\ layout = "flat"
    BY <1>3, <1>7 DEF CommitFlat
  <2> HIDE DEF y
  <2>6. \E how : Committed(r, y, how)
    BY <1>7, <2>4, <2>5 DEF Committed
  <2>7. y.push \in Nat /\ y.goal \in Nat
    BY <2>4
  <2> QED BY <1>1, <1>4, <2>2, <2>4, <2>6, <2>7
<1>8. CASE /\ CommitStores(r) /\ Heads(x.last) /\ cuts' = Append(cuts, Cut(r, "written"))
           /\ \E v : LET c == [x EXCEPT !.last = x.prep, !.seen = x.mem, !.queue = v]
                     IN run' = [run EXCEPT ![r] =
                            IF x.register THEN Delivers(Idle(c))
                            ELSE [Idle(c) EXCEPT !.deferred = TRUE]]
  <2>1. PICK v : LET c == [x EXCEPT !.last = x.prep, !.seen = x.mem, !.queue = v]
                 IN run' = [run EXCEPT ![r] =
                        IF x.register THEN Delivers(Idle(c))
                        ELSE [Idle(c) EXCEPT !.deferred = TRUE]]
    BY <1>8
  <2> DEFINE c == [x EXCEPT !.last = x.prep, !.seen = x.mem, !.queue = v]
             y == IF x.register THEN Delivers(Idle(c))
                  ELSE [Idle(c) EXCEPT !.deferred = TRUE]
  <2>2. run' = [run EXCEPT ![r] = y]
    BY <2>1
  <2>3. IsState(c) /\ c.mem = x.mem /\ c.last = x.prep
    <3> HIDE DEF x
    <3> QED BY <1>3 DEF IsState, Fields
  <2>4. Rested(c, Idle(c)) /\ Idle(c).at = "idle"
    <3> HIDE DEF c
    <3> QED BY <2>3, IdleIs
  <2>5. /\ IsState(y) /\ y.at \in {"idle", "send"} /\ y.mem = x.mem /\ y.prep = <<>> /\ y.push = 0
        /\ y.goal = 0 /\ y.last = x.prep
    <3> HIDE DEF c, x
    <3> QED BY <2>3, <2>4 DEF Rested, IsState, Fields, Delivers
  <2> HIDE DEF y
  <2>6. Committed(r, y, "written")
    BY <1>8, <2>5 DEF Committed
  <2>7. y.push \in Nat /\ y.goal \in Nat
    BY <2>5
  <2> QED BY <1>1, <1>4, <2>2, <2>5, <2>6, <2>7
<1>9. CASE CommitFlat(r)
  <2>1. layout = "flat" /\ Heads(x.last)
    BY <1>3, <1>9 DEF CommitFlat
  <2>2. \/ /\ \E how \in {"written", "glued"} : cuts' = Append(cuts, Cut(r, how))
           /\ run' = [run EXCEPT ![r] =
                         [Idle(x) EXCEPT !.last = x.prep, !.deferred = @ \/ ~x.register]]
        \/ /\ run' = [run EXCEPT ![r] = Idle(x)]
           /\ cuts' = cuts \/ \E how \in {"unheard", "torn"} : cuts' = Append(cuts, Cut(r, how))
    BY <1>9 DEF CommitFlat, CutLine
  <2> QED BY <1>6, <1>7, <1>9, <2>1, <2>2
<1>10. CASE CommitStores(r)
  <2>1. NotMoved(x) => Heads(x.last)
    BY <1>2, LatestType DEF NotMoved
  <2>2. layout # "flat"
    BY <1>10 DEF CommitStores
  <2> QED BY <1>6, <1>8, <1>10, <2>1, <2>2 DEF CommitStores
<1> QED BY <1>9, <1>10

LEMMA CommitKeeps ==
    ASSUME RInv, NEW r \in Runners, CommitFlat(r) \/ CommitStores(r)
    PROVE  /\ NodeStep /\ CutsInv'
           /\ cuts' # cuts => \E how : Last(cuts') = Cut(r, how)
<1>1. /\ run[r].at = "commit" /\ UNCHANGED ledgerLines /\ stored' \in Seq(Nat)
  BY CommitIs
<1>2. PICK y, how :
          /\ run' = [run EXCEPT ![r] = y] /\ IsState(y)
          /\ y.at \in {"idle", "send"} /\ y.mem = run[r].mem /\ y.prep = <<>>
          /\ y.push \in Nat /\ y.goal \in Nat /\ Committed(r, y, how)
  BY CommitIs
<1> DEFINE x == run[r]
<1>3. /\ StateOk(r, x) /\ RunInv /\ CutsInv /\ file \in Seq(LineSet)
      /\ layout \in {"flat", "stores"} /\ layout' = layout
  BY <1>1 DEF RInv, RunInv, LedgerType, ledgerLines
<1>4. BasicOk(r, x) /\ PreparedOk(r, x) /\ x.prep \in Seq(Nat)
  BY <1>1, <1>3, StateIsBasic DEF StateOk, Out
<1>5. CASE cuts' = cuts /\ y.last = x.last
  <2>1. Resting(x, y)
    BY <1>2, <1>5 DEF Resting
  <2>2. StateOk(r, y)
    BY <1>4, <2>1, RestingOk
  <2>3. RunInv'
    BY <1>1, <1>2, <1>3, <1>5, <2>2, MoveStep, NothingExtends DEF ledgerLines
  <2>4. CutsInv'
    BY <1>3, <1>5 DEF CutsInv, CutsChain
  <2> QED BY <1>1, <1>5, <2>3, <2>4 DEF NodeStep
<1>6. CASE /\ cuts' = Append(cuts, Cut(r, how)) /\ Heads(x.last)
           /\ how \in {"written", "unheard", "torn", "glued"}
           /\ layout = "stores" => how = "written"
           /\ y.last \in {x.last, x.prep}
           /\ layout = "flat" /\ how = "written" => y.last = x.prep
  <2>1. PICK c, prep : c = Cut(r, how) /\ prep = x.prep
    OBVIOUS
  <2>2. c \in CutSet /\ c.prev = x.last /\ c.leaves = prep /\ c.how = how
    <3>1. x.prep \in Seq(Nat) /\ x.last \in Seq(Nat) /\ HasSink(r) \in BOOLEAN
      BY <1>4 DEF BasicOk, HasSink
    <3> QED BY <1>6, <2>1, <3>1 DEF Cut, CutSet
  <2>6. CutsInv' /\ Last(cuts') = c
    <3>1. Heads(c.prev) /\ IsStrictPrefix(c.prev, c.leaves) /\ cuts' = Append(cuts, c)
      BY <1>4, <1>6, <2>1, <2>2 DEF PreparedOk
    <3> QED BY <1>3, <1>6, <2>2, <3>1, CutAppended
  <2>7. layout = "flat" => Heads(y.last)'
    <3>1. PICK last : last = y.last
      OBVIOUS
    <3>2. Heads(c.prev) /\ IsStrictPrefix(c.prev, c.leaves) /\ cuts' = Append(cuts, c)
      BY <1>4, <1>6, <2>1, <2>2 DEF PreparedOk
    <3>3. how # "written" => \A root : Heads(root) => Heads(root)'
      BY <1>3, <1>6, <2>2, <3>2, CutAppended
    <3>4. Heads(c.leaves)'
      BY <1>3, <1>6, <2>2, <3>2, CutAppended
    <3>5. last = c.leaves \/ (last = c.prev /\ (layout = "flat" => how # "written" \/ last = c.leaves))
      BY <1>6, <2>1, <2>2, <3>1
    <3>6. layout = "flat" => Heads(last)'
      BY <3>2, <3>3, <3>4, <3>5
    <3> QED BY <3>1, <3>6
  <2>3. ASSUME NEW q \in Runners \ {r} PROVE Grew(run[q])
    <3>1. layout = "flat" => run[q].at \in Out
      BY <1>3, <1>4, <2>3 DEF RunInv, StateOk, BasicOk, Out
    <3> QED BY <1>1, <1>3, <3>1, NothingExtends DEF Grew, ledgerLines
  <2>4. StateOk(r, y)'
    <3>1. y.mem \in Seq(Nat) /\ y.last \in Seq(Nat) /\ <<>> \in Seq(Nat)
      BY <1>2, <1>4, <1>6 DEF BasicOk
    <3>2. IsPrefix(y.mem, Ids(file'))
      BY <1>1, <1>2, <1>4 DEF BasicOk, ledgerLines
    <3>3. layout' = "flat" => r = Writer
      BY <1>3, <1>4 DEF BasicOk
    <3>4. layout' = "flat" => Heads(y.last)'
      BY <1>3, <2>7
    <3> QED BY <1>2, <3>1, <3>2, <3>3, <3>4 DEF StateOk, Labels, Out
  <2>5. RunInv'
    BY <1>2, <1>3, <2>3, <2>4, RunStep
  <2> QED BY <1>1, <2>1, <2>5, <2>6 DEF NodeStep
<1> QED BY <1>2, <1>5, <1>6 DEF Committed

-----------------------------------------------------------------------------
(* Witnesses.                                                               *)

\* What is offered stays what it is until it is committed.
LEMMA OfferKeeps ==
    ASSUME RInv, NEW r \in Runners, Offer(r)
    PROVE  NodeStep
<1> DEFINE x == run[r]
<1>1. x.at = "offer" /\ UNCHANGED ledgerLines /\ UNCHANGED <<cuts, stored>>
  BY DEF Offer, ledgerLines
<1>2. /\ StateOk(r, x) /\ RunInv /\ file \in Seq(LineSet) /\ stored \in Seq(Nat)
  BY DEF RInv, RunInv, LedgerType
<1>3. BasicOk(r, x)
  BY <1>1, <1>2, StateIsBasic DEF Out
<1>4. PICK v1, v2, v3, y :
          /\ y = [x EXCEPT !.todo = v1, !.pending = v2, !.given = v3]
          /\ run' = [run EXCEPT ![r] =
                IF y.todo # <<>> THEN y
                ELSE IF x.prep # <<>> THEN [y EXCEPT !.at = "commit"] ELSE Idle(y)]
  <2> DEFINE w == Head(x.todo)
  <2>1. PICK o :
            LET y == [x EXCEPT !.todo = Tail(@),
                               !.pending = IF o.says = "pending" THEN @ \cup {w} ELSE @,
                               !.given = IF o.says = "receipt" THEN @ \cup {w} ELSE @]
            IN run' = [run EXCEPT ![r] =
                   IF y.todo # <<>> THEN y
                   ELSE IF x.prep # <<>> THEN [y EXCEPT !.at = "commit"] ELSE Idle(y)]
    BY DEF Offer
  <2> DEFINE v1 == Tail(x.todo)
             v2 == IF o.says = "pending" THEN x.pending \cup {w} ELSE x.pending
             v3 == IF o.says = "receipt" THEN x.given \cup {w} ELSE x.given
             y == [x EXCEPT !.todo = v1, !.pending = v2, !.given = v3]
  <2>2. run' = [run EXCEPT ![r] =
            IF y.todo # <<>> THEN y
            ELSE IF x.prep # <<>> THEN [y EXCEPT !.at = "commit"] ELSE Idle(y)]
    BY <2>1
  <2> HIDE DEF v1, v2, v3
  <2> QED BY <2>2
<1> HIDE DEF x
<1>5. IsState(y) /\ Alike(x, y) /\ y.at = "offer"
  BY <1>1, <1>3, <1>4 DEF BasicOk, IsState, Alike, Fields
<1>6. ASSUME NEW z, IsState(z), Alike(x, z), z.at = "offer" \/ (z.at = "commit" /\ x.prep # <<>>)
      PROVE  StateOk(r, z)
  <2>1. x.prep # <<>> => PreparedOk(r, z)
    BY <1>2, <1>6 DEF StateOk, PreparedOk, Alike
  <2> QED BY <1>1, <1>2, <1>6, <2>1 DEF StateOk, Alike, Labels, Out
<1>7. PICK z : run' = [run EXCEPT ![r] = z] /\ StateOk(r, z)
  <2>1. CASE y.todo # <<>>
    BY <1>4, <1>5, <1>6, <2>1
  <2>2. CASE y.todo = <<>> /\ x.prep # <<>>
    <3> DEFINE z == [y EXCEPT !.at = "commit"]
    <3>1. IsState(z) /\ Alike(x, z) /\ z.at = "commit"
      BY <1>5 DEF IsState, Alike, Fields
    <3>2. run' = [run EXCEPT ![r] = z]
      BY <1>4, <2>2
    <3> HIDE DEF z
    <3> QED BY <1>6, <2>2, <3>1, <3>2
  <2>3. CASE y.todo = <<>> /\ x.prep = <<>>
    <3>1. run' = [run EXCEPT ![r] = Idle(y)]
      BY <1>4, <2>3
    <3>2. BasicOk(r, y)
      BY <1>1, <1>3, <1>5 DEF BasicOk, Alike, Labels
    <3> QED BY <3>1, <3>2, IdleOk
  <2> QED BY <2>1, <2>2, <2>3
<1>8. RunInv'
  BY <1>1, <1>2, <1>7, MoveStep, NothingExtends DEF ledgerLines
<1> QED BY <1>1, <1>2, <1>8 DEF NodeStep

\* The ways a delivery pass goes on.
LEMMA PassIs ==
    ASSUME NEW x, IsState(x), x.prep = <<>>, x.push \in Nat, x.goal \in Nat,
           x.at \in {"send", "record"}, NEW w, NEW v1, NEW v2
    PROVE  /\ Resting(x, Leaves(x)) /\ Resting(x, Pops(x, w))
           /\ Resting(x, [Pops(x, w) EXCEPT !.at = "send", !.answer = v1])
           /\ Resting(x, [x EXCEPT !.at = "record", !.answer = v1])
           /\ Resting(x, [x EXCEPT !.at = "send", !.answer = v1, !.caught = v2])
           /\ Resting(x, Leaves([x EXCEPT !.caught = v2]))
           /\ Resting(x, Leaves([x EXCEPT !.queue = v1, !.answer = v2]))
           /\ Resting(x, [[x EXCEPT !.queue = v1, !.answer = v2] EXCEPT !.at = "send"])
<1>1. Resting(x, Leaves(x))
  BY LeavesIs
<1>2. IsState(Pops(x, w)) /\ Resting(x, Pops(x, w))
  BY PopsIs DEF Alike, Resting
<1>3. ASSUME NEW z, IsState(z), Resting(x, z)
      PROVE  /\ Resting(x, [z EXCEPT !.at = "send", !.answer = v1])
             /\ Resting(x, [z EXCEPT !.at = "send"])
             /\ Resting(x, Leaves(z))
  <2>1. /\ Resting(x, [z EXCEPT !.at = "send", !.answer = v1])
        /\ Resting(x, [z EXCEPT !.at = "send"])
    BY <1>3 DEF IsState, Resting, Fields
  <2>2. Resting(z, Leaves(z))
    BY <1>3, LeavesIs DEF Resting
  <2> QED BY <1>3, <2>1, <2>2 DEF Resting
<1>4. Resting(x, [x EXCEPT !.at = "record", !.answer = v1])
  BY DEF IsState, Resting, Fields
<1>5. Resting(x, [x EXCEPT !.at = "send", !.answer = v1, !.caught = v2])
  BY DEF IsState, Resting, Fields
<1>6. IsState([x EXCEPT !.caught = v2]) /\ Resting(x, [x EXCEPT !.caught = v2])
  BY DEF IsState, Resting, Fields
<1>7. /\ IsState([x EXCEPT !.queue = v1, !.answer = v2])
      /\ Resting(x, [x EXCEPT !.queue = v1, !.answer = v2])
  BY DEF IsState, Resting, Fields
<1> QED BY <1>1, <1>2, <1>3, <1>4, <1>5, <1>6, <1>7

\* r goes on at rest.
GoesOn(r) == \E y : run' = [run EXCEPT ![r] = y] /\ Resting(run[r], y)

LEMMA Goes ==
    ASSUME NEW r, NEW y, run' = [run EXCEPT ![r] = y], Resting(run[r], y)
    PROVE  GoesOn(r)
  BY DEF GoesOn

LEMMA DeliverIs ==
    ASSUME NEW r, Deliver(r), IsState(run[r]), run[r].prep = <<>>,
           run[r].push \in Nat, run[r].goal \in Nat
    PROVE  UNCHANGED ledgerLines /\ UNCHANGED <<cuts, stored>> /\ GoesOn(r)
<1> DEFINE x == run[r]
<1>1. UNCHANGED ledgerLines /\ UNCHANGED <<cuts, stored>>
  BY DEF Deliver, Skip, Submit, RecordReceipt, RecordFailure, CloseAhead, CatchUp, Untouched,
         ledgerLines
<1>2. x.at \in {"send", "record"}
  BY DEF Deliver, Skip, Submit, RecordReceipt, RecordFailure, CloseAhead, CatchUp
<1>3. SUFFICES GoesOn(r)
  BY <1>1
<1>4. /\ Resting(x, Leaves(x))
      /\ \A w : Resting(x, Pops(x, w))
      /\ \A w : Resting(x, [Pops(x, w) EXCEPT !.at = "send", !.answer = None])
      /\ \A v : Resting(x, [x EXCEPT !.at = "record", !.answer = v])
      /\ Resting(x, [x EXCEPT !.at = "send", !.answer = None, !.caught = TRUE])
      /\ Resting(x, Leaves([x EXCEPT !.caught = TRUE]))
      /\ \A v : /\ Resting(x, Leaves([x EXCEPT !.queue = v, !.answer = None]))
                /\ Resting(x, [[x EXCEPT !.queue = v, !.answer = None] EXCEPT !.at = "send"])
  <2> HIDE DEF x
  <2>1. IsState(x) /\ x.prep = <<>> /\ x.push \in Nat /\ x.goal \in Nat
    BY DEF x
  <2> QED BY <1>2, <2>1, PassIs
<1>5. run' = [run EXCEPT ![r] = Leaves(x)] => GoesOn(r)
  BY <1>4, Goes
<1>6. CASE Skip(r)
  <2>1. PICK y : run' = [run EXCEPT ![r] = y] /\ y \in {Leaves(x), Pops(x, Head(x.todo))}
    BY <1>6 DEF Skip
  <2>2. Resting(x, y)
    BY <1>4, <2>1
  <2> QED BY Goes, <2>1, <2>2
<1>7. CASE Submit(r)
  <2>1. PICK v : run' = [run EXCEPT ![r] = [x EXCEPT !.at = "record", !.answer = v]]
    BY <1>7 DEF Submit
  <2>2. PICK y : y = [x EXCEPT !.at = "record", !.answer = v]
    OBVIOUS
  <2>3. Resting(x, y)
    BY <1>4, <2>2
  <2> QED BY Goes, <2>1, <2>2, <2>3
<1>8. CASE RecordReceipt(r)
  <2>1. PICK y : /\ run' = [run EXCEPT ![r] = y]
                 /\ \/ y = Leaves(x)
                    \/ y = [Pops(x, Head(x.todo)) EXCEPT !.at = "send", !.answer = None]
    BY <1>8 DEF RecordReceipt
  <2>2. Resting(x, y)
    BY <1>4, <2>1
  <2> QED BY Goes, <2>1, <2>2
<1>9. CASE RecordFailure(r)
  <2>1. run' = [run EXCEPT ![r] = Leaves(x)]
    BY <1>9 DEF RecordFailure, Fails
  <2> QED BY <1>5, <2>1
<1>10. CASE CloseAhead(r)
  <2> DEFINE w == Head(x.todo)
             drops(n) == [x EXCEPT !.queue[w] = SubSeq(@, n + 1, Len(@)), !.answer = None]
  <2>1. PICK n, y : /\ run' = [run EXCEPT ![r] = y]
                    /\ y = [drops(n) EXCEPT !.at = "send"] \/ y = Leaves(drops(n))
    BY <1>10 DEF CloseAhead
  <2>2. PICK v : drops(n) = [x EXCEPT !.queue = v, !.answer = None]
    OBVIOUS
  <2>3. PICK z : z = drops(n)
    OBVIOUS
  <2>4. z = [x EXCEPT !.queue = v, !.answer = None]
    BY <2>2, <2>3
  <2>5. y = [z EXCEPT !.at = "send"] \/ y = Leaves(z)
    BY <2>1, <2>3
  <2> HIDE DEF drops, x
  <2>6. Resting(x, Leaves(z)) /\ Resting(x, [z EXCEPT !.at = "send"])
    BY <1>4, <2>4
  <2>7. Resting(x, y)
    BY <2>5, <2>6
  <2> QED BY Goes, <2>1, <2>7 DEF x
<1>11. CASE CatchUp(r)
  <2>1. PICK y : /\ run' = [run EXCEPT ![r] = y]
                 /\ \/ y = [x EXCEPT !.at = "send", !.answer = None, !.caught = TRUE]
                    \/ y = Leaves([x EXCEPT !.caught = TRUE])
                    \/ y = Leaves(x)
    BY <1>11 DEF CatchUp, Fails
  <2>2. Resting(x, y)
    BY <1>4, <2>1
  <2> QED BY Goes, <2>1, <2>2
<1> QED BY <1>6, <1>7, <1>8, <1>9, <1>10, <1>11 DEF Deliver

LEMMA DeliverKeeps ==
    ASSUME RInv, NEW r \in Runners, Deliver(r)
    PROVE  NodeStep
<1>1. run[r].at \in {"send", "record"}
  BY DEF Deliver, Skip, Submit, RecordReceipt, RecordFailure, CloseAhead, CatchUp
<1>2. /\ StateOk(r, run[r]) /\ RunInv /\ file \in Seq(LineSet) /\ stored \in Seq(Nat)
  BY DEF RInv, RunInv, LedgerType
<1>3. BasicOk(r, run[r]) /\ run[r].prep = <<>>
  BY <1>1, <1>2, StateIsBasic DEF StateOk, Out
<1>4. UNCHANGED ledgerLines /\ UNCHANGED <<cuts, stored>> /\ GoesOn(r)
  BY <1>3, DeliverIs DEF BasicOk
<1>5. PICK y : run' = [run EXCEPT ![r] = y] /\ Resting(run[r], y)
  BY <1>4 DEF GoesOn
<1>6. StateOk(r, y)
  BY <1>3, <1>5, RestingOk
<1>7. RunInv'
  BY <1>2, <1>4, <1>5, <1>6, MoveStep, NothingExtends DEF ledgerLines
<1> QED BY <1>2, <1>4, <1>7 DEF NodeStep

-----------------------------------------------------------------------------
(* Deaths, and the node as a whole.                                         *)

\* What is not touched stays in order.
LEMMA SameLines ==
    ASSUME LedgerInv, UNCHANGED ledgerLines
    PROVE  LedgerInv'
<1>1. LedgerType'
  BY DEF LedgerInv, LedgerType, ledgerLines
<1>2. ReopenFindsTheChain'
  BY DEF LedgerInv, WriterInv, ReopenFindsTheChain, ledgerLines, Admitted, HeadBefore
<1> QED BY <1>1, <1>2 DEF LedgerInv, WriterInv, ledgerLines

\* A process that dies leaves a ledger that can be opened again.
LEMMA CrashKeeps ==
    ASSUME RInv, NEW r \in Runners, Crash(r)
    PROVE  LedgerInv' /\ NodeStep
<1>1. /\ run' = [run EXCEPT ![r] = Off] /\ UNCHANGED <<bucket, cuts, stored>>
      /\ run[r].at \notin {"off", "absent"} \/ r = Writer
  BY DEF Crash
<1>2. LedgerInv /\ RunInv /\ StateOk(r, run[r]) /\ file \in Seq(LineSet) /\ stored \in Seq(Nat)
  BY DEF RInv, LedgerInv, RunInv, LedgerType
<1>3. LedgerInv' /\ UNCHANGED <<layout, misled>> /\ file' \in Seq(LineSet) /\ Extends(file, file')
  <2>1. CASE r = Writer
    <3>1. LedgerDies
      BY <2>1 DEF Crash
    <3>2. Wrote
      BY <1>1, <1>2, <3>1, LedgerDiesKeeps
    <3> QED BY <3>1, <3>2 DEF LedgerDies, Wrote, LedgerInv, LedgerType
  <2>2. CASE r # Writer
    <3>1. UNCHANGED ledgerLines
      BY <1>1, <2>2 DEF Crash, ledgerLines
    <3> QED BY <1>2, <3>1, SameLines, NothingExtends DEF ledgerLines
  <2> QED BY <2>1, <2>2
<1>4. StateOk(r, Off)
  <2>1. layout = "flat" => r = Writer
    BY <1>1, <1>2 DEF StateOk
  <2>2. <<>> \in Seq(Nat)
    OBVIOUS
  <2> QED BY <2>1, <2>2, OffIs DEF StateOk, Labels, Out
<1>5. RunInv'
  BY <1>1, <1>2, <1>3, <1>4, MoveStep
<1> QED BY <1>1, <1>2, <1>3, <1>5 DEF NodeStep

\* With nobody running, what the lines are is nobody's concern.
LEMMA RewrittenRuns ==
    ASSUME RInv, Rewrite
    PROVE  RunInv'
<1>1. /\ UNCHANGED <<layout, run>> /\ \A r \in Runners : run[r].at \in Out
  BY DEF Rewrite, nodeVars, Out
<1>2. ASSUME NEW r \in Runners PROVE StateOk(r, run[r])'
  <2>1. StateOk(r, run[r]) /\ run[r].at \in Out
    BY <1>1 DEF RInv, RunInv
  <2> QED BY <1>1, <2>1 DEF StateOk, Out
<1> QED BY <1>1, <1>2 DEF RInv, RunInv

LEMMA InitHolds == ASSUME Init PROVE RInv
<1>1. PICK n \in Nodes :
          /\ layout = n.layout /\ bucket = n.bucket
          /\ run = [r \in Runners |-> IF r \in n.runners THEN Off ELSE [Off EXCEPT !.at = "absent"]]
  BY DEF Init, NodeInit
<1>2. /\ layout \in {"flat", "stores"} /\ bucket \in Nat
      /\ layout = "flat" => n.runners \subseteq {Writer}
  BY <1>1, NodesAssumption
<1>3. /\ file = <<>> /\ torn = FALSE /\ led = Closed /\ led.open = FALSE /\ sealed = 0
      /\ misled = FALSE /\ cuts = <<>> /\ stored = <<>>
  BY DEF Init, NodeInit, LedgerInit, Closed
<1>4. <<>> \in Seq(Nat) /\ <<>> \in Seq(LineSet) /\ <<>> \in Seq(CutSet) /\ DOMAIN <<>> = {}
  OBVIOUS
<1>5. LedgerType
  BY <1>2, <1>3, <1>4 DEF LedgerType
<1>6. WriterInv
  BY <1>3, <1>4 DEF WriterInv, ReopenFindsTheChain, Admitted
<1>7. CutsInv
  BY <1>3, <1>4 DEF CutsInv, CutsChain
<1>8. RunInv
  <2> DEFINE absent == [Off EXCEPT !.at = "absent"]
  <2>1. /\ IsState(absent) /\ absent.at = "absent" /\ absent.mem = <<>> /\ absent.last = <<>>
        /\ absent.prep = <<>> /\ absent.push = 0 /\ absent.goal = 0
    BY DEF Off, IsState, Fields
  <2> HIDE DEF absent
  <2>2. ASSUME NEW r \in Runners PROVE StateOk(r, run[r])
    <3>1. CASE r \in n.runners
      <4>1. run[r] = Off /\ (layout = "flat" => r = Writer)
        BY <1>1, <1>2, <3>1
      <4> QED BY <1>4, <4>1, OffIs DEF StateOk, Labels, Out
    <3>2. CASE r \notin n.runners
      <4>1. run[r] = absent
        BY <1>1, <3>2 DEF absent
      <4>2. StateOk(r, absent)
        BY <1>4, <2>1 DEF StateOk, Labels, Out
      <4> QED BY <4>1, <4>2
    <3> QED BY <3>1, <3>2
  <2>3. run = [r \in Runners |-> run[r]]
    BY <1>1
  <2> QED BY <2>2, <2>3 DEF RunInv
<1> QED BY <1>3, <1>4, <1>5, <1>6, <1>7, <1>8 DEF RInv

LEMMA LedgerKeeps ==
    ASSUME RInv, LedgerNext, OnlyLedger
    PROVE  RInv'
<1>1. UNCHANGED <<run, bucket, cuts, stored>> /\ LedgerInv
  BY DEF OnlyLedger, nodeVars, RInv, LedgerInv
<1>2. Wrote
  BY <1>1, OpenKeeps, Append1Keeps, WriteLineKeeps, WriteFailsKeeps DEF LedgerNext
<1>3. UNCHANGED layout /\ (misled => misled')
  BY DEF LedgerNext, OpenFlat, OpenStores, Append1, WriteLine, WriteFails, RInv, LedgerType
<1>4. RunInv'
  <2>1. RunInv /\ file \in Seq(LineSet) /\ file' \in Seq(LineSet) /\ Extends(file, file')
    BY <1>2 DEF RInv, Wrote, LedgerInv, LedgerType
  <2> QED BY <1>1, <1>3, <2>1, RunsCarry
<1>5. CutsInv' /\ stored' \in Seq(Nat)
  BY <1>1, <1>3 DEF RInv, CutsInv, CutsChain
<1> QED BY <1>2, <1>4, <1>5 DEF RInv, Wrote, LedgerInv

LEMMA NextKeeps ==
    ASSUME RInv, [Next]_vars
    PROVE  RInv'
<1>1. LedgerInv /\ RunInv /\ CutsInv /\ stored \in Seq(Nat) /\ file \in Seq(LineSet)
  BY DEF RInv, LedgerInv, LedgerType
<1>2. ASSUME NodeStep, LedgerInv', UNCHANGED <<cuts, layout>> PROVE RInv'
  BY <1>1, <1>2 DEF NodeStep, RInv, LedgerInv, CutsInv, CutsChain
<1>3. ASSUME NodeStep, UNCHANGED ledgerLines, UNCHANGED cuts PROVE RInv'
  BY <1>1, <1>2, <1>3, SameLines DEF ledgerLines
<1>4. CASE LedgerNext /\ OnlyLedger
  BY <1>4, LedgerKeeps
<1>5. ASSUME NEW r \in Runners, LoadFlat(r) \/ LoadLog(r) PROVE RInv'
  <2>1. UNCHANGED ledgerLines /\ UNCHANGED cuts
    BY <1>5 DEF LoadFlat, LoadLog, ledgerVars, ledgerLines
  <2> QED BY <1>3, <1>5, <2>1, LoadKeeps
<1>6. ASSUME NEW r \in Runners, Tick(r) \/ Push(r) \/ Reconnect(r) PROVE RInv'
  <2>1. UNCHANGED ledgerLines /\ UNCHANGED cuts
    BY <1>6 DEF Tick, Push, Reconnect, Quiet, Becomes, ledgerLines
  <2> QED BY <1>3, <1>6, <2>1, TickKeeps
<1>7. ASSUME NEW r \in Runners, Pad(r) PROVE RInv'
  <2>1. UNCHANGED <<cuts, layout>>
    BY <1>7 DEF Pad, Becomes
  <2>2. LedgerInv' /\ NodeStep
    BY <1>7, PadKeeps DEF Wrote
  <2> QED BY <1>2, <2>1, <2>2
<1>8. ASSUME NEW r \in Runners, Fold(r) PROVE RInv'
  <2>1. UNCHANGED ledgerLines /\ UNCHANGED cuts
    BY <1>8 DEF Fold, Becomes, ledgerLines
  <2> QED BY <1>3, <1>8, <2>1, FoldKeeps
<1>9. ASSUME NEW r \in Runners, CommitFlat(r) \/ CommitStores(r) PROVE RInv'
  <2>1. UNCHANGED ledgerLines
    BY <1>9, CommitIs
  <2>2. NodeStep /\ CutsInv'
    BY <1>9, CommitKeeps
  <2> QED BY <1>1, <2>1, <2>2, SameLines DEF NodeStep, RInv, LedgerInv
<1>10. ASSUME NEW r \in Runners, Offer(r) PROVE RInv'
  <2>1. UNCHANGED ledgerLines /\ UNCHANGED cuts
    BY <1>10 DEF Offer, ledgerLines
  <2> QED BY <1>3, <1>10, <2>1, OfferKeeps
<1>11. ASSUME NEW r \in Runners, Deliver(r) PROVE RInv'
  <2>1. UNCHANGED ledgerLines /\ UNCHANGED cuts
    BY <1>11 DEF Deliver, Skip, Submit, RecordReceipt, RecordFailure, CloseAhead, CatchUp,
                 Untouched, ledgerLines
  <2> QED BY <1>3, <1>11, <2>1, DeliverKeeps
<1>12. ASSUME NEW r \in Runners, Crash(r) PROVE RInv'
  <2>1. UNCHANGED <<cuts, layout>>
    BY <1>12 DEF Crash, LedgerDies
  <2> QED BY <1>2, <1>12, <2>1, CrashKeeps
<1>13. CASE (\E w \in Witnesses : Hold(w)) \/ UNCHANGED vars
  <2>1. UNCHANGED ledgerLines /\ UNCHANGED <<run, cuts, stored>>
    BY <1>13 DEF Hold, Untouched, ledgerLines, vars, ledgerVars, nodeVars
  <2>2. RunInv'
    <3>1. UNCHANGED <<run, bucket, cuts, layout, file, misled>>
      BY <2>1 DEF ledgerLines
    <3> QED BY <1>1, <3>1, RunsCarry, NothingExtends
  <2> QED BY <1>1, <1>3, <2>1, <2>2 DEF NodeStep
<1>14. CASE Rewrite
  <2>1. UNCHANGED <<cuts, stored, layout>>
    BY <1>14 DEF Rewrite, nodeVars
  <2>2. LedgerInv' /\ RunInv'
    BY <1>1, <1>14, RewriteKeeps, RewrittenRuns
  <2> QED BY <1>1, <1>2, <2>1, <2>2 DEF NodeStep
<1> QED BY <1>4, <1>5, <1>6, <1>7, <1>8, <1>9, <1>10, <1>11, <1>12, <1>13, <1>14 DEF Next

-----------------------------------------------------------------------------
(* What a step that cuts has cut.                                           *)

\* Only a commit adds a checkpoint.
LEMMA OnlyCommitsCut ==
    ASSUME [Next]_vars, cuts' # cuts
    PROVE  \E r \in Runners : CommitFlat(r) \/ CommitStores(r)
<1>1. ASSUME NEW r \in Runners,
             \/ LoadFlat(r) \/ LoadLog(r) \/ Tick(r) \/ Push(r) \/ Reconnect(r)
             \/ Pad(r) \/ Fold(r) \/ Offer(r) \/ Crash(r)
      PROVE  UNCHANGED cuts
  BY <1>1 DEF LoadFlat, LoadLog, Tick, Push, Reconnect, Pad, Fold, Offer, Crash, Becomes
<1>2. ASSUME NEW r \in Runners, Deliver(r) PROVE UNCHANGED cuts
  BY <1>2 DEF Deliver, Skip, Submit, RecordReceipt, RecordFailure, CloseAhead, CatchUp, Untouched
<1>3. (LedgerNext /\ OnlyLedger) \/ (\E w \in Witnesses : Hold(w)) \/ Rewrite \/ UNCHANGED vars
          => UNCHANGED cuts
  BY DEF OnlyLedger, Hold, Untouched, Rewrite, vars, nodeVars
<1> QED BY <1>1, <1>2, <1>3 DEF Next

LEMMA CutIsCovering ==
    ASSUME RInv, NEW r \in Runners, CommitFlat(r) \/ CommitStores(r), cuts' # cuts
    PROVE  /\ \E how : Last(cuts') = Cut(r, how)
           /\ file' = file
           /\ IsPrefix(run[r].prep, Ids(file))
           /\ HasSink(r) => Len(run[r].prep) % bucket = 0
           /\ run[r].push # 0 /\ ~misled => run[r].push \in ToSet(run[r].prep)
           /\ \A q \in Runners \ {r} : run'[q] = run[q]
<1>1. /\ \E how : Last(cuts') = Cut(r, how)
      /\ run[r].at = "commit" /\ UNCHANGED ledgerLines
      /\ \E y : run' = [run EXCEPT ![r] = y]
  BY CommitKeeps, CommitIs
<1>2. /\ StateOk(r, run[r]) /\ run = [q \in Runners |-> run[q]] /\ file \in Seq(LineSet)
  BY DEF RInv, RunInv, LedgerType
<1>3. /\ PreparedOk(r, run[r]) /\ IsPrefix(run[r].mem, Ids(file))
      /\ run[r].mem \in Seq(Nat) /\ run[r].prep \in Seq(Nat)
  BY <1>1, <1>2 DEF StateOk, Out
<1>4. IsPrefix(run[r].prep, Ids(file))
  BY <1>2, <1>3, IdsType, PrefixTrans DEF PreparedOk
<1>5. \A q \in Runners \ {r} : run'[q] = run[q]
  BY <1>1, <1>2
<1> QED BY <1>1, <1>3, <1>4, <1>5 DEF PreparedOk, ledgerLines

-----------------------------------------------------------------------------
(* Theorems.                                                                *)

\* The invariant the three theorems below rest on, of the writer, the cuts and
\* every runner (ledger.rs, checkpoint.rs).
THEOREM Inductive == Spec => []RInv
<1>1. Init => RInv
  BY InitHolds
<1>2. RInv /\ [Next]_vars => RInv'
  BY NextKeeps
<1> QED BY <1>1, <1>2, PTL DEF Spec

\* However a Rust node's writer, its padding and its deaths are interleaved, the
\* ledger can be opened again, and the writer's head and count are what
\* replaying the file gives, unless a write failed after it reached the disk
\* (Ledger::open(), write_line(), append_padding()).
THEOREM ReopenAlwaysFindsTheChain == Spec => []ReopenFindsTheChain
<1>1. RInv => ReopenFindsTheChain
  BY DEF RInv, WriterInv
<1> QED BY <1>1, Inductive, PTL

\* The checkpoints of a Rust node are one chain: each holds all the leaves of the
\* one it names, and more, and on a CLL log it names the one before it, with any
\* number of processes cutting that log and dying at any step
\* (prepare_checkpoint() and commit_cll()'s compare-and-set).  A line of
\* checkpoints.jsonl names the one before it, or an earlier one when every line
\* between them is of a failed write or cannot be read.
THEOREM CutsStayOneChain == Spec => []CutsChain
<1>1. RInv => CutsChain
  BY DEF RInv, CutsInv
<1> QED BY <1>1, Inductive, PTL

\* A checkpoint is of the ledger's first lines, on a bucket boundary where
\* padding is on, and of the record a push made it for (cut_leaf_count(),
\* prepare_checkpoint(), checkpoint_covering()).
THEOREM CutsAlwaysCoverTheLedger == Spec => CutsCoverTheLedger
<1>1. RInv /\ [Next]_vars => [CutIsTheLedger]_vars
  <2> SUFFICES ASSUME RInv, [Next]_vars, cuts' # cuts
               PROVE  /\ IsPrefix(Last(cuts').leaves, Ids(file'))
                      /\ Last(cuts').padded => Len(Last(cuts').leaves) % bucket = 0
    BY DEF CutIsTheLedger
  <2>1. PICK r \in Runners : CommitFlat(r) \/ CommitStores(r)
    BY OnlyCommitsCut
  <2>2. /\ \E how : Last(cuts') = Cut(r, how)
        /\ file' = file
        /\ IsPrefix(run[r].prep, Ids(file))
        /\ HasSink(r) => Len(run[r].prep) % bucket = 0
    BY <2>1, CutIsCovering
  <2>3. Last(cuts').leaves = run[r].prep /\ Last(cuts').padded = HasSink(r)
    BY <2>2 DEF Cut
  <2> QED BY <2>2, <2>3 DEF Ids
<1>2. RInv /\ [Next]_vars => [PushIsIn]_vars
  <2> SUFFICES ASSUME RInv, [Next]_vars, NEW q \in Runners,
                      cuts' # cuts, run[q].at = "commit", run'[q].at # "commit",
                      run[q].push # 0, ~misled
               PROVE  run[q].push \in ToSet(Last(cuts').leaves)
    BY DEF PushIsIn
  <2>1. PICK r \in Runners : CommitFlat(r) \/ CommitStores(r)
    BY OnlyCommitsCut
  <2>2. /\ \E how : Last(cuts') = Cut(r, how)
        /\ \A p \in Runners \ {r} : run'[p] = run[p]
        /\ run[r].push # 0 /\ ~misled => run[r].push \in ToSet(run[r].prep)
    BY <2>1, CutIsCovering
  <2>3. q = r
    BY <2>2
  <2>4. Last(cuts').leaves = run[r].prep
    BY <2>2 DEF Cut
  <2> QED BY <2>2, <2>3, <2>4
<1> QED BY <1>1, <1>2, Inductive, PTL DEF Spec, CutsCoverTheLedger, CutsAreTheLedger, PushIsCovered

-----------------------------------------------------------------------------
(* Rows, answers and queues                                                 *)

RowSet == {NoRow} \cup [st : {"open", "held", "receipt", "ahead"}, tries : Nat]
Sending == {"offer", "send", "record"}

Closed1(row) == row.st \in {"receipt", "ahead"}

\* What witnesses have, and what is on record of it.
WitnessesOk ==
    /\ tip = [w \in Witnesses |-> tip[w]] /\ took = [w \in Witnesses |-> took[w]]
    /\ \A w \in Witnesses : tip[w] \in took[w] \cup {<<>>, Foreign}
    /\ \A p \in receipts : p[1] \in Witnesses

RowsOk ==
    layout = "stores" =>
        /\ rows = [w \in Witnesses |-> rows[w]]
        /\ \A w \in Witnesses : rows[w] \in Seq(RowSet) /\ Len(rows[w]) = Len(cuts)

\* A queue holds cuts, oldest first.
QueueOk(q) ==
    /\ q \in Seq(Nat)
    /\ \A i \in DOMAIN q : q[i] \in DOMAIN cuts
    /\ \A i, j \in DOMAIN q : i < j => q[i] < q[j]

\* The answer in hand is of the front row of its witness, as it was then.
AnswerOk(x) ==
    LET w == Head(x.todo)
        a == x.answer
    IN /\ x.queue[w] # <<>> /\ a.k = Head(x.queue[w]) /\ a.tries \in Nat
       /\ rows[w][a.k].tries >= a.tries
       /\ rows[w][a.k].tries = a.tries => rows[w][a.k].st = "open"
       /\ a.says = "receipt" => cuts[a.k].leaves \in took[w]
       /\ a.says = "refused" => a.tip \in took[w] \cup {Foreign}

\* Cut k is still to be sent to w, or need not be.
Accounted(q, w, k) ==
    \/ k \in ToSet(q) \/ rows[w][k] = NoRow
    \/ \E c \in k .. Len(cuts) : Closed1(rows[w][c])

DeliversOk(x) ==
    /\ x.urls \in Seq(Witnesses) /\ x.todo \in Seq(Witnesses)
    /\ x.queue = [w \in Witnesses |-> x.queue[w]]
    /\ x.given \subseteq Witnesses
    /\ x.at \in Sending => x.todo # <<>>
    /\ layout = "stores" => x.at # "offer"
    /\ layout = "flat" => x.at \notin {"send", "record"}
    /\ layout = "stores" /\ x.at \notin Out => x.last \in {<<>>} \cup Roots
    /\ \A w \in Witnesses : QueueOk(x.queue[w])
    /\ x.at \notin {"offer", "commit"} => x.given = {}
    /\ x.prep # <<>> => \A w \in x.given : x.prep \in took[w]
    /\ x.at = "record" => AnswerOk(x)
    /\ layout = "stores" /\ x.at \notin Out /\ x.last = Latest =>
          \A w \in ToSet(x.urls) : \A k \in DOMAIN cuts : Accounted(x.queue[w], w, k)

RunsDeliver == \A r \in Runners : DeliversOk(run[r])

DInv == /\ configs \subseteq Seq(Witnesses)
        /\ WitnessesOk /\ RowsOk /\ ClosedIsAccepted /\ RunsDeliver

-----------------------------------------------------------------------------
(* Numbers in order.                                                        *)

LEMMA LeastIs ==
    ASSUME NEW S \in SUBSET Nat, S # {}
    PROVE  \E m \in S : \A k \in S : m <= k
<1> DEFINE R == {p \in Nat \X Nat : p[1] < p[2]}
<1>1. IsWellFoundedOn(R, Nat)
  BY NatLessThanWellFounded DEF OpToRel
<1>2. PICK m \in S : \A k \in S : ~(<<k, m>> \in R)
  BY <1>1, WFMin
<1>3. ASSUME NEW k \in S PROVE m <= k
  <2>1. k \in Nat /\ m \in Nat /\ ~(<<k, m>> \in R)
    BY <1>2
  <2> QED BY <2>1
<1> QED BY <1>3

Rises(q) == \A i, j \in DOMAIN q : i < j => q[i] < q[j]
Lists(q, S) == ToSet(q) = S /\ Rises(q)

\* A finite set of numbers can be put in order.
LEMMA Ordered ==
    ASSUME NEW n \in Nat, NEW S \in SUBSET (1 .. n)
    PROVE  IsFiniteSet(S) /\ \E q \in [1 .. Cardinality(S) -> S] : Lists(q, S)
<1> DEFINE Can(T) == \E q \in [1 .. Cardinality(T) -> T] : Lists(q, T)
           Bad == {m \in Nat : \E T \in SUBSET (1 .. m) : ~Can(T)}
<1>1. \A m \in Nat : \A T \in SUBSET (1 .. m) : IsFiniteSet(T) /\ Cardinality(T) \in Nat
  <2> SUFFICES ASSUME NEW m \in Nat, NEW T \in SUBSET (1 .. m)
               PROVE  IsFiniteSet(T) /\ Cardinality(T) \in Nat
    OBVIOUS
  <2>1. IsFiniteSet(1 .. m)
    BY FS_Interval
  <2>2. IsFiniteSet(T)
    BY <2>1, FS_Subset
  <2> QED BY <2>2, FS_CardinalityType
<1>2. ASSUME Bad # {} PROVE FALSE
  <2>1. PICK m \in Bad : \A k \in Bad : m <= k
    <3> HIDE DEF Can
    <3> QED BY <1>2, LeastIs
  <2>2. m \in Nat
    OBVIOUS
  <2>3. PICK T \in SUBSET (1 .. m) : ~Can(T)
    OBVIOUS
  <2>4. CASE m = 0
    <3>1. T = {} /\ Cardinality(T) = 0
      <4>1. 1 .. m = {}
        BY <2>4
      <4> QED BY <2>3, <4>1, FS_EmptySet
    <3>2. <<>> \in [1 .. Cardinality(T) -> T] /\ DOMAIN <<>> = {}
      BY <3>1
    <3>3. Lists(<<>>, T)
      BY <3>1, <3>2 DEF Lists, Rises, ToSet
    <3> QED BY <2>3, <3>2, <3>3
  <2>5. CASE m # 0
    <3>1. m - 1 \in Nat /\ m - 1 \notin Bad
      <4>1. m - 1 \in Nat
        BY <2>2, <2>5
      <4>2. ~(m <= m - 1)
        BY <2>2
      <4> HIDE DEF Bad
      <4> QED BY <2>1, <4>1, <4>2
    <3> DEFINE U == T \ {m}
    <3>2. U \in SUBSET (1 .. (m - 1))
      BY <2>2, <2>5
    <3>3. PICK q \in [1 .. Cardinality(U) -> U] : Lists(q, U)
      <4> HIDE DEF U
      <4> QED BY <3>1, <3>2
    <3>4. CASE m \notin T
      <4>1. U = T
        BY <3>4
      <4> QED BY <2>3, <3>3, <4>1
    <3>5. CASE m \in T
      <4> DEFINE c == Cardinality(U)
                 p == [i \in 1 .. c + 1 |-> IF i = c + 1 THEN m ELSE q[i]]
      <4>1. c \in Nat /\ Cardinality(T) = c + 1
        <5>1. IsFiniteSet(T) /\ Cardinality(T) \in Nat
          BY <1>1, <2>2
        <5>2. IsFiniteSet(U) /\ Cardinality(U) \in Nat
          BY <1>1, <3>1, <3>2
        <5> QED BY <3>5, <5>1, <5>2, FS_RemoveElement
      <4>2. ASSUME NEW i \in 1 .. c PROVE p[i] = q[i] /\ q[i] \in U /\ q[i] < m /\ i \in 1 .. c + 1 /\ i # c + 1
        <5>1. q[i] \in U /\ i \in 1 .. c + 1 /\ i # c + 1
          <6>1. q[i] \in U
            BY <3>3
          <6>2. c \in Nat /\ i \in 1 .. c
            BY <4>1
          <6> HIDE DEF c
          <6>3. i \in 1 .. c + 1 /\ i # c + 1
            BY <6>2
          <6> QED BY <6>1, <6>3
        <5>2. p[i] = q[i]
          BY <5>1
        <5>3. q[i] \in 1 .. m - 1
          BY <3>2, <5>1
        <5> HIDE DEF p, c
        <5> QED BY <5>1, <5>2, <5>3, <2>2
      <4>3. DOMAIN p = 1 .. c + 1 /\ p[c + 1] = m /\ c + 1 \in 1 .. c + 1
        BY <4>1
      <4>4. \A i \in 1 .. c + 1 : i \in 1 .. c \/ i = c + 1
        BY <4>1
      <4>5. p \in [1 .. c + 1 -> T]
        BY <3>5, <4>2, <4>4
      <4>6. ToSet(q) = U
        BY <3>3 DEF Lists
      <4> HIDE DEF p, c
      <4>7. ToSet(p) = T
        <5>1. ASSUME NEW t \in T PROVE t \in ToSet(p)
          <6>1. CASE t = m
            BY <4>3, <6>1 DEF ToSet
          <6>2. CASE t # m
            <7>1. t \in ToSet(q)
              BY <4>6, <6>2
            <7>2. PICK i \in 1 .. c : q[i] = t
              BY <3>3, <7>1 DEF ToSet, c
            <7> QED BY <4>2, <4>3, <7>2 DEF ToSet
          <6> QED BY <6>1, <6>2
        <5> QED BY <4>3, <4>5, <5>1 DEF ToSet
      <4>8. Rises(p)
        <5> SUFFICES ASSUME NEW i \in 1 .. c + 1, NEW j \in 1 .. c + 1, i < j
                     PROVE  p[i] < p[j]
          BY <4>3 DEF Rises
        <5>1. i \in 1 .. c
          BY <4>1, <4>4
        <5>2. CASE j = c + 1
          BY <4>2, <4>3, <5>1, <5>2
        <5>3. CASE j \in 1 .. c
          <6>1. q[i] < q[j]
            BY <3>3, <5>1, <5>3 DEF Lists, Rises, c
          <6> QED BY <4>2, <5>1, <5>3, <6>1
        <5> QED BY <4>4, <5>2, <5>3
      <4>9. Lists(p, T) /\ p \in [1 .. Cardinality(T) -> T]
        BY <4>1, <4>5, <4>7, <4>8 DEF Lists
      <4> QED BY <2>3, <4>9
    <3> QED BY <3>4, <3>5
  <2> QED BY <2>4, <2>5
<1>3. Can(S)
  BY <1>2
<1> QED BY <1>1, <1>3

\* InOrder() is a sequence of the numbers, smallest first.
LEMMA InOrderIs ==
    ASSUME NEW n \in Nat, NEW S \in SUBSET (1 .. n)
    PROVE  /\ InOrder(S) \in Seq(S) /\ InOrder(S) \in Seq(Nat)
           /\ Lists(InOrder(S), S)
<1>1. PICK p \in [1 .. Cardinality(S) -> S] : Lists(p, S)
  BY Ordered
<1>2. /\ InOrder(S) \in [1 .. Cardinality(S) -> S]
      /\ ToSet(InOrder(S)) = S
      /\ \A i, j \in DOMAIN InOrder(S) : i < j => InOrder(S)[i] < InOrder(S)[j]
  BY <1>1 DEF InOrder, Lists, Rises
<1>3. Cardinality(S) \in Nat
  BY Ordered, FS_CardinalityType
<1>4. InOrder(S) \in Seq(S)
  BY <1>2, <1>3
<1>5. InOrder(S) \in Seq(Nat)
  <2>1. S \subseteq Nat
    OBVIOUS
  <2> DEFINE c == Cardinality(S)
             q == InOrder(S)
  <2>2. c \in Nat /\ q \in [1 .. c -> S]
    BY <1>2, <1>3
  <2> HIDE DEF c, q
  <2>3. q \in [1 .. c -> Nat]
    BY <2>1, <2>2
  <2>4. q \in Seq(Nat)
    BY <2>2, <2>3
  <2> QED BY <2>4 DEF q
<1> QED BY <1>2, <1>4, <1>5 DEF Lists, Rises

-----------------------------------------------------------------------------
(* The cuts grow.                                                           *)

LEMMA StrictIsLonger ==
    ASSUME NEW s \in Seq(Nat), NEW t \in Seq(Nat), IsStrictPrefix(s, t)
    PROVE  Len(s) < Len(t)
<1>1. IsPrefix(s, t) /\ s # t
  BY DEF IsStrictPrefix
<1>2. Len(s) <= Len(t) /\ \A i \in 1 .. Len(s) : s[i] = t[i]
  BY <1>1, PrefixElts
<1>3. Len(s) # Len(t)
  BY <1>1, <1>2
<1> QED BY <1>2, <1>3

LEMMA ChainGrows ==
    ASSUME CutsInv
    PROVE  /\ cuts \in Seq(CutSet) /\ DOMAIN cuts = 1 .. Len(cuts) /\ Len(cuts) \in Nat
           /\ \A k \in DOMAIN cuts : cuts[k].leaves \in Seq(Nat) /\ Len(cuts[k].leaves) > 0
           /\ layout = "stores" =>
                 \A i, j \in DOMAIN cuts : i < j => Len(cuts[i].leaves) < Len(cuts[j].leaves)
<1> DEFINE Long(k) == Len(cuts[k].leaves)
<1>1. cuts \in Seq(CutSet) /\ DOMAIN cuts = 1 .. Len(cuts) /\ Len(cuts) \in Nat
  BY DEF CutsInv
<1>2. ASSUME NEW k \in DOMAIN cuts
      PROVE  /\ cuts[k].leaves \in Seq(Nat) /\ Long(k) \in Nat /\ Long(k) > 0
             /\ layout = "stores" /\ k # 1 => Long(k - 1) < Long(k)
  <2>1. cuts[k] \in CutSet
    BY <1>1
  <2>2. cuts[k].leaves \in Seq(Nat) /\ cuts[k].prev \in Seq(Nat)
    BY <2>1 DEF CutSet
  <2>3. /\ IsStrictPrefix(cuts[k].prev, cuts[k].leaves)
        /\ layout = "stores" /\ k # 1 => cuts[k].prev = cuts[k - 1].leaves
    <3>1. PICK j \in 0 .. k - 1 :
              /\ cuts[k].prev = IF j = 0 THEN <<>> ELSE cuts[j].leaves
              /\ \A i \in j + 1 .. k - 1 : layout = "flat" /\ cuts[i].how # "written"
      BY DEF CutsInv, CutsChain
    <3>2. layout = "stores" => j = k - 1
      <4>1. j # k - 1 => k - 1 \in j + 1 .. k - 1
        BY <1>1
      <4> QED BY <3>1, <4>1
    <3> QED BY <3>1, <3>2 DEF CutsInv, CutsChain
  <2>4. Len(cuts[k].prev) < Long(k) /\ Len(cuts[k].prev) \in Nat
    BY <2>2, <2>3, StrictIsLonger
  <2>5. Long(k) \in Nat
    BY <2>2
  <2> QED BY <2>2, <2>3, <2>4, <2>5
<1> DEFINE Bad == {j \in Nat : j \in DOMAIN cuts /\ \E i \in DOMAIN cuts : i < j /\ ~(Long(i) < Long(j))}
<1> HIDE DEF Long
<1>3. ASSUME layout = "stores", Bad # {} PROVE FALSE
  <2>1. PICK j \in Bad : \A k \in Bad : j <= k
    BY <1>3, LeastIs
  <2>2. PICK i \in DOMAIN cuts : i < j /\ ~(Long(i) < Long(j))
    BY <2>1
  <2>3. j \in DOMAIN cuts /\ j \in Nat /\ i \in Nat /\ j - 1 \in DOMAIN cuts /\ j - 1 \in Nat /\ j # 1
    BY <1>1, <2>1, <2>2
  <2>4. Long(j - 1) < Long(j)
    BY <1>2, <1>3, <2>3
  <2>5. i # j - 1
    BY <2>2, <2>4
  <2>6. i < j - 1
    BY <2>2, <2>3, <2>5
  <2>7. j - 1 \notin Bad
    <3>1. ~(j <= j - 1)
      BY <2>3
    <3> HIDE DEF Bad
    <3> QED BY <2>1, <3>1
  <2>8. Long(i) < Long(j - 1)
    BY <2>3, <2>6, <2>7
  <2>9. Long(i) \in Nat /\ Long(j) \in Nat /\ Long(j - 1) \in Nat
    BY <1>2, <2>3
  <2> QED BY <2>2, <2>4, <2>8, <2>9
<1>4. layout = "stores" => \A i, j \in DOMAIN cuts : i < j => Long(i) < Long(j)
  BY <1>1, <1>3
<1> QED BY <1>1, <1>2, <1>4 DEF Long

\* The latest checkpoint of a log is as long as any.
LEMMA LatestIsLongest ==
    ASSUME CutsInv
    PROVE  /\ Latest \in {<<>>} \cup Roots
           /\ Roots \subseteq Seq(Nat) /\ Latest \in Seq(Nat)
           /\ layout = "stores" =>
                 /\ Roots = {cuts[k].leaves : k \in DOMAIN cuts}
                 /\ \A root \in {<<>>} \cup Roots : Len(root) <= Len(Latest)
<1>1. /\ cuts \in Seq(CutSet) /\ DOMAIN cuts = 1 .. Len(cuts) /\ Len(cuts) \in Nat
      /\ \A k \in DOMAIN cuts : cuts[k].leaves \in Seq(Nat) /\ Len(cuts[k].leaves) > 0
      /\ layout = "stores" =>
            \A i, j \in DOMAIN cuts : i < j => Len(cuts[i].leaves) < Len(cuts[j].leaves)
  BY ChainGrows
<1>2. Legible \in SUBSET (1 .. Len(cuts)) /\ (layout = "stores" => Legible = DOMAIN cuts)
  BY <1>1 DEF Legible, CutsInv
<1>3. /\ Roots \subseteq Seq(Nat) /\ Latest \in Seq(Nat)
      /\ layout = "stores" => Roots = {cuts[k].leaves : k \in DOMAIN cuts}
  BY <1>1, <1>2, LatestType DEF Roots
<1>4. Latest \in {<<>>} \cup Roots
  <2>1. CASE Legible = {}
    BY <2>1 DEF Latest
  <2>2. CASE Legible # {}
    <3>1. PICK top : top = Max(Legible)
      OBVIOUS
    <3>2. top \in Legible
      BY <1>1, <1>2, <2>2, <3>1, MaxIsIn
    <3> QED BY <2>2, <3>1, <3>2 DEF Latest, Roots
  <2> QED BY <2>1, <2>2
<1>5. ASSUME layout = "stores", cuts = <<>>, NEW root \in {<<>>} \cup Roots
      PROVE  Len(root) <= Len(Latest)
  <2>1. Roots = {} /\ Latest = <<>> /\ Len(<<>>) = 0
    BY <1>3, <1>4, <1>5
  <2> QED BY <2>1
<1>6. ASSUME layout = "stores", cuts # <<>>, NEW root \in {<<>>} \cup Roots
      PROVE  Len(root) <= Len(Latest)
  <2>1. Len(cuts) \in DOMAIN cuts /\ Latest = cuts[Len(cuts)].leaves
    BY <1>1, <1>6, LatestType
  <2>2. ASSUME NEW k \in DOMAIN cuts PROVE Len(cuts[k].leaves) <= Len(Latest)
    <3>1. Len(cuts[k].leaves) \in Nat /\ k \in Nat /\ k <= Len(cuts)
      BY <1>1
    <3>2. CASE k = Len(cuts)
      BY <2>1, <3>1, <3>2
    <3>3. CASE k < Len(cuts)
      <4>1. PICK n : n = Len(cuts)
        OBVIOUS
      <4>2. n \in DOMAIN cuts /\ Latest = cuts[n].leaves /\ k < n
        BY <2>1, <3>3, <4>1
      <4>3. Len(cuts[k].leaves) < Len(Latest)
        BY <1>1, <1>6, <4>2
      <4>4. Len(Latest) \in Nat
        BY <1>3
      <4> QED BY <3>1, <4>3, <4>4
    <3> QED BY <1>1, <3>1, <3>2, <3>3
  <2>3. Len(<<>>) <= Len(Latest)
    BY <1>3
  <2> QED BY <1>3, <1>6, <2>2, <2>3
<1> QED BY <1>3, <1>4, <1>5, <1>6

-----------------------------------------------------------------------------
(* What the others do leaves a runner's queues and answer right.            *)

\* A row is touched only while it is open, and counts it.
RowForward(old, new) ==
    \/ new = old
    \/ /\ old.st = "open"
       /\ \E st \in {"open", "held", "receipt", "ahead"} : new = Attempted(old, st)

RowsForward ==
    layout = "stores" =>
        \A w \in Witnesses, k \in DOMAIN cuts : RowForward(rows[w][k], rows'[w][k])

\* Cuts and what witnesses took are only added to; a log's new cut is nobody's last.
Onward ==
    /\ UNCHANGED layout
    /\ \A w \in Witnesses : took[w] \subseteq took'[w]
    /\ \A k \in DOMAIN cuts : k \in DOMAIN cuts' /\ cuts'[k] = cuts[k]
    /\ Len(cuts) \in Nat /\ Len(cuts') \in Nat /\ Len(cuts) <= Len(cuts')
    /\ layout = "stores" => cuts' = cuts \/ Latest' \notin {<<>>} \cup Roots
    /\ RowsForward

LEMMA AccountedCarries ==
    ASSUME NEW w \in Witnesses, NEW k \in DOMAIN cuts, NEW q, Onward, layout = "stores", CutsInv,
           Accounted(q, w, k)
    PROVE  Accounted(q, w, k)'
<1>1. DOMAIN cuts = 1 .. Len(cuts) /\ Len(cuts) \in Nat
  BY ChainGrows
<1>2. \A c \in DOMAIN cuts : RowForward(rows[w][c], rows'[w][c])
  BY DEF Onward, RowsForward
<1>3. CASE k \in ToSet(q)
  BY <1>3 DEF Accounted
<1>4. CASE rows[w][k] = NoRow
  BY <1>2, <1>4 DEF Accounted, RowForward, NoRow
<1>5. CASE \E c \in k .. Len(cuts) : Closed1(rows[w][c])
  <2>1. PICK c \in k .. Len(cuts) : Closed1(rows[w][c])
    BY <1>5
  <2>2. c \in DOMAIN cuts /\ c \in k .. Len(cuts')
    BY <1>1 DEF Onward
  <2>3. Closed1(rows'[w][c])
    BY <1>2, <2>1, <2>2 DEF RowForward, Closed1
  <2> QED BY <2>2, <2>3 DEF Accounted, Closed1
<1> QED BY <1>3, <1>4, <1>5 DEF Accounted

LEMMA AnswerCarries ==
    ASSUME NEW x, x.todo \in Seq(Witnesses), x.todo # <<>>, QueueOk(x.queue[Head(x.todo)]),
           RowsOk, Onward, layout = "stores", AnswerOk(x)
    PROVE  AnswerOk(x)'
<1> DEFINE w == Head(x.todo)
           a == x.answer
<1>1. w \in Witnesses
  OBVIOUS
<1>2. x.queue[w] \in Seq(Nat) /\ x.queue[w] # <<>> /\ a.k = Head(x.queue[w])
  BY DEF QueueOk, AnswerOk
<1>3. a.k \in DOMAIN cuts
  BY <1>2 DEF QueueOk
<1>4. /\ a.tries \in Nat /\ rows[w][a.k].tries >= a.tries
      /\ rows[w][a.k].tries = a.tries => rows[w][a.k].st = "open"
      /\ a.says = "receipt" => cuts[a.k].leaves \in took[w]
      /\ a.says = "refused" => a.tip \in took[w] \cup {Foreign}
  BY DEF AnswerOk
<1>5. RowForward(rows[w][a.k], rows'[w][a.k]) /\ cuts'[a.k] = cuts[a.k] /\ took[w] \subseteq took'[w]
  BY <1>1, <1>3 DEF Onward, RowsForward
<1>6. rows[w][a.k] \in RowSet
  BY <1>1, <1>3 DEF RowsOk
<1>7. rows[w][a.k].tries \in Nat
  BY <1>6 DEF RowSet, NoRow
<1>8. CASE rows'[w][a.k] = rows[w][a.k]
  <2> HIDE DEF a, w
  <2>1. /\ rows'[w][a.k].tries >= a.tries
        /\ rows'[w][a.k].tries = a.tries => rows'[w][a.k].st = "open"
    BY <1>4, <1>8
  <2>2. /\ a.says = "receipt" => cuts'[a.k].leaves \in took'[w]
        /\ a.says = "refused" => a.tip \in took'[w] \cup {Foreign}
    BY Zenon, <1>4, <1>5
  <2> QED BY Zenon, <1>2, <1>4, <2>1, <2>2 DEF AnswerOk, a, w
<1>9. CASE rows'[w][a.k].tries = rows[w][a.k].tries + 1
  <2> HIDE DEF a, w
  <2>1. PICK t : t = rows'[w][a.k].tries
    OBVIOUS
  <2>2. t = rows[w][a.k].tries + 1 /\ rows[w][a.k].tries >= a.tries /\ rows[w][a.k].tries \in Nat
        /\ a.tries \in Nat
    BY <1>4, <1>7, <1>9, <2>1
  <2>3. t >= a.tries /\ t # a.tries
    BY <2>2
  <2>4. /\ a.says = "receipt" => cuts'[a.k].leaves \in took'[w]
        /\ a.says = "refused" => a.tip \in took'[w] \cup {Foreign}
    BY <1>4, <1>5
  <2> QED BY Zenon, <1>2, <1>4, <2>1, <2>3, <2>4 DEF AnswerOk, a, w
<1> QED BY <1>5, <1>8, <1>9 DEF RowForward, Attempted

LEMMA DeliversCarries ==
    ASSUME RInv, NEW x, DeliversOk(x), RowsOk, Onward
    PROVE  DeliversOk(x)'
<1>0. CutsInv /\ layout \in {"flat", "stores"}
  BY DEF RInv, LedgerType
<1>1. /\ x.urls \in Seq(Witnesses) /\ x.todo \in Seq(Witnesses)
      /\ x.queue = [w \in Witnesses |-> x.queue[w]]
      /\ x.given \subseteq Witnesses
      /\ x.at \in Sending => x.todo # <<>>
      /\ layout' = "stores" => x.at # "offer"
      /\ layout' = "flat" => x.at \notin {"send", "record"}
      /\ x.at \notin {"offer", "commit"} => x.given = {}
  BY DEF DeliversOk, Onward
<1>2. layout' = "stores" /\ x.at \notin Out => x.last \in {<<>>} \cup Roots'
  <2>1. Legible \subseteq Legible'
    BY DEF Legible, Onward
  <2>2. \A k \in Legible : cuts'[k] = cuts[k]
    BY DEF Legible, Onward
  <2>3. Roots \subseteq Roots'
    BY <2>1, <2>2 DEF Roots
  <2> QED BY <2>3 DEF DeliversOk, Onward
<1>3. \A w \in Witnesses : QueueOk(x.queue[w]) /\ QueueOk(x.queue[w])'
  BY DEF DeliversOk, QueueOk, Onward
<1>4. x.prep # <<>> => \A w \in x.given : x.prep \in took'[w]
  BY <1>1 DEF DeliversOk, Onward
<1>5. x.at = "record" => AnswerOk(x)'
  <2> SUFFICES ASSUME x.at = "record" PROVE AnswerOk(x)'
    OBVIOUS
  <2>1. x.todo # <<>> /\ layout = "stores" /\ AnswerOk(x)
    BY <1>0 DEF DeliversOk, Sending
  <2>2. QueueOk(x.queue[Head(x.todo)])
    BY <1>1, <1>3, <2>1
  <2> QED BY <1>1, <2>1, <2>2, AnswerCarries
<1>6. ASSUME layout' = "stores", x.at \notin Out, x.last = Latest',
             NEW w \in ToSet(x.urls), NEW k \in DOMAIN cuts'
      PROVE  Accounted(x.queue[w], w, k)'
  <2>1. x.last \in {<<>>} \cup Roots
    BY <1>6 DEF DeliversOk, Onward
  <2>2. cuts' = cuts /\ layout = "stores"
    BY <1>6, <2>1 DEF Onward
  <2>3. Latest' = Latest
    BY <2>2 DEF Latest, Legible
  <2>4. w \in Witnesses
    BY <1>1 DEF ToSet
  <2>5. Accounted(x.queue[w], w, k) /\ k \in DOMAIN cuts
    BY <1>6, <2>2, <2>3 DEF DeliversOk
  <2>6. PICK q : q = x.queue[w]
    OBVIOUS
  <2>7. Accounted(q, w, k)'
    BY <1>0, <2>2, <2>4, <2>5, <2>6, AccountedCarries
  <2> QED BY <2>6, <2>7
<1> QED BY <1>1, <1>2, <1>3, <1>4, <1>5, <1>6 DEF DeliversOk

\* The runner r goes on as y.
LEMMA RunsStep ==
    ASSUME RInv, RowsOk, RunsDeliver, Onward, NEW r \in Runners, NEW y,
           run' = [run EXCEPT ![r] = y], DeliversOk(y)'
    PROVE  RunsDeliver'
<1>1. run = [q \in Runners |-> run[q]] /\ CutsInv
  BY DEF RInv, RunInv
<1>2. ASSUME NEW q \in Runners PROVE DeliversOk(run[q])'
  <2>1. CASE q = r
    <3>1. run'[q] = y
      BY <1>1, <2>1
    <3> QED BY <3>1
  <2>2. CASE q # r
    <3>1. PICK x : x = run[q]
      OBVIOUS
    <3>2. DeliversOk(x)
      BY <3>1 DEF RunsDeliver
    <3>3. DeliversOk(x)'
      BY <3>2, DeliversCarries
    <3>4. run'[q] = x
      BY <1>1, <2>2, <3>1
    <3> QED BY <3>3, <3>4
  <2> QED BY <2>1, <2>2
<1> QED BY <1>2 DEF RunsDeliver

LEMMA RunsStay ==
    ASSUME RInv, RowsOk, RunsDeliver, Onward, UNCHANGED run
    PROVE  RunsDeliver'
<1>1. ASSUME NEW q \in Runners PROVE DeliversOk(run[q])'
  <2>1. PICK x : x = run[q]
    OBVIOUS
  <2>2. DeliversOk(x)
    BY <2>1 DEF RunsDeliver
  <2>3. DeliversOk(x)'
    BY <2>2, DeliversCarries
  <2> QED BY <2>1, <2>3
<1> QED BY <1>1 DEF RunsDeliver

\* The rows of one witness move.
LEMMA RowsMove ==
    ASSUME RowsOk, UNCHANGED <<layout, cuts>>, NEW w \in Witnesses, NEW f,
           layout = "stores" => /\ rows' = [rows EXCEPT ![w] = f]
                                /\ f = [k \in DOMAIN rows[w] |-> f[k]]
                                /\ \A k \in DOMAIN rows[w] : RowForward(rows[w][k], f[k])
    PROVE  RowsOk' /\ RowsForward
<1> SUFFICES ASSUME layout = "stores" PROVE RowsOk' /\ RowsForward
  BY DEF RowsOk, RowsForward
<1>1. /\ rows = [v \in Witnesses |-> rows[v]]
      /\ \A v \in Witnesses : rows[v] \in Seq(RowSet) /\ Len(rows[v]) = Len(cuts)
  BY DEF RowsOk
<1>2. /\ rows' = [v \in Witnesses |-> rows'[v]] /\ rows'[w] = f
      /\ \A v \in Witnesses \ {w} : rows'[v] = rows[v]
  BY <1>1
<1>3. ASSUME NEW k \in DOMAIN rows[w] PROVE f[k] \in RowSet
  <2>1. rows[w][k] \in RowSet /\ RowForward(rows[w][k], f[k])
    BY <1>1
  <2> QED BY <2>1 DEF RowSet, RowForward, Attempted, NoRow
<1>4. f \in Seq(RowSet) /\ Len(f) = Len(cuts)
  <2>1. DOMAIN rows[w] = 1 .. Len(cuts) /\ Len(cuts) \in Nat
    BY <1>1
  <2>2. f \in [1 .. Len(cuts) -> RowSet]
    BY <1>3, <2>1
  <2> QED BY <2>1, <2>2
<1>5. RowsOk'
  BY <1>1, <1>2, <1>4 DEF RowsOk
<1>6. ASSUME NEW v \in Witnesses, NEW k \in DOMAIN cuts PROVE RowForward(rows[v][k], rows'[v][k])
  <2>1. DOMAIN rows[w] = DOMAIN cuts
    <3>1. rows[w] \in Seq(RowSet) /\ Len(rows[w]) = Len(cuts)
      BY <1>1
    <3> QED BY <3>1, <1>4
  <2>2. CASE v = w
    BY <1>2, <2>1, <2>2
  <2>3. CASE v # w
    BY <1>2, <2>3 DEF RowForward
  <2> QED BY <2>2, <2>3
<1> QED BY <1>5, <1>6 DEF RowsForward

-----------------------------------------------------------------------------
(* Calls that begin, or end, with nothing given yet.                        *)

\* y goes on from x, with the same queues and nothing in hand.
Begins(x, y) ==
    /\ IsState(y)
    /\ y.urls = x.urls /\ y.last = x.last /\ y.queue = x.queue
    /\ y.given = {} /\ y.todo \in Seq(Witnesses)
    /\ y.at \in {"idle", "pad", "fold", "offer", "commit", "send"}
    /\ y.at \in Sending => y.todo # <<>>
    /\ y.at = "offer" => layout = "flat"
    /\ y.at = "send" => layout = "stores"

LEMMA BeginsOk ==
    ASSUME NEW x, DeliversOk(x), x.at \notin Out, NEW y, Begins(x, y)
    PROVE  DeliversOk(y)
  BY DEF Begins, DeliversOk, Out, Sending

LEMMA IdleBegins ==
    ASSUME NEW x, IsState(x)
    PROVE  Begins(x, Idle(x)) /\ Idle(x).at = "idle"
<1>1. <<>> \in Seq(Witnesses)
  OBVIOUS
<1> QED BY <1>1 DEF Begins, Idle, IsState, Fields, Sending

\* What a call may begin with.
Ready(x) == IsState(x) /\ x.given = {} /\ x.urls \in Seq(Witnesses) /\ x.todo \in Seq(Witnesses)

LEMMA PreparedBegins ==
    ASSUME NEW x, Ready(x), NEW n
    PROVE  Begins(x, Prepared(x, n))
<1> DEFINE p == SubSeq(x.mem, 1, n)
<1>1. CASE ~(Grows(x, n) /\ IsPrefix(x.last, x.mem))
  <2>1. Prepared(x, n) = Idle(x)
    BY <1>1 DEF Prepared
  <2> QED BY <2>1, IdleBegins DEF Ready
<1>2. CASE (Grows(x, n) /\ IsPrefix(x.last, x.mem)) /\ layout = "flat" /\ x.register
  <2> DEFINE at == IF x.urls = <<>> THEN "commit" ELSE "offer"
             y == [x EXCEPT !.prep = p, !.at = at, !.todo = x.urls, !.pending = {}, !.deferred = FALSE]
  <2>1. Prepared(x, n) = y
    BY <1>2 DEF Prepared
  <2> HIDE DEF p, at
  <2>2. /\ IsState(y) /\ y.urls = x.urls /\ y.last = x.last /\ y.queue = x.queue
        /\ y.given = x.given /\ y.todo = x.urls /\ y.at = at
    BY DEF Ready, IsState, Fields
  <2> HIDE DEF y
  <2> QED BY <1>2, <2>1, <2>2 DEF Begins, Ready, Sending, at
<1>3. CASE (Grows(x, n) /\ IsPrefix(x.last, x.mem)) /\ ~(layout = "flat" /\ x.register)
  <2> DEFINE y == [x EXCEPT !.prep = p, !.at = "commit"]
  <2>1. Prepared(x, n) = y
    BY <1>3 DEF Prepared
  <2> HIDE DEF p
  <2>2. /\ IsState(y) /\ y.urls = x.urls /\ y.last = x.last /\ y.queue = x.queue
        /\ y.given = x.given /\ y.todo = x.todo /\ y.at = "commit"
    BY DEF Ready, IsState, Fields
  <2> HIDE DEF y
  <2> QED BY <2>1, <2>2 DEF Begins, Ready, Sending
<1> QED BY <1>1, <1>2, <1>3

LEMMA CutsBegins ==
    ASSUME NEW x, Ready(x), NEW r, NEW register, NEW push
    PROVE  Begins(x, Cuts(r, x, register, push))
<1> DEFINE y == [x EXCEPT !.register = register, !.push = push]
<1>1. /\ IsState(y) /\ y.urls = x.urls /\ y.last = x.last /\ y.queue = x.queue
      /\ y.given = {} /\ y.todo = x.todo
  BY DEF Ready, IsState, Fields
<1>2. Cuts(r, x, register, push) = IF HasSink(r) THEN [y EXCEPT !.at = "pad"]
                                   ELSE Prepared(y, Len(y.mem))
  BY DEF Cuts
<1> HIDE DEF y
<1>3. Ready(y)
  BY <1>1 DEF Ready
<1>4. CASE HasSink(r)
  <2> DEFINE z == [y EXCEPT !.at = "pad"]
  <2>1. /\ IsState(z) /\ z.urls = y.urls /\ z.last = y.last /\ z.queue = y.queue
        /\ z.given = {} /\ z.todo = y.todo /\ z.at = "pad"
    BY <1>1 DEF IsState, Fields
  <2> HIDE DEF z
  <2>2. Cuts(r, x, register, push) = z
    BY <1>2, <1>4 DEF z
  <2> QED BY <1>1, <2>1, <2>2 DEF Begins, Ready, Sending
<1>5. CASE ~HasSink(r)
  <2>1. Begins(y, Prepared(y, Len(y.mem)))
    BY <1>3, PreparedBegins
  <2> QED BY <1>1, <1>2, <1>5, <2>1 DEF Begins
<1> QED BY <1>4, <1>5

LEMMA DeliversBegins ==
    ASSUME NEW x, Ready(x), layout = "stores"
    PROVE  Begins(x, Delivers(x))
<1> DEFINE at == IF x.urls = <<>> THEN "idle" ELSE "send"
           y == [x EXCEPT !.at = at, !.todo = x.urls]
<1>1. Delivers(x) = y
  BY DEF Delivers
<1> HIDE DEF at
<1>2. /\ IsState(y) /\ y.urls = x.urls /\ y.last = x.last /\ y.queue = x.queue
      /\ y.given = x.given /\ y.todo = x.urls /\ y.at = at
  BY DEF Ready, IsState, Fields
<1> HIDE DEF y
<1> QED BY <1>1, <1>2 DEF Begins, Ready, Sending, at

LEMMA RetriesBegins ==
    ASSUME NEW x, Ready(x), layout = "flat"
    PROVE  Begins(x, RetriesPending(x)) /\ Begins(x, RetriesPending(OffersDeferred(x)))
<1>1. ASSUME NEW z, Ready(z) PROVE Begins(z, RetriesPending(z))
  <2> DEFINE S == {k \in DOMAIN z.urls : z.urls[k] \in z.pending}
             ks == InOrder(S)
             todo == [j \in DOMAIN ks |-> z.urls[ks[j]]]
  <2>1. z.urls \in Seq(Witnesses) /\ Len(z.urls) \in Nat /\ S \in SUBSET (1 .. Len(z.urls))
    BY <1>1 DEF Ready
  <2>2. ks \in Seq(S)
    <3> HIDE DEF S
    <3> QED BY <2>1, InOrderIs
  <2>3. todo \in Seq(Witnesses) /\ (ks # <<>> => todo # <<>>)
    <3>1. DOMAIN ks = 1 .. Len(ks) /\ Len(ks) \in Nat /\ (ks # <<>> => Len(ks) > 0)
      BY <2>2
    <3>2. ASSUME NEW j \in DOMAIN ks PROVE z.urls[ks[j]] \in Witnesses
      <4>1. ks[j] \in S
        <5> HIDE DEF ks, S
        <5> QED BY <2>2
      <4>2. ks[j] \in DOMAIN z.urls
        <5> HIDE DEF ks
        <5> QED BY <4>1
      <4> HIDE DEF ks
      <4> QED BY <2>1, <4>2
    <3> HIDE DEF ks
    <3>3. todo \in [1 .. Len(ks) -> Witnesses]
      BY <3>1, <3>2
    <3>4. todo \in Seq(Witnesses) /\ Len(todo) = Len(ks)
      BY <3>1, <3>3
    <3> QED BY <3>1, <3>4
  <2>4. CASE z.last = <<>> \/ ks = <<>>
    BY <1>1, <2>4, IdleBegins DEF RetriesPending, Ready
  <2>5. CASE ~(z.last = <<>> \/ ks = <<>>)
    <3> DEFINE y == [z EXCEPT !.at = "offer", !.pending = {}, !.todo = todo]
    <3>1. RetriesPending(z) = y
      BY <2>5 DEF RetriesPending
    <3> HIDE DEF ks, todo
    <3>2. /\ IsState(y) /\ y.urls = z.urls /\ y.last = z.last /\ y.queue = z.queue
          /\ y.given = z.given /\ y.todo = todo /\ y.at = "offer"
      BY <1>1 DEF Ready, IsState, Fields
    <3> HIDE DEF y
    <3> QED BY <1>1, <2>3, <2>5, <3>1, <3>2 DEF Begins, Ready, Sending
  <2> QED BY <2>4, <2>5
<1>2. PICK v : OffersDeferred(x) = [x EXCEPT !.deferred = FALSE, !.pending = v]
  BY DEF OffersDeferred
<1>3. /\ Ready(OffersDeferred(x))
      /\ OffersDeferred(x).urls = x.urls /\ OffersDeferred(x).last = x.last
      /\ OffersDeferred(x).queue = x.queue
  BY <1>2 DEF Ready, IsState, Fields
<1>4. PICK z : z = OffersDeferred(x)
  OBVIOUS
<1>5. Begins(z, RetriesPending(z)) /\ z.urls = x.urls /\ z.last = x.last /\ z.queue = x.queue
  BY <1>1, <1>3, <1>4
<1>6. Begins(x, RetriesPending(z))
  BY <1>5 DEF Begins
<1> QED BY <1>1, <1>4, <1>6

-----------------------------------------------------------------------------
(* The steps in which nothing is sent.                                      *)

Still == UNCHANGED <<layout, configs, cuts, tip, took, receipts, rows>>

LEMMA StillKeeps ==
    ASSUME RInv, DInv, Still
    PROVE  /\ Onward /\ configs' \subseteq Seq(Witnesses)
           /\ WitnessesOk' /\ RowsOk' /\ ClosedIsAccepted'
<1>1. Len(cuts) \in Nat
  BY ChainGrows DEF RInv
<1>2. UNCHANGED <<layout, configs, cuts, tip, took, receipts, rows>>
  BY DEF Still
<1>3. Onward
  BY <1>1, <1>2 DEF Onward, RowsForward, RowForward
<1>4. WitnessesOk'
  BY <1>2 DEF DInv, WitnessesOk
<1>5. RowsOk'
  BY <1>2 DEF DInv, RowsOk
<1>6. ClosedIsAccepted'
  BY <1>2 DEF DInv, ClosedIsAccepted
<1> QED BY <1>2, <1>3, <1>4, <1>5, <1>6 DEF DInv

\* The runner r goes on as y.
LEMMA StillStep ==
    ASSUME RInv, DInv, Still, NEW r \in Runners, NEW y, run' = [run EXCEPT ![r] = y], DeliversOk(y)
    PROVE  DInv'
<1>1. RowsOk /\ RunsDeliver
  BY DEF DInv
<1>2. /\ Onward /\ configs' \subseteq Seq(Witnesses)
      /\ WitnessesOk' /\ RowsOk' /\ ClosedIsAccepted'
  BY StillKeeps
<1>3. DeliversOk(y)'
  BY <1>1, <1>2, DeliversCarries
<1>4. RunsDeliver'
  BY <1>1, <1>2, <1>3, RunsStep
<1> QED BY <1>2, <1>4 DEF DInv

\* No runner moves.
LEMMA StillStay ==
    ASSUME RInv, DInv, Still, UNCHANGED run
    PROVE  DInv'
<1>1. RowsOk /\ RunsDeliver
  BY DEF DInv
<1>2. /\ Onward /\ configs' \subseteq Seq(Witnesses)
      /\ WitnessesOk' /\ RowsOk' /\ ClosedIsAccepted'
  BY StillKeeps
<1>3. RunsDeliver'
  BY <1>1, <1>2, RunsStay
<1> QED BY <1>2, <1>3 DEF DInv

LEMMA OffDelivers ==
    ASSUME NEW at \in Out
    PROVE  DeliversOk([Off EXCEPT !.at = at]) /\ DeliversOk(Off)
<1>1. <<>> \in Seq(Witnesses) /\ <<>> \in Seq(Nat) /\ DOMAIN <<>> = {}
  OBVIOUS
<1> DEFINE y == [Off EXCEPT !.at = at]
<1>2. /\ y.urls = <<>> /\ y.todo = <<>> /\ y.queue = [w \in Witnesses |-> <<>>]
      /\ y.given = {} /\ y.prep = <<>> /\ y.at = at
      /\ Off.urls = <<>> /\ Off.todo = <<>> /\ Off.queue = [w \in Witnesses |-> <<>>]
      /\ Off.given = {} /\ Off.prep = <<>> /\ Off.at = "off"
  BY DEF Off
<1> HIDE DEF y
<1>3. DeliversOk(y)
  BY <1>1, <1>2 DEF DeliversOk, QueueOk, Out, Sending
<1>4. DeliversOk(Off)
  BY <1>1, <1>2 DEF DeliversOk, QueueOk, Out, Sending
<1> QED BY <1>3, <1>4 DEF y

LEMMA InitDelivers ==
    ASSUME Init
    PROVE  DInv
<1>1. PICK n \in Nodes :
          /\ configs = n.configs /\ tip = n.tips
          /\ run = [r \in Runners |-> IF r \in n.runners THEN Off ELSE [Off EXCEPT !.at = "absent"]]
  BY DEF Init, NodeInit
<1>2. configs \subseteq Seq(Witnesses) /\ tip \in [Witnesses -> {<<>>, Foreign}]
  BY <1>1, NodesAssumption
<1>3. /\ cuts = <<>> /\ took = [w \in Witnesses |-> {}] /\ receipts = {}
      /\ rows = [w \in Witnesses |-> <<>>]
  BY DEF Init, NodeInit
<1>4. WitnessesOk
  BY <1>2, <1>3 DEF WitnessesOk
<1>5. RowsOk
  <2>1. <<>> \in Seq(RowSet)
    OBVIOUS
  <2> QED BY <1>3, <2>1 DEF RowsOk
<1>6. ClosedIsAccepted
  <2>1. DOMAIN <<>> = {}
    OBVIOUS
  <2> QED BY <1>3, <2>1 DEF ClosedIsAccepted
<1>7. ASSUME NEW r \in Runners PROVE DeliversOk(run[r])
  <2>1. run[r] \in {Off, [Off EXCEPT !.at = "absent"]}
    BY <1>1
  <2>2. "absent" \in Out
    BY DEF Out
  <2> QED BY <2>1, <2>2, OffDelivers
<1> QED BY <1>2, <1>4, <1>5, <1>6, <1>7 DEF DInv, RunsDeliver

\* A call at r that has given nothing begins another.
LEMMA IsReady ==
    ASSUME RInv, DInv, NEW r \in Runners, run[r].at \in {"idle", "pad", "fold"}
    PROVE  /\ IsState(run[r]) /\ DeliversOk(run[r]) /\ Ready(run[r]) /\ Ready(Folded(run[r]))
           /\ Begins(run[r], Folded(run[r]))
<1> DEFINE x == run[r]
<1>1. IsState(x) /\ DeliversOk(x)
  BY DEF RInv, RunInv, StateOk, DInv, RunsDeliver
<1>2. Ready(x)
  BY <1>1 DEF Ready, DeliversOk
<1>3. /\ Folded(x).urls = x.urls /\ Folded(x).given = x.given /\ Folded(x).todo = x.todo
      /\ Folded(x).last = x.last /\ Folded(x).queue = x.queue /\ Folded(x).at = x.at
      /\ IsState(Folded(x))
  <2>1. PICK z : z = x
    OBVIOUS
  <2>2. IsState(z)
    BY <1>1, <2>1
  <2>3. /\ Folded(z).urls = z.urls /\ Folded(z).given = z.given /\ Folded(z).todo = z.todo
        /\ Folded(z).last = z.last /\ Folded(z).queue = z.queue /\ Folded(z).at = z.at
        /\ IsState(Folded(z))
    BY <2>2 DEF IsState, Fields, Folded
  <2> QED BY <2>1, <2>3
<1> QED BY <1>1, <1>2, <1>3 DEF Ready, Begins, Sending

\* What begins at r takes the invariant along.
LEMMA BeginsStep ==
    ASSUME RInv, DInv, Still, NEW r \in Runners, run[r].at \in {"idle", "pad", "fold"}, NEW y,
           run' = [run EXCEPT ![r] = y],
           y = Folded(run[r]) \/ Begins(run[r], y) \/ Begins(Folded(run[r]), y)
    PROVE  DInv'
<1>1. /\ DeliversOk(run[r]) /\ Begins(run[r], Folded(run[r])) /\ run[r].at \notin Out
  BY IsReady DEF Out
<1>2. Begins(run[r], y)
  BY <1>1 DEF Begins
<1>3. DeliversOk(y)
  BY <1>1, <1>2, BeginsOk
<1> QED BY <1>3, StillStep

LEMMA TickDelivers ==
    ASSUME RInv, DInv, NEW r \in Runners, Tick(r) \/ Push(r) \/ Reconnect(r)
    PROVE  DInv'
<1> DEFINE x == Folded(run[r])
<1>1. run[r].at = "idle" /\ Still
  BY DEF Tick, Push, Reconnect, Quiet, Still, Becomes
<1>2. Ready(x) /\ layout \in {"flat", "stores"}
  BY <1>1, IsReady DEF RInv, LedgerType
<1>3. PICK y : /\ run' = [run EXCEPT ![r] = y]
               /\ \/ y = Cuts(r, x, TRUE, 0)
                  \/ layout = "flat" /\ y \in {RetriesPending(x), RetriesPending(OffersDeferred(x))}
                  \/ layout # "flat" /\ y = Delivers(x)
                  \/ y = x
                  \/ \E i \in DOMAIN x.mem : y = Cuts(r, x, FALSE, x.mem[i])
  BY DEF Tick, Push, Reconnect, Becomes
<1>4. y = Folded(run[r]) \/ Begins(x, y)
  <2> HIDE DEF x
  <2>1. PICK z : z = x
    OBVIOUS
  <2>2. /\ \A reg, push : Begins(z, Cuts(r, z, reg, push))
        /\ layout = "stores" => Begins(z, Delivers(z))
        /\ layout = "flat" => /\ Begins(z, RetriesPending(z))
                              /\ Begins(z, RetriesPending(OffersDeferred(z)))
    BY <1>2, <2>1, CutsBegins, DeliversBegins, RetriesBegins
  <2> QED BY <1>2, <1>3, <2>1, <2>2 DEF x
<1> QED BY <1>1, <1>3, <1>4, BeginsStep

LEMMA PadDelivers ==
    ASSUME RInv, DInv, NEW r \in Runners, Pad(r)
    PROVE  DInv'
<1>1. run[r].at = "pad" /\ Still
  BY DEF Pad, Still, Becomes, PadsBy
<1>2. PICK v, y : /\ run' = [run EXCEPT ![r] = y]
                  /\ y = [run[r] EXCEPT !.at = "fold", !.goal = v] \/ y = Idle(run[r])
  BY DEF Pad, Becomes
<1>3. PICK x : x = run[r]
  OBVIOUS
<1>4. Ready(x)
  BY <1>1, <1>3, IsReady
<1>5. Begins(x, y)
  <2>1. Begins(x, Idle(x))
    BY <1>4, IdleBegins DEF Ready
  <2>2. Begins(x, [x EXCEPT !.at = "fold", !.goal = v])
    BY <1>4 DEF Ready, Begins, IsState, Fields, Sending
  <2> QED BY <1>2, <1>3, <2>1, <2>2
<1> QED BY <1>1, <1>2, <1>3, <1>5, BeginsStep

LEMMA FoldDelivers ==
    ASSUME RInv, DInv, NEW r \in Runners, Fold(r)
    PROVE  DInv'
<1> DEFINE x == Folded(run[r])
<1>1. run[r].at = "fold" /\ Still
  BY DEF Fold, Still, Becomes
<1>2. PICK y : /\ run' = [run EXCEPT ![r] = y]
               /\ y \in {Idle(run[r]), Idle(x), Prepared(x, Goal(x))}
  BY DEF Fold, Becomes
<1>3. Ready(x) /\ Ready(run[r])
  BY <1>1, IsReady
<1>4. Begins(run[r], y) \/ Begins(x, y)
  <2> HIDE DEF x
  <2>1. PICK z : z = x
    OBVIOUS
  <2>2. PICK u : u = run[r]
    OBVIOUS
  <2>3. Begins(z, Prepared(z, Goal(z))) /\ Begins(z, Idle(z)) /\ Begins(u, Idle(u))
    BY <1>3, <2>1, <2>2, PreparedBegins, IdleBegins DEF Ready
  <2> QED BY <1>2, <2>1, <2>2, <2>3
<1> QED BY <1>1, <1>2, <1>4, BeginsStep

LEMMA CrashDelivers ==
    ASSUME RInv, DInv, NEW r \in Runners, Crash(r)
    PROVE  DInv'
<1>1. Still
  BY DEF Crash, LedgerDies, Still
<1>2. run' = [run EXCEPT ![r] = Off]
  BY DEF Crash
<1>3. DeliversOk(Off)
  <2>1. "off" \in Out
    BY DEF Out
  <2> QED BY <2>1, OffDelivers
<1> QED BY <1>1, <1>2, <1>3, StillStep

LEMMA LedgerDelivers ==
    ASSUME RInv, DInv, (LedgerNext /\ OnlyLedger) \/ Rewrite \/ UNCHANGED vars
    PROVE  DInv'
<1>1. Still /\ UNCHANGED run
  BY DEF LedgerNext, OpenFlat, OpenStores, Append1, WriteLine, WriteFails, OnlyLedger, Rewrite,
         vars, ledgerVars, nodeVars, Still
<1> QED BY <1>1, StillStay

-----------------------------------------------------------------------------
(* A restart: the rows say what is still to be sent.                        *)

LEMMA UndeliveredIs ==
    ASSUME CutsInv, NEW w, rows[w] \in Seq(RowSet), Len(rows[w]) = Len(cuts)
    PROVE  /\ QueueOk(Undelivered(w))
           /\ \A k \in DOMAIN cuts : Accounted(Undelivered(w), w, k)
<1> DEFINE closed == {k \in DOMAIN rows[w] : rows[w][k].st \in {"receipt", "ahead"}}
           S == {k \in DOMAIN rows[w] :
                    \/ rows[w][k].st = "held"
                    \/ rows[w][k].st = "open" /\ \A c \in closed : c < k}
           q == InOrder(S)
<1>1. Len(cuts) \in Nat /\ DOMAIN cuts = 1 .. Len(cuts) /\ DOMAIN rows[w] = 1 .. Len(cuts)
  BY ChainGrows
<1>2. S \in SUBSET (1 .. Len(cuts))
  BY <1>1
<1>3. Undelivered(w) = q
  BY DEF Undelivered
<1>4. q \in Seq(S) /\ q \in Seq(Nat) /\ ToSet(q) = S /\ Rises(q)
  <2> HIDE DEF S
  <2> QED BY <1>1, <1>2, InOrderIs DEF Lists
<1>5. QueueOk(q)
  <2> HIDE DEF q
  <2>1. \A i \in DOMAIN q : q[i] \in S
    <3> HIDE DEF S
    <3> QED BY <1>4
  <2> QED BY <1>1, <1>2, <1>4, <2>1 DEF QueueOk, Rises
<1>6. ASSUME NEW k \in DOMAIN cuts PROVE Accounted(q, w, k)
  <2>1. rows[w][k] \in RowSet
    BY <1>1
  <2>2. CASE k \in S
    BY <1>4, <2>2 DEF Accounted
  <2>3. CASE k \in closed
    <3>1. k \in k .. Len(cuts)
      BY <1>1
    <3> QED BY <2>3, <3>1 DEF Accounted, Closed1
  <2>4. CASE rows[w][k].st = "open" /\ \E c \in closed : ~(c < k)
    <3>1. PICK c \in closed : ~(c < k)
      BY <2>4
    <3>2. c \in k .. Len(cuts)
      BY <1>1, <3>1
    <3> QED BY <3>1, <3>2 DEF Accounted, Closed1
  <2>5. CASE rows[w][k] = NoRow
    BY <2>5 DEF Accounted
  <2> HIDE DEF q
  <2> QED BY <1>1, <2>1, <2>2, <2>3, <2>4, <2>5 DEF RowSet
<1> QED BY <1>3, <1>5, <1>6

LEMMA LoadDelivers ==
    ASSUME RInv, DInv, NEW r \in Runners, LoadFlat(r) \/ LoadLog(r)
    PROVE  DInv'
<1>1. Still /\ CutsInv
  BY DEF LoadFlat, LoadLog, Still, ledgerVars, RInv
<1>2. <<>> \in Seq(Witnesses) /\ <<>> \in Seq(Nat) /\ DOMAIN <<>> = {} /\ Latest \in {<<>>} \cup Roots
  BY <1>1, LatestIsLongest
<1>3. CASE LoadFlat(r)
  <2>1. PICK urls \in configs : run' = [run EXCEPT ![r] = Loaded(urls, stored')]
    BY <1>3 DEF LoadFlat
  <2>2. PICK leaves : leaves = stored'
    OBVIOUS
  <2> DEFINE y == Loaded(urls, leaves)
  <2>3. /\ y.at = "idle" /\ y.urls = urls /\ y.todo = <<>> /\ y.queue = [w \in Witnesses |-> <<>>]
        /\ y.given = {} /\ y.prep = <<>> /\ y.last = Latest
    BY DEF Loaded, Off
  <2>4. urls \in Seq(Witnesses) /\ layout = "flat"
    BY <1>3 DEF DInv, LoadFlat
  <2>5. run' = [run EXCEPT ![r] = y]
    BY <2>1, <2>2
  <2> HIDE DEF y
  <2>6. DeliversOk(y)
    BY Zenon, <1>2, <2>3, <2>4 DEF DeliversOk, QueueOk, Out, Sending
  <2> QED BY <1>1, <2>5, <2>6, StillStep
<1>4. CASE LoadLog(r)
  <2>1. PICK urls \in configs : \E known :
            run' = [run EXCEPT ![r] = [Loaded(urls, Ids(file)) EXCEPT !.known = known,
                !.queue = [w \in Witnesses |-> IF w \in ToSet(urls) THEN Undelivered(w) ELSE <<>>]]]
    BY Zenon, <1>4 DEF LoadLog
  <2>2. PICK known :
            run' = [run EXCEPT ![r] = [Loaded(urls, Ids(file)) EXCEPT !.known = known,
                !.queue = [w \in Witnesses |-> IF w \in ToSet(urls) THEN Undelivered(w) ELSE <<>>]]]
    BY <2>1
  <2> DEFINE queue == [w \in Witnesses |-> IF w \in ToSet(urls) THEN Undelivered(w) ELSE <<>>]
             y == [Loaded(urls, Ids(file)) EXCEPT !.known = known, !.queue = queue]
  <2>3. /\ y.at = "idle" /\ y.urls = urls /\ y.todo = <<>> /\ y.queue = queue
        /\ y.given = {} /\ y.prep = <<>> /\ y.last = Latest
    <3> HIDE DEF queue
    <3> QED BY Zenon DEF Loaded, Off
  <2>4. urls \in Seq(Witnesses) /\ layout = "stores" /\ RowsOk
    BY <1>4 DEF DInv, LoadLog
  <2>5. ASSUME NEW w \in Witnesses
        PROVE  /\ QueueOk(Undelivered(w))
               /\ \A k \in DOMAIN cuts : Accounted(Undelivered(w), w, k)
    <3>1. rows[w] \in Seq(RowSet) /\ Len(rows[w]) = Len(cuts)
      BY <2>4 DEF RowsOk
    <3> QED BY <1>1, <3>1, UndeliveredIs
  <2>6. QueueOk(<<>>)
    BY <1>2 DEF QueueOk
  <2>7. ToSet(urls) \subseteq Witnesses
    BY <2>4 DEF ToSet
  <2>8. run' = [run EXCEPT ![r] = y]
    BY <2>2
  <2>9. \A w \in Witnesses : QueueOk(queue[w])
    BY <2>5, <2>6
  <2>10. ASSUME NEW w \in ToSet(urls), NEW k \in DOMAIN cuts PROVE Accounted(queue[w], w, k)
    <3>1. queue[w] = Undelivered(w)
      BY <2>7
    <3> QED BY <2>5, <2>7, <3>1
  <2>11. queue = [w \in Witnesses |-> queue[w]]
    OBVIOUS
  <2> HIDE DEF queue, y
  <2>12. DeliversOk(y)
    BY <1>2, <2>3, <2>4, <2>9, <2>10, <2>11 DEF DeliversOk, Out, Sending
  <2> QED BY <1>1, <2>8, <2>12, StillStep
<1> QED BY <1>3, <1>4

-----------------------------------------------------------------------------
(* A commit.                                                                *)

\* A cut of r's follows the others, and is none of them.
LEMMA CutFollows ==
    ASSUME RInv, NEW r \in Runners, run[r].at = "commit", run[r].last = Latest,
           layout = "stores", cuts' = Append(cuts, Cut(r, "written"))
    PROVE  LET k == Len(cuts) + 1
           IN /\ Len(cuts') = k /\ DOMAIN cuts' = 1 .. k /\ cuts'[k].leaves = run[r].prep
              /\ Latest' = run[r].prep /\ run[r].prep # <<>>
              /\ Latest' \notin {<<>>} \cup Roots /\ Latest' \in Roots'
              /\ Len(cuts) \in Nat /\ DOMAIN cuts = 1 .. Len(cuts)
              /\ \A j \in DOMAIN cuts : j \in DOMAIN cuts' /\ cuts'[j] = cuts[j]
<1> DEFINE k == Len(cuts) + 1
<1>1. CutsInv /\ StateOk(r, run[r])
  BY DEF RInv, RunInv
<1>2. /\ PreparedOk(r, run[r]) /\ run[r].prep \in Seq(Nat) /\ run[r].last \in Seq(Nat)
      /\ run[r].prep # <<>>
  BY <1>1 DEF StateOk
<1>3. Len(run[r].last) < Len(run[r].prep)
  BY <1>2, StrictIsLonger DEF PreparedOk
<1>4. cuts \in Seq(CutSet) /\ Len(cuts) \in Nat /\ DOMAIN cuts = 1 .. Len(cuts)
  BY <1>1, ChainGrows
<1>5. /\ Len(cuts') = k /\ DOMAIN cuts' = 1 .. k /\ cuts'[k] = Cut(r, "written") /\ k \in 1 .. k
      /\ \A j \in DOMAIN cuts : j \in DOMAIN cuts' /\ cuts'[j] = cuts[j]
  <2>1. \A j \in 1 .. Len(cuts) : j \in 1 .. Len(cuts) + 1
    BY <1>4
  <2>2. Cut(r, "written") \in CutSet
    <3>1. HasSink(r) \in BOOLEAN
      BY DEF HasSink
    <3> QED BY <1>2, <3>1 DEF Cut, CutSet
  <2>3. Len(cuts) + 1 \in Nat /\ Len(cuts) + 1 \in 1 .. Len(cuts) + 1
    BY <1>4
  <2>4. /\ Len(cuts') = k /\ DOMAIN cuts' = 1 .. k /\ cuts'[k] = Cut(r, "written")
        /\ \A j \in 1 .. Len(cuts) : cuts'[j] = cuts[j]
    BY <1>4, <2>2, AppendProperties
  <2> QED BY <1>4, <2>1, <2>3, <2>4
<1>6. cuts'[k].leaves = run[r].prep
  BY <1>5 DEF Cut
<1>11. \A j \in DOMAIN cuts' : cuts'[j].how = "written"
  <2>1. \A j \in DOMAIN cuts' : j \in DOMAIN cuts \/ j = k
    BY <1>4, <1>5
  <2> QED BY <1>1, <1>5, <2>1 DEF CutsInv, Cut
<1>7. Latest' = run[r].prep /\ k \in Legible'
  <2>1. PICK S : S = Legible'
    OBVIOUS
  <2>2. S = 1 .. k
    BY <1>5, <1>11, <2>1 DEF Legible
  <2>3. S # {} /\ S \in SUBSET (1 .. k) /\ k \in Nat /\ k \in S
    BY <1>4, <2>2
  <2>4. PICK top : top = Max(S)
    OBVIOUS
  <2> HIDE DEF k
  <2>5. top \in S /\ \A j \in S : top >= j
    BY <2>3, <2>4, MaxIsIn
  <2>6. top = k
    BY <2>2, <2>3, <2>5
  <2> QED BY <1>6, <2>1, <2>3, <2>4, <2>6 DEF Latest
<1>8. \A root \in {<<>>} \cup Roots : Len(root) <= Len(Latest) /\ root \in Seq(Nat)
  <2>1. <<>> \in Seq(Nat)
    OBVIOUS
  <2> QED BY <1>1, <2>1, LatestIsLongest
<1>9. Latest' \notin {<<>>} \cup Roots
  <2> SUFFICES ASSUME Latest' \in {<<>>} \cup Roots PROVE FALSE
    OBVIOUS
  <2>1. Len(run[r].prep) <= Len(run[r].last)
    BY <1>7, <1>8
  <2>2. Len(run[r].prep) \in Nat /\ Len(run[r].last) \in Nat
    BY <1>2
  <2> QED BY <1>3, <2>1, <2>2
<1>10. Latest' \in Roots'
  BY <1>6, <1>7 DEF Roots
<1> QED BY <1>2, <1>4, <1>5, <1>6, <1>7, <1>9, <1>10

LEMMA CommitFlatDelivers ==
    ASSUME RInv, DInv, NEW r \in Runners, CommitFlat(r)
    PROVE  DInv'
<1>1. PICK x : x = run[r]
  OBVIOUS
<1>2. x.at = "commit" /\ layout = "flat" /\ UNCHANGED <<layout, configs, tip, took, rows>>
  BY <1>1 DEF CommitFlat
<1>3. IsState(x) /\ StateOk(r, x) /\ DeliversOk(x) /\ x.at \notin Out
  BY <1>1, <1>2 DEF RInv, RunInv, StateOk, DInv, RunsDeliver, Out
<1>4. \/ UNCHANGED cuts
      \/ \E how \in {"written", "unheard", "torn", "glued"} : cuts' = Append(cuts, Cut(r, how))
  BY DEF CommitFlat, CutLine
<1>5. receipts' \subseteq receipts \cup {<<w, x.prep>> : w \in x.given}
  BY <1>1 DEF CommitFlat, CutLine
<1>6. /\ Len(cuts) \in Nat /\ Len(cuts') \in Nat /\ Len(cuts) <= Len(cuts')
      /\ \A j \in DOMAIN cuts : j \in DOMAIN cuts' /\ cuts'[j] = cuts[j]
  <2>1. cuts \in Seq(CutSet) /\ Len(cuts) \in Nat /\ DOMAIN cuts = 1 .. Len(cuts)
    BY ChainGrows DEF RInv
  <2>2. CASE UNCHANGED cuts
    BY <2>1, <2>2
  <2>3. ASSUME NEW how \in {"written", "unheard", "torn", "glued"}, cuts' = Append(cuts, Cut(r, how))
        PROVE  /\ Len(cuts') \in Nat /\ Len(cuts) <= Len(cuts')
               /\ \A j \in DOMAIN cuts : j \in DOMAIN cuts' /\ cuts'[j] = cuts[j]
    <3>1. PICK c : c = Cut(r, how)
      OBVIOUS
    <3>2. c \in CutSet
      <4>1. HasSink(r) \in BOOLEAN
        BY DEF HasSink
      <4> QED BY <1>1, <1>3, <3>1, <4>1 DEF StateOk, Cut, CutSet
    <3>3. /\ cuts' \in Seq(CutSet) /\ Len(cuts') = Len(cuts) + 1
          /\ \A j \in 1 .. Len(cuts) : cuts'[j] = cuts[j]
      BY <2>1, <2>3, <3>1, <3>2, AppendProperties
    <3> QED BY <2>1, <3>3
  <2> QED BY <1>4, <2>1, <2>2, <2>3
<1>7. Onward
  BY <1>2, <1>6 DEF Onward, RowsForward
<1>8. ASSUME NEW p \in receipts' PROVE p[1] \in Witnesses /\ p[2] \in took'[p[1]]
  <2>1. CASE p \in receipts
    BY <1>2, <2>1 DEF DInv, WitnessesOk, ClosedIsAccepted
  <2>2. CASE p \notin receipts
    <3>1. PICK w \in x.given : p = <<w, x.prep>>
      BY <1>5, <1>8, <2>2
    <3>2. w \in Witnesses /\ x.prep \in took[w]
      BY <1>2, <1>3 DEF DeliversOk, StateOk
    <3> QED BY <1>2, <3>1, <3>2
  <2> QED BY <2>1, <2>2
<1>9. WitnessesOk' /\ RowsOk' /\ ClosedIsAccepted'
  <2>1. WitnessesOk'
    BY <1>2, <1>8 DEF DInv, WitnessesOk
  <2>2. RowsOk'
    BY <1>2 DEF RowsOk
  <2>3. ClosedIsAccepted'
    BY <1>2, <1>8 DEF ClosedIsAccepted
  <2> QED BY <2>1, <2>2, <2>3
<1>10. Begins(x, Idle(x)) /\ Idle(x).at = "idle"
  BY <1>3, IdleBegins
<1>11. PICK y, v : /\ run' = [run EXCEPT ![r] = y]
                   /\ y = Idle(x) \/ y = [Idle(x) EXCEPT !.last = x.prep, !.deferred = v]
  BY Zenon, <1>1 DEF CommitFlat
<1>12. /\ y.at = "idle" /\ y.urls = x.urls /\ y.todo \in Seq(Witnesses) /\ y.queue = x.queue
       /\ y.given = {}
  BY <1>10, <1>11 DEF Begins, IsState, Fields
<1>13. DeliversOk(x)'
  BY <1>3, <1>7, DeliversCarries DEF DInv
<1>14. DeliversOk(y)'
  <2>1. layout' = "flat"
    BY <1>2
  <2> QED BY <1>12, <1>13, <2>1 DEF DeliversOk, Out, Sending
<1>15. RunsDeliver'
  BY <1>7, <1>11, <1>14, RunsStep DEF DInv
<1> QED BY <1>2, <1>9, <1>15 DEF DInv

\* The rows of a cut are added with it, open where it is to be sent.
LEMMA RowsAdded ==
    ASSUME RowsOk, ClosedIsAccepted, layout = "stores", UNCHANGED <<layout, took, receipts>>,
           NEW W, rows' = [w \in Witnesses |-> Append(rows[w], IF w \in W THEN OpenRow ELSE NoRow)],
           Len(cuts) \in Nat, DOMAIN cuts = 1 .. Len(cuts),
           Len(cuts') = Len(cuts) + 1, DOMAIN cuts' = 1 .. Len(cuts) + 1,
           \A j \in DOMAIN cuts : cuts'[j] = cuts[j]
    PROVE  /\ RowsOk' /\ RowsForward /\ ClosedIsAccepted'
           /\ \A w \in Witnesses : rows'[w][Len(cuts) + 1] = IF w \in W THEN OpenRow ELSE NoRow
<1> DEFINE n == Len(cuts)
<1>1. ASSUME NEW w \in Witnesses
      PROVE  /\ rows'[w] \in Seq(RowSet) /\ Len(rows'[w]) = Len(cuts')
             /\ rows'[w][n + 1] = IF w \in W THEN OpenRow ELSE NoRow
             /\ \A k \in 1 .. n : rows'[w][k] = rows[w][k]
  <2> DEFINE e == IF w \in W THEN OpenRow ELSE NoRow
  <2>1. rows[w] \in Seq(RowSet) /\ Len(rows[w]) = n
    BY DEF RowsOk
  <2>2. e \in RowSet
    BY DEF RowSet, OpenRow, NoRow
  <2>3. rows'[w] = Append(rows[w], e)
    OBVIOUS
  <2> HIDE DEF e
  <2>4. /\ Append(rows[w], e) \in Seq(RowSet) /\ Len(Append(rows[w], e)) = n + 1
        /\ Append(rows[w], e)[n + 1] = e
        /\ \A k \in 1 .. n : Append(rows[w], e)[k] = rows[w][k]
    BY <2>1, <2>2, AppendProperties
  <2>5. rows'[w][n + 1] = e /\ \A k \in 1 .. n : rows'[w][k] = rows[w][k]
    BY <2>3, <2>4
  <2>6. rows'[w] \in Seq(RowSet) /\ Len(rows'[w]) = Len(cuts')
    BY <2>3, <2>4
  <2> QED BY <2>5, <2>6 DEF e
<1>2. RowsOk'
  BY <1>1 DEF RowsOk
<1>3. RowsForward
  BY <1>1 DEF RowsForward, RowForward
<1>4. ASSUME NEW w \in Witnesses, NEW k \in DOMAIN cuts'
      PROVE  /\ rows'[w][k].st = "receipt" => cuts'[k].leaves \in took'[w]
             /\ rows'[w][k].st = "ahead" => \E j \in k .. Len(cuts') : cuts'[j].leaves \in took'[w]
  <2>1. CASE k = n + 1
    <3>1. rows'[w][k].st \notin {"receipt", "ahead"}
      BY <1>1, <2>1 DEF OpenRow, NoRow
    <3> QED BY <3>1
  <2>2. CASE k # n + 1
    <3>1. k \in DOMAIN cuts /\ k \in 1 .. n
      BY <2>2
    <3>2. rows'[w][k] = rows[w][k] /\ cuts'[k] = cuts[k]
      BY <1>1, <3>1
    <3>3. /\ rows[w][k].st = "receipt" => cuts[k].leaves \in took[w]
          /\ rows[w][k].st = "ahead" => \E j \in k .. n : cuts[j].leaves \in took[w]
      BY <3>1 DEF ClosedIsAccepted
    <3>4. ASSUME NEW j \in k .. n, cuts[j].leaves \in took[w]
          PROVE  j \in k .. Len(cuts') /\ cuts'[j].leaves \in took'[w]
      <4>1. j \in DOMAIN cuts /\ j \in k .. Len(cuts')
        BY <3>1
      <4> QED BY <3>4, <4>1
    <3>5. rows'[w][k].st = "receipt" => cuts'[k].leaves \in took'[w]
      BY <3>2, <3>3
    <3>6. rows'[w][k].st = "ahead" => \E j \in k .. Len(cuts') : cuts'[j].leaves \in took'[w]
      BY <3>2, <3>3, <3>4
    <3> QED BY <3>5, <3>6
  <2> QED BY <2>1, <2>2
<1>5. ClosedIsAccepted'
  <2>1. \A p \in receipts' : p[2] \in took'[p[1]]
    BY DEF ClosedIsAccepted
  <2> QED BY <1>4, <2>1 DEF ClosedIsAccepted
<1> QED BY <1>1, <1>2, <1>3, <1>5

\* The cut goes behind what is queued.
LEMMA QueueAppended ==
    ASSUME NEW q, QueueOk(q), Len(cuts) \in Nat, DOMAIN cuts = 1 .. Len(cuts),
           DOMAIN cuts' = 1 .. Len(cuts) + 1, NEW n, n = Len(cuts) + 1
    PROVE  QueueOk(Append(q, n))' /\ ToSet(q) \subseteq ToSet(Append(q, n)) /\ n \in ToSet(Append(q, n))
<1>1. /\ q \in Seq(Nat) /\ Len(q) \in Nat /\ n \in Nat
      /\ \A i \in 1 .. Len(q) : q[i] \in 1 .. Len(cuts)
      /\ \A i, j \in 1 .. Len(q) : i < j => q[i] < q[j]
  BY DEF QueueOk
<1> DEFINE p == Append(q, n)
<1>2. /\ p \in Seq(Nat) /\ Len(p) = Len(q) + 1 /\ p[Len(q) + 1] = n
      /\ \A i \in 1 .. Len(q) : p[i] = q[i]
  BY <1>1, AppendProperties
<1> HIDE DEF p
<1>3. \A i \in DOMAIN p : i \in 1 .. Len(q) \/ i = Len(q) + 1
  BY <1>1, <1>2
<1>4. \A i \in 1 .. Len(q) : i \in DOMAIN p
  BY <1>1, <1>2
<1>5. Len(q) + 1 \in DOMAIN p
  BY <1>1, <1>2
<1>6. ASSUME NEW i \in DOMAIN p PROVE p[i] \in DOMAIN cuts'
  <2>1. CASE i \in 1 .. Len(q)
    <3>1. p[i] = q[i] /\ q[i] \in 1 .. Len(cuts)
      BY <1>1, <1>2, <2>1
    <3> QED BY <3>1
  <2>2. CASE i = Len(q) + 1
    BY <1>2, <2>2
  <2> QED BY <1>3, <2>1, <2>2
<1>7. ASSUME NEW i \in DOMAIN p, NEW j \in DOMAIN p, i < j PROVE p[i] < p[j]
  <2>1. i \in 1 .. Len(q)
    BY <1>1, <1>2, <1>3, <1>7
  <2>2. CASE j = Len(q) + 1
    BY <1>1, <1>2, <2>1, <2>2
  <2>3. CASE j \in 1 .. Len(q)
    BY <1>1, <1>2, <1>7, <2>1, <2>3
  <2> QED BY <1>3, <2>2, <2>3
<1>8. QueueOk(p)'
  BY <1>2, <1>6, <1>7 DEF QueueOk
<1>9. ToSet(q) \subseteq ToSet(p)
  <2> SUFFICES ASSUME NEW i \in DOMAIN q PROVE q[i] \in ToSet(p)
    BY DEF ToSet
  <2>1. i \in DOMAIN p /\ p[i] = q[i]
    BY SMT, <1>1, <1>2, <1>4
  <2> QED BY <2>1 DEF ToSet
<1>10. n \in ToSet(p)
  BY <1>2, <1>5 DEF ToSet
<1> QED BY <1>8, <1>9, <1>10 DEF p

LEMMA CommitStoresDelivers ==
    ASSUME RInv, DInv, NEW r \in Runners, CommitStores(r)
    PROVE  DInv'
<1>1. /\ run[r].at = "commit" /\ layout = "stores"
      /\ UNCHANGED <<layout, configs, tip, took, receipts>>
  BY DEF CommitStores
<1>2. PICK x : x = run[r]
  OBVIOUS
<1>3. IsState(x) /\ DeliversOk(x) /\ x.at = "commit" /\ x.at \notin Out
  BY <1>1, <1>2 DEF RInv, RunInv, StateOk, DInv, RunsDeliver, Out
<1>4. Begins(x, Idle(x)) /\ Idle(x).at = "idle" /\ DeliversOk(Idle(x))
  <2>1. Begins(x, Idle(x)) /\ Idle(x).at = "idle"
    BY <1>3, IdleBegins
  <2> QED BY <1>3, <2>1, BeginsOk
<1>5. CASE run' = [run EXCEPT ![r] = Idle(x)] /\ UNCHANGED <<cuts, rows>>
  <2>1. Still
    BY <1>1, <1>5 DEF Still
  <2> QED BY <1>4, <1>5, <2>1, StillStep
<1> DEFINE n == Len(cuts) + 1
           W == ToSet(x.urls)
           Q == [w \in Witnesses |-> IF w \in W THEN Append(x.queue[w], n) ELSE x.queue[w]]
<1>6. CASE /\ x.last = Latest /\ cuts' = Append(cuts, Cut(r, "written"))
           /\ rows' = [w \in Witnesses |-> Append(rows[w], IF w \in W THEN OpenRow ELSE NoRow)]
           /\ \/ run' = [run EXCEPT ![r] = Idle(x)]
              \/ LET c == [x EXCEPT !.last = x.prep, !.seen = x.mem, !.queue = Q]
                 IN run' = [run EXCEPT ![r] =
                        IF x.register THEN Delivers(Idle(c))
                        ELSE [Idle(c) EXCEPT !.deferred = TRUE]]
  <2>1. /\ Len(cuts') = n /\ DOMAIN cuts' = 1 .. n /\ Latest' = x.prep
        /\ Latest' \notin {<<>>} \cup Roots /\ Latest' \in Roots'
        /\ Len(cuts) \in Nat /\ DOMAIN cuts = 1 .. Len(cuts)
        /\ \A j \in DOMAIN cuts : j \in DOMAIN cuts' /\ cuts'[j] = cuts[j]
    BY <1>1, <1>2, <1>6, CutFollows
  <2>2. /\ RowsOk' /\ RowsForward /\ ClosedIsAccepted'
        /\ \A w \in Witnesses : rows'[w][n] = IF w \in W THEN OpenRow ELSE NoRow
    <3>1. RowsOk /\ ClosedIsAccepted
      BY DEF DInv
    <3> HIDE DEF W
    <3> QED BY <1>1, <1>6, <2>1, <3>1, RowsAdded
  <2>3. Onward
    <3>1. Len(cuts) <= Len(cuts') /\ Len(cuts') \in Nat
      BY <2>1
    <3> QED BY <1>1, <2>1, <2>2, <3>1 DEF Onward
  <2>4. WitnessesOk'
    BY <1>1 DEF DInv, WitnessesOk
  <2>5. SUFFICES RunsDeliver'
    BY <1>1, <2>2, <2>4 DEF DInv
  <2>6. CASE run' = [run EXCEPT ![r] = Idle(x)]
    <3>1. DeliversOk(Idle(x))'
      <4>1. PICK y : y = Idle(x)
        OBVIOUS
      <4>2. DeliversOk(y)'
        BY <1>4, <2>3, <4>1, DeliversCarries DEF DInv
      <4> QED BY <4>1, <4>2
    <3> QED BY <2>3, <2>6, <3>1, RunsStep DEF DInv
  <2>7. CASE LET c == [x EXCEPT !.last = x.prep, !.seen = x.mem, !.queue = Q]
             IN run' = [run EXCEPT ![r] =
                    IF x.register THEN Delivers(Idle(c))
                    ELSE [Idle(c) EXCEPT !.deferred = TRUE]]
    <3>1. PICK q, c, y :
              /\ q = Q /\ c = [x EXCEPT !.last = x.prep, !.seen = x.mem, !.queue = q]
              /\ y = IF x.register THEN Delivers(Idle(c)) ELSE [Idle(c) EXCEPT !.deferred = TRUE]
              /\ run' = [run EXCEPT ![r] = y]
      BY Zenon, <2>7
    <3> HIDE DEF Q
    <3>2. IsState(c) /\ c.last = x.prep /\ c.queue = q /\ c.urls = x.urls
      BY <1>3, <3>1 DEF IsState, Fields
    <3>3. Begins(c, Idle(c)) /\ Idle(c).at = "idle"
      BY <3>2, IdleBegins
    <3>4. PICK i : i = Idle(c)
      OBVIOUS
    <3>5. /\ IsState(i) /\ Ready(i) /\ i.at = "idle" /\ i.last = x.prep /\ i.queue = q
          /\ i.urls = x.urls
      BY <1>3, <3>2, <3>3, <3>4 DEF Begins, Ready, DeliversOk
    <3>6. Begins(i, Delivers(i)) /\ Delivers(i).at \in {"idle", "send"}
      <4>1. Delivers(i).at \in {"idle", "send"}
        BY <3>5 DEF Delivers, IsState, Fields
      <4> QED BY <1>1, <3>5, <4>1, DeliversBegins
    <3>7. Begins(i, [i EXCEPT !.deferred = TRUE]) /\ [i EXCEPT !.deferred = TRUE].at = "idle"
      BY <3>5 DEF Begins, Ready, IsState, Fields, Sending
    <3>8. /\ y.at \in {"idle", "send"} /\ y.urls = x.urls /\ y.todo \in Seq(Witnesses)
          /\ y.queue = q /\ y.given = {} /\ y.last = x.prep
          /\ y.at \in Sending => y.todo # <<>>
      BY <3>1, <3>4, <3>5, <3>6, <3>7 DEF Begins
    <3>9. DeliversOk(x)'
      BY <1>3, <2>3, DeliversCarries DEF DInv
    <3>10. ASSUME NEW w \in Witnesses
           PROVE  /\ QueueOk(q[w])' /\ ToSet(x.queue[w]) \subseteq ToSet(q[w])
                  /\ w \in W => n \in ToSet(q[w])
      <4>1. q[w] = IF w \in W THEN Append(x.queue[w], n) ELSE x.queue[w]
        BY <3>1 DEF Q
      <4>2. QueueOk(x.queue[w]) /\ QueueOk(x.queue[w])'
        BY <1>3, <3>9 DEF DeliversOk
      <4>3. PICK p : p = x.queue[w]
        OBVIOUS
      <4>4. PICK m : m = n
        OBVIOUS
      <4>5. /\ QueueOk(Append(p, m))' /\ ToSet(p) \subseteq ToSet(Append(p, m))
            /\ m \in ToSet(Append(p, m))
        BY <2>1, <4>2, <4>3, <4>4, QueueAppended
      <4>6. CASE w \in W
        BY <4>1, <4>3, <4>4, <4>5, <4>6
      <4>7. CASE w \notin W
        BY <4>1, <4>2, <4>7
      <4> QED BY <4>6, <4>7
    <3>11. ASSUME NEW w \in ToSet(y.urls), NEW k \in DOMAIN cuts'
           PROVE  Accounted(y.queue[w], w, k)'
      <4>1. w \in W /\ w \in Witnesses
        BY <1>3, <3>8 DEF DeliversOk, ToSet
      <4>2. CASE k = n
        BY <3>8, <3>10, <4>1, <4>2 DEF Accounted
      <4>3. CASE k # n
        <5>1. k \in DOMAIN cuts
          BY <2>1, <4>3
        <5>2. Accounted(x.queue[w], w, k)
          BY <1>1, <1>3, <1>6, <4>1, <5>1 DEF DeliversOk
        <5>3. PICK p : p = x.queue[w]
          OBVIOUS
        <5>4. Accounted(p, w, k)'
          BY <1>1, <2>3, <4>1, <5>1, <5>2, <5>3, AccountedCarries DEF RInv
        <5>5. ToSet(p) \subseteq ToSet(y.queue[w])
          BY <3>8, <3>10, <4>1, <5>3
        <5> QED BY <5>4, <5>5 DEF Accounted
      <4> QED BY <4>2, <4>3
    <3>12. q = [w \in Witnesses |-> q[w]]
      BY <3>1 DEF Q
    <3>13. DeliversOk(y)'
      <4>1. layout' = "stores" /\ x.urls \in Seq(Witnesses)
        BY <1>1, <1>3 DEF DeliversOk
      <4>2. \A w \in Witnesses : QueueOk(y.queue[w])'
        BY <3>8, <3>10
      <4> QED BY <2>1, <3>8, <3>11, <3>12, <4>1, <4>2 DEF DeliversOk, Out
    <3> QED BY Zenon, <2>3, <3>1, <3>13, RunsStep DEF DInv
  <2> QED BY <1>6, <2>6, <2>7
<1>7. NotMoved(x) => x.last = Latest
  BY DEF NotMoved
<1> QED BY Zenon, <1>2, <1>5, <1>6, <1>7 DEF CommitStores

-----------------------------------------------------------------------------
(* The witnesses of the flat layout.                                        *)

\* What an offer ends in: the witness is where it was or at what it accepted,
\* and what is noted, or taken for a receipt, was accepted.
EndsWell(t, root, o) ==
    /\ o.tip \in {t} \cup o.accepted
    /\ o.noted \subseteq o.accepted
    /\ o.says = "receipt" => root \in o.accepted

LEMMA AnswersAre ==
    ASSUME NEW t, NEW root, NEW prev, NEW a \in Answers(t, root, prev)
    PROVE  /\ a.says = "error" => a.tip \in {t, root}
           /\ a.says = "receipt" => a.tip = root
           /\ a.says = "refused" => a.tip = t /\ t # <<>>
           /\ a.says \in {"error", "receipt", "refused"}
  BY DEF Answers

LEMMA ResentIs ==
    ASSUME NEW t, NEW root, NEW prev, NEW sent, NEW o \in Resent(t, root, prev, sent)
    PROVE  EndsWell(t, root, o) /\ ToSet(sent) \subseteq o.accepted
<1>1. PICK a \in Answers(t, root, prev) :
          o = Ended(a.tip, ToSet(sent) \cup IF a.tip = root THEN {root} ELSE {}, ToSet(sent),
                    IF a.says = "receipt" THEN "receipt" ELSE "pending", a.says = "error")
  BY DEF Resent
<1>2. a.tip \in {t, root} /\ (a.says = "receipt" => a.tip = root)
  BY AnswersAre
<1>3. /\ o.tip = a.tip /\ o.accepted = ToSet(sent) \cup IF a.tip = root THEN {root} ELSE {}
      /\ o.noted = ToSet(sent) /\ (o.says = "receipt" => a.says = "receipt")
  BY <1>1 DEF Ended
<1> QED BY <1>2, <1>3 DEF EndsWell

LEMMA BetweenIs ==
    ASSUME CutsInv, NEW t, NEW root
    PROVE  Len(Between(t, root)) \in Nat
<1> DEFINE start == Min({k \in Legible : cuts[k].leaves = t})
           S == {k \in Legible : start < k /\ Len(cuts[k].leaves) < Len(root)}
<1>1. Len(cuts) \in Nat /\ DOMAIN cuts = 1 .. Len(cuts)
  BY ChainGrows
<1>2. S \in SUBSET (1 .. Len(cuts))
  BY <1>1 DEF Legible
<1>3. Between(t, root) = InOrder(S)
  BY DEF Between
<1> HIDE DEF S
<1>4. InOrder(S) \in Seq(Nat)
  BY <1>1, <1>2, InOrderIs
<1> QED BY <1>3, <1>4

\* The roots of the first n of the lines.
First(ks, n) == [i \in 1 .. n |-> cuts[ks[i]].leaves]

LEMMA FirstElts ==
    ASSUME NEW ks, NEW n \in Nat, NEW h \in 0 .. n
    PROVE  /\ ToSet(First(ks, h)) \subseteq ToSet(First(ks, n))
           /\ First(ks, n) # <<>> => Last(First(ks, n)) \in ToSet(First(ks, n))
<1>1. ASSUME NEW m \in Nat
      PROVE  /\ DOMAIN First(ks, m) = 1 .. m /\ Len(First(ks, m)) = m
             /\ \A i \in 1 .. m : First(ks, m)[i] = cuts[ks[i]].leaves
  BY DEF First
<1>2. h \in Nat /\ \A i \in 1 .. h : i \in 1 .. n
  OBVIOUS
<1>3. ToSet(First(ks, h)) \subseteq ToSet(First(ks, n))
  BY <1>1, <1>2 DEF ToSet
<1>4. ASSUME First(ks, n) # <<>> PROVE Last(First(ks, n)) \in ToSet(First(ks, n))
  <2>1. CASE n = 0
    <3>1. First(ks, n) = <<>>
      BY <2>1 DEF First
    <3> QED BY <1>4, <3>1
  <2>2. CASE n # 0
    <3>1. n \in 1 .. n
      BY <2>2
    <3> QED BY <1>1, <3>1 DEF Last, ToSet
  <2> QED BY <2>1, <2>2
<1> QED BY <1>3, <1>4

LEMMA OfferedIs ==
    ASSUME CutsInv, NEW w, NEW root, NEW prev, NEW o \in Offered(w, root, prev)
    PROVE  EndsWell(tip[w], root, o)
<1> DEFINE t == tip[w]
           ks == Between(t, root)
           Sent1(s) ==
               LET sent == First(ks, s.accepted)
                   now == IF sent = <<>> THEN t ELSE Last(sent)
               IN IF s.heard = Len(ks) THEN Resent(now, root, prev, sent)
                  ELSE {Ended(now, ToSet(sent), ToSet(First(ks, s.heard)), "pending",
                              s.heard < s.accepted \/ ~AtEnd(ks, t, s.heard))}
<1>1. Len(ks) \in Nat
  BY BetweenIs
<1>2. CASE o \in Resent(t, root, prev, <<>>)
  BY <1>2, ResentIs
<1>3. CASE \E says, fault : o = Ended(t, {}, {}, says, fault) /\ says # "receipt"
  BY <1>3 DEF Ended, EndsWell
<1>4. ASSUME NEW s \in Sendings(ks, t), o \in Sent1(s) PROVE EndsWell(t, root, o)
  <2> DEFINE sent == First(ks, s.accepted)
             now == IF sent = <<>> THEN t ELSE Last(sent)
  <2>1. s.accepted \in Nat /\ s.heard \in 0 .. s.accepted
    <3> HIDE DEF ks
    <3> QED BY <1>1 DEF Sendings
  <2>2. /\ ToSet(First(ks, s.heard)) \subseteq ToSet(sent)
        /\ sent # <<>> => Last(sent) \in ToSet(sent)
    <3> HIDE DEF ks
    <3>1. PICK n, h : n = s.accepted /\ h = s.heard
      OBVIOUS
    <3> QED BY <2>1, <3>1, FirstElts
  <2>3. now \in {t} \cup ToSet(sent)
    BY <2>2
  <2>4. PICK fault : fault = (s.heard < s.accepted \/ ~AtEnd(ks, t, s.heard))
    OBVIOUS
  <2>5. o \in IF s.heard = Len(ks) THEN Resent(now, root, prev, sent)
              ELSE {Ended(now, ToSet(sent), ToSet(First(ks, s.heard)), "pending", fault)}
    BY <1>4, <2>4
  <2> HIDE DEF now, sent, ks
  <2>6. CASE s.heard = Len(ks)
    <3>1. o \in Resent(now, root, prev, sent)
      BY <2>5, <2>6
    <3>2. EndsWell(now, root, o) /\ ToSet(sent) \subseteq o.accepted
      BY <3>1, ResentIs
    <3> QED BY <2>3, <3>2 DEF EndsWell
  <2>7. CASE s.heard # Len(ks)
    <3>1. o = Ended(now, ToSet(sent), ToSet(First(ks, s.heard)), "pending", fault)
      BY <2>5, <2>7
    <3> QED BY <2>2, <2>3, <3>1 DEF EndsWell, Ended
  <2> QED BY <2>6, <2>7
<1>5. CASE t \in {<<>>, prev}
  BY <1>2, <1>5 DEF Offered
<1>6. CASE t \notin {<<>>, prev}
  <2>1. o \in {Ended(t, {}, {}, "pending", TRUE)}
               \cup IF Legible # DOMAIN cuts THEN {Ended(t, {}, {}, "pending", FALSE)} ELSE {}
               \cup IF Len(t) >= Len(root)
                    THEN {Ended(t, {}, {}, IF IsOurOwn(t, root) THEN "dropped" ELSE "pending", FALSE)}
                    ELSE IF t \notin Roots THEN {Ended(t, {}, {}, "pending", FALSE)}
                    ELSE UNION {Sent1(s) : s \in Sendings(ks, t)}
    BY <1>6 DEF Offered, First
  <2>2. CASE o \in UNION {Sent1(s) : s \in Sendings(ks, t)}
    <3>1. \E s \in Sendings(ks, t) : o \in Sent1(s)
      <4> HIDE DEF Sent1
      <4> QED BY <2>2
    <3> QED BY <1>4, <3>1
  <2> HIDE DEF Sent1, ks
  <2>3. ASSUME NEW says, says # "receipt", NEW fault, o = Ended(t, {}, {}, says, fault)
        PROVE  EndsWell(t, root, o)
    BY <1>3, <2>3
  <2>4. PICK says : says = (IF IsOurOwn(t, root) THEN "dropped" ELSE "pending") /\ says # "receipt"
    OBVIOUS
  <2>5. \/ o = Ended(t, {}, {}, "pending", TRUE)
        \/ o = Ended(t, {}, {}, says, FALSE)
        \/ o = Ended(t, {}, {}, "pending", FALSE)
        \/ o \in UNION {Sent1(s) : s \in Sendings(ks, t)}
    BY <2>1, <2>4
  <2> QED BY <2>2, <2>3, <2>4, <2>5
<1> QED BY <1>5, <1>6

LEMMA OfferDelivers ==
    ASSUME RInv, DInv, NEW r \in Runners, Offer(r)
    PROVE  DInv'
<1>1. PICK x : x = run[r]
  OBVIOUS
<1>2. /\ x.at = "offer" /\ x.at \notin Out /\ IsState(x) /\ DeliversOk(x) /\ layout = "flat"
      /\ UNCHANGED <<layout, configs, cuts, rows>>
  BY <1>1 DEF Offer, RInv, RunInv, StateOk, LedgerType, DInv, RunsDeliver, DeliversOk, Out
<1>3. x.todo \in Seq(Witnesses) /\ x.todo # <<>> /\ Tail(x.todo) \in Seq(Witnesses)
  BY <1>2 DEF DeliversOk, Sending
<1>4. PICK w \in Witnesses : w = Head(x.todo)
  BY <1>3
<1> DEFINE cutting == x.prep # <<>>
           root == IF cutting THEN x.prep ELSE x.last
           prev == IF cutting THEN x.last ELSE PreviousOf(root)
<1>5. PICK o, pending, given, y, z :
          /\ o \in Offered(w, root, prev)
          /\ given = IF o.says = "receipt" THEN x.given \cup {w} ELSE x.given
          /\ y = [x EXCEPT !.todo = Tail(x.todo), !.pending = pending, !.given = given]
          /\ z = IF y.todo # <<>> THEN y ELSE IF cutting THEN [y EXCEPT !.at = "commit"] ELSE Idle(y)
          /\ run' = [run EXCEPT ![r] = z]
          /\ tip' = [tip EXCEPT ![w] = o.tip]
          /\ took' = [took EXCEPT ![w] = @ \cup o.accepted]
          /\ receipts' = receipts \cup {<<w, l>> : l \in o.noted}
                 \cup IF o.says = "receipt" /\ ~cutting THEN {<<w, root>>} ELSE {}
  <2> DEFINE X == run[r]
             v == Head(X.todo)
             c == X.prep # <<>>
             rt == IF c THEN X.prep ELSE X.last
             pv == IF c THEN X.last ELSE PreviousOf(rt)
  <2>1. PICK o \in Offered(v, rt, pv) :
            LET y == [X EXCEPT !.todo = Tail(@),
                               !.pending = IF o.says = "pending" THEN @ \cup {v} ELSE @,
                               !.given = IF o.says = "receipt" THEN @ \cup {v} ELSE @]
            IN /\ tip' = [tip EXCEPT ![v] = o.tip]
               /\ took' = [took EXCEPT ![v] = @ \cup o.accepted]
               /\ receipts' = receipts \cup {<<v, l>> : l \in o.noted}
                      \cup IF o.says = "receipt" /\ ~c THEN {<<v, rt>>} ELSE {}
               /\ run' = [run EXCEPT ![r] =
                     IF y.todo # <<>> THEN y
                     ELSE IF c THEN [y EXCEPT !.at = "commit"] ELSE Idle(y)]
    BY Zenon DEF Offer
  <2>2. X = x /\ v = w /\ c = cutting /\ rt = root /\ pv = prev
    BY <1>1, <1>4
  <2> HIDE DEF X, v, c, rt, pv
  <2> HIDE DEF root, prev, cutting
  <2> DEFINE pending == IF o.says = "pending" THEN x.pending \cup {w} ELSE x.pending
             given == IF o.says = "receipt" THEN x.given \cup {w} ELSE x.given
             y == [x EXCEPT !.todo = Tail(x.todo), !.pending = pending, !.given = given]
             z == IF y.todo # <<>> THEN y ELSE IF cutting THEN [y EXCEPT !.at = "commit"] ELSE Idle(y)
  <2>3. run' = [run EXCEPT ![r] = z]
    BY <2>1, <2>2
  <2> HIDE DEF z
  <2>4. z = IF y.todo # <<>> THEN y ELSE IF cutting THEN [y EXCEPT !.at = "commit"] ELSE Idle(y)
    BY DEF z
  <2> HIDE DEF y
  <2>5. y = [x EXCEPT !.todo = Tail(x.todo), !.pending = pending, !.given = given]
    BY DEF y
  <2> HIDE DEF given, pending
  <2>6. given = IF o.says = "receipt" THEN x.given \cup {w} ELSE x.given
    BY DEF given
  <2>7. /\ o \in Offered(w, root, prev)
        /\ tip' = [tip EXCEPT ![w] = o.tip]
        /\ took' = [took EXCEPT ![w] = @ \cup o.accepted]
        /\ receipts' = receipts \cup {<<w, l>> : l \in o.noted}
               \cup IF o.says = "receipt" /\ ~cutting THEN {<<w, root>>} ELSE {}
    BY <2>1, <2>2
  <2> QED BY Zenon, <2>3, <2>4, <2>5, <2>6, <2>7
<1>6. EndsWell(tip[w], root, o)
  <2>1. CutsInv /\ o \in Offered(w, root, prev)
    BY <1>5 DEF RInv
  <2> HIDE DEF root, prev
  <2> QED BY <2>1, OfferedIs
<1>7. /\ tip = [v \in Witnesses |-> tip[v]] /\ took = [v \in Witnesses |-> took[v]]
      /\ \A v \in Witnesses : tip[v] \in took[v] \cup {<<>>, Foreign}
      /\ \A p \in receipts : p[1] \in Witnesses /\ p[2] \in took[p[1]]
  BY DEF DInv, WitnessesOk, ClosedIsAccepted
<1>8. /\ tip' = [v \in Witnesses |-> tip'[v]] /\ took' = [v \in Witnesses |-> took'[v]]
      /\ tip'[w] = o.tip /\ took'[w] = took[w] \cup o.accepted
      /\ \A v \in Witnesses \ {w} : tip'[v] = tip[v] /\ took'[v] = took[v]
  BY <1>5, <1>7
<1> HIDE DEF root, prev
<1>9. ASSUME NEW p \in receipts' PROVE p[1] \in Witnesses /\ p[2] \in took'[p[1]]
  <2>1. CASE p \in receipts
    BY <1>7, <1>8, <2>1
  <2>2. CASE p \in {<<w, l>> : l \in o.noted}
    <3>1. PICK l \in o.noted : p = <<w, l>>
      BY <2>2
    <3> QED BY <1>6, <1>8, <3>1 DEF EndsWell
  <2>3. CASE o.says = "receipt" /\ p = <<w, root>>
    BY <1>6, <1>8, <2>3 DEF EndsWell
  <2> QED BY <1>5, <1>9, <2>1, <2>2, <2>3
<1>10. WitnessesOk'
  <2>1. \A v \in Witnesses : tip'[v] \in took'[v] \cup {<<>>, Foreign}
    BY <1>6, <1>7, <1>8 DEF EndsWell
  <2> QED BY <1>8, <1>9, <2>1 DEF WitnessesOk
<1>11. RowsOk' /\ ClosedIsAccepted'
  BY <1>2, <1>9 DEF RowsOk, ClosedIsAccepted
<1>12. Onward
  <2>1. Len(cuts) \in Nat
    BY ChainGrows DEF RInv
  <2>2. \A v \in Witnesses : took[v] \subseteq took'[v]
    BY <1>8
  <2> QED BY <1>2, <2>1, <2>2 DEF Onward, RowsForward
<1>13. /\ IsState(y) /\ y.at = "offer" /\ y.urls = x.urls /\ y.last = x.last /\ y.queue = x.queue
       /\ y.prep = x.prep /\ y.todo = Tail(x.todo) /\ y.given = given
  BY <1>2, <1>5 DEF IsState, Fields
<1>14. given \subseteq Witnesses /\ (x.prep # <<>> => \A v \in given : x.prep \in took'[v])
  <2>1. x.given \subseteq Witnesses /\ (x.prep # <<>> => \A v \in x.given : x.prep \in took[v])
    BY <1>2 DEF DeliversOk
  <2>2. o.says = "receipt" /\ x.prep # <<>> => x.prep \in took'[w]
    BY <1>6, <1>8 DEF EndsWell, root
  <2> QED BY <1>5, <1>8, <2>1, <2>2
<1>15. DeliversOk(x)'
  BY <1>2, <1>12, DeliversCarries DEF DInv
<1>16. DeliversOk(z)'
  <2>1. layout' = "flat" /\ y.todo \in Seq(Witnesses)
    BY <1>2, <1>3, <1>13
  <2>2. CASE y.todo # <<>>
    <3>1. z = y
      BY <1>5, <2>2
    <3> QED BY <1>2, <1>13, <1>14, <1>15, <2>1, <2>2, <3>1 DEF DeliversOk, Out, Sending
  <2>3. CASE y.todo = <<>> /\ cutting
    <3>1. z = [y EXCEPT !.at = "commit"]
      BY <1>5, <2>3
    <3>2. /\ z.at = "commit" /\ z.urls = x.urls /\ z.last = x.last /\ z.queue = x.queue
          /\ z.prep = x.prep /\ z.todo = y.todo /\ z.given = given
      BY <1>13, <3>1 DEF IsState, Fields
    <3> QED BY <1>2, <1>14, <1>15, <2>1, <3>2 DEF DeliversOk, Out, Sending
  <2>4. CASE y.todo = <<>> /\ ~cutting
    <3>1. z = Idle(y)
      BY <1>5, <2>4
    <3>2. Begins(y, z) /\ z.at = "idle"
      BY <1>13, <3>1, IdleBegins
    <3>3. /\ z.at = "idle" /\ z.urls = x.urls /\ z.last = x.last /\ z.queue = x.queue
          /\ z.todo \in Seq(Witnesses) /\ z.given = {}
      BY <1>13, <3>2 DEF Begins
    <3> QED BY <1>2, <1>15, <2>1, <3>3 DEF DeliversOk, Out, Sending
  <2> QED BY <2>2, <2>3, <2>4
<1>17. RunsDeliver'
  BY <1>5, <1>12, <1>16, RunsStep DEF DInv
<1> QED BY <1>2, <1>10, <1>11, <1>17 DEF DInv

-----------------------------------------------------------------------------
(* A pass over the rows.                                                    *)

\* What is left of a queue without its first n.
Rest(q, n, p) ==
    /\ n \in 0 .. Len(q) /\ p \in Seq(Nat) /\ Len(p) = Len(q) - n
    /\ \A i \in 1 .. Len(p) : p[i] = q[i + n]

LEMMA QueueDrops ==
    ASSUME NEW q, QueueOk(q)', NEW n, NEW p, Rest(q, n, p)
    PROVE  QueueOk(p)' /\ \A k \in ToSet(q) : k \in ToSet(p) \/ \E j \in 1 .. n : k = q[j]
<1>1. /\ q \in Seq(Nat) /\ Len(q) \in Nat /\ n \in 0 .. Len(q) /\ p \in Seq(Nat)
      /\ Len(p) = Len(q) - n /\ DOMAIN p = 1 .. Len(p) /\ DOMAIN q = 1 .. Len(q)
      /\ \A i \in DOMAIN p : p[i] = q[i + n] /\ i + n \in DOMAIN q
  <2>1. /\ q \in Seq(Nat) /\ n \in 0 .. Len(q) /\ p \in Seq(Nat) /\ Len(p) = Len(q) - n
        /\ \A i \in 1 .. Len(p) : p[i] = q[i + n]
    BY DEF QueueOk, Rest
  <2>2. Len(q) \in Nat /\ DOMAIN p = 1 .. Len(p) /\ DOMAIN q = 1 .. Len(q)
    BY <2>1
  <2>3. \A i \in 1 .. Len(p) : i + n \in 1 .. Len(q)
    BY <2>1, <2>2
  <2> QED BY <2>1, <2>2, <2>3
<1>2. /\ \A i \in DOMAIN q : q[i] \in DOMAIN cuts'
      /\ \A i, j \in DOMAIN q : i < j => q[i] < q[j]
  BY DEF QueueOk
<1>3. ASSUME NEW i \in DOMAIN p, NEW j \in DOMAIN p, i < j PROVE p[i] < p[j]
  <2>1. i + n < j + n
    BY <1>1, <1>3
  <2> QED BY <1>1, <1>2, <2>1
<1>4. QueueOk(p)'
  BY <1>1, <1>2, <1>3 DEF QueueOk
<1>5. ASSUME NEW k \in ToSet(q) PROVE k \in ToSet(p) \/ \E j \in 1 .. n : k = q[j]
  <2>1. PICK i \in DOMAIN q : k = q[i]
    BY DEF ToSet
  <2>2. CASE i <= n
    BY <1>1, <2>1, <2>2
  <2>3. CASE i > n
    <3>1. i - n \in DOMAIN p
      BY <1>1, <2>3
    <3>2. p[i - n] = q[(i - n) + n]
      BY <1>1, <3>1
    <3>3. (i - n) + n = i
      BY <1>1
    <3> QED BY <2>1, <3>1, <3>2, <3>3 DEF ToSet
  <2> QED BY <1>1, <2>2, <2>3
<1> QED BY <1>4, <1>5

\* y goes on from x with another queue for w.
Passes(x, w, p, y) ==
    /\ y.queue = [x.queue EXCEPT ![w] = p]
    /\ y.urls = x.urls /\ y.last = x.last /\ y.given = {} /\ y.todo \in Seq(Witnesses)
    /\ y.at \in {"idle", "send"} /\ (y.at = "send" => y.todo # <<>>)

Done(w, q, n) == \A j \in 1 .. n : rows[w][q[j]] = NoRow \/ Closed1(rows[w][q[j]])

\* The first n of a witness's queue are done with.
LEMMA DropsOk ==
    ASSUME NEW x, DeliversOk(x)', x.at \notin Out, layout' = "stores",
           Len(cuts') \in Nat, DOMAIN cuts' = 1 .. Len(cuts'),
           NEW w \in Witnesses, NEW n, NEW p, Rest(x.queue[w], n, p),
           Done(w, x.queue[w], n)', NEW y, Passes(x, w, p, y)
    PROVE  DeliversOk(y)'
<1>0. /\ \A j \in 1 .. n : rows'[w][x.queue[w][j]] = NoRow \/ Closed1(rows'[w][x.queue[w][j]])
      /\ y.queue = [x.queue EXCEPT ![w] = p]
      /\ y.urls = x.urls /\ y.last = x.last /\ y.given = {} /\ y.todo \in Seq(Witnesses)
      /\ y.at \in {"idle", "send"} /\ (y.at = "send" => y.todo # <<>>)
  BY DEF Done, Passes, Closed1
<1>1. /\ x.urls \in Seq(Witnesses) /\ x.queue = [v \in Witnesses |-> x.queue[v]]
      /\ x.last \in {<<>>} \cup Roots'
      /\ \A v \in Witnesses : QueueOk(x.queue[v])'
      /\ x.last = Latest' =>
             \A v \in ToSet(x.urls) : \A k \in DOMAIN cuts' : Accounted(x.queue[v], v, k)'
  BY DEF DeliversOk
<1>2. /\ y.queue = [v \in Witnesses |-> y.queue[v]] /\ y.queue[w] = p
      /\ \A v \in Witnesses \ {w} : y.queue[v] = x.queue[v]
  BY <1>0, <1>1
<1>3. PICK q : q = x.queue[w]
  OBVIOUS
<1>4. QueueOk(p)' /\ \A k \in ToSet(q) : k \in ToSet(p) \/ \E j \in 1 .. n : k = q[j]
  BY <1>1, <1>3, QueueDrops
<1>5. ASSUME NEW k \in DOMAIN cuts', Accounted(q, w, k)' PROVE Accounted(p, w, k)'
  <2>1. CASE k \in ToSet(q)
    <3>1. CASE k \in ToSet(p)
      BY <3>1 DEF Accounted
    <3>2. CASE \E j \in 1 .. n : k = q[j]
      <4>1. rows'[w][k] = NoRow \/ Closed1(rows'[w][k])
        BY <1>0, <1>3, <3>2
      <4>2. k \in k .. Len(cuts')
        OBVIOUS
      <4> QED BY <4>1, <4>2 DEF Accounted, Closed1
    <3> QED BY <1>4, <2>1, <3>1, <3>2
  <2>2. CASE k \notin ToSet(q)
    BY <1>5, <2>2 DEF Accounted
  <2> QED BY <2>1, <2>2
<1>6. ASSUME y.last = Latest', NEW v \in ToSet(y.urls), NEW k \in DOMAIN cuts'
      PROVE  Accounted(y.queue[v], v, k)'
  <2>1. v \in Witnesses
    BY <1>0, <1>1 DEF ToSet
  <2>2. Accounted(x.queue[v], v, k)'
    BY <1>0, <1>1, <1>6
  <2>3. CASE v = w
    BY <1>2, <1>3, <1>5, <2>2, <2>3
  <2>4. CASE v # w
    BY <1>2, <2>1, <2>2, <2>4
  <2> QED BY <2>3, <2>4
<1>7. \A v \in Witnesses : QueueOk(y.queue[v])'
  BY <1>1, <1>2, <1>4
<1> QED BY <1>0, <1>1, <1>2, <1>6, <1>7 DEF DeliversOk, Sending, Out

LEMMA LeavesBegins ==
    ASSUME NEW x, Ready(x), x.todo # <<>>, layout = "stores"
    PROVE  Begins(x, Leaves(x)) /\ Leaves(x).at \in {"idle", "send"}
<1>1. CASE Len(x.todo) = 1
  <2>1. Begins(x, Idle(x)) /\ Idle(x).at = "idle"
    BY IdleBegins DEF Ready
  <2> QED BY <1>1, <2>1 DEF Leaves
<1>2. CASE Len(x.todo) # 1
  <2> DEFINE y == [x EXCEPT !.at = "send", !.todo = Tail(x.todo), !.answer = None, !.caught = FALSE]
  <2>1. Leaves(x) = y
    BY <1>2 DEF Leaves
  <2>2. Tail(x.todo) \in Seq(Witnesses) /\ Tail(x.todo) # <<>>
    <3>1. x.todo \in Seq(Witnesses) /\ Len(x.todo) \in Nat
      BY DEF Ready
    <3>2. Len(x.todo) # 0
      BY <3>1
    <3>3. Tail(x.todo) \in Seq(Witnesses) /\ Len(Tail(x.todo)) = Len(x.todo) - 1
      BY <3>1
    <3>4. Len(Tail(x.todo)) # 0
      BY <1>2, <3>1, <3>2, <3>3
    <3>5. Len(<<>>) = 0
      OBVIOUS
    <3>6. Tail(x.todo) # <<>>
      BY <3>4, <3>5
    <3> QED BY <3>3, <3>6
  <2>3. /\ IsState(y) /\ y.urls = x.urls /\ y.last = x.last /\ y.queue = x.queue
        /\ y.given = x.given /\ y.todo = Tail(x.todo) /\ y.at = "send"
    BY DEF Ready, IsState, Fields
  <2> HIDE DEF y
  <2> QED BY <2>1, <2>2, <2>3 DEF Begins, Ready, Sending
<1> QED BY <1>1, <1>2

\* Where a pass stands.
LEMMA PassIsAt ==
    ASSUME RInv, DInv, NEW r \in Runners, NEW x, x = run[r], x.at \in {"send", "record"}, NEW w, w = Head(x.todo)
    PROVE  /\ layout = "stores" /\ x.at \notin Out /\ DeliversOk(x) /\ Ready(x) /\ x.todo # <<>>
           /\ w \in Witnesses /\ QueueOk(x.queue[w]) /\ x.queue = [v \in Witnesses |-> x.queue[v]]
           /\ rows = [v \in Witnesses |-> rows[v]]
           /\ \A v \in Witnesses : /\ rows[v] \in Seq(RowSet) /\ DOMAIN rows[v] = DOMAIN cuts
                                   /\ \A k \in DOMAIN cuts : rows[v][k] \in RowSet
           /\ tip = [v \in Witnesses |-> tip[v]] /\ took = [v \in Witnesses |-> took[v]]
           /\ Len(cuts) \in Nat /\ DOMAIN cuts = 1 .. Len(cuts)
<1>1. /\ IsState(x) /\ layout \in {"flat", "stores"} /\ DeliversOk(x)
  BY DEF RInv, RunInv, StateOk, LedgerType, DInv, RunsDeliver
<1>2. layout = "stores" /\ x.at \notin Out /\ x.todo # <<>> /\ Ready(x)
  BY <1>1 DEF DeliversOk, Out, Sending, Ready
<1>3. w \in Witnesses
  BY <1>2 DEF Ready
<1>4. Len(cuts) \in Nat /\ DOMAIN cuts = 1 .. Len(cuts)
  BY ChainGrows DEF RInv
<1>5. /\ rows = [v \in Witnesses |-> rows[v]]
      /\ \A v \in Witnesses : rows[v] \in Seq(RowSet) /\ Len(rows[v]) = Len(cuts)
  BY <1>2 DEF DInv, RowsOk
<1>6. ASSUME NEW v \in Witnesses
      PROVE /\ rows[v] \in Seq(RowSet) /\ DOMAIN rows[v] = DOMAIN cuts
            /\ \A k \in DOMAIN cuts : rows[v][k] \in RowSet
  <2>1. rows[v] \in Seq(RowSet) /\ Len(rows[v]) = Len(cuts)
    BY <1>5
  <2> QED BY <1>4, <2>1
<1>7. QueueOk(x.queue[w]) /\ x.queue = [v \in Witnesses |-> x.queue[v]]
  BY <1>1, <1>3 DEF DeliversOk
<1>8. tip = [v \in Witnesses |-> tip[v]] /\ took = [v \in Witnesses |-> took[v]]
  BY DEF DInv, WitnessesOk
<1> QED BY <1>1, <1>2, <1>3, <1>4, <1>5, <1>6, <1>7, <1>8

\* The rows of w become f: what is closed is accounted for at w.
Sent(w, f) ==
    /\ rows' = [rows EXCEPT ![w] = f]
    /\ f = [k \in DOMAIN rows[w] |-> f[k]]
    /\ \A k \in DOMAIN rows[w] :
          \/ f[k] = rows[w][k]
          \/ /\ rows[w][k].st = "open"
             /\ \E st \in {"open", "held", "receipt", "ahead"} :
                   /\ f[k] = Attempted(rows[w][k], st)
                   /\ st = "receipt" => cuts[k].leaves \in took'[w]
                   /\ st = "ahead" => \E j \in k .. Len(cuts) : cuts[j].leaves \in took'[w]

LEMMA SentIs ==
    ASSUME RInv, DInv, layout = "stores", UNCHANGED <<layout, cuts, receipts>>,
           \A v \in Witnesses : took[v] \subseteq took'[v], NEW w \in Witnesses, NEW f, Sent(w, f)
    PROVE  Onward /\ RowsOk' /\ ClosedIsAccepted'
<1>1. \A k \in DOMAIN rows[w] : RowForward(rows[w][k], f[k])
  BY DEF Sent, RowForward
<1>2. RowsOk' /\ RowsForward
  BY <1>1, RowsMove DEF Sent, DInv
<1>3. Len(cuts) \in Nat /\ DOMAIN cuts = 1 .. Len(cuts)
  BY ChainGrows DEF RInv
<1>4. Onward
  BY <1>2, <1>3 DEF Onward
<1>5. /\ rows = [v \in Witnesses |-> rows[v]]
      /\ \A v \in Witnesses : rows[v] \in Seq(RowSet) /\ Len(rows[v]) = Len(cuts)
  BY DEF DInv, RowsOk
<1>6. ASSUME NEW v \in Witnesses, NEW k \in DOMAIN cuts
      PROVE  /\ rows'[v][k].st = "receipt" => cuts[k].leaves \in took'[v]
             /\ rows'[v][k].st = "ahead" => \E j \in k .. Len(cuts) : cuts[j].leaves \in took'[v]
  <2>1. CASE rows'[v][k] = rows[v][k]
    <3>1. /\ rows[v][k].st = "receipt" => cuts[k].leaves \in took[v]
          /\ rows[v][k].st = "ahead" => \E j \in k .. Len(cuts) : cuts[j].leaves \in took[v]
      BY DEF DInv, ClosedIsAccepted
    <3>2. took[v] \subseteq took'[v]
      OBVIOUS
    <3> QED BY <2>1, <3>1, <3>2
  <2>2. CASE rows'[v][k] # rows[v][k]
    <3>1. v = w /\ rows'[v][k] = f[k]
      BY <1>5, <2>2 DEF Sent
    <3>2. k \in DOMAIN rows[w]
      BY <1>3, <1>5
    <3>3. PICK st \in {"open", "held", "receipt", "ahead"} :
                   /\ f[k] = Attempted(rows[w][k], st)
                   /\ st = "receipt" => cuts[k].leaves \in took'[w]
                   /\ st = "ahead" => \E j \in k .. Len(cuts) : cuts[j].leaves \in took'[w]
      BY <2>2, <3>1, <3>2 DEF Sent
    <3>4. f[k].st = st
      BY <3>3 DEF Attempted
    <3> QED BY <3>1, <3>3, <3>4
  <2> QED BY <2>1, <2>2
<1>7. ClosedIsAccepted'
  <2>1. \A p \in receipts' : p[1] \in Witnesses /\ p[2] \in took'[p[1]]
    BY DEF DInv, ClosedIsAccepted, WitnessesOk
  <2> QED BY <1>6, <2>1 DEF ClosedIsAccepted
<1> QED BY <1>2, <1>4, <1>7

\* The runner r goes on as y, and no witness is sent anything.
LEMMA RowStep ==
    ASSUME RInv, DInv, layout = "stores", UNCHANGED <<layout, configs, cuts, receipts, tip, took>>,
           NEW w \in Witnesses, NEW f, Sent(w, f),
           NEW r \in Runners, NEW y, run' = [run EXCEPT ![r] = y], DeliversOk(y)'
    PROVE  DInv'
<1>1. Onward /\ RowsOk' /\ ClosedIsAccepted'
  BY SentIs
<1>2. RunsDeliver'
  BY <1>1, RunsStep DEF DInv
<1>3. WitnessesOk'
  BY DEF DInv, WitnessesOk
<1> QED BY <1>1, <1>2, <1>3 DEF DInv

LEMMA HoldDelivers ==
    ASSUME RInv, DInv, NEW w \in Witnesses, Hold(w)
    PROVE  DInv'
<1>1. UNCHANGED <<layout, configs, cuts, receipts, tip, took, run>>
  BY DEF Hold, Untouched
<1>2. PICK k \in DOMAIN rows[w] :
          /\ rows[w][k].st = "open"
          /\ rows' = [rows EXCEPT ![w][k] = Attempted(@, "held")]
  BY DEF Hold
<1>3. WitnessesOk'
  BY <1>1 DEF DInv, WitnessesOk
<1>4. CASE layout = "stores"
  <2> DEFINE f == [rows[w] EXCEPT ![k] = Attempted(rows[w][k], "held")]
  <2>1. /\ rows = [v \in Witnesses |-> rows[v]]
        /\ rows[w] \in Seq(RowSet)
    BY <1>4 DEF DInv, RowsOk
  <2>2. rows' = [rows EXCEPT ![w] = f]
    BY <1>2
  <2>3. f = [j \in DOMAIN rows[w] |-> f[j]] /\ f[k] = Attempted(rows[w][k], "held")
        /\ \A j \in DOMAIN rows[w] : j # k => f[j] = rows[w][j]
    BY <1>2, <2>1
  <2> HIDE DEF f
  <2>4. Sent(w, f)
    BY <1>2, <2>2, <2>3 DEF Sent
  <2>5. Onward /\ RowsOk' /\ ClosedIsAccepted'
    BY <1>1, <1>4, <2>4, SentIs
  <2>6. RunsDeliver'
    BY <1>1, <2>5, RunsStay DEF DInv
  <2> QED BY <1>1, <1>3, <2>5, <2>6 DEF DInv
<1>5. CASE layout # "stores"
  <2>1. Onward
    <3>1. Len(cuts) \in Nat
      BY ChainGrows DEF RInv
    <3> QED BY <1>1, <1>5, <3>1 DEF Onward, RowsForward
  <2>2. RunsDeliver'
    BY <1>1, <2>1, RunsStay DEF DInv
  <2>3. RowsOk' /\ ClosedIsAccepted'
    BY <1>1, <1>5 DEF RowsOk, ClosedIsAccepted, DInv
  <2> QED BY <1>1, <1>3, <2>2, <2>3 DEF DInv
<1> QED BY <1>4, <1>5

LEMMA TailIsRest ==
    ASSUME NEW q \in Seq(Nat), q # <<>>
    PROVE  Rest(q, 1, Tail(q)) /\ q[1] = Head(q) /\ 1 \in DOMAIN q
<1>1. Len(q) \in Nat /\ Len(q) # 0
  OBVIOUS
<1>2. Tail(q) \in Seq(Nat) /\ Len(Tail(q)) = Len(q) - 1
  BY <1>1
<1>3. ASSUME NEW i \in 1 .. Len(Tail(q)) PROVE Tail(q)[i] = q[i + 1]
  BY <1>1, <1>2
<1> QED BY <1>1, <1>2, <1>3 DEF Rest

LEMMA SkipDelivers ==
    ASSUME RInv, DInv, NEW r \in Runners, Skip(r)
    PROVE  DInv'
<1>1. PICK x, w : x = run[r] /\ w = Head(x.todo)
  BY Zenon
<1>2. x.at = "send" /\ Still
  BY Zenon, <1>1 DEF Skip, Untouched, Still
<1>3. /\ layout = "stores" /\ x.at \notin Out /\ DeliversOk(x) /\ Ready(x) /\ x.todo # <<>>
      /\ w \in Witnesses /\ QueueOk(x.queue[w]) /\ x.queue = [v \in Witnesses |-> x.queue[v]]
      /\ \A k \in DOMAIN cuts : rows[w][k] \in RowSet
      /\ Len(cuts) \in Nat /\ DOMAIN cuts = 1 .. Len(cuts)
  BY <1>1, <1>2, PassIsAt
<1>4. CASE run' = [run EXCEPT ![r] = Leaves(x)]
  <2>1. DeliversOk(Leaves(x))
    BY <1>3, LeavesBegins, BeginsOk
  <2> QED BY <1>2, <1>4, <2>1, StillStep
<1>5. CASE /\ x.queue[w] # <<>> /\ rows[w][Head(x.queue[w])].st \notin {"held", "open"}
           /\ run' = [run EXCEPT ![r] = Pops(x, w)]
  <2>1. PICK q, y : q = x.queue[w] /\ y = Pops(x, w)
    OBVIOUS
  <2>2. q \in Seq(Nat) /\ Rest(q, 1, Tail(q)) /\ q[1] = Head(q) /\ q[1] \in DOMAIN cuts
    <3>1. q \in Seq(Nat) /\ q # <<>> /\ \A i \in DOMAIN q : q[i] \in DOMAIN cuts
      BY <1>3, <1>5, <2>1 DEF QueueOk
    <3> QED BY <3>1, TailIsRest
  <2>3. rows[w][q[1]] = NoRow \/ Closed1(rows[w][q[1]])
    BY <1>3, <1>5, <2>1, <2>2 DEF RowSet, Closed1
  <2>4. /\ y.queue = [x.queue EXCEPT ![w] = Tail(q)]
        /\ y.urls = x.urls /\ y.last = x.last /\ y.given = x.given /\ y.todo = x.todo
        /\ y.at = "send"
    BY <1>2, <1>3, <2>1 DEF Pops, Ready, IsState, Fields
  <2>5. DeliversOk(x)'
    BY <1>2, <1>3, StillKeeps, DeliversCarries DEF DInv
  <2>6. /\ layout' = "stores" /\ Len(cuts') \in Nat /\ DOMAIN cuts' = 1 .. Len(cuts')
        /\ \A j \in 1 .. 1 : rows'[w][q[j]] = NoRow \/ Closed1(rows'[w][q[j]])
    BY <1>2, <1>3, <2>3 DEF Still
  <2>7. DeliversOk(y)'
    <3>1. PICK p : p = Tail(q)
      OBVIOUS
    <3>2. Rest(x.queue[w], 1, p) /\ Done(w, x.queue[w], 1)'
      BY <2>1, <2>2, <2>6, <3>1 DEF Done, Closed1
    <3>3. Passes(x, w, p, y)
      BY <1>3, <2>4, <3>1 DEF Ready, Passes
    <3> QED BY <1>3, <2>5, <2>6, <3>2, <3>3, DropsOk
  <2>8. RunsDeliver'
    BY <1>2, <1>5, <2>1, <2>7, StillKeeps, RunsStep DEF DInv
  <2> QED BY <1>2, <2>8, StillKeeps DEF DInv
<1> QED BY Zenon, <1>1, <1>4, <1>5 DEF Skip

LEMMA SubmitDelivers ==
    ASSUME RInv, DInv, NEW r \in Runners, Submit(r)
    PROVE  DInv'
<1>1. PICK x, w, k : x = run[r] /\ w = Head(x.todo) /\ k = Head(x.queue[w])
  OBVIOUS
<1>2. /\ x.at = "send" /\ x.queue[w] # <<>> /\ rows[w][k].st = "open"
      /\ UNCHANGED <<layout, configs, cuts, receipts, rows>>
  BY Zenon, <1>1 DEF Submit, Untouched
<1>3. /\ layout = "stores" /\ x.at \notin Out /\ DeliversOk(x) /\ Ready(x) /\ x.todo # <<>>
      /\ w \in Witnesses /\ QueueOk(x.queue[w]) /\ x.queue = [v \in Witnesses |-> x.queue[v]]
      /\ \A j \in DOMAIN cuts : rows[w][j] \in RowSet
      /\ tip = [v \in Witnesses |-> tip[v]] /\ took = [v \in Witnesses |-> took[v]]
      /\ Len(cuts) \in Nat /\ DOMAIN cuts = 1 .. Len(cuts)
  BY <1>1, <1>2, PassIsAt
<1>4. k \in DOMAIN cuts
  <2>1. x.queue[w] \in Seq(Nat) /\ \A i \in DOMAIN x.queue[w] : x.queue[w][i] \in DOMAIN cuts
    BY <1>3 DEF QueueOk
  <2> QED BY <1>1, <1>2, <2>1, TailIsRest
<1>5. PICK a, answer, y :
          /\ a \in Answers(tip[w], cuts[k].leaves, cuts[k].prev)
          /\ tip' = [tip EXCEPT ![w] = a.tip]
          /\ took' = [took EXCEPT ![w] = @ \cup IF a.tip = tip[w] THEN {} ELSE {a.tip}]
          /\ answer = [k |-> k, tries |-> rows[w][k].tries, says |-> a.says, tip |-> a.tip]
          /\ y = [x EXCEPT !.at = "record", !.answer = answer]
          /\ run' = [run EXCEPT ![r] = y]
  <2> DEFINE X == run[r]
             W == Head(X.todo)
             K == Head(X.queue[W])
  <2>1. PICK a \in Answers(tip[W], cuts[K].leaves, cuts[K].prev) :
          /\ tip' = [tip EXCEPT ![W] = a.tip]
          /\ took' = [took EXCEPT ![W] = @ \cup IF a.tip = tip[W] THEN {} ELSE {a.tip}]
          /\ run' = [run EXCEPT ![r] =
                   [X EXCEPT !.at = "record",
                             !.answer = [k |-> K, tries |-> rows[W][K].tries,
                                         says |-> a.says, tip |-> a.tip]]]
    BY Zenon DEF Submit
  <2>2. X = x /\ W = w /\ K = k
    BY <1>1
  <2> HIDE DEF X, W, K
  <2>3. PICK answer : answer = [k |-> k, tries |-> rows[w][k].tries, says |-> a.says, tip |-> a.tip]
    OBVIOUS
  <2>4. run' = [run EXCEPT ![r] = [x EXCEPT !.at = "record", !.answer = answer]]
    BY <2>1, <2>2, <2>3
  <2>5. /\ a \in Answers(tip[w], cuts[k].leaves, cuts[k].prev)
        /\ tip' = [tip EXCEPT ![w] = a.tip]
        /\ took' = [took EXCEPT ![w] = @ \cup IF a.tip = tip[w] THEN {} ELSE {a.tip}]
    BY <2>1, <2>2
  <2> QED BY Zenon, <2>3, <2>4, <2>5
<1>6. /\ tip' = [v \in Witnesses |-> tip'[v]] /\ took' = [v \in Witnesses |-> took'[v]]
      /\ tip'[w] = a.tip /\ took'[w] = took[w] \cup IF a.tip = tip[w] THEN {} ELSE {a.tip}
      /\ \A v \in Witnesses \ {w} : tip'[v] = tip[v] /\ took'[v] = took[v]
  BY <1>3, <1>5
<1>7. /\ \A v \in Witnesses : tip[v] \in took[v] \cup {<<>>, Foreign}
      /\ \A p \in receipts : p[1] \in Witnesses /\ p[2] \in took[p[1]]
  BY DEF DInv, WitnessesOk, ClosedIsAccepted
<1>8. \A v \in Witnesses : took[v] \subseteq took'[v]
  BY <1>6
<1>9. WitnessesOk'
  <2>1. tip'[w] \in took'[w] \cup {<<>>, Foreign}
    BY <1>3, <1>6, <1>7
  <2>2. \A v \in Witnesses : tip'[v] \in took'[v] \cup {<<>>, Foreign}
    BY <1>6, <1>7, <2>1
  <2>3. \A p \in receipts' : p[1] \in Witnesses
    BY <1>2, <1>7
  <2> QED BY <1>6, <2>2, <2>3 DEF WitnessesOk
<1>10. Onward /\ RowsOk' /\ ClosedIsAccepted'
  <2>1. rows = [v \in Witnesses |-> rows[v]] /\ rows[w] \in Seq(RowSet)
    BY <1>3 DEF DInv, RowsOk
  <2>2. PICK f : f = rows[w]
    OBVIOUS
  <2>3. Sent(w, f)
    BY <1>2, <2>1, <2>2 DEF Sent
  <2> QED BY <1>2, <1>3, <1>8, <2>3, SentIs
<1>11. DeliversOk(x)'
  BY <1>3, <1>10, DeliversCarries DEF DInv
<1>12. /\ y.at = "record" /\ y.answer = answer /\ y.urls = x.urls /\ y.last = x.last
       /\ y.queue = x.queue /\ y.todo = x.todo /\ y.given = x.given /\ y.prep = x.prep
  BY <1>3, <1>5 DEF Ready, IsState, Fields
<1>13. /\ answer.k = k /\ answer.tries = rows[w][k].tries /\ answer.says = a.says /\ answer.tip = a.tip
  BY <1>5
<1>14. rows[w][k].tries \in Nat
  BY <1>3, <1>4 DEF RowSet, NoRow
<1>15. a.says = "receipt" => cuts[k].leaves \in took'[w]
  <2> SUFFICES ASSUME a.says = "receipt" PROVE cuts[k].leaves \in took'[w]
    OBVIOUS
  <2>1. a.tip = cuts[k].leaves
    BY <1>5, AnswersAre
  <2>2. cuts[k].leaves \in Seq(Nat) /\ Len(cuts[k].leaves) > 0
    BY <1>4, ChainGrows DEF RInv
  <2>3. cuts[k].leaves # <<>>
    BY <2>2
  <2>4. cuts[k].leaves # Foreign
    <3>1. Foreign \notin Seq(Nat)
      <4>1. Foreign[1] = -1 /\ 1 \in DOMAIN Foreign
        BY DEF Foreign
      <4>2. \A s \in Seq(Nat) : \A i \in DOMAIN s : s[i] \in Nat
        OBVIOUS
      <4> QED BY <4>1, <4>2
    <3> QED BY <2>2, <3>1
  <2> QED BY <1>3, <1>6, <1>7, <2>1, <2>3, <2>4
<1>16. a.says = "refused" => a.tip \in took'[w] \cup {Foreign}
  <2> SUFFICES ASSUME a.says = "refused" PROVE a.tip \in took'[w] \cup {Foreign}
    OBVIOUS
  <2>1. a.tip = tip[w] /\ tip[w] # <<>>
    BY <1>5, AnswersAre
  <2> QED BY <1>3, <1>7, <1>8, <2>1
<1>17. AnswerOk(y)'
  <2>1. Head(y.todo) = w /\ y.queue[w] # <<>> /\ k = Head(y.queue[w])
    BY <1>1, <1>2, <1>12
  <2>2. /\ rows'[w][k].tries >= answer.tries
        /\ rows'[w][k].st = "open" /\ cuts' = cuts
    BY <1>2, <1>13, <1>14
  <2> QED BY <1>12, <1>13, <1>14, <1>15, <1>16, <2>1, <2>2 DEF AnswerOk
<1>18. DeliversOk(y)'
  <2>1. layout' = "stores"
    BY <1>2, <1>3
  <2> QED BY <1>2, <1>3, <1>11, <1>12, <1>17, <2>1 DEF DeliversOk, Out, Sending
<1>19. RunsDeliver'
  BY <1>5, <1>10, <1>18, RunsStep DEF DInv
<1> QED BY <1>2, <1>9, <1>10, <1>19 DEF DInv

\* One row of w is touched.
LEMMA OneRow ==
    ASSUME RInv, DInv, layout = "stores", NEW w \in Witnesses, NEW k \in DOMAIN cuts,
           rows[w][k].st = "open", NEW st \in {"open", "held", "receipt"},
           rows' = [rows EXCEPT ![w][k] = Attempted(@, st)],
           st = "receipt" => cuts[k].leaves \in took'[w]
    PROVE  \E f : Sent(w, f) /\ f[k] = Attempted(rows[w][k], st) /\ rows'[w] = f
<1> DEFINE f == [rows[w] EXCEPT ![k] = Attempted(rows[w][k], st)]
<1>1. /\ rows = [v \in Witnesses |-> rows[v]]
      /\ rows[w] \in Seq(RowSet) /\ Len(rows[w]) = Len(cuts)
  BY DEF DInv, RowsOk
<1>2. k \in DOMAIN rows[w]
  <2>1. DOMAIN cuts = 1 .. Len(cuts)
    BY ChainGrows DEF RInv
  <2> QED BY <1>1, <2>1
<1>3. rows' = [rows EXCEPT ![w] = f]
  OBVIOUS
<1>4. /\ f = [j \in DOMAIN rows[w] |-> f[j]] /\ f[k] = Attempted(rows[w][k], st)
      /\ \A j \in DOMAIN rows[w] : j # k => f[j] = rows[w][j]
  BY <1>1, <1>2
<1>5. rows'[w] = f
  BY <1>1, <1>3
<1> HIDE DEF f
<1>6. Sent(w, f)
  BY <1>3, <1>4 DEF Sent
<1> QED BY <1>4, <1>5, <1>6

LEMMA NoRowTouched ==
    ASSUME RInv, DInv, layout = "stores", NEW w \in Witnesses, UNCHANGED rows
    PROVE  \E f : Sent(w, f)
<1>1. rows = [v \in Witnesses |-> rows[v]] /\ rows[w] \in Seq(RowSet)
  BY DEF DInv, RowsOk
<1>2. PICK f : f = rows[w]
  OBVIOUS
<1>3. Sent(w, f)
  BY <1>1, <1>2 DEF Sent
<1> QED BY <1>3

\* The answer in hand is of the front row.
LEMMA AnswerIsOf ==
    ASSUME RInv, DInv, NEW x, DeliversOk(x), x.at = "record", NEW w, w = Head(x.todo),
           QueueOk(x.queue[w]), NEW a, a = x.answer
    PROVE  /\ AnswerOk(x) /\ x.queue[w] # <<>> /\ x.queue[w] \in Seq(Nat)
           /\ a.k = Head(x.queue[w]) /\ a.k = x.queue[w][1] /\ a.k \in DOMAIN cuts
           /\ ~Moved(w, a) => rows[w][a.k].st = "open"
           /\ a.says = "receipt" => cuts[a.k].leaves \in took[w]
           /\ a.says = "refused" => a.tip \in took[w] \cup {Foreign}
           /\ Rest(x.queue[w], 1, Tail(x.queue[w]))
<1>1. AnswerOk(x)
  BY Zenon DEF DeliversOk
<1>2. /\ x.queue[w] # <<>> /\ a.k = Head(x.queue[w])
      /\ ~Moved(w, a) => rows[w][a.k].st = "open"
      /\ a.says = "receipt" => cuts[a.k].leaves \in took[w]
      /\ a.says = "refused" => a.tip \in took[w] \cup {Foreign}
  BY <1>1 DEF AnswerOk, Moved
<1>3. /\ x.queue[w] \in Seq(Nat)
      /\ \A i \in DOMAIN x.queue[w] : x.queue[w][i] \in DOMAIN cuts
  BY DEF QueueOk
<1>4. Rest(x.queue[w], 1, Tail(x.queue[w])) /\ x.queue[w][1] = Head(x.queue[w]) /\ 1 \in DOMAIN x.queue[w]
  BY <1>2, <1>3, TailIsRest
<1> QED BY <1>1, <1>2, <1>3, <1>4

\* A pass leaves the witness, with one more attempt on its row or none.
LEMMA FailsDelivers ==
    ASSUME RInv, DInv, NEW r \in Runners, NEW x, x = run[r], x.at = "record",
           NEW w, w = Head(x.todo), NEW a, a = x.answer, Fails(r, x, w, a),
           UNCHANGED <<layout, configs, cuts, receipts, tip, took>>
    PROVE  DInv'
<1>1. /\ layout = "stores" /\ x.at \notin Out /\ DeliversOk(x) /\ Ready(x) /\ x.todo # <<>>
      /\ w \in Witnesses /\ QueueOk(x.queue[w])
  BY PassIsAt
<1>2. a.k \in DOMAIN cuts /\ (~Moved(w, a) => rows[w][a.k].st = "open")
  BY <1>1, AnswerIsOf
<1>3. \E f : Sent(w, f)
  <2>1. CASE Moved(w, a)
    BY Zenon, <1>1, <2>1, NoRowTouched DEF Fails
  <2>2. CASE ~Moved(w, a)
    <3>1. PICK k : k = a.k
      OBVIOUS
    <3>2. rows' = [rows EXCEPT ![w][k] = Attempted(@, "open")]
      BY <2>2, <3>1 DEF Fails
    <3>3. k \in DOMAIN cuts /\ rows[w][k].st = "open"
      BY <1>2, <2>2, <3>1
    <3> QED BY Zenon, <1>1, <3>2, <3>3, OneRow
  <2> QED BY <2>1, <2>2
<1>4. PICK f : Sent(w, f)
  BY <1>3
<1>5. Onward
  BY <1>1, <1>4, SentIs
<1>6. PICK y : y = Leaves(x)
  OBVIOUS
<1>7. DeliversOk(y)'
  <2>1. DeliversOk(y)
    BY <1>1, <1>6, LeavesBegins, BeginsOk
  <2> QED BY <1>5, <2>1, DeliversCarries DEF DInv
<1>8. run' = [run EXCEPT ![r] = y]
  BY <1>6 DEF Fails
<1> QED BY <1>1, <1>4, <1>7, <1>8, RowStep

LEMMA RecordFailureDelivers ==
    ASSUME RInv, DInv, NEW r \in Runners, RecordFailure(r)
    PROVE  DInv'
<1>1. PICK x, w, a : x = run[r] /\ w = Head(x.todo) /\ a = x.answer
  OBVIOUS
<1>2. /\ x.at = "record" /\ Fails(r, x, w, a)
      /\ UNCHANGED <<layout, configs, cuts, receipts, tip, took>>
  BY <1>1 DEF RecordFailure, Untouched
<1> QED BY <1>1, <1>2, FailsDelivers

LEMMA RecordReceiptDelivers ==
    ASSUME RInv, DInv, NEW r \in Runners, RecordReceipt(r)
    PROVE  DInv'
<1>1. PICK x, w, a : x = run[r] /\ w = Head(x.todo) /\ a = x.answer
  OBVIOUS
<1>2. /\ x.at = "record" /\ a.says = "receipt"
      /\ UNCHANGED <<layout, configs, cuts, receipts, tip, took>>
  BY <1>1 DEF RecordReceipt, Untouched
<1>3. /\ layout = "stores" /\ x.at \notin Out /\ DeliversOk(x) /\ Ready(x) /\ x.todo # <<>>
      /\ w \in Witnesses /\ QueueOk(x.queue[w]) /\ x.queue = [v \in Witnesses |-> x.queue[v]]
      /\ Len(cuts) \in Nat /\ DOMAIN cuts = 1 .. Len(cuts)
  BY <1>1, <1>2, PassIsAt
<1>4. /\ x.queue[w] # <<>> /\ a.k = x.queue[w][1] /\ a.k \in DOMAIN cuts
      /\ ~Moved(w, a) => rows[w][a.k].st = "open"
      /\ cuts[a.k].leaves \in took[w]
      /\ Rest(x.queue[w], 1, Tail(x.queue[w]))
  <2>1. /\ x.queue[w] # <<>> /\ a.k = x.queue[w][1] /\ a.k \in DOMAIN cuts
        /\ ~Moved(w, a) => rows[w][a.k].st = "open"
        /\ a.says = "receipt" => cuts[a.k].leaves \in took[w]
        /\ Rest(x.queue[w], 1, Tail(x.queue[w]))
    <3>1. /\ DeliversOk(x) /\ x.at = "record" /\ w = Head(x.todo)
          /\ QueueOk(x.queue[w]) /\ a = x.answer
      BY <1>1, <1>2, <1>3
    <3> QED BY <3>1, AnswerIsOf
  <2> QED BY <1>2, <2>1
<1>5. CASE run' = [run EXCEPT ![r] = Leaves(x)] /\ Moved(w, a) /\ UNCHANGED rows
  <2>1. Fails(r, x, w, a)
    BY <1>5 DEF Fails
  <2> QED BY <1>1, <1>2, <2>1, FailsDelivers
<1>6. CASE /\ ~Moved(w, a)
           /\ rows' = [rows EXCEPT ![w][a.k] = Attempted(@, "receipt")]
           /\ run' = [run EXCEPT ![r] = [Pops(x, w) EXCEPT !.at = "send", !.answer = None]]
  <2>1. PICK k, y, p : /\ k = a.k /\ p = Tail(x.queue[w])
                       /\ y = [Pops(x, w) EXCEPT !.at = "send", !.answer = None]
    OBVIOUS
  <2>2. PICK f : Sent(w, f) /\ f[k] = Attempted(rows[w][k], "receipt") /\ rows'[w] = f
    <3>1. /\ k \in DOMAIN cuts /\ rows[w][k].st = "open" /\ cuts[k].leaves \in took'[w]
          /\ rows' = [rows EXCEPT ![w][k] = Attempted(@, "receipt")]
      BY <1>2, <1>4, <1>6, <2>1
    <3> QED BY <1>3, <3>1, OneRow
  <2>3. Onward
    BY <1>2, <1>3, <2>2, SentIs
  <2>4. DeliversOk(x)'
    BY <1>3, <2>3, DeliversCarries DEF DInv
  <2>5. Done(w, x.queue[w], 1)'
    BY <1>4, <2>1, <2>2 DEF Done, Closed1, Attempted
  <2>6. Passes(x, w, p, y)
    <3>1. /\ IsState(Pops(x, w)) /\ Pops(x, w).queue = [x.queue EXCEPT ![w] = p]
          /\ Pops(x, w).urls = x.urls /\ Pops(x, w).last = x.last /\ Pops(x, w).given = x.given
          /\ Pops(x, w).todo = x.todo
      BY <1>3, <2>1 DEF Pops, Ready, IsState, Fields
    <3>2. PICK z : z = Pops(x, w)
      OBVIOUS
    <3>3. /\ y.queue = z.queue /\ y.urls = z.urls /\ y.last = z.last /\ y.given = z.given
          /\ y.todo = z.todo /\ y.at = "send"
      BY <2>1, <3>1, <3>2 DEF IsState, Fields
    <3> QED BY <1>3, <3>1, <3>2, <3>3 DEF Passes, Ready
  <2>7. /\ layout' = "stores" /\ Len(cuts') \in Nat /\ DOMAIN cuts' = 1 .. Len(cuts')
        /\ Rest(x.queue[w], 1, p)
    BY <1>2, <1>3, <1>4, <2>1
  <2>8. DeliversOk(y)'
    BY <1>3, <2>4, <2>5, <2>6, <2>7, DropsOk
  <2>9. run' = [run EXCEPT ![r] = y]
    BY <1>6, <2>1
  <2> QED BY <1>2, <1>3, <2>2, <2>8, <2>9, RowStep
<1> QED BY <1>1, <1>5, <1>6 DEF RecordReceipt

\* The rows a witness at t need not be sent: those of no later cuts.
LEMMA UpToIs ==
    ASSUME CutsInv, layout = "stores", NEW q, QueueOk(q), NEW t \in Roots
    PROVE  /\ UpTo(q, t) \in 0 .. Len(q)
           /\ \A j \in 1 .. UpTo(q, t) : \E c \in q[j] .. Len(cuts) : cuts[c].leaves = t
<1> DEFINE I == {i \in 1 .. Len(q) : Len(cuts[q[i]].leaves) <= Len(t)}
<1>1. UpTo(q, t) = IF I # {} THEN Max(I) ELSE 0
  BY DEF UpTo, SelectLastInSeq
<1>2. /\ q \in Seq(Nat) /\ Len(q) \in Nat /\ DOMAIN q = 1 .. Len(q)
      /\ \A i \in 1 .. Len(q) : q[i] \in DOMAIN cuts
      /\ \A i, j \in 1 .. Len(q) : i < j => q[i] < q[j]
  <2>1. q \in Seq(Nat)
    BY DEF QueueOk
  <2>2. Len(q) \in Nat /\ DOMAIN q = 1 .. Len(q)
    BY <2>1
  <2> QED BY <2>1, <2>2 DEF QueueOk
<1>3. /\ DOMAIN cuts = 1 .. Len(cuts) /\ Len(cuts) \in Nat
      /\ \A k \in DOMAIN cuts : cuts[k].leaves \in Seq(Nat) /\ Len(cuts[k].leaves) > 0
      /\ \A i, j \in DOMAIN cuts : i < j => Len(cuts[i].leaves) < Len(cuts[j].leaves)
  BY ChainGrows
<1>4. CASE I = {}
  BY <1>1, <1>2, <1>4
<1>5. CASE I # {}
  <2>1. Max(I) \in I
    <3>1. I \in SUBSET (1 .. Len(q)) /\ Len(q) \in Nat
      BY <1>2
    <3> HIDE DEF I
    <3> QED BY <1>5, <3>1, MaxIsIn
  <2>2. PICK m : m = UpTo(q, t)
    OBVIOUS
  <2>3. m \in 1 .. Len(q) /\ Len(cuts[q[m]].leaves) <= Len(t)
    BY <1>1, <1>5, <2>1, <2>2
  <2>4. PICK c \in DOMAIN cuts : cuts[c].leaves = t
    BY DEF Roots, Legible
  <2> HIDE DEF I
  <2>5. q[m] <= c
    <3>1. q[m] \in DOMAIN cuts /\ q[m] \in Nat /\ c \in Nat
      BY <1>2, <1>3, <2>3, <2>4
    <3>2. ~(Len(t) < Len(cuts[q[m]].leaves))
      <4>1. Len(t) \in Nat /\ Len(cuts[q[m]].leaves) \in Nat
        BY <1>3, <2>4, <3>1
      <4> QED BY <2>3, <4>1
    <3>3. ~(c < q[m])
      BY <1>3, <2>4, <3>1, <3>2
    <3> QED BY <3>1, <3>3
  <2>6. ASSUME NEW j \in 1 .. m PROVE \E d \in q[j] .. Len(cuts) : cuts[d].leaves = t
    <3>1. j \in 1 .. Len(q) /\ j <= m /\ m \in Nat /\ j \in Nat
      BY <1>2, <2>3
    <3>2. q[j] <= q[m]
      <4>1. q[j] \in Nat /\ q[m] \in Nat
        BY <1>2, <2>3, <3>1
      <4>2. CASE j = m
        BY <4>1, <4>2
      <4>3. CASE j < m
        BY <1>2, <2>3, <3>1, <4>1, <4>3
      <4> QED BY <3>1, <4>2, <4>3
    <3>3. c \in q[j] .. Len(cuts)
      BY <1>2, <1>3, <2>3, <2>4, <2>5, <3>1, <3>2
    <3> QED BY <2>4, <3>3
  <2> QED BY <1>2, <2>2, <2>3, <2>6
<1> QED BY <1>4, <1>5

LEMMA UnheldIs ==
    ASSUME NEW u \in Nat, NEW H \in SUBSET (1 .. u),
           NEW all, all = IF H = {} THEN u ELSE Min(H) - 1
    PROVE  all \in 0 .. u /\ \A j \in 1 .. all : j \notin H
<1>1. CASE H = {}
  BY <1>1
<1>2. CASE H # {}
  <2>1. H \in SUBSET Nat
    OBVIOUS
  <2>2. \E m \in H : \A k \in H : m <= k
    BY <1>2, <2>1, LeastIs
  <2>3. PICK m : m = Min(H)
    OBVIOUS
  <2>4. m \in H /\ \A k \in H : m <= k
    BY <2>2, <2>3 DEF Min
  <2>5. m \in 1 .. u /\ m - 1 \in 0 .. u /\ \A j \in 1 .. m - 1 : j \notin H
    BY <2>4
  <2> QED BY <1>2, <2>3, <2>5
<1> QED BY <1>1, <1>2

\* The first n rows of w's queue are closed, as far as they are open.
ClosedRows(w, q, n) ==
    [k \in DOMAIN rows[w] |-> IF k \in {q[j] : j \in 1 .. n} /\ rows[w][k].st = "open"
                              THEN Attempted(rows[w][k], "ahead") ELSE rows[w][k]]

LEMMA ClosesIs ==
    ASSUME RInv, DInv, layout = "stores", NEW w \in Witnesses, NEW q, QueueOk(q),
           NEW n \in 0 .. Len(q), rows' = [rows EXCEPT ![w] = ClosedRows(w, q, n)],
           \A j \in 1 .. n : rows[w][q[j]].st # "held",
           \A j \in 1 .. n : \E c \in q[j] .. Len(cuts) : cuts[c].leaves \in took'[w]
    PROVE  Sent(w, ClosedRows(w, q, n)) /\ Done(w, q, n)'
<1> DEFINE f == ClosedRows(w, q, n)
<1>1. /\ rows = [v \in Witnesses |-> rows[v]]
      /\ rows[w] \in Seq(RowSet) /\ DOMAIN rows[w] = DOMAIN cuts
  <2>1. rows = [v \in Witnesses |-> rows[v]] /\ rows[w] \in Seq(RowSet) /\ Len(rows[w]) = Len(cuts)
    BY DEF DInv, RowsOk
  <2>2. DOMAIN cuts = 1 .. Len(cuts)
    BY ChainGrows DEF RInv
  <2> QED BY <2>1, <2>2
<1>2. ASSUME NEW j \in 1 .. n PROVE q[j] \in DOMAIN rows[w]
  <2>1. q \in Seq(Nat) /\ \A i \in DOMAIN q : q[i] \in DOMAIN cuts
    BY DEF QueueOk
  <2>2. j \in DOMAIN q
    BY <2>1
  <2> QED BY <1>1, <2>1, <2>2
<1>3. /\ f = [k \in DOMAIN rows[w] |-> f[k]]
      /\ \A k \in DOMAIN rows[w] :
            f[k] = IF k \in {q[j] : j \in 1 .. n} /\ rows[w][k].st = "open"
                   THEN Attempted(rows[w][k], "ahead") ELSE rows[w][k]
  BY DEF ClosedRows
<1>4. rows' = [rows EXCEPT ![w] = f] /\ rows'[w] = f
  BY <1>1
<1> HIDE DEF f
<1>5. Sent(w, f)
  <2>1. ASSUME NEW k \in DOMAIN rows[w], f[k] # rows[w][k]
        PROVE  /\ rows[w][k].st = "open" /\ f[k] = Attempted(rows[w][k], "ahead")
               /\ \E c \in k .. Len(cuts) : cuts[c].leaves \in took'[w]
    BY <1>3, <2>1
  <2> QED BY <1>3, <1>4, <2>1 DEF Sent
<1>6. ASSUME NEW j \in 1 .. n PROVE rows'[w][q[j]] = NoRow \/ Closed1(rows'[w][q[j]])
  <2>1. PICK k : k = q[j]
    OBVIOUS
  <2>2. k \in DOMAIN rows[w] /\ rows[w][k] \in RowSet /\ rows[w][k].st # "held"
    BY <1>1, <1>2, <2>1
  <2>3. CASE rows[w][k].st = "open"
    <3>1. f[k] = Attempted(rows[w][k], "ahead")
      BY <1>3, <2>1, <2>2, <2>3
    <3> QED BY <1>4, <2>1, <3>1 DEF Closed1, Attempted
  <2>4. CASE rows[w][k].st # "open"
    <3>1. f[k] = rows[w][k]
      BY <1>3, <2>2, <2>4
    <3>2. rows[w][k] = NoRow \/ rows[w][k].st \in {"receipt", "ahead"}
      BY <2>2, <2>4 DEF RowSet
    <3> QED BY <1>4, <2>1, <3>1, <3>2 DEF Closed1
  <2> QED BY <2>3, <2>4
<1> QED BY <1>5, <1>6 DEF Done, Closed1, f

LEMMA SubSeqIsRest ==
    ASSUME NEW q \in Seq(Nat), NEW n \in 0 .. Len(q)
    PROVE  Rest(q, n, SubSeq(q, n + 1, Len(q)))
<1>1. Len(q) \in Nat /\ n \in Nat /\ n <= Len(q)
  OBVIOUS
<1>2. SubSeq(q, n + 1, Len(q)) \in Seq(Nat) /\ Len(SubSeq(q, n + 1, Len(q))) = Len(q) - n
  BY <1>1
<1>3. ASSUME NEW i \in 1 .. Len(q) - n PROVE SubSeq(q, n + 1, Len(q))[i] = q[i + n]
  BY <1>1
<1> QED BY <1>1, <1>2, <1>3 DEF Rest

\* What a runner holds, and a witness is at, is a checkpoint of this log.
LEMMA AheadIs ==
    ASSUME RInv, DInv, layout = "stores", NEW x, DeliversOk(x), x.at = "record", NEW w, w = Head(x.todo),
           QueueOk(x.queue[w]), NEW a, a = x.answer, Ahead(a), Holds(x, a.tip)
    PROVE  a.tip \in Roots /\ a.tip \in took[w]
<1>1. a.k \in DOMAIN cuts /\ a.tip \in took[w] \cup {Foreign}
  <2>1. a.says = "refused"
    BY DEF Ahead
  <2> QED BY <2>1, AnswerIsOf
<1>2. Len(a.tip) >= Len(cuts[a.k].leaves)
  BY DEF Ahead
<1>3. a.tip \in {<<>>} \cup Roots
  <2>1. x.last \in {<<>>} \cup Roots
    BY DEF DeliversOk, Out
  <2>2. Roots = {cuts[k].leaves : k \in DOMAIN cuts}
    BY LatestIsLongest DEF RInv
  <2> QED BY <2>1, <2>2 DEF Holds
<1>4. /\ cuts[a.k].leaves \in Seq(Nat) /\ Len(cuts[a.k].leaves) > 0
      /\ Roots \subseteq Seq(Nat)
  BY <1>1, ChainGrows, LatestIsLongest DEF RInv
<1>5. a.tip # <<>>
  <2>1. Len(<<>>) = 0 /\ Len(cuts[a.k].leaves) \in Nat
    BY <1>4
  <2> QED BY <1>2, <1>4, <2>1
<1>6. Foreign \notin Seq(Nat)
  <2>1. Foreign[1] = -1 /\ 1 \in DOMAIN Foreign
    BY DEF Foreign
  <2>2. \A s \in Seq(Nat) : \A i \in DOMAIN s : s[i] \in Nat
    OBVIOUS
  <2> QED BY <2>1, <2>2
<1> QED BY <1>1, <1>3, <1>4, <1>5, <1>6

\* n rows are closed and gone from the queue, and the pass goes on with w or leaves it.
Closing(r, x, w, q, n, z, y) ==
    /\ x = run[r] /\ x.at = "record" /\ w = Head(x.todo) /\ q = x.queue[w]
    /\ n \in 0 .. Len(q)
    /\ rows' = [rows EXCEPT ![w] = ClosedRows(w, q, n)]
    /\ \A j \in 1 .. n : rows[w][q[j]].st # "held"
    /\ \A j \in 1 .. n : \E c \in q[j] .. Len(cuts) : cuts[c].leaves \in took[w]
    /\ UNCHANGED <<layout, configs, cuts, receipts, tip, took>>
    /\ z = [x EXCEPT !.queue[w] = SubSeq(q, n + 1, Len(q)), !.answer = None]
    /\ y = [z EXCEPT !.at = "send"] \/ y = Leaves(z)
    /\ run' = [run EXCEPT ![r] = y]

LEMMA ClosingDelivers ==
    ASSUME RInv, DInv, NEW r \in Runners, NEW x, NEW w, NEW q, NEW n, NEW z, NEW y,
           Closing(r, x, w, q, n, z, y)
    PROVE  DInv'
<1>0. /\ x = run[r] /\ x.at = "record" /\ w = Head(x.todo) /\ q = x.queue[w]
      /\ n \in 0 .. Len(q)
      /\ rows' = [rows EXCEPT ![w] = ClosedRows(w, q, n)]
      /\ \A j \in 1 .. n : rows[w][q[j]].st # "held"
      /\ \A j \in 1 .. n : \E c \in q[j] .. Len(cuts) : cuts[c].leaves \in took[w]
      /\ UNCHANGED <<layout, configs, cuts, receipts, tip, took>>
      /\ z = [x EXCEPT !.queue[w] = SubSeq(q, n + 1, Len(q)), !.answer = None]
      /\ y = [z EXCEPT !.at = "send"] \/ y = Leaves(z)
      /\ run' = [run EXCEPT ![r] = y]
  BY Zenon DEF Closing
<1>1. /\ layout = "stores" /\ x.at \notin Out /\ DeliversOk(x) /\ Ready(x) /\ x.todo # <<>>
      /\ w \in Witnesses /\ QueueOk(q) /\ x.queue = [v \in Witnesses |-> x.queue[v]]
      /\ Len(cuts) \in Nat /\ DOMAIN cuts = 1 .. Len(cuts)
  BY Zenon, <1>0, PassIsAt
<1>2. \A j \in 1 .. n : \E c \in q[j] .. Len(cuts) : cuts[c].leaves \in took'[w]
  BY Zenon, <1>0
<1>3. Sent(w, ClosedRows(w, q, n)) /\ Done(w, q, n)'
  BY Zenon, <1>0, <1>1, <1>2, ClosesIs
<1>4. PICK f : Sent(w, f)
  BY Zenon, <1>3
<1>5. Onward
  BY Zenon, <1>0, <1>1, <1>4, SentIs
<1>6. DeliversOk(x)'
  BY Zenon, <1>0, <1>1, <1>5, DeliversCarries DEF DInv
<1>7. PICK p : p = SubSeq(q, n + 1, Len(q))
  BY Zenon
<1>8. Rest(x.queue[w], n, p)
  <2>1. q \in Seq(Nat)
    BY Zenon, <1>1 DEF QueueOk
  <2> QED BY Zenon, <1>0, <1>7, <2>1, SubSeqIsRest
<1>9. /\ Ready(z) /\ z.queue = [x.queue EXCEPT ![w] = p] /\ z.urls = x.urls
      /\ z.last = x.last /\ z.given = {} /\ z.todo = x.todo
  BY Zenon, <1>0, <1>1, <1>7 DEF Ready, IsState, Fields
<1>10. Passes(x, w, p, y)
  <2>1. CASE y = [z EXCEPT !.at = "send"]
    <3>1. /\ y.queue = z.queue /\ y.urls = z.urls /\ y.last = z.last /\ y.given = z.given
          /\ y.todo = z.todo /\ y.at = "send"
      BY <1>9, <2>1 DEF Ready, IsState, Fields
    <3> QED BY Zenon, <1>0, <1>1, <1>9, <3>1 DEF Passes, Ready
  <2>2. CASE y = Leaves(z)
    <3>1. Begins(z, y) /\ y.at \in {"idle", "send"}
      BY Zenon, <1>0, <1>1, <1>9, <2>2, LeavesBegins
    <3> QED BY Zenon, <1>0, <1>9, <3>1 DEF Passes, Begins, Sending
  <2> QED BY Zenon, <1>0, <2>1, <2>2
<1>11. /\ layout' = "stores" /\ Len(cuts') \in Nat /\ DOMAIN cuts' = 1 .. Len(cuts')
       /\ x.at \notin Out /\ Done(w, x.queue[w], n)'
  BY Zenon, <1>0, <1>1, <1>3
<1>12. DeliversOk(y)'
  BY Zenon, <1>0, <1>1, <1>6, <1>8, <1>10, <1>11, DropsOk
<1> QED BY Zenon, <1>0, <1>1, <1>4, <1>12, RowStep

LEMMA CloseAheadDelivers ==
    ASSUME RInv, DInv, NEW r \in Runners, CloseAhead(r)
    PROVE  DInv'
<1>1. PICK x, w, a, q, upTo, held, all :
          /\ x = run[r] /\ w = Head(x.todo) /\ a = x.answer /\ q = x.queue[w]
          /\ upTo = UpTo(q, a.tip)
          /\ held = {j \in 1 .. upTo : rows[w][q[j]].st = "held"}
          /\ all = IF held = {} THEN upTo ELSE Min(held) - 1
  BY Zenon
<1>2. /\ x.at = "record" /\ Ahead(a) /\ Holds(x, a.tip)
      /\ UNCHANGED <<layout, configs, cuts, receipts, tip, took>>
  BY Zenon, <1>1 DEF CloseAhead, Untouched
<1>3. /\ DeliversOk(x) /\ w \in Witnesses /\ QueueOk(q) /\ layout = "stores"
  BY Zenon, <1>1, <1>2, PassIsAt
<1>4. a.tip \in Roots /\ a.tip \in took[w]
  BY Zenon, <1>1, <1>2, <1>3, AheadIs
<1>5. /\ upTo \in 0 .. Len(q)
      /\ \A j \in 1 .. upTo : \E c \in q[j] .. Len(cuts) : cuts[c].leaves = a.tip
  <2>1. PICK t : t = a.tip
    OBVIOUS
  <2>2. /\ UpTo(q, t) \in 0 .. Len(q)
        /\ \A j \in 1 .. UpTo(q, t) : \E c \in q[j] .. Len(cuts) : cuts[c].leaves = t
    <3>1. CutsInv /\ layout = "stores" /\ QueueOk(q) /\ t \in Roots
      BY <1>3, <1>4, <2>1 DEF RInv
    <3> QED BY <3>1, UpToIs
  <2>3. upTo = UpTo(q, t)
    BY Zenon, <1>1, <2>1
  <2> QED BY <2>1, <2>2, <2>3
<1>6. Len(q) \in Nat
  BY <1>3 DEF QueueOk
<1>7. all \in 0 .. upTo /\ \A j \in 1 .. all : j \notin held
  <2>1. upTo \in Nat
    BY <1>5, <1>6
  <2>2. held \in SUBSET (1 .. upTo) /\ all = IF held = {} THEN upTo ELSE Min(held) - 1
    BY Zenon, <1>1
  <2> QED BY SMTT(20), <2>1, <2>2, UnheldIs
<1>8. ASSUME NEW n \in 0 .. all
      PROVE  /\ n \in 0 .. Len(q)
             /\ \A j \in 1 .. n : rows[w][q[j]].st # "held"
             /\ \A j \in 1 .. n : \E c \in q[j] .. Len(cuts) : cuts[c].leaves \in took[w]
  <2>1. n \in 0 .. Len(q) /\ \A j \in 1 .. n : j \in 1 .. all /\ j \in 1 .. upTo
    BY <1>5, <1>7, <1>6
  <2>2. ASSUME NEW j \in 1 .. n PROVE rows[w][q[j]].st # "held"
    BY Zenon, <1>1, <1>7, <2>1
  <2>3. ASSUME NEW j \in 1 .. n PROVE \E c \in q[j] .. Len(cuts) : cuts[c].leaves \in took[w]
    BY <1>4, <1>5, <2>1
  <2> QED BY <2>1, <2>2, <2>3
<1>9. PICK n, z, y : /\ n \in 0 .. all
                     /\ rows' = [rows EXCEPT ![w] = ClosedRows(w, q, n)]
                     /\ z = [x EXCEPT !.queue[w] = SubSeq(q, n + 1, Len(q)), !.answer = None]
                     /\ y = [z EXCEPT !.at = "send"] \/ y = Leaves(z)
                     /\ run' = [run EXCEPT ![r] = y]
  <2> DEFINE X == run[r]
             W == Head(X.todo)
             A == X.answer
             Q == X.queue[W]
             up == UpTo(Q, A.tip)
             hs == {j \in 1 .. up : rows[W][Q[j]].st = "held"}
             every == IF hs = {} THEN up ELSE Min(hs) - 1
             closed(n) == {Q[j] : j \in 1 .. n}
             closes(n) == rows' = [rows EXCEPT ![W] = [k \in DOMAIN @ |->
                             IF k \in closed(n) /\ @[k].st = "open" THEN Attempted(@[k], "ahead") ELSE @[k]]]
             drops(n) == [X EXCEPT !.queue[W] = SubSeq(@, n + 1, Len(@)), !.answer = None]
  <2>1. \/ closes(every) /\ run' = [run EXCEPT ![r] = [drops(every) EXCEPT !.at = "send"]]
        \/ \E n \in 0 .. every - 1 : closes(n) /\ run' = [run EXCEPT ![r] = Leaves(drops(n))]
    BY Zenon DEF CloseAhead
  <2>2. every = all /\ X = x /\ W = w /\ Q = q
    BY Zenon, <1>1
  <2>3. ASSUME NEW n PROVE /\ closes(n) => rows' = [rows EXCEPT ![w] = ClosedRows(w, q, n)]
                           /\ drops(n) = [x EXCEPT !.queue[w] = SubSeq(q, n + 1, Len(q)), !.answer = None]
    <3> HIDE DEF X, W, Q, every
    <3>1. closes(n) => rows' = [rows EXCEPT ![w] = ClosedRows(w, q, n)]
      BY <2>2 DEF ClosedRows
    <3>2. drops(n) = [x EXCEPT !.queue[w] = SubSeq(q, n + 1, Len(q)), !.answer = None]
      BY Zenon, <2>2, <1>1
    <3> QED BY <3>1, <3>2
  <2> HIDE DEF closes, drops, every, X, W, Q, A
  <2>4. \/ closes(all) /\ run' = [run EXCEPT ![r] = [drops(all) EXCEPT !.at = "send"]]
        \/ \E n \in 0 .. all - 1 : closes(n) /\ run' = [run EXCEPT ![r] = Leaves(drops(n))]
    BY <2>1, <2>2
  <2>5. all \in Nat /\ all \in 0 .. all /\ 0 .. all - 1 \subseteq 0 .. all
    BY <1>5, <1>7, <1>6
  <2>6. CASE closes(all) /\ run' = [run EXCEPT ![r] = [drops(all) EXCEPT !.at = "send"]]
    <3>1. PICK z : z = drops(all)
      OBVIOUS
    <3> HIDE DEF closes, drops
    <3> QED BY <2>3, <2>5, <2>6, <3>1
  <2>7. CASE \E n \in 0 .. all - 1 : closes(n) /\ run' = [run EXCEPT ![r] = Leaves(drops(n))]
    <3>1. PICK n \in 0 .. all - 1 : closes(n) /\ run' = [run EXCEPT ![r] = Leaves(drops(n))]
      BY <2>7
    <3>2. PICK z : z = drops(n)
      OBVIOUS
    <3> HIDE DEF closes, drops
    <3> QED BY <2>3, <2>5, <3>1, <3>2
  <2> QED BY Zenon, <2>4, <2>6, <2>7
<1>10. n \in 0 .. Len(q)
  BY <1>8, <1>9
<1>11. /\ \A j \in 1 .. n : rows[w][q[j]].st # "held"
       /\ \A j \in 1 .. n : \E c \in q[j] .. Len(cuts) : cuts[c].leaves \in took[w]
  BY <1>8, <1>9
<1>12. x = run[r] /\ w = Head(x.todo) /\ q = x.queue[w]
  BY Zenon, <1>1
<1>13. Closing(r, x, w, q, n, z, y)
  BY Zenon, <1>2, <1>9, <1>10, <1>11, <1>12 DEF Closing
<1> QED BY <1>13, ClosingDelivers

\* The cuts a witness is caught up with are ones before the row it was sent.
LEMMA MissedIs ==
    ASSUME CutsInv, layout = "stores", NEW x, NEW t, NEW k \in DOMAIN cuts, NEW ks, ks = MissedCuts(x, t, k),
           ks # << 0 >>, Len(t) < Len(cuts[k].leaves)
    PROVE  /\ Len(ks) \in Nat
           /\ \A i \in 1 .. Len(ks) : ks[i] \in DOMAIN cuts /\ ks[i] < k
<1>1. /\ DOMAIN cuts = 1 .. Len(cuts) /\ Len(cuts) \in Nat
      /\ \A i \in DOMAIN cuts : cuts[i].leaves \in Seq(Nat)
      /\ \A i, j \in DOMAIN cuts : i < j => Len(cuts[i].leaves) < Len(cuts[j].leaves)
  BY ChainGrows
<1> DEFINE J == CHOOSE i \in DOMAIN cuts : cuts[i].leaves = t
<1>2. t \in Roots /\ ks = [i \in 1 .. k - 1 - J |-> J + i]
  BY DEF MissedCuts
<1>3. J \in DOMAIN cuts /\ cuts[J].leaves = t
  BY <1>2 DEF Roots, Legible
<1> HIDE DEF J
<1>4. J \in Nat /\ k \in Nat /\ J < k
  <2>1. J \in Nat /\ k \in Nat
    BY <1>1, <1>3
  <2>2. Len(t) \in Nat /\ Len(cuts[k].leaves) \in Nat
    BY <1>1, <1>3
  <2>3. ~(k < J) /\ k # J
    BY <1>1, <1>3, <2>2
  <2> QED BY <2>1, <2>3
<1>5. PICK m : m = k - 1 - J
  OBVIOUS
<1>6. m \in Nat
  BY <1>4, <1>5
<1>7. ks = [i \in 1 .. m |-> J + i]
  BY <1>2, <1>5
<1>8. ks \in Seq(Nat) /\ Len(ks) = m
  BY <1>4, <1>6, <1>7
<1>9. ASSUME NEW i \in 1 .. m PROVE ks[i] \in DOMAIN cuts /\ ks[i] < k
  <2>1. ks[i] = J + i
    BY <1>7
  <2> QED BY <1>1, <1>3, <1>4, <1>5, <2>1
<1> QED BY <1>6, <1>8, <1>9

\* Each of the first h cuts that is open at w has a receipt.
GivenRows(w, ks, h) ==
    [k \in DOMAIN rows[w] |-> IF rows[w][k].st = "open" /\ \E i \in 1 .. h : ks[i] = k
                              THEN Attempted(rows[w][k], "receipt") ELSE rows[w][k]]

\* w is sent some of the cuts, and its rows become f.
Catching(r, x, w, f, t, more, y) ==
    /\ x = run[r] /\ x.at = "record" /\ w = Head(x.todo)
    /\ UNCHANGED <<layout, configs, cuts, receipts>>
    /\ tip' = [tip EXCEPT ![w] = t]
    /\ took' = [took EXCEPT ![w] = @ \cup more]
    /\ t \in more \cup {tip[w]}
    /\ Sent(w, f)
    /\ Begins(x, y)
    /\ run' = [run EXCEPT ![r] = y]

LEMMA CatchingDelivers ==
    ASSUME RInv, DInv, NEW r \in Runners, NEW x, NEW w, NEW f, NEW t, NEW more, NEW y,
           Catching(r, x, w, f, t, more, y)
    PROVE  DInv'
<1>1. /\ x = run[r] /\ x.at = "record" /\ w = Head(x.todo) /\ Sent(w, f) /\ Begins(x, y)
      /\ run' = [run EXCEPT ![r] = y]
      /\ UNCHANGED <<layout, configs, cuts, receipts>>
      /\ tip' = [tip EXCEPT ![w] = t] /\ took' = [took EXCEPT ![w] = @ \cup more]
      /\ t \in more \cup {tip[w]}
  BY DEF Catching
<1>2. /\ layout = "stores" /\ x.at \notin Out /\ DeliversOk(x) /\ w \in Witnesses
      /\ tip = [v \in Witnesses |-> tip[v]] /\ took = [v \in Witnesses |-> took[v]]
  BY <1>1, PassIsAt
<1>3. /\ tip' = [v \in Witnesses |-> tip'[v]] /\ took' = [v \in Witnesses |-> took'[v]]
      /\ tip'[w] = t /\ took'[w] = took[w] \cup more
      /\ \A v \in Witnesses \ {w} : tip'[v] = tip[v] /\ took'[v] = took[v]
  BY <1>1, <1>2
<1>4. \A v \in Witnesses : took[v] \subseteq took'[v]
  BY <1>3
<1>5. WitnessesOk'
  <2>1. /\ \A v \in Witnesses : tip[v] \in took[v] \cup {<<>>, Foreign}
        /\ \A p \in receipts : p[1] \in Witnesses
    BY Zenon DEF DInv, WitnessesOk
  <2>2. tip'[w] \in took'[w] \cup {<<>>, Foreign}
    BY <1>1, <1>2, <1>3, <2>1
  <2>3. \A v \in Witnesses : tip'[v] \in took'[v] \cup {<<>>, Foreign}
    BY <1>3, <2>1, <2>2
  <2> QED BY <1>1, <1>3, <2>1, <2>3 DEF WitnessesOk
<1>6. Onward /\ RowsOk' /\ ClosedIsAccepted'
  BY <1>1, <1>2, <1>4, SentIs
<1>7. DeliversOk(y)'
  <2>1. DeliversOk(y)
    BY <1>1, <1>2, BeginsOk
  <2> QED BY <1>6, <2>1, DeliversCarries DEF DInv
<1>8. RunsDeliver'
  BY <1>1, <1>6, <1>7, RunsStep DEF DInv
<1> QED BY <1>1, <1>5, <1>6, <1>8 DEF DInv

\* The row that was sent has failed once more.
Again(g, w, k) == [g EXCEPT ![w][k] = Attempted(@, "open")]

\* How a catch-up ends: n cuts are accepted, and the receipts of h are written.
CaughtUp(r, x, w, a, ks, n, h, g, y) ==
    /\ n \in 0 .. Len(ks) /\ h \in 0 .. n
    /\ tip' = [tip EXCEPT ![w] = IF n = 0 THEN a.tip ELSE cuts[ks[n]].leaves]
    /\ took' = [took EXCEPT ![w] = @ \cup {cuts[ks[i]].leaves : i \in 1 .. n}]
    /\ g = [rows EXCEPT ![w] = GivenRows(w, ks, h)]
    /\ rows' = g \/ (~Moved(w, a) /\ rows' = Again(g, w, a.k))
    /\ \/ y = [x EXCEPT !.at = "send", !.answer = None, !.caught = TRUE]
       \/ y = Leaves([x EXCEPT !.caught = TRUE])
    /\ run' = [run EXCEPT ![r] = y]

LEMMA CatchUpIs ==
    ASSUME NEW r, CatchUp(r)
    PROVE  LET x == run[r]
               w == Head(x.todo)
               a == x.answer
               ks == MissedCuts(x, a.tip, a.k)
           IN \/ Fails(r, x, w, a) /\ UNCHANGED <<tip, took>>
              \/ /\ ks # << 0 >> /\ tip[w] = a.tip
                 /\ Len(ks) \in Nat => \E n, h, g, y : CaughtUp(r, x, w, a, ks, n, h, g, y)
<1> DEFINE x == run[r]
           w == Head(x.todo)
           a == x.answer
           ks == MissedCuts(x, a.tip, a.k)
           last(n) == IF n = 0 THEN a.tip ELSE cuts[ks[n]].leaves
           accepts(n) == /\ tip' = [tip EXCEPT ![w] = last(n)]
                         /\ took' = [took EXCEPT ![w] = @ \cup {cuts[ks[i]].leaves : i \in 1 .. n}]
           given(n) == [rows EXCEPT ![w] = [k \in DOMAIN @ |->
                           IF @[k].st = "open" /\ \E i \in 1 .. n : ks[i] = k
                           THEN Attempted(@[k], "receipt") ELSE @[k]]]
           on == [x EXCEPT !.at = "send", !.answer = None, !.caught = TRUE]
           off == Leaves([x EXCEPT !.caught = TRUE])
           Whole1 == accepts(Len(ks)) /\ rows' = given(Len(ks)) /\ run' = [run EXCEPT ![r] = on]
           Half(n, h) == /\ h \in {n - 1, n}
                         /\ accepts(n)
                         /\ rows' = IF Moved(w, a) THEN given(h)
                                    ELSE [given(h) EXCEPT ![w][a.k] = Attempted(@, "open")]
<1>1. \/ ks # << 0 >> /\ tip[w] = a.tip /\ Whole1
      \/ /\ ks # << 0 >> /\ tip[w] = a.tip
         /\ \E n \in 0 .. Len(ks), h \in 0 .. Len(ks) - 1 : Half(n, h)
         /\ run' = [run EXCEPT ![r] = off]
      \/ Fails(r, x, w, a) /\ UNCHANGED <<tip, took>>
  BY Zenon DEF CatchUp
<1>2. ASSUME NEW h PROVE given(h) = [rows EXCEPT ![w] = GivenRows(w, ks, h)]
  BY DEF GivenRows
<1> HIDE DEF given, x, w, a, ks
<1>3. ASSUME Whole1, Len(ks) \in Nat PROVE \E n, h, g, y : CaughtUp(r, x, w, a, ks, n, h, g, y)
  <2>1. PICK n, g, y : n = Len(ks) /\ g = given(n) /\ y = on
    OBVIOUS
  <2>2. CaughtUp(r, x, w, a, ks, n, n, g, y)
    <3>1. n \in 0 .. Len(ks) /\ n \in 0 .. n
      BY <1>3, <2>1
    <3>2. accepts(n) /\ g = [rows EXCEPT ![w] = GivenRows(w, ks, n)] /\ rows' = g
      BY <1>2, <1>3, <2>1
    <3>3. y = [x EXCEPT !.at = "send", !.answer = None, !.caught = TRUE] /\ run' = [run EXCEPT ![r] = y]
      BY <1>3, <2>1
    <3> QED BY <3>1, <3>2, <3>3 DEF CaughtUp
  <2> QED BY <2>2
<1>4. ASSUME NEW n \in 0 .. Len(ks), NEW h \in 0 .. Len(ks) - 1, Half(n, h),
             run' = [run EXCEPT ![r] = off], Len(ks) \in Nat
      PROVE  \E m, l, g, y : CaughtUp(r, x, w, a, ks, m, l, g, y)
  <2>1. h \in 0 .. n
    <3>1. h \in {n - 1, n} /\ Len(ks) \in Nat
      BY <1>4
    <3> HIDE DEF Half, off
    <3> QED BY <3>1
  <2>2. PICK g, y : g = given(h) /\ y = off
    OBVIOUS
  <2>3. rows' = g \/ (~Moved(w, a) /\ rows' = Again(g, w, a.k))
    <3>1. rows' = IF Moved(w, a) THEN given(h) ELSE Again(given(h), w, a.k)
      BY <1>4 DEF Again
    <3> HIDE DEF Half, off
    <3> QED BY <2>2, <3>1
  <2>4. accepts(n) /\ g = [rows EXCEPT ![w] = GivenRows(w, ks, h)]
    BY <1>2, <1>4, <2>2
  <2>5. CaughtUp(r, x, w, a, ks, n, h, g, y)
    BY <1>4, <2>1, <2>2, <2>3, <2>4 DEF CaughtUp
  <2> QED BY <2>5
<1> HIDE DEF Whole1, Half, off
<1>5. \/ Fails(r, x, w, a) /\ UNCHANGED <<tip, took>>
      \/ /\ ks # << 0 >> /\ tip[w] = a.tip
         /\ Len(ks) \in Nat => \E n, h, g, y : CaughtUp(r, x, w, a, ks, n, h, g, y)
  BY <1>1, <1>3, <1>4
<1> QED BY <1>5 DEF x, w, a, ks

LEMMA CaughtUpDelivers ==
    ASSUME RInv, DInv, NEW r \in Runners, NEW x, x = run[r], x.at = "record",
           NEW w, w = Head(x.todo), NEW a, a = x.answer, tip[w] = a.tip,
           NEW ks, Len(ks) \in Nat,
           \A i \in 1 .. Len(ks) : ks[i] \in DOMAIN cuts /\ ks[i] < a.k,
           UNCHANGED <<layout, configs, cuts, receipts>>,
           NEW n, NEW h, NEW all, NEW y, CaughtUp(r, x, w, a, ks, n, h, all, y)
    PROVE  DInv'
<1>1. /\ layout = "stores" /\ x.at \notin Out /\ DeliversOk(x) /\ Ready(x) /\ x.todo # <<>>
      /\ w \in Witnesses /\ QueueOk(x.queue[w])
      /\ rows = [v \in Witnesses |-> rows[v]] /\ DOMAIN rows[w] = DOMAIN cuts
      /\ took = [v \in Witnesses |-> took[v]]
      /\ Len(cuts) \in Nat /\ DOMAIN cuts = 1 .. Len(cuts)
  BY PassIsAt
<1>2. a.k \in DOMAIN cuts /\ (~Moved(w, a) => rows[w][a.k].st = "open")
  BY <1>1, AnswerIsOf
<1>3. n \in 0 .. Len(ks) /\ h \in 0 .. n
  BY DEF CaughtUp
<1>4. PICK t, more : /\ t = (IF n = 0 THEN a.tip ELSE cuts[ks[n]].leaves)
                     /\ more = {cuts[ks[i]].leaves : i \in 1 .. n}
  OBVIOUS
<1>5. t \in more \cup {tip[w]}
  <2>1. n # 0 => n \in 1 .. n
    BY <1>3
  <2> QED BY <1>4, <2>1
<1>6. took' = [took EXCEPT ![w] = @ \cup more] /\ tip' = [tip EXCEPT ![w] = t]
  BY <1>4 DEF CaughtUp
<1>7. more \subseteq took'[w]
  BY <1>1, <1>6
<1>8. PICK g : g = GivenRows(w, ks, h)
  OBVIOUS
<1>9. /\ g = [k \in DOMAIN rows[w] |-> g[k]]
      /\ \A k \in DOMAIN rows[w] :
            \/ g[k] = rows[w][k]
            \/ /\ rows[w][k].st = "open" /\ cuts[k].leaves \in took'[w]
               /\ g[k] = Attempted(rows[w][k], "receipt")
      /\ \A k \in DOMAIN rows[w] : (\A i \in 1 .. h : ks[i] # k) => g[k] = rows[w][k]
  <2>1. \A i \in 1 .. h : cuts[ks[i]].leaves \in took'[w]
    <3>1. \A i \in 1 .. h : i \in 1 .. n
      BY <1>3
    <3> QED BY <1>4, <1>7, <3>1
  <2>2. PICK taken : taken = took'[w]
    OBVIOUS
  <2>3. \A i \in 1 .. h : cuts[ks[i]].leaves \in taken
    BY Zenon, <2>1, <2>2
  <2>4. /\ GivenRows(w, ks, h) = [k \in DOMAIN rows[w] |-> GivenRows(w, ks, h)[k]]
        /\ \A k \in DOMAIN rows[w] :
              \/ GivenRows(w, ks, h)[k] = rows[w][k]
              \/ /\ rows[w][k].st = "open" /\ cuts[k].leaves \in taken
                 /\ GivenRows(w, ks, h)[k] = Attempted(rows[w][k], "receipt")
        /\ \A k \in DOMAIN rows[w] :
              (\A i \in 1 .. h : ks[i] # k) => GivenRows(w, ks, h)[k] = rows[w][k]
    BY Zenon, <2>3 DEF GivenRows
  <2> QED BY <1>8, <2>2, <2>4
<1>10. \E f : Sent(w, f)
  <2>1. CASE rows' = [rows EXCEPT ![w] = g]
    <3>1. Sent(w, g)
      BY Zenon, <1>9, <2>1 DEF Sent
    <3> QED BY Zenon, <3>1
  <2>2. CASE /\ ~Moved(w, a)
             /\ rows' = Again(all, w, a.k)
             /\ all = [rows EXCEPT ![w] = g]
    <3>1. PICK k : k = a.k
      OBVIOUS
    <3>2. k \in DOMAIN rows[w] /\ rows[w][k].st = "open"
      BY Zenon, <1>1, <1>2, <2>2, <3>1
    <3>3. g[k] = rows[w][k]
      <4>1. k \in Nat /\ \A i \in 1 .. h : i \in 1 .. Len(ks)
        BY <1>1, <1>2, <1>3, <3>1
      <4>2. \A i \in 1 .. h : ks[i] \in Nat /\ ks[i] < k
        BY <1>1, <3>1, <4>1
      <4>3. \A i \in 1 .. h : ks[i] # k
        BY <4>1, <4>2
      <4> QED BY <1>9, <3>2, <4>3
    <3> DEFINE f == [g EXCEPT ![k] = Attempted(rows[w][k], "open")]
    <3>4. rows' = [rows EXCEPT ![w] = f]
      <4>1. all = [v \in Witnesses |-> all[v]] /\ all[w] = g
            /\ \A v \in Witnesses \ {w} : all[v] = rows[v]
        BY <1>1, <2>2
      <4>2. rows' = [all EXCEPT ![w] = [g EXCEPT ![k] = Attempted(g[k], "open")]]
        BY <2>2, <3>1, <4>1 DEF Again
      <4>3. rows' = [all EXCEPT ![w] = f]
        BY <3>3, <4>2
      <4> HIDE DEF f
      <4> QED BY <1>1, <4>1, <4>3
    <3>5. /\ f = [j \in DOMAIN rows[w] |-> f[j]] /\ f[k] = Attempted(rows[w][k], "open")
          /\ \A j \in DOMAIN rows[w] : j # k => f[j] = g[j]
      BY Zenon, <1>9, <3>2
    <3> HIDE DEF f
    <3>6. ASSUME NEW j \in DOMAIN rows[w]
          PROVE  \/ f[j] = rows[w][j]
                 \/ /\ rows[w][j].st = "open"
                    /\ \/ f[j] = Attempted(rows[w][j], "open")
                       \/ f[j] = Attempted(rows[w][j], "receipt") /\ cuts[j].leaves \in took'[w]
      BY ZenonT(30), <1>9, <3>2, <3>5
    <3>7. Sent(w, f)
      BY Zenon, <3>4, <3>5, <3>6 DEF Sent
    <3> QED BY <3>7
  <2> QED BY <1>8, <2>1, <2>2 DEF CaughtUp
<1>11. PICK f : Sent(w, f)
  BY <1>10
<1>12. Begins(x, y)
  <2>1. CASE y = [x EXCEPT !.at = "send", !.answer = None, !.caught = TRUE]
    <3>1. /\ IsState(y) /\ y.urls = x.urls /\ y.last = x.last /\ y.queue = x.queue
          /\ y.given = x.given /\ y.todo = x.todo /\ y.at = "send"
      BY <1>1, <2>1 DEF Ready, IsState, Fields
    <3> QED BY <1>1, <3>1 DEF Begins, Ready, Sending
  <2>2. CASE y = Leaves([x EXCEPT !.caught = TRUE])
    <3>1. PICK z : z = [x EXCEPT !.caught = TRUE]
      OBVIOUS
    <3>2. /\ Ready(z) /\ z.urls = x.urls /\ z.last = x.last /\ z.queue = x.queue
          /\ z.todo = x.todo
      BY <1>1, <3>1 DEF Ready, IsState, Fields
    <3>3. Begins(z, y)
      BY <1>1, <2>2, <3>1, <3>2, LeavesBegins
    <3> QED BY <3>2, <3>3 DEF Begins
  <2> QED BY <2>1, <2>2 DEF CaughtUp
<1>13. run' = [run EXCEPT ![r] = y]
  BY DEF CaughtUp
<1>14. Catching(r, x, w, f, t, more, y)
  BY <1>5, <1>6, <1>11, <1>12, <1>13 DEF Catching
<1> QED BY <1>14, CatchingDelivers

LEMMA CatchUpDelivers ==
    ASSUME RInv, DInv, NEW r \in Runners, CatchUp(r)
    PROVE  DInv'
<1>1. PICK x, w, a : x = run[r] /\ w = Head(x.todo) /\ a = x.answer
  OBVIOUS
<1>2. PICK ks : ks = MissedCuts(x, a.tip, a.k)
  BY Zenon
<1>3. /\ x.at = "record" /\ Behind(a)
      /\ UNCHANGED <<layout, configs, cuts, receipts>>
  BY Zenon, <1>1 DEF CatchUp, Untouched
<1>4. DeliversOk(x) /\ QueueOk(x.queue[w]) /\ layout = "stores"
  BY <1>1, <1>3, PassIsAt
<1>5. a.k \in DOMAIN cuts
  BY <1>1, <1>3, <1>4, AnswerIsOf
<1>6. ks # << 0 >> => /\ Len(ks) \in Nat
                    /\ \A i \in 1 .. Len(ks) : ks[i] \in DOMAIN cuts /\ ks[i] < a.k
  <2>1. PICK t, k : t = a.tip /\ k = a.k
    OBVIOUS
  <2>2. CutsInv /\ k \in DOMAIN cuts /\ ks = MissedCuts(x, t, k) /\ Len(t) < Len(cuts[k].leaves)
    BY <1>2, <1>3, <1>5, <2>1 DEF RInv, Behind
  <2> QED BY <1>4, <2>1, <2>2, MissedIs
<1>7. \/ Fails(r, x, w, a) /\ UNCHANGED <<tip, took>>
      \/ /\ ks # << 0 >> /\ tip[w] = a.tip
         /\ Len(ks) \in Nat => \E n, h, g, y : CaughtUp(r, x, w, a, ks, n, h, g, y)
  BY <1>1, <1>2, CatchUpIs
<1>8. CASE Fails(r, x, w, a) /\ UNCHANGED <<tip, took>>
  BY <1>1, <1>3, <1>8, FailsDelivers
<1>9. CASE /\ ks # << 0 >> /\ tip[w] = a.tip
           /\ Len(ks) \in Nat => \E n, h, g, y : CaughtUp(r, x, w, a, ks, n, h, g, y)
  <2>1. PICK n, h, g, y : CaughtUp(r, x, w, a, ks, n, h, g, y)
    BY <1>6, <1>9
  <2> QED BY <1>1, <1>3, <1>6, <1>9, <2>1, CaughtUpDelivers
<1> QED BY <1>7, <1>8, <1>9

-----------------------------------------------------------------------------
(* Every step.                                                              *)

LEMMA NextDelivers ==
    ASSUME RInv, DInv, [Next]_vars
    PROVE  DInv'
<1>1. CASE (LedgerNext /\ OnlyLedger) \/ Rewrite \/ UNCHANGED vars
  BY <1>1, LedgerDelivers
<1>2. ASSUME NEW r \in Runners, LoadFlat(r) \/ LoadLog(r) PROVE DInv'
  BY <1>2, LoadDelivers
<1>3. ASSUME NEW r \in Runners, Tick(r) \/ Push(r) \/ Reconnect(r) PROVE DInv'
  BY <1>3, TickDelivers
<1>4. ASSUME NEW r \in Runners, Pad(r) \/ Fold(r) PROVE DInv'
  BY <1>4, PadDelivers, FoldDelivers
<1>5. ASSUME NEW r \in Runners, CommitFlat(r) \/ CommitStores(r) PROVE DInv'
  BY <1>5, CommitFlatDelivers, CommitStoresDelivers
<1>6. ASSUME NEW r \in Runners, Offer(r) PROVE DInv'
  BY <1>6, OfferDelivers
<1>7. ASSUME NEW r \in Runners, Deliver(r) PROVE DInv'
  BY <1>7, SkipDelivers, SubmitDelivers, RecordReceiptDelivers, RecordFailureDelivers,
     CloseAheadDelivers, CatchUpDelivers DEF Deliver
<1>8. ASSUME NEW r \in Runners, Crash(r) PROVE DInv'
  BY <1>8, CrashDelivers
<1>9. ASSUME NEW w \in Witnesses, Hold(w) PROVE DInv'
  BY <1>9, HoldDelivers
<1> QED BY <1>1, <1>2, <1>3, <1>4, <1>5, <1>6, <1>7, <1>8, <1>9 DEF Next

LEMMA DeliveryFollows ==
    ASSUME DInv
    PROVE  DeliveryIsAccounted
<1>1. ASSUME NEW r \in Runners, NEW x, x = run[r], layout = "stores", x.at \notin Out, x.last = Latest,
             NEW w \in ToSet(x.urls)
      PROVE  /\ \A k \in DOMAIN cuts :
                   \/ k \in ToSet(x.queue[w]) \/ rows[w][k] = NoRow
                   \/ \E c \in k .. Len(cuts) : rows[w][c].st \in {"receipt", "ahead"}
             /\ \A i, j \in DOMAIN x.queue[w] : i < j => x.queue[w][i] < x.queue[w][j]
  <2>1. DeliversOk(x)
    BY <1>1 DEF DInv, RunsDeliver
  <2>2. \A k \in DOMAIN cuts : Accounted(x.queue[w], w, k)
    BY <1>1, <2>1 DEF DeliversOk
  <2>3. QueueOk(x.queue[w])
    <3>1. w \in Witnesses
      BY <1>1, <2>1 DEF DeliversOk, ToSet
    <3> QED BY <2>1, <3>1 DEF DeliversOk
  <2> QED BY <2>2, <2>3 DEF Accounted, Closed1, QueueOk
<1>2. NothingUndelivered
  BY <1>1 DEF NothingUndelivered, Out
<1> QED BY <1>2 DEF DInv, DeliveryIsAccounted

-----------------------------------------------------------------------------
(* The theorem.                                                             *)

\* Whatever a Rust node's witnesses answer, and wherever its processes die, a
\* receipt on record is of a checkpoint that witness accepted, a row closed
\* without one is of a cut at or before such a checkpoint, and a runner at the
\* latest checkpoint has every row still owed to one of its witnesses in that
\* witness's queue, oldest first (RowDelivery::run(), close_ahead(), catch_up(),
\* undelivered(), register_with()).
THEOREM DeliveryStaysAccounted == Spec => []DeliveryIsAccounted
<1>1. Init => DInv
  BY InitDelivers
<1>2. RInv /\ DInv /\ [Next]_vars => DInv'
  BY NextDelivers
<1>3. DInv => DeliveryIsAccounted
  BY DeliveryFollows
<1> QED BY <1>1, <1>2, <1>3, Inductive, PTL DEF Spec
=============================================================================
