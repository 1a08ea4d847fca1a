---------------------------- MODULE AdapterProofs ----------------------------
(***************************************************************************)
(* Proofs about the adapters, for any number of calls, turns, handshakes,  *)
(* threads and ledgers.                                                    *)
(*                                                                         *)
(* Egress (EgressInv): the channels of a seal were allowed when its record *)
(* was appended (SealLawful); submissions go only after the notice was     *)
(* claimed (NoticeTaken), and until it is printed a thread that has sent   *)
(* nothing is about to print it (NoticeInv).                               *)
(*                                                                         *)
(* Chains of a turn (ChainsInv): what the recorder keeps as the last       *)
(* capsule of a turn is the last in the ledger (TipIsLast); and nothing is *)
(* sealed after a close.                                                   *)
(*                                                                         *)
(* Handshakes (BilateralInv): a signature under a move is of the party and *)
(* the handshake it says, and that party made it (HeldWasMeant); a capsule *)
(* about an outcome follows up the request's, which was sealed first.      *)
(*                                                                         *)
(* Records (SealingInv): a record that is built and not yet appended has   *)
(* one thread, its parent is in its ledger already and no other thread can *)
(* bring its target there (Fits), so it still stands right when it is      *)
(* appended.  Two members of slots are bound, as the model has it.         *)
(*                                                                         *)
(* Citations and outcomes (AttachedInv): one invariant for each adapter,   *)
(* of which the adapter attached is the one that counts.  They share what  *)
(* a table of open plans is: an entry names a capsule of its own call that *)
(* no capsule cites yet (Pairs), and a call that ended has its outcome or  *)
(* lost it (Recorded).  What is left of a table after an eviction, a       *)
(* removal or an assignment is the subject of the lemmas about tables.     *)
(***************************************************************************)
EXTENDS Adapters, SequenceTheorems, FiniteSetTheorems, WellFoundedInduction, TLAPS

-----------------------------------------------------------------------------
(* Sequences of anything                                                    *)

IsSeq(seq) == seq \in Seq({seq[i] : i \in DOMAIN seq})

LEMMA SeqIs ==
  ASSUME NEW S, NEW seq \in Seq(S)
  PROVE  IsSeq(seq)
<1>1. /\ Len(seq) \in Nat /\ DOMAIN seq = 1..Len(seq)
      /\ seq = [i \in 1..Len(seq) |-> seq[i]]
  OBVIOUS
<1> QED
  BY <1>1, SeqDef DEF IsSeq

\* next is seq with e after it.
Grown(next, seq, e) ==
    /\ IsSeq(next) /\ Len(seq) \in Nat /\ Len(next) = Len(seq) + 1
    /\ DOMAIN seq = 1..Len(seq)
    /\ DOMAIN next = DOMAIN seq \cup {Len(seq) + 1}
    /\ next[Len(seq) + 1] = e
    /\ \A i \in DOMAIN seq : next[i] = seq[i] /\ i \in Nat /\ i < Len(seq) + 1

LEMMA OneMore ==
  ASSUME NEW seq, IsSeq(seq), NEW e
  PROVE  Grown(Append(seq, e), seq, e)
<1> DEFINE S == {seq[i] : i \in DOMAIN seq} \cup {e}
           next == Append(seq, e)
<1>1. seq \in Seq(S)
  BY DEF IsSeq
<1> HIDE DEF S
<1>2. e \in S
  BY DEF S
<1>3. next \in Seq(S)
  BY <1>1, <1>2
<1>4. IsSeq(next)
  BY <1>3, SeqIs
<1> QED
  BY <1>1, <1>2, <1>4 DEF Grown
Places == {"notice", "print", "witness", "anchor", "track", "wait"}

SealSet ==
    [mode : {"off", "on", "stub", "unnamed"}, anchor : BOOLEAN, require : BOOLEAN, wait : BOOLEAN,
     left : SUBSET {"witness", "anchor"}, witness : {"none", "receipt", "raised", "queued", "local"},
     future : {"none", "running", "accepted", "failed"},
     told : {"nothing", "none", "running", "accepted", "failed", "warned"}]

ProcessSet ==
    [witness : {"off", "on", "stub"}, named : BOOLEAN, production : BOOLEAN, anchor : BOOLEAN,
     notice : {"none", "claimed", "printed"}, ending : BOOLEAN]

EgressType ==
    /\ own1 \in ProcessSet
    /\ own3 \in Seq(SealSet)
    /\ own2 \in [Threads -> {Egress!AtRest} \cup [at : Places, seal : Nat]]
    /\ \A t \in Threads : own2[t].at # "rest" => own2[t].seal \in DOMAIN own3

\* The channels a seal may use are settled when its record is appended.
SealLawful(s) ==
    /\ own3[s].anchor => own1.anchor /\ own3[s].mode # "off"
    /\ "witness" \in own3[s].left => own3[s].mode = "on"
    /\ "anchor" \in own3[s].left => own3[s].anchor
    /\ own3[s].left # {} => own1.notice # "none"

\* Past the notice, whoever has something to send found it taken.
NoticeTaken(t) ==
    own2[t].at \in Places \ {"notice"} =>
        LET s == own2[t].seal
        IN own3[s].mode = "on" \/ own3[s].anchor => own1.notice # "none"

EgressInv ==
    adapter = "egress" =>
        /\ EgressType
        /\ \A s \in DOMAIN own3 : SealLawful(s)
        /\ \A t \in Threads : NoticeTaken(t)
        /\ own1.ending => \A t \in Threads : own2[t] = Egress!AtRest
        /\ Egress!UnansweredIsNotForgotten

LEMMA EgressStarts == Init => EgressInv
<1>1. SUFFICES ASSUME Egress!EgressInit, adapter = "egress"
               PROVE  EgressInv
  BY DEF Init, EgressInv
<1>2. own1 \in ProcessSet /\ ~own1.ending
  BY <1>1 DEF Egress!EgressInit, ProcessSet
<1>3. own3 = <<>> /\ own2 = [t \in Threads |-> Egress!AtRest]
  BY <1>1 DEF Egress!EgressInit
<1> QED
  BY <1>2, <1>3, EmptySeq
     DEF EgressInv, EgressType, NoticeTaken, Egress!UnansweredIsNotForgotten, Egress!AtRest, Places

\* What EgressInv says where the adapter is the package's own way out.
EgressCore ==
    /\ EgressType
    /\ \A s \in DOMAIN own3 : SealLawful(s)
    /\ \A t \in Threads : NoticeTaken(t)
    /\ own1.ending => \A t \in Threads : own2[t] = Egress!AtRest
    /\ Egress!UnansweredIsNotForgotten

NotForgotten(s) ==
    own3[s].future = "running" =>
        \/ s \in own4
        \/ \E u \in Threads : own2[u] = [at |-> "track", seal |-> s]
        \/ own1.ending /\ own3[s].told = "warned"

\* A step of a thread that has no submission to track forgets none.
LEMMA OthersKeepTheirs ==
  ASSUME NEW s, NEW t, NotForgotten(s), own2[t].at # "track",
         \A u \in Threads \ {t} : own2'[u] = own2[u],
         s \in own4 => s \in own4',
         own3'[s].future = "running" => own3[s].future = "running",
         own1.ending /\ own3[s].told = "warned" => own1'.ending /\ own3'[s].told = "warned"
  PROVE  NotForgotten(s)'
  BY DEF NotForgotten

LEMMA AppendedKeeps ==
  ASSUME EgressCore, NEW t \in Threads, NEW explicit \in {"default", "on", "off"},
         NEW require \in BOOLEAN, NEW wait \in BOOLEAN,
         Egress!Appended(t, explicit, require, wait)
  PROVE  EgressCore'
<1>1. own3' \in Seq(SealSet) /\ Len(own3') = Len(own3) + 1
      /\ \A s \in DOMAIN own3 : own3'[s] = own3[s]
  BY DEF EgressCore, EgressType, Egress!Appended, Egress!ModeOf, SealSet, ProcessSet, Egress!AnchorEnabled
<1>2. LET new == own3'[Len(own3) + 1]
      IN new.left = {} /\ new.future = "none" /\ (new.anchor => own1.anchor /\ new.mode # "off")
  <2> DEFINE mode == Egress!ModeOf(explicit)
             new == [mode |-> mode, anchor |-> Egress!AnchorEnabled(mode), require |-> require, wait |-> wait,
                     left |-> {}, witness |-> "none", future |-> "none", told |-> "nothing"]
  <2>1. own3' = Append(own3, new)
    BY DEF Egress!Appended
  <2> HIDE DEF mode
  <2>2. own3'[Len(own3) + 1] = new
    BY <2>1 DEF EgressCore, EgressType
  <2>3. new.left = {} /\ new.future = "none"
    OBVIOUS
  <2>4. new.anchor => own1.anchor /\ mode # "off"
    BY Zenon DEF Egress!AnchorEnabled
  <2>5. new.mode = mode
    OBVIOUS
  <2> QED
    BY <2>2, <2>3, <2>4, <2>5
<1>3. own1' = own1 /\ own4' = own4 /\ ~own1.ending
  BY DEF Egress!Appended
<1>4. /\ own2' \in [Threads -> {Egress!AtRest} \cup [at : Places, seal : Nat]]
      /\ own2' = [own2 EXCEPT ![t] = [at |-> "notice", seal |-> Len(own3) + 1]]
  BY DEF EgressCore, EgressType, Egress!Appended, Places
<1>5. DOMAIN own3' = DOMAIN own3 \cup {Len(own3) + 1}
  BY <1>1 DEF EgressCore, EgressType
<1>6. EgressType'
  BY <1>1, <1>3, <1>4, <1>5 DEF EgressCore, EgressType
<1>7. (\A s \in DOMAIN own3 : SealLawful(s))'
  BY <1>1, <1>2, <1>3, <1>5 DEF EgressCore, SealLawful
<1>8. (\A u \in Threads : NoticeTaken(u))'
  BY <1>1, <1>3, <1>4, <1>5 DEF EgressCore, NoticeTaken, Places, EgressType, Egress!AtRest
<1>9. Egress!UnansweredIsNotForgotten'
  <2> SUFFICES ASSUME NEW s \in DOMAIN own3' PROVE NotForgotten(s)'
    BY DEF NotForgotten, Egress!UnansweredIsNotForgotten
  <2>1. CASE s \in DOMAIN own3
    <3>1. NotForgotten(s)
      BY <2>1 DEF NotForgotten, EgressCore, Egress!UnansweredIsNotForgotten
    <3>2. own2[t].at # "track" /\ \A u \in Threads \ {t} : own2'[u] = own2[u]
      BY <1>4 DEF Egress!Appended, Egress!AtRest, EgressCore, EgressType
    <3> QED
      BY <2>1, <3>1, <3>2, <1>1, <1>3, OthersKeepTheirs
  <2>2. CASE s = Len(own3) + 1
    BY <2>2, <1>2 DEF NotForgotten
  <2> QED
    BY <2>1, <2>2, <1>5
<1> QED
  BY <1>3, <1>6, <1>7, <1>8, <1>9 DEF EgressCore

LEMMA FirstRunDisclosureKeeps ==
  ASSUME EgressCore, NEW t \in Threads, Egress!FirstRunDisclosure(t)
  PROVE  EgressCore'
<1>1. own3' = own3 /\ own4' = own4 /\ own2[t].at = "notice"
  BY DEF Egress!FirstRunDisclosure
<1>2. PICK next \in {"print", "witness"} :
          /\ own2' = [own2 EXCEPT ![t].at = next]
          /\ \/ own1' = [own1 EXCEPT !.notice = "claimed"]
             \/ own1' = own1 /\ (own3[own2[t].seal].mode = "on" \/ own3[own2[t].seal].anchor => own1.notice # "none")
  BY DEF Egress!FirstRunDisclosure, Egress!Move, Egress!SealOf
<1>3. own1' \in ProcessSet /\ (own1'.notice = "none" => own1.notice = "none") /\ own1'.anchor = own1.anchor /\ own1'.ending = own1.ending
  BY <1>2 DEF EgressCore, EgressType, ProcessSet
<1>4. own2[t] \in [at : Places, seal : Nat] /\ ~own1.ending
  BY <1>1 DEF EgressCore, EgressType, Egress!AtRest
<1>5. /\ own2' \in [Threads -> {Egress!AtRest} \cup [at : Places, seal : Nat]]
      /\ own2'[t].seal = own2[t].seal /\ own2'[t].at = next
      /\ \A u \in Threads \ {t} : own2'[u] = own2[u]
  BY <1>2, <1>4 DEF EgressCore, EgressType, Places
<1>6. EgressType'
  BY <1>1, <1>3, <1>4, <1>5 DEF EgressCore, EgressType, Egress!AtRest
<1>7. (\A s \in DOMAIN own3 : SealLawful(s))'
  BY <1>1, <1>3 DEF EgressCore, SealLawful
<1>8. (\A u \in Threads : NoticeTaken(u))'
  BY <1>1, <1>2, <1>3, <1>5 DEF EgressCore, NoticeTaken, Places, EgressType, ProcessSet
<1>9. Egress!UnansweredIsNotForgotten'
  <2> SUFFICES ASSUME NEW s \in DOMAIN own3 PROVE NotForgotten(s)'
    BY <1>1 DEF NotForgotten, Egress!UnansweredIsNotForgotten
  <2> NotForgotten(s)
    BY DEF NotForgotten, EgressCore, Egress!UnansweredIsNotForgotten
  <2> QED
    BY <1>1, <1>3, <1>5, OthersKeepTheirs
<1> QED
  BY <1>3, <1>4, <1>6, <1>7, <1>8, <1>9 DEF EgressCore

LEMMA PrintDisclosureKeeps ==
  ASSUME EgressCore, NEW t \in Threads, Egress!PrintDisclosure(t)
  PROVE  EgressCore'
<1>1. /\ own3' = own3 /\ own4' = own4 /\ own2[t].at = "print"
      /\ own1' = [own1 EXCEPT !.notice = "printed"]
      /\ own2' = [own2 EXCEPT ![t].at = "witness"]
  BY DEF Egress!PrintDisclosure, Egress!Move
<1>2. /\ own1' \in ProcessSet /\ own1'.notice = "printed"
      /\ own1'.anchor = own1.anchor /\ own1'.ending = own1.ending
  BY <1>1 DEF EgressCore, EgressType, ProcessSet
<1>3. own2[t] \in [at : Places, seal : Nat] /\ ~own1.ending
  BY <1>1 DEF EgressCore, EgressType, Egress!AtRest
<1>4. /\ own2' \in [Threads -> {Egress!AtRest} \cup [at : Places, seal : Nat]]
      /\ own2'[t].seal = own2[t].seal
      /\ \A u \in Threads \ {t} : own2'[u] = own2[u]
  BY <1>1, <1>3 DEF EgressCore, EgressType, Places
<1>5. EgressType'
  BY <1>1, <1>2, <1>3, <1>4 DEF EgressCore, EgressType, Egress!AtRest
<1>6. (\A s \in DOMAIN own3 : SealLawful(s))'
  BY <1>1, <1>2 DEF EgressCore, SealLawful
<1>7. (\A u \in Threads : NoticeTaken(u))'
  BY <1>2 DEF NoticeTaken
<1>8. Egress!UnansweredIsNotForgotten'
  <2> SUFFICES ASSUME NEW s \in DOMAIN own3 PROVE NotForgotten(s)'
    BY <1>1 DEF NotForgotten, Egress!UnansweredIsNotForgotten
  <2> NotForgotten(s)
    BY DEF NotForgotten, EgressCore, Egress!UnansweredIsNotForgotten
  <2> QED
    BY <1>1, <1>2, <1>4, OthersKeepTheirs
<1> QED
  BY <1>2, <1>3, <1>5, <1>6, <1>7, <1>8 DEF EgressCore

\* Writing one seal of a sequence of them.
LEMMA SealWritten ==
  ASSUME NEW S, NEW seq \in Seq(S), NEW s \in DOMAIN seq, NEW new \in S, NEW next,
         next = [seq EXCEPT ![s] = new]
  PROVE  /\ next \in Seq(S) /\ DOMAIN next = DOMAIN seq /\ next[s] = new
         /\ \A r \in DOMAIN seq \ {s} : next[r] = seq[r]
  OBVIOUS

\* Two seals that differ in no more than what became of them.
Alike(x, y) == x.mode = y.mode /\ x.anchor = y.anchor /\ x.future = y.future /\ x.told = y.told

\* next is the sequence seq of seals with seal s written, whose channels are
\* now left.
Written(next, seq, s, left) ==
    /\ next \in Seq(SealSet) /\ DOMAIN next = DOMAIN seq
    /\ \A r \in DOMAIN seq \ {s} : next[r] = seq[r]
    /\ Alike(next[s], seq[s]) /\ next[s].left = left

\* A channel noted in a seal ...
LEMMA LeftNoted ==
  ASSUME NEW seq \in Seq(SealSet), NEW s \in DOMAIN seq, NEW channel \in {"witness", "anchor"}
  PROVE  Written([seq EXCEPT ![s].left = @ \cup {channel}], seq, s, seq[s].left \cup {channel})
<1> DEFINE next == [seq EXCEPT ![s].left = @ \cup {channel}]
<1>1. seq[s] \in SealSet
  OBVIOUS
<1>2. PICK new : new = [seq[s] EXCEPT !.left = @ \cup {channel}]
  OBVIOUS
<1>3. new \in SealSet /\ Alike(new, seq[s]) /\ new.left = seq[s].left \cup {channel}
  BY <1>1, <1>2 DEF SealSet, Alike
<1>4. next = [seq EXCEPT ![s] = new]
  BY <1>2
<1> HIDE DEF next
<1>5. /\ next \in Seq(SealSet) /\ DOMAIN next = DOMAIN seq /\ next[s] = new
      /\ \A r \in DOMAIN seq \ {s} : next[r] = seq[r]
  BY <1>3, <1>4, SealWritten
<1> QED
  BY <1>3, <1>5 DEF next, Written

\* ... and how its witness stands.
LEMMA WitnessNoted ==
  ASSUME NEW seq \in Seq(SealSet), NEW s \in DOMAIN seq,
         NEW stands \in {"receipt", "raised", "queued", "local"}
  PROVE  Written([seq EXCEPT ![s].witness = stands], seq, s, seq[s].left)
<1> DEFINE next == [seq EXCEPT ![s].witness = stands]
<1>1. seq[s] \in SealSet
  OBVIOUS
<1>2. PICK new : new = [seq[s] EXCEPT !.witness = stands]
  OBVIOUS
<1>3. new \in SealSet /\ Alike(new, seq[s]) /\ new.left = seq[s].left
  BY <1>1, <1>2 DEF SealSet, Alike
<1>4. next = [seq EXCEPT ![s] = new]
  BY <1>2
<1> HIDE DEF next
<1>5. /\ next \in Seq(SealSet) /\ DOMAIN next = DOMAIN seq /\ next[s] = new
      /\ \A r \in DOMAIN seq \ {s} : next[r] = seq[r]
  BY <1>3, <1>4, SealWritten
<1> QED
  BY <1>3, <1>5 DEF next, Written

\* A step of thread t that leaves the process as it is and writes its own
\* seal s at most, moving on to another place with it or coming to rest.
MovesOn(t, s, places) ==
    /\ own1' = own1 /\ own4' = own4
    /\ own3' \in Seq(SealSet) /\ DOMAIN own3' = DOMAIN own3
    /\ own3'[s].mode = own3[s].mode /\ own3'[s].anchor = own3[s].anchor
    /\ SealLawful(s)'
    /\ \A r \in DOMAIN own3 \ {s} : own3'[r] = own3[r]
    /\ \A u \in Threads \ {t} : own2'[u] = own2[u]
    /\ own2' = [u \in Threads |-> own2'[u]]
    /\ own2'[t] \in {Egress!AtRest} \cup [at : places, seal : {s}]

LEMMA MovesOnKeeps ==
  ASSUME EgressCore, NEW t \in Threads, own2[t].at \in Places \ {"notice", "track"},
         NEW s, s = own2[t].seal, MovesOn(t, s, {"anchor", "track", "wait"}),
         NotForgotten(s)'
  PROVE  EgressCore'
<1>1. s \in DOMAIN own3 /\ s \in Nat /\ ~own1.ending
  BY DEF EgressCore, EgressType, Egress!AtRest, Places
<1>2. EgressType'
  <2>1. \A u \in Threads : own2'[u] \in {Egress!AtRest} \cup [at : Places, seal : Nat]
    BY <1>1 DEF EgressCore, EgressType, MovesOn, Places
  <2>2. \A u \in Threads : own2'[u].at # "rest" => own2'[u].seal \in DOMAIN own3
    BY <1>1 DEF EgressCore, EgressType, MovesOn, Egress!AtRest
  <2> QED
    BY <2>1, <2>2 DEF EgressCore, EgressType, MovesOn
<1>3. (\A r \in DOMAIN own3 : SealLawful(r))'
  <2> SUFFICES ASSUME NEW r \in DOMAIN own3 PROVE SealLawful(r)'
    BY DEF MovesOn
  <2>1. CASE r # s
    BY <2>1 DEF EgressCore, SealLawful, MovesOn
  <2> QED
    BY <2>1 DEF MovesOn
<1>4. (\A u \in Threads : NoticeTaken(u))'
  <2> SUFFICES ASSUME NEW u \in Threads, own2'[u].at \in Places \ {"notice"}
               PROVE  NoticeTaken(u)'
    BY DEF NoticeTaken
  <2>1. CASE u = t
    BY <2>1, <1>1 DEF EgressCore, NoticeTaken, MovesOn, Egress!AtRest, Places
  <2>2. CASE u # t
    <3>1. own2'[u] = own2[u] /\ own1' = own1 /\ NoticeTaken(u)
      BY <2>2 DEF EgressCore, MovesOn
    <3>2. own2[u].seal \in DOMAIN own3
      BY <3>1 DEF EgressCore, EgressType, Egress!AtRest, Places
    <3>3. own3'[own2[u].seal].mode = own3[own2[u].seal].mode
          /\ own3'[own2[u].seal].anchor = own3[own2[u].seal].anchor
      BY <3>2 DEF MovesOn
    <3> QED
      BY <3>1, <3>3 DEF NoticeTaken
  <2> QED
    BY <2>1, <2>2
<1>5. Egress!UnansweredIsNotForgotten'
  <2> SUFFICES ASSUME NEW r \in DOMAIN own3 PROVE NotForgotten(r)'
    BY DEF NotForgotten, Egress!UnansweredIsNotForgotten, MovesOn
  <2>1. CASE r # s
    <3>1. NotForgotten(r) /\ own2[t].at # "track"
      BY DEF NotForgotten, EgressCore, Egress!UnansweredIsNotForgotten
    <3>2. own3'[r] = own3[r] /\ own1' = own1 /\ own4' = own4
          /\ \A u \in Threads \ {t} : own2'[u] = own2[u]
      BY <2>1 DEF MovesOn
    <3> QED
      BY <3>1, <3>2, OthersKeepTheirs
  <2> QED
    BY <2>1
<1> QED
  BY <1>1, <1>2, <1>3, <1>4, <1>5 DEF EgressCore, MovesOn

\* The step at the witness: on a witness that is asked, it leaves by it.
WitnessStep(s, leaves, stands) ==
    own3' = [IF leaves THEN Egress!Leaves(s, "witness") ELSE own3 EXCEPT ![s].witness = stands]

LEMMA WitnessStepIs ==
  ASSUME own3 \in Seq(SealSet), NEW s \in DOMAIN own3, NEW leaves \in BOOLEAN,
         NEW stands \in {"receipt", "raised", "queued", "local"}, WitnessStep(s, leaves, stands)
  PROVE  /\ own3' \in Seq(SealSet) /\ DOMAIN own3' = DOMAIN own3
         /\ \A r \in DOMAIN own3 \ {s} : own3'[r] = own3[r]
         /\ Alike(own3'[s], own3[s])
         /\ own3'[s].left \subseteq own3[s].left \cup (IF leaves THEN {"witness"} ELSE {})
<1>1. CASE leaves
  <2> DEFINE mid == Egress!Leaves(s, "witness")
  <2>1. mid = [own3 EXCEPT ![s].left = @ \cup {"witness"}]
    BY DEF Egress!Leaves
  <2>2. own3' = [mid EXCEPT ![s].witness = stands]
    BY <1>1 DEF WitnessStep
  <2> HIDE DEF mid
  <2>3. Written(mid, own3, s, own3[s].left \cup {"witness"})
    BY <2>1, LeftNoted
  <2>4. mid \in Seq(SealSet) /\ s \in DOMAIN mid
    BY <2>3 DEF Written
  <2>5. Written([mid EXCEPT ![s].witness = stands], mid, s, mid[s].left)
    BY <2>4, WitnessNoted
  <2>6. Written(own3', mid, s, mid[s].left)
    BY <2>2, <2>5
  <2> QED
    BY <1>1, <2>3, <2>6 DEF Alike, Written
<1>2. CASE ~leaves
  <2>1. own3' = [own3 EXCEPT ![s].witness = stands]
    BY <1>2 DEF WitnessStep
  <2>2. Written([own3 EXCEPT ![s].witness = stands], own3, s, own3[s].left)
    BY WitnessNoted
  <2> QED
    BY <2>1, <2>2, <1>2 DEF Written
<1> QED
  BY <1>1, <1>2

LEMMA AtWitnessKeeps ==
  ASSUME EgressCore, NEW t \in Threads, own2[t].at = "witness", NEW s, s = own2[t].seal,
         NEW leaves \in BOOLEAN, leaves => own3[s].mode = "on",
         NEW stands \in {"receipt", "raised", "queued", "local"}, WitnessStep(s, leaves, stands),
         own1' = own1, own4' = own4,
         \/ own2' = [own2 EXCEPT ![t].at = "anchor"]
         \/ own2' = [own2 EXCEPT ![t] = Egress!AtRest]
  PROVE  EgressCore'
<1>1. own2[t] \in [at : Places, seal : Nat] /\ s \in DOMAIN own3 /\ s \in Nat /\ own3 \in Seq(SealSet)
  BY DEF EgressCore, EgressType, Egress!AtRest
<1>2. own3[s] \in SealSet /\ SealLawful(s) /\ NotForgotten(s) /\ (own3[s].mode = "on" => own1.notice # "none")
  BY <1>1 DEF EgressCore, NotForgotten, Egress!UnansweredIsNotForgotten, NoticeTaken, Places
<1>3. /\ own3' \in Seq(SealSet) /\ DOMAIN own3' = DOMAIN own3
      /\ \A r \in DOMAIN own3 \ {s} : own3'[r] = own3[r]
      /\ Alike(own3'[s], own3[s])
      /\ own3'[s].left \subseteq own3[s].left \cup (IF leaves THEN {"witness"} ELSE {})
  BY <1>1, WitnessStepIs
<1>4. SealLawful(s)'
  BY <1>2, <1>3 DEF SealLawful, Alike
<1>5. MovesOn(t, s, {"anchor", "track", "wait"})
  BY <1>1, <1>3, <1>4 DEF MovesOn, EgressCore, EgressType, Alike
<1>6. NotForgotten(s)'
  <2>1. \A u \in Threads \ {t} : own2'[u] = own2[u]
    BY <1>5 DEF MovesOn
  <2> QED
    BY <2>1, <1>2, <1>3, OthersKeepTheirs DEF Alike
<1> QED
  BY <1>5, <1>6, MovesOnKeeps DEF Places

LEMMA RequireWitnessKeeps ==
  ASSUME EgressCore, NEW t \in Threads, NEW confirmed \in BOOLEAN,
         Egress!RequireWitness(t, confirmed)
  PROVE  EgressCore'
<1> DEFINE s == own2[t].seal
<1>1. PICK leaves \in BOOLEAN, stands \in {"receipt", "raised"} :
          WitnessStep(s, leaves, stands) /\ (leaves => own3[s].mode = "on")
  BY Zenon DEF Egress!RequireWitness, WitnessStep, Egress!SealOf
<1> QED
  BY <1>1, AtWitnessKeeps DEF Egress!RequireWitness, Egress!Move, Egress!Done

LEMMA MaybeCheckpointKeeps ==
  ASSUME EgressCore, NEW t \in Threads, NEW due \in BOOLEAN,
         Egress!MaybeCheckpoint(t, due)
  PROVE  EgressCore'
<1> DEFINE s == own2[t].seal
<1>1. PICK stands \in {"queued", "local"} :
          WitnessStep(s, due, stands) /\ (due => own3[s].mode = "on")
  BY Zenon DEF Egress!MaybeCheckpoint, WitnessStep, Egress!SealOf
<1> QED
  BY <1>1, AtWitnessKeeps DEF Egress!MaybeCheckpoint, Egress!Move

\* Seals that keep their modes and their channels lawful, threads that stay,
\* move on or come to rest, and a notice that stays as it is.
LEMMA StepKeeps ==
  ASSUME EgressCore,
         own1' \in ProcessSet, own1'.anchor = own1.anchor, own1'.notice = own1.notice,
         own1'.ending => \A u \in Threads : own2'[u] = Egress!AtRest,
         own3' \in Seq(SealSet), DOMAIN own3' = DOMAIN own3,
         \A r \in DOMAIN own3 : own3'[r].mode = own3[r].mode /\ own3'[r].anchor = own3[r].anchor,
         \A r \in DOMAIN own3 : SealLawful(r)',
         own2' = [u \in Threads |-> own2'[u]],
         \A u \in Threads : \/ own2'[u] = own2[u] \/ own2'[u] = Egress!AtRest
                            \/ /\ own2[u].at \in Places \ {"notice"}
                               /\ own2'[u] \in [at : Places \ {"notice"}, seal : {own2[u].seal}],
         \A r \in DOMAIN own3 : NotForgotten(r)'
  PROVE  EgressCore'
<1>1. EgressType'
  <2>1. \A u \in Threads : own2'[u] \in {Egress!AtRest} \cup [at : Places, seal : Nat]
    BY DEF EgressCore, EgressType, Egress!AtRest, Places
  <2>2. \A u \in Threads : own2'[u].at # "rest" => own2'[u].seal \in DOMAIN own3
    BY DEF EgressCore, EgressType, Egress!AtRest, Places
  <2> QED
    BY <2>1, <2>2 DEF EgressType
<1>2. (\A u \in Threads : NoticeTaken(u))'
  <2> SUFFICES ASSUME NEW u \in Threads, own2'[u].at \in Places \ {"notice"}
               PROVE  NoticeTaken(u)'
    BY DEF NoticeTaken
  <2>1. own2'[u].seal = own2[u].seal /\ own2[u].at \in Places \ {"notice"}
    BY DEF Egress!AtRest, Places
  <2>2. own2[u].seal \in DOMAIN own3 /\ NoticeTaken(u)
    BY <2>1 DEF EgressCore, EgressType, Places
  <2>3. own3'[own2[u].seal].mode = own3[own2[u].seal].mode
        /\ own3'[own2[u].seal].anchor = own3[own2[u].seal].anchor
    BY <2>2
  <2> QED
    BY <2>1, <2>2, <2>3 DEF NoticeTaken
<1>3. (\A r \in DOMAIN own3 : SealLawful(r))' /\ Egress!UnansweredIsNotForgotten'
  BY DEF Egress!UnansweredIsNotForgotten, NotForgotten
<1> QED
  BY <1>1, <1>2, <1>3 DEF EgressCore

\* What is noted of the submission: how it stands, or what its caller heard.
LEMMA FutureNoted ==
  ASSUME NEW seq \in Seq(SealSet), NEW s \in DOMAIN seq,
         NEW stands \in {"running", "accepted", "failed"}
  PROVE  LET next == [seq EXCEPT ![s].future = stands]
         IN /\ next \in Seq(SealSet) /\ DOMAIN next = DOMAIN seq
            /\ next[s] = [seq[s] EXCEPT !.future = stands]
            /\ \A r \in DOMAIN seq \ {s} : next[r] = seq[r]
<1>1. seq[s] \in SealSet
  OBVIOUS
<1>2. [seq[s] EXCEPT !.future = stands] \in SealSet
  BY <1>1 DEF SealSet
<1> QED
  BY <1>2

LEMMA ToldNoted ==
  ASSUME NEW seq \in Seq(SealSet), NEW s \in DOMAIN seq,
         NEW told \in {"nothing", "none", "running", "accepted", "failed", "warned"}
  PROVE  LET next == [seq EXCEPT ![s].told = told]
         IN /\ next \in Seq(SealSet) /\ DOMAIN next = DOMAIN seq
            /\ next[s] = [seq[s] EXCEPT !.told = told]
            /\ \A r \in DOMAIN seq \ {s} : next[r] = seq[r]
<1>1. seq[s] \in SealSet
  OBVIOUS
<1>2. [seq[s] EXCEPT !.told = told] \in SealSet
  BY <1>1 DEF SealSet
<1> QED
  BY <1>2

LEMMA SubmitAnchorKeeps ==
  ASSUME EgressCore, NEW t \in Threads, Egress!SubmitAnchor(t)
  PROVE  EgressCore'
<1> PICK s : s = own2[t].seal
  OBVIOUS
<1>1. /\ own2[t].at = "anchor" /\ own1' = own1 /\ own4' = own4
      /\ own2[t] \in [at : Places, seal : Nat] /\ s \in DOMAIN own3 /\ s \in Nat /\ own3 \in Seq(SealSet)
  BY DEF Egress!SubmitAnchor, EgressCore, EgressType, Egress!AtRest
<1>2. own3[s] \in SealSet /\ SealLawful(s) /\ NotForgotten(s) /\ (own3[s].anchor => own1.notice # "none")
  BY <1>1 DEF EgressCore, NotForgotten, Egress!UnansweredIsNotForgotten, NoticeTaken, Places
<1>3. CASE own3[s].anchor
  <2> DEFINE mid == Egress!Leaves(s, "anchor")
  <2>1. Written(mid, own3, s, own3[s].left \cup {"anchor"})
    BY <1>1, LeftNoted DEF Egress!Leaves
  <2>2. own3' = [mid EXCEPT ![s].future = "running"] /\ own2' = [own2 EXCEPT ![t].at = "track"]
    BY <1>3 DEF Egress!SubmitAnchor, Egress!Move, Egress!SealOf
  <2> HIDE DEF mid
  <2>3. mid \in Seq(SealSet) /\ s \in DOMAIN mid
    BY <2>1, <1>1 DEF Written
  <2>4. /\ own3' \in Seq(SealSet) /\ DOMAIN own3' = DOMAIN mid
        /\ own3'[s] = [mid[s] EXCEPT !.future = "running"]
        /\ \A r \in DOMAIN mid \ {s} : own3'[r] = mid[r]
    BY <2>2, <2>3, FutureNoted
  <2>5. own3'[s].mode = own3[s].mode /\ own3'[s].anchor = own3[s].anchor
        /\ own3'[s].left = own3[s].left \cup {"anchor"}
    BY <2>1, <2>3, <2>4 DEF Written, Alike, SealSet
  <2>6. SealLawful(s)'
    BY <2>5, <1>1, <1>2, <1>3 DEF SealLawful
  <2>7. MovesOn(t, s, {"anchor", "track", "wait"})
    BY <1>1, <2>1, <2>2, <2>4, <2>5, <2>6 DEF MovesOn, EgressCore, EgressType, Written
  <2>8. NotForgotten(s)'
    BY <2>2, <1>1 DEF NotForgotten, EgressCore, EgressType
  <2> QED
    BY <1>1, <2>7, <2>8, MovesOnKeeps DEF Places
<1>4. CASE ~own3[s].anchor
  <2>1. own3' = own3 /\ own2' = [own2 EXCEPT ![t] = Egress!AtRest]
    BY <1>4 DEF Egress!SubmitAnchor, Egress!Done, Egress!SealOf
  <2>2. MovesOn(t, s, {"anchor", "track", "wait"})
    BY <1>1, <1>2, <2>1 DEF MovesOn, EgressCore, EgressType, SealLawful
  <2>3. NotForgotten(s)'
    BY <2>1, <1>1, <1>2, OthersKeepTheirs
  <2> QED
    BY <1>1, <2>2, <2>3, MovesOnKeeps DEF Places
<1> QED
  BY <1>3, <1>4

LEMMA TrackPendingAnchorKeeps ==
  ASSUME EgressCore, NEW t \in Threads, Egress!TrackPendingAnchor(t)
  PROVE  EgressCore'
<1> PICK s : s = own2[t].seal
  OBVIOUS
<1>1. /\ own2[t].at = "track" /\ own1' = own1 /\ own3' = own3
      /\ own4' = {p \in own4 : ~Egress!Answered(p)} \cup {s}
      /\ \/ own2' = [own2 EXCEPT ![t].at = "wait"]
         \/ own2' = [own2 EXCEPT ![t] = Egress!AtRest]
  BY DEF Egress!TrackPendingAnchor, Egress!Swept, Egress!SealOf, Egress!Move, Egress!Done
<1>2. own2[t] \in [at : Places, seal : Nat] /\ s \in DOMAIN own3 /\ s \in Nat
  BY <1>1 DEF EgressCore, EgressType, Egress!AtRest
<1>3. /\ own2' = [u \in Threads |-> own2'[u]]
      /\ \A u \in Threads \ {t} : own2'[u] = own2[u]
      /\ \/ own2'[t] = Egress!AtRest
         \/ own2'[t] \in [at : Places \ {"notice"}, seal : {own2[t].seal}]
  BY <1>1, <1>2 DEF EgressCore, EgressType, Places
<1>4. ASSUME NEW r \in DOMAIN own3 PROVE NotForgotten(r)'
  <2> SUFFICES ASSUME own3[r].future = "running" PROVE NotForgotten(r)'
    BY <1>1 DEF NotForgotten
  <2>1. NotForgotten(r)
    BY DEF EgressCore, Egress!UnansweredIsNotForgotten, NotForgotten
  <2>2. CASE r \in own4 \/ r = s
    BY <2>2, <1>1 DEF NotForgotten, Egress!Answered
  <2>3. ASSUME NEW u \in Threads, own2[u] = [at |-> "track", seal |-> r], r # s
        PROVE  NotForgotten(r)'
    <3>1. u # t
      BY <2>3
    <3> QED
      BY <2>3, <3>1, <1>3 DEF NotForgotten
  <2>4. CASE own1.ending /\ own3[r].told = "warned"
    BY <2>4, <1>1 DEF NotForgotten
  <2> QED
    BY <2>1, <2>2, <2>3, <2>4 DEF NotForgotten
<1>5. own1.ending => own2[t] = Egress!AtRest
  BY DEF EgressCore
<1> QED
  BY <1>1, <1>2, <1>3, <1>4, <1>5, StepKeeps DEF EgressCore, EgressType, SealLawful, Egress!AtRest, Places

LEMMA AwaitAnchorKeeps ==
  ASSUME EgressCore, NEW t \in Threads, Egress!AwaitAnchor(t)
  PROVE  EgressCore'
<1> PICK s : s = own2[t].seal
  OBVIOUS
<1>1. /\ own2[t].at = "wait" /\ own1' = own1
      /\ own3' = [own3 EXCEPT ![s].told = IF Egress!Answered(s) THEN own3[s].future ELSE own3[s].told]
      /\ own4' = IF Egress!Answered(s) THEN own4 \ {s} ELSE own4
      /\ own2' = [own2 EXCEPT ![t] = Egress!AtRest]
  BY DEF Egress!AwaitAnchor, Egress!Note, Egress!SealOf, Egress!Done
<1>2. /\ own2[t] \in [at : Places, seal : Nat] /\ s \in DOMAIN own3 /\ s \in Nat
      /\ ~own1.ending /\ own3 \in Seq(SealSet)
  BY <1>1 DEF EgressCore, EgressType, Egress!AtRest
<1>3. own3[s] \in SealSet
  BY <1>2
<1> DEFINE told == IF Egress!Answered(s) THEN own3[s].future ELSE own3[s].told
<1>4. told \in {"nothing", "none", "running", "accepted", "failed", "warned"}
  BY <1>3 DEF SealSet
<1>5. own3' = [own3 EXCEPT ![s].told = told]
  BY <1>1
<1> HIDE DEF told
<1>6. /\ own3' \in Seq(SealSet) /\ DOMAIN own3' = DOMAIN own3
      /\ own3'[s] = [own3[s] EXCEPT !.told = told]
      /\ \A r \in DOMAIN own3 \ {s} : own3'[r] = own3[r]
  BY <1>2, <1>4, <1>5, ToldNoted
<1>7. \A r \in DOMAIN own3 : /\ own3'[r].mode = own3[r].mode /\ own3'[r].anchor = own3[r].anchor
                             /\ own3'[r].left = own3[r].left /\ own3'[r].future = own3[r].future
  BY <1>2, <1>3, <1>6 DEF SealSet
<1>8. \A r \in DOMAIN own3 : SealLawful(r)'
  BY <1>1, <1>7 DEF SealLawful, EgressCore
<1>9. ASSUME NEW r \in DOMAIN own3 PROVE NotForgotten(r)'
  <2>1. NotForgotten(r)
    BY DEF EgressCore, Egress!UnansweredIsNotForgotten, NotForgotten
  <2>2. own3'[r].future = "running" => own3[r].future = "running" /\ (r \in own4 => r \in own4')
    BY <1>1, <1>7 DEF Egress!Answered
  <2> QED
    BY <2>1, <2>2, <1>1, <1>2 DEF NotForgotten, EgressCore, EgressType
<1> QED
  BY <1>1, <1>2, <1>6, <1>7, <1>8, <1>9, StepKeeps DEF EgressCore, EgressType

LEMMA AnchorAnswersKeeps ==
  ASSUME EgressCore, NEW s \in DOMAIN own3, NEW accepted \in BOOLEAN,
         Egress!AnchorAnswers(s, accepted)
  PROVE  EgressCore'
<1>1. own1' = own1 /\ own2' = own2 /\ own4' = own4 /\ own3 \in Seq(SealSet) /\ own3[s] \in SealSet
  BY DEF Egress!AnchorAnswers, EgressCore, EgressType
<1>2. PICK stands \in {"accepted", "failed"} : own3' = [own3 EXCEPT ![s].future = stands]
  BY DEF Egress!AnchorAnswers, Egress!Note
<1>3. /\ own3' \in Seq(SealSet) /\ DOMAIN own3' = DOMAIN own3
      /\ own3'[s] = [own3[s] EXCEPT !.future = stands]
      /\ \A r \in DOMAIN own3 \ {s} : own3'[r] = own3[r]
  BY <1>1, <1>2, FutureNoted
<1>4. \A r \in DOMAIN own3 : /\ own3'[r].mode = own3[r].mode /\ own3'[r].anchor = own3[r].anchor
                             /\ own3'[r].left = own3[r].left /\ own3'[r].told = own3[r].told
                             /\ own3'[r].future = "running" => own3[r].future = "running"
  BY <1>1, <1>3 DEF SealSet
<1>5. \A r \in DOMAIN own3 : SealLawful(r)' /\ NotForgotten(r)'
  BY <1>1, <1>4 DEF SealLawful, EgressCore, NotForgotten, Egress!UnansweredIsNotForgotten
<1> QED
  BY <1>1, <1>3, <1>4, <1>5, StepKeeps DEF EgressCore, EgressType

LEMMA ProcessEndsKeeps ==
  ASSUME EgressCore, Egress!ProcessEnds
  PROVE  EgressCore'
<1>1. /\ own2' = own2 /\ own3' = own3 /\ own4' = own4
      /\ own1' = [own1 EXCEPT !.ending = TRUE]
      /\ \A t \in Threads : own2[t] = Egress!AtRest
  BY DEF Egress!ProcessEnds
<1>2. own1' \in ProcessSet /\ own1'.anchor = own1.anchor /\ own1'.notice = own1.notice
  BY <1>1 DEF EgressCore, EgressType, ProcessSet
<1>3. \A r \in DOMAIN own3 : SealLawful(r)'
  BY <1>1, <1>2 DEF EgressCore, SealLawful
<1>4. ASSUME NEW r \in DOMAIN own3 PROVE NotForgotten(r)'
  <2>1. ~own1.ending
    BY DEF Egress!ProcessEnds
  <2> QED
    BY <1>1, <2>1 DEF EgressCore, NotForgotten, Egress!UnansweredIsNotForgotten
<1> QED
  BY <1>1, <1>2, <1>3, <1>4, StepKeeps DEF EgressCore, EgressType

LEMMA JoinAtExitKeeps ==
  ASSUME EgressCore, NEW s \in DOMAIN own3, Egress!JoinAtExit(s)
  PROVE  EgressCore'
<1>1. /\ own1' = own1 /\ own2' = own2 /\ own4' = own4 \ {s} /\ own1.ending
      /\ own3 \in Seq(SealSet) /\ own3[s] \in SealSet
  BY DEF Egress!JoinAtExit, EgressCore, EgressType
<1>2. CASE own3[s].future = "accepted"
  <2>1. own3' = own3
    BY <1>2 DEF Egress!JoinAtExit
  <2>2. \A r \in DOMAIN own3 : SealLawful(r)'
    BY <1>1, <2>1 DEF EgressCore, SealLawful
  <2>3. \A r \in DOMAIN own3 : NotForgotten(r)'
    BY <1>1, <2>1, <1>2 DEF EgressCore, NotForgotten, Egress!UnansweredIsNotForgotten
  <2> QED
    BY <1>1, <2>1, <2>2, <2>3, StepKeeps DEF EgressCore, EgressType
<1>3. CASE own3[s].future # "accepted"
  <2>1. own3' = [own3 EXCEPT ![s].told = "warned"]
    BY <1>3 DEF Egress!JoinAtExit, Egress!Note
  <2>2. /\ own3' \in Seq(SealSet) /\ DOMAIN own3' = DOMAIN own3
        /\ own3'[s] = [own3[s] EXCEPT !.told = "warned"]
        /\ \A r \in DOMAIN own3 \ {s} : own3'[r] = own3[r]
    BY <1>1, <2>1, ToldNoted
  <2>3. \A r \in DOMAIN own3 : /\ own3'[r].mode = own3[r].mode /\ own3'[r].anchor = own3[r].anchor
                               /\ own3'[r].left = own3[r].left /\ own3'[r].future = own3[r].future
                               /\ own3'[r].told = own3[r].told \/ own3'[r].told = "warned"
    BY <1>1, <2>2 DEF SealSet
  <2>4. own3'[s].told = "warned"
    BY <1>1, <2>2 DEF SealSet
  <2>5. \A r \in DOMAIN own3 : SealLawful(r)'
    BY <1>1, <2>3 DEF EgressCore, SealLawful
  <2>6. \A r \in DOMAIN own3 : NotForgotten(r)'
    BY <1>1, <2>3, <2>4 DEF EgressCore, NotForgotten, Egress!UnansweredIsNotForgotten
  <2> QED
    BY <1>1, <2>2, <2>3, <2>5, <2>6, StepKeeps DEF EgressCore, EgressType
<1> QED
  BY <1>2, <1>3

LEMMA EgressStep == EgressInv /\ [Next]_vars => EgressInv'
<1> SUFFICES ASSUME EgressInv, [Next]_vars, adapter' = "egress"
             PROVE  EgressCore'
  BY DEF EgressInv, EgressCore
<1>1. adapter = "egress"
  BY DEF Next, vars
<1>2. EgressCore
  BY <1>1 DEF EgressInv, EgressCore
<1>3. CASE Egress!EgressNext
  BY <1>2, <1>3, AppendedKeeps, FirstRunDisclosureKeeps, PrintDisclosureKeeps, RequireWitnessKeeps,
     MaybeCheckpointKeeps, SubmitAnchorKeeps, TrackPendingAnchorKeeps, AwaitAnchorKeeps,
     AnchorAnswersKeeps, JoinAtExitKeeps, ProcessEndsKeeps
     DEF Egress!EgressNext
<1>4. CASE UNCHANGED vars
  <2>1. own1' = own1 /\ own2' = own2 /\ own3' = own3 /\ own4' = own4
    BY <1>4 DEF vars
  <2> QED
    BY <1>2, <2>1 DEF EgressCore, EgressType, SealLawful, NoticeTaken, Egress!UnansweredIsNotForgotten
<1> QED
  BY <1>1, <1>3, <1>4 DEF Next

\* Each thread is in a seal of its own, one that has yet to see the notice
\* has sent nothing, and whoever took the notice is about to print it.
NoticeCore ==
    /\ \A t, u \in Threads : own2[t].at # "rest" /\ own2[u].at # "rest" /\ own2[t].seal = own2[u].seal => t = u
    /\ \A t \in Threads : own2[t].at \in {"notice", "print"} => own3[own2[t].seal].left = {}
    /\ own1.notice = "claimed" => \E t \in Threads : own2[t].at = "print"

NoticeInv == adapter = "egress" => NoticeCore

LEMMA NoticeStarts == Init => NoticeInv
<1> SUFFICES ASSUME Egress!EgressInit PROVE NoticeCore
  BY DEF Init, NoticeInv
<1>1. own1.notice = "none" /\ own2 = [t \in Threads |-> Egress!AtRest]
  BY DEF Egress!EgressInit
<1> QED
  BY <1>1 DEF NoticeCore, Egress!AtRest

\* A step of thread t, which sends nothing before it is past the print.
LEMMA ThreadKeepsNotice ==
  ASSUME EgressCore, NoticeCore, NEW t \in Threads, NEW s, s = own2[t].seal, own2[t].at # "rest",
         \A u \in Threads \ {t} : own2'[u] = own2[u],
         own2'[t].at = "rest" \/ own2'[t].seal = s,
         \A r \in DOMAIN own3 \ {s} : own3'[r].left = own3[r].left,
         own2'[t].at \in {"notice", "print"} => own3'[s].left = {} /\ own2'[t].seal = s,
         own1'.notice = "claimed" => \/ own2'[t].at = "print"
                                     \/ own1.notice = "claimed" /\ own2[t].at # "print"
  PROVE  NoticeCore'
<1>1. \A u \in Threads : own2[u].at # "rest" => own2[u].seal \in DOMAIN own3
  BY DEF EgressCore, EgressType
<1>2. ASSUME NEW u \in Threads, NEW v \in Threads, own2'[u].at # "rest", own2'[v].at # "rest",
             own2'[u].seal = own2'[v].seal
      PROVE  u = v
  BY <1>2 DEF NoticeCore
<1>3. ASSUME NEW u \in Threads, own2'[u].at \in {"notice", "print"}
      PROVE  own3'[own2'[u].seal].left = {}
  <2>1. CASE u = t
    BY <1>3, <2>1
  <2>2. CASE u # t
    <3>1. own2'[u] = own2[u] /\ own2[u].seal \in DOMAIN own3 /\ own3[own2[u].seal].left = {}
      BY <1>1, <1>3, <2>2 DEF NoticeCore
    <3>2. own2[u].seal # s
      BY <1>3, <2>2, <3>1 DEF NoticeCore
    <3> QED
      BY <3>1, <3>2
  <2> QED
    BY <2>1, <2>2
<1>4. own1'.notice = "claimed" => \E u \in Threads : own2'[u].at = "print"
  BY DEF NoticeCore
<1> QED
  BY <1>2, <1>3, <1>4 DEF NoticeCore

\* A step of no thread that seals.
LEMMA OthersKeepNotice ==
  ASSUME EgressCore, NoticeCore, own2' = own2, own1'.notice = own1.notice,
         \A r \in DOMAIN own3 : own3'[r].left = own3[r].left
  PROVE  NoticeCore'
<1>1. \A u \in Threads : own2[u].at # "rest" => own2[u].seal \in DOMAIN own3
  BY DEF EgressCore, EgressType
<1> QED
  BY <1>1 DEF NoticeCore

LEMMA NoticeKeeps ==
  ASSUME EgressCore, NoticeCore, Egress!EgressNext
  PROVE  NoticeCore'
<1>1. /\ own3 \in Seq(SealSet) /\ own1 \in ProcessSet
      /\ \A u \in Threads : own2[u].at # "rest" => /\ own2[u].seal \in DOMAIN own3
                                                  /\ own2[u] \in [at : Places, seal : Nat]
      /\ own2 \in [Threads -> {Egress!AtRest} \cup [at : Places, seal : Nat]]
  BY DEF EgressCore, EgressType, Egress!AtRest
<1>2. ASSUME NEW t \in Threads, NEW explicit, NEW require, NEW wait, Egress!Appended(t, explicit, require, wait)
      PROVE  NoticeCore'
  <2> PICK n : n = Len(own3) + 1
    OBVIOUS
  <2>1. /\ own1' = own1 /\ own2[t] = Egress!AtRest
        /\ own2' = [own2 EXCEPT ![t] = [at |-> "notice", seal |-> n]]
    BY <1>2 DEF Egress!Appended
  <2>2. n \notin DOMAIN own3 /\ \A r \in DOMAIN own3 : own3'[r] = own3[r]
    BY <1>1, <1>2 DEF Egress!Appended
  <2>3. own3'[n].left = {}
    <3> PICK mode : mode = Egress!ModeOf(explicit)
      OBVIOUS
    <3> PICK anchor : anchor = Egress!AnchorEnabled(mode)
      OBVIOUS
    <3> PICK new : new = [mode |-> mode, anchor |-> anchor, require |-> require, wait |-> wait,
                          left |-> {}, witness |-> "none", future |-> "none", told |-> "nothing"]
      OBVIOUS
    <3>1. own3' = Append(own3, new)
      BY <1>2 DEF Egress!Appended
    <3> QED
      BY <1>1, <3>1
  <2>4. /\ own2'[t].at = "notice" /\ own2'[t].seal = n
        /\ \A u \in Threads \ {t} : own2'[u] = own2[u]
    BY <1>1, <2>1
  <2>5. ASSUME NEW u \in Threads, NEW v \in Threads, own2'[u].at # "rest", own2'[v].at # "rest",
               own2'[u].seal = own2'[v].seal
        PROVE  u = v
    <3>1. \A w \in Threads \ {t} : own2'[w].at # "rest" => own2'[w].seal # n
      BY <1>1, <2>2, <2>4
    <3>2. CASE u = t \/ v = t
      BY <2>4, <2>5, <3>1, <3>2
    <3>3. CASE u # t /\ v # t
      BY <2>4, <2>5, <3>3 DEF NoticeCore
    <3> QED
      BY <3>2, <3>3
  <2>6. \A u \in Threads : own2'[u].at \in {"notice", "print"} => own3'[own2'[u].seal].left = {}
    BY <1>1, <2>2, <2>3, <2>4 DEF NoticeCore
  <2>7. own1'.notice = "claimed" => \E u \in Threads : own2'[u].at = "print"
    <3>1. own2[t].at # "print"
      BY <2>1 DEF Egress!AtRest
    <3> QED
      BY <2>1, <2>4, <3>1 DEF NoticeCore
  <2> QED
    BY <2>5, <2>6, <2>7 DEF NoticeCore
<1>3. ASSUME NEW t \in Threads, Egress!FirstRunDisclosure(t)
      PROVE  NoticeCore'
  <2>1. own3' = own3 /\ own2[t].at = "notice" /\ own2[t] \in [at : Places, seal : Nat]
    BY <1>1, <1>3 DEF Egress!FirstRunDisclosure
  <2>2. PICK next \in {"print", "witness"} :
            /\ own2' = [own2 EXCEPT ![t].at = next]
            /\ next = "print" \/ own1' = own1
    BY <1>3 DEF Egress!FirstRunDisclosure, Egress!Move
  <2>3. /\ own2'[t].at = next /\ own2'[t].seal = own2[t].seal
        /\ \A u \in Threads \ {t} : own2'[u] = own2[u]
    BY <1>1, <2>1, <2>2
  <2>4. own3[own2[t].seal].left = {}
    BY <2>1 DEF NoticeCore
  <2> QED
    BY <2>1, <2>2, <2>3, <2>4, ThreadKeepsNotice
<1>4. ASSUME NEW t \in Threads, Egress!PrintDisclosure(t)
      PROVE  NoticeCore'
  <2>1. /\ own3' = own3 /\ own2[t].at = "print" /\ own2[t] \in [at : Places, seal : Nat]
        /\ own1'.notice = "printed" /\ own2' = [own2 EXCEPT ![t].at = "witness"]
    BY <1>1, <1>4 DEF Egress!PrintDisclosure, Egress!Move, ProcessSet
  <2>2. /\ own2'[t].at = "witness" /\ own2'[t].seal = own2[t].seal
        /\ \A u \in Threads \ {t} : own2'[u] = own2[u]
    BY <1>1, <2>1
  <2> QED
    BY <2>1, <2>2, ThreadKeepsNotice
<1>5. ASSUME NEW t \in Threads, own2[t].at \in Places \ {"notice", "print"}, own1' = own1,
             \/ own2' = [own2 EXCEPT ![t] = Egress!AtRest]
             \/ \E next \in Places \ {"notice", "print"} : own2' = [own2 EXCEPT ![t].at = next],
             \A r \in DOMAIN own3 \ {own2[t].seal} : own3'[r].left = own3[r].left
      PROVE  NoticeCore'
  <2>1. own2[t] \in [at : Places, seal : Nat] /\ own2[t].at \notin {"rest", "print"}
    BY <1>1, <1>5 DEF Places
  <2>2. /\ own2'[t].at \notin {"notice", "print"}
        /\ own2'[t].at = "rest" \/ own2'[t].seal = own2[t].seal
        /\ \A u \in Threads \ {t} : own2'[u] = own2[u]
    BY <1>1, <1>5, <2>1 DEF Egress!AtRest, Places
  <2> QED
    BY <1>5, <2>1, <2>2, ThreadKeepsNotice
<1>6. ASSUME NEW t \in Threads, own2[t].at = "witness", NEW leaves \in BOOLEAN,
             NEW stands \in {"receipt", "raised", "queued", "local"},
             WitnessStep(own2[t].seal, leaves, stands)
      PROVE  \A r \in DOMAIN own3 \ {own2[t].seal} : own3'[r].left = own3[r].left
  BY <1>1, <1>6, WitnessStepIs
<1>7. ASSUME NEW t \in Threads, NEW confirmed \in BOOLEAN, Egress!RequireWitness(t, confirmed)
      PROVE  NoticeCore'
  <2>1. PICK leaves \in BOOLEAN, stands \in {"receipt", "raised"} :
            WitnessStep(own2[t].seal, leaves, stands)
    BY <1>7, Zenon DEF Egress!RequireWitness, WitnessStep, Egress!SealOf
  <2>2. own2[t].at = "witness" /\ own1' = own1
    BY <1>7 DEF Egress!RequireWitness
  <2>3. \A r \in DOMAIN own3 \ {own2[t].seal} : own3'[r].left = own3[r].left
    BY <1>6, <2>1, <2>2
  <2>4. \/ own2' = [own2 EXCEPT ![t] = Egress!AtRest]
        \/ own2' = [own2 EXCEPT ![t].at = "anchor"]
    BY <1>7 DEF Egress!RequireWitness, Egress!Move, Egress!Done
  <2> QED
    BY <1>5, <2>2, <2>3, <2>4 DEF Places
<1>8. ASSUME NEW t \in Threads, NEW due \in BOOLEAN, Egress!MaybeCheckpoint(t, due)
      PROVE  NoticeCore'
  <2>1. PICK stands \in {"queued", "local"} : WitnessStep(own2[t].seal, due, stands)
    BY <1>8, Zenon DEF Egress!MaybeCheckpoint, WitnessStep, Egress!SealOf
  <2>2. own2[t].at = "witness" /\ own1' = own1 /\ own2' = [own2 EXCEPT ![t].at = "anchor"]
    BY <1>8 DEF Egress!MaybeCheckpoint, Egress!Move
  <2>3. \A r \in DOMAIN own3 \ {own2[t].seal} : own3'[r].left = own3[r].left
    BY <1>6, <2>1, <2>2
  <2> QED
    BY <1>5, <2>2, <2>3 DEF Places
<1>9. ASSUME NEW t \in Threads, Egress!SubmitAnchor(t)
      PROVE  NoticeCore'
  <2>1. /\ own2[t].at = "anchor" /\ own1' = own1
        /\ \/ own2' = [own2 EXCEPT ![t] = Egress!AtRest]
           \/ own2' = [own2 EXCEPT ![t].at = "track"]
    BY <1>9 DEF Egress!SubmitAnchor, Egress!Move, Egress!Done
  <2>2. \A r \in DOMAIN own3 \ {own2[t].seal} : own3'[r].left = own3[r].left
    BY <1>1, <1>9 DEF Egress!SubmitAnchor, Egress!Leaves, Egress!SealOf
  <2> QED
    BY <1>5, <2>1, <2>2 DEF Places
<1>10. ASSUME NEW t \in Threads, Egress!TrackPendingAnchor(t) \/ Egress!AwaitAnchor(t)
       PROVE  NoticeCore'
  <2>1. /\ own2[t].at \in {"track", "wait"} /\ own1' = own1
        /\ \/ own2' = [own2 EXCEPT ![t] = Egress!AtRest]
           \/ own2' = [own2 EXCEPT ![t].at = "wait"]
    BY <1>10 DEF Egress!TrackPendingAnchor, Egress!AwaitAnchor, Egress!Move, Egress!Done
  <2>2. \A r \in DOMAIN own3 \ {own2[t].seal} : own3'[r].left = own3[r].left
    BY <1>1, <1>10 DEF Egress!TrackPendingAnchor, Egress!AwaitAnchor, Egress!Note, Egress!SealOf
  <2> QED
    BY <1>5, <2>1, <2>2 DEF Places
<1>11. ASSUME NEW s \in DOMAIN own3, (\E accepted \in BOOLEAN : Egress!AnchorAnswers(s, accepted))
                                     \/ Egress!JoinAtExit(s)
       PROVE  NoticeCore'
  <2>1. own2' = own2 /\ own1' = own1
    BY <1>11 DEF Egress!AnchorAnswers, Egress!JoinAtExit
  <2>2. \/ own3' = own3
        \/ \E stands \in {"accepted", "failed"} : own3' = [own3 EXCEPT ![s].future = stands]
        \/ own3' = [own3 EXCEPT ![s].told = "warned"]
    BY <1>11, Zenon DEF Egress!AnchorAnswers, Egress!JoinAtExit, Egress!Note
  <2>3. own3[s] \in SealSet
    BY <1>1
  <2>4. \A r \in DOMAIN own3 : own3'[r].left = own3[r].left
    <3>1. ASSUME NEW stands \in {"accepted", "failed"}, own3' = [own3 EXCEPT ![s].future = stands]
          PROVE  \A r \in DOMAIN own3 : own3'[r].left = own3[r].left
      <4>1. own3'[s] = [own3[s] EXCEPT !.future = stands] /\ \A r \in DOMAIN own3 \ {s} : own3'[r] = own3[r]
        BY <1>1, <3>1, FutureNoted
      <4> QED
        BY <4>1, <2>3 DEF SealSet
    <3>2. CASE own3' = [own3 EXCEPT ![s].told = "warned"]
      <4>1. own3'[s] = [own3[s] EXCEPT !.told = "warned"] /\ \A r \in DOMAIN own3 \ {s} : own3'[r] = own3[r]
        BY <1>1, <3>2, ToldNoted
      <4> QED
        BY <4>1, <2>3 DEF SealSet
    <3> QED
      BY <2>2, <3>1, <3>2
  <2> QED
    BY <2>1, <2>4, OthersKeepNotice
<1>12. CASE Egress!ProcessEnds
  <2>1. own2' = own2 /\ own3' = own3 /\ own1'.notice = own1.notice
    BY <1>1, <1>12 DEF Egress!ProcessEnds, ProcessSet
  <2> QED
    BY <2>1, OthersKeepNotice
<1> QED
  BY <1>2, <1>3, <1>4, <1>7, <1>8, <1>9, <1>10, <1>11, <1>12 DEF Egress!EgressNext

LEMMA NoticeStep == EgressInv /\ NoticeInv /\ [Next]_vars => NoticeInv'
<1> SUFFICES ASSUME EgressInv, NoticeInv, [Next]_vars, adapter' = "egress"
             PROVE  NoticeCore'
  BY DEF NoticeInv
<1>1. adapter = "egress"
  BY DEF Next, vars
<1>2. EgressCore /\ NoticeCore
  BY <1>1 DEF EgressInv, EgressCore, NoticeInv
<1>3. CASE UNCHANGED vars
  <2>1. own1' = own1 /\ own2' = own2 /\ own3' = own3
    BY <1>3 DEF vars
  <2> QED
    BY <1>2, <2>1, OthersKeepNotice
<1> QED
  BY <1>1, <1>2, <1>3, NoticeKeeps DEF Next

LEMMA EgressHolds == EgressInv /\ NoticeInv => EgressIsAccounted
<1> SUFFICES ASSUME EgressCore, NoticeCore
             PROVE  Egress!NothingLeavesUnasked /\ Egress!NoticeComesFirst /\ Egress!UnansweredIsNotForgotten
  BY DEF EgressInv, EgressCore, NoticeInv, EgressIsAccounted
<1>1. Egress!NothingLeavesUnasked /\ Egress!UnansweredIsNotForgotten
  BY DEF EgressCore, SealLawful, Egress!NothingLeavesUnasked
<1>2. ASSUME NEW s \in DOMAIN own3, own3[s].left # {}, own1.notice # "printed"
      PROVE  \E t \in Threads : own2[t].at = "print" /\ own2[t].seal # s
  <2>1. own1.notice = "claimed"
    BY <1>2 DEF EgressCore, EgressType, SealLawful, ProcessSet
  <2>2. PICK t \in Threads : own2[t].at = "print"
    BY <2>1 DEF NoticeCore
  <2>3. own3[own2[t].seal].left = {}
    BY <2>2 DEF NoticeCore
  <2> QED
    BY <1>2, <2>2, <2>3
<1> QED
  BY <1>1, <1>2 DEF Egress!NoticeComesFirst

\* capsule_emit.core: for any threads, settings, answers and order of events,
\* nothing leaves that was not asked for, nothing before the notice but what
\* overtakes its print, and no submission is forgotten.
THEOREM SubmissionsAreAccounted == Spec => []EgressIsAccounted
<1>1. Spec => []EgressInv
  BY EgressStarts, EgressStep, PTL DEF Spec
<1>2. Spec => []NoticeInv
  BY <1>1, NoticeStarts, NoticeStep, PTL DEF Spec
<1> QED
  BY <1>1, <1>2, EgressHolds, PTL


-----------------------------------------------------------------------------
(* Chains of a turn                                                         *)

TurnStatuses == {"planned", "confirmed", "failed", "blocked"}
Closing == {<<"close", 0>>}

ChainsType ==
    /\ IsSeq(ledger)
    /\ \A i \in DOMAIN ledger : ledger[i].call \in Calls /\ ledger[i].prior \in Nat
    /\ phase = [c \in Calls |-> phase[c]]
    /\ own1 \in [Calls -> Nat]
    /\ own3 \in [Calls -> SUBSET Record!Decisions]

\* The tip of a turn is its last capsule, or none is sealed.
TipIsLast(t) ==
    /\ \A i \in DOMAIN ledger : ledger[i].call = t => i <= own1[t]
    /\ own1[t] # 0 => own1[t] \in DOMAIN ledger /\ ledger[own1[t]].call = t

LinkCitesLast(i) ==
    \A j \in DOMAIN ledger : j < i /\ ledger[j].call = ledger[i].call => j <= ledger[i].prior

LinkCitesItsTurn(i) ==
    ledger[i].prior # 0 =>
        /\ ledger[i].prior \in DOMAIN ledger /\ ledger[i].prior < i
        /\ ledger[ledger[i].prior].call = ledger[i].call

\* A turn that has its close hears no more rails.
CloseIsLast(i) ==
    ledger[i].marks # {} =>
        /\ phase[ledger[i].call] = "done"
        /\ own3[ledger[i].call] \cap {"block", "failed"} # {} => ledger[i].status \in {"blocked", "failed"}

ChainsCore ==
    /\ ChainsType
    /\ \A t \in Calls : TipIsLast(t)
    /\ \A i \in DOMAIN ledger : LinkCitesLast(i) /\ LinkCitesItsTurn(i) /\ CloseIsLast(i)

ChainsInv == adapter = "chains" => ChainsCore

LEMMA ChainsStart == Init => ChainsInv
<1>1. SUFFICES ASSUME Record!ChainsInit, EmitterInit PROVE ChainsCore
  BY DEF Init, ChainsInv
<1>2. ledger = <<>> /\ phase = [c \in Calls |-> "new"]
  BY <1>1 DEF EmitterInit
<1>3. own1 = [c \in Calls |-> 0] /\ own3 = [c \in Calls |-> {}]
  BY <1>1 DEF Record!ChainsInit
<1>4. IsSeq(<<>>)
  BY SeqIs, EmptySeq
<1> QED
  BY <1>2, <1>3, <1>4 DEF ChainsCore, ChainsType, TipIsLast

LEMMA ChainsHold == ChainsInv => TurnsAreToldWhole
<1> SUFFICES ASSUME ChainsCore, adapter = "chains" PROVE TurnsAreToldWhole
  BY DEF ChainsInv, TurnsAreToldWhole, TurnsAreChains, TurnsTellTheirRails
<1>1. ASSUME NEW i \in DOMAIN ledger PROVE MarkIds(i, "close") # {} => ledger[i].marks # {}
  BY DEF MarkIds
<1>2. TurnsTellTheirRails
  BY <1>1 DEF TurnsTellTheirRails, Sealed, ChainsCore, CloseIsLast
<1>3. ASSUME NEW i \in DOMAIN ledger,
             \A j \in DOMAIN ledger : ~(j < i /\ ledger[j].call = ledger[i].call)
      PROVE  ledger[i].prior = 0
  BY <1>3 DEF ChainsCore, LinkCitesItsTurn
<1>4. TurnsAreChains
  BY <1>3 DEF TurnsAreChains, Sealed, ChainsCore, LinkCitesLast
<1> QED
  BY <1>2, <1>4 DEF TurnsAreToldWhole

\* What every link of a chain does, whatever it says: a close ends its turn
\* and tells the worst of its rails.
LinkStep(t, status, output, marks, sealed) ==
    /\ status \in TurnStatuses /\ marks \in {{}, Closing}
    /\ Record!Link(t, status, output, marks, sealed)
    /\ phase[t] # "done" /\ phase' = [c \in Calls |-> phase'[c]]
    /\ \A c \in Calls \ {t} : phase'[c] = phase[c] /\ own3'[c] = own3[c]
    /\ own3' \in [Calls -> SUBSET Record!Decisions]
    /\ marks # {} => /\ phase'[t] = "done"
                     /\ own3'[t] \cap {"block", "failed"} # {} => status \in {"blocked", "failed"}

LEMMA LinkKeeps ==
  ASSUME ChainsCore, NEW t \in Calls, NEW status, NEW output, NEW marks, NEW sealed,
         LinkStep(t, status, output, marks, sealed)
  PROVE  ChainsCore'
<1> DEFINE capsule == Record!Capsule(t, status, output, own1[t], marks)
<1>1. \/ sealed /\ ledger' = Append(ledger, capsule) /\ own1' = [own1 EXCEPT ![t] = Len(ledger) + 1]
      \/ ledger' = ledger /\ own1' = own1
  <2>1. own1 = [own1 EXCEPT ![t] = own1[t]]
    BY DEF ChainsCore, ChainsType
  <2> QED
    BY <2>1 DEF LinkStep, Record!Link, Record!Seal, Record!NextId
<1>2. capsule.call = t /\ capsule.prior = own1[t] /\ capsule.marks = marks
      /\ capsule.status = status
  BY DEF Record!Capsule
<1>3. \A i \in DOMAIN ledger : ledger[i].call = t => ledger[i].marks = {}
  BY DEF LinkStep, ChainsCore, CloseIsLast
<1>4. CASE sealed /\ ledger' = Append(ledger, capsule) /\ own1' = [own1 EXCEPT ![t] = Len(ledger) + 1]
  <2> HIDE DEF capsule
  <2> PICK n : n = Len(ledger) + 1
    OBVIOUS
  <2>1. /\ IsSeq(ledger') /\ DOMAIN ledger' = DOMAIN ledger \cup {n}
        /\ ledger'[n] = capsule /\ \A i \in DOMAIN ledger : ledger'[i] = ledger[i]
        /\ \A i \in DOMAIN ledger : i \in Nat /\ i < n
        /\ n \in Nat
    <3>1. Grown(Append(ledger, capsule), ledger, capsule)
      BY OneMore DEF ChainsCore, ChainsType
    <3> QED
      BY <1>4, <3>1 DEF Grown
  <2>2. own1' \in [Calls -> Nat] /\ own1'[t] = n /\ \A c \in Calls \ {t} : own1'[c] = own1[c]
    BY <1>4, <2>1 DEF ChainsCore, ChainsType
  <2>3. ASSUME NEW c \in Calls PROVE TipIsLast(c)'
    BY <1>2, <2>1, <2>2 DEF TipIsLast, ChainsCore
  <2>4. ASSUME NEW i \in DOMAIN ledger PROVE LinkCitesLast(i)' /\ LinkCitesItsTurn(i)'
    BY <2>1 DEF LinkCitesLast, LinkCitesItsTurn, ChainsCore
  <2>5. LinkCitesLast(n)' /\ LinkCitesItsTurn(n)'
    <3>1. TipIsLast(t)
      BY DEF ChainsCore
    <3> QED
      BY <1>2, <2>1, <3>1 DEF LinkCitesLast, LinkCitesItsTurn, TipIsLast
  <2>6. ASSUME NEW i \in DOMAIN ledger PROVE CloseIsLast(i)'
    <3>1. ledger'[i] = ledger[i] /\ ledger[i].call \in Calls /\ CloseIsLast(i)
      BY <2>1 DEF ChainsCore, ChainsType
    <3> QED
      BY <1>3, <3>1 DEF CloseIsLast, LinkStep
  <2>7. CloseIsLast(n)'
    BY <1>2, <2>1 DEF CloseIsLast, LinkStep
  <2>8. ChainsType'
    BY <1>2, <2>1, <2>2 DEF ChainsCore, ChainsType, LinkStep
  <2> QED
    BY <2>1, <2>3, <2>4, <2>5, <2>6, <2>7, <2>8 DEF ChainsCore
<1>5. CASE ledger' = ledger /\ own1' = own1
  <2>1. ASSUME NEW i \in DOMAIN ledger PROVE CloseIsLast(i)'
    <3>1. ledger[i].call \in Calls /\ CloseIsLast(i)
      BY DEF ChainsCore, ChainsType
    <3> QED
      BY <1>3, <1>5, <3>1 DEF CloseIsLast, LinkStep
  <2> QED
    BY <1>5, <2>1 DEF LinkStep, ChainsCore, ChainsType, TipIsLast, LinkCitesLast, LinkCitesItsTurn
<1> QED
  BY <1>1, <1>4, <1>5

LEMMA ChainsNextKeeps ==
  ASSUME ChainsCore, Record!ChainsNext
  PROVE  ChainsCore'
<1> PICK t \in Turns, sealed \in BOOLEAN :
        \/ Record!OpenTurn(t, sealed)
        \/ Record!CloseTurn(t, sealed)
        \/ \E decision \in Record!Decisions : Record!RecordRail(t, decision, sealed)
        \/ \E status \in Record!SampleStatuses :
            Record!SealEvent(t, status, sealed) \/ Record!SealSampleTerminal(t, status, sealed)
  BY DEF Record!ChainsNext
<1> t \in Calls
  BY AdapterAssumption
<1>1. CASE Record!OpenTurn(t, sealed)
  <2>1. /\ Record!Link(t, "planned", FALSE, {}, sealed)
        /\ phase[t] = "new" /\ phase' = [phase EXCEPT ![t] = "running"] /\ own3' = own3
    BY <1>1 DEF Record!OpenTurn, Record!Becomes
  <2>2. /\ phase' = [c \in Calls |-> phase'[c]] /\ phase[t] # "done"
        /\ \A c \in Calls \ {t} : phase'[c] = phase[c] /\ own3'[c] = own3[c]
        /\ own3' \in [Calls -> SUBSET Record!Decisions]
    BY <2>1 DEF ChainsCore, ChainsType
  <2>3. "planned" \in TurnStatuses /\ {} \in {{}, Closing}
    BY DEF TurnStatuses
  <2>4. LinkStep(t, "planned", FALSE, {}, sealed)
    BY <2>1, <2>2, <2>3 DEF LinkStep
  <2> QED
    BY <2>4, LinkKeeps
<1>2. CASE Record!CloseTurn(t, sealed)
  <2>1. /\ Record!Link(t, Record!TurnStatus(t), TRUE, Closing, sealed)
        /\ phase[t] = "running" /\ phase' = [phase EXCEPT ![t] = "done"] /\ own3' = own3
    BY <1>2 DEF Record!CloseTurn, Record!Becomes, Closing
  <2>2. /\ Record!TurnStatus(t) \in TurnStatuses
        /\ own3[t] \cap {"block", "failed"} # {} => Record!TurnStatus(t) \in {"blocked", "failed"}
    BY DEF Record!TurnStatus, TurnStatuses
  <2>3. /\ phase' = [c \in Calls |-> phase'[c]] /\ phase[t] # "done" /\ phase'[t] = "done"
        /\ \A c \in Calls \ {t} : phase'[c] = phase[c] /\ own3'[c] = own3[c]
        /\ own3' \in [Calls -> SUBSET Record!Decisions] /\ own3'[t] = own3[t]
    BY <2>1 DEF ChainsCore, ChainsType
  <2>4. LinkStep(t, Record!TurnStatus(t), TRUE, Closing, sealed)
    BY <2>1, <2>2, <2>3 DEF LinkStep
  <2> QED
    BY <2>4, LinkKeeps
<1>3. ASSUME NEW decision \in Record!Decisions, Record!RecordRail(t, decision, sealed)
      PROVE  ChainsCore'
  <2>1. /\ phase' = phase /\ phase[t] = "running"
        /\ own3' = [own3 EXCEPT ![t] = @ \cup {decision}]
        /\ \/ ledger' = ledger /\ own1' = own1
           \/ Record!Link(t, Record!RailStatus(decision), TRUE, {}, sealed)
    BY <1>3 DEF Record!RecordRail
  <2>2. own3' \in [Calls -> SUBSET Record!Decisions] /\ \A c \in Calls \ {t} : own3'[c] = own3[c]
    BY <2>1 DEF ChainsCore, ChainsType
  <2>3. Record!RailStatus(decision) \in TurnStatuses
    BY DEF Record!RailStatus, Record!Decisions, TurnStatuses
  <2>4. CASE ledger' = ledger /\ own1' = own1
    <3>1. ASSUME NEW i \in DOMAIN ledger PROVE CloseIsLast(i)'
      BY <2>1, <2>2, <2>4 DEF ChainsCore, ChainsType, CloseIsLast
    <3> QED
      BY <2>1, <2>2, <2>4, <3>1 DEF ChainsCore, ChainsType, TipIsLast, LinkCitesLast, LinkCitesItsTurn
  <2>5. CASE Record!Link(t, Record!RailStatus(decision), TRUE, {}, sealed)
    <3>1. {} \in {{}, Closing} /\ phase[t] # "done"
      BY <2>1
    <3>2. phase' = [c \in Calls |-> phase'[c]]
      BY <2>1 DEF ChainsCore, ChainsType
    <3>3. LinkStep(t, Record!RailStatus(decision), TRUE, {}, sealed)
      BY <2>1, <2>2, <2>3, <2>5, <3>1, <3>2 DEF LinkStep
    <3> QED
      BY <3>3, LinkKeeps
  <2> QED
    BY <2>1, <2>4, <2>5
<1>4. ASSUME NEW status \in Record!SampleStatuses,
             Record!SealEvent(t, status, sealed) \/ Record!SealSampleTerminal(t, status, sealed)
      PROVE  ChainsCore'
  <2>1. /\ Record!Link(t, status, status # "planned", {}, sealed)
        /\ phase[t] \in {"new", "reading"} /\ own3' = own3
        /\ \E next \in {"reading", "done", "stopped"} : phase' = [phase EXCEPT ![t] = next]
    BY <1>4 DEF Record!SealEvent, Record!SealSampleTerminal
  <2>2. status \in TurnStatuses
    BY DEF Record!SampleStatuses, TurnStatuses
  <2>3. phase' = [c \in Calls |-> phase'[c]] /\ \A c \in Calls \ {t} : phase'[c] = phase[c]
    BY <2>1 DEF ChainsCore, ChainsType
  <2>4. {} \in {{}, Closing} /\ phase[t] # "done" /\ own3' \in [Calls -> SUBSET Record!Decisions]
    BY <2>1 DEF ChainsCore, ChainsType
  <2>5. LinkStep(t, status, status # "planned", {}, sealed)
    BY <2>1, <2>2, <2>3, <2>4 DEF LinkStep
  <2> QED
    BY <2>5, LinkKeeps
<1> QED
  BY <1>1, <1>2, <1>3, <1>4

LEMMA ChainsStep == ChainsInv /\ [Next]_vars => ChainsInv'
<1> SUFFICES ASSUME ChainsInv, [Next]_vars, adapter' = "chains"
             PROVE  ChainsCore'
  BY DEF ChainsInv
<1>1. adapter = "chains" /\ ChainsCore
  BY DEF Next, vars, ChainsInv
<1>2. CASE Record!ChainsNext
  BY <1>1, <1>2, ChainsNextKeeps
<1>3. CASE UNCHANGED vars
  <2>1. ledger' = ledger /\ phase' = phase /\ own1' = own1 /\ own3' = own3
    BY <1>3 DEF vars, emitterVars
  <2> QED
    BY <1>1, <2>1 DEF ChainsCore, ChainsType, TipIsLast, LinkCitesLast, LinkCitesItsTurn, CloseIsLast
<1> QED
  BY <1>1, <1>2, <1>3 DEF Next

\* capsule_emit.adapters.nemo_guardrails and inspect_ai: however rails and
\* seals of several turns mix and fail, a turn is one chain and its close
\* tells the worst of its rails.
THEOREM TurnsAreChained == Spec => []TurnsAreToldWhole
<1>1. Spec => []ChainsInv
  BY ChainsStart, ChainsStep, PTL DEF Spec
<1> QED
  BY <1>1, ChainsHold, PTL

-----------------------------------------------------------------------------
(* Handshakes                                                               *)

Parties == {"requester", "responder"}
MeantMark(by, kind, h) == <<by, kind, h>> \in own2

\* A signature under a move is of the party and the handshake it says, and
\* that party made it: presented again, it is still of its own handshake.
HeldWasMeant(h) ==
    /\ own1[h] = [m \in Bilateral!Moves |-> own1[h][m]]
    /\ own1[h]["request"].kind \in {"none", "request"}
    /\ own1[h]["action"] # Bilateral!None =>
          /\ own1[h]["action"].kind = "action" /\ own1[h]["action"].handshake = h
          /\ MeantMark("responder", "action", h)
    /\ \A party \in Parties :
          LET held == own1[h][Bilateral!ConfirmOf(party)]
          IN held # Bilateral!None =>
                /\ held.kind = "confirm" /\ held.by = party /\ held.handshake = h
                /\ MeantMark(party, "confirm", h)

PhaseIsHeld(h) ==
    /\ phase[h] \in {"acted", "bilateral"} => own1[h]["action"] # Bilateral!None
    /\ phase[h] = "bilateral" => \A party \in Parties : own1[h][Bilateral!ConfirmOf(party)] # Bilateral!None

\* Where a handshake is, once a capsule about it is owed or sealed.
Stands(what, h) ==
    /\ what = "ghost" => phase[h] = "refused"
    /\ what = "action" => phase[h] \in {"acted", "bilateral"}
    /\ what = "bilateral" => phase[h] = "bilateral"

FollowedUp == {"request", "action", "ghost", "bilateral"}

CitedBy(marks) == {m[2] : m \in {n \in marks : n[1] = "cites"}}

Targets(i) == ({ledger[i].prior} \ {0}) \cup CitedBy(ledger[i].marks)

LEMMA CitesOfMarks ==
  ASSUME NEW what, what # "cites", NEW target
  PROVE  CitedBy({<<what, 0>>}) = {} /\ CitedBy({<<what, 0>>, <<"cites", target>>}) = {target}
<1>1. <<what, 0>>[1] = what /\ <<"cites", target>>[1] = "cites" /\ <<"cites", target>>[2] = target
  OBVIOUS
<1>2. {n \in {<<what, 0>>} : n[1] = "cites"} = {}
  BY <1>1
<1>3. {n \in {<<what, 0>>, <<"cites", target>>} : n[1] = "cites"} = {<<"cites", target>>}
  BY <1>1
<1> QED
  BY <1>1, <1>2, <1>3 DEF CitedBy

FollowsUp(i) ==
    /\ ledger[i].call \in Calls
    /\ \A what \in FollowedUp : <<what, 0>> \in ledger[i].marks => Stands(what, ledger[i].call)
    /\ Targets(i) \subseteq Bilateral!CapsulesOf(ledger[i].call, "request")
    /\ <<"request", 0>> \notin ledger[i].marks => Targets(i) # {}

BilateralCore ==
    /\ IsSeq(ledger)
    /\ phase = [h \in Calls |-> phase[h]] /\ own1 = [h \in Calls |-> own1[h]]
    /\ \A h \in Calls : HeldWasMeant(h) /\ PhaseIsHeld(h)
    /\ \A h \in Calls, what \in FollowedUp : <<what, h>> \in own3 => Stands(what, h)
    /\ \A i \in DOMAIN ledger : FollowsUp(i)

BilateralInv == adapter = "bilateral" => BilateralCore

LEMMA BilateralStart == Init => BilateralInv
<1>1. SUFFICES ASSUME Bilateral!BilateralInit, EmitterInit PROVE BilateralCore
  BY DEF Init, BilateralInv
<1>2. ledger = <<>> /\ phase = [c \in Calls |-> "new"]
  BY <1>1 DEF EmitterInit
<1>3. own1 = [h \in Calls |-> [m \in Bilateral!Moves |-> Bilateral!None]] /\ own3 = {}
  BY <1>1 DEF Bilateral!BilateralInit
<1>4. IsSeq(<<>>)
  BY SeqIs, EmptySeq
<1>5. ASSUME NEW h \in Calls PROVE HeldWasMeant(h) /\ PhaseIsHeld(h)
  BY <1>2, <1>3 DEF HeldWasMeant, PhaseIsHeld, Bilateral!Moves, Bilateral!None, Parties, Bilateral!ConfirmOf
<1> QED
  BY <1>2, <1>3, <1>4, <1>5 DEF BilateralCore

LEMMA BilateralHolds == BilateralInv => ExchangesAreTrue
<1> SUFFICES ASSUME BilateralCore PROVE Bilateral!ExchangesAreTrue
  BY DEF BilateralInv, ExchangesAreTrue
<1>1. Bilateral!AttestationsAreMeant
  BY DEF BilateralCore, HeldWasMeant, PhaseIsHeld, Bilateral!AttestationsAreMeant, MeantMark, Parties
<1>2. Bilateral!RefusedOrActed
  BY DEF BilateralCore, FollowsUp, Stands, FollowedUp, Bilateral!RefusedOrActed, Bilateral!CapsulesOf
<1>3. Bilateral!FollowUpsAreOfTheHandshake
  BY DEF BilateralCore, FollowsUp, Targets, CitedBy, Bilateral!FollowUpsAreOfTheHandshake
<1> QED
  BY <1>1, <1>2, <1>3 DEF Bilateral!ExchangesAreTrue

\* A move: it writes one signature, of its own handshake and by a party that
\* means it, and takes the handshake on.
MoveStep(h, next, move, signature, owes) ==
    /\ ledger' = ledger
    /\ phase' = [phase EXCEPT ![h] = next]
    /\ own1' = [own1 EXCEPT ![h][move] = signature]
    /\ own2 \subseteq own2'
    /\ own3' = own3 \cup owes
    /\ phase[h] \notin {"refused", "bilateral"}
    /\ phase[h] = "acted" => next \in {"acted", "bilateral"}

LEMMA MoveKeeps ==
  ASSUME BilateralCore, NEW h \in Calls, NEW next, NEW move \in Bilateral!Moves, NEW signature,
         NEW owes, MoveStep(h, next, move, signature, owes),
         HeldWasMeant(h)', PhaseIsHeld(h)',
         \A what \in FollowedUp, g \in Calls : <<what, g>> \in owes => g = h /\ Stands(what, g)'
  PROVE  BilateralCore'
<1>1. /\ phase' = [g \in Calls |-> phase'[g]] /\ own1' = [g \in Calls |-> own1'[g]]
      /\ phase'[h] = next
      /\ \A g \in Calls \ {h} : phase'[g] = phase[g] /\ own1'[g] = own1[g]
  BY DEF BilateralCore, MoveStep
<1>2. ASSUME NEW g \in Calls PROVE HeldWasMeant(g)' /\ PhaseIsHeld(g)'
  <2>1. CASE g # h
    BY <2>1, <1>1 DEF BilateralCore, HeldWasMeant, PhaseIsHeld, MeantMark, MoveStep
  <2> QED
    BY <2>1
<1>3. ASSUME NEW g \in Calls, NEW what \in FollowedUp, Stands(what, g) PROVE Stands(what, g)'
  BY <1>1, <1>3 DEF Stands, MoveStep
<1>4. ASSUME NEW i \in DOMAIN ledger PROVE FollowsUp(i)'
  BY <1>3 DEF BilateralCore, FollowsUp, MoveStep, Targets, Bilateral!CapsulesOf
<1>5. ASSUME NEW g \in Calls, NEW what \in FollowedUp, <<what, g>> \in own3' PROVE Stands(what, g)'
  BY <1>3, <1>5 DEF BilateralCore, MoveStep
<1>6. ledger' = ledger
  BY DEF MoveStep
<1> QED
  BY <1>1, <1>2, <1>4, <1>5, <1>6 DEF BilateralCore

LEMMA OpenKeeps ==
  ASSUME BilateralCore, NEW h \in Calls, NEW own \in BOOLEAN, Bilateral!Open(h, own)
  PROVE  BilateralCore'
<1> PICK next : next = IF h \in Anonymous THEN "one_sided" ELSE "requested"
  OBVIOUS
<1>1. MoveStep(h, next, "request", Bilateral!RequestPayload(h), {<<"request", h>>}) /\ phase[h] = "new"
  BY DEF Bilateral!Open, MoveStep, Bilateral!Signed
<1>2. own1[h] = [m \in Bilateral!Moves |-> own1[h][m]] /\ HeldWasMeant(h) /\ PhaseIsHeld(h)
  BY DEF BilateralCore, HeldWasMeant
<1>3. /\ own1'[h] = [own1[h] EXCEPT !["request"] = Bilateral!RequestPayload(h)]
      /\ phase'[h] = next /\ own2 \subseteq own2'
  BY <1>1 DEF MoveStep, BilateralCore
<1>4. HeldWasMeant(h)'
  BY <1>2, <1>3 DEF HeldWasMeant, Bilateral!Moves, Bilateral!RequestPayload, Bilateral!Payload,
                    Parties, Bilateral!ConfirmOf, MeantMark
<1>5. PhaseIsHeld(h)' /\ Stands("request", h)'
  BY <1>3 DEF PhaseIsHeld, Stands
<1>6. "request" \in Bilateral!Moves
  BY DEF Bilateral!Moves
<1> QED
  BY <1>1, <1>4, <1>5, <1>6, MoveKeeps

\* An action held anywhere under this handshake's name was meant in it.
LEMMA RespondKeeps ==
  ASSUME BilateralCore, NEW h \in Calls, NEW own \in BOOLEAN, Bilateral!Respond(h, own)
  PROVE  BilateralCore'
<1> PICK signature : signature = Bilateral!ActionPayload(h)
  OBVIOUS
<1>1. MoveStep(h, "acted", "action", signature, {<<"action", h>>})
  BY DEF Bilateral!Respond, MoveStep, Bilateral!Signed
<1>2. signature.kind = "action" /\ signature.handshake = h /\ signature.by = "responder"
  BY DEF Bilateral!ActionPayload, Bilateral!Payload
<1>3. MeantMark("responder", "action", h)'
  <2>1. CASE own
    BY <2>1 DEF Bilateral!Respond, Bilateral!Signed, MeantMark
  <2>2. CASE ~own
    <3>1. PICK g \in Calls, m \in Bilateral!Moves : own1[g][m] = signature
      BY <2>2 DEF Bilateral!Respond, Bilateral!Presented
    <3>2. HeldWasMeant(g)
      BY DEF BilateralCore
    <3>3. m = "action" /\ g = h
      BY <1>2, <3>1, <3>2 DEF HeldWasMeant, Bilateral!Moves, Bilateral!None, Parties, Bilateral!ConfirmOf
    <3> QED
      BY <1>1, <1>2, <3>1, <3>2, <3>3 DEF HeldWasMeant, Bilateral!None, MeantMark, MoveStep
  <2> QED
    BY <2>1, <2>2
<1>4. own1[h] = [m \in Bilateral!Moves |-> own1[h][m]] /\ HeldWasMeant(h) /\ PhaseIsHeld(h)
  BY DEF BilateralCore, HeldWasMeant
<1>5. /\ own1'[h] = [own1[h] EXCEPT !["action"] = signature]
      /\ phase'[h] = "acted" /\ own2 \subseteq own2'
  BY <1>1 DEF MoveStep, BilateralCore
<1>6. /\ own1'[h] = [m \in Bilateral!Moves |-> own1'[h][m]] /\ own1'[h]["action"] = signature
      /\ \A m \in Bilateral!Moves \ {"action"} : own1'[h][m] = own1[h][m]
  BY <1>4, <1>5 DEF Bilateral!Moves
<1>7. HeldWasMeant(h)'
  BY <1>2, <1>3, <1>4, <1>5, <1>6 DEF HeldWasMeant, Bilateral!Moves, Parties, Bilateral!ConfirmOf, MeantMark
<1>8. PhaseIsHeld(h)' /\ Stands("action", h)'
  BY <1>2, <1>5, <1>6 DEF PhaseIsHeld, Stands, Bilateral!None
<1>9. "action" \in Bilateral!Moves
  BY DEF Bilateral!Moves
<1> QED
  BY <1>1, <1>7, <1>8, <1>9, MoveKeeps

\* So it is with an acknowledgment, of either party.
LEMMA ConfirmKeeps ==
  ASSUME BilateralCore, NEW h \in Calls, NEW party \in Parties, NEW own \in BOOLEAN,
         Bilateral!Confirm(party, h, own)
  PROVE  BilateralCore'
<1> PICK signature : signature = Bilateral!ConfirmPayload(party, h)
  OBVIOUS
<1> PICK move : move = Bilateral!ConfirmOf(party)
  OBVIOUS
<1>1. /\ phase[h] = "acted" /\ own1' = [own1 EXCEPT ![h][move] = signature]
      /\ Bilateral!Signed(party, "confirm", h, own)
      /\ signature \in Bilateral!Presented(signature, own)
      /\ ledger' = ledger
      /\ \/ phase' = phase /\ own3' = own3
         \/ /\ phase' = [phase EXCEPT ![h] = "bilateral"] /\ own3' = own3 \cup {<<"bilateral", h>>}
            /\ \A p \in Parties : own1'[h][Bilateral!ConfirmOf(p)] # Bilateral!None
  BY DEF Bilateral!Confirm, Parties, Bilateral!ConfirmOf
<1>2. signature.kind = "confirm" /\ signature.handshake = h /\ signature.by = party
  BY DEF Bilateral!ConfirmPayload, Bilateral!Payload
<1>3. PICK next \in {"acted", "bilateral"}, owes \in {{}, {<<"bilateral", h>>}} :
        /\ MoveStep(h, next, move, signature, owes)
        /\ owes # {} => next = "bilateral"
        /\ next = "bilateral" => \A p \in Parties : own1'[h][Bilateral!ConfirmOf(p)] # Bilateral!None
  <2>1. own2 \subseteq own2'
    BY <1>1 DEF Bilateral!Signed
  <2>2. phase = [phase EXCEPT ![h] = "acted"]
    BY <1>1 DEF BilateralCore
  <2> QED
    BY <1>1, <2>1, <2>2 DEF MoveStep
<1>4. MeantMark(party, "confirm", h)'
  <2>1. CASE own
    BY <2>1, <1>1 DEF Bilateral!Signed, MeantMark
  <2>2. CASE ~own
    <3>1. PICK g \in Calls, m \in Bilateral!Moves : own1[g][m] = signature
      BY <1>1, <2>2 DEF Bilateral!Presented
    <3>2. HeldWasMeant(g)
      BY DEF BilateralCore
    <3>3. g = h /\ MeantMark(party, "confirm", h)
      BY <1>2, <3>1, <3>2 DEF HeldWasMeant, Bilateral!Moves, Bilateral!None, Parties, Bilateral!ConfirmOf
    <3> QED
      BY <3>3, <1>3 DEF MeantMark, MoveStep
  <2> QED
    BY <2>1, <2>2
<1>5. own1[h] = [m \in Bilateral!Moves |-> own1[h][m]] /\ HeldWasMeant(h) /\ PhaseIsHeld(h)
  BY DEF BilateralCore, HeldWasMeant
<1>6. /\ own1'[h] = [own1[h] EXCEPT ![move] = signature]
      /\ phase'[h] = next /\ own2 \subseteq own2'
  BY <1>3 DEF MoveStep, BilateralCore
<1>7. move \in {"requester_confirm", "responder_confirm"} /\ move \in Bilateral!Moves
  BY DEF Bilateral!Moves, Bilateral!ConfirmOf
<1>8. /\ own1'[h] = [m \in Bilateral!Moves |-> own1'[h][m]] /\ own1'[h][move] = signature
      /\ \A m \in Bilateral!Moves \ {move} : own1'[h][m] = own1[h][m]
  BY <1>5, <1>6, <1>7
<1>9. HeldWasMeant(h)'
  <2>1. /\ own1'[h]["request"] = own1[h]["request"] /\ own1'[h]["action"] = own1[h]["action"]
    BY <1>7, <1>8 DEF Bilateral!Moves
  <2>2. ASSUME NEW p \in Parties, p # party
        PROVE  own1'[h][Bilateral!ConfirmOf(p)] = own1[h][Bilateral!ConfirmOf(p)]
    BY <1>7, <1>8, <2>2 DEF Bilateral!Moves, Parties, Bilateral!ConfirmOf
  <2> QED
    BY <1>2, <1>4, <1>5, <1>6, <1>8, <2>1, <2>2 DEF HeldWasMeant, MeantMark
<1>10. PhaseIsHeld(h)'
  <2>1. own1'[h]["action"] = own1[h]["action"]
    BY <1>7, <1>8 DEF Bilateral!Moves
  <2> QED
    BY <1>1, <1>3, <1>5, <1>6, <2>1 DEF PhaseIsHeld
<1>11. \A what \in FollowedUp, g \in Calls : <<what, g>> \in owes => g = h /\ Stands(what, g)'
  BY <1>3, <1>6 DEF Stands
<1> QED
  BY <1>3, <1>7, <1>9, <1>10, <1>11, MoveKeeps

LEMMA GhostKeeps ==
  ASSUME BilateralCore, NEW h \in Calls, Bilateral!Ghost(h)
  PROVE  BilateralCore'
<1>1. /\ ledger' = ledger /\ own1' = own1 /\ own2' = own2 /\ phase[h] = "requested"
      /\ phase' = [phase EXCEPT ![h] = "refused"] /\ own3' = own3 \cup {<<"ghost", h>>}
  BY DEF Bilateral!Ghost
<1>2. /\ phase' = [g \in Calls |-> phase'[g]] /\ phase'[h] = "refused"
      /\ \A g \in Calls \ {h} : phase'[g] = phase[g]
  BY <1>1 DEF BilateralCore
<1>3. ASSUME NEW g \in Calls, NEW what \in FollowedUp, Stands(what, g) PROVE Stands(what, g)'
  BY <1>1, <1>2, <1>3 DEF Stands
<1>4. ASSUME NEW i \in DOMAIN ledger PROVE FollowsUp(i)'
  BY <1>1, <1>3 DEF BilateralCore, FollowsUp, Targets, Bilateral!CapsulesOf
<1>5. ASSUME NEW g \in Calls, NEW what \in FollowedUp, <<what, g>> \in own3' PROVE Stands(what, g)'
  BY <1>1, <1>2, <1>3, <1>5 DEF BilateralCore, Stands
<1>6. \A g \in Calls : HeldWasMeant(g)' /\ PhaseIsHeld(g)'
  <2> SUFFICES ASSUME NEW g \in Calls PROVE HeldWasMeant(g)' /\ PhaseIsHeld(g)'
    OBVIOUS
  <2>1. HeldWasMeant(g) /\ PhaseIsHeld(g)
    BY DEF BilateralCore
  <2>2. HeldWasMeant(g)'
    BY <1>1, <2>1 DEF HeldWasMeant, MeantMark
  <2>3. PhaseIsHeld(g)'
    BY <1>1, <1>2, <2>1 DEF PhaseIsHeld
  <2> QED
    BY <2>2, <2>3
<1> QED
  BY <1>1, <1>2, <1>4, <1>5, <1>6 DEF BilateralCore

\* A capsule about a handshake, sealed as it stands and following up the
\* capsules of its request.
CapsuleTargets(capsule) == ({capsule.prior} \ {0}) \cup CitedBy(capsule.marks)

SealStep(capsule) ==
    /\ capsule.call \in Calls
    /\ ledger' = Append(ledger, capsule) \/ ledger' = ledger
    /\ \A what \in FollowedUp : <<what, 0>> \in capsule.marks => Stands(what, capsule.call)
    /\ CapsuleTargets(capsule) \subseteq Bilateral!CapsulesOf(capsule.call, "request")
    /\ <<"request", 0>> \notin capsule.marks => CapsuleTargets(capsule) # {}
    /\ phase' = phase /\ own1' = own1 /\ own2' = own2 /\ own3' \subseteq own3

LEMMA SealedKeeps ==
  ASSUME BilateralCore, NEW capsule, SealStep(capsule)
  PROVE  BilateralCore'
<1>0. /\ capsule.call \in Calls
      /\ ledger' = Append(ledger, capsule) \/ ledger' = ledger
      /\ \A what \in FollowedUp : <<what, 0>> \in capsule.marks => Stands(what, capsule.call)
      /\ CapsuleTargets(capsule) \subseteq Bilateral!CapsulesOf(capsule.call, "request")
      /\ <<"request", 0>> \notin capsule.marks => CapsuleTargets(capsule) # {}
      /\ phase' = phase /\ own1' = own1 /\ own2' = own2 /\ own3' \subseteq own3
  BY DEF SealStep
<1>1. CASE ledger' = ledger
  BY <1>0, <1>1 DEF CitedBy, BilateralCore, HeldWasMeant, PhaseIsHeld, MeantMark, Stands, FollowsUp, Targets, Bilateral!CapsulesOf
<1>2. CASE ledger' = Append(ledger, capsule)
  <2> PICK n : n = Len(ledger) + 1
    OBVIOUS
  <2>1. Grown(ledger', ledger, capsule)
    BY <1>2, OneMore DEF BilateralCore
  <2>2. /\ IsSeq(ledger') /\ DOMAIN ledger' = DOMAIN ledger \cup {n} /\ ledger'[n] = capsule
        /\ \A i \in DOMAIN ledger : ledger'[i] = ledger[i]
    BY <2>1 DEF Grown
  <2>3. ASSUME NEW h PROVE Bilateral!CapsulesOf(h, "request") \subseteq Bilateral!CapsulesOf(h, "request")'
    BY <2>2 DEF Bilateral!CapsulesOf
  <2>4. ASSUME NEW i \in DOMAIN ledger PROVE FollowsUp(i)'
    <3>1. FollowsUp(i) /\ Targets(i)' = Targets(i)
      BY <2>2 DEF BilateralCore, Targets
    <3> QED
      BY <1>0, <2>2, <2>3, <3>1 DEF FollowsUp, Stands
  <2>5. FollowsUp(n)'
    BY <1>0, <2>2, <2>3 DEF FollowsUp, Stands, Targets, CapsuleTargets
  <2>6. \A g \in Calls : HeldWasMeant(g)' /\ PhaseIsHeld(g)'
    <3> SUFFICES ASSUME NEW g \in Calls PROVE HeldWasMeant(g)' /\ PhaseIsHeld(g)'
      OBVIOUS
    <3>1. HeldWasMeant(g) /\ PhaseIsHeld(g)
      BY DEF BilateralCore
    <3>2. HeldWasMeant(g)'
      BY <1>0, <3>1 DEF HeldWasMeant, MeantMark
    <3>3. PhaseIsHeld(g)'
      BY <1>0, <3>1 DEF PhaseIsHeld
    <3> QED
      BY <3>2, <3>3
  <2>7. \A h \in Calls, what \in FollowedUp : <<what, h>> \in own3' => Stands(what, h)'
    BY <1>0 DEF BilateralCore, Stands
  <2> QED
    BY <1>0, <2>2, <2>4, <2>5, <2>6, <2>7 DEF BilateralCore
<1> QED
  BY <1>0, <1>1, <1>2

LEMMA SealRequestKeeps ==
  ASSUME BilateralCore, NEW h \in Calls, NEW sealed \in BOOLEAN, Bilateral!SealRequest(h, sealed)
  PROVE  BilateralCore'
<1> PICK capsule : capsule = Bilateral!Capsule(h, "dispatched", FALSE, 0, {<<"request", 0>>})
  OBVIOUS
<1>1. /\ \/ ledger' = Append(ledger, capsule)
         \/ ledger' = ledger
      /\ phase' = phase /\ own1' = own1 /\ own2' = own2 /\ own3' \subseteq own3
  BY DEF Bilateral!SealRequest, Bilateral!Seal
<1>2. capsule.call = h /\ capsule.prior = 0 /\ capsule.marks = {<<"request", 0>>}
  BY DEF Bilateral!Capsule
<1>3. ASSUME NEW what \in FollowedUp, <<what, 0>> \in capsule.marks PROVE Stands(what, h)
  BY <1>2, <1>3 DEF Stands
<1>4. CitedBy(capsule.marks) = {}
  BY <1>2, CitesOfMarks
<1>5. capsule.prior = 0 /\ ({capsule.prior} \ {0}) \cup CitedBy(capsule.marks) = {}
  BY <1>2, <1>4
<1>6. <<"request", 0>> \in capsule.marks
  BY <1>2
<1>7. SealStep(capsule)
  BY <1>1, <1>2, <1>3, <1>5, <1>6 DEF SealStep, CapsuleTargets
<1> QED
  BY <1>7, SealedKeeps

LEMMA SealFollowUpKeeps ==
  ASSUME BilateralCore, NEW party, NEW h \in Calls, NEW what \in FollowedUp \ {"request"}, NEW status,
         NEW sealed \in BOOLEAN, Bilateral!SealFollowUp(party, h, what, status, sealed)
  PROVE  BilateralCore'
<1>1. PICK target \in Bilateral!CapsulesOf(h, "request") :
          Bilateral!Seal(Bilateral!FollowUp(party, h, what, status, target), sealed)
  BY DEF Bilateral!SealFollowUp
<1> PICK capsule : capsule = Bilateral!FollowUp(party, h, what, status, target)
  OBVIOUS
<1>2. /\ \/ ledger' = Append(ledger, capsule)
         \/ ledger' = ledger
      /\ phase' = phase /\ own1' = own1 /\ own2' = own2 /\ own3' \subseteq own3
      /\ <<what, h>> \in own3
  BY <1>1 DEF Bilateral!SealFollowUp, Bilateral!Seal
<1>3. target \in Nat \ {0}
  BY DEF BilateralCore, IsSeq, Bilateral!CapsulesOf
<1>4. /\ capsule.call = h
      /\ \/ capsule.prior = target /\ capsule.marks = {<<what, 0>>}
         \/ capsule.prior = 0 /\ capsule.marks = {<<what, 0>>, <<"cites", target>>}
  BY DEF Bilateral!FollowUp, Bilateral!Capsule
<1>5. ASSUME NEW w \in FollowedUp, <<w, 0>> \in capsule.marks PROVE Stands(w, h)
  <2>1. w = what
    BY <1>3, <1>4, <1>5
  <2> QED
    BY <2>1, <1>2 DEF BilateralCore
<1>6. ({capsule.prior} \ {0}) \cup CitedBy(capsule.marks) = {target}
  <2>1. what # "cites"
    BY DEF FollowedUp
  <2> QED
    <3>1. CASE capsule.prior = target /\ capsule.marks = {<<what, 0>>}
      <4>1. CitedBy(capsule.marks) = {}
        BY <2>1, <3>1, CitesOfMarks
      <4> QED
        BY <3>1, <4>1, <1>3
    <3>2. CASE capsule.prior = 0 /\ capsule.marks = {<<what, 0>>, <<"cites", target>>}
      <4>1. CitedBy(capsule.marks) = {target}
        <5>1. CitedBy({<<what, 0>>, <<"cites", target>>}) = {target}
          BY <2>1, CitesOfMarks, Zenon
        <5> QED
          BY <3>2, <5>1
      <4> QED
        BY <3>2, <4>1
    <3> QED
      BY <1>4, <3>1, <3>2
<1>7. SealStep(capsule)
  <2>1. CapsuleTargets(capsule) \subseteq Bilateral!CapsulesOf(capsule.call, "request")
    BY <1>4, <1>6 DEF CapsuleTargets
  <2> QED
    BY <1>2, <1>4, <1>5, <1>6, <2>1 DEF SealStep, CapsuleTargets
<1> QED
  BY <1>7, SealedKeeps

LEMMA BilateralStep == BilateralInv /\ [Next]_vars => BilateralInv'
<1> SUFFICES ASSUME BilateralInv, [Next]_vars, adapter' = "bilateral"
             PROVE  BilateralCore'
  BY DEF BilateralInv
<1>1. adapter = "bilateral" /\ BilateralCore
  BY DEF Next, vars, BilateralInv
<1>2. CASE Bilateral!BilateralNext
  BY <1>1, <1>2, OpenKeeps, RespondKeeps, ConfirmKeeps, GhostKeeps, SealRequestKeeps, SealFollowUpKeeps
     DEF Bilateral!BilateralNext, Parties, FollowedUp
<1>3. CASE UNCHANGED vars
  <2>1. ledger' = ledger /\ phase' = phase /\ own1' = own1 /\ own2' = own2 /\ own3' = own3
    BY <1>3 DEF vars, emitterVars
  <2> QED
    BY <1>1, <2>1 DEF BilateralCore, HeldWasMeant, PhaseIsHeld, MeantMark, Stands, FollowsUp, Targets, Bilateral!CapsulesOf
<1> QED
  BY <1>1, <1>2, <1>3 DEF Next

\* capsule_emit.bilateral: for any number of handshakes, and whatever held
\* signature is presented again, what the parties hold is what happened.
THEOREM HandshakesAreTrue == Spec => []ExchangesAreTrue
<1>1. Spec => []BilateralInv
  BY BilateralStart, BilateralStep, PTL DEF Spec
<1> QED
  BY <1>1, BilateralHolds, PTL

-----------------------------------------------------------------------------
(* Records and the ledgers they go to                                       *)

SlotMember == [slot : Sealing!Slots, id : Nat]

CallSet ==
    [doing : {"resolve", "append", "signer"}, ledger : Ledgers, members : Seq(SlotMember),
     resolved : Seq(SlotMember), confirms : Nat, refs : SUBSET Nat, built : Nat]

AreAppended(members) == \A k \in DOMAIN members : members[k].id \in Sealing!Appended

\* What a built record binds and follows up is in a ledger already.
RecordOk(id) ==
    LET record == own1[id]
    IN /\ record.members = [k \in 1..Len(record.members) |-> record.members[k]]
       /\ AreAppended(record.members)
       /\ \A k \in DOMAIN record.members : record.members[k].id < id
       /\ \A j, k \in DOMAIN record.members : j < k => record.members[j].slot <= record.members[k].slot
       /\ record.slot => record.cites \subseteq {record.target}
       /\ record.target # 0 => record.target \in Sealing!Appended

\* A record is fit for ledger l: its parent is there, and its target is its
\* parent or cited.
Fits(id, l) ==
    LET record == own1[id]
    IN /\ record.parent # 0 => Sealing!InLedger(record.parent, l)
       /\ record.target # 0 => IF Sealing!InLedger(record.target, l) THEN record.parent = record.target
                               ELSE record.target \in record.cites

CallOk(t) ==
    LET call == own3[t]
    IN call # Sealing!Idle =>
          /\ call \in CallSet
          /\ \A k \in DOMAIN call.members : call.members[k].id \in {0} \cup Sealing!Appended
          /\ AreAppended(call.resolved)
          /\ call.confirms \in {0} \cup Sealing!Appended
          /\ call.doing = "resolve" \/ call.members # <<>> => Len(call.members) + Len(call.resolved) = 2
          /\ call.doing = "append" => /\ call.built \in DOMAIN own1 \ Sealing!Appended
                                      /\ Fits(call.built, call.ledger)
          /\ call.doing = "signer" => call.built \in Sealing!Appended

Appends(t) == own3[t] # Sealing!Idle /\ own3[t].doing = "append"

SealingCore ==
    /\ IsSeq(own1)
    /\ own2 \in [Ledgers -> Seq(Nat)]
    /\ Sealing!Appended \subseteq DOMAIN own1
    /\ own3 = [t \in Threads |-> own3[t]]
    /\ \A id \in DOMAIN own1 : RecordOk(id)
    /\ \A t \in Threads : CallOk(t)
    /\ \A t, u \in Threads : Appends(t) /\ Appends(u) /\ own3[t].built = own3[u].built => t = u
    /\ own4 \subseteq Sealing!Appended
    /\ own5 = {}
    /\ Sealing!FollowUpsAreInStream

SealingInv == adapter = "sealing" => SealingCore

LEMMA SealingStart == Init => SealingInv
<1>1. SUFFICES ASSUME Sealing!SealingInit PROVE SealingCore
  BY DEF Init, SealingInv
<1>2. /\ own1 = <<>> /\ own2 = [l \in Ledgers |-> <<>>] /\ own3 = [t \in Threads |-> Sealing!Idle]
      /\ own4 = {} /\ own5 = {}
  BY <1>1 DEF Sealing!SealingInit
<1>3. IsSeq(<<>>) /\ DOMAIN <<>> = {} /\ <<>> \in Seq(Nat)
  <2>1. <<>> \in Seq(Nat) /\ DOMAIN <<>> = {}
    OBVIOUS
  <2> QED
    BY <2>1, SeqIs
<1>4. Sealing!Appended = {}
  BY <1>2, <1>3 DEF Sealing!Appended
<1>5. Sealing!FollowUpsAreInStream
  BY <1>2, <1>3 DEF Sealing!FollowUpsAreInStream
<1>6. \A t \in Threads : own3[t] = Sealing!Idle
  BY <1>2
<1> QED
  BY <1>2, <1>3, <1>4, <1>5, <1>6 DEF SealingCore, CallOk, Appends

LEMMA SealingHolds == SealingInv => RecordsAreWhole
<1> SUFFICES ASSUME SealingCore PROVE Sealing!RecordsAreWhole
  BY DEF SealingInv, RecordsAreWhole
<1>1. Sealing!CompositionsBindWhatIsThere
  BY DEF SealingCore, RecordOk, AreAppended, Sealing!CompositionsBindWhatIsThere
<1> QED
  BY <1>1 DEF SealingCore, Sealing!RecordsAreWhole, Sealing!HandedIsThere, Sealing!OnlyCallersAreRefused

LEMMA AppendedIs ==
  ASSUME NEW id
  PROVE  id \in Sealing!Appended <=> \E l \in Ledgers : Sealing!InLedger(id, l)
BY DEF Sealing!Appended, Sealing!InLedger

\* The two members of a composition, sorted: they are the resolved ones.
LEMMA ComposedIs ==
  ASSUME NEW resolved \in Seq(SlotMember), Len(resolved) = 2
  PROVE  LET members == Sealing!Composed(resolved)
         IN /\ members = [k \in 1..2 |-> members[k]] /\ DOMAIN members = 1..2 /\ Len(members) = 2
            /\ \A k \in 1..2 : \E i \in 1..2 : members[k].id = resolved[i].id
            /\ \A j, k \in 1..2 : j < k => members[j].slot <= members[k].slot
<1> DEFINE slot == [i \in DOMAIN resolved |-> Sealing!SlotOf(resolved, resolved[i].id)]
           Sorted(p) == \A i, j \in DOMAIN resolved :
                            i < j => \/ slot[p[i]] < slot[p[j]]
                                     \/ slot[p[i]] = slot[p[j]] /\ p[i] < p[j]
           order == CHOOSE p \in [DOMAIN resolved -> DOMAIN resolved] : Sorted(p)
<1>1. DOMAIN resolved = 1..2 /\ 1..2 = {1, 2} /\ \A i \in 1..2 : resolved[i] \in SlotMember
  OBVIOUS
<1>2. ASSUME NEW i \in 1..2 PROVE Sealing!SlotOf(resolved, resolved[i].id) \in Nat
  <2> DEFINE named == {j \in DOMAIN resolved : resolved[j].id = resolved[i].id}
  <2>1. \E j \in named : \A k \in named : k <= j
    BY <1>1
  <2>2. PICK j \in DOMAIN resolved : Sealing!SlotOf(resolved, resolved[i].id) = resolved[j].slot
    BY <2>1 DEF Sealing!SlotOf
  <2> QED
    BY <1>1, <2>2 DEF SlotMember, Sealing!Slots
<1>3. slot[1] \in Nat /\ slot[2] \in Nat
  BY <1>1, <1>2
<1> HIDE DEF slot
<1>4. \E p \in [DOMAIN resolved -> DOMAIN resolved] : Sorted(p)
  <2>1. CASE slot[1] <= slot[2]
    <3> DEFINE p == [i \in DOMAIN resolved |-> i]
    <3>1. p \in [DOMAIN resolved -> DOMAIN resolved] /\ Sorted(p)
      BY <1>1, <1>3, <2>1
    <3> QED
      BY <3>1
  <2>2. CASE slot[2] < slot[1]
    <3> DEFINE p == [i \in DOMAIN resolved |-> 3 - i]
    <3>1. p \in [DOMAIN resolved -> DOMAIN resolved] /\ Sorted(p)
      BY <1>1, <1>3, <2>2
    <3> QED
      BY <3>1
  <2> QED
    BY <1>3, <2>1, <2>2
<1>5. order \in [1..2 -> 1..2] /\ Sorted(order)
  BY <1>1, <1>4
<1>6. Sealing!Composed(resolved)
        = [k \in 1..2 |-> [slot |-> slot[order[k]], id |-> resolved[order[k]].id]]
  BY <1>1 DEF Sealing!Composed, slot
<1> HIDE DEF order
<1> QED
  BY <1>1, <1>3, <1>5, <1>6

\* A call as CallOk has it, whichever thread is in it.
GoodCall(call) ==
    /\ call \in CallSet
    /\ \A k \in DOMAIN call.members : call.members[k].id \in {0} \cup Sealing!Appended
    /\ AreAppended(call.resolved)
    /\ call.confirms \in {0} \cup Sealing!Appended
    /\ call.members # <<>> => Len(call.members) + Len(call.resolved) = 2

\* Two members, resolved or not yet.
Binds(call) == call.doing = "resolve" /\ Len(call.members) + Len(call.resolved) = 2

\* A request is lawful unless a caller made it up, and what it follows up or
\* binds is in a ledger.
GoodRequest(request) ==
    /\ Sealing!Lawful(request) \/ request.form = "payload"
    /\ request.confirms \in {0} \cup Sealing!Appended
    /\ request.form = "slot" => request.refs = {}
    /\ request.members = [k \in 1..Len(request.members) |-> request.members[k]]
    /\ AreAppended(request.members)
    /\ \A j, k \in DOMAIN request.members : j < k => request.members[j].slot <= request.members[k].slot

\* A record as it stands in a ledger, after the records before.
StandsAfter(record, before) ==
    /\ record.parent # 0 => record.parent \in before
    /\ record.target # 0 => IF record.target \in before THEN record.parent = record.target
                            ELSE record.target \in record.cites

\* A step that appends nothing, after which thread t is in call next.
CallStep(t, next) ==
    /\ own2' = own2 /\ own4' = own4 /\ own5' = own5
    /\ own3' = [own3 EXCEPT ![t] = next]
    /\ ~Appends(t)

LEMMA SameLedgers ==
  ASSUME own2' = own2
  PROVE  /\ Sealing!Appended' = Sealing!Appended
         /\ \A id, l : Sealing!InLedger(id, l)' = Sealing!InLedger(id, l)
BY DEF Sealing!Appended, Sealing!InLedger

LEMMA CallStepKeeps ==
  ASSUME SealingCore, NEW t \in Threads, NEW next, CallStep(t, next), own1' = own1,
         next # Sealing!Idle => GoodCall(next) /\ Binds(next)
  PROVE  SealingCore'
<1>1. /\ own2' = own2 /\ own4' = own4 /\ own5' = own5 /\ own1' = own1
      /\ own3' = [own3 EXCEPT ![t] = next] /\ own3 = [u \in Threads |-> own3[u]]
  BY DEF CallStep, SealingCore
<1>2. /\ Sealing!Appended' = Sealing!Appended
      /\ \A id, l : Sealing!InLedger(id, l)' = Sealing!InLedger(id, l)
  BY <1>1, SameLedgers
<1>3. /\ own3'[t] = next /\ own3' = [u \in Threads |-> own3'[u]]
      /\ \A u \in Threads \ {t} : own3'[u] = own3[u]
  BY <1>1
<1>4. ASSUME NEW u \in Threads PROVE CallOk(u)'
  <2>1. CASE u = t
    BY <2>1, <1>2, <1>3 DEF CallOk, GoodCall, Binds, AreAppended
  <2>2. CASE u # t
    <3>1. CallOk(u) /\ own3'[u] = own3[u]
      BY <2>2, <1>3 DEF SealingCore
    <3> QED
      BY <3>1, <1>1, <1>2 DEF CallOk, AreAppended, Fits
  <2> QED
    BY <2>1, <2>2
<1>5. ASSUME NEW id \in DOMAIN own1 PROVE RecordOk(id)'
  BY <1>1, <1>2 DEF SealingCore, RecordOk, AreAppended
<1>6. \A u, v \in Threads : Appends(u)' /\ Appends(v)' /\ own3'[u].built = own3'[v].built => u = v
  <2>1. ~Appends(t)'
    BY <1>3 DEF Appends, Binds
  <2> QED
    BY <2>1, <1>3 DEF Appends, SealingCore
<1>7. Sealing!FollowUpsAreInStream'
  BY <1>1 DEF SealingCore, Sealing!FollowUpsAreInStream, Sealing!Before
<1> QED
  BY <1>1, <1>2, <1>3, <1>4, <1>5, <1>6, <1>7 DEF SealingCore

LEMMA BuiltKeeps ==
  ASSUME SealingCore, NEW t \in Threads, NEW call, GoodCall(call), NEW request, GoodRequest(request),
         NEW next, next = [call EXCEPT !.doing = "append", !.built = Len(own1) + 1],
         CallStep(t, next), own1' = Append(own1, Sealing!RecordOf(request, call.ledger))
  PROVE  SealingCore'
<1> PICK n : n = Len(own1) + 1
  OBVIOUS
<1> PICK record : record = Sealing!RecordOf(request, call.ledger)
  OBVIOUS
<1>1. /\ own2' = own2 /\ own4' = own4 /\ own5' = own5
      /\ own3' = [own3 EXCEPT ![t] = next] /\ own3 = [u \in Threads |-> own3[u]]
  BY DEF CallStep, SealingCore
<1>2. /\ Sealing!Appended' = Sealing!Appended
      /\ \A id, l : Sealing!InLedger(id, l)' = Sealing!InLedger(id, l)
  BY <1>1, SameLedgers
<1>3. Grown(own1', own1, record)
  BY OneMore DEF SealingCore
<1>4. /\ IsSeq(own1') /\ DOMAIN own1' = DOMAIN own1 \cup {n} /\ own1'[n] = record
      /\ n \in Nat \ {0} /\ n \notin DOMAIN own1
      /\ \A id \in DOMAIN own1 : own1'[id] = own1[id] /\ id \in Nat /\ id < n
  BY <1>3 DEF Grown
<1>5. n \notin Sealing!Appended /\ \A id \in Sealing!Appended : id \in Nat /\ id < n
  BY <1>4 DEF SealingCore
<1>6. /\ next \in CallSet /\ next.doing = "append" /\ next.built = n
      /\ next.ledger = call.ledger /\ next.members = call.members /\ next.resolved = call.resolved
      /\ next.confirms = call.confirms
      /\ call.ledger \in Ledgers /\ next # Sealing!Idle
  BY <1>4 DEF GoodCall, CallSet, Sealing!Idle
<1>7. /\ own3'[t] = next /\ own3' = [u \in Threads |-> own3'[u]]
      /\ \A u \in Threads \ {t} : own3'[u] = own3[u]
  BY <1>1
<1>8. /\ record.target = request.confirms /\ record.members = request.members
      /\ record.slot = (request.form = "slot")
      /\ record.parent = IF Sealing!InLedger(request.confirms, call.ledger) THEN request.confirms ELSE 0
      /\ record.cites = IF request.confirms = 0 \/ Sealing!InLedger(request.confirms, call.ledger)
                        THEN request.refs ELSE request.refs \cup {request.confirms}
  BY DEF Sealing!RecordOf, Sealing!CiteForeign
<1>9. Fits(n, call.ledger)'
  BY <1>2, <1>4, <1>8 DEF Fits
<1>10. ASSUME NEW u \in Threads PROVE CallOk(u)'
  <2>1. CASE u = t
    BY <2>1, <1>2, <1>4, <1>5, <1>6, <1>7, <1>9 DEF CallOk, GoodCall, AreAppended
  <2>2. CASE u # t
    <3>1. CallOk(u) /\ own3'[u] = own3[u]
      BY <2>2, <1>7 DEF SealingCore
    <3> QED
      BY <3>1, <1>2, <1>4 DEF CallOk, AreAppended, Fits
  <2> QED
    BY <2>1, <2>2
<1>11. ASSUME NEW id \in DOMAIN own1 PROVE RecordOk(id)'
  <2>1. RecordOk(id) /\ own1'[id] = own1[id] /\ Sealing!Appended' = Sealing!Appended
    BY <1>2, <1>4 DEF SealingCore
  <2> QED
    BY <2>1 DEF RecordOk, AreAppended
<1>12. RecordOk(n)'
  <2>1. record.slot => record.cites \subseteq {record.target}
    BY <1>8 DEF GoodRequest
  <2> QED
    BY <2>1, <1>2, <1>4, <1>5, <1>8 DEF RecordOk, AreAppended, GoodRequest
<1>13. \A u, v \in Threads : Appends(u)' /\ Appends(v)' /\ own3'[u].built = own3'[v].built => u = v
  <2>1. \A u \in Threads \ {t} : Appends(u)' => Appends(u) /\ own3'[u].built \in DOMAIN own1
    BY <1>7 DEF Appends, SealingCore, CallOk
  <2> SUFFICES ASSUME NEW u \in Threads, NEW v \in Threads, Appends(u)', Appends(v)',
                      own3'[u].built = own3'[v].built, u # v
               PROVE  FALSE
    OBVIOUS
  <2>2. own3'[t].built = n /\ n \notin DOMAIN own1
    BY <1>4, <1>6, <1>7
  <2>3. u # t /\ v # t
    BY <2>1, <2>2
  <2>4. own3'[u] = own3[u] /\ own3'[v] = own3[v] /\ Appends(u) /\ Appends(v)
    BY <2>1, <2>3, <1>7
  <2> QED
    BY <2>4 DEF SealingCore
<1>14. Sealing!FollowUpsAreInStream'
  <2>1. \A l \in Ledgers : \A i \in DOMAIN own2[l] : own1'[own2[l][i]] = own1[own2[l][i]]
    BY <1>4 DEF SealingCore, Sealing!Appended
  <2>2. \A l \in Ledgers : \A i \in DOMAIN own2[l] : Sealing!Before(l, i)' = Sealing!Before(l, i)
    BY <1>1 DEF Sealing!Before
  <2>3. /\ \A l \in Ledgers : \A i \in DOMAIN own2[l] :
               StandsAfter(own1[own2[l][i]], Sealing!Before(l, i))
        /\ own2' = own2
    BY <1>1 DEF SealingCore, Sealing!FollowUpsAreInStream, StandsAfter
  <2>4. \A l \in Ledgers : \A i \in DOMAIN own2[l] :
            StandsAfter(own1'[own2[l][i]], Sealing!Before(l, i)')
    BY <2>1, <2>2, <2>3
  <2> QED
    BY <2>3, <2>4 DEF Sealing!FollowUpsAreInStream, StandsAfter
<1>15. Sealing!Appended \subseteq DOMAIN own1'
  BY <1>4 DEF SealingCore
<1> QED
  BY <1>1, <1>2, <1>4, <1>7, <1>10, <1>11, <1>12, <1>13, <1>14, <1>15 DEF SealingCore

\* Either way a build ends, the next call is good or over.
LEMMA BuildKeeps ==
  ASSUME SealingCore, NEW t \in Threads, NEW call, GoodCall(call), NEW request, GoodRequest(request),
         NEW succeeds \in BOOLEAN, ~Appends(t), Sealing!Build(t, call, request, succeeds)
  PROVE  SealingCore'
<1>1. CASE Sealing!Lawful(request) /\ succeeds
  <2> PICK next : next = [call EXCEPT !.doing = "append", !.built = Len(own1) + 1]
    OBVIOUS
  <2>1. CallStep(t, next) /\ own1' = Append(own1, Sealing!RecordOf(request, call.ledger))
    BY <1>1 DEF Sealing!Build, CallStep, Sealing!Become
  <2> QED
    BY <2>1, BuiltKeeps
<1>2. CASE ~(Sealing!Lawful(request) /\ succeeds)
  <2>1. CallStep(t, Sealing!Idle) /\ own1' = own1
    BY <1>2 DEF Sealing!Build, CallStep, Sealing!Become, GoodRequest
  <2> QED
    BY <2>1, CallStepKeeps
<1> QED
  BY <1>1, <1>2

LEMMA RequestIsGood ==
  ASSUME SealingCore, NEW form \in {"payload", "log", "leg", "adjudication"},
         NEW confirms \in {0} \cup own4, NEW relation,
         NEW request, request = Sealing!Request(form, confirms, relation),
         form = "payload" \/ Sealing!Lawful(request)
  PROVE  GoodRequest(request)
<1>1. /\ request.form = form /\ request.confirms = confirms /\ request.members = <<>>
  BY DEF Sealing!Request
<1>2. own4 \subseteq Sealing!Appended
  BY DEF SealingCore
<1>3. <<>> = [k \in 1..Len(<<>>) |-> <<>>[k]] /\ DOMAIN <<>> = {}
  OBVIOUS
<1> QED
  BY <1>1, <1>2, <1>3 DEF GoodRequest, AreAppended

LEMMA RequestsAreGood ==
  ASSUME SealingCore,
         NEW request \in Sealing!PayloadRequests \cup {Sealing!LogRequest}
                         \cup {Sealing!LegRequest(prior) : prior \in {0} \cup own4}
                         \cup {Sealing!AdjudicationRequest(half) : half \in own4}
  PROVE  GoodRequest(request)
<1>1. CASE request \in Sealing!PayloadRequests
  <2>1. PICK confirms \in {0} \cup own4, relation \in {"confirms", "supersedes", "unregistered"} :
            request = Sealing!Request("payload", confirms, relation)
    BY <1>1 DEF Sealing!PayloadRequests
  <2> QED
    BY <2>1, RequestIsGood
<1>2. CASE request = Sealing!LogRequest
  <2>1. request = Sealing!Request("log", 0, "confirms") /\ Sealing!Lawful(request)
    BY <1>2 DEF Sealing!LogRequest, Sealing!Lawful, Sealing!Request
  <2> QED
    BY <2>1, RequestIsGood
<1>3. ASSUME NEW prior \in {0} \cup own4, request = Sealing!LegRequest(prior)
      PROVE  GoodRequest(request)
  <2> DEFINE relation == IF prior = 0 THEN "none" ELSE "follows"
  <2>1. request = Sealing!Request("leg", prior, relation)
    BY <1>3 DEF Sealing!LegRequest
  <2>2. Sealing!Lawful(request)
    BY <2>1 DEF Sealing!Lawful, Sealing!Request
  <2> HIDE DEF relation
  <2> QED
    BY <2>1, <2>2, RequestIsGood
<1>4. ASSUME NEW half \in own4, request = Sealing!AdjudicationRequest(half)
      PROVE  GoodRequest(request)
  <2>1. request = Sealing!Request("adjudication", half, "confirms") /\ Sealing!Lawful(request)
    BY <1>4 DEF Sealing!AdjudicationRequest, Sealing!Lawful, Sealing!Request
  <2> QED
    BY <2>1, RequestIsGood
<1> QED
  BY <1>1, <1>2, <1>3, <1>4

LEMMA EmitOneKeeps ==
  ASSUME SealingCore, NEW t \in Threads, NEW l \in Ledgers, NEW request, GoodRequest(request),
         NEW succeeds \in BOOLEAN, Sealing!EmitOne(t, l, request, succeeds)
  PROVE  SealingCore'
<1> PICK call : call = Sealing!Call(l, <<>>, 0, {})
  OBVIOUS
<1>1. /\ call.ledger = l /\ call.members = <<>> /\ call.resolved = <<>> /\ call.confirms = 0
      /\ call.doing = "resolve" /\ call.built = 0
      /\ call \in CallSet
  <2>1. <<>> \in Seq(SlotMember)
    OBVIOUS
  <2> QED
    BY <2>1 DEF Sealing!Call, CallSet
<1>2. GoodCall(call)
  <2>1. DOMAIN <<>> = {}
    OBVIOUS
  <2> QED
    BY <1>1, <2>1 DEF GoodCall, AreAppended
<1>3. ~Appends(t) /\ Sealing!Build(t, call, request, succeeds)
  BY DEF Sealing!EmitOne, Appends
<1> QED
  BY <1>2, <1>3, BuildKeeps

LEMMA SealSlotsKeeps ==
  ASSUME SealingCore, NEW t \in Threads, NEW l \in Ledgers,
         NEW first \in Sealing!SlotMembers, NEW second \in Sealing!SlotMembers,
         NEW confirms \in {0} \cup own4, Sealing!SealSlots(t, l, <<first, second>>, confirms, own4)
  PROVE  SealingCore'
<1> PICK call : call = Sealing!Call(l, <<first, second>>, confirms, own4)
  OBVIOUS
<1>1. own4 \subseteq Sealing!Appended /\ \A id \in Sealing!Appended : id \in Nat
  <2>1. \A id \in DOMAIN own1 : id \in Nat
    BY DEF SealingCore, IsSeq
  <2> QED
    BY <2>1 DEF SealingCore
<1>2. /\ first \in SlotMember /\ second \in SlotMember
      /\ first.id \in {0} \cup Sealing!Appended /\ second.id \in {0} \cup Sealing!Appended
  BY <1>1 DEF Sealing!SlotMembers, SlotMember
<1>3. /\ call.ledger = l /\ call.members = <<first, second>> /\ call.resolved = <<>>
      /\ call.doing = "resolve" /\ call.confirms = confirms /\ call \in CallSet
  <2>1. <<>> \in Seq(SlotMember) /\ <<first, second>> \in Seq(SlotMember)
    BY <1>2
  <2> QED
    BY <2>1, <1>1 DEF Sealing!Call, CallSet
<1>4. GoodCall(call) /\ Binds(call)
  <2>1. DOMAIN <<>> = {} /\ Len(<<>>) = 0 /\ DOMAIN <<first, second>> = {1, 2} /\ Len(<<first, second>>) = 2
        /\ <<first, second>>[1] = first /\ <<first, second>>[2] = second
    OBVIOUS
  <2>2. \A k \in DOMAIN call.members : call.members[k] = first \/ call.members[k] = second
    BY <1>3, <2>1
  <2>3. Len(call.members) = 2 /\ Len(call.resolved) = 0 /\ DOMAIN call.resolved = {}
    BY <1>3, <2>1, Zenon
  <2>4. \A k \in DOMAIN call.members : call.members[k].id \in {0} \cup Sealing!Appended
    BY <1>2, <2>2
  <2>5. AreAppended(call.resolved)
    BY <2>3 DEF AreAppended
  <2>6. Len(call.members) + Len(call.resolved) = 2
    <3>1. 2 + 0 = 2
      OBVIOUS
    <3> QED
      BY <3>1, <2>3, Zenon
  <2> QED
    BY <1>1, <1>3, <2>4, <2>5, <2>6 DEF GoodCall, Binds
<1>5. CallStep(t, call) /\ own1' = own1
  BY DEF Sealing!SealSlots, CallStep, Appends, Sealing!Become
<1> QED
  BY <1>4, <1>5, CallStepKeeps

\* A call under way is a good one.
LEMMA CallIsGood ==
  ASSUME SealingCore, NEW t \in Threads, NEW call, call = own3[t], call # Sealing!Idle
  PROVE  /\ GoodCall(call)
         /\ call.doing = "resolve" => Len(call.members) + Len(call.resolved) = 2
         /\ call.doing = "append" => /\ call.built \in DOMAIN own1 \ Sealing!Appended
                                     /\ Fits(call.built, call.ledger)
         /\ call.doing = "signer" => call.built \in Sealing!Appended
BY DEF SealingCore, CallOk, GoodCall

\* One member is resolved: what is left, and what is done.
Resolution(left, done, members, resolved, member) ==
    /\ left \in Seq(SlotMember) /\ done \in Seq(SlotMember)
    /\ Len(left) + Len(done) = 2
    /\ \A k \in DOMAIN left : \E i \in DOMAIN members : left[k] = members[i]
    /\ \A k \in DOMAIN done : done[k] = member \/ (k \in DOMAIN resolved /\ done[k] = resolved[k])

LEMMA Resolves ==
  ASSUME NEW members \in Seq(SlotMember), members # <<>>, NEW resolved \in Seq(SlotMember),
         Len(members) + Len(resolved) = 2, NEW member \in SlotMember
  PROVE  Resolution(Tail(members), Append(resolved, member), members, resolved, member)
<1> PICK left : left = Tail(members)
  OBVIOUS
<1> PICK done : done = Append(resolved, member)
  OBVIOUS
<1>1. /\ Len(members) \in Nat \ {0} /\ DOMAIN members = 1..Len(members)
      /\ Len(resolved) \in Nat /\ DOMAIN resolved = 1..Len(resolved)
  OBVIOUS
<1>2. /\ left \in Seq(SlotMember) /\ Len(left) = Len(members) - 1
      /\ DOMAIN left = 1..(Len(members) - 1)
      /\ \A k \in 1..(Len(members) - 1) : left[k] = members[k + 1]
  BY <1>1
<1>3. /\ done \in Seq(SlotMember) /\ Len(done) = Len(resolved) + 1
      /\ DOMAIN done = 1..(Len(resolved) + 1)
      /\ \A k \in 1..Len(resolved) : done[k] = resolved[k]
      /\ done[Len(resolved) + 1] = member
  BY <1>1
<1>4. \A k \in DOMAIN left : k + 1 \in DOMAIN members /\ left[k] = members[k + 1]
  BY <1>1, <1>2
<1>5. \A k \in DOMAIN done : done[k] = member \/ (k \in DOMAIN resolved /\ done[k] = resolved[k])
  <2> TAKE k \in DOMAIN done
  <2>1. k \in 1..Len(resolved) \/ k = Len(resolved) + 1
    BY <1>1, <1>3
  <2>2. CASE k \in 1..Len(resolved)
    <3>1. k \in DOMAIN resolved /\ done[k] = resolved[k]
      BY <2>2, <1>1, <1>3, Zenon
    <3> QED
      BY <3>1
  <2>3. CASE k = Len(resolved) + 1
    <3>1. done[k] = done[Len(resolved) + 1] /\ done[Len(resolved) + 1] = member
      BY <2>3, <1>3
    <3> QED
      BY <3>1
  <2> QED
    BY <2>1, <2>2, <2>3
<1>6. Len(left) + Len(done) = 2
  BY <1>1, <1>2, <1>3
<1>7. Resolution(left, done, members, resolved, member)
  BY <1>2, <1>3, <1>4, <1>5, <1>6 DEF Resolution
<1> QED
  BY <1>7

LEMMA ResolveSlotMemberKeeps ==
  ASSUME SealingCore, NEW t \in Threads, NEW succeeds \in BOOLEAN, Sealing!ResolveSlotMember(t, succeeds)
  PROVE  SealingCore'
<1> PICK call : call = own3[t]
  OBVIOUS
<1>1. /\ call # Sealing!Idle /\ call.doing = "resolve" /\ call.members # <<>> /\ ~Appends(t)
  BY DEF Sealing!ResolveSlotMember, Sealing!Resolving, Appends
<1>2. GoodCall(call) /\ Len(call.members) + Len(call.resolved) = 2
  BY <1>1, CallIsGood
<1>3. /\ call \in CallSet /\ call.members \in Seq(SlotMember) /\ call.resolved \in Seq(SlotMember)
      /\ call.members[1] = Head(call.members) /\ 1 \in DOMAIN call.members
      /\ Head(call.members) \in SlotMember
  BY <1>1, <1>2 DEF GoodCall, CallSet
<1>4. CASE Head(call.members).id # 0
  <2> PICK member : member = Head(call.members)
    OBVIOUS
  <2> PICK members : members = Tail(call.members)
    OBVIOUS
  <2> PICK resolved : resolved = Append(call.resolved, member)
    OBVIOUS
  <2> PICK next : next = [call EXCEPT !.resolved = resolved, !.members = members]
    OBVIOUS
  <2>1. CallStep(t, next) /\ own1' = own1
    BY <1>1, <1>4 DEF Sealing!ResolveSlotMember, Sealing!Become, CallStep
  <2>2. Resolution(members, resolved, call.members, call.resolved, member)
    BY <1>1, <1>2, <1>3, Resolves
  <2>3. /\ next.members = members /\ next.resolved = resolved /\ next.doing = "resolve"
        /\ next.confirms = call.confirms /\ next \in CallSet
    BY <1>1, <1>3, <2>2 DEF CallSet, Resolution
  <2>4. member.id \in Sealing!Appended
    BY <1>2, <1>3, <1>4 DEF GoodCall
  <2>5. \A k \in DOMAIN members : members[k].id \in {0} \cup Sealing!Appended
    BY <1>2, <2>2 DEF GoodCall, Resolution
  <2>6. AreAppended(resolved)
    BY <1>2, <2>2, <2>4 DEF GoodCall, AreAppended, Resolution
  <2>7. GoodCall(next) /\ Binds(next)
    BY <1>2, <2>2, <2>3, <2>5, <2>6 DEF GoodCall, Binds, Resolution
  <2> QED
    BY <2>1, <2>7, CallStepKeeps
<1>5. CASE Head(call.members).id = 0
  <2> PICK request : request = Sealing!MemberRequest(call.confirms)
    OBVIOUS
  <2>1. GoodRequest(request)
    <3>1. <<>> = [k \in 1..Len(<<>>) |-> <<>>[k]] /\ DOMAIN <<>> = {}
      OBVIOUS
    <3> QED
      BY <1>2, <3>1 DEF GoodRequest, GoodCall, AreAppended, Sealing!MemberRequest, Sealing!Request,
         Sealing!Lawful
  <2>2. Sealing!Build(t, call, request, succeeds)
    BY <1>5 DEF Sealing!ResolveSlotMember
  <2> QED
    BY <1>1, <1>2, <2>1, <2>2, BuildKeeps
<1> QED
  BY <1>4, <1>5

LEMMA ComposeKeeps ==
  ASSUME SealingCore, NEW t \in Threads, NEW succeeds \in BOOLEAN, Sealing!Compose(t, succeeds)
  PROVE  SealingCore'
<1> PICK call : call = own3[t]
  OBVIOUS
<1>1. /\ call # Sealing!Idle /\ call.doing = "resolve" /\ call.members = <<>> /\ ~Appends(t)
  BY DEF Sealing!Compose, Sealing!Resolving, Appends
<1>2. GoodCall(call) /\ Len(call.members) + Len(call.resolved) = 2
  BY <1>1, CallIsGood
<1>3. call.resolved \in Seq(SlotMember) /\ Len(call.resolved) = 2 /\ DOMAIN call.resolved = 1..2
  BY <1>1, <1>2 DEF GoodCall, CallSet
<1> PICK members : members = Sealing!Composed(call.resolved)
  OBVIOUS
<1> PICK request : request = Sealing!CompositionRequest(call.resolved, call.confirms, call.refs)
  OBVIOUS
<1>4. /\ members = [k \in 1..2 |-> members[k]] /\ DOMAIN members = 1..2 /\ Len(members) = 2
      /\ \A k \in 1..2 : \E i \in 1..2 : members[k].id = call.resolved[i].id
      /\ \A j, k \in 1..2 : j < k => members[j].slot <= members[k].slot
  BY <1>3, ComposedIs
<1>5. AreAppended(members)
  BY <1>2, <1>3, <1>4 DEF GoodCall, AreAppended
<1>6. /\ request.members = members /\ request.form = "composition" /\ request.confirms = call.confirms
      /\ request.relation = "confirms"
  BY DEF Sealing!CompositionRequest, Sealing!Request
<1>7. GoodRequest(request)
  BY <1>2, <1>4, <1>5, <1>6 DEF GoodRequest, GoodCall, Sealing!Lawful
<1>8. Sealing!Build(t, call, request, succeeds)
  BY DEF Sealing!Compose
<1> QED
  BY <1>1, <1>2, <1>7, <1>8, BuildKeeps

\* What a call is after the emission of record n ended.
After(next, n) ==
    next # Sealing!Idle =>
        /\ next \in CallSet /\ next.doing # "append"
        /\ \A k \in DOMAIN next.members : next.members[k].id \in {0} \cup Sealing!Appended
        /\ \A k \in DOMAIN next.resolved : next.resolved[k].id \in {n} \cup Sealing!Appended
        /\ next.confirms \in {0} \cup Sealing!Appended
        /\ next.doing = "resolve" \/ next.members # <<>> => Len(next.members) + Len(next.resolved) = 2
        /\ next.doing = "signer" => next.built = n

\* A step that ends the emission of record n by thread t, appended or not.
ThreadEnds(t, next, n) ==
    /\ own3' = [own3 EXCEPT ![t] = next]
    /\ own4' \subseteq own4 \cup {n}
    /\ own5' = own5 /\ own1' = own1
    /\ After(next, n)

LEMMA ResolvedEnds ==
  ASSUME SealingCore, NEW t \in Threads, NEW call, call = own3[t], call # Sealing!Idle,
         NEW n \in Nat, n = call.built, Sealing!Resolved(t), own5' = own5, own1' = own1
  PROVE  \E next : ThreadEnds(t, next, n)
<1>1. GoodCall(call)
  BY CallIsGood
<1>2. CASE call.members = <<>>
  <2>1. ThreadEnds(t, Sealing!Idle, n)
    BY <1>2 DEF ThreadEnds, After, Sealing!Resolved, Sealing!Become
  <2> QED
    BY <2>1
<1>3. CASE call.members # <<>>
  <2> PICK member : member = [Head(call.members) EXCEPT !.id = n]
    OBVIOUS
  <2> PICK members : members = Tail(call.members)
    OBVIOUS
  <2> PICK resolved : resolved = Append(call.resolved, member)
    OBVIOUS
  <2> PICK next : next = [call EXCEPT !.doing = "resolve", !.members = members, !.resolved = resolved]
    OBVIOUS
  <2>1. /\ call \in CallSet /\ call.members \in Seq(SlotMember) /\ call.resolved \in Seq(SlotMember)
        /\ Len(call.members) + Len(call.resolved) = 2
    BY <1>1, <1>3 DEF GoodCall, CallSet
  <2>2. member \in SlotMember /\ member.id = n
    <3>1. Head(call.members) \in SlotMember
      BY <1>3, <2>1
    <3> QED
      BY <3>1 DEF SlotMember
  <2>3. Resolution(members, resolved, call.members, call.resolved, member)
    BY <1>3, <2>1, <2>2, Resolves
  <2>4. /\ next.members = members /\ next.resolved = resolved /\ next.doing = "resolve"
        /\ next.confirms = call.confirms /\ next \in CallSet
    <3>1. members \in Seq(SlotMember) /\ resolved \in Seq(SlotMember)
      BY <2>3 DEF Resolution
    <3>3. next \in CallSet /\ next.members = members /\ next.resolved = resolved /\ next.doing = "resolve"
      <4>1. /\ call = [doing |-> call.doing, ledger |-> call.ledger, members |-> call.members,
                        resolved |-> call.resolved, confirms |-> call.confirms, refs |-> call.refs,
                        built |-> call.built]
            /\ call.ledger \in Ledgers /\ call.confirms \in Nat /\ call.refs \in SUBSET Nat
            /\ call.built \in Nat
        BY <2>1 DEF CallSet
      <4>2. next = [doing |-> "resolve", ledger |-> call.ledger, members |-> members,
                    resolved |-> resolved, confirms |-> call.confirms, refs |-> call.refs,
                    built |-> call.built]
        BY <4>1
      <4> QED
        BY <3>1, <4>1, <4>2 DEF CallSet
    <3>2. next.confirms = call.confirms
      BY <2>1 DEF CallSet
    <3> QED
      BY <3>2, <3>3
  <2>5. \A k \in DOMAIN members : members[k].id \in {0} \cup Sealing!Appended
    BY <1>1, <2>3 DEF GoodCall, Resolution
  <2>6. \A k \in DOMAIN resolved : resolved[k].id \in {n} \cup Sealing!Appended
    BY <1>1, <2>2, <2>3 DEF GoodCall, AreAppended, Resolution
  <2>7. After(next, n)
    BY <1>1, <2>3, <2>4, <2>5, <2>6 DEF After, Resolution, GoodCall
  <2>8. own3' = [own3 EXCEPT ![t] = next] /\ own4' = own4
    BY <1>3 DEF Sealing!Resolved, Sealing!Become
  <2>9. ThreadEnds(t, next, n)
    BY <2>7, <2>8 DEF ThreadEnds
  <2> QED
    BY <2>9
<1> QED
  BY <1>2, <1>3

\* The calls that go on, and the thread that ended one.
LEMMA EndKeeps ==
  ASSUME SealingCore, NEW t \in Threads, NEW next, NEW n \in DOMAIN own1, ThreadEnds(t, next, n),
         own2' \in [Ledgers -> Seq(Nat)], Sealing!Appended' = Sealing!Appended \cup {n},
         \A u \in Threads \ {t} : CallOk(u)', Sealing!FollowUpsAreInStream'
  PROVE  SealingCore'
<1>1. /\ own1' = own1 /\ own5' = own5 /\ own4' \subseteq own4 \cup {n}
      /\ own3' = [own3 EXCEPT ![t] = next] /\ own3 = [u \in Threads |-> own3[u]]
      /\ After(next, n)
  BY DEF ThreadEnds, SealingCore
<1>2. /\ own3'[t] = next /\ own3' = [u \in Threads |-> own3'[u]]
      /\ \A u \in Threads \ {t} : own3'[u] = own3[u]
  BY <1>1
<1>3. CallOk(t)'
  <2>1. CASE next = Sealing!Idle
    BY <1>2, <2>1 DEF CallOk
  <2>2. CASE next # Sealing!Idle
    BY <1>1, <1>2, <2>2 DEF CallOk, After, AreAppended
  <2> QED
    BY <2>1, <2>2
<1>4. \A u \in Threads : CallOk(u)'
  BY <1>3
<1>5. ASSUME NEW id \in DOMAIN own1 PROVE RecordOk(id)'
  BY <1>1 DEF SealingCore, RecordOk, AreAppended
<1>6. \A u, v \in Threads : Appends(u)' /\ Appends(v)' /\ own3'[u].built = own3'[v].built => u = v
  <2>1. ~Appends(t)'
    BY <1>1, <1>2 DEF Appends, After
  <2> QED
    BY <2>1, <1>2 DEF Appends, SealingCore
<1>7. own4' \subseteq Sealing!Appended'
  BY <1>1 DEF SealingCore
<1>8. Sealing!Appended' \subseteq DOMAIN own1'
  BY <1>1 DEF SealingCore
<1>9. IsSeq(own1') /\ own5' = {}
  BY <1>1 DEF SealingCore
<1> QED
  BY <1>1, <1>2, <1>4, <1>5, <1>6, <1>7, <1>8, <1>9 DEF SealingCore

\* The emission ends and the ledgers stay as they are.
LEMMA QuietEndKeeps ==
  ASSUME SealingCore, NEW t \in Threads, NEW next, NEW n \in Sealing!Appended, ThreadEnds(t, next, n),
         own2' = own2
  PROVE  SealingCore'
<1>1. /\ own1' = own1 /\ own3' = [own3 EXCEPT ![t] = next] /\ own3 = [u \in Threads |-> own3[u]]
  BY DEF ThreadEnds, SealingCore
<1>2. /\ Sealing!Appended' = Sealing!Appended
      /\ \A id, l : Sealing!InLedger(id, l)' = Sealing!InLedger(id, l)
  BY SameLedgers
<1>3. ASSUME NEW u \in Threads \ {t} PROVE CallOk(u)'
  <2>1. CallOk(u) /\ own3'[u] = own3[u]
    BY <1>1 DEF SealingCore
  <2> QED
    BY <2>1, <1>1, <1>2 DEF CallOk, AreAppended, Fits
<1>4. Sealing!FollowUpsAreInStream'
  BY <1>1 DEF SealingCore, Sealing!FollowUpsAreInStream, Sealing!Before
<1>5. own2' \in [Ledgers -> Seq(Nat)] /\ n \in DOMAIN own1 /\ Sealing!Appended' = Sealing!Appended \cup {n}
  BY <1>2 DEF SealingCore
<1> QED
  BY <1>3, <1>4, <1>5, EndKeeps

LEMMA ResolveLogSignerKeeps ==
  ASSUME SealingCore, NEW t \in Threads, NEW succeeds \in BOOLEAN, Sealing!ResolveLogSigner(t, succeeds)
  PROVE  SealingCore'
<1> PICK call : call = own3[t]
  OBVIOUS
<1> PICK n : n = call.built
  OBVIOUS
<1>1. call # Sealing!Idle /\ own2' = own2 /\ own5' = own5 /\ own1' = own1
  BY DEF Sealing!ResolveLogSigner
<1>2. n \in Sealing!Appended
  <2>1. call.doing = "signer"
    BY DEF Sealing!ResolveLogSigner
  <2> QED
    BY <1>1, <2>1, CallIsGood
<1>3. n \in Nat
  BY <1>2 DEF SealingCore, IsSeq
<1>4. \E next : ThreadEnds(t, next, n)
  <2>1. CASE succeeds
    <3>1. Sealing!Resolved(t)
      BY <2>1 DEF Sealing!ResolveLogSigner
    <3> QED
      BY <3>1, <1>1, <1>3, ResolvedEnds
  <2>2. CASE ~succeeds
    <3>1. ThreadEnds(t, Sealing!Idle, n)
      BY <2>2 DEF ThreadEnds, After, Sealing!ResolveLogSigner, Sealing!Become
    <3> QED
      BY <3>1
  <2> QED
    BY <2>1, <2>2
<1> QED
  BY <1>1, <1>2, <1>4, QuietEndKeeps

\* One record more in ledger l.
Stored(l, n) ==
    /\ own2' \in [Ledgers -> Seq(Nat)]
    /\ Sealing!Appended' = Sealing!Appended \cup {n}
    /\ \A id : \A k \in Ledgers :
           Sealing!InLedger(id, k)' <=> Sealing!InLedger(id, k) \/ (k = l /\ id = n)
    /\ \A k \in Ledgers : \A i \in DOMAIN own2'[k] :
           \/ /\ i \in DOMAIN own2[k] /\ own2'[k][i] = own2[k][i]
              /\ Sealing!Before(k, i)' = Sealing!Before(k, i)
           \/ /\ k = l /\ own2'[k][i] = n
              /\ \A id : id \in Sealing!Before(k, i)' <=> Sealing!InLedger(id, k)

LEMMA StoredIs ==
  ASSUME SealingCore, NEW l \in Ledgers, NEW n \in Nat, own2' = [own2 EXCEPT ![l] = Append(@, n)]
  PROVE  Stored(l, n)
<1> PICK grown : grown = Append(own2[l], n)
  OBVIOUS
<1>1. own2 \in [Ledgers -> Seq(Nat)] /\ own2[l] \in Seq(Nat)
  BY DEF SealingCore
<1>2. grown \in Seq(Nat) /\ Grown(grown, own2[l], n)
  <2>1. IsSeq(own2[l])
    BY <1>1, SeqIs
  <2> QED
    BY <1>1, <2>1, OneMore
<1>3. own2' \in [Ledgers -> Seq(Nat)] /\ own2'[l] = grown /\ \A k \in Ledgers \ {l} : own2'[k] = own2[k]
  BY <1>1, <1>2
<1>4. ASSUME NEW id, NEW k \in Ledgers
      PROVE  Sealing!InLedger(id, k)' <=> Sealing!InLedger(id, k) \/ (k = l /\ id = n)
  <2>1. CASE k = l
    BY <1>2, <1>3, <2>1 DEF Sealing!InLedger, Grown
  <2>2. CASE k # l
    BY <1>3, <2>2 DEF Sealing!InLedger
  <2> QED
    BY <2>1, <2>2
<1>5. Sealing!Appended' = Sealing!Appended \cup {n}
  <2>1. \A id : id \in Sealing!Appended' <=> \E k \in Ledgers : Sealing!InLedger(id, k)'
    BY DEF Sealing!Appended, Sealing!InLedger
  <2>2. \A id : id \in Sealing!Appended' <=> id \in Sealing!Appended \/ id = n
    BY <1>4, <2>1, AppendedIs
  <2> QED
    BY <2>2
<1>6. ASSUME NEW k \in Ledgers, NEW i \in DOMAIN own2'[k]
      PROVE  \/ /\ i \in DOMAIN own2[k] /\ own2'[k][i] = own2[k][i]
                /\ Sealing!Before(k, i)' = Sealing!Before(k, i)
             \/ /\ k = l /\ own2'[k][i] = n
                /\ \A id : id \in Sealing!Before(k, i)' <=> Sealing!InLedger(id, k)
  <2>1. CASE k # l
    BY <1>3, <2>1 DEF Sealing!Before
  <2>2. CASE k = l /\ i \in DOMAIN own2[l]
    <3>1. own2'[k] = grown /\ own2[k] = own2[l]
      BY <1>3, <2>2
    <3>2. /\ grown[i] = own2[l][i] /\ i \in Nat /\ Len(own2[l]) \in Nat /\ DOMAIN own2[l] = 1..Len(own2[l])
      BY <1>2, <2>2 DEF Grown
    <3>3. \A j \in 1..(i - 1) : grown[j] = own2[l][j]
      BY <1>2, <2>2, <3>2 DEF Grown
    <3> QED
      BY <2>2, <3>1, <3>2, <3>3 DEF Sealing!Before
  <2>3. CASE k = l /\ i \notin DOMAIN own2[l]
    <3>1. own2'[k] = grown /\ own2[k] = own2[l]
      BY <1>3, <2>3
    <3>2. i = Len(own2[l]) + 1 /\ grown[i] = n /\ Len(own2[l]) \in Nat /\ DOMAIN own2[l] = 1..Len(own2[l])
      BY <1>2, <2>3, <3>1 DEF Grown
    <3>3. \A j \in 1..(i - 1) : j \in DOMAIN own2[l] /\ grown[j] = own2[l][j]
      BY <1>2, <3>2 DEF Grown
    <3>4. DOMAIN own2[l] = 1..(i - 1)
      BY <3>2
    <3>5. Sealing!Before(k, i)' = {own2[l][j] : j \in DOMAIN own2[l]}
      BY <3>1, <3>3, <3>4 DEF Sealing!Before
    <3> QED
      BY <2>3, <3>1, <3>2, <3>5 DEF Sealing!InLedger
  <2> QED
    BY <2>1, <2>2, <2>3
<1> QED
  BY <1>3, <1>4, <1>5, <1>6 DEF Stored

LEMMA AppendKeeps ==
  ASSUME SealingCore, NEW t \in Threads, NEW l \in Ledgers, NEW n, NEW next,
         own3[t] # Sealing!Idle, own3[t].doing = "append", own3[t].built = n, own3[t].ledger = l,
         own2' = [own2 EXCEPT ![l] = Append(@, n)], ThreadEnds(t, next, n)
  PROVE  SealingCore'
<1>1. n \in DOMAIN own1 \ Sealing!Appended /\ Fits(n, l)
  BY CallIsGood
<1>2. n \in Nat
  BY <1>1 DEF SealingCore, IsSeq
<1>3. Stored(l, n)
  BY <1>2, StoredIs
<1>4. /\ own2' \in [Ledgers -> Seq(Nat)] /\ Sealing!Appended' = Sealing!Appended \cup {n}
      /\ \A id : \A k \in Ledgers :
             Sealing!InLedger(id, k)' <=> Sealing!InLedger(id, k) \/ (k = l /\ id = n)
  BY <1>3 DEF Stored
<1>5. /\ own1' = own1 /\ own3' = [own3 EXCEPT ![t] = next] /\ own3 = [u \in Threads |-> own3[u]]
  BY DEF ThreadEnds, SealingCore
<1>6. ASSUME NEW u \in Threads \ {t} PROVE CallOk(u)'
  <2> PICK call : call = own3[u]
    OBVIOUS
  <2>1. CallOk(u) /\ own3'[u] = call
    BY <1>5 DEF SealingCore
  <2>2. CASE call = Sealing!Idle
    BY <2>1, <2>2 DEF CallOk
  <2>3. CASE call # Sealing!Idle
    <3>1. /\ GoodCall(call)
          /\ call.doing = "resolve" => Len(call.members) + Len(call.resolved) = 2
          /\ call.doing = "signer" => call.built \in Sealing!Appended
      BY <2>3, CallIsGood
    <3>2. ASSUME call.doing = "append"
          PROVE  call.built \in DOMAIN own1 \ Sealing!Appended' /\ Fits(call.built, call.ledger)'
      <4>1. call.built \in DOMAIN own1 \ Sealing!Appended /\ Fits(call.built, call.ledger)
        BY <2>3, <3>2, CallIsGood
      <4>2. call.built # n
        BY <2>3, <3>2 DEF SealingCore, Appends
      <4>3. call.ledger \in Ledgers
        BY <3>1 DEF GoodCall, CallSet
      <4>4. own1[call.built].target # 0 => own1[call.built].target \in Sealing!Appended
        BY <4>1 DEF SealingCore, RecordOk
      <4>5. own1[call.built].target # 0 => own1[call.built].target # n
        BY <4>4, <1>1
      <4>6. Fits(call.built, call.ledger)'
        BY <4>1, <4>3, <4>5, <1>4, <1>5 DEF Fits
      <4> QED
        BY <4>1, <4>2, <4>6, <1>4
    <3> QED
      BY <2>1, <3>1, <3>2, <1>4, <1>5 DEF CallOk, GoodCall, AreAppended
  <2> QED
    BY <2>2, <2>3
<1>7. Sealing!FollowUpsAreInStream'
  <2>1. ASSUME NEW k \in Ledgers, NEW i \in DOMAIN own2'[k]
        PROVE  StandsAfter(own1[own2'[k][i]], Sealing!Before(k, i)')
    <3>1. CASE /\ i \in DOMAIN own2[k] /\ own2'[k][i] = own2[k][i]
               /\ Sealing!Before(k, i)' = Sealing!Before(k, i)
      <4>1. StandsAfter(own1[own2[k][i]], Sealing!Before(k, i))
        BY <3>1 DEF SealingCore, Sealing!FollowUpsAreInStream, StandsAfter
      <4> QED
        BY <3>1, <4>1
    <3>2. CASE /\ k = l /\ own2'[k][i] = n
               /\ \A id : id \in Sealing!Before(k, i)' <=> Sealing!InLedger(id, k)
      BY <3>2, <1>1 DEF Fits, StandsAfter
    <3> QED
      BY <1>3, <3>1, <3>2 DEF Stored
  <2> QED
    BY <2>1, <1>5 DEF Sealing!FollowUpsAreInStream, StandsAfter
<1> QED
  BY <1>1, <1>4, <1>6, <1>7, EndKeeps

LEMMA AppendCapsuleKeeps ==
  ASSUME SealingCore, NEW t \in Threads, NEW succeeds \in BOOLEAN, Sealing!AppendCapsule(t, succeeds)
  PROVE  SealingCore'
<1> PICK call : call = own3[t]
  OBVIOUS
<1> PICK n : n = call.built
  OBVIOUS
<1>1. call # Sealing!Idle /\ call.doing = "append" /\ own5' = own5 /\ own1' = own1
  BY DEF Sealing!AppendCapsule
<1>2. n \in DOMAIN own1 /\ call.ledger \in Ledgers /\ GoodCall(call)
  <2>1. n \in DOMAIN own1 /\ GoodCall(call)
    BY <1>1, CallIsGood
  <2> QED
    BY <2>1 DEF GoodCall, CallSet
<1>3. n \in Nat
  BY <1>2 DEF SealingCore, IsSeq
<1>4. CASE ~succeeds
  <2>1. /\ own2' = own2 /\ own4' = own4
        /\ own3' = [own3 EXCEPT ![t] = Sealing!Idle] /\ own3 = [u \in Threads |-> own3[u]]
    BY <1>4 DEF Sealing!AppendCapsule, Sealing!Become, SealingCore
  <2>2. /\ Sealing!Appended' = Sealing!Appended
        /\ \A id, l : Sealing!InLedger(id, l)' = Sealing!InLedger(id, l)
    BY <2>1, SameLedgers
  <2>3. /\ own3'[t] = Sealing!Idle /\ own3' = [u \in Threads |-> own3'[u]]
        /\ \A u \in Threads \ {t} : own3'[u] = own3[u]
    BY <2>1
  <2>4. ASSUME NEW u \in Threads PROVE CallOk(u)'
    <3>1. CASE u = t
      BY <3>1, <2>3 DEF CallOk
    <3>2. CASE u # t
      <4>1. CallOk(u) /\ own3'[u] = own3[u]
        BY <3>2, <2>3 DEF SealingCore
      <4> QED
        BY <4>1, <1>1, <2>2 DEF CallOk, AreAppended, Fits
    <3> QED
      BY <3>1, <3>2
  <2>5. ASSUME NEW id \in DOMAIN own1 PROVE RecordOk(id)'
    BY <1>1, <2>2 DEF SealingCore, RecordOk, AreAppended
  <2>6. \A u, v \in Threads : Appends(u)' /\ Appends(v)' /\ own3'[u].built = own3'[v].built => u = v
    BY <2>3 DEF Appends, SealingCore
  <2>7. Sealing!FollowUpsAreInStream'
    BY <1>1, <2>1 DEF SealingCore, Sealing!FollowUpsAreInStream, Sealing!Before
  <2> QED
    BY <1>1, <2>1, <2>2, <2>3, <2>4, <2>5, <2>6, <2>7 DEF SealingCore
<1>5. CASE succeeds
  <2>1. own2' = [own2 EXCEPT ![call.ledger] = Append(@, n)]
    BY <1>5 DEF Sealing!AppendCapsule
  <2>2. \E next : ThreadEnds(t, next, n)
    <3>1. CASE Sealing!Resolved(t)
      BY <3>1, <1>1, <1>3, ResolvedEnds
    <3>2. CASE Sealing!Become(t, [call EXCEPT !.doing = "signer"]) /\ own4' = own4
      <4> PICK next : next = [call EXCEPT !.doing = "signer"]
        OBVIOUS
      <4>1. /\ next \in CallSet /\ next.doing = "signer" /\ next.built = n
            /\ next.members = call.members /\ next.resolved = call.resolved
            /\ next.confirms = call.confirms
        BY <1>2 DEF GoodCall, CallSet
      <4>2. After(next, n)
        BY <4>1, <1>2 DEF After, GoodCall, AreAppended
      <4>3. ThreadEnds(t, next, n)
        BY <3>2, <4>2, <1>1 DEF ThreadEnds, Sealing!Become
      <4> QED
        BY <4>3
    <3> QED
      BY <1>5, <3>1, <3>2 DEF Sealing!AppendCapsule
  <2> QED
    BY <1>1, <1>2, <2>1, <2>2, AppendKeeps
<1> QED
  BY <1>4, <1>5

LEMMA SealingNextKeeps == SealingCore /\ Sealing!SealingNext => SealingCore'
<1> SUFFICES ASSUME SealingCore, Sealing!SealingNext PROVE SealingCore'
  OBVIOUS
<1> PICK t \in Threads, succeeds \in BOOLEAN :
        \/ \E l \in Sealing!Open :
               \E request \in Sealing!PayloadRequests \cup {Sealing!LogRequest}
                              \cup {Sealing!LegRequest(prior) : prior \in {0} \cup own4}
                              \cup {Sealing!AdjudicationRequest(half) : half \in own4} :
                   Sealing!EmitOne(t, l, request, succeeds)
        \/ \E l \in Sealing!Open, first, second \in Sealing!SlotMembers, confirms \in {0} \cup own4 :
               Sealing!SealSlots(t, l, <<first, second>>, confirms, own4)
        \/ Sealing!ResolveSlotMember(t, succeeds)
        \/ Sealing!Compose(t, succeeds)
        \/ Sealing!AppendCapsule(t, succeeds)
        \/ Sealing!ResolveLogSigner(t, succeeds)
  BY DEF Sealing!SealingNext
<1>1. Sealing!Open \subseteq Ledgers
  <2>1. \E l \in Ledgers : TRUE
    BY AdapterAssumption
  <2> QED
    BY <2>1 DEF Sealing!Open
<1>2. ASSUME NEW l \in Sealing!Open,
             NEW request \in Sealing!PayloadRequests \cup {Sealing!LogRequest}
                             \cup {Sealing!LegRequest(prior) : prior \in {0} \cup own4}
                             \cup {Sealing!AdjudicationRequest(half) : half \in own4},
             Sealing!EmitOne(t, l, request, succeeds)
      PROVE  SealingCore'
  <2>1. GoodRequest(request)
    BY RequestsAreGood
  <2> QED
    BY <1>1, <1>2, <2>1, EmitOneKeeps
<1>3. ASSUME NEW l \in Sealing!Open, NEW first \in Sealing!SlotMembers,
             NEW second \in Sealing!SlotMembers, NEW confirms \in {0} \cup own4,
             Sealing!SealSlots(t, l, <<first, second>>, confirms, own4)
      PROVE  SealingCore'
  BY <1>1, <1>3, SealSlotsKeeps
<1> QED
  BY <1>2, <1>3, ResolveSlotMemberKeeps, ComposeKeeps, AppendCapsuleKeeps, ResolveLogSignerKeeps

LEMMA SealingStep == SealingInv /\ [Next]_vars => SealingInv'
<1> SUFFICES ASSUME SealingInv, [Next]_vars, adapter' = "sealing"
             PROVE  SealingCore'
  BY DEF SealingInv
<1>1. adapter = "sealing" /\ SealingCore
  BY DEF Next, vars, SealingInv
<1>2. CASE Sealing!SealingNext
  BY <1>1, <1>2, SealingNextKeeps
<1>3. CASE UNCHANGED vars
  <2>1. own1' = own1 /\ own2' = own2 /\ own3' = own3 /\ own4' = own4 /\ own5' = own5
    BY <1>3 DEF vars
  <2>2. /\ Sealing!Appended' = Sealing!Appended
        /\ \A id, l : Sealing!InLedger(id, l)' = Sealing!InLedger(id, l)
    BY <2>1, SameLedgers
  <2>3. Sealing!FollowUpsAreInStream'
    BY <1>1, <2>1 DEF SealingCore, Sealing!FollowUpsAreInStream, Sealing!Before
  <2>4. \A id \in DOMAIN own1 : RecordOk(id)'
    BY <1>1, <2>1, <2>2 DEF SealingCore, RecordOk, AreAppended
  <2>5. \A t \in Threads : CallOk(t)'
    BY <1>1, <2>1, <2>2 DEF SealingCore, CallOk, AreAppended, Fits
  <2> QED
    BY <1>1, <2>1, <2>2, <2>3, <2>4, <2>5 DEF SealingCore, Appends
<1> QED
  BY <1>1, <1>2, <1>3 DEF Next

\* capsule_emit.surface and capsule_emit.core: for any threads, ledgers and
\* records, whatever is appended, fails or is bound by a composition, what
\* the ledgers hold is what was asked for: a parent before its record, any
\* other target cited, also by the members a composition has minted.
THEOREM SealsAreWhole == Spec => []RecordsAreWhole
<1>1. Spec => []SealingInv
  BY SealingStart, SealingStep, PTL DEF Spec
<1> QED
  BY <1>1, SealingHolds, PTL

-----------------------------------------------------------------------------
(* Ordered tables                                                           *)

Heads(table) == {<<table[i].key, table[i].val>> : i \in DOMAIN table}

\* A dictionary: one entry per key.
TableOk(table) ==
    /\ IsSeq(table)
    /\ \A i, j \in DOMAIN table : table[i].key = table[j].key => i = j

LEMMA SeqFacts ==
  ASSUME NEW seq, IsSeq(seq)
  PROVE  /\ Len(seq) \in Nat /\ DOMAIN seq = 1..Len(seq)
         /\ \A i \in DOMAIN seq : i \in Nat /\ i >= 1 /\ i <= Len(seq)
<1> DEFINE S == {seq[i] : i \in DOMAIN seq}
<1>1. seq \in Seq(S)
  BY DEF IsSeq
<1> HIDE DEF S
<1> QED
  BY <1>1

LEMMA EmptyTable == TableOk(<<>>) /\ Heads(<<>>) = {} /\ IsSeq(<<>>) /\ DOMAIN <<>> = {}
<1>1. DOMAIN <<>> = {} /\ <<>> \in Seq({})
  OBVIOUS
<1>2. IsSeq(<<>>)
  BY <1>1, SeqIs
<1> QED
  BY <1>1, <1>2 DEF TableOk, Heads

LEMMA KeysAreHeads ==
  ASSUME NEW table, NEW key
  PROVE  key \in Keys(table) <=> \E val : <<key, val>> \in Heads(table)
<1>1. ASSUME key \in Keys(table) PROVE \E val : <<key, val>> \in Heads(table)
  <2>1. PICK i \in DOMAIN table : table[i].key = key
    BY <1>1 DEF Keys
  <2> QED
    BY <2>1 DEF Heads
<1>2. ASSUME NEW val, <<key, val>> \in Heads(table) PROVE key \in Keys(table)
  <2>1. PICK i \in DOMAIN table : <<key, val>> = <<table[i].key, table[i].val>>
    BY <1>2 DEF Heads
  <2> QED
    BY <2>1 DEF Keys
<1> QED
  BY <1>1, <1>2

LEMMA GetIs ==
  ASSUME NEW table, NEW key, NEW default
  PROVE  /\ key \in Keys(table) => <<key, Get(table, key, default)>> \in Heads(table)
         /\ key \notin Keys(table) => Get(table, key, default) = default
<1>1. ASSUME key \in Keys(table) PROVE <<key, Get(table, key, default)>> \in Heads(table)
  <2>1. PlaceOf(table, key) \in DOMAIN table /\ table[PlaceOf(table, key)].key = key
    BY <1>1 DEF PlaceOf, Keys
  <2>2. Get(table, key, default) = table[PlaceOf(table, key)].val
    BY <1>1 DEF Get
  <2> QED
    BY <2>1, <2>2 DEF Heads
<1> QED
  BY <1>1 DEF Get

LEMMA GetIsThere ==
  ASSUME NEW table, TableOk(table), NEW key, NEW val, <<key, val>> \in Heads(table), NEW default
  PROVE  Get(table, key, default) = val
<1>1. PICK i \in DOMAIN table : table[i].key = key /\ table[i].val = val
  BY DEF Heads
<1>2. key \in Keys(table)
  BY <1>1 DEF Keys
<1>3. PlaceOf(table, key) = i
  BY <1>1 DEF PlaceOf, TableOk
<1> QED
  BY <1>1, <1>2, <1>3 DEF Get

\* f numbers the places from 1 to n.
Numbers(f, n, places) ==
    /\ f \in [1..n -> places]
    /\ \A i, j \in 1..n : f[i] = f[j] => i = j
    /\ \A k \in places : \E i \in 1..n : f[i] = k

\* The entries at the places, each once.
PartOf(rest, seq, places) ==
    /\ IsSeq(rest)
    /\ places \subseteq DOMAIN seq
    /\ \E f : Numbers(f, Len(rest), places) /\ \A i \in DOMAIN rest : rest[i] = seq[f[i]]

\* The places but k, in order.
Skipping(n, k) == [i \in 1..(n - 1) |-> IF i < k THEN i ELSE i + 1]

LEMMA Around ==
  ASSUME NEW n \in Nat, NEW k \in 1..n
  PROVE  Numbers(Skipping(n, k), n - 1, (1..n) \ {k})
<1> PICK f : f = Skipping(n, k)
  OBVIOUS
<1>0. f = [i \in 1..(n - 1) |-> IF i < k THEN i ELSE i + 1]
  BY DEF Skipping
<1>1. \A i \in 1..(n - 1) : f[i] \in (1..n) \ {k}
  BY <1>0
<1>2. \A i, j \in 1..(n - 1) : f[i] = f[j] => i = j
  BY <1>0
<1>3. ASSUME NEW m \in (1..n) \ {k} PROVE \E i \in 1..(n - 1) : f[i] = m
  <2>1. CASE m < k
    <3>1. m \in 1..(n - 1) /\ f[m] = m
      BY <1>0, <2>1
    <3> QED
      BY <3>1
  <2>2. CASE m > k
    <3>1. m - 1 \in 1..(n - 1) /\ f[m - 1] = m
      BY <1>0, <2>2
    <3> QED
      BY <3>1
  <2> QED
    BY <2>1, <2>2
<1> QED
  BY <1>0, <1>1, <1>2, <1>3 DEF Numbers

LEMMA SubSeqIs ==
  ASSUME NEW n \in Nat, NEW S, NEW seq \in Seq(S), Len(seq) = n,
         NEW first \in 1..(n + 1), NEW last \in 0..n, first <= last + 1
  PROVE  /\ SubSeq(seq, first, last) \in Seq(S) /\ Len(SubSeq(seq, first, last)) = last - first + 1
         /\ \A i \in 1..(last - first + 1) : SubSeq(seq, first, last)[i] = seq[i + (first - 1)]
<1>1. \A i \in first..last : seq[i] \in S
  OBVIOUS
<1>2. /\ first \in Int /\ last \in Int
      /\ \A i \in 1..(last - first + 1) : first + i - 1 = i + (first - 1)
  OBVIOUS
<1>3. /\ SubSeq(seq, first, last) \in Seq(S)
      /\ Len(SubSeq(seq, first, last)) = IF first <= last THEN last - first + 1 ELSE 0
      /\ \A i \in 1..(last - first + 1) : SubSeq(seq, first, last)[i] = seq[first + i - 1]
  BY <1>1, <1>2, SubSeqProperties
<1>4. (IF first <= last THEN last - first + 1 ELSE 0) = last - first + 1
  OBVIOUS
<1> QED
  BY <1>2, <1>3, <1>4

LEMMA Spliced ==
  ASSUME NEW n \in Nat, NEW k \in 1..n, NEW S, NEW seq, NEW front \in Seq(S), NEW back \in Seq(S),
         Len(front) = k - 1, \A i \in 1..(k - 1) : front[i] = seq[i],
         Len(back) = n - k, \A i \in 1..(n - k) : back[i] = seq[i + k]
  PROVE  /\ front \o back \in Seq(S) /\ Len(front \o back) = n - 1
         /\ \A i \in 1..(n - 1) : (front \o back)[i] = seq[IF i < k THEN i ELSE i + 1]
<1>3. /\ front \o back \in Seq(S)
      /\ Len(front \o back) = Len(front) + Len(back)
      /\ \A i \in 1..(Len(front) + Len(back)) :
             (front \o back)[i] = IF i <= Len(front) THEN front[i] ELSE back[i - Len(front)]
  BY ConcatProperties
<1> PICK rest : rest = front \o back
  OBVIOUS
<1>4. /\ rest \in Seq(S) /\ Len(rest) = n - 1
      /\ \A i \in 1..(n - 1) : rest[i] = IF i <= k - 1 THEN front[i] ELSE back[i - (k - 1)]
  <2>1. Len(front) + Len(back) = n - 1 /\ Len(front) = k - 1
    OBVIOUS
  <2>2. rest \in Seq(S) /\ Len(rest) = Len(front) + Len(back)
    BY <1>3
  <2>3. \A i \in 1..(n - 1) : rest[i] = IF i <= k - 1 THEN front[i] ELSE back[i - (k - 1)]
    BY <1>3, <2>1
  <2> QED
    BY <2>1, <2>2, <2>3
<1>5. ASSUME NEW i \in 1..(n - 1) PROVE rest[i] = seq[IF i < k THEN i ELSE i + 1]
  <2>1. CASE i < k
    BY <2>1, <1>4
  <2>2. CASE ~(i < k)
    <3>1. i - (k - 1) \in 1..(n - k) /\ (i - (k - 1)) + k = i + 1
      BY <2>2
    <3> QED
      BY <2>2, <3>1, <1>4
  <2> QED
    BY <2>1, <2>2
<1> QED
  BY <1>4, <1>5

\* seq without its place k.
Cut(seq, n, k) == SubSeq(seq, 1, k - 1) \o SubSeq(seq, k + 1, n)

LEMMA CutOut ==
  ASSUME NEW n \in Nat, NEW k \in 1..n, NEW S, NEW seq \in Seq(S), Len(seq) = n
  PROVE  /\ Cut(seq, n, k) \in Seq(S) /\ Len(Cut(seq, n, k)) = n - 1
         /\ \A i \in 1..(n - 1) : Cut(seq, n, k)[i] = seq[IF i < k THEN i ELSE i + 1]
<1> PICK front : front = SubSeq(seq, 1, k - 1)
  OBVIOUS
<1> PICK back : back = SubSeq(seq, k + 1, n)
  OBVIOUS
<1>1. front \in Seq(S) /\ Len(front) = k - 1 /\ \A i \in 1..(k - 1) : front[i] = seq[i]
  <2>1. 1 \in 1..(n + 1) /\ k - 1 \in 0..n /\ 1 <= (k - 1) + 1 /\ (k - 1) - 1 + 1 = k - 1
    OBVIOUS
  <2>2. /\ front \in Seq(S) /\ Len(front) = (k - 1) - 1 + 1
        /\ \A i \in 1..((k - 1) - 1 + 1) : front[i] = seq[i + (1 - 1)]
    BY <2>1, SubSeqIs
  <2>3. \A i \in 1..(k - 1) : i + (1 - 1) = i
    OBVIOUS
  <2> QED
    BY <2>1, <2>2, <2>3
<1>2. back \in Seq(S) /\ Len(back) = n - k /\ \A i \in 1..(n - k) : back[i] = seq[i + k]
  <2>1. k + 1 \in 1..(n + 1) /\ n \in 0..n /\ k + 1 <= n + 1 /\ n - (k + 1) + 1 = n - k
    OBVIOUS
  <2>2. /\ back \in Seq(S) /\ Len(back) = n - (k + 1) + 1
        /\ \A i \in 1..(n - (k + 1) + 1) : back[i] = seq[i + ((k + 1) - 1)]
    BY <2>1, SubSeqIs
  <2>3. (k + 1) - 1 = k
    OBVIOUS
  <2> QED
    BY <2>1, <2>2, <2>3
<1> QED
  BY <1>1, <1>2, Spliced DEF Cut

LEMMA LeaveOutIs ==
  ASSUME NEW seq, IsSeq(seq), NEW k, k \in DOMAIN seq
  PROVE  PartOf(LeaveOut(seq, k), seq, DOMAIN seq \ {k})
<1> DEFINE S == {seq[i] : i \in DOMAIN seq}
<1>1. seq \in Seq(S)
  BY DEF IsSeq
<1> HIDE DEF S
<1> PICK n \in Nat : n = Len(seq)
  BY <1>1
<1>2. DOMAIN seq = 1..n /\ k \in 1..n
  BY <1>1
<1> PICK rest : rest = Cut(seq, n, k)
  OBVIOUS
<1>3. /\ rest \in Seq(S) /\ Len(rest) = n - 1
      /\ \A i \in 1..(n - 1) : rest[i] = seq[IF i < k THEN i ELSE i + 1]
  BY <1>1, <1>2, CutOut
<1>4. IsSeq(rest)
  BY <1>3, SeqIs
<1>5. DOMAIN rest = 1..(n - 1)
  BY <1>3
<1>6. Numbers(Skipping(n, k), n - 1, (1..n) \ {k})
  BY <1>2, Around
<1>7. \A i \in 1..(n - 1) : rest[i] = seq[Skipping(n, k)[i]]
  BY <1>3 DEF Skipping
<1>8. PartOf(rest, seq, (1..n) \ {k})
  BY <1>2, <1>3, <1>4, <1>5, <1>6, <1>7 DEF PartOf
<1> QED
  BY <1>2, <1>8 DEF LeaveOut, Cut

LEMMA RestIs ==
  ASSUME NEW seq, IsSeq(seq), NEW first \in 1..(Len(seq) + 1)
  PROVE  PartOf(SubSeq(seq, first, Len(seq)), seq, first..Len(seq))
<1> DEFINE S == {seq[i] : i \in DOMAIN seq}
<1>1. seq \in Seq(S)
  BY DEF IsSeq
<1> HIDE DEF S
<1> PICK n \in Nat : n = Len(seq)
  BY <1>1
<1>2. DOMAIN seq = 1..n /\ first \in 1..(n + 1)
  BY <1>1
<1> PICK rest : rest = SubSeq(seq, first, n)
  OBVIOUS
<1>3. /\ rest \in Seq(S) /\ Len(rest) = n - first + 1
      /\ \A i \in 1..(n - first + 1) : rest[i] = seq[i + (first - 1)]
  <2>1. n \in 0..n /\ first <= n + 1
    BY <1>2
  <2> QED
    BY <1>1, <1>2, <2>1, SubSeqIs
<1>4. IsSeq(rest)
  BY <1>3, SeqIs
<1>5. DOMAIN rest = 1..(n - first + 1)
  BY <1>3
<1> PICK f : f = [i \in 1..(n - first + 1) |-> i + (first - 1)]
  OBVIOUS
<1>6. Numbers(f, n - first + 1, first..n)
  <2>1. f \in [1..(n - first + 1) -> first..n]
    BY <1>2
  <2>2. \A i, j \in 1..(n - first + 1) : f[i] = f[j] => i = j
    BY <1>2
  <2>3. ASSUME NEW k \in first..n PROVE \E i \in 1..(n - first + 1) : f[i] = k
    <3>1. k - (first - 1) \in 1..(n - first + 1) /\ f[k - (first - 1)] = k
      BY <1>2
    <3> QED
      BY <3>1
  <2> QED
    BY <2>1, <2>2, <2>3 DEF Numbers
<1>7. \A i \in 1..(n - first + 1) : rest[i] = seq[f[i]]
  BY <1>3
<1>8. first..n \subseteq DOMAIN seq
  BY <1>2
<1> QED
  BY <1>2, <1>3, <1>4, <1>5, <1>6, <1>7, <1>8 DEF PartOf

HeadsAt(table, places) == {<<table[i].key, table[i].val>> : i \in places}

LEMMA PartHeads ==
  ASSUME NEW seq, NEW rest, NEW places, PartOf(rest, seq, places)
  PROVE  /\ IsSeq(rest) /\ Heads(rest) = HeadsAt(seq, places)
         /\ \E f : /\ \A i \in DOMAIN rest : f[i] \in DOMAIN seq /\ rest[i] = seq[f[i]]
                   /\ \A i, j \in DOMAIN rest : f[i] = f[j] => i = j
<1>1. IsSeq(rest) /\ places \subseteq DOMAIN seq
  BY DEF PartOf
<1>2. PICK f : Numbers(f, Len(rest), places) /\ \A i \in DOMAIN rest : rest[i] = seq[f[i]]
  BY DEF PartOf
<1>3. DOMAIN rest = 1..Len(rest)
  BY <1>1, SeqFacts
<1>4. /\ \A i \in DOMAIN rest : f[i] \in places
      /\ \A i, j \in DOMAIN rest : f[i] = f[j] => i = j
      /\ \A k \in places : \E i \in DOMAIN rest : f[i] = k
  BY <1>2, <1>3 DEF Numbers
<1>5. ASSUME NEW h \in Heads(rest) PROVE h \in HeadsAt(seq, places)
  <2>1. PICK i \in DOMAIN rest : h = <<rest[i].key, rest[i].val>>
    BY <1>5 DEF Heads
  <2>2. f[i] \in places /\ rest[i] = seq[f[i]]
    BY <2>1, <1>2, <1>4
  <2> QED
    BY <2>1, <2>2 DEF HeadsAt
<1>6. ASSUME NEW h \in HeadsAt(seq, places) PROVE h \in Heads(rest)
  <2>1. PICK k \in places : h = <<seq[k].key, seq[k].val>>
    BY <1>6 DEF HeadsAt
  <2>2. PICK i \in DOMAIN rest : f[i] = k
    BY <2>1, <1>4
  <2>3. rest[i] = seq[k]
    BY <2>2, <1>2
  <2> QED
    BY <2>1, <2>3 DEF Heads
<1> QED
  BY <1>1, <1>2, <1>4, <1>5, <1>6

LEMMA PartIsTable ==
  ASSUME NEW table, TableOk(table), NEW rest, NEW places, PartOf(rest, table, places)
  PROVE  TableOk(rest) /\ Heads(rest) = HeadsAt(table, places)
<1>1. IsSeq(rest) /\ Heads(rest) = HeadsAt(table, places)
  BY PartHeads
<1>2. PICK f : /\ \A i \in DOMAIN rest : f[i] \in DOMAIN table /\ rest[i] = table[f[i]]
               /\ \A i, j \in DOMAIN rest : f[i] = f[j] => i = j
  BY PartHeads
<1>3. ASSUME NEW i \in DOMAIN rest, NEW j \in DOMAIN rest, rest[i].key = rest[j].key
      PROVE  i = j
  <2>1. f[i] \in DOMAIN table /\ f[j] \in DOMAIN table /\ table[f[i]].key = table[f[j]].key
    BY <1>2, <1>3
  <2>2. f[i] = f[j]
    BY <2>1 DEF TableOk
  <2> QED
    BY <2>2, <1>2
<1> QED
  BY <1>1, <1>3 DEF TableOk

\* The entry of a key is gone.
Removed(after, table, key) ==
    TableOk(after) /\ Heads(after) = {h \in Heads(table) : h[1] # key}

LEMMA WithoutIs ==
  ASSUME NEW table, TableOk(table), NEW key
  PROVE  Removed(Without(table, key), table, key)
<1>1. CASE key \in Keys(table)
  <2> PICK k : k = PlaceOf(table, key)
    OBVIOUS
  <2>1. k \in DOMAIN table /\ table[k].key = key
    BY <1>1 DEF PlaceOf, Keys
  <2> PICK rest : rest = LeaveOut(table, k)
    OBVIOUS
  <2>2. PartOf(rest, table, DOMAIN table \ {k})
    BY <2>1, LeaveOutIs DEF TableOk
  <2>3. TableOk(rest) /\ Heads(rest) = HeadsAt(table, DOMAIN table \ {k})
    BY <2>2, PartIsTable
  <2>4. ASSUME NEW h \in HeadsAt(table, DOMAIN table \ {k}) PROVE h \in Heads(table) /\ h[1] # key
    <3>1. PICK i \in DOMAIN table \ {k} : h = <<table[i].key, table[i].val>>
      BY <2>4 DEF HeadsAt
    <3> QED
      BY <3>1, <2>1 DEF Heads, TableOk
  <2>5. ASSUME NEW h \in Heads(table), h[1] # key PROVE h \in HeadsAt(table, DOMAIN table \ {k})
    <3>1. PICK i \in DOMAIN table : h = <<table[i].key, table[i].val>>
      BY <2>5 DEF Heads
    <3>2. i # k
      BY <3>1, <2>1, <2>5
    <3> QED
      BY <3>1, <3>2 DEF HeadsAt
  <2> QED
    BY <1>1, <2>3, <2>4, <2>5 DEF Without, Removed
<1>2. CASE key \notin Keys(table)
  <2>1. ASSUME NEW h \in Heads(table) PROVE h[1] # key
    <3>1. PICK i \in DOMAIN table : h = <<table[i].key, table[i].val>>
      BY <2>1 DEF Heads
    <3> QED
      BY <3>1, <1>2 DEF Keys
  <2> QED
    BY <1>2, <2>1 DEF Without, Removed
<1> QED
  BY <1>1, <1>2

\* A key has the value, whatever it had before.
Assigned(after, table, key, val) ==
    TableOk(after) /\ Heads(after) = {h \in Heads(table) : h[1] # key} \cup {<<key, val>>}

LEMMA AppendedKey ==
  ASSUME NEW table, TableOk(table), NEW key, key \notin Keys(table), NEW val
  PROVE  Assigned(Append(table, [key |-> key, val |-> val]), table, key, val)
<1> PICK e : e = [key |-> key, val |-> val]
  OBVIOUS
<1> PICK after : after = Append(table, e)
  OBVIOUS
<1>1. Grown(after, table, e)
  BY OneMore DEF TableOk
<1>2. e.key = key /\ e.val = val
  OBVIOUS
<1>3. \A i \in DOMAIN table : table[i].key # key
  BY DEF Keys
<1>4. TableOk(after)
  BY <1>1, <1>2, <1>3 DEF Grown, TableOk
<1>5. ASSUME NEW h \in Heads(after) PROVE (h \in Heads(table) /\ h[1] # key) \/ h = <<key, val>>
  <2>1. PICK i \in DOMAIN after : h = <<after[i].key, after[i].val>>
    BY <1>5 DEF Heads
  <2>2. CASE i \in DOMAIN table
    BY <2>1, <2>2, <1>1, <1>3 DEF Grown, Heads
  <2>3. CASE i = Len(table) + 1
    BY <2>1, <2>3, <1>1, <1>2 DEF Grown
  <2> QED
    BY <2>2, <2>3, <1>1 DEF Grown
<1>6. ASSUME NEW h \in Heads(table) PROVE h \in Heads(after) /\ h[1] # key
  <2>1. PICK i \in DOMAIN table : h = <<table[i].key, table[i].val>>
    BY <1>6 DEF Heads
  <2> QED
    BY <2>1, <1>1, <1>3 DEF Grown, Heads
<1>7. <<key, val>> \in Heads(after)
  BY <1>1, <1>2 DEF Grown, Heads
<1> QED
  BY <1>4, <1>5, <1>6, <1>7 DEF Assigned

LEMMA AssignIs ==
  ASSUME NEW table, TableOk(table), NEW key, NEW val
  PROVE  Assigned(Assign(table, key, val), table, key, val)
<1>1. CASE key \notin Keys(table)
  BY <1>1, AppendedKey DEF Assign
<1>2. CASE key \in Keys(table)
  <2> PICK e : e = [key |-> key, val |-> val]
    OBVIOUS
  <2> PICK after : after = [i \in DOMAIN table |-> IF table[i].key = key THEN e ELSE table[i]]
    OBVIOUS
  <2>1. e.key = key /\ e.val = val
    OBVIOUS
  <2>2. /\ DOMAIN after = DOMAIN table
        /\ \A i \in DOMAIN table : table[i].key = key => after[i] = e
        /\ \A i \in DOMAIN table : table[i].key # key => after[i] = table[i]
    OBVIOUS
  <2>3. IsSeq(after)
    <3> DEFINE S == {after[i] : i \in DOMAIN after}
    <3>1. Len(table) \in Nat /\ DOMAIN table = 1..Len(table)
      BY SeqFacts DEF TableOk
    <3>2. after \in [1..Len(table) -> S]
      BY <2>2, <3>1
    <3> HIDE DEF S
    <3>3. after \in Seq(S)
      BY <3>1, <3>2, SeqDef
    <3> QED
      BY <3>3, SeqIs
  <2>4. \A i \in DOMAIN table : after[i].key = table[i].key
    BY <2>1, <2>2
  <2>5. TableOk(after)
    BY <2>2, <2>3, <2>4 DEF TableOk
  <2>6. ASSUME NEW h \in Heads(after) PROVE (h \in Heads(table) /\ h[1] # key) \/ h = <<key, val>>
    <3>1. PICK i \in DOMAIN table : h = <<after[i].key, after[i].val>>
      BY <2>2, <2>6 DEF Heads
    <3> QED
      BY <3>1, <2>1, <2>2 DEF Heads
  <2>7. ASSUME NEW h \in Heads(table), h[1] # key PROVE h \in Heads(after)
    <3>1. PICK i \in DOMAIN table : h = <<table[i].key, table[i].val>>
      BY <2>7 DEF Heads
    <3> QED
      BY <3>1, <2>2, <2>7 DEF Heads
  <2>8. <<key, val>> \in Heads(after)
    <3>1. PICK i \in DOMAIN table : table[i].key = key
      BY <1>2 DEF Keys
    <3> QED
      BY <3>1, <2>1, <2>2 DEF Heads
  <2> QED
    BY <1>2, <2>5, <2>6, <2>7, <2>8 DEF Assign, Assigned
<1> QED
  BY <1>1, <1>2

LEMMA BoundedIs ==
  ASSUME NEW table, TableOk(table)
  PROVE  /\ TableOk(Bounded(table)) /\ Heads(Bounded(table)) \subseteq Heads(table)
         /\ Len(table) < MaxPending => Bounded(table) = table
<1>1. CASE Len(table) < MaxPending
  BY <1>1 DEF Bounded
<1>2. CASE ~(Len(table) < MaxPending)
  <2>1. Len(table) \in Nat /\ MaxPending \in Nat \ {0} /\ IsSeq(table)
    BY SeqFacts, EmitterAssumption DEF TableOk
  <2> PICK first : first = Len(table) - MaxPending + 2
    OBVIOUS
  <2>2. first \in 1..(Len(table) + 1)
    BY <2>1, <1>2
  <2> PICK rest : rest = SubSeq(table, first, Len(table))
    OBVIOUS
  <2>3. PartOf(rest, table, first..Len(table))
    BY <2>1, <2>2, RestIs
  <2>4. TableOk(rest) /\ Heads(rest) = HeadsAt(table, first..Len(table)) /\ first..Len(table) \subseteq DOMAIN table
    BY <2>3, PartIsTable DEF PartOf
  <2>5. Heads(rest) \subseteq Heads(table)
    BY <2>4 DEF Heads, HeadsAt
  <2> QED
    BY <1>2, <2>4, <2>5 DEF Bounded
<1> QED
  BY <1>1, <1>2

\* A key has the value, and older entries may have been given up for it.
Remembered(after, table, key, val) ==
    /\ TableOk(after)
    /\ <<key, val>> \in Heads(after)
    /\ Heads(after) \subseteq {h \in Heads(table) : h[1] # key} \cup {<<key, val>>}
    /\ Len(table) < MaxPending =>
           Heads(after) = {h \in Heads(table) : h[1] # key} \cup {<<key, val>>}

LEMMA RememberIs ==
  ASSUME NEW table, TableOk(table), NEW key, NEW val
  PROVE  Remembered(Remember(table, key, val), table, key, val)
<1> PICK short : short = Bounded(table)
  OBVIOUS
<1>1. TableOk(short) /\ Heads(short) \subseteq Heads(table) /\ (Len(table) < MaxPending => short = table)
  BY BoundedIs
<1> PICK after : after = Assign(short, key, val)
  OBVIOUS
<1>2. Assigned(after, short, key, val)
  BY <1>1, AssignIs
<1> QED
  BY <1>1, <1>2 DEF Remember, Assigned, Remembered

LEMMA KeysOf ==
  ASSUME NEW table
  PROVE  Keys(table) = {h[1] : h \in Heads(table)}
<1>1. ASSUME NEW key \in Keys(table) PROVE key \in {h[1] : h \in Heads(table)}
  <2>1. PICK i \in DOMAIN table : table[i].key = key
    BY <1>1 DEF Keys
  <2>2. <<table[i].key, table[i].val>> \in Heads(table) /\ <<table[i].key, table[i].val>>[1] = key
    BY <2>1 DEF Heads
  <2> QED
    BY <2>2
<1>2. ASSUME NEW h \in Heads(table) PROVE h[1] \in Keys(table)
  BY DEF Keys, Heads
<1> QED
  BY <1>1, <1>2

\* Two entries of one key are one.
LEMMA OneValue ==
  ASSUME NEW table, TableOk(table), NEW g, NEW h, g \in Heads(table), h \in Heads(table), g[1] = h[1]
  PROVE  g = h
<1>1. PICK i \in DOMAIN table : g = <<table[i].key, table[i].val>>
  BY DEF Heads
<1>2. PICK j \in DOMAIN table : h = <<table[j].key, table[j].val>>
  BY DEF Heads
<1>3. i = j
  BY <1>1, <1>2 DEF TableOk
<1> QED
  BY <1>1, <1>2, <1>3

LEMMA HeadsArePairs ==
  ASSUME NEW table, NEW h, h \in Heads(table)
  PROVE  h = <<h[1], h[2]>>
BY DEF Heads

-----------------------------------------------------------------------------
(* Records and what they cite                                               *)

LEMMA CapsuleIs ==
  ASSUME NEW c, NEW status, NEW output, NEW prior, NEW marks
  PROVE  /\ Capsule(c, status, output, prior, marks).call = c
         /\ Capsule(c, status, output, prior, marks).status = status
         /\ Capsule(c, status, output, prior, marks).prior = prior
         /\ Capsule(c, status, output, prior, marks).marks = marks
         /\ Capsule(c, status, output, prior, marks).model = 0
BY DEF Capsule

LEMMA AttributedIs ==
  ASSUME NEW c, NEW status, NEW output, NEW prior, NEW marks, NEW model
  PROVE  /\ Attributed(Capsule(c, status, output, prior, marks), model).call = c
         /\ Attributed(Capsule(c, status, output, prior, marks), model).status = status
         /\ Attributed(Capsule(c, status, output, prior, marks), model).prior = prior
         /\ Attributed(Capsule(c, status, output, prior, marks), model).marks = marks
         /\ Attributed(Capsule(c, status, output, prior, marks), model).model = model
BY DEF Capsule, Attributed

\* One seal: the record is added, or its call has lost one.
Wrote(led2, lo2, led, lo, capsule) ==
    \/ Grown(led2, led, capsule) /\ lo2 = lo
    \/ led2 = led /\ lo2 = lo \cup {capsule.call}

LEMMA SealWrites ==
  ASSUME IsSeq(ledger), NEW capsule, NEW sealed \in BOOLEAN, Seal(capsule, sealed)
  PROVE  /\ Wrote(ledger', lost', ledger, lost, capsule)
         /\ sealed => Grown(ledger', ledger, capsule) /\ lost' = lost
         /\ ~sealed => ledger' = ledger /\ lost' = lost \cup {capsule.call}
<1>1. Grown(Append(ledger, capsule), ledger, capsule)
  BY OneMore
<1>2. CASE sealed
  BY <1>1, <1>2 DEF Seal, Wrote
<1>3. CASE ~sealed
  BY <1>3 DEF Seal, Wrote
<1> QED
  BY <1>2, <1>3

About(led, c)      == {i \in DOMAIN led : led[i].call = c}
PlansIn(led, c)    == {i \in About(led, c) : led[i].status = "planned"}
OutcomesIn(led, c) == {i \in About(led, c) : led[i].status # "planned"}

LEMMA AboutGrows ==
  ASSUME NEW led, NEW led2, NEW capsule, NEW c, Grown(led2, led, capsule)
  PROVE  /\ About(led2, c) = About(led, c) \cup (IF capsule.call = c THEN {Len(led) + 1} ELSE {})
         /\ \A i \in About(led, c) : led2[i] = led[i]
         /\ Len(led) + 1 \in DOMAIN led2 /\ led2[Len(led) + 1] = capsule
BY DEF Grown, About

\* Nothing about a call was added.
Untouched(led2, led, c) ==
    About(led2, c) = About(led, c) /\ \A i \in About(led, c) : led2[i] = led[i]

LEMMA OthersStay ==
  ASSUME NEW led, NEW led2, NEW lo, NEW lo2, NEW capsule, Wrote(led2, lo2, led, lo, capsule)
  PROVE  \A c : c # capsule.call => Untouched(led2, led, c)
<1>1. CASE led2 = led
  BY <1>1 DEF Untouched
<1>2. CASE Grown(led2, led, capsule)
  BY <1>2 DEF Grown, About, Untouched
<1> QED
  BY <1>1, <1>2 DEF Wrote

\* What a record cites: the call itself, or its tool and arguments.
Name(bySignature, c) == IF bySignature THEN Signature[c] ELSE c

\* A record cites one of the same name, nobody else does, and an open entry
\* names a record that is not cited yet.
Pairs(bySignature, led, open) ==
    /\ IsSeq(led)
    /\ \A i \in DOMAIN led : led[i].prior # 0 =>
           /\ led[i].prior \in DOMAIN led
           /\ Name(bySignature, led[led[i].prior].call) = Name(bySignature, led[i].call)
    /\ \A i, j \in DOMAIN led : led[i].prior # 0 /\ led[i].prior = led[j].prior => i = j
    /\ \A h \in open : h[2] # 0 =>
           /\ h[2] \in DOMAIN led
           /\ Name(bySignature, led[h[2]].call) = h[1]
           /\ \A i \in DOMAIN led : led[i].prior # h[2]

\* What may be open after a record: what was open and is not cited by it,
\* and the record itself.
Reopened(bySignature, open2, open, led2, led, capsule) ==
    \A h \in open2 :
        \/ h[2] = 0
        \/ h \in open /\ (h[2] # capsule.prior \/ led2 = led)
        \/ Grown(led2, led, capsule) /\ h[1] = Name(bySignature, capsule.call) /\ h[2] = Len(led) + 1

LEMMA PairsStep ==
  ASSUME NEW bySignature, NEW led, NEW led2, NEW lo, NEW lo2, NEW open, NEW open2, NEW capsule,
         Pairs(bySignature, led, open), Wrote(led2, lo2, led, lo, capsule),
         \/ capsule.prior = 0
         \/ \E h \in open : h[1] = Name(bySignature, capsule.call) /\ h[2] = capsule.prior,
         Reopened(bySignature, open2, open, led2, led, capsule)
  PROVE  Pairs(bySignature, led2, open2)
<1>1. CASE led2 = led
  <2>1. ~Grown(led2, led, capsule)
    BY <1>1 DEF Grown
  <2> QED
    BY <1>1, <2>1 DEF Pairs, Reopened
<1>2. CASE Grown(led2, led, capsule)
  <2> PICK n : n = Len(led) + 1
    OBVIOUS
  <2>1. /\ IsSeq(led2) /\ DOMAIN led2 = DOMAIN led \cup {n} /\ led2[n] = capsule
        /\ \A i \in DOMAIN led : led2[i] = led[i] /\ i # n
        /\ n # 0
    BY <1>2 DEF Grown
  <2>2. capsule.prior # 0 => /\ capsule.prior \in DOMAIN led
                             /\ Name(bySignature, led[capsule.prior].call) = Name(bySignature, capsule.call)
                             /\ \A i \in DOMAIN led : led[i].prior # capsule.prior
    BY DEF Pairs
  <2>3. \A i \in DOMAIN led : led[i].prior # 0 => led[i].prior \in DOMAIN led
    BY DEF Pairs
  <2>4. ASSUME NEW i \in DOMAIN led2, led2[i].prior # 0
        PROVE  /\ led2[i].prior \in DOMAIN led2
               /\ Name(bySignature, led2[led2[i].prior].call) = Name(bySignature, led2[i].call)
    <3>1. CASE i = n
      BY <3>1, <2>1, <2>2, <2>4
    <3>2. CASE i \in DOMAIN led
      BY <3>2, <2>1, <2>4 DEF Pairs
    <3> QED
      BY <3>1, <3>2, <2>1
  <2>5. ASSUME NEW i \in DOMAIN led2, NEW j \in DOMAIN led2, led2[i].prior # 0, led2[i].prior = led2[j].prior
        PROVE  i = j
    <3>1. CASE i = n /\ j \in DOMAIN led
      BY <3>1, <2>1, <2>2, <2>5
    <3>2. CASE j = n /\ i \in DOMAIN led
      BY <3>2, <2>1, <2>2, <2>5
    <3>3. CASE i \in DOMAIN led /\ j \in DOMAIN led
      BY <3>3, <2>1, <2>5 DEF Pairs
    <3> QED
      BY <3>1, <3>2, <3>3, <2>1
  <2>6. ASSUME NEW h \in open2, h[2] # 0
        PROVE  /\ h[2] \in DOMAIN led2
               /\ Name(bySignature, led2[h[2]].call) = h[1]
               /\ \A i \in DOMAIN led2 : led2[i].prior # h[2]
    <3>1. CASE h \in open /\ h[2] # capsule.prior
      <4>1. h[2] \in DOMAIN led /\ Name(bySignature, led[h[2]].call) = h[1] /\ \A i \in DOMAIN led : led[i].prior # h[2]
        BY <3>1, <2>6 DEF Pairs
      <4> QED
        BY <3>1, <4>1, <2>1
    <3>2. CASE h[1] = Name(bySignature, capsule.call) /\ h[2] = n
      <4>1. \A i \in DOMAIN led : led[i].prior # n
        BY <2>1, <2>3
      <4>2. capsule.prior # n
        BY <2>1, <2>2
      <4> QED
        BY <3>2, <4>1, <4>2, <2>1
    <3>3. led2 # led
      BY <2>1
    <3> QED
      BY <3>1, <3>2, <3>3, <2>6 DEF Reopened
  <2> QED
    BY <2>1, <2>4, <2>5, <2>6 DEF Pairs
<1> QED
  BY <1>1, <1>2 DEF Wrote

LEMMA PairsShrink ==
  ASSUME NEW bySignature, NEW led, NEW open, NEW open2, Pairs(bySignature, led, open),
         \A h \in open2 : h \in open \/ h[2] = 0
  PROVE  Pairs(bySignature, led, open2)
BY DEF Pairs

\* Who ended has an outcome on record, or lost one.
Ends == {"done", "raised"}
Recorded(led, ph, lo) ==
    \A c \in Calls : ph[c] \in Ends => c \in lo \/ OutcomesIn(led, c) # {}

LEMMA RecordedStep ==
  ASSUME NEW led, NEW led2, NEW lo, NEW lo2, NEW ph, NEW ph2, NEW capsule,
         Recorded(led, ph, lo), Wrote(led2, lo2, led, lo, capsule),
         \A d \in Calls : d # capsule.call => ph2[d] = ph[d],
         capsule.call \in Calls => capsule.status # "planned" \/ ph2[capsule.call] \notin Ends
  PROVE  Recorded(led2, ph2, lo2)
<1> SUFFICES ASSUME NEW c \in Calls, ph2[c] \in Ends
             PROVE  c \in lo2 \/ OutcomesIn(led2, c) # {}
  BY DEF Recorded
<1>1. CASE led2 = led /\ lo2 = lo \cup {capsule.call}
  BY <1>1 DEF Recorded
<1>2. CASE Grown(led2, led, capsule) /\ lo2 = lo
  <2>1. /\ About(led2, c) = About(led, c) \cup (IF capsule.call = c THEN {Len(led) + 1} ELSE {})
        /\ \A i \in About(led, c) : led2[i] = led[i]
        /\ led2[Len(led) + 1] = capsule
    BY <1>2, AboutGrows
  <2>2. CASE c # capsule.call
    BY <1>2, <2>1, <2>2 DEF Recorded, OutcomesIn
  <2>3. CASE c = capsule.call
    BY <2>1, <2>3 DEF OutcomesIn
  <2> QED
    BY <2>2, <2>3
<1> QED
  BY <1>1, <1>2 DEF Wrote

\* No record was made.
LEMMA RecordedStays ==
  ASSUME NEW led, NEW lo, NEW ph, NEW ph2, Recorded(led, ph, lo),
         \A d \in Calls : ph2[d] = ph[d] \/ ph2[d] \notin Ends
  PROVE  Recorded(led, ph2, lo)
BY DEF Recorded

\* The host moves one call on.
Moved(ph2, ph, c, next) ==
    DOMAIN ph2 = Calls /\ ph2[c] = next /\ \A d \in Calls : d # c => ph2[d] = ph[d]

LEMMA BecomesMoves ==
  ASSUME DOMAIN phase = Calls, NEW c \in Calls, NEW now, NEW next, Becomes(c, now, next)
  PROVE  phase[c] = now /\ Moved(phase', phase, c, next)
BY DEF Becomes, Moved

-----------------------------------------------------------------------------
(* A listener that is told the start and the end of a call                  *)

\* The record says that its plan is not in the ledger.
Orphan(capsule) == \E m \in capsule.marks : m[1] = "unchained"

LEMMA OrphanMarks ==
  ASSUME NEW i
  PROVE  MarkIds(i, "unchained") # {} <=> Orphan(ledger[i])
BY DEF MarkIds, Orphan

Mark == {<<"unchained", 0>>}

LEMMA UnchainedIs ==
  ASSUME NEW capsule, NEW others, NEW marks, capsule.marks = others \cup marks,
         \A m \in others : m[1] # "unchained"
  PROVE  /\ marks = Mark => Orphan(capsule)
         /\ marks = {} => ~Orphan(capsule)
<1>1. ASSUME marks = Mark PROVE Orphan(capsule)
  <2>1. <<"unchained", 0>> \in capsule.marks /\ <<"unchained", 0>>[1] = "unchained"
    BY <1>1 DEF Mark
  <2> QED
    BY <2>1 DEF Orphan
<1> QED
  BY <1>1 DEF Orphan

\* Before it starts nothing of a call is on record, until it ends no outcome.
Fresh(led, ph, lo) ==
    \A c \in Calls : /\ ph[c] = "new" => About(led, c) = {} /\ c \notin lo
                     /\ ph[c] = "running" => OutcomesIn(led, c) = {}

\* An entry is of a call that runs, and one that stands for a lost plan has none.
Entries(led, ph, open) ==
    \A h \in open : /\ h[1] \in Calls /\ ph[h[1]] = "running"
                    /\ h[2] = 0 => PlansIn(led, h[1]) = {}

\* More calls have started than a table holds, so it may have given some up.
Started(ph)   == {d \in Calls : ph[d] # "new"}
Over(who, ph) == who = "langchain" /\ Cardinality(Started(ph)) > MaxPending

\* A call without an entry has no plan, or entries were given up.
Forgotten(who, led, ph, open) ==
    \A c \in Calls : ph[c] = "running" =>
        \/ Over(who, ph)
        \/ who # "langchain" /\ PlansIn(led, c) = {}
        \/ \E h \in open : h[1] = c

\* An outcome that says so has no plan; one that cites none says so, except
\* where entries are given up or records are handed in.
Explained(who, led, ph, lo) ==
    \A c \in Calls : \A i \in OutcomesIn(led, c) :
        /\ Orphan(led[i]) => (PlansIn(led, c) = {} /\ led[i].prior = 0)
        /\ led[i].prior # 0 \/ Orphan(led[i]) \/ Over(who, ph) \/ (who = "langchain" /\ c \notin lo)

ListenerOk(who, led, ph, lo, open) ==
    /\ DOMAIN ph = Calls
    /\ Pairs(FALSE, led, open)
    /\ Recorded(led, ph, lo)
    /\ Fresh(led, ph, lo)
    /\ Entries(led, ph, open)
    /\ Forgotten(who, led, ph, open)
    /\ Explained(who, led, ph, lo)

\* The other entries are kept, and there is one of this call.
Kept(open2, open, c) ==
    (\A h \in open : h[1] # c => h \in open2) /\ \E h \in open2 : h[1] = c

\* The plan of a call is sealed, or lost, and remembered in either case.
Starts(led2, ph2, lo2, open2, led, ph, lo, open, c, capsule) ==
    /\ ph[c] = "new" /\ Moved(ph2, ph, c, "running")
    /\ capsule.call = c /\ capsule.prior = 0 /\ capsule.status = "planned"
    /\ Wrote(led2, lo2, led, lo, capsule)
    /\ \A h \in open2 : \/ h \in open /\ h[1] # c
                        \/ h[1] = c /\ h[2] = (IF led2 = led THEN 0 ELSE Len(led) + 1)

LEMMA StartKeeps ==
  ASSUME NEW who, NEW led, NEW ph, NEW lo, NEW open,
         NEW led2, NEW ph2, NEW lo2, NEW open2, NEW c \in Calls, NEW capsule,
         ListenerOk(who, led, ph, lo, open), Over(who, ph) => Over(who, ph2),
         Starts(led2, ph2, lo2, open2, led, ph, lo, open, c, capsule),
         Over(who, ph2) \/ Kept(open2, open, c)
  PROVE  ListenerOk(who, led2, ph2, lo2, open2)
<1> USE DEF Starts
<1> PICK n : n = Len(led) + 1
  OBVIOUS
<1>1. \A d \in Calls : d # c => ph2[d] = ph[d]
  BY DEF Moved
<1>2. ph2[c] = "running" /\ DOMAIN ph2 = Calls
  BY DEF Moved
<1>3. \A d \in Calls : d # c => About(led2, d) = About(led, d) /\ \A i \in About(led, d) : led2[i] = led[i]
  <2> SUFFICES ASSUME NEW d \in Calls, d # c
               PROVE  About(led2, d) = About(led, d) /\ \A i \in About(led, d) : led2[i] = led[i]
    OBVIOUS
  <2> QED
    BY OthersStay DEF Untouched
<1>4. About(led, c) = {} /\ c \notin lo /\ \A h \in open : h[1] # c
  BY DEF ListenerOk, Fresh, Entries
<1>5. /\ Grown(led2, led, capsule) => About(led2, c) = {n} /\ led2[n] = capsule
      /\ led2 = led => About(led2, c) = {}
  <2>1. CASE Grown(led2, led, capsule)
    BY <1>4, <2>1 DEF Grown, About
  <2>2. led2 = led => ~Grown(led2, led, capsule)
    BY DEF Grown
  <2> QED
    BY <1>4, <2>1, <2>2
<1>6. lo2 \subseteq lo \cup {c} /\ (led2 = led \/ Grown(led2, led, capsule))
  BY DEF Wrote
<1>7. OutcomesIn(led2, c) = {}
  BY <1>5, <1>6 DEF OutcomesIn
<1>8. /\ \A d \in Calls : d # c => PlansIn(led2, d) = PlansIn(led, d) /\ OutcomesIn(led2, d) = OutcomesIn(led, d)
      /\ led2 = led => PlansIn(led2, c) = {}
  BY <1>3, <1>5 DEF PlansIn, OutcomesIn
<1>9. Grown(led2, led, capsule) => led2 # led
  BY DEF Grown
<1>10. Pairs(FALSE, led2, open2)
  <2>1. Reopened(FALSE, open2, open, led2, led, capsule)
    <3> SUFFICES ASSUME NEW h \in open2
                 PROVE  \/ h[2] = 0
                        \/ h \in open /\ (h[2] # capsule.prior \/ led2 = led)
                        \/ Grown(led2, led, capsule) /\ h[1] = Name(FALSE, capsule.call) /\ h[2] = Len(led) + 1
      BY DEF Reopened
    <3> QED
      BY <1>6 DEF Name
  <2> QED
    BY <2>1, PairsStep DEF ListenerOk
<1>11. Recorded(led2, ph2, lo2)
  BY <1>1, <1>2, RecordedStep DEF ListenerOk, Ends
<1>12. Fresh(led2, ph2, lo2)
  BY <1>1, <1>2, <1>3, <1>6, <1>7, <1>8 DEF ListenerOk, Fresh
<1>13. Entries(led2, ph2, open2)
  <2> SUFFICES ASSUME NEW h \in open2
               PROVE  h[1] \in Calls /\ ph2[h[1]] = "running" /\ (h[2] = 0 => PlansIn(led2, h[1]) = {})
    BY DEF Entries
  <2>1. CASE h \in open /\ h[1] # c
    BY <2>1, <1>1, <1>8 DEF ListenerOk, Entries
  <2>2. CASE h[1] = c /\ h[2] = (IF led2 = led THEN 0 ELSE Len(led) + 1)
    <3>1. Grown(led2, led, capsule) => Len(led) + 1 # 0
      BY DEF Grown
    <3> QED
      BY <2>2, <3>1, <1>2, <1>6, <1>8
  <2> QED
    BY <2>1, <2>2
<1>14. Forgotten(who, led2, ph2, open2)
  BY <1>1, <1>8 DEF ListenerOk, Forgotten, Kept
<1>15. Explained(who, led2, ph2, lo2)
  <2> SUFFICES ASSUME NEW d \in Calls, NEW i \in OutcomesIn(led2, d)
               PROVE  /\ Orphan(led2[i]) => PlansIn(led2, d) = {} /\ led2[i].prior = 0
                      /\ led2[i].prior # 0 \/ Orphan(led2[i]) \/ Over(who, ph2) \/ (who = "langchain" /\ d \notin lo2)
    BY DEF Explained
  <2>1. d # c
    BY <1>7
  <2>2. i \in OutcomesIn(led, d) /\ led2[i] = led[i]
    BY <2>1, <1>3, <1>8 DEF OutcomesIn
  <2> QED
    BY <2>1, <2>2, <1>6, <1>8 DEF ListenerOk, Explained
<1> QED
  BY <1>2, <1>10, <1>11, <1>12, <1>13, <1>14, <1>15 DEF ListenerOk

\* The outcome of a call is sealed, or lost, and its entry is taken.  A call
\* that starts and ends at once had none.
Finishes(led2, ph2, lo2, open2, led, ph, lo, open, c, capsule) ==
    /\ ph[c] \in {"new", "running"}
    /\ \E end : Moved(ph2, ph, c, end) /\ end \notin {"new", "running"}
    /\ capsule.call = c /\ capsule.status # "planned"
    /\ capsule.prior = 0 \/ \E h \in open : h[1] = c /\ h[2] = capsule.prior
    /\ Wrote(led2, lo2, led, lo, capsule)
    /\ open2 = {h \in open : h[1] # c}

LEMMA FinishKeeps ==
  ASSUME NEW who, NEW led, NEW ph, NEW lo, NEW open,
         NEW led2, NEW ph2, NEW lo2, NEW open2, NEW c \in Calls, NEW capsule,
         ListenerOk(who, led, ph, lo, open), Over(who, ph) => Over(who, ph2),
         Finishes(led2, ph2, lo2, open2, led, ph, lo, open, c, capsule),
         Orphan(capsule) => PlansIn(led, c) = {} /\ capsule.prior = 0,
         capsule.prior # 0 \/ Orphan(capsule) \/ Over(who, ph) \/ (who = "langchain" /\ c \notin lo)
  PROVE  ListenerOk(who, led2, ph2, lo2, open2)
<1> USE DEF Finishes
<1> PICK n : n = Len(led) + 1
  OBVIOUS
<1>1. \A d \in Calls : d # c => ph2[d] = ph[d]
  BY DEF Moved
<1>2. ph2[c] \notin {"new", "running"} /\ DOMAIN ph2 = Calls
  BY DEF Moved
<1>3. \A d \in Calls : d # c => About(led2, d) = About(led, d) /\ \A i \in About(led, d) : led2[i] = led[i]
  <2> SUFFICES ASSUME NEW d \in Calls, d # c
               PROVE  About(led2, d) = About(led, d) /\ \A i \in About(led, d) : led2[i] = led[i]
    OBVIOUS
  <2> QED
    BY OthersStay DEF Untouched
<1>4. OutcomesIn(led, c) = {}
  BY DEF ListenerOk, Fresh, OutcomesIn
<1>5. Grown(led2, led, capsule) =>
          /\ About(led2, c) = About(led, c) \cup {n} /\ led2[n] = capsule
          /\ \A i \in About(led, c) : led2[i] = led[i]
  BY AboutGrows
<1>6. /\ led2 = led \/ (Grown(led2, led, capsule) /\ lo2 = lo)
      /\ lo2 \subseteq lo \cup {c}
  BY DEF Wrote
<1>7. /\ Grown(led2, led, capsule) => OutcomesIn(led2, c) = {n} /\ PlansIn(led2, c) = PlansIn(led, c)
      /\ led2 = led => OutcomesIn(led2, c) = {}
  BY <1>4, <1>5 DEF OutcomesIn, PlansIn
<1>8. \A d \in Calls : d # c => PlansIn(led2, d) = PlansIn(led, d) /\ OutcomesIn(led2, d) = OutcomesIn(led, d)
  BY <1>3 DEF PlansIn, OutcomesIn
<1>10. Pairs(FALSE, led2, open2)
  <2>1. Reopened(FALSE, open2, open, led2, led, capsule)
    <3> SUFFICES ASSUME NEW h \in open2, h[2] # 0
                 PROVE  h \in open /\ h[2] # capsule.prior
      BY DEF Reopened
    <3>1. h \in open /\ h[1] # c
      OBVIOUS
    <3>2. Name(FALSE, led[h[2]].call) = h[1]
      BY <3>1 DEF ListenerOk, Pairs
    <3>3. ASSUME capsule.prior # 0 PROVE Name(FALSE, led[capsule.prior].call) = c
      BY <3>3 DEF ListenerOk, Pairs
    <3> QED
      BY <3>1, <3>2, <3>3
  <2> QED
    BY <2>1, PairsStep DEF ListenerOk, Name
<1>11. Recorded(led2, ph2, lo2)
  BY <1>1, RecordedStep DEF ListenerOk
<1>12. Fresh(led2, ph2, lo2)
  BY <1>1, <1>2, <1>3, <1>6, <1>8 DEF ListenerOk, Fresh
<1>13. Entries(led2, ph2, open2)
  BY <1>1, <1>8 DEF ListenerOk, Entries
<1>14. Forgotten(who, led2, ph2, open2)
  <2> SUFFICES ASSUME NEW d \in Calls, ph2[d] = "running"
               PROVE  \/ Over(who, ph2)
                      \/ who # "langchain" /\ PlansIn(led2, d) = {}
                      \/ \E h \in open2 : h[1] = d
    BY DEF Forgotten
  <2>1. d # c
    BY <1>2
  <2>2. Over(who, ph) \/ (who # "langchain" /\ PlansIn(led, d) = {}) \/ \E h \in open : h[1] = d
    BY <2>1, <1>1 DEF ListenerOk, Forgotten
  <2> QED
    BY <2>1, <2>2, <1>8
<1>15. Explained(who, led2, ph2, lo2)
  <2> SUFFICES ASSUME NEW d \in Calls, NEW i \in OutcomesIn(led2, d)
               PROVE  /\ Orphan(led2[i]) => PlansIn(led2, d) = {} /\ led2[i].prior = 0
                      /\ led2[i].prior # 0 \/ Orphan(led2[i]) \/ Over(who, ph2) \/ (who = "langchain" /\ d \notin lo2)
    BY DEF Explained
  <2>1. CASE d # c
    <3>1. i \in OutcomesIn(led, d) /\ led2[i] = led[i]
      BY <2>1, <1>3, <1>8 DEF OutcomesIn
    <3> QED
      BY <2>1, <3>1, <1>6, <1>8 DEF ListenerOk, Explained
  <2>2. CASE d = c
    <3>1. Grown(led2, led, capsule) /\ lo2 = lo
      BY <2>2, <1>6, <1>7
    <3>2. i = n /\ led2[i] = capsule
      BY <2>2, <3>1, <1>5, <1>7
    <3> QED
      BY <2>2, <3>1, <3>2, <1>7
  <2> QED
    BY <2>1, <2>2
<1> QED
  BY <1>2, <1>10, <1>11, <1>12, <1>13, <1>14, <1>15 DEF ListenerOk

\* A record that is about no call changes none of this, sealed or lost.
LEMMA NoteKeeps ==
  ASSUME NEW who, NEW led, NEW ph, NEW lo, NEW open, NEW led2, NEW lo2, NEW capsule,
         ListenerOk(who, led, ph, lo, open), Wrote(led2, lo2, led, lo, capsule),
         capsule.call = NoCall, capsule.prior = 0
  PROVE  ListenerOk(who, led2, ph, lo2, open)
<1>1. \A d \in Calls : d # NoCall
  BY EmitterAssumption
<1>2. \A d \in Calls : About(led2, d) = About(led, d) /\ \A i \in About(led, d) : led2[i] = led[i]
  <2> SUFFICES ASSUME NEW d \in Calls
               PROVE  About(led2, d) = About(led, d) /\ \A i \in About(led, d) : led2[i] = led[i]
    OBVIOUS
  <2> QED
    BY <1>1, OthersStay DEF Untouched
<1>3. \A d \in Calls : PlansIn(led2, d) = PlansIn(led, d) /\ OutcomesIn(led2, d) = OutcomesIn(led, d)
  BY <1>2 DEF PlansIn, OutcomesIn
<1>4. lo2 \subseteq lo \cup {NoCall}
  BY DEF Wrote
<1>5. Pairs(FALSE, led2, open)
  <2>1. Reopened(FALSE, open, open, led2, led, capsule)
    BY DEF Reopened
  <2> QED
    BY <2>1, PairsStep DEF ListenerOk
<1>6. Recorded(led2, ph, lo2)
  BY <1>1, RecordedStep DEF ListenerOk
<1>7. Fresh(led2, ph, lo2) /\ Entries(led2, ph, open) /\ Forgotten(who, led2, ph, open)
  BY <1>1, <1>2, <1>3, <1>4 DEF ListenerOk, Fresh, Entries, Forgotten
<1>8. Explained(who, led2, ph, lo2)
  <2> SUFFICES ASSUME NEW d \in Calls, NEW i \in OutcomesIn(led2, d)
               PROVE  /\ Orphan(led2[i]) => PlansIn(led2, d) = {} /\ led2[i].prior = 0
                      /\ led2[i].prior # 0 \/ Orphan(led2[i]) \/ Over(who, ph) \/ (who = "langchain" /\ d \notin lo2)
    BY DEF Explained
  <2>1. i \in OutcomesIn(led, d) /\ led2[i] = led[i] /\ d # NoCall
    BY <1>1, <1>2, <1>3 DEF OutcomesIn
  <2> QED
    BY <2>1, <1>3, <1>4 DEF ListenerOk, Explained
<1> QED
  BY <1>5, <1>6, <1>7, <1>8 DEF ListenerOk

\* A call starts and nothing is sealed or remembered of it.
LEMMA StartUnseen ==
  ASSUME NEW who, who # "langchain", NEW led, NEW ph, NEW lo, NEW open, NEW ph2, NEW c \in Calls,
         ListenerOk(who, led, ph, lo, open), ph[c] = "new", Moved(ph2, ph, c, "running")
  PROVE  ListenerOk(who, led, ph2, lo, open)
<1>1. /\ \A d \in Calls : d # c => ph2[d] = ph[d]
      /\ ph2[c] = "running" /\ DOMAIN ph2 = Calls
  BY DEF Moved
<1>2. About(led, c) = {} /\ c \notin lo /\ \A h \in open : h[1] # c
  BY DEF ListenerOk, Fresh, Entries
<1>3. PlansIn(led, c) = {} /\ OutcomesIn(led, c) = {}
  BY <1>2 DEF PlansIn, OutcomesIn
<1>4. Recorded(led, ph2, lo)
  BY <1>1, RecordedStays DEF ListenerOk, Ends
<1>5. Fresh(led, ph2, lo) /\ Entries(led, ph2, open)
  BY <1>1, <1>2, <1>3 DEF ListenerOk, Fresh, Entries
<1>6. Forgotten(who, led, ph2, open) /\ Explained(who, led, ph2, lo)
  BY <1>1, <1>2, <1>3 DEF ListenerOk, Forgotten, Explained, Over
<1> QED
  BY <1>1, <1>4, <1>5, <1>6 DEF ListenerOk

\* A call is given up: it ends with no outcome, and its entry is taken.
LEMMA GivenUp ==
  ASSUME NEW who, who # "langchain", NEW led, NEW ph, NEW lo, NEW open, NEW ph2, NEW open2, NEW c \in Calls,
         NEW end, end \notin {"new", "running", "done", "raised"},
         ListenerOk(who, led, ph, lo, open), Moved(ph2, ph, c, end),
         open2 = {h \in open : h[1] # c}
  PROVE  ListenerOk(who, led, ph2, lo, open2)
<1>1. /\ \A d \in Calls : d # c => ph2[d] = ph[d]
      /\ ph2[c] = end /\ DOMAIN ph2 = Calls
  BY DEF Moved
<1>2. Pairs(FALSE, led, open2)
  BY PairsShrink DEF ListenerOk
<1>3. Recorded(led, ph2, lo)
  BY <1>1, RecordedStays DEF ListenerOk, Ends
<1>4. Fresh(led, ph2, lo) /\ Entries(led, ph2, open2)
  BY <1>1 DEF ListenerOk, Fresh, Entries
<1>5. Forgotten(who, led, ph2, open2) /\ Explained(who, led, ph2, lo)
  BY <1>1 DEF ListenerOk, Forgotten, Explained, Over
<1> QED
  BY <1>1, <1>2, <1>3, <1>4, <1>5 DEF ListenerOk

\* As many keys as entries.
LEMMA TableSize ==
  ASSUME NEW table, TableOk(table)
  PROVE  IsFiniteSet(Keys(table)) /\ Cardinality(Keys(table)) = Len(table)
<1> PICK n : n = Len(table)
  OBVIOUS
<1>1. n \in Nat /\ DOMAIN table = 1..n
  BY SeqFacts DEF TableOk
<1> PICK f : f = [i \in 1..n |-> table[i].key]
  OBVIOUS
<1>2. f \in [1..n -> Keys(table)]
  BY <1>1 DEF Keys
<1>3. \A i, j \in 1..n : f[i] = f[j] => i = j
  BY <1>1 DEF TableOk
<1>4. \A key \in Keys(table) : \E i \in 1..n : f[i] = key
  BY <1>1 DEF Keys
<1>5. f \in Bijection(1..n, Keys(table))
  BY <1>2, <1>3, <1>4 DEF Bijection, Injection, Surjection, IsInjective
<1>6. ExistsBijection(1..n, Keys(table))
  BY <1>5 DEF ExistsBijection
<1> QED
  BY <1>1, <1>6, FS_CountingElements, FS_NatBijection

-----------------------------------------------------------------------------
(* The emitter as the modules of adapters use it                            *)

LEMMA CallEmitter ==
  /\ \A capsule, sealed : Call!Seal(capsule, sealed) <=> Seal(capsule, sealed)
  /\ \A c, now, next : Call!Becomes(c, now, next) <=> Becomes(c, now, next)
  /\ \A table : Call!Keys(table) = Keys(table)
  /\ \A table, key, default : Call!Get(table, key, default) = Get(table, key, default)
  /\ \A table, key : Call!Without(table, key) = Without(table, key)
  /\ \A table, key, val : Call!Assign(table, key, val) = Assign(table, key, val)
  /\ \A table, key, val : Call!Remember(table, key, val) = Remember(table, key, val)
  /\ \A c, status, output, prior, marks :
         Call!Capsule(c, status, output, prior, marks) = Capsule(c, status, output, prior, marks)
  /\ \A capsule, model : Call!Attributed(capsule, model) = Attributed(capsule, model)
  /\ \A dropped : Call!Unchained(dropped) = Unchained(dropped)
  /\ \A sealed : Call!IdIf(sealed) = IdIf(sealed)
  /\ \A sealed : Call!SealNote(sealed) => Seal(Capsule(NoCall, "none", FALSE, 0, {}), sealed)
  /\ Call!NextId = NextId
<1>1. \A capsule, sealed : Call!Seal(capsule, sealed) <=> Seal(capsule, sealed)
  <2>1. \A capsule : Call!Sealable(capsule) <=> Sealable(capsule)
    BY DEF Call!Sealable, Sealable
  <2>2. Call!Cardinality(lost) = Cardinality(lost)
    BY DEF Call!Cardinality, Cardinality
  <2>3. ASSUME NEW capsule, NEW sealed PROVE Call!Seal(capsule, sealed) <=> Seal(capsule, sealed)
    BY <2>1, <2>2 DEF Call!Seal, Seal
  <2> QED
    BY <2>3
<1>2. \A c, now, next : Call!Becomes(c, now, next) <=> Becomes(c, now, next)
  BY DEF Call!Becomes, Becomes
<1>3. \A table : Call!Keys(table) = Keys(table)
  BY DEF Call!Keys, Keys
<1>4. \A table, key, default : Call!Get(table, key, default) = Get(table, key, default)
  BY DEF Call!Get, Get, Call!Keys, Keys, Call!PlaceOf, PlaceOf
<1>5. \A table, key : Call!Without(table, key) = Without(table, key)
  BY DEF Call!Without, Without, Call!Keys, Keys, Call!PlaceOf, PlaceOf, Call!LeaveOut, LeaveOut
<1>6. \A table, key, val : Call!Assign(table, key, val) = Assign(table, key, val)
  BY DEF Call!Assign, Assign, Call!Keys, Keys
<1>7. \A table, key, val : Call!Remember(table, key, val) = Remember(table, key, val)
  BY DEF Call!Remember, Remember, Call!Assign, Assign, Call!Keys, Keys, Call!Bounded, Bounded
<1>8. \A c, status, output, prior, marks :
          Call!Capsule(c, status, output, prior, marks) = Capsule(c, status, output, prior, marks)
  BY DEF Call!Capsule, Capsule
<1>9. \A capsule, model : Call!Attributed(capsule, model) = Attributed(capsule, model)
  BY DEF Call!Attributed, Attributed
<1>10. \A dropped : Call!Unchained(dropped) = Unchained(dropped)
  BY DEF Call!Unchained, Unchained
<1>11. Call!NextId = NextId /\ \A sealed : Call!IdIf(sealed) = IdIf(sealed)
  BY DEF Call!NextId, NextId, Call!IdIf, IdIf
<1>12. \A sealed : Call!SealNote(sealed) => Seal(Capsule(NoCall, "none", FALSE, 0, {}), sealed)
  BY <1>1, <1>8 DEF Call!SealNote
<1> QED
  BY <1>1, <1>2, <1>3, <1>4, <1>5, <1>6, <1>7, <1>8, <1>9, <1>10, <1>11, <1>12

\* What the properties say of most adapters.
LEMMA PairsHold ==
  ASSUME NEW open, Pairs(FALSE, ledger, open), adapter # "crewai"
  PROVE  ChainsPairTheSameCall /\ PriorsAreNotShared
<1>1. ChainsPairTheSameCall
  BY DEF Pairs, Name, ChainsPairTheSameCall, Sealed
<1>2. PriorsAreNotShared
  BY DEF Pairs, PriorsAreNotShared, Sealed
<1> QED
  BY <1>1, <1>2

LEMMA RecordedHolds ==
  ASSUME Recorded(ledger, phase, lost)
  PROVE  OutcomesRecorded
BY DEF Recorded, OutcomesRecorded, Ends, OutcomesIn, About, OutcomesOf, Sealed

LEMMA ExplainedHolds ==
  ASSUME Explained(adapter, ledger, phase, lost)
  PROVE  OrphansSayWhy
<1> SUFFICES ASSUME NEW c \in Calls, NEW i \in OutcomesOf(c)
             PROVE  /\ MarkIds(i, "unchained") # {} => PlansOf(c) = {} /\ ledger[i].prior = 0
                    /\ \/ ledger[i].prior # 0 \/ MarkIds(i, "unchained") # {}
                       \/ adapter = "langchain" /\ Cardinality({d \in Calls : phase[d] # "new"}) > MaxPending
                       \/ adapter = "langchain" /\ c \notin lost
  BY DEF OrphansSayWhy
<1>1. i \in OutcomesIn(ledger, c) /\ PlansOf(c) = PlansIn(ledger, c)
  BY DEF OutcomesOf, OutcomesIn, PlansOf, PlansIn, About, Sealed
<1>2. MarkIds(i, "unchained") # {} <=> Orphan(ledger[i])
  BY OrphanMarks
<1> QED
  BY <1>1, <1>2 DEF Explained, Over, Started

-----------------------------------------------------------------------------
(* LangChain                                                                *)

LangChainOk(led, ph, lo, table) ==
    /\ TableOk(table)
    /\ ListenerOk("langchain", led, ph, lo, Heads(table))
    /\ IsFiniteSet(Started(ph))

LangChainInv == adapter = "langchain" => LangChainOk(ledger, phase, lost, pending)

\* Before anything has happened.
LEMMA NothingYet ==
  ASSUME EmitterInit, NEW who
  PROVE  /\ ListenerOk(who, ledger, phase, lost, Heads(pending))
         /\ TableOk(pending) /\ IsSeq(ledger) /\ DOMAIN ledger = {} /\ Heads(pending) = {}
         /\ \A bySignature : Pairs(bySignature, ledger, Heads(pending))
         /\ Recorded(ledger, phase, lost)
         /\ DOMAIN phase = Calls /\ \A c \in Calls : phase[c] = "new"
<1>1. /\ ledger = <<>> /\ pending = <<>> /\ lost = {}
      /\ DOMAIN phase = Calls /\ \A c \in Calls : phase[c] = "new"
  BY DEF EmitterInit
<1>2. /\ TableOk(pending) /\ IsSeq(ledger) /\ DOMAIN ledger = {} /\ Heads(pending) = {}
  BY <1>1, EmptyTable
<1>3. \A c : About(ledger, c) = {} /\ OutcomesIn(ledger, c) = {} /\ PlansIn(ledger, c) = {}
  BY <1>2 DEF About, OutcomesIn, PlansIn
<1>4. \A bySignature : Pairs(bySignature, ledger, Heads(pending))
  BY <1>2 DEF Pairs
<1>5. Recorded(ledger, phase, lost)
  BY <1>1 DEF Recorded, Ends
<1>6. /\ Fresh(ledger, phase, lost) /\ Entries(ledger, phase, Heads(pending))
      /\ Forgotten(who, ledger, phase, Heads(pending)) /\ Explained(who, ledger, phase, lost)
  BY <1>1, <1>2, <1>3 DEF Fresh, Entries, Forgotten, Explained
<1> QED
  BY <1>1, <1>2, <1>4, <1>5, <1>6 DEF ListenerOk

LEMMA LangChainStart == Init => LangChainInv
<1> SUFFICES ASSUME EmitterInit PROVE LangChainOk(ledger, phase, lost, pending)
  BY DEF Init, LangChainInv
<1>2. TableOk(pending) /\ ListenerOk("langchain", ledger, phase, lost, Heads(pending))
  BY NothingYet
<1>3. \A c \in Calls : phase[c] = "new"
  BY NothingYet
<1>4. Started(phase) = {}
  BY <1>3 DEF Started
<1> QED
  BY <1>2, <1>4, FS_EmptySet DEF LangChainOk

LEMMA LangChainHolds ==
  ASSUME LangChainInv, adapter = "langchain"
  PROVE  CitationsAreTrue /\ OutcomesAreRecordedOnce
<1>1. ListenerOk("langchain", ledger, phase, lost, Heads(pending))
  BY DEF LangChainInv, LangChainOk
<1>2. ChainsPairTheSameCall /\ PriorsAreNotShared
  BY <1>1, PairsHold DEF ListenerOk
<1>3. OutcomesRecorded
  BY <1>1, RecordedHolds DEF ListenerOk
<1>4. OrphansSayWhy
  BY <1>1, ExplainedHolds DEF ListenerOk
<1>5. CitationsAreTrue
  BY <1>2 DEF CitationsAreTrue, ParentsAreTrue, SequentialCallsPair, ReplaysWereConfirmed,
              RetriesNameTheLastPlan, ModelOfItsRoot, FunctionModelIsItsRuns, ManifestsBehindDigests
<1> QED
  BY <1>3, <1>4, <1>5 DEF OutcomesAreRecordedOnce, OutcomesAreComplete, EitherObserverSeals,
              NoOutcomeIsRefused, GatedCallsAreRecorded, BackfillMissesNothing, OneRecordPerCall, BackfilledOnce

\* More calls have started, by one or none.
LEMMA StartedGrows ==
  ASSUME NEW ph, NEW ph2, IsFiniteSet(Started(ph)), NEW c \in Calls, NEW next,
         Moved(ph2, ph, c, next), next # "new"
  PROVE  /\ IsFiniteSet(Started(ph2))
         /\ Over("langchain", ph) => Over("langchain", ph2)
         /\ ph[c] = "new" => Cardinality(Started(ph2)) = Cardinality(Started(ph)) + 1
<1>1. Started(ph2) = Started(ph) \cup {c}
  BY DEF Started, Moved
<1>2. /\ IsFiniteSet(Started(ph) \cup {c})
      /\ Cardinality(Started(ph) \cup {c}) = IF c \in Started(ph) THEN Cardinality(Started(ph)) ELSE Cardinality(Started(ph)) + 1
  BY FS_AddElement
<1>3. Cardinality(Started(ph)) \in Nat /\ MaxPending \in Nat
  BY FS_CardinalityType, EmitterAssumption
<1>4. ph[c] = "new" => c \notin Started(ph)
  BY DEF Started
<1> QED
  BY <1>1, <1>2, <1>3, <1>4 DEF Over

LEMMA LangChainStarts ==
  ASSUME LangChainOk(ledger, phase, lost, pending), NEW c \in Calls, NEW sealed \in BOOLEAN,
         Call!OnToolStartCore(c, sealed)
  PROVE  LangChainOk(ledger', phase', lost', pending')
<1>0. PICK capsule, val : capsule = Attributed(Capsule(c, "planned", FALSE, 0, {}), own1) /\ val = IdIf(sealed)
  OBVIOUS
<1>1. /\ Becomes(c, "new", "running") /\ Seal(capsule, sealed)
      /\ pending' = Remember(pending, c, val)
  BY <1>0, CallEmitter DEF Call!OnToolStartCore
<1>2. capsule.call = c /\ capsule.prior = 0 /\ capsule.status = "planned"
  BY <1>0 DEF Attributed, Capsule
<1>3. /\ TableOk(pending) /\ DOMAIN phase = Calls /\ IsSeq(ledger) /\ IsFiniteSet(Started(phase))
      /\ ListenerOk("langchain", ledger, phase, lost, Heads(pending))
  BY DEF LangChainOk, ListenerOk, Pairs
<1>4. phase[c] = "new" /\ Moved(phase', phase, c, "running")
  BY <1>1, <1>3, BecomesMoves
<1>5. /\ Wrote(ledger', lost', ledger, lost, capsule)
      /\ sealed => Grown(ledger', ledger, capsule)
      /\ ~sealed => ledger' = ledger
  BY <1>1, <1>3, SealWrites
<1>6. Remembered(pending', pending, c, val)
  BY <1>1, <1>3, RememberIs
<1>7. val = (IF ledger' = ledger THEN 0 ELSE Len(ledger) + 1)
  <2>1. Grown(ledger', ledger, capsule) => ledger' # ledger
    BY DEF Grown
  <2> QED
    BY <1>0, <1>5, <2>1 DEF IdIf, NextId
<1>8. \A h \in Heads(pending') : \/ h \in Heads(pending) /\ h[1] # c
                                 \/ h[1] = c /\ h[2] = (IF ledger' = ledger THEN 0 ELSE Len(ledger) + 1)
  BY <1>6, <1>7 DEF Remembered
<1>9. Starts(ledger', phase', lost', Heads(pending'), ledger, phase, lost, Heads(pending), c, capsule)
  BY <1>2, <1>4, <1>5, <1>8 DEF Starts
<1>10. /\ IsFiniteSet(Started(phase')) /\ (Over("langchain", phase) => Over("langchain", phase'))
       /\ Cardinality(Started(phase')) = Cardinality(Started(phase)) + 1
  BY <1>3, <1>4, StartedGrows
<1>11. Over("langchain", phase') \/ Kept(Heads(pending'), Heads(pending), c)
  <2>1. CASE Len(pending) < MaxPending
    <3>1. Heads(pending') = {h \in Heads(pending) : h[1] # c} \cup {<<c, val>>}
      BY <2>1, <1>6 DEF Remembered
    <3>2. <<c, val>>[1] = c
      OBVIOUS
    <3> QED
      BY <3>1, <3>2 DEF Kept
  <2>2. CASE ~(Len(pending) < MaxPending)
    <3>1. IsFiniteSet(Keys(pending)) /\ Cardinality(Keys(pending)) = Len(pending)
      BY <1>3, TableSize
    <3>2. Keys(pending) \subseteq Started(phase)
      BY <1>3, KeysOf DEF ListenerOk, Entries, Started
    <3>3. Cardinality(Keys(pending)) <= Cardinality(Started(phase))
      BY <1>3, <3>2, FS_Subset
    <3>4. /\ Cardinality(Started(phase)) \in Nat /\ Cardinality(Started(phase')) \in Nat
          /\ MaxPending \in Nat /\ Len(pending) \in Nat
      BY <1>3, <1>10, <3>1, FS_CardinalityType, EmitterAssumption
    <3> QED
      BY <2>2, <3>1, <3>3, <3>4, <1>10 DEF Over
  <2> QED
    BY <2>1, <2>2
<1>12. ListenerOk("langchain", ledger', phase', lost', Heads(pending'))
  <2>1. /\ ListenerOk("langchain", ledger, phase, lost, Heads(pending))
        /\ Over("langchain", phase) => Over("langchain", phase')
    BY <1>3, <1>10
  <2> QED
    BY <2>1, <1>9, <1>11, StartKeeps
<1> QED
  BY <1>6, <1>10, <1>12 DEF LangChainOk, Remembered

\* An outcome, whatever it is: the end of a call that ran, or a record
\* handed in of one nobody was told of before.
LangChainEnd(c, capsule, sealed) ==
    /\ \E now, end : /\ Becomes(c, now, end) /\ now \in {"new", "running"}
                     /\ end \notin {"new", "running"}
    /\ Seal(capsule, sealed)
    /\ capsule.call = c /\ capsule.status # "planned"

LEMMA LangChainEnds ==
  ASSUME LangChainOk(ledger, phase, lost, pending), NEW c \in Calls, NEW capsule, NEW sealed \in BOOLEAN,
         LangChainEnd(c, capsule, sealed),
         Heads(pending') = {h \in Heads(pending) : h[1] # c}, TableOk(pending'),
         \/ /\ phase[c] = "running" /\ capsule.prior = Get(pending, c, 0)
            /\ Orphan(capsule) <=> c \in Keys(pending) /\ Get(pending, c, 0) = 0
         \/ phase[c] = "new" /\ capsule.prior = 0 /\ ~Orphan(capsule)
  PROVE  LangChainOk(ledger', phase', lost', pending')
<1>1. /\ TableOk(pending) /\ DOMAIN phase = Calls /\ IsSeq(ledger) /\ IsFiniteSet(Started(phase))
      /\ ListenerOk("langchain", ledger, phase, lost, Heads(pending))
  BY DEF LangChainOk, ListenerOk, Pairs
<1>2. PICK now, end : /\ Becomes(c, now, end) /\ now \in {"new", "running"}
                      /\ end \notin {"new", "running"}
  BY DEF LangChainEnd
<1>3. phase[c] = now /\ Moved(phase', phase, c, end)
  BY <1>1, <1>2, BecomesMoves
<1>4. Wrote(ledger', lost', ledger, lost, capsule)
  BY <1>1, SealWrites DEF LangChainEnd
<1>5. /\ c \in Keys(pending) => <<c, Get(pending, c, 0)>> \in Heads(pending)
      /\ c \notin Keys(pending) => Get(pending, c, 0) = 0
  BY GetIs
<1>6. <<c, Get(pending, c, 0)>>[1] = c /\ <<c, Get(pending, c, 0)>>[2] = Get(pending, c, 0)
  OBVIOUS
<1>7. capsule.prior = 0 \/ \E h \in Heads(pending) : h[1] = c /\ h[2] = capsule.prior
  BY <1>5, <1>6
<1>8. Finishes(ledger', phase', lost', Heads(pending'), ledger, phase, lost, Heads(pending), c, capsule)
  BY <1>2, <1>3, <1>4, <1>7 DEF Finishes, LangChainEnd
<1>9. Orphan(capsule) => PlansIn(ledger, c) = {} /\ capsule.prior = 0
  BY <1>1, <1>5, <1>6 DEF ListenerOk, Entries, LangChainEnd
<1>10. capsule.prior # 0 \/ Orphan(capsule) \/ Over("langchain", phase) \/ c \notin lost
  BY <1>1, <1>5, KeysOf DEF ListenerOk, Fresh, Forgotten, LangChainEnd
<1>11. IsFiniteSet(Started(phase')) /\ (Over("langchain", phase) => Over("langchain", phase'))
  BY <1>1, <1>2, <1>3, StartedGrows
<1>12. ListenerOk("langchain", ledger', phase', lost', Heads(pending'))
  BY <1>1, <1>8, <1>9, <1>10, <1>11, FinishKeeps
<1> QED
  BY <1>11, <1>12 DEF LangChainOk

LEMMA LangChainNextKeeps ==
  ASSUME LangChainOk(ledger, phase, lost, pending), Call!LangChainNext
  PROVE  LangChainOk(ledger', phase', lost', pending')
<1>1. TableOk(pending) /\ ListenerOk("langchain", ledger, phase, lost, Heads(pending)) /\ IsSeq(ledger)
  BY DEF LangChainOk, ListenerOk, Pairs
<1>2. PICK sealed \in BOOLEAN :
        \/ \E m \in Models \cup {0} : Call!OnLlmStartCore(m, sealed)
        \/ \E root \in BOOLEAN : Call!OnChainLifecycleCore(root, sealed)
        \/ \E c \in Calls :
            \/ Call!OnToolStartCore(c, sealed)
            \/ Call!OnToolErrorCore(c, sealed)
            \/ Call!OnToolEndCore(c, Call!HasOutput(c), sealed)
            \/ \E foreign \in BOOLEAN : Call!Capture(c, foreign, Call!HasOutput(c), sealed)
  BY DEF Call!LangChainNext
<1>3. ASSUME Seal(Capsule(NoCall, "none", FALSE, 0, {}), sealed), UNCHANGED <<phase, pending>>
      PROVE  LangChainOk(ledger', phase', lost', pending')
  <2> PICK capsule : capsule = Capsule(NoCall, "none", FALSE, 0, {})
    OBVIOUS
  <2>1. capsule.call = NoCall /\ capsule.prior = 0
    BY DEF Capsule
  <2>2. Wrote(ledger', lost', ledger, lost, capsule)
    BY <1>1, <1>3, SealWrites
  <2>3. ListenerOk("langchain", ledger', phase, lost', Heads(pending))
    BY <1>1, <2>1, <2>2, NoteKeeps
  <2> QED
    BY <1>3, <2>3 DEF LangChainOk
<1>4. ASSUME NEW m \in Models \cup {0}, Call!OnLlmStartCore(m, sealed)
      PROVE  LangChainOk(ledger', phase', lost', pending')
  <2>1. UNCHANGED <<phase, pending>>
    BY <1>4 DEF Call!OnLlmStartCore
  <2>2. Seal(Capsule(NoCall, "none", FALSE, 0, {}), sealed) \/ UNCHANGED <<ledger, lost>>
    BY <1>4, CallEmitter DEF Call!OnLlmStartCore
  <2> QED
    BY <2>1, <2>2, <1>3
<1>5. ASSUME NEW root \in BOOLEAN, Call!OnChainLifecycleCore(root, sealed)
      PROVE  LangChainOk(ledger', phase', lost', pending')
  BY <1>3, <1>5, CallEmitter DEF Call!OnChainLifecycleCore
<1>6. ASSUME NEW c \in Calls, NEW end \in {"done", "raised"}, NEW status \in {"confirmed", "failed"}, NEW output,
             Call!ToolOutcome(c, end, status, output, sealed)
      PROVE  LangChainOk(ledger', phase', lost', pending')
  <2> PICK plan : plan = Get(pending, c, 0)
    OBVIOUS
  <2> PICK marks : marks = IF c \in Keys(pending) /\ plan = 0 THEN Mark ELSE {}
    OBVIOUS
  <2> PICK capsule : capsule = Attributed(Capsule(c, status, output, plan, marks), own1)
    OBVIOUS
  <2>1. Call!PlanOf(c) = plan /\ Call!Unchained(Call!PlanWasDropped(c)) = marks
    BY CallEmitter DEF Call!PlanOf, Call!PlanWasDropped, Call!Unchained, Mark
  <2>2. /\ Becomes(c, "running", end) /\ pending' = Without(pending, c) /\ Seal(capsule, sealed)
    BY <1>6, <2>1, CallEmitter DEF Call!ToolOutcome
  <2>3. capsule.call = c /\ capsule.prior = plan /\ capsule.status = status /\ capsule.marks = marks
    BY AttributedIs
  <2>4. Orphan(capsule) <=> c \in Keys(pending) /\ plan = 0
    <3>1. capsule.marks = {} \cup marks
      BY <2>3
    <3> QED
      BY <3>1, UnchainedIs
  <2>5. Heads(pending') = {h \in Heads(pending) : h[1] # c} /\ TableOk(pending')
    BY <1>1, <2>2, WithoutIs DEF Removed
  <2>6. phase[c] = "running"
    BY <2>2 DEF Becomes
  <2>7. LangChainEnd(c, capsule, sealed)
    BY <2>2, <2>3 DEF LangChainEnd
  <2> QED
    BY <2>3, <2>4, <2>5, <2>6, <2>7, LangChainEnds
<1>7. ASSUME NEW c \in Calls, NEW foreign \in BOOLEAN, NEW output, Call!Capture(c, foreign, output, sealed)
      PROVE  LangChainOk(ledger', phase', lost', pending')
  <2> PICK status : status = IF foreign THEN "none" ELSE "confirmed"
    OBVIOUS
  <2> PICK capsule : capsule = Capsule(c, status, output, 0, {})
    OBVIOUS
  <2>1. Becomes(c, "new", "done") /\ Seal(capsule, sealed) /\ pending' = pending
    BY <1>7, CallEmitter DEF Call!Capture
  <2>2. capsule.call = c /\ capsule.prior = 0 /\ capsule.status = status /\ capsule.marks = {}
    BY CapsuleIs
  <2>3. ~Orphan(capsule) /\ capsule.status # "planned"
    BY <2>2 DEF Orphan
  <2>4. phase[c] = "new"
    BY <2>1 DEF Becomes
  <2>5. \A h \in Heads(pending) : h[1] # c
    BY <1>1, <2>4 DEF ListenerOk, Entries
  <2>6. Heads(pending') = {h \in Heads(pending) : h[1] # c} /\ TableOk(pending')
    BY <1>1, <2>1, <2>5
  <2>7. LangChainEnd(c, capsule, sealed)
    BY <2>1, <2>2, <2>3 DEF LangChainEnd
  <2> QED
    BY <2>2, <2>3, <2>4, <2>6, <2>7, LangChainEnds
<1>8. ASSUME NEW c \in Calls, Call!OnToolErrorCore(c, sealed) \/ Call!OnToolEndCore(c, Call!HasOutput(c), sealed)
      PROVE  LangChainOk(ledger', phase', lost', pending')
  BY <1>6, <1>8 DEF Call!OnToolErrorCore, Call!OnToolEndCore
<1> QED
  BY <1>2, <1>4, <1>5, <1>7, <1>8, LangChainStarts

LEMMA LangChainStep == LangChainInv /\ [Next]_vars => LangChainInv'
<1> SUFFICES ASSUME LangChainInv, [Next]_vars, adapter' = "langchain"
             PROVE  LangChainOk(ledger', phase', lost', pending')
  BY DEF LangChainInv
<1>1. adapter = "langchain" /\ LangChainOk(ledger, phase, lost, pending)
  BY DEF Next, vars, LangChainInv
<1>2. CASE Call!LangChainNext
  BY <1>1, <1>2, LangChainNextKeeps
<1>3. CASE UNCHANGED vars
  <2>1. ledger' = ledger /\ phase' = phase /\ lost' = lost /\ pending' = pending
    BY <1>3 DEF vars, emitterVars
  <2> QED
    BY <1>1, <2>1
<1> QED
  BY <1>1, <1>2, <1>3 DEF Next

-----------------------------------------------------------------------------
(* Agno and LiteLLM: no plan is given up                                    *)

LEMMA PlanAssigned ==
  ASSUME NEW who, who # "langchain", ListenerOk(who, ledger, phase, lost, Heads(pending)), TableOk(pending),
         NEW c \in Calls, NEW sealed \in BOOLEAN, NEW capsule,
         Becomes(c, "new", "running"), Seal(capsule, sealed),
         capsule.call = c, capsule.prior = 0, capsule.status = "planned",
         pending' = Assign(pending, c, IdIf(sealed))
  PROVE  TableOk(pending') /\ ListenerOk(who, ledger', phase', lost', Heads(pending'))
<1>1. DOMAIN phase = Calls /\ IsSeq(ledger)
  BY DEF ListenerOk, Pairs
<1>2. phase[c] = "new" /\ Moved(phase', phase, c, "running")
  BY <1>1, BecomesMoves
<1>3. /\ Wrote(ledger', lost', ledger, lost, capsule)
      /\ sealed => Grown(ledger', ledger, capsule)
      /\ ~sealed => ledger' = ledger
  BY <1>1, SealWrites
<1>4. PICK val : val = IdIf(sealed)
  OBVIOUS
<1>5. Assigned(pending', pending, c, val)
  BY <1>4, AssignIs
<1>6. val = (IF ledger' = ledger THEN 0 ELSE Len(ledger) + 1)
  <2>1. Grown(ledger', ledger, capsule) => ledger' # ledger
    BY DEF Grown
  <2> QED
    BY <1>3, <1>4, <2>1 DEF IdIf, NextId
<1>7. \A h \in Heads(pending') : \/ h \in Heads(pending) /\ h[1] # c
                                 \/ h[1] = c /\ h[2] = (IF ledger' = ledger THEN 0 ELSE Len(ledger) + 1)
  BY <1>5, <1>6 DEF Assigned
<1>8. Starts(ledger', phase', lost', Heads(pending'), ledger, phase, lost, Heads(pending), c, capsule)
  BY <1>2, <1>3, <1>7 DEF Starts
<1>9. Kept(Heads(pending'), Heads(pending), c)
  <2>1. <<c, val>>[1] = c
    OBVIOUS
  <2> QED
    BY <1>5, <2>1 DEF Assigned, Kept
<1>10. Over(who, phase) => Over(who, phase')
  BY DEF Over
<1>11. ListenerOk(who, ledger', phase', lost', Heads(pending'))
  BY <1>8, <1>9, <1>10, StartKeeps
<1> QED
  BY <1>5, <1>11 DEF Assigned

LEMMA OutcomePopped ==
  ASSUME NEW who, who # "langchain", ListenerOk(who, ledger, phase, lost, Heads(pending)), TableOk(pending),
         NEW c \in Calls, NEW sealed \in BOOLEAN, NEW capsule, NEW end \in {"done", "raised"},
         Becomes(c, "running", end), Seal(capsule, sealed),
         capsule.call = c, capsule.prior = Get(pending, c, 0), capsule.status # "planned",
         Orphan(capsule) <=> Get(pending, c, 0) = 0,
         pending' = Without(pending, c)
  PROVE  TableOk(pending') /\ ListenerOk(who, ledger', phase', lost', Heads(pending'))
<1>1. DOMAIN phase = Calls /\ IsSeq(ledger)
  BY DEF ListenerOk, Pairs
<1>2. phase[c] = "running" /\ Moved(phase', phase, c, end)
  BY <1>1, BecomesMoves
<1>3. Wrote(ledger', lost', ledger, lost, capsule)
  BY <1>1, SealWrites
<1>4. Heads(pending') = {h \in Heads(pending) : h[1] # c} /\ TableOk(pending')
  BY WithoutIs DEF Removed
<1>5. /\ c \in Keys(pending) => <<c, Get(pending, c, 0)>> \in Heads(pending)
      /\ c \notin Keys(pending) => Get(pending, c, 0) = 0
      /\ c \notin Keys(pending) => \A h \in Heads(pending) : h[1] # c
  BY GetIs, KeysOf
<1>6. <<c, Get(pending, c, 0)>>[1] = c /\ <<c, Get(pending, c, 0)>>[2] = Get(pending, c, 0)
  OBVIOUS
<1>7. capsule.prior = 0 \/ \E h \in Heads(pending) : h[1] = c /\ h[2] = capsule.prior
  BY <1>5, <1>6
<1>8. Finishes(ledger', phase', lost', Heads(pending'), ledger, phase, lost, Heads(pending), c, capsule)
  BY <1>2, <1>3, <1>4, <1>7 DEF Finishes
<1>9. Orphan(capsule) => PlansIn(ledger, c) = {} /\ capsule.prior = 0
  BY <1>2, <1>5, <1>6 DEF ListenerOk, Entries, Forgotten, Over
<1>10. Over(who, phase) => Over(who, phase')
  BY DEF Over
<1>11. ListenerOk(who, ledger', phase', lost', Heads(pending'))
  BY <1>8, <1>9, <1>10, FinishKeeps
<1> QED
  BY <1>4, <1>11

LEMMA LiteLLMNextKeeps ==
  ASSUME TableOk(pending), ListenerOk("litellm", ledger, phase, lost, Heads(pending)), Call!LiteLLMNext
  PROVE  TableOk(pending') /\ ListenerOk("litellm", ledger', phase', lost', Heads(pending'))
<1>1. PICK c \in Calls, sealed \in BOOLEAN :
        \/ Call!SealRequest(c, sealed)
        \/ Call!OnFailureCore(c, Call!HasOutput(c), sealed)
        \/ \E disconnected \in BOOLEAN :
               Call!OnSuccessCore(c, disconnected, Call!HasOutput(c), sealed)
  BY DEF Call!LiteLLMNext
<1>2. CASE Call!SealRequest(c, sealed)
  <2>1. CASE include
    <3>1. PICK capsule : capsule = Capsule(c, "planned", FALSE, 0, {})
      OBVIOUS
    <3>2. capsule.call = c /\ capsule.prior = 0 /\ capsule.status = "planned"
      BY <3>1 DEF Capsule
    <3>3. Becomes(c, "new", "running") /\ Seal(capsule, sealed) /\ pending' = Assign(pending, c, IdIf(sealed))
      BY <1>2, <2>1, <3>1, CallEmitter DEF Call!SealRequest
    <3> QED
      BY <3>2, <3>3, PlanAssigned
  <2>2. CASE ~include
    <3>1. Becomes(c, "new", "running") /\ UNCHANGED <<ledger, lost, pending>>
      BY <1>2, <2>2, CallEmitter DEF Call!SealRequest
    <3>2. phase[c] = "new" /\ Moved(phase', phase, c, "running")
      BY <3>1, BecomesMoves DEF ListenerOk
    <3>3. ListenerOk("litellm", ledger, phase', lost, Heads(pending))
      BY <3>2, StartUnseen
    <3> QED
      BY <3>1, <3>3
  <2> QED
    BY <2>1, <2>2
<1>3. ASSUME NEW end \in {"done", "raised"}, NEW status, status # "planned", NEW output,
             Call!Reported(c, end, status, output, sealed)
      PROVE  TableOk(pending') /\ ListenerOk("litellm", ledger', phase', lost', Heads(pending'))
  <2>1. PICK plan : plan = Get(pending, c, 0)
    OBVIOUS
  <2>2. PICK marks : marks = IF plan = 0 THEN Mark ELSE {}
    OBVIOUS
  <2>3. PICK capsule : capsule = Capsule(c, status, output, plan, marks)
    OBVIOUS
  <2>4. Call!Unchained(Call!RequestMissing(c)) = marks
    BY <2>1, <2>2, CallEmitter DEF Call!RequestMissing, Call!Unchained, Mark
  <2>5. Becomes(c, "running", end) /\ pending' = Without(pending, c) /\ Seal(capsule, sealed)
    BY <1>3, <2>1, <2>3, <2>4, CallEmitter DEF Call!Reported
  <2>6. capsule.call = c /\ capsule.prior = plan /\ capsule.status = status /\ capsule.marks = marks
    BY <2>3 DEF Capsule
  <2>7. Orphan(capsule) <=> plan = 0
    <3>1. PICK others : others = {}
      OBVIOUS
    <3>2. capsule.marks = others \cup marks /\ \A m \in others : m[1] # "unchained"
      BY <2>6, <3>1
    <3>3. (marks = Mark => Orphan(capsule)) /\ (marks = {} => ~Orphan(capsule))
      BY <3>2, UnchainedIs
    <3> QED
      BY <2>2, <3>3
  <2> QED
    BY <1>3, <2>1, <2>5, <2>6, <2>7, OutcomePopped
<1>4. CASE Call!OnFailureCore(c, Call!HasOutput(c), sealed)
  BY <1>3, <1>4 DEF Call!OnFailureCore
<1>5. ASSUME NEW disconnected \in BOOLEAN, Call!OnSuccessCore(c, disconnected, Call!HasOutput(c), sealed)
      PROVE  TableOk(pending') /\ ListenerOk("litellm", ledger', phase', lost', Heads(pending'))
  <2>1. PICK status : status = IF disconnected THEN "dispatched" ELSE "confirmed"
    OBVIOUS
  <2>2. status # "planned" /\ Call!Reported(c, "done", status, Call!HasOutput(c), sealed)
    BY <1>5, <2>1 DEF Call!OnSuccessCore
  <2> QED
    BY <2>2, <1>3
<1> QED
  BY <1>1, <1>2, <1>4, <1>5

\* What agno remembers as confirmed is, and a replay names such a record.
SeenIsConfirmed(led, h) ==
    h[2] \in DOMAIN led /\ led[h[2]].status = "confirmed" /\ Signature[led[h[2]].call] = h[1]

ReplayIsTrue(led, i) ==
    \A m \in led[i].marks : m[1] = "replay_of" =>
        m[2] < i /\ SeenIsConfirmed(led, <<Signature[led[i].call], m[2]>>)

AgnoOk(led, ph, lo, table, seen) ==
    /\ TableOk(table) /\ TableOk(seen)
    /\ ListenerOk("agno", led, ph, lo, Heads(table))
    /\ \A h \in Heads(seen) : SeenIsConfirmed(led, h)
    /\ \A i \in DOMAIN led : ReplayIsTrue(led, i)

AgnoInv    == adapter = "agno" => AgnoOk(ledger, phase, lost, pending, own1)
LiteLLMInv == adapter = "litellm" => TableOk(pending) /\ ListenerOk("litellm", ledger, phase, lost, Heads(pending))

\* A record is added: what was true of the others stays, and it is true of
\* the new one if it names one that was remembered.
LEMMA ReplaysGrow ==
  ASSUME NEW led, NEW led2, NEW capsule, NEW heads, Grown(led2, led, capsule),
         \A h \in heads : SeenIsConfirmed(led, h),
         \A i \in DOMAIN led : ReplayIsTrue(led, i),
         \A m \in capsule.marks : m[1] = "replay_of" => <<Signature[capsule.call], m[2]>> \in heads
  PROVE  /\ \A h \in heads : SeenIsConfirmed(led2, h)
         /\ \A i \in DOMAIN led2 : ReplayIsTrue(led2, i)
         /\ capsule.status = "confirmed" => SeenIsConfirmed(led2, <<Signature[capsule.call], Len(led) + 1>>)
<1>1. /\ DOMAIN led2 = DOMAIN led \cup {Len(led) + 1} /\ led2[Len(led) + 1] = capsule
      /\ \A i \in DOMAIN led : led2[i] = led[i] /\ i \in Nat /\ i < Len(led) + 1
  BY DEF Grown
<1>2. \A h : SeenIsConfirmed(led, h) => SeenIsConfirmed(led2, h)
  BY <1>1 DEF SeenIsConfirmed
<1>3. ASSUME NEW i \in DOMAIN led PROVE ReplayIsTrue(led2, i)
  BY <1>1, <1>2 DEF ReplayIsTrue
<1>4. ReplayIsTrue(led2, Len(led) + 1)
  <2> SUFFICES ASSUME NEW m \in capsule.marks, m[1] = "replay_of"
               PROVE  m[2] < Len(led) + 1 /\ SeenIsConfirmed(led2, <<Signature[capsule.call], m[2]>>)
    BY <1>1 DEF ReplayIsTrue
  <2>1. SeenIsConfirmed(led, <<Signature[capsule.call], m[2]>>)
    OBVIOUS
  <2>2. m[2] \in DOMAIN led
    BY <2>1 DEF SeenIsConfirmed
  <2> QED
    BY <1>1, <1>2, <2>1, <2>2
<1>5. capsule.status = "confirmed" => SeenIsConfirmed(led2, <<Signature[capsule.call], Len(led) + 1>>)
  BY <1>1 DEF SeenIsConfirmed
<1> QED
  BY <1>1, <1>2, <1>3, <1>4, <1>5

\* One seal of agno, and what it remembers afterwards.
LEMMA AgnoSeals ==
  ASSUME AgnoOk(ledger, phase, lost, pending, own1), NEW capsule, NEW sealed \in BOOLEAN, Seal(capsule, sealed),
         TableOk(pending'), ListenerOk("agno", ledger', phase', lost', Heads(pending')),
         \A m \in capsule.marks : m[1] = "replay_of" => <<Signature[capsule.call], m[2]>> \in Heads(own1),
         \/ own1' = own1
         \/ sealed /\ capsule.status = "confirmed" /\ own1' = Remember(own1, Signature[capsule.call], NextId)
  PROVE  AgnoOk(ledger', phase', lost', pending', own1')
<1>1. /\ TableOk(own1) /\ IsSeq(ledger)
      /\ \A h \in Heads(own1) : SeenIsConfirmed(ledger, h)
      /\ \A i \in DOMAIN ledger : ReplayIsTrue(ledger, i)
  BY DEF AgnoOk, ListenerOk, Pairs
<1>2. /\ sealed => Grown(ledger', ledger, capsule)
      /\ ~sealed => ledger' = ledger
  BY <1>1, SealWrites
<1>3. CASE ~sealed
  BY <1>1, <1>2, <1>3 DEF AgnoOk
<1>4. CASE sealed
  <2>1. /\ \A h \in Heads(own1) : SeenIsConfirmed(ledger', h)
        /\ \A i \in DOMAIN ledger' : ReplayIsTrue(ledger', i)
        /\ capsule.status = "confirmed" => SeenIsConfirmed(ledger', <<Signature[capsule.call], Len(ledger) + 1>>)
    BY <1>1, <1>2, <1>4, ReplaysGrow
  <2>2. CASE own1' = own1
    BY <1>1, <2>1, <2>2 DEF AgnoOk
  <2>3. CASE capsule.status = "confirmed" /\ own1' = Remember(own1, Signature[capsule.call], NextId)
    <3>1. Remembered(own1', own1, Signature[capsule.call], Len(ledger) + 1)
      BY <1>1, <2>3, RememberIs DEF NextId
    <3>2. \A h \in Heads(own1') : SeenIsConfirmed(ledger', h)
      BY <2>1, <2>3, <3>1 DEF Remembered
    <3> QED
      BY <2>1, <3>1, <3>2 DEF AgnoOk, Remembered
  <2> QED
    BY <2>2, <2>3
<1> QED
  BY <1>3, <1>4

LEMMA AgnoNextKeeps ==
  ASSUME AgnoOk(ledger, phase, lost, pending, own1), Call!AgnoNext
  PROVE  AgnoOk(ledger', phase', lost', pending', own1')
<1>1. TableOk(pending) /\ TableOk(own1) /\ ListenerOk("agno", ledger, phase, lost, Heads(pending))
  BY DEF AgnoOk
<1>2. PICK c \in Calls :
        \/ Call!WrapCancelled(c)
        \/ \E sealed \in BOOLEAN :
            \/ Call!SealPlanned(c, sealed)
            \/ Call!SealFailed(c, sealed)
            \/ Call!SealConfirmed(c, Call!HasOutput(c), sealed)
  BY DEF Call!AgnoNext
<1>3. CASE Call!WrapCancelled(c)
  <2>1. Becomes(c, "running", "cancelled") /\ pending' = Without(pending, c) /\ UNCHANGED <<ledger, lost, own1>>
    BY <1>3, CallEmitter DEF Call!WrapCancelled
  <2>2. Moved(phase', phase, c, "cancelled")
    BY <1>1, <2>1, BecomesMoves DEF ListenerOk
  <2>3. Heads(pending') = {h \in Heads(pending) : h[1] # c} /\ TableOk(pending')
    BY <1>1, <2>1, WithoutIs DEF Removed
  <2>4. ListenerOk("agno", ledger, phase', lost, Heads(pending'))
    BY <1>1, <2>2, <2>3, GivenUp
  <2> QED
    BY <2>1, <2>3, <2>4 DEF AgnoOk
<1>4. ASSUME NEW sealed \in BOOLEAN, Call!SealPlanned(c, sealed)
      PROVE  AgnoOk(ledger', phase', lost', pending', own1')
  <2>1. PICK capsule : capsule = Capsule(c, "planned", FALSE, 0, {})
    OBVIOUS
  <2>2. capsule.call = c /\ capsule.prior = 0 /\ capsule.status = "planned" /\ capsule.marks = {}
    BY <2>1 DEF Capsule
  <2>3. /\ Becomes(c, "new", "running") /\ Seal(capsule, sealed) /\ pending' = Assign(pending, c, IdIf(sealed))
        /\ own1' = own1
    BY <1>4, <2>1, CallEmitter DEF Call!SealPlanned
  <2>4. TableOk(pending') /\ ListenerOk("agno", ledger', phase', lost', Heads(pending'))
    BY <1>1, <2>2, <2>3, PlanAssigned
  <2> QED
    BY <2>2, <2>3, <2>4, AgnoSeals
<1>5. ASSUME NEW sealed \in BOOLEAN, NEW capsule, NEW end \in {"done", "raised"}, NEW others,
             Becomes(c, "running", end), Seal(capsule, sealed), pending' = Without(pending, c),
             capsule.call = c, capsule.prior = Get(pending, c, 0), capsule.status # "planned",
             capsule.marks = others \cup (IF Get(pending, c, 0) = 0 THEN Mark ELSE {}),
             \A m \in others : m[1] # "unchained" /\ <<Signature[c], m[2]>> \in Heads(own1),
             \/ own1' = own1
             \/ sealed /\ capsule.status = "confirmed" /\ own1' = Remember(own1, Signature[c], NextId)
      PROVE  AgnoOk(ledger', phase', lost', pending', own1')
  <2>1. Orphan(capsule) <=> Get(pending, c, 0) = 0
    <3>1. PICK marks : marks = IF Get(pending, c, 0) = 0 THEN Mark ELSE {}
      OBVIOUS
    <3>2. capsule.marks = others \cup marks
      BY <1>5, <3>1
    <3>3. \A m \in others : m[1] # "unchained"
      BY <1>5
    <3> QED
      BY <3>1, <3>2, <3>3, UnchainedIs
  <2>2. TableOk(pending') /\ ListenerOk("agno", ledger', phase', lost', Heads(pending'))
    BY <1>1, <1>5, <2>1, OutcomePopped
  <2>3. ASSUME NEW m \in capsule.marks, m[1] = "replay_of" PROVE <<Signature[capsule.call], m[2]>> \in Heads(own1)
    <3>1. m \notin Mark
      BY <2>3 DEF Mark
    <3>2. m \in others
      BY <1>5, <3>1
    <3> QED
      BY <1>5, <3>2
  <2>4. \/ own1' = own1
        \/ sealed /\ capsule.status = "confirmed" /\ own1' = Remember(own1, Signature[capsule.call], NextId)
    BY <1>5
  <2> QED
    BY <1>5, <2>2, <2>3, <2>4, AgnoSeals
<1>6. ASSUME NEW sealed \in BOOLEAN, Call!SealFailed(c, sealed)
      PROVE  AgnoOk(ledger', phase', lost', pending', own1')
  <2>1. PICK marks : marks = IF Get(pending, c, 0) = 0 THEN Mark ELSE {}
    OBVIOUS
  <2>2. PICK capsule : capsule = Capsule(c, "failed", TRUE, Get(pending, c, 0), marks)
    OBVIOUS
  <2>3. Call!Unchained(Get(pending, c, 0) = 0) = marks
    BY <2>1 DEF Call!Unchained, Mark
  <2>4. Becomes(c, "running", "raised") /\ Seal(capsule, sealed) /\ pending' = Without(pending, c) /\ own1' = own1
    BY <1>6, <2>2, <2>3, CallEmitter DEF Call!SealFailed
  <2>5. capsule.call = c /\ capsule.prior = Get(pending, c, 0) /\ capsule.status # "planned" /\ capsule.marks = marks
    BY <2>2 DEF Capsule
  <2>6. capsule.marks = {} \cup (IF Get(pending, c, 0) = 0 THEN Mark ELSE {})
    BY <2>1, <2>5
  <2> QED
    BY <2>4, <2>5, <2>6, <1>5
<1>7. ASSUME NEW sealed \in BOOLEAN, NEW output, Call!SealConfirmed(c, output, sealed)
      PROVE  AgnoOk(ledger', phase', lost', pending', own1')
  <2>1. PICK others, marks : /\ others = Call!ReplayMark(c)
                             /\ marks = IF Get(pending, c, 0) = 0 THEN Mark ELSE {}
    OBVIOUS
  <2>2. PICK capsule : capsule = Capsule(c, "confirmed", output, Get(pending, c, 0), others \cup marks)
    OBVIOUS
  <2>3. Call!Unchained(Get(pending, c, 0) = 0) = marks
    BY <2>1 DEF Call!Unchained, Mark
  <2>4. /\ Becomes(c, "running", "done") /\ Seal(capsule, sealed) /\ pending' = Without(pending, c)
        /\ own1' = IF sealed THEN Remember(own1, Signature[c], NextId) ELSE own1
    BY <1>7, <2>1, <2>2, <2>3, CallEmitter DEF Call!SealConfirmed
  <2>5. capsule.call = c /\ capsule.prior = Get(pending, c, 0) /\ capsule.status = "confirmed"
        /\ capsule.marks = others \cup marks
    BY <2>2 DEF Capsule
  <2>6. \A m \in others : m[1] # "unchained" /\ <<Signature[c], m[2]>> \in Heads(own1)
    <3>1. PICK prior : prior = Get(own1, Signature[c], 0)
      OBVIOUS
    <3>2. prior # 0 => <<Signature[c], prior>> \in Heads(own1)
      BY <3>1, GetIs
    <3>3. \A m \in others : prior # 0 /\ m = <<"replay_of", prior>>
      BY <2>1, <3>1, CallEmitter DEF Call!ReplayMark
    <3>4. <<"replay_of", prior>>[1] = "replay_of" /\ <<"replay_of", prior>>[2] = prior
      OBVIOUS
    <3> QED
      BY <3>2, <3>3, <3>4
  <2>7. capsule.marks = others \cup (IF Get(pending, c, 0) = 0 THEN Mark ELSE {})
    BY <2>1, <2>5
  <2> QED
    BY <2>4, <2>5, <2>6, <2>7, <1>5
<1> QED
  BY <1>2, <1>3, <1>4, <1>6, <1>7

LEMMA AgnoStart == Init => AgnoInv /\ LiteLLMInv
<1>1. ASSUME EmitterInit, own1 = <<>> PROVE AgnoOk(ledger, phase, lost, pending, own1)
  <2>1. /\ ListenerOk("agno", ledger, phase, lost, Heads(pending)) /\ TableOk(pending) /\ DOMAIN ledger = {}
    BY <1>1, NothingYet
  <2>2. TableOk(own1) /\ Heads(own1) = {}
    BY <1>1, EmptyTable
  <2> QED
    BY <2>1, <2>2 DEF AgnoOk
<1>2. ASSUME EmitterInit PROVE TableOk(pending) /\ ListenerOk("litellm", ledger, phase, lost, Heads(pending))
  BY <1>2, NothingYet
<1> QED
  BY <1>1, <1>2 DEF Init, AgnoInv, LiteLLMInv, Call!AgnoInit

LEMMA AgnoStep == AgnoInv /\ LiteLLMInv /\ [Next]_vars => AgnoInv' /\ LiteLLMInv'
<1>1. CASE UNCHANGED vars
  <2>1. /\ ledger' = ledger /\ phase' = phase /\ lost' = lost /\ pending' = pending
        /\ own1' = own1 /\ adapter' = adapter
    BY <1>1 DEF vars, emitterVars
  <2> QED
    BY <2>1 DEF AgnoInv, LiteLLMInv
<1>2. ASSUME AgnoInv, Next PROVE AgnoInv'
  BY <1>2, AgnoNextKeeps DEF AgnoInv, Next
<1>3. ASSUME LiteLLMInv, Next PROVE LiteLLMInv'
  BY <1>3, LiteLLMNextKeeps DEF LiteLLMInv, Next
<1> QED
  BY <1>1, <1>2, <1>3

LEMMA AgnoHolds ==
  ASSUME AgnoInv, LiteLLMInv, adapter \in {"agno", "litellm"}
  PROVE  CitationsAreTrue /\ OutcomesAreRecordedOnce
<1>1. ListenerOk(adapter, ledger, phase, lost, Heads(pending))
  BY DEF AgnoInv, AgnoOk, LiteLLMInv
<1>2. ChainsPairTheSameCall /\ PriorsAreNotShared
  BY <1>1, PairsHold DEF ListenerOk
<1>3. OutcomesRecorded /\ OrphansSayWhy
  BY <1>1, RecordedHolds, ExplainedHolds DEF ListenerOk
<1>4. ReplaysWereConfirmed
  <2> SUFFICES ASSUME adapter = "agno", NEW i \in Sealed, NEW n \in MarkIds(i, "replay_of")
               PROVE  /\ n < i
                      /\ ledger[n].status = "confirmed"
                      /\ Signature[ledger[n].call] = Signature[ledger[i].call]
    BY DEF ReplaysWereConfirmed
  <2>1. PICK m \in ledger[i].marks : m[1] = "replay_of" /\ n = m[2]
    BY DEF MarkIds
  <2>2. ReplayIsTrue(ledger, i)
    BY DEF AgnoInv, AgnoOk, Sealed
  <2>3. n < i /\ SeenIsConfirmed(ledger, <<Signature[ledger[i].call], n>>)
    BY <2>1, <2>2 DEF ReplayIsTrue
  <2> QED
    BY <2>3 DEF SeenIsConfirmed
<1>5. CitationsAreTrue
  BY <1>2, <1>4 DEF CitationsAreTrue, ParentsAreTrue, SequentialCallsPair,
              RetriesNameTheLastPlan, ModelOfItsRoot, FunctionModelIsItsRuns, ManifestsBehindDigests
<1> QED
  BY <1>3, <1>5 DEF OutcomesAreRecordedOnce, OutcomesAreComplete, EitherObserverSeals,
              NoOutcomeIsRefused, GatedCallsAreRecorded, BackfillMissesNothing, OneRecordPerCall, BackfilledOnce

-----------------------------------------------------------------------------
(* What every adapter keeps that remembers its open records by call         *)

KeeperOk(led, ph, lo, open) ==
    DOMAIN ph = Calls /\ Pairs(FALSE, led, open) /\ Recorded(led, ph, lo)

LEMMA KeeperStarts ==
  ASSUME EmitterInit
  PROVE  /\ KeeperOk(ledger, phase, lost, Heads(pending)) /\ KeeperOk(ledger, phase, lost, {})
         /\ TableOk(pending) /\ DOMAIN ledger = {} /\ Heads(pending) = {}
         /\ \A c \in Calls : phase[c] = "new"
<1>1. /\ TableOk(pending) /\ DOMAIN ledger = {} /\ Heads(pending) = {} /\ Recorded(ledger, phase, lost)
      /\ DOMAIN phase = Calls /\ \A c \in Calls : phase[c] = "new"
      /\ Pairs(FALSE, ledger, Heads(pending))
  BY NothingYet
<1> QED
  BY <1>1 DEF KeeperOk

\* A record is made, and what it leaves open is known.
LEMMA KeeperSteps ==
  ASSUME NEW led, NEW ph, NEW lo, NEW open, NEW led2, NEW ph2, NEW lo2, NEW open2,
         NEW c \in Calls, NEW next, NEW capsule,
         KeeperOk(led, ph, lo, open), Moved(ph2, ph, c, next), Wrote(led2, lo2, led, lo, capsule),
         capsule.call = c, capsule.status # "planned" \/ next \notin Ends,
         capsule.prior = 0 \/ \E h \in open : h[1] = c /\ h[2] = capsule.prior,
         Reopened(FALSE, open2, open, led2, led, capsule)
  PROVE  KeeperOk(led2, ph2, lo2, open2)
<1>1. /\ \A d \in Calls : d # c => ph2[d] = ph[d]
      /\ ph2[c] = next /\ DOMAIN ph2 = Calls
  BY DEF Moved
<1>2. Recorded(led2, ph2, lo2)
  BY <1>1, RecordedStep DEF KeeperOk
<1>3. Pairs(FALSE, led2, open2)
  BY PairsStep DEF KeeperOk, Name
<1> QED
  BY <1>1, <1>2, <1>3 DEF KeeperOk

\* A record that cites nothing may become the entry of its call.
LEMMA PlanKept ==
  ASSUME NEW open, NEW open2, KeeperOk(ledger, phase, lost, open), NEW c \in Calls, NEW next,
         NEW capsule, NEW sealed \in BOOLEAN, Moved(phase', phase, c, next), Seal(capsule, sealed),
         capsule.call = c, capsule.prior = 0, capsule.status # "planned" \/ next \notin Ends,
         \A h \in open2 : h \in open \/ h[2] = 0 \/ (sealed /\ h[1] = c /\ h[2] = NextId)
  PROVE  KeeperOk(ledger', phase', lost', open2)
<1>1. IsSeq(ledger)
  BY DEF KeeperOk, Pairs
<1>2. /\ Wrote(ledger', lost', ledger, lost, capsule)
      /\ sealed => Grown(ledger', ledger, capsule)
      /\ ~sealed => ledger' = ledger
  BY <1>1, SealWrites
<1>3. Reopened(FALSE, open2, open, ledger', ledger, capsule)
  <2> SUFFICES ASSUME NEW h \in open2
               PROVE  \/ h[2] = 0
                      \/ h \in open /\ (h[2] # capsule.prior \/ ledger' = ledger)
                      \/ Grown(ledger', ledger, capsule) /\ h[1] = Name(FALSE, capsule.call) /\ h[2] = Len(ledger) + 1
    BY DEF Reopened
  <2> QED
    BY <1>2 DEF Name, NextId
<1> QED
  BY <1>2, <1>3, KeeperSteps

\* A record that ends its call takes the call's entry, and may cite it.
LEMMA OutcomeKept ==
  ASSUME NEW open, NEW open2, KeeperOk(ledger, phase, lost, open), NEW c \in Calls, NEW next,
         NEW capsule, NEW sealed \in BOOLEAN, Moved(phase', phase, c, next), Seal(capsule, sealed),
         capsule.call = c, capsule.status # "planned",
         capsule.prior = 0 \/ \E h \in open : h[1] = c /\ h[2] = capsule.prior,
         \A h \in open2 : h \in open /\ h[1] # c
  PROVE  KeeperOk(ledger', phase', lost', open2)
<1>1. IsSeq(ledger)
  BY DEF KeeperOk, Pairs
<1>2. Wrote(ledger', lost', ledger, lost, capsule)
  BY <1>1, SealWrites
<1>3. Reopened(FALSE, open2, open, ledger', ledger, capsule)
  <2> SUFFICES ASSUME NEW h \in open2, h[2] # 0
               PROVE  h \in open /\ h[2] # capsule.prior
    BY DEF Reopened
  <2>1. h \in open /\ h[1] # c
    OBVIOUS
  <2>2. Name(FALSE, ledger[h[2]].call) = h[1]
    BY <2>1 DEF KeeperOk, Pairs
  <2>3. ASSUME capsule.prior # 0 PROVE Name(FALSE, ledger[capsule.prior].call) = c
    BY <2>3 DEF KeeperOk, Pairs
  <2> QED
    BY <2>1, <2>2, <2>3
<1> QED
  BY <1>2, <1>3, KeeperSteps

\* What a table says of a call is one of its entries, or nothing.
LEMMA EntryOf ==
  ASSUME NEW table, NEW key
  PROVE  Get(table, key, 0) = 0 \/ \E h \in Heads(table) : h[1] = key /\ h[2] = Get(table, key, 0)
<1>1. /\ key \in Keys(table) => <<key, Get(table, key, 0)>> \in Heads(table)
      /\ key \notin Keys(table) => Get(table, key, 0) = 0
  BY GetIs
<1>2. \A val : <<key, val>>[1] = key /\ <<key, val>>[2] = val
  OBVIOUS
<1> QED
  BY <1>1, <1>2

\* No record is made, and the call has not ended.
LEMMA KeeperRests ==
  ASSUME NEW led, NEW lo, NEW ph, NEW ph2, NEW open, NEW open2, NEW c \in Calls, NEW next, next \notin Ends,
         KeeperOk(led, ph, lo, open), Moved(ph2, ph, c, next),
         \A h \in open2 : h \in open \/ h[2] = 0
  PROVE  KeeperOk(led, ph2, lo, open2)
<1>1. Pairs(FALSE, led, open2)
  BY PairsShrink DEF KeeperOk
<1>2. Recorded(led, ph2, lo)
  BY RecordedStays DEF KeeperOk, Moved
<1> QED
  BY <1>1, <1>2 DEF KeeperOk, Moved

LEMMA KeeperHolds ==
  ASSUME NEW open, KeeperOk(ledger, phase, lost, open), adapter # "crewai"
  PROVE  ChainsPairTheSameCall /\ PriorsAreNotShared /\ OutcomesRecorded
BY PairsHold, RecordedHolds DEF KeeperOk

\* The conjuncts that are about one adapter each.
LEMMA OnlyItsOwn ==
  /\ adapter # "gateway" => SequentialCallsPair
  /\ adapter # "agno" => ReplaysWereConfirmed
  /\ adapter # "strands" => RetriesNameTheLastPlan
  /\ adapter # "llamaindex" => ModelOfItsRoot
  /\ adapter # "microsoft" => FunctionModelIsItsRuns
  /\ adapter # "wrappers" => ManifestsBehindDigests /\ GatedCallsAreRecorded
  /\ adapter \notin {"langchain", "agno", "litellm"} => OrphansSayWhy
  /\ adapter # "adk" => EitherObserverSeals /\ OneRecordPerCall
  /\ adapter # "openai" => NoOutcomeIsRefused
  /\ adapter # "otel" => BackfillMissesNothing /\ BackfilledOnce
BY DEF SequentialCallsPair, ReplaysWereConfirmed, RetriesNameTheLastPlan, ModelOfItsRoot,
       FunctionModelIsItsRuns, ManifestsBehindDigests, GatedCallsAreRecorded, OrphansSayWhy,
       EitherObserverSeals, OneRecordPerCall, NoOutcomeIsRefused, BackfillMissesNothing, BackfilledOnce

\* The two properties, put together again.
LEMMA AllTogether ==
  ASSUME ChainsPairTheSameCall, PriorsAreNotShared, OutcomesRecorded,
         SequentialCallsPair, ReplaysWereConfirmed, RetriesNameTheLastPlan, ModelOfItsRoot,
         FunctionModelIsItsRuns, ManifestsBehindDigests, GatedCallsAreRecorded, OrphansSayWhy,
         EitherObserverSeals, OneRecordPerCall, NoOutcomeIsRefused, BackfillMissesNothing, BackfilledOnce
  PROVE  CitationsAreTrue /\ OutcomesAreRecordedOnce
BY DEF CitationsAreTrue, ParentsAreTrue, OutcomesAreRecordedOnce, OutcomesAreComplete

\* The least of some numbers.
LEMMA LeastNat ==
    ASSUME NEW T, T \subseteq Nat, T # {}
    PROVE  \E i \in T : \A j \in T : i <= j
<1> DEFINE R == {p \in Nat \X Nat : p[1] < p[2]}
<1>1. IsWellFoundedOn(R, Nat)
  BY NatLessThanWellFounded DEF OpToRel
<1>2. PICK i \in T : \A j \in T : ~(<<j, i>> \in R)
  BY <1>1, WFMin
<1>3. ASSUME NEW j \in T
      PROVE  i <= j
  <2>1. ~(<<j, i>> \in R)
    BY <1>2
  <2>2. i \in Nat /\ j \in Nat
    OBVIOUS
  <2> QED
    BY <2>1, <2>2
<1> QED
  BY <1>3

-----------------------------------------------------------------------------
(* The emitter as the modules of runs and of recorders use it               *)

LEMMA RunEmitter ==
  /\ \A capsule, sealed : Run!Seal(capsule, sealed) <=> Seal(capsule, sealed)
  /\ \A c, now, next : Run!Becomes(c, now, next) <=> Becomes(c, now, next)
  /\ \A table : Run!Keys(table) = Keys(table)
  /\ \A table, key, default : Run!Get(table, key, default) = Get(table, key, default)
  /\ \A table, key : Run!Without(table, key) = Without(table, key)
  /\ \A table, key, val : Run!Assign(table, key, val) = Assign(table, key, val)
  /\ \A table, key, val : Run!Remember(table, key, val) = Remember(table, key, val)
  /\ \A c, status, output, prior, marks :
         Run!Capsule(c, status, output, prior, marks) = Capsule(c, status, output, prior, marks)
  /\ \A capsule, model : Run!Attributed(capsule, model) = Attributed(capsule, model)
  /\ \A dropped : Run!Unchained(dropped) = Unchained(dropped)
  /\ \A sealed : Run!IdIf(sealed) = IdIf(sealed)
  /\ \A sealed : Run!SealNote(sealed) => Seal(Capsule(NoCall, "none", FALSE, 0, {}), sealed)
  /\ Run!NextId = NextId
<1>1. \A capsule, sealed : Run!Seal(capsule, sealed) <=> Seal(capsule, sealed)
  <2>1. \A capsule : Run!Sealable(capsule) <=> Sealable(capsule)
    BY DEF Run!Sealable, Sealable
  <2>2. Run!Cardinality(lost) = Cardinality(lost)
    BY DEF Run!Cardinality, Cardinality
  <2>3. ASSUME NEW capsule, NEW sealed PROVE Run!Seal(capsule, sealed) <=> Seal(capsule, sealed)
    BY <2>1, <2>2 DEF Run!Seal, Seal
  <2> QED
    BY <2>3
<1>2. \A c, now, next : Run!Becomes(c, now, next) <=> Becomes(c, now, next)
  BY DEF Run!Becomes, Becomes
<1>3. \A table : Run!Keys(table) = Keys(table)
  BY DEF Run!Keys, Keys
<1>4. \A table, key, default : Run!Get(table, key, default) = Get(table, key, default)
  BY DEF Run!Get, Get, Run!Keys, Keys, Run!PlaceOf, PlaceOf
<1>5. \A table, key : Run!Without(table, key) = Without(table, key)
  BY DEF Run!Without, Without, Run!Keys, Keys, Run!PlaceOf, PlaceOf, Run!LeaveOut, LeaveOut
<1>6. \A table, key, val : Run!Assign(table, key, val) = Assign(table, key, val)
  BY DEF Run!Assign, Assign, Run!Keys, Keys
<1>7. \A table, key, val : Run!Remember(table, key, val) = Remember(table, key, val)
  BY DEF Run!Remember, Remember, Run!Assign, Assign, Run!Keys, Keys, Run!Bounded, Bounded
<1>8. \A c, status, output, prior, marks :
          Run!Capsule(c, status, output, prior, marks) = Capsule(c, status, output, prior, marks)
  BY DEF Run!Capsule, Capsule
<1>9. \A capsule, model : Run!Attributed(capsule, model) = Attributed(capsule, model)
  BY DEF Run!Attributed, Attributed
<1>10. \A dropped : Run!Unchained(dropped) = Unchained(dropped)
  BY DEF Run!Unchained, Unchained
<1>11. Run!NextId = NextId /\ \A sealed : Run!IdIf(sealed) = IdIf(sealed)
  BY DEF Run!NextId, NextId, Run!IdIf, IdIf
<1>12. \A sealed : Run!SealNote(sealed) => Seal(Capsule(NoCall, "none", FALSE, 0, {}), sealed)
  BY <1>1, <1>8 DEF Run!SealNote
<1> QED
  BY <1>1, <1>2, <1>3, <1>4, <1>5, <1>6, <1>7, <1>8, <1>9, <1>10, <1>11, <1>12

LEMMA RecordEmitter ==
  /\ \A capsule, sealed : Record!Seal(capsule, sealed) <=> Seal(capsule, sealed)
  /\ \A c, now, next : Record!Becomes(c, now, next) <=> Becomes(c, now, next)
  /\ \A table : Record!Keys(table) = Keys(table)
  /\ \A table, key, default : Record!Get(table, key, default) = Get(table, key, default)
  /\ \A table, key : Record!Without(table, key) = Without(table, key)
  /\ \A table, key, val : Record!Assign(table, key, val) = Assign(table, key, val)
  /\ \A table, key, val : Record!Remember(table, key, val) = Remember(table, key, val)
  /\ \A c, status, output, prior, marks :
         Record!Capsule(c, status, output, prior, marks) = Capsule(c, status, output, prior, marks)
  /\ \A capsule, model : Record!Attributed(capsule, model) = Attributed(capsule, model)
  /\ \A dropped : Record!Unchained(dropped) = Unchained(dropped)
  /\ \A sealed : Record!IdIf(sealed) = IdIf(sealed)
  /\ \A sealed : Record!SealNote(sealed) => Seal(Capsule(NoCall, "none", FALSE, 0, {}), sealed)
  /\ Record!NextId = NextId
<1>1. \A capsule, sealed : Record!Seal(capsule, sealed) <=> Seal(capsule, sealed)
  <2>1. \A capsule : Record!Sealable(capsule) <=> Sealable(capsule)
    BY DEF Record!Sealable, Sealable
  <2>2. Record!Cardinality(lost) = Cardinality(lost)
    BY DEF Record!Cardinality, Cardinality
  <2>3. ASSUME NEW capsule, NEW sealed PROVE Record!Seal(capsule, sealed) <=> Seal(capsule, sealed)
    BY <2>1, <2>2 DEF Record!Seal, Seal
  <2> QED
    BY <2>3
<1>2. \A c, now, next : Record!Becomes(c, now, next) <=> Becomes(c, now, next)
  BY DEF Record!Becomes, Becomes
<1>3. \A table : Record!Keys(table) = Keys(table)
  BY DEF Record!Keys, Keys
<1>4. \A table, key, default : Record!Get(table, key, default) = Get(table, key, default)
  BY DEF Record!Get, Get, Record!Keys, Keys, Record!PlaceOf, PlaceOf
<1>5. \A table, key : Record!Without(table, key) = Without(table, key)
  BY DEF Record!Without, Without, Record!Keys, Keys, Record!PlaceOf, PlaceOf, Record!LeaveOut, LeaveOut
<1>6. \A table, key, val : Record!Assign(table, key, val) = Assign(table, key, val)
  BY DEF Record!Assign, Assign, Record!Keys, Keys
<1>7. \A table, key, val : Record!Remember(table, key, val) = Remember(table, key, val)
  BY DEF Record!Remember, Remember, Record!Assign, Assign, Record!Keys, Keys, Record!Bounded, Bounded
<1>8. \A c, status, output, prior, marks :
          Record!Capsule(c, status, output, prior, marks) = Capsule(c, status, output, prior, marks)
  BY DEF Record!Capsule, Capsule
<1>9. \A capsule, model : Record!Attributed(capsule, model) = Attributed(capsule, model)
  BY DEF Record!Attributed, Attributed
<1>10. \A dropped : Record!Unchained(dropped) = Unchained(dropped)
  BY DEF Record!Unchained, Unchained
<1>11. Record!NextId = NextId /\ \A sealed : Record!IdIf(sealed) = IdIf(sealed)
  BY DEF Record!NextId, NextId, Record!IdIf, IdIf
<1>12. \A sealed : Record!SealNote(sealed) => Seal(Capsule(NoCall, "none", FALSE, 0, {}), sealed)
  BY <1>1, <1>8 DEF Record!SealNote
<1> QED
  BY <1>1, <1>2, <1>3, <1>4, <1>5, <1>6, <1>7, <1>8, <1>9, <1>10, <1>11, <1>12

-----------------------------------------------------------------------------
(* OpenAI Agents                                                            *)

LostOk(lo) == IsFiniteSet(lo) /\ Cardinality(lo) <= MaxLost

OpenAIOk(led, ph, lo, table) ==
    TableOk(table) /\ KeeperOk(led, ph, lo, Heads(table)) /\ LostOk(lo)

OpenAIInv == adapter = "openai" => OpenAIOk(ledger, phase, lost, pending)

\* A seal that is not refused fails only while failures are left.
LEMMA LostStaysBounded ==
  ASSUME LostOk(lost), NEW capsule, NEW sealed \in BOOLEAN, Seal(capsule, sealed), Sealable(capsule)
  PROVE  LostOk(lost')
<1>1. CASE sealed
  BY <1>1 DEF Seal
<1>2. CASE ~sealed
  <2>1. Cardinality(lost) < MaxLost /\ lost' = lost \cup {capsule.call}
    BY <1>2 DEF Seal
  <2>2. /\ IsFiniteSet(lost')
        /\ Cardinality(lost') = IF capsule.call \in lost THEN Cardinality(lost) ELSE Cardinality(lost) + 1
    BY <2>1, FS_AddElement DEF LostOk
  <2>3. Cardinality(lost) \in Nat /\ MaxLost \in Nat
    BY FS_CardinalityType, EmitterAssumption DEF LostOk
  <2> QED
    BY <2>1, <2>2, <2>3 DEF LostOk
<1> QED
  BY <1>1, <1>2

LEMMA OpenAIOpens ==
  ASSUME OpenAIOk(ledger, phase, lost, pending), NEW c \in Calls, NEW sealed \in BOOLEAN, Run!OpenCall(c, sealed)
  PROVE  OpenAIOk(ledger', phase', lost', pending')
<1>1. PICK capsule : capsule = Capsule(c, "planned", FALSE, 0, {})
  OBVIOUS
<1>2. capsule.call = c /\ capsule.prior = 0 /\ capsule.status = "planned" /\ Sealable(capsule)
  BY <1>1 DEF Capsule, Sealable
<1>3. PICK id : id = NextId
  OBVIOUS
<1>4. /\ Becomes(c, "new", "running") /\ Seal(capsule, sealed)
      /\ pending' = pending \/ (sealed /\ pending' = Remember(pending, c, id))
  BY <1>1, <1>3, RunEmitter DEF Run!OpenCall
<1>5. TableOk(pending) /\ KeeperOk(ledger, phase, lost, Heads(pending)) /\ LostOk(lost)
  BY DEF OpenAIOk
<1>6. Moved(phase', phase, c, "running")
  BY <1>4, <1>5, BecomesMoves DEF KeeperOk
<1>7. /\ TableOk(pending')
      /\ \A h \in Heads(pending') : h \in Heads(pending) \/ h[2] = 0 \/ (sealed /\ h[1] = c /\ h[2] = NextId)
  <2>1. Remembered(Remember(pending, c, id), pending, c, id)
    BY <1>5, RememberIs
  <2>2. <<c, id>>[1] = c /\ <<c, id>>[2] = id
    OBVIOUS
  <2> QED
    BY <1>3, <1>4, <1>5, <2>1, <2>2 DEF Remembered
<1>8. KeeperOk(ledger', phase', lost', Heads(pending'))
  <2>1. "running" \notin Ends
    BY DEF Ends
  <2> QED
    BY <1>2, <1>4, <1>5, <1>6, <1>7, <2>1, PlanKept
<1>9. LostOk(lost')
  BY <1>2, <1>4, <1>5, LostStaysBounded
<1> QED
  BY <1>7, <1>8, <1>9 DEF OpenAIOk

LEMMA OpenAICloses ==
  ASSUME OpenAIOk(ledger, phase, lost, pending), NEW c \in Calls, NEW sealed \in BOOLEAN,
         NEW end, NEW errored \in BOOLEAN, NEW output \in BOOLEAN, NEW marks,
         Run!CloseCall(c, end, errored, output, marks, sealed)
  PROVE  OpenAIOk(ledger', phase', lost', pending')
<1>1. PICK plan : plan = IF Run!HasKey(c) THEN Get(pending, c, 0) ELSE 0
  OBVIOUS
<1>2. PICK status : status = Run!CloseStatus(errored, output, plan)
  OBVIOUS
<1>3. PICK capsule : capsule = Capsule(c, status, output, plan, marks)
  OBVIOUS
<1>4. /\ Becomes(c, "running", end) /\ Seal(capsule, sealed)
      /\ pending' = Without(pending, c)
  BY <1>1, <1>2, <1>3, RunEmitter DEF Run!CloseCall
<1>5. status # "planned" /\ (status = "confirmed" => output \/ plan # 0)
  BY <1>2 DEF Run!CloseStatus
<1>6. capsule.call = c /\ capsule.prior = plan /\ capsule.status # "planned" /\ Sealable(capsule)
  BY <1>3, <1>5 DEF Capsule, Sealable
<1>7. TableOk(pending) /\ KeeperOk(ledger, phase, lost, Heads(pending)) /\ LostOk(lost)
  BY DEF OpenAIOk
<1>8. Moved(phase', phase, c, end)
  BY <1>4, <1>7, BecomesMoves DEF KeeperOk
<1>9. TableOk(pending') /\ Heads(pending') = {h \in Heads(pending) : h[1] # c}
  BY <1>4, <1>7, WithoutIs DEF Removed
<1>10. plan = 0 \/ \E h \in Heads(pending) : h[1] = c /\ h[2] = plan
  BY <1>1, EntryOf
<1>11. KeeperOk(ledger', phase', lost', Heads(pending'))
  BY <1>4, <1>6, <1>7, <1>8, <1>9, <1>10, OutcomeKept
<1>12. LostOk(lost')
  BY <1>4, <1>6, <1>7, LostStaysBounded
<1> QED
  BY <1>9, <1>11, <1>12 DEF OpenAIOk

LEMMA OpenAINextKeeps ==
  ASSUME OpenAIOk(ledger, phase, lost, pending), Run!OpenAINext
  PROVE  OpenAIOk(ledger', phase', lost', pending')
<1>1. PICK c \in Calls :
        \/ Run!RaisedUnheard(c)
        \/ \E sealed \in BOOLEAN :
            \/ Run!OpenCall(c, sealed)
            \/ \E bad \in BOOLEAN :
                \/ Run!OnSpanEnd(c, bad, bad \/ Run!HasOutput(c), sealed)
                \/ Run!OnToolEnd(c, bad, Run!HasOutput(c), sealed)
  BY DEF Run!OpenAINext
<1>2. CASE Run!RaisedUnheard(c)
  <2>1. Becomes(c, "running", "gone") /\ UNCHANGED <<ledger, pending, lost>>
    BY <1>2, RunEmitter DEF Run!RaisedUnheard
  <2>2. Moved(phase', phase, c, "gone")
    BY <2>1, BecomesMoves DEF OpenAIOk, KeeperOk
  <2>3. KeeperOk(ledger, phase', lost, Heads(pending))
    BY <2>2, KeeperRests DEF OpenAIOk, Ends
  <2> QED
    BY <2>1, <2>3 DEF OpenAIOk
<1>3. ASSUME NEW sealed \in BOOLEAN, Run!OpenCall(c, sealed)
      PROVE  OpenAIOk(ledger', phase', lost', pending')
  BY <1>3, OpenAIOpens
<1>4. Run!HasOutput(c) \in BOOLEAN
  BY DEF Run!HasOutput
<1>5. ASSUME NEW sealed \in BOOLEAN, NEW bad \in BOOLEAN, Run!OnSpanEnd(c, bad, bad \/ Run!HasOutput(c), sealed)
      PROVE  OpenAIOk(ledger', phase', lost', pending')
  <2>1. PICK end, output, marks : /\ end = IF bad THEN "raised" ELSE "done"
                                  /\ output = (bad \/ Run!HasOutput(c)) /\ marks = {}
    OBVIOUS
  <2>2. output \in BOOLEAN /\ Run!CloseCall(c, end, bad, output, marks, sealed)
    BY <1>5, <2>1 DEF Run!OnSpanEnd
  <2> QED
    BY <2>2, OpenAICloses
<1>6. ASSUME NEW sealed \in BOOLEAN, NEW bad \in BOOLEAN, Run!OnToolEnd(c, bad, Run!HasOutput(c), sealed)
      PROVE  OpenAIOk(ledger', phase', lost', pending')
  <2>1. PICK end, output, marks : /\ end = IF bad THEN "raised" ELSE "done"
                                  /\ output = Run!HasOutput(c) /\ marks = {<<"no_error_hook", 0>>}
    OBVIOUS
  <2>2. PICK errored \in BOOLEAN : errored = FALSE
    OBVIOUS
  <2>3. output \in BOOLEAN /\ Run!CloseCall(c, end, errored, output, marks, sealed)
    BY <1>4, <1>6, <2>1, <2>2 DEF Run!OnToolEnd
  <2> QED
    BY <2>3, OpenAICloses
<1> QED
  BY <1>1, <1>2, <1>3, <1>5, <1>6

LEMMA OpenAIStart == Init => OpenAIInv
<1> SUFFICES ASSUME EmitterInit PROVE OpenAIOk(ledger, phase, lost, pending)
  BY DEF Init, OpenAIInv
<1>1. lost = {} /\ MaxLost \in Nat
  BY EmitterAssumption DEF EmitterInit
<1>2. LostOk(lost)
  BY <1>1, FS_EmptySet DEF LostOk
<1> QED
  BY <1>2, KeeperStarts DEF OpenAIOk

LEMMA OpenAIStep == OpenAIInv /\ [Next]_vars => OpenAIInv'
<1>1. CASE UNCHANGED vars
  <2>1. ledger' = ledger /\ phase' = phase /\ lost' = lost /\ pending' = pending /\ adapter' = adapter
    BY <1>1 DEF vars, emitterVars
  <2> QED
    BY <2>1 DEF OpenAIInv
<1>2. ASSUME OpenAIInv, Next PROVE OpenAIInv'
  BY <1>2, OpenAINextKeeps DEF OpenAIInv, Next
<1> QED
  BY <1>1, <1>2

LEMMA OpenAIHolds ==
  ASSUME OpenAIInv, adapter = "openai"
  PROVE  CitationsAreTrue /\ OutcomesAreRecordedOnce
<1>1. KeeperOk(ledger, phase, lost, Heads(pending)) /\ NoOutcomeIsRefused
  BY DEF OpenAIInv, OpenAIOk, LostOk, NoOutcomeIsRefused
<1>2. ChainsPairTheSameCall /\ PriorsAreNotShared /\ OutcomesRecorded
  BY <1>1, KeeperHolds
<1> QED
  BY <1>1, <1>2, OnlyItsOwn, AllTogether

-----------------------------------------------------------------------------
(* Agent Framework                                                          *)

\* The model of the run that a call is, or is made from.
ModelOfRun(c) == IF c \in Runs THEN RunModel[c]
                 ELSE IF Enclosing[c] = NoCall THEN 0 ELSE RunModel[Enclosing[c]]

MiddlewareOk(led, ph, lo, table, models) ==
    /\ TableOk(table) /\ KeeperOk(led, ph, lo, Heads(table))
    /\ DOMAIN models = Calls \cup {NoCall}
    /\ \A c \in Calls : ph[c] = "running" => models[c] = ModelOfRun(c)
    /\ \A i \in DOMAIN led : led[i].model = ModelOfRun(led[i].call)

MiddlewareInv == adapter = "microsoft" => MiddlewareOk(ledger, phase, lost, pending, own1)

\* A record that names its run's model is added, or lost.
LEMMA ModelsGrow ==
  ASSUME \A i \in DOMAIN ledger : ledger[i].model = ModelOfRun(ledger[i].call), IsSeq(ledger),
         NEW capsule, NEW sealed \in BOOLEAN, Seal(capsule, sealed), capsule.model = ModelOfRun(capsule.call)
  PROVE  \A i \in DOMAIN ledger' : ledger'[i].model = ModelOfRun(ledger'[i].call)
<1>1. Wrote(ledger', lost', ledger, lost, capsule)
  BY SealWrites
<1> QED
  BY <1>1 DEF Wrote, Grown

LEMMA MiddlewarePlans ==
  ASSUME MiddlewareOk(ledger, phase, lost, pending, own1), NEW c \in Calls, NEW sealed \in BOOLEAN,
         Run!Planned(c, sealed)
  PROVE  MiddlewareOk(ledger', phase', lost', pending', own1')
<1>1. PICK model : model = Run!ModelSeen(c)
  OBVIOUS
<1>2. PICK capsule : capsule = Attributed(Capsule(c, "planned", FALSE, 0, {}), model)
  OBVIOUS
<1>3. /\ capsule.call = c /\ capsule.prior = 0 /\ capsule.status = "planned" /\ capsule.model = model
  BY <1>2 DEF Capsule, Attributed
<1>4. PICK id : id = IdIf(sealed)
  OBVIOUS
<1>5. /\ Enclosing[c] # NoCall => phase[Enclosing[c]] = "running"
      /\ Becomes(c, "new", "running") /\ own1' = [own1 EXCEPT ![c] = model]
      /\ \/ Seal(capsule, sealed) /\ pending' = Assign(pending, c, id)
         \/ UNCHANGED <<ledger, lost, pending>>
  BY <1>1, <1>2, <1>4, RunEmitter DEF Run!Planned
<1>6. /\ TableOk(pending) /\ KeeperOk(ledger, phase, lost, Heads(pending)) /\ DOMAIN own1 = Calls \cup {NoCall}
      /\ IsSeq(ledger) /\ "running" \notin Ends
  BY DEF MiddlewareOk, KeeperOk, Pairs, Ends
<1>7. Moved(phase', phase, c, "running")
  BY <1>5, <1>6, BecomesMoves DEF KeeperOk
<1>8. model = ModelOfRun(c)
  <2>1. CASE c \in Runs
    BY <1>1, <2>1 DEF Run!ModelSeen, ModelOfRun
  <2>2. CASE c \notin Runs /\ Enclosing[c] = NoCall
    BY <1>1, <2>2 DEF Run!ModelSeen, Run!Inherited, ModelOfRun
  <2>3. CASE c \notin Runs /\ Enclosing[c] # NoCall
    <3>1. Enclosing[c] \in Runs /\ Enclosing[c] \in Calls
      BY <2>3, AdapterAssumption
    <3>2. own1[Enclosing[c]] = RunModel[Enclosing[c]]
      BY <1>5, <2>3, <3>1 DEF MiddlewareOk, ModelOfRun
    <3> QED
      BY <1>1, <2>3, <3>2 DEF Run!ModelSeen, Run!Inherited, ModelOfRun
  <2> QED
    BY <2>1, <2>2, <2>3
<1>9. \A d \in Calls : phase'[d] = "running" => own1'[d] = ModelOfRun(d)
  BY <1>5, <1>6, <1>7, <1>8 DEF MiddlewareOk, Moved
<1>10. CASE Seal(capsule, sealed) /\ pending' = Assign(pending, c, id)
  <2>1. Assigned(pending', pending, c, id)
    BY <1>6, <1>10, AssignIs
  <2>2. \A h \in Heads(pending') : h \in Heads(pending) \/ h[2] = 0 \/ (sealed /\ h[1] = c /\ h[2] = NextId)
    <3>1. <<c, id>>[1] = c /\ <<c, id>>[2] = id
      OBVIOUS
    <3> QED
      BY <1>4, <2>1, <3>1 DEF Assigned, IdIf
  <2>3. KeeperOk(ledger', phase', lost', Heads(pending'))
    BY <1>3, <1>6, <1>7, <1>10, <2>2, PlanKept
  <2>4. \A i \in DOMAIN ledger' : ledger'[i].model = ModelOfRun(ledger'[i].call)
    BY <1>3, <1>6, <1>8, <1>10, ModelsGrow DEF MiddlewareOk
  <2> QED
    BY <1>5, <1>6, <1>9, <2>1, <2>3, <2>4 DEF MiddlewareOk, Assigned
<1>11. CASE UNCHANGED <<ledger, lost, pending>>
  <2>1. KeeperOk(ledger, phase', lost, Heads(pending))
    BY <1>6, <1>7, KeeperRests
  <2> QED
    BY <1>5, <1>6, <1>9, <1>11, <2>1 DEF MiddlewareOk
<1> QED
  BY <1>5, <1>10, <1>11

LEMMA MiddlewareEnds ==
  ASSUME MiddlewareOk(ledger, phase, lost, pending, own1), NEW c \in Calls, NEW sealed \in BOOLEAN,
         NEW end, end \notin {"running"}, NEW status, status # "planned", NEW output,
         Run!Ended(c, end, status, output, sealed)
  PROVE  MiddlewareOk(ledger', phase', lost', pending', own1')
<1>1. PICK plan : plan = Get(pending, c, 0)
  OBVIOUS
<1>2. PICK model : model = own1[c]
  OBVIOUS
<1>3. PICK capsule : capsule = Attributed(Capsule(c, status, output, plan, {}), model)
  OBVIOUS
<1>4. capsule.call = c /\ capsule.prior = plan /\ capsule.status # "planned" /\ capsule.model = model
  BY <1>3 DEF Capsule, Attributed
<1>5. PICK next : next = IF Run!SealedHere(c) THEN end ELSE "gone"
  OBVIOUS
<1>6. PICK before : before = Run!Inherited(c)
  OBVIOUS
<1>7. /\ Becomes(c, "running", next) /\ own1' = [own1 EXCEPT ![c] = before]
      /\ pending' = Without(pending, c)
      /\ Seal(capsule, sealed) \/ (next = "gone" /\ UNCHANGED <<ledger, lost>>)
  BY <1>1, <1>2, <1>3, <1>5, <1>6, RunEmitter DEF Run!Ended
<1>8. /\ TableOk(pending) /\ KeeperOk(ledger, phase, lost, Heads(pending)) /\ DOMAIN own1 = Calls \cup {NoCall}
      /\ IsSeq(ledger) /\ "gone" \notin Ends /\ next # "running"
  BY <1>5 DEF MiddlewareOk, KeeperOk, Pairs, Ends
<1>9. phase[c] = "running" /\ Moved(phase', phase, c, next)
  BY <1>7, <1>8, BecomesMoves DEF KeeperOk
<1>10. model = ModelOfRun(c)
  BY <1>2, <1>9 DEF MiddlewareOk
<1>11. \A d \in Calls : phase'[d] = "running" => own1'[d] = ModelOfRun(d)
  BY <1>7, <1>8, <1>9 DEF MiddlewareOk, Moved
<1>12. TableOk(pending') /\ Heads(pending') = {h \in Heads(pending) : h[1] # c}
  BY <1>7, <1>8, WithoutIs DEF Removed
<1>13. plan = 0 \/ \E h \in Heads(pending) : h[1] = c /\ h[2] = plan
  BY <1>1, EntryOf
<1>14. CASE Seal(capsule, sealed)
  <2>1. KeeperOk(ledger', phase', lost', Heads(pending'))
    BY <1>4, <1>8, <1>9, <1>12, <1>13, <1>14, OutcomeKept
  <2>2. \A i \in DOMAIN ledger' : ledger'[i].model = ModelOfRun(ledger'[i].call)
    BY <1>4, <1>8, <1>10, <1>14, ModelsGrow DEF MiddlewareOk
  <2> QED
    BY <1>7, <1>8, <1>11, <1>12, <2>1, <2>2 DEF MiddlewareOk
<1>15. CASE next = "gone" /\ UNCHANGED <<ledger, lost>>
  <2>1. KeeperOk(ledger, phase', lost, Heads(pending'))
    BY <1>8, <1>9, <1>12, <1>15, KeeperRests
  <2> QED
    BY <1>7, <1>8, <1>11, <1>12, <1>15, <2>1 DEF MiddlewareOk
<1> QED
  BY <1>7, <1>14, <1>15

LEMMA MiddlewareStart == Init => MiddlewareInv
<1> SUFFICES ASSUME EmitterInit, Run!MiddlewareInit PROVE MiddlewareOk(ledger, phase, lost, pending, own1)
  BY DEF Init, MiddlewareInv
<1>1. DOMAIN own1 = Calls \cup {NoCall}
  BY DEF Run!MiddlewareInit
<1> QED
  BY <1>1, KeeperStarts DEF MiddlewareOk

LEMMA MiddlewareStep == MiddlewareInv /\ [Next]_vars => MiddlewareInv'
<1>1. CASE UNCHANGED vars
  <2>1. /\ ledger' = ledger /\ phase' = phase /\ lost' = lost /\ pending' = pending
        /\ own1' = own1 /\ adapter' = adapter
    BY <1>1 DEF vars, emitterVars
  <2> QED
    BY <2>1 DEF MiddlewareInv
<1>2. ASSUME MiddlewareOk(ledger, phase, lost, pending, own1), Run!MiddlewareNext
      PROVE  MiddlewareOk(ledger', phase', lost', pending', own1')
  <2>1. PICK c \in Calls, sealed \in BOOLEAN :
          \/ Run!Planned(c, sealed)
          \/ Run!Failed(c, sealed)
          \/ Run!Blocked(c, sealed)
          \/ Run!Confirmed(c, Run!HasOutput(c), sealed)
    BY <1>2 DEF Run!MiddlewareNext
  <2>2. CASE Run!Planned(c, sealed)
    BY <1>2, <2>2, MiddlewarePlans
  <2>3. PICK output : output = Run!HasOutput(c)
    OBVIOUS
  <2>4. PICK yes : yes = TRUE
    OBVIOUS
  <2>5. \/ Run!Planned(c, sealed) \/ Run!Ended(c, "raised", "failed", yes, sealed)
        \/ Run!Ended(c, "blocked", "blocked", yes, sealed) \/ Run!Ended(c, "done", "confirmed", output, sealed)
    BY <2>1, <2>3, <2>4 DEF Run!Failed, Run!Blocked, Run!Confirmed
  <2> QED
    BY <1>2, <2>2, <2>5, MiddlewareEnds
<1>3. ASSUME MiddlewareInv, Next PROVE MiddlewareInv'
  BY <1>2, <1>3 DEF MiddlewareInv, Next
<1> QED
  BY <1>1, <1>3

LEMMA MiddlewareHolds ==
  ASSUME MiddlewareInv, adapter = "microsoft"
  PROVE  CitationsAreTrue /\ OutcomesAreRecordedOnce
<1>1. KeeperOk(ledger, phase, lost, Heads(pending)) /\ FunctionModelIsItsRuns
  BY DEF MiddlewareInv, MiddlewareOk, FunctionModelIsItsRuns, ModelOfRun, Sealed
<1>2. ChainsPairTheSameCall /\ PriorsAreNotShared /\ OutcomesRecorded
  BY <1>1, KeeperHolds
<1> QED
  BY <1>1, <1>2, OnlyItsOwn, AllTogether

-----------------------------------------------------------------------------
(* Strands                                                                  *)

\* The last plan of a call, and the last one before the place i.
LastPlan(led, c, n) == n \in PlansIn(led, c) /\ \A k \in PlansIn(led, c) : k <= n
LastPlanBefore(led, c, n, i) ==
    n \in PlansIn(led, c) /\ n < i /\ \A k \in PlansIn(led, c) : ~(n < k /\ k < i)

RetryIsTrue(led, i) ==
    \A m \in led[i].marks : m[1] = "retry_of" =>
        /\ LastPlanBefore(led, led[i].call, m[2], i)
        /\ led[i].status # "planned" => m[2] = led[i].prior

StrandsOk(led, ph, lo, table, tried) ==
    /\ TableOk(table) /\ KeeperOk(led, ph, lo, Heads(table))
    /\ \A h \in Heads(table) : h[1] \notin Anonymous /\ (h[2] # 0 => LastPlan(led, h[1], h[2]))
    /\ TableOk(tried)
    /\ \A h \in Heads(tried) : /\ h[1] \notin Anonymous
                               /\ h[2].plan # 0 => LastPlan(led, h[1], h[2].plan)
    /\ \A i \in DOMAIN led : RetryIsTrue(led, i)

StrandsInv == adapter = "strands" => StrandsOk(ledger, phase, lost, pending, own1)

\* A record is added: an earlier plan stays the last one, unless this is one.
LEMMA RetriesGrow ==
  ASSUME NEW led, NEW led2, NEW capsule, Grown(led2, led, capsule),
         \A i \in DOMAIN led : RetryIsTrue(led, i),
         \A m \in capsule.marks : m[1] = "retry_of" =>
             /\ LastPlan(led, capsule.call, m[2])
             /\ capsule.status # "planned" => m[2] = capsule.prior
  PROVE  /\ \A i \in DOMAIN led2 : RetryIsTrue(led2, i)
         /\ \A c, n : LastPlan(led, c, n) /\ (c # capsule.call \/ capsule.status # "planned") => LastPlan(led2, c, n)
         /\ capsule.status = "planned" => LastPlan(led2, capsule.call, Len(led) + 1)
<1>1. PICK new : new = Len(led) + 1
  OBVIOUS
<1>2. /\ DOMAIN led2 = DOMAIN led \cup {new} /\ led2[new] = capsule /\ new \in Nat
      /\ \A i \in DOMAIN led : led2[i] = led[i] /\ i \in Nat /\ i < new
  BY <1>1 DEF Grown
<1>3. \A c : PlansIn(led2, c) = PlansIn(led, c) \cup
                 (IF capsule.call = c /\ capsule.status = "planned" THEN {new} ELSE {})
  <2> SUFFICES ASSUME NEW c
               PROVE  PlansIn(led2, c) = PlansIn(led, c) \cup
                          (IF capsule.call = c /\ capsule.status = "planned" THEN {new} ELSE {})
    OBVIOUS
  <2>1. /\ About(led2, c) = About(led, c) \cup (IF capsule.call = c THEN {new} ELSE {})
        /\ \A i \in About(led, c) : led2[i] = led[i] /\ i # new
    BY <1>2 DEF About
  <2> QED
    BY <1>2, <2>1 DEF PlansIn
<1>4. \A c : \A k \in PlansIn(led, c) : k \in Nat /\ k < new
  BY <1>2 DEF PlansIn, About
<1>5. ASSUME NEW i \in DOMAIN led PROVE RetryIsTrue(led2, i)
  <2> SUFFICES ASSUME NEW m \in led[i].marks, m[1] = "retry_of"
               PROVE  /\ LastPlanBefore(led2, led[i].call, m[2], i)
                      /\ led[i].status # "planned" => m[2] = led[i].prior
    BY <1>2 DEF RetryIsTrue
  <2>1. /\ LastPlanBefore(led, led[i].call, m[2], i)
        /\ led[i].status # "planned" => m[2] = led[i].prior
    BY DEF RetryIsTrue
  <2>2. i \in Nat /\ i < new
    BY <1>2
  <2> QED
    BY <1>2, <1>3, <2>1, <2>2 DEF LastPlanBefore
<1>6. RetryIsTrue(led2, new)
  <2> SUFFICES ASSUME NEW m \in capsule.marks, m[1] = "retry_of"
               PROVE  LastPlanBefore(led2, capsule.call, m[2], new)
    BY <1>2 DEF RetryIsTrue
  <2>1. LastPlan(led, capsule.call, m[2])
    OBVIOUS
  <2>2. \A k \in PlansIn(led2, capsule.call) : k \in Nat /\ (k = new \/ k \in PlansIn(led, capsule.call))
    BY <1>2, <1>3, <1>4
  <2> QED
    BY <1>2, <1>3, <1>4, <2>1, <2>2 DEF LastPlanBefore, LastPlan
<1>7. ASSUME NEW c, NEW n, LastPlan(led, c, n), c # capsule.call \/ capsule.status # "planned"
      PROVE  LastPlan(led2, c, n)
  BY <1>3, <1>7 DEF LastPlan
<1>8. capsule.status = "planned" => LastPlan(led2, capsule.call, new)
  BY <1>2, <1>3, <1>4 DEF LastPlan
<1> QED
  BY <1>1, <1>2, <1>5, <1>6, <1>7, <1>8

\* The marks of an attempt name no plan but the one given.
LEMMA AttemptMarksAre ==
  ASSUME NEW number, NEW plan, NEW m \in Call!AttemptMarks(number, plan), m[1] = "retry_of"
  PROVE  plan # 0 /\ m[2] = plan
<1>1. m = <<"attempt", number>> \/ (plan # 0 /\ m = <<"retry_of", plan>>)
  BY DEF Call!AttemptMarks
<1>2. <<"attempt", number>>[1] = "attempt" /\ <<"retry_of", plan>>[2] = plan
  OBVIOUS
<1> QED
  BY <1>1, <1>2

LEMMA StrandsBefore ==
  ASSUME StrandsOk(ledger, phase, lost, pending, own1), NEW c \in Calls, NEW sealed \in BOOLEAN,
         Call!OnBeforeToolCall(c, sealed)
  PROVE  StrandsOk(ledger', phase', lost', pending', own1')
<1>1. PICK last : last = IF c \in Anonymous THEN Call!NoAttempt ELSE Get(own1, c, Call!NoAttempt)
  OBVIOUS
<1>2. PICK number, id : number = last.number + 1 /\ id = NextId
  OBVIOUS
<1>3. PICK marks : marks = Call!AttemptMarks(number, last.plan)
  OBVIOUS
<1>4. PICK capsule : capsule = Capsule(c, "planned", FALSE, 0, marks)
  OBVIOUS
<1>5. capsule.call = c /\ capsule.prior = 0 /\ capsule.status = "planned" /\ capsule.marks = marks
  BY <1>4 DEF Capsule
<1>6. PICK val : val = [number |-> number, plan |-> IF sealed THEN id ELSE last.plan]
  OBVIOUS
<1>7. /\ phase' = [phase EXCEPT ![c] = "running"] /\ Seal(capsule, sealed)
      /\ \/ c \in Anonymous /\ own1' = own1 /\ pending' = pending
         \/ /\ c \notin Anonymous /\ own1' = Remember(own1, c, val)
            /\ \/ ~sealed /\ pending' = pending
               \/ sealed /\ pending' = Remember(pending, c, id)
  <2>1. /\ phase' = [phase EXCEPT ![c] = "running"]
        /\ Call!Seal(Call!Capsule(c, "planned", FALSE, 0, marks), sealed)
        /\ IF c \in Anonymous THEN UNCHANGED <<own1, pending>>
           ELSE /\ own1' = Call!Remember(own1, c, val)
                /\ pending' = IF sealed THEN Call!Remember(pending, c, id) ELSE pending
    BY <1>1, <1>2, <1>3, <1>6, CallEmitter DEF Call!OnBeforeToolCall
  <2> QED
    BY <1>4, <2>1, CallEmitter
<1>8. /\ TableOk(pending) /\ TableOk(own1) /\ KeeperOk(ledger, phase, lost, Heads(pending))
      /\ IsSeq(ledger) /\ "running" \notin Ends /\ Moved(phase', phase, c, "running")
      /\ \A h \in Heads(own1) : h[1] \notin Anonymous /\ (h[2].plan # 0 => LastPlan(ledger, h[1], h[2].plan))
      /\ \A i \in DOMAIN ledger : RetryIsTrue(ledger, i)
      /\ \A h \in Heads(pending) : h[1] \notin Anonymous /\ (h[2] # 0 => LastPlan(ledger, h[1], h[2]))
  BY <1>7 DEF StrandsOk, KeeperOk, Pairs, Ends, Moved
<1>9. /\ TableOk(pending')
      /\ \A h \in Heads(pending') : h \in Heads(pending) \/ h[2] = 0 \/ (sealed /\ h[1] = c /\ h[2] = NextId)
      /\ \A h \in Heads(pending') : \/ h \in Heads(pending) /\ (h[1] # c \/ ~sealed)
                                    \/ sealed /\ h[1] = c /\ h[2] = NextId /\ c \notin Anonymous
  <2>1. Remembered(Remember(pending, c, id), pending, c, id)
    BY <1>8, RememberIs
  <2>2. <<c, id>>[1] = c /\ <<c, id>>[2] = id
    OBVIOUS
  <2> QED
    BY <1>2, <1>7, <1>8, <2>1, <2>2 DEF Remembered
<1>17. \A h \in Heads(pending') : h \in Heads(pending) \/ h[2] = 0 \/ (sealed /\ h[1] = c /\ h[2] = NextId)
  BY <1>9
<1>10. KeeperOk(ledger', phase', lost', Heads(pending'))
  BY <1>5, <1>7, <1>8, <1>17, PlanKept
<1>11. last.plan # 0 => c \notin Anonymous /\ LastPlan(ledger, c, last.plan)
  <2>1. Call!NoAttempt.plan = 0
    BY DEF Call!NoAttempt
  <2>2. CASE c \in Keys(own1) /\ c \notin Anonymous
    <3>1. <<c, last>> \in Heads(own1)
      BY <1>1, <2>2, GetIs
    <3>2. <<c, last>>[1] = c /\ <<c, last>>[2] = last
      OBVIOUS
    <3> QED
      BY <1>8, <2>2, <3>1, <3>2
  <2>3. CASE ~(c \in Keys(own1) /\ c \notin Anonymous)
    <3>1. last = Call!NoAttempt
      BY <1>1, <2>3, GetIs
    <3> QED
      BY <2>1, <3>1
  <2> QED
    BY <2>2, <2>3
<1>12. \A m \in capsule.marks : m[1] = "retry_of" =>
          LastPlan(ledger, capsule.call, m[2]) /\ (capsule.status # "planned" => m[2] = capsule.prior)
  BY <1>3, <1>5, <1>11, AttemptMarksAre
<1>13. /\ sealed => Grown(ledger', ledger, capsule)
       /\ ~sealed => ledger' = ledger
  BY <1>7, <1>8, SealWrites
<1>14. /\ \A i \in DOMAIN ledger' : RetryIsTrue(ledger', i)
       /\ \A d, n : LastPlan(ledger, d, n) /\ (d # c \/ ~sealed) => LastPlan(ledger', d, n)
       /\ sealed => LastPlan(ledger', c, id)
  <2>1. CASE sealed
    <3>1. Grown(ledger', ledger, capsule)
      BY <1>13, <2>1
    <3> QED
      BY <1>2, <1>5, <1>8, <1>12, <2>1, <3>1, RetriesGrow DEF NextId
  <2>2. CASE ~sealed
    BY <1>8, <1>13, <2>2
  <2> QED
    BY <2>1, <2>2
<1>15. /\ TableOk(own1')
       /\ \A h \in Heads(own1') : h[1] \notin Anonymous /\ (h[2].plan # 0 => LastPlan(ledger', h[1], h[2].plan))
  <2>1. CASE c \in Anonymous
    <3>1. own1' = own1
      BY <1>7, <2>1
    <3> QED
      BY <1>8, <1>14, <2>1, <3>1
  <2>2. CASE c \notin Anonymous
    <3>1. Remembered(own1', own1, c, val)
      BY <1>7, <1>8, <2>2, RememberIs
    <3>2. /\ TableOk(own1')
          /\ \A h \in Heads(own1') : (h \in Heads(own1) /\ h[1] # c) \/ h = <<c, val>>
      BY <3>1 DEF Remembered
    <3>3. <<c, val>>[1] = c /\ <<c, val>>[2] = val
      OBVIOUS
    <3>4. val.plan = IF sealed THEN id ELSE last.plan
      BY <1>6
    <3>5. val.plan # 0 => LastPlan(ledger', c, val.plan)
      BY <1>11, <1>14, <3>4
    <3> QED
      BY <1>8, <1>14, <2>2, <3>2, <3>3, <3>5
  <2> QED
    BY <2>1, <2>2
<1>16. \A h \in Heads(pending') : h[1] \notin Anonymous /\ (h[2] # 0 => LastPlan(ledger', h[1], h[2]))
  <2> SUFFICES ASSUME NEW h \in Heads(pending')
               PROVE  h[1] \notin Anonymous /\ (h[2] # 0 => LastPlan(ledger', h[1], h[2]))
    OBVIOUS
  <2>1. CASE h \in Heads(pending) /\ (h[1] # c \/ ~sealed)
    BY <1>8, <1>14, <2>1
  <2>2. CASE sealed /\ h[1] = c /\ h[2] = NextId /\ c \notin Anonymous
    BY <1>2, <1>14, <2>2
  <2> QED
    BY <1>9, <2>1, <2>2
<1> QED
  BY <1>9, <1>10, <1>14, <1>15, <1>16 DEF StrandsOk

LEMMA StrandsAfter ==
  ASSUME StrandsOk(ledger, phase, lost, pending, own1), NEW c \in Calls, NEW sealed \in BOOLEAN,
         NEW outcome \in Call!StrandsOutcomes, NEW output, Call!OnAfterToolCall(c, outcome, output, sealed)
  PROVE  StrandsOk(ledger', phase', lost', pending', own1')
<1>1. PICK plan : plan = IF c \notin Anonymous THEN Get(pending, c, 0) ELSE 0
  OBVIOUS
<1>2. PICK status, end : status = outcome[1] /\ end = outcome[2] /\ status # "planned"
  BY DEF Call!StrandsOutcomes
<1>3. PICK number : number = IF c \notin Anonymous
                             THEN Get(own1, c, [Call!NoAttempt EXCEPT !.number = 1]).number ELSE 1
  OBVIOUS
<1>4. PICK marks : marks = Call!AttemptMarks(number, plan)
  OBVIOUS
<1>5. PICK capsule : capsule = Capsule(c, status, output, plan, marks)
  OBVIOUS
<1>6. capsule.call = c /\ capsule.prior = plan /\ capsule.status # "planned"
  BY <1>2, <1>5 DEF Capsule
<1>7. /\ Becomes(c, "running", end) /\ Seal(capsule, sealed)
      /\ pending' = Without(pending, c) /\ own1' = own1
  <2>1. /\ Call!Becomes(c, "running", end) /\ pending' = Call!Without(pending, c)
        /\ Call!Seal(Call!Capsule(c, status, output, plan, marks), sealed)
        /\ own1' = own1
    BY <1>1, <1>2, <1>3, <1>4, CallEmitter DEF Call!OnAfterToolCall, Call!strandsVars
  <2> QED
    BY <1>5, <2>1, CallEmitter
<1>8. /\ TableOk(pending) /\ TableOk(own1) /\ KeeperOk(ledger, phase, lost, Heads(pending)) /\ IsSeq(ledger)
      /\ \A h \in Heads(own1) : h[1] \notin Anonymous /\ (h[2].plan # 0 => LastPlan(ledger, h[1], h[2].plan))
      /\ \A i \in DOMAIN ledger : RetryIsTrue(ledger, i)
      /\ \A h \in Heads(pending) : h[1] \notin Anonymous /\ (h[2] # 0 => LastPlan(ledger, h[1], h[2]))
  BY DEF StrandsOk, KeeperOk, Pairs
<1>9. Moved(phase', phase, c, end)
  BY <1>7, <1>8, BecomesMoves DEF KeeperOk
<1>10. TableOk(pending') /\ Heads(pending') = {h \in Heads(pending) : h[1] # c}
  BY <1>7, <1>8, WithoutIs DEF Removed
<1>11. plan = 0 \/ \E h \in Heads(pending) : h[1] = c /\ h[2] = plan
  BY <1>1, EntryOf
<1>12. KeeperOk(ledger', phase', lost', Heads(pending'))
  BY <1>6, <1>7, <1>8, <1>9, <1>10, <1>11, OutcomeKept
<1>13. Grown(ledger', ledger, capsule) \/ ledger' = ledger
  BY <1>7, <1>8, SealWrites
<1>15. \A m \in capsule.marks : m[1] = "retry_of" =>
          LastPlan(ledger, capsule.call, m[2]) /\ (capsule.status # "planned" => m[2] = capsule.prior)
  <2>1. capsule.marks = marks
    BY <1>5 DEF Capsule
  <2> QED
    BY <1>4, <1>6, <1>8, <1>11, <2>1, AttemptMarksAre
<1>14. /\ \A i \in DOMAIN ledger' : RetryIsTrue(ledger', i)
       /\ \A d, n : LastPlan(ledger, d, n) => LastPlan(ledger', d, n)
  <2>1. CASE Grown(ledger', ledger, capsule)
    BY <1>6, <1>8, <1>15, <2>1, RetriesGrow
  <2>2. CASE ledger' = ledger
    BY <1>8, <2>2
  <2> QED
    BY <1>13, <2>1, <2>2
<1>16. \A h \in Heads(pending') : h[1] \notin Anonymous /\ (h[2] # 0 => LastPlan(ledger', h[1], h[2]))
  BY <1>8, <1>10, <1>14
<1> QED
  BY <1>7, <1>8, <1>10, <1>12, <1>14, <1>16 DEF StrandsOk

LEMMA StrandsStart == Init => StrandsInv
<1> SUFFICES ASSUME EmitterInit, Call!StrandsInit PROVE StrandsOk(ledger, phase, lost, pending, own1)
  BY DEF Init, StrandsInv
<1>1. TableOk(own1) /\ Heads(own1) = {}
  BY EmptyTable DEF Call!StrandsInit
<1>2. TableOk(pending) /\ Heads(pending) = {} /\ ledger = << >>
  BY EmptyTable DEF EmitterInit
<1> QED
  BY <1>1, <1>2, KeeperStarts DEF StrandsOk

LEMMA StrandsStep == StrandsInv /\ [Next]_vars => StrandsInv'
<1>1. CASE UNCHANGED vars
  <2>1. /\ ledger' = ledger /\ phase' = phase /\ lost' = lost /\ pending' = pending
        /\ own1' = own1 /\ adapter' = adapter
    BY <1>1 DEF vars, emitterVars
  <2> QED
    BY <2>1 DEF StrandsInv
<1>2. ASSUME StrandsOk(ledger, phase, lost, pending, own1), Call!StrandsNext
      PROVE  StrandsOk(ledger', phase', lost', pending', own1')
  <2>1. PICK c \in Calls, sealed \in BOOLEAN :
          \/ Call!OnBeforeToolCall(c, sealed)
          \/ \E outcome \in Call!StrandsOutcomes : \E output : Call!OnAfterToolCall(c, outcome, output, sealed)
    BY <1>2 DEF Call!StrandsNext
  <2> QED
    BY <1>2, <2>1, StrandsBefore, StrandsAfter
<1>3. ASSUME StrandsInv, Next PROVE StrandsInv'
  BY <1>2, <1>3 DEF StrandsInv, Next
<1> QED
  BY <1>1, <1>3

LEMMA StrandsHolds ==
  ASSUME StrandsInv, adapter = "strands"
  PROVE  CitationsAreTrue /\ OutcomesAreRecordedOnce
<1>1. KeeperOk(ledger, phase, lost, Heads(pending))
  BY DEF StrandsInv, StrandsOk
<1>2. ChainsPairTheSameCall /\ PriorsAreNotShared /\ OutcomesRecorded
  BY <1>1, KeeperHolds
<1>3. RetriesNameTheLastPlan
  <2> SUFFICES ASSUME NEW c \in Calls, NEW i \in PlansOf(c) \cup OutcomesOf(c),
                      NEW n \in MarkIds(i, "retry_of")
               PROVE  /\ n \in PlansOf(c) /\ n < i /\ \A k \in PlansOf(c) : ~(n < k /\ k < i)
                      /\ i \in OutcomesOf(c) => n = ledger[i].prior
    BY DEF RetriesNameTheLastPlan
  <2>1. PICK m \in ledger[i].marks : m[1] = "retry_of" /\ n = m[2]
    BY DEF MarkIds
  <2>2. /\ PlansOf(c) = PlansIn(ledger, c) /\ i \in DOMAIN ledger /\ ledger[i].call = c
        /\ i \in OutcomesOf(c) => ledger[i].status # "planned"
    BY DEF PlansOf, OutcomesOf, PlansIn, About, Sealed
  <2>3. LastPlanBefore(ledger, c, n, i) /\ (ledger[i].status # "planned" => n = ledger[i].prior)
    BY <2>1, <2>2 DEF StrandsInv, StrandsOk, RetryIsTrue
  <2> QED
    BY <2>2, <2>3 DEF LastPlanBefore
<1> QED
  BY <1>2, <1>3, OnlyItsOwn, AllTogether

-----------------------------------------------------------------------------
(* CrewAI: open plans are stacked by tool and arguments, and a plan is on   *)
(* the stack once.                                                          *)

StackOk(stack) ==
    /\ IsSeq(stack)
    /\ \A i \in DOMAIN stack : stack[i].val # 0
    /\ \A i, j \in DOMAIN stack : stack[i].val = stack[j].val => i = j

CrewOk(led, ph, lo, stack) ==
    /\ StackOk(stack)
    /\ DOMAIN ph = Calls /\ Pairs(TRUE, led, Heads(stack)) /\ Recorded(led, ph, lo)

CrewInv == adapter = "crewai" => CrewOk(ledger, phase, lost, pending)

LEMMA OldestIs ==
  ASSUME IsSeq(pending), NEW key, Call!WithKey(key) # {}
  PROVE  Call!OldestOf(key) \in DOMAIN pending /\ pending[Call!OldestOf(key)].key = key
<1>1. Call!WithKey(key) \subseteq DOMAIN pending /\ \A i \in DOMAIN pending : i \in Nat
  BY SeqFacts DEF Call!WithKey
<1>2. Call!WithKey(key) \subseteq Nat
  BY <1>1
<1>3. \E i \in Call!WithKey(key) : \A j \in Call!WithKey(key) : i <= j
  BY <1>2, LeastNat
<1>4. Call!OldestOf(key) \in Call!WithKey(key)
  BY <1>3 DEF Call!OldestOf
<1> QED
  BY <1>4 DEF Call!WithKey

LEMMA PartIsStack ==
  ASSUME NEW stack, StackOk(stack), NEW rest, NEW places, PartOf(rest, stack, places)
  PROVE  StackOk(rest) /\ Heads(rest) = HeadsAt(stack, places)
<1>1. IsSeq(rest) /\ Heads(rest) = HeadsAt(stack, places)
  BY PartHeads
<1>2. PICK f : /\ \A i \in DOMAIN rest : f[i] \in DOMAIN stack /\ rest[i] = stack[f[i]]
               /\ \A i, j \in DOMAIN rest : f[i] = f[j] => i = j
  BY PartHeads
<1>3. ASSUME NEW i \in DOMAIN rest PROVE rest[i].val # 0
  BY <1>2 DEF StackOk
<1>4. ASSUME NEW i \in DOMAIN rest, NEW j \in DOMAIN rest, rest[i].val = rest[j].val
      PROVE  i = j
  <2>1. f[i] \in DOMAIN stack /\ f[j] \in DOMAIN stack /\ stack[f[i]].val = stack[f[j]].val
    BY <1>2, <1>4
  <2>2. f[i] = f[j]
    BY <2>1 DEF StackOk
  <2> QED
    BY <2>2, <1>2
<1> QED
  BY <1>1, <1>3, <1>4 DEF StackOk

LEMMA StackGrows ==
  ASSUME NEW stack, StackOk(stack), NEW key, NEW id, id # 0, \A h \in Heads(stack) : h[2] # id
  PROVE  /\ StackOk(Append(stack, [key |-> key, val |-> id]))
         /\ Heads(Append(stack, [key |-> key, val |-> id])) = Heads(stack) \cup {<<key, id>>}
<1>1. PICK e, next : e = [key |-> key, val |-> id] /\ next = Append(stack, e)
  OBVIOUS
<1>2. Grown(next, stack, e) /\ e.key = key /\ e.val = id
  BY <1>1, OneMore DEF StackOk
<1>3. PICK new : new = Len(stack) + 1
  OBVIOUS
<1>4. /\ IsSeq(next) /\ DOMAIN next = DOMAIN stack \cup {new} /\ next[new] = e
      /\ \A i \in DOMAIN stack : next[i] = stack[i] /\ i # new
  BY <1>2, <1>3 DEF Grown
<1>5. ASSUME NEW i \in DOMAIN stack PROVE stack[i].val # id
  <2>1. <<stack[i].key, stack[i].val>> \in Heads(stack) /\ <<stack[i].key, stack[i].val>>[2] = stack[i].val
    BY DEF Heads
  <2> QED
    BY <2>1
<1>6. StackOk(next)
  BY <1>2, <1>4, <1>5 DEF StackOk
<1>7. Heads(next) = Heads(stack) \cup {<<key, id>>}
  BY <1>2, <1>4 DEF Heads
<1> QED
  BY <1>1, <1>6, <1>7

\* The stack with a new plan on it.
LEMMA PlanStackedIs ==
  ASSUME StackOk(pending), NEW key, NEW id, id # 0, \A h \in Heads(pending) : h[2] # id
  PROVE  /\ StackOk(Call!PlanStacked(key, id))
         /\ \A h \in Heads(Call!PlanStacked(key, id)) : h \in Heads(pending) \/ h = <<key, id>>
<1>1. PICK kept : kept = IF Cardinality(Call!WithKey(key)) < MaxPending THEN pending
                         ELSE LeaveOut(pending, Call!OldestOf(key))
  OBVIOUS
<1>2. Call!PlanStacked(key, id) = Append(kept, [key |-> key, val |-> id])
  BY <1>1, CallEmitter DEF Call!PlanStacked, Call!Cardinality, Cardinality, Call!LeaveOut, LeaveOut
<1>3. StackOk(kept) /\ Heads(kept) \subseteq Heads(pending)
  <2>1. CASE Cardinality(Call!WithKey(key)) < MaxPending
    BY <1>1, <2>1
  <2>2. CASE ~(Cardinality(Call!WithKey(key)) < MaxPending)
    <3>1. Call!WithKey(key) # {}
      BY <2>2, FS_EmptySet, EmitterAssumption
    <3>2. PICK place : place = Call!OldestOf(key)
      OBVIOUS
    <3>3. place \in DOMAIN pending
      BY <3>1, <3>2, OldestIs DEF StackOk
    <3>4. PartOf(LeaveOut(pending, place), pending, DOMAIN pending \ {place})
      BY <3>3, LeaveOutIs DEF StackOk
    <3>5. StackOk(kept) /\ Heads(kept) = HeadsAt(pending, DOMAIN pending \ {place})
      BY <1>1, <2>2, <3>2, <3>4, PartIsStack
    <3> QED
      BY <3>5 DEF HeadsAt, Heads
  <2> QED
    BY <2>1, <2>2
<1>4. \A h \in Heads(kept) : h[2] # id
  BY <1>3
<1> QED
  BY <1>2, <1>3, <1>4, StackGrows

\* What is taken from the stack for a key, and what stays.
LEMMA PopPlannedIs ==
  ASSUME StackOk(pending), NEW key
  PROVE  /\ StackOk(Call!PopPlanned(key).rest)
         /\ \/ Call!PopPlanned(key).plan = 0
            \/ \E h \in Heads(pending) : h[1] = key /\ h[2] = Call!PopPlanned(key).plan
         /\ \A h \in Heads(Call!PopPlanned(key).rest) : h \in Heads(pending) /\ h[2] # Call!PopPlanned(key).plan
<1>1. CASE Call!WithKey(key) = {}
  <2>1. Call!PopPlanned(key).plan = 0 /\ Call!PopPlanned(key).rest = pending
    BY <1>1 DEF Call!PopPlanned
  <2>2. ASSUME NEW h \in Heads(pending) PROVE h[2] # 0
    BY DEF Heads, StackOk
  <2> QED
    BY <2>1, <2>2
<1>2. CASE Call!WithKey(key) # {}
  <2>1. PICK place : place = Call!OldestOf(key)
    OBVIOUS
  <2>2. place \in DOMAIN pending /\ pending[place].key = key
    BY <1>2, <2>1, OldestIs DEF StackOk
  <2>3. Call!PopPlanned(key).plan = pending[place].val /\ Call!PopPlanned(key).rest = LeaveOut(pending, place)
    BY <1>2, <2>1 DEF Call!PopPlanned, Call!LeaveOut, LeaveOut
  <2>4. PartOf(LeaveOut(pending, place), pending, DOMAIN pending \ {place})
    BY <2>2, LeaveOutIs DEF StackOk
  <2>5. /\ StackOk(LeaveOut(pending, place))
        /\ Heads(LeaveOut(pending, place)) = HeadsAt(pending, DOMAIN pending \ {place})
    BY <2>4, PartIsStack
  <2>6. ASSUME NEW h \in HeadsAt(pending, DOMAIN pending \ {place})
        PROVE  h \in Heads(pending) /\ h[2] # pending[place].val
    <3>1. PICK k \in DOMAIN pending \ {place} : h = <<pending[k].key, pending[k].val>>
      BY <2>6 DEF HeadsAt
    <3>2. pending[k].val # pending[place].val
      BY <2>2, <3>1 DEF StackOk
    <3> QED
      BY <3>1, <3>2 DEF Heads
  <2>7. \E h \in Heads(pending) : h[1] = key /\ h[2] = pending[place].val
    <3>1. <<key, pending[place].val>> \in Heads(pending)
      BY <2>2 DEF Heads
    <3>2. <<key, pending[place].val>>[1] = key /\ <<key, pending[place].val>>[2] = pending[place].val
      OBVIOUS
    <3> QED
      BY <3>1, <3>2
  <2> QED
    BY <2>3, <2>5, <2>6, <2>7
<1> QED
  BY <1>1, <1>2

LEMMA CrewStarts ==
  ASSUME CrewOk(ledger, phase, lost, pending), NEW c \in Calls, NEW replaying \in BOOLEAN, NEW sealed \in BOOLEAN,
         Call!OnToolStarted(c, replaying, sealed)
  PROVE  CrewOk(ledger', phase', lost', pending')
<1>1. PICK capsule, id, key : capsule = Capsule(c, "planned", FALSE, 0, {}) /\ id = NextId /\ key = Signature[c]
  OBVIOUS
<1>2. capsule.call = c /\ capsule.prior = 0 /\ capsule.status = "planned"
  BY <1>1 DEF Capsule
<1>3. /\ Becomes(c, "new", "running")
      /\ \/ UNCHANGED <<ledger, lost, pending>>
         \/ Seal(capsule, sealed) /\ pending' = IF sealed THEN Call!PlanStacked(key, id) ELSE pending
  BY <1>1, CallEmitter DEF Call!OnToolStarted
<1>4. /\ StackOk(pending) /\ DOMAIN phase = Calls /\ Pairs(TRUE, ledger, Heads(pending))
      /\ Recorded(ledger, phase, lost) /\ IsSeq(ledger) /\ "running" \notin Ends
  BY DEF CrewOk, Pairs, Ends
<1>5. Moved(phase', phase, c, "running")
  BY <1>3, <1>4, BecomesMoves
<1>6. \A d \in Calls : d # c => phase'[d] = phase[d]
  BY <1>5 DEF Moved
<1>7. phase'[c] \notin Ends /\ DOMAIN phase' = Calls
  BY <1>4, <1>5 DEF Moved
<1>8. CASE UNCHANGED <<ledger, lost, pending>>
  <2>1. Recorded(ledger, phase', lost)
    BY <1>4, <1>6, <1>7, RecordedStays
  <2> QED
    BY <1>4, <1>7, <1>8, <2>1 DEF CrewOk
<1>9. CASE Seal(capsule, sealed) /\ pending' = IF sealed THEN Call!PlanStacked(key, id) ELSE pending
  <2>1. /\ Wrote(ledger', lost', ledger, lost, capsule)
        /\ sealed => Grown(ledger', ledger, capsule)
        /\ ~sealed => ledger' = ledger
    BY <1>4, <1>9, SealWrites
  <2>2. Recorded(ledger', phase', lost')
    BY <1>2, <1>4, <1>6, <1>7, <2>1, RecordedStep
  <2>3. id # 0 /\ \A h \in Heads(pending) : h[2] # id
    <3>1. Len(ledger) \in Nat /\ DOMAIN ledger = 1..Len(ledger)
      BY <1>4, SeqFacts
    <3>2. id = Len(ledger) + 1 /\ \A h \in Heads(pending) : h[2] # 0 => h[2] \in DOMAIN ledger
      BY <1>1, <1>4 DEF NextId, Pairs
    <3>3. id # 0 /\ id \notin DOMAIN ledger
      BY <3>1, <3>2
    <3> QED
      BY <3>2, <3>3
  <2>4. /\ StackOk(pending')
        /\ \A h \in Heads(pending') : h \in Heads(pending) \/ (sealed /\ h = <<key, id>>)
    <3>1. CASE sealed
      BY <1>4, <1>9, <2>3, <3>1, PlanStackedIs
    <3>2. CASE ~sealed
      BY <1>4, <1>9, <3>2
    <3> QED
      BY <3>1, <3>2
  <2>5. Reopened(TRUE, Heads(pending'), Heads(pending), ledger', ledger, capsule)
    <3> SUFFICES ASSUME NEW h \in Heads(pending')
                 PROVE  \/ h[2] = 0
                        \/ h \in Heads(pending) /\ (h[2] # capsule.prior \/ ledger' = ledger)
                        \/ /\ Grown(ledger', ledger, capsule)
                           /\ h[1] = Name(TRUE, capsule.call) /\ h[2] = Len(ledger) + 1
      BY DEF Reopened
    <3>1. <<key, id>>[1] = key /\ <<key, id>>[2] = id
      OBVIOUS
    <3> QED
      BY <1>1, <1>2, <2>1, <2>4, <3>1 DEF Name, NextId
  <2>6. Pairs(TRUE, ledger', Heads(pending'))
    BY <1>2, <1>4, <2>1, <2>5, PairsStep
  <2> QED
    BY <1>7, <2>2, <2>4, <2>6 DEF CrewOk
<1> QED
  BY <1>3, <1>8, <1>9

LEMMA CrewEnds ==
  ASSUME CrewOk(ledger, phase, lost, pending), NEW c \in Calls, NEW replaying \in BOOLEAN, NEW sealed \in BOOLEAN,
         NEW end, NEW status, status # "planned", NEW output,
         Call!CrewOutcome(c, end, status, output, replaying, sealed)
  PROVE  CrewOk(ledger', phase', lost', pending')
<1>1. PICK key : key = Signature[c]
  OBVIOUS
<1>2. PICK popped, next : popped = Call!PopPlanned(key) /\ next = IF replaying THEN "replayed" ELSE end
  OBVIOUS
<1>3. PICK capsule : capsule = Capsule(c, status, output, popped.plan, {})
  OBVIOUS
<1>4. capsule.call = c /\ capsule.prior = popped.plan /\ capsule.status # "planned"
  BY <1>3 DEF Capsule
<1>5. /\ Becomes(c, "running", next)
      /\ \/ next = "replayed" /\ UNCHANGED <<ledger, lost, pending>>
         \/ Seal(capsule, sealed) /\ pending' = popped.rest
  BY <1>1, <1>2, <1>3, CallEmitter DEF Call!CrewOutcome
<1>6. /\ StackOk(pending) /\ DOMAIN phase = Calls /\ Pairs(TRUE, ledger, Heads(pending))
      /\ Recorded(ledger, phase, lost) /\ IsSeq(ledger)
  BY DEF CrewOk, Pairs
<1>7. Moved(phase', phase, c, next)
  BY <1>5, <1>6, BecomesMoves
<1>8. /\ \A d \in Calls : d # c => phase'[d] = phase[d]
      /\ phase'[c] = next /\ DOMAIN phase' = Calls
  BY <1>7 DEF Moved
<1>9. CASE next = "replayed" /\ UNCHANGED <<ledger, lost, pending>>
  <2>1. Recorded(ledger, phase', lost)
    BY <1>6, <1>8, <1>9, RecordedStays DEF Ends
  <2> QED
    BY <1>6, <1>8, <1>9, <2>1 DEF CrewOk
<1>10. CASE Seal(capsule, sealed) /\ pending' = popped.rest
  <2>1. Wrote(ledger', lost', ledger, lost, capsule)
    BY <1>6, <1>10, SealWrites
  <2>2. Recorded(ledger', phase', lost')
    BY <1>4, <1>6, <1>8, <2>1, RecordedStep
  <2>3. /\ StackOk(pending')
        /\ capsule.prior = 0 \/ \E h \in Heads(pending) : h[1] = key /\ h[2] = capsule.prior
        /\ \A h \in Heads(pending') : h \in Heads(pending) /\ h[2] # capsule.prior
    BY <1>2, <1>4, <1>6, <1>10, PopPlannedIs
  <2>4. Reopened(TRUE, Heads(pending'), Heads(pending), ledger', ledger, capsule)
    BY <2>3 DEF Reopened
  <2>5. Pairs(TRUE, ledger', Heads(pending'))
    <3>1. Name(TRUE, capsule.call) = key
      BY <1>1, <1>4 DEF Name
    <3> QED
      BY <1>6, <2>1, <2>3, <2>4, <3>1, PairsStep
  <2> QED
    BY <1>8, <2>2, <2>3, <2>5 DEF CrewOk
<1> QED
  BY <1>5, <1>9, <1>10

LEMMA CrewNotes ==
  ASSUME CrewOk(ledger, phase, lost, pending), NEW sealed \in BOOLEAN, Call!SealNote(sealed),
         phase' = phase, pending' = pending
  PROVE  CrewOk(ledger', phase', lost', pending')
<1>1. PICK capsule : capsule = Capsule(NoCall, "none", FALSE, 0, {})
  OBVIOUS
<1>2. capsule.call = NoCall /\ capsule.prior = 0 /\ Seal(capsule, sealed) /\ NoCall \notin Calls
  BY <1>1, CallEmitter, EmitterAssumption DEF Capsule
<1>3. /\ StackOk(pending) /\ DOMAIN phase = Calls /\ Pairs(TRUE, ledger, Heads(pending))
      /\ Recorded(ledger, phase, lost) /\ IsSeq(ledger)
  BY DEF CrewOk, Pairs
<1>4. Wrote(ledger', lost', ledger, lost, capsule)
  BY <1>2, <1>3, SealWrites
<1>5. Recorded(ledger', phase, lost')
  BY <1>2, <1>3, <1>4, RecordedStep
<1>6. Reopened(TRUE, Heads(pending), Heads(pending), ledger', ledger, capsule)
  BY <1>2 DEF Reopened
<1>7. Pairs(TRUE, ledger', Heads(pending))
  BY <1>2, <1>3, <1>4, <1>6, PairsStep
<1> QED
  BY <1>3, <1>5, <1>7 DEF CrewOk

LEMMA CrewStart == Init => CrewInv
<1> SUFFICES ASSUME EmitterInit PROVE CrewOk(ledger, phase, lost, pending)
  BY DEF Init, CrewInv
<1>1. /\ DOMAIN phase = Calls /\ Recorded(ledger, phase, lost)
      /\ Pairs(TRUE, ledger, Heads(pending))
  BY NothingYet
<1>2. StackOk(pending)
  BY EmptyTable DEF StackOk, EmitterInit
<1> QED
  BY <1>1, <1>2 DEF CrewOk

LEMMA CrewStep == CrewInv /\ [Next]_vars => CrewInv'
<1>1. CASE UNCHANGED vars
  <2>1. ledger' = ledger /\ phase' = phase /\ lost' = lost /\ pending' = pending /\ adapter' = adapter
    BY <1>1 DEF vars, emitterVars
  <2> QED
    BY <2>1 DEF CrewInv
<1>2. ASSUME CrewOk(ledger, phase, lost, pending), Call!CrewNext
      PROVE  CrewOk(ledger', phase', lost', pending')
  <2>1. PICK yes : yes = TRUE
    OBVIOUS
  <2>2. PICK replaying \in BOOLEAN, sealed \in BOOLEAN :
          \/ Call!SealNote(sealed) /\ phase' = phase /\ pending' = pending
          \/ \E c \in Calls :
              \/ Call!OnToolStarted(c, replaying, sealed)
              \/ Call!CrewOutcome(c, "raised", "failed", yes, replaying, sealed)
              \/ \E output : Call!CrewOutcome(c, "done", "confirmed", output, replaying, sealed)
    BY <1>2, <2>1 DEF Call!CrewNext, Call!OnCrewKickoff, Call!OnLlmCall, Call!OnToolError, Call!OnToolFinished
  <2>3. CASE Call!SealNote(sealed) /\ phase' = phase /\ pending' = pending
    BY <1>2, <2>3, CrewNotes
  <2>4. ASSUME NEW c \in Calls, Call!OnToolStarted(c, replaying, sealed)
        PROVE  CrewOk(ledger', phase', lost', pending')
    BY <1>2, <2>4, CrewStarts
  <2>5. ASSUME NEW c \in Calls, NEW end, NEW status, status # "planned", NEW output,
               Call!CrewOutcome(c, end, status, output, replaying, sealed)
        PROVE  CrewOk(ledger', phase', lost', pending')
    BY <1>2, <2>5, CrewEnds
  <2> QED
    BY <2>2, <2>3, <2>4, <2>5
<1>3. ASSUME CrewInv, Next PROVE CrewInv'
  BY <1>2, <1>3 DEF CrewInv, Next
<1> QED
  BY <1>1, <1>3

LEMMA CrewHolds ==
  ASSUME CrewInv, adapter = "crewai"
  PROVE  CitationsAreTrue /\ OutcomesAreRecordedOnce
<1>1. Pairs(TRUE, ledger, Heads(pending)) /\ Recorded(ledger, phase, lost)
  BY DEF CrewInv, CrewOk
<1>2. ChainsPairTheSameCall
  BY <1>1 DEF Pairs, Name, ChainsPairTheSameCall, Sealed
<1>3. PriorsAreNotShared
  BY <1>1 DEF Pairs, PriorsAreNotShared, Sealed
<1>4. OutcomesRecorded
  BY <1>1, RecordedHolds
<1> QED
  BY <1>2, <1>3, <1>4, OnlyItsOwn, AllTogether

-----------------------------------------------------------------------------
(* The wrappers of MCP, Dapr, LangChain and Hermes: no record cites another *)

\* The toolsets a record names are on disk, or could not be written.
NamesWritten(capsule, written) == \A m \in capsule.marks : m[1] = "toolset" => m[2] \in written

GatedOk(led, ph) ==
    \A c \in Calls \cap Gated : ph[c] # "started" /\ (ph[c] = "done" => OutcomesIn(led, c) # {})

WrappersOk(led, ph, lo, tools, written, on) ==
    /\ KeeperOk(led, ph, lo, {})
    /\ GatedOk(led, ph)
    /\ on => /\ tools = 0 \/ tools \in written
             /\ \A i \in DOMAIN led : NamesWritten(led[i], written)

WrappersInv == adapter = "wrappers" => WrappersOk(ledger, phase, lost, own1, own2 \cup own3, include)

\* A record about a call is made, which ends it or does not.
LEMMA WrapperSeals ==
  ASSUME NEW written, WrappersOk(ledger, phase, lost, own1, written, include), NEW c \in Calls, NEW sealed \in BOOLEAN,
         NEW capsule, NEW next, Moved(phase', phase, c, next), Seal(capsule, sealed),
         capsule.call = c, capsule.prior = 0, capsule.status # "planned", include' = include, own1' = own1,
         capsule.marks = {} \/ capsule.marks = Record!ToolsetMark,
         c \in Gated => next # "started" /\ (next = "done" => sealed)
  PROVE  WrappersOk(ledger', phase', lost', own1', written, include')
<1>1. KeeperOk(ledger', phase', lost', {})
  <2>1. PICK open : open = {}
    OBVIOUS
  <2>2. KeeperOk(ledger, phase, lost, open)
    BY <2>1 DEF WrappersOk
  <2>3. KeeperOk(ledger', phase', lost', open)
    BY <2>1, <2>2, PlanKept
  <2> QED
    BY <2>1, <2>3
<1>2. IsSeq(ledger)
  BY DEF WrappersOk, KeeperOk, Pairs
<1>3. /\ Wrote(ledger', lost', ledger, lost, capsule)
      /\ sealed => Grown(ledger', ledger, capsule)
  BY <1>2, SealWrites
<1>4. GatedOk(ledger', phase')
  <2> SUFFICES ASSUME NEW d \in Calls \cap Gated
               PROVE  phase'[d] # "started" /\ (phase'[d] = "done" => OutcomesIn(ledger', d) # {})
    BY DEF GatedOk
  <2>1. CASE d = c
    <3>1. phase'[d] = next
      BY <2>1 DEF Moved
    <3>2. ASSUME sealed PROVE OutcomesIn(ledger', c) # {}
      <4>1. Grown(ledger', ledger, capsule)
        BY <1>3, <3>2
      <4>2. Len(ledger) + 1 \in DOMAIN ledger' /\ ledger'[Len(ledger) + 1] = capsule
        BY <4>1 DEF Grown
      <4> QED
        BY <4>2 DEF OutcomesIn, About
    <3> QED
      BY <2>1, <3>1, <3>2
  <2>2. CASE d # c
    <3>1. phase'[d] = phase[d]
      BY <2>2 DEF Moved
    <3>2. About(ledger', d) = About(ledger, d) /\ \A i \in About(ledger, d) : ledger'[i] = ledger[i]
      BY <1>3, <2>2, OthersStay DEF Untouched
    <3> QED
      BY <3>1, <3>2 DEF WrappersOk, GatedOk, OutcomesIn
  <2> QED
    BY <2>1, <2>2
<1>5. ASSUME include
      PROVE  /\ own1' = 0 \/ own1' \in written
             /\ \A i \in DOMAIN ledger' : NamesWritten(ledger'[i], written)
  <2>1. /\ own1 = 0 \/ own1 \in written
        /\ \A i \in DOMAIN ledger : NamesWritten(ledger[i], written)
    BY <1>5 DEF WrappersOk
  <2>2. NamesWritten(capsule, written)
    <3>1. \A m \in capsule.marks : own1 # 0 /\ m = <<"toolset", own1>>
      BY DEF Record!ToolsetMark
    <3>2. <<"toolset", own1>>[2] = own1
      OBVIOUS
    <3> QED
      BY <2>1, <3>1, <3>2 DEF NamesWritten
  <2> QED
    BY <1>3, <2>1, <2>2 DEF Wrote, Grown
<1> QED
  BY <1>1, <1>4, <1>5 DEF WrappersOk

\* A call moves on with no record and does not end.
LEMMA WrapperRests ==
  ASSUME NEW written, WrappersOk(ledger, phase, lost, own1, written, include), NEW c \in Calls,
         NEW next, next \notin Ends, next = "started" => c \notin Gated,
         Moved(phase', phase, c, next), ledger' = ledger, lost' = lost, include' = include, own1' = own1
  PROVE  WrappersOk(ledger', phase', lost', own1', written, include')
<1>1. KeeperOk(ledger', phase', lost', {})
  BY KeeperRests DEF WrappersOk
<1>2. GatedOk(ledger', phase')
  BY DEF WrappersOk, GatedOk, Moved, Ends
<1> QED
  BY <1>1, <1>2 DEF WrappersOk

\* A toolset is seen, and its manifest is written or cannot be.
LEMMA ToolsetSeen ==
  ASSUME WrappersOk(ledger, phase, lost, own1, own2 \cup own3, include), NEW t, NEW writes \in BOOLEAN,
         Record!CaptureToolset(t, writes)
  PROVE  WrappersOk(ledger', phase', lost', own1', own2' \cup own3', include')
<1>1. /\ own1' = t /\ UNCHANGED emitterVars
      /\ own2 \subseteq own2' /\ own3 \subseteq own3'
      /\ include => t = own1 \/ t \in own2' \cup own3'
  BY DEF Record!CaptureToolset, Record!emitterVars, emitterVars
<1>2. UNCHANGED <<ledger, phase, lost, include>>
  BY <1>1 DEF emitterVars
<1>3. PICK before, after : before = own2 \cup own3 /\ after = own2' \cup own3'
  OBVIOUS
<1>4. before \subseteq after /\ (include => t = own1 \/ t \in after)
  BY <1>1, <1>3
<1>5. /\ KeeperOk(ledger, phase, lost, {}) /\ GatedOk(ledger, phase)
      /\ include => own1 = 0 \/ own1 \in before
      /\ include => \A i \in DOMAIN ledger : NamesWritten(ledger[i], before)
  BY <1>3 DEF WrappersOk
<1>6. include => \A i \in DOMAIN ledger : NamesWritten(ledger[i], after)
  BY <1>4, <1>5 DEF NamesWritten
<1>7. WrappersOk(ledger', phase', lost', t, after, include')
  BY <1>2, <1>4, <1>5, <1>6 DEF WrappersOk
<1> QED
  BY <1>1, <1>3, <1>7

LEMMA WrappersNextKeeps ==
  ASSUME WrappersOk(ledger, phase, lost, own1, own2 \cup own3, include), Record!WrapperNext
  PROVE  WrappersOk(ledger', phase', lost', own1', own2' \cup own3', include')
<1>1. CASE \E t \in Toolsets, writes \in BOOLEAN : Record!CaptureToolset(t, writes)
  BY <1>1, ToolsetSeen
<1>2. PICK written : written = own2 \cup own3
  OBVIOUS
<1>3. WrappersOk(ledger, phase, lost, own1, written, include) /\ DOMAIN phase = Calls
  BY <1>2 DEF WrappersOk, KeeperOk
<1> DEFINE Same == own1' = own1 /\ own2' = own2 /\ own3' = own3 /\ include' = include
<1>4. ASSUME NEW c \in Calls, NEW now, NEW next, next \notin Ends, next = "started" => c \notin Gated,
             Becomes(c, now, next), ledger' = ledger, lost' = lost, Same
      PROVE  WrappersOk(ledger', phase', lost', own1', own2' \cup own3', include')
  <2>1. Moved(phase', phase, c, next)
    BY <1>3, <1>4, BecomesMoves
  <2>2. WrappersOk(ledger', phase', lost', own1', written, include')
    BY <1>3, <1>4, <2>1, WrapperRests
  <2> QED
    BY <1>2, <1>4, <2>2
<1>5. ASSUME NEW c \in Calls, NEW next, NEW sealed \in BOOLEAN, NEW status, status # "planned", NEW output, NEW marks,
             Moved(phase', phase, c, next), Seal(Capsule(c, status, output, 0, marks), sealed), Same,
             marks = {} \/ marks = Record!ToolsetMark,
             c \in Gated => next # "started" /\ (next = "done" => sealed)
      PROVE  WrappersOk(ledger', phase', lost', own1', own2' \cup own3', include')
  <2>1. PICK capsule : capsule = Capsule(c, status, output, 0, marks)
    OBVIOUS
  <2>2. capsule.call = c /\ capsule.prior = 0 /\ capsule.status = status /\ capsule.marks = marks
    BY <2>1 DEF Capsule
  <2>3. Seal(capsule, sealed)
    BY <1>5, <2>1
  <2>4. WrappersOk(ledger', phase', lost', own1', written, include')
    BY <1>3, <1>5, <2>2, <2>3, WrapperSeals
  <2> QED
    BY <1>2, <1>5, <2>4
<1>6. ASSUME NEW c \in Calls,
             Record!ToolRuns(c) \/ Record!ToolRaises(c) \/ (c \notin Gated /\ Record!OnToolStart(c)) \/ Record!OnToolError(c)
      PROVE  WrappersOk(ledger', phase', lost', own1', own2' \cup own3', include')
  <2>1. /\ ledger' = ledger /\ lost' = lost /\ Same
        /\ \/ Becomes(c, "new", "running") \/ Becomes(c, "running", "gone") \/ Becomes(c, "started", "gone")
           \/ c \notin Gated /\ Becomes(c, "new", "started")
    BY <1>6, RecordEmitter DEF Record!ToolRuns, Record!ToolRaises, Record!OnToolStart, Record!OnToolError,
                               Record!wrapperVars
  <2>2. "running" \notin Ends /\ "gone" \notin Ends /\ "started" \notin Ends
    BY DEF Ends
  <2> QED
    BY <2>1, <2>2, <1>4
<1>7. PICK yes : yes = TRUE
  OBVIOUS
<1>8. ASSUME NEW c \in Calls, NEW sealed \in BOOLEAN, Record!SafeEmit(c, sealed) \/ Record!EmitAfter(c, sealed)
      PROVE  WrappersOk(ledger', phase', lost', own1', own2' \cup own3', include')
  <2>1. PICK marks : (marks = {} \/ marks = Record!ToolsetMark)
                     /\ Seal(Capsule(c, "dispatched", yes, 0, marks), sealed)
    BY <1>7, <1>8, RecordEmitter DEF Record!SafeEmit, Record!EmitAfter
  <2>2. c \notin Gated /\ Becomes(c, "running", "done") /\ Same
    BY <1>8, RecordEmitter DEF Record!SafeEmit, Record!EmitAfter, Record!wrapperVars
  <2>3. Moved(phase', phase, c, "done")
    BY <1>3, <2>2, BecomesMoves
  <2> QED
    BY <2>1, <2>2, <2>3, <1>5
<1>9. ASSUME NEW c \in Calls, NEW sealed \in BOOLEAN, Record!OnToolEnd(c, sealed)
      PROVE  WrappersOk(ledger', phase', lost', own1', own2' \cup own3', include')
  <2>1. PICK marks, next : marks = {} /\ next = IF sealed THEN "done" ELSE "raised"
    OBVIOUS
  <2>2. Becomes(c, "started", next) /\ Same /\ Seal(Capsule(c, "dispatched", yes, 0, marks), sealed)
    BY <1>7, <1>9, <2>1, RecordEmitter DEF Record!OnToolEnd, Record!wrapperVars
  <2>3. Moved(phase', phase, c, next) /\ phase[c] = "started"
    BY <1>3, <2>2, BecomesMoves
  <2>4. c \notin Gated
    BY <1>3, <2>3 DEF WrappersOk, GatedOk
  <2> QED
    BY <2>1, <2>2, <2>3, <2>4, <1>5
<1>10. ASSUME NEW c \in Calls, NEW sealed \in BOOLEAN, NEW accept \in BOOLEAN, c \notin Gated, Record!RecordHitl(c, accept, sealed)
       PROVE  WrappersOk(ledger', phase', lost', own1', own2' \cup own3', include')
  <2>1. PICK marks, status, next : /\ marks = {} /\ status = IF accept THEN "dispatched" ELSE "blocked"
                                   /\ next = IF sealed THEN IF accept THEN "running" ELSE "refused" ELSE "new"
    OBVIOUS
  <2>2. /\ phase[c] = "new" /\ Same /\ Seal(Capsule(c, status, yes, 0, marks), sealed)
        /\ phase' = IF sealed THEN [phase EXCEPT ![c] = IF accept THEN "running" ELSE "refused"] ELSE phase
    BY <1>7, <1>10, <2>1, RecordEmitter DEF Record!RecordHitl, Record!wrapperVars
  <2>3. Moved(phase', phase, c, next)
    BY <1>3, <2>1, <2>2 DEF Moved
  <2>4. status # "planned"
    BY <2>1
  <2> QED
    BY <1>10, <2>1, <2>2, <2>3, <2>4, <1>5
<1>11. ASSUME NEW c \in Calls, NEW sealed \in BOOLEAN, NEW passed \in BOOLEAN, NEW escalates \in BOOLEAN,
              Record!EmitWithGate(c, passed, escalates, sealed)
       PROVE  WrappersOk(ledger', phase', lost', own1', own2' \cup own3', include')
  <2>1. PICK marks, status, next : /\ marks = Record!ToolsetMark /\ status = IF passed THEN "dispatched" ELSE "blocked"
                                   /\ next = IF sealed THEN "done" ELSE "raised"
    OBVIOUS
  <2>2. /\ Same
        /\ \/ Seal(Capsule(c, status, yes, 0, marks), sealed) /\ Becomes(c, "running", next)
           \/ Becomes(c, "running", "refused") /\ ledger' = ledger /\ lost' = lost
    BY <1>7, <1>11, <2>1, RecordEmitter DEF Record!EmitWithGate, Record!GateAndEmit, Record!wrapperVars
  <2>3. CASE Becomes(c, "running", "refused") /\ ledger' = ledger /\ lost' = lost
    <3>1. "refused" \notin Ends
      BY DEF Ends
    <3> QED
      BY <2>2, <2>3, <3>1, <1>4
  <2>4. CASE Seal(Capsule(c, status, yes, 0, marks), sealed) /\ Becomes(c, "running", next)
    <3>1. Moved(phase', phase, c, next)
      BY <1>3, <2>4, BecomesMoves
    <3>2. status # "planned" /\ next # "started" /\ (next = "done" => sealed)
      BY <2>1
    <3> QED
      BY <2>1, <2>2, <2>4, <3>1, <3>2, <1>5
  <2> QED
    BY <2>2, <2>3, <2>4
<1> HIDE DEF Same
<1> QED
  BY <1>1, <1>6, <1>8, <1>9, <1>10, <1>11 DEF Record!WrapperNext

LEMMA WrappersStart == Init => WrappersInv
<1> SUFFICES ASSUME EmitterInit, Record!WrapperInit PROVE WrappersOk(ledger, phase, lost, own1, own2 \cup own3, include)
  BY DEF Init, WrappersInv
<1>1. own1 = 0
  BY DEF Record!WrapperInit
<1>2. KeeperOk(ledger, phase, lost, {}) /\ DOMAIN ledger = {} /\ \A c \in Calls : phase[c] = "new"
  BY KeeperStarts
<1> QED
  BY <1>1, <1>2 DEF WrappersOk, GatedOk

LEMMA WrappersStep == WrappersInv /\ [Next]_vars => WrappersInv'
<1>1. CASE UNCHANGED vars
  <2>1. /\ ledger' = ledger /\ phase' = phase /\ lost' = lost /\ include' = include
        /\ own1' = own1 /\ own2' = own2 /\ own3' = own3 /\ adapter' = adapter
    BY <1>1 DEF vars, emitterVars
  <2> QED
    BY <2>1 DEF WrappersInv, WrappersOk
<1>2. ASSUME WrappersInv, Next PROVE WrappersInv'
  BY <1>2, WrappersNextKeeps DEF WrappersInv, Next
<1> QED
  BY <1>1, <1>2

LEMMA WrappersHolds ==
  ASSUME WrappersInv, adapter = "wrappers"
  PROVE  CitationsAreTrue /\ OutcomesAreRecordedOnce
<1>1. WrappersOk(ledger, phase, lost, own1, own2 \cup own3, include)
  BY DEF WrappersInv
<1>2. ChainsPairTheSameCall /\ PriorsAreNotShared /\ OutcomesRecorded
  BY <1>1, KeeperHolds DEF WrappersOk
<1>3. GatedCallsAreRecorded
  <2> SUFFICES ASSUME NEW c \in Gated, phase[c] = "done" PROVE OutcomesOf(c) # {}
    BY DEF GatedCallsAreRecorded
  <2> QED
    BY <1>1, AdapterAssumption DEF WrappersOk, GatedOk, OutcomesIn, About, OutcomesOf, Sealed
<1>4. ManifestsBehindDigests
  BY <1>1 DEF WrappersOk, NamesWritten, ManifestsBehindDigests, MarkIds, Sealed
<1> QED
  BY <1>2, <1>3, <1>4, OnlyItsOwn, AllTogether

-----------------------------------------------------------------------------
(* OTel: what a backfill knows is what is in the ledger                     *)

SourceMark == {<<"source", 0>>}
FromSource(led) == {i \in DOMAIN led : led[i].marks = SourceMark}
SourcesIn(led) == {Signature[led[i].call] : i \in FromSource(led)}

OtelOk(led, known, line, unsealed) ==
    /\ Pairs(FALSE, led, {})
    /\ \A i \in DOMAIN led : led[i].marks \in {{}, SourceMark}
    /\ \A i, j \in FromSource(led) : Signature[led[i].call] = Signature[led[j].call] => i = j
    /\ line \in Nat
    /\ line # 0 => /\ known = SourcesIn(led)
                   /\ \A n \in DOMAIN File \ unsealed :
                          n < line /\ File[n] \in Effects => Signature[File[n]] \in known

OtelInv == adapter = "otel" => OtelOk(ledger, own1, own2, own3)

\* A record is made that cites nothing, of a source or of none.
LEMMA SourcesGrow ==
  ASSUME NEW led, NEW led2, NEW capsule, Grown(led2, led, capsule),
         \A i \in DOMAIN led : led[i].marks \in {{}, SourceMark}, capsule.marks \in {{}, SourceMark},
         \A i, j \in FromSource(led) : Signature[led[i].call] = Signature[led[j].call] => i = j,
         capsule.marks = SourceMark => Signature[capsule.call] \notin SourcesIn(led)
  PROVE  /\ \A i \in DOMAIN led2 : led2[i].marks \in {{}, SourceMark}
         /\ \A i, j \in FromSource(led2) : Signature[led2[i].call] = Signature[led2[j].call] => i = j
         /\ capsule.marks = {} => SourcesIn(led2) = SourcesIn(led)
         /\ capsule.marks = SourceMark => SourcesIn(led2) = SourcesIn(led) \cup {Signature[capsule.call]}
<1>1. PICK new : new = Len(led) + 1
  OBVIOUS
<1>2. /\ DOMAIN led2 = DOMAIN led \cup {new} /\ led2[new] = capsule
      /\ \A i \in DOMAIN led : led2[i] = led[i] /\ i # new
  BY <1>1 DEF Grown
<1>3. SourceMark # {}
  BY DEF SourceMark
<1>4. FromSource(led2) = FromSource(led) \cup (IF capsule.marks = SourceMark THEN {new} ELSE {})
  BY <1>2 DEF FromSource
<1>5. FromSource(led) \subseteq DOMAIN led
  BY DEF FromSource
<1>6. \A i \in DOMAIN led2 : led2[i].marks \in {{}, SourceMark}
  BY <1>2
<1>7. SourcesIn(led2) = SourcesIn(led) \cup (IF capsule.marks = SourceMark THEN {Signature[capsule.call]} ELSE {})
  BY <1>2, <1>4, <1>5 DEF SourcesIn
<1>8. \A i \in FromSource(led) : Signature[led[i].call] \in SourcesIn(led)
  BY DEF SourcesIn
<1>9. ASSUME NEW i \in FromSource(led2), NEW j \in FromSource(led2), Signature[led2[i].call] = Signature[led2[j].call]
      PROVE  i = j
  <2>1. CASE i \in FromSource(led) /\ j \in FromSource(led)
    BY <1>2, <1>5, <1>9, <2>1
  <2>2. CASE i = new /\ j \in FromSource(led) /\ capsule.marks = SourceMark
    BY <1>2, <1>5, <1>8, <1>9, <2>2
  <2>3. CASE j = new /\ i \in FromSource(led) /\ capsule.marks = SourceMark
    BY <1>2, <1>5, <1>8, <1>9, <2>3
  <2> QED
    BY <1>4, <2>1, <2>2, <2>3
<1> QED
  BY <1>3, <1>6, <1>7, <1>9

\* The pairs stay: nothing is cited.
LEMMA UncitedGrows ==
  ASSUME NEW led, NEW led2, NEW capsule, Grown(led2, led, capsule), Pairs(FALSE, led, {}), capsule.prior = 0
  PROVE  Pairs(FALSE, led2, {})
<1>1. PICK lo, open : lo = {} /\ open = {}
  OBVIOUS
<1>2. Wrote(led2, lo, led, lo, capsule) /\ Pairs(FALSE, led, open)
  BY <1>1 DEF Wrote
<1>3. Reopened(FALSE, open, open, led2, led, capsule)
  BY <1>1 DEF Reopened
<1>4. Pairs(FALSE, led2, open)
  BY <1>2, <1>3, PairsStep
<1> QED
  BY <1>1, <1>4

LEMMA ExportKeeps ==
  ASSUME OtelOk(ledger, own1, own2, own3), NEW c \in Calls, NEW isError \in BOOLEAN, NEW sealed \in BOOLEAN,
         Record!Export(c, isError, sealed)
  PROVE  OtelOk(ledger', own1', own2', own3')
<1>1. PICK yes, status, marks : yes = TRUE /\ marks = {} /\ status = IF isError THEN "failed" ELSE "confirmed"
  OBVIOUS
<1>2. PICK capsule : capsule = Capsule(c, status, yes, 0, marks)
  OBVIOUS
<1>3. capsule.prior = 0 /\ capsule.marks = {}
  BY <1>1, <1>2 DEF Capsule
<1>4. /\ own1' = own1 /\ own2' = own2 /\ own3' = own3
      /\ Seal(capsule, sealed) \/ ledger' = ledger
  BY <1>1, <1>2, RecordEmitter DEF Record!Export, Record!ProcessSpanFacts, Record!backfillVars
<1>5. IsSeq(ledger) /\ SourceMark # {}
  BY DEF OtelOk, Pairs, SourceMark
<1>6. Grown(ledger', ledger, capsule) \/ ledger' = ledger
  BY <1>4, <1>5, SealWrites
<1>7. CASE Grown(ledger', ledger, capsule)
  <2>1. Pairs(FALSE, ledger', {})
    BY <1>3, <1>7, UncitedGrows DEF OtelOk
  <2>2. /\ \A i \in DOMAIN ledger' : ledger'[i].marks \in {{}, SourceMark}
        /\ \A i, j \in FromSource(ledger') : Signature[ledger'[i].call] = Signature[ledger'[j].call] => i = j
        /\ SourcesIn(ledger') = SourcesIn(ledger)
    BY <1>3, <1>5, <1>7, SourcesGrow DEF OtelOk
  <2> QED
    BY <1>4, <2>1, <2>2 DEF OtelOk
<1>8. CASE ledger' = ledger
  BY <1>4, <1>8
<1> QED
  BY <1>6, <1>7, <1>8

LEMMA BackfillLineKeeps ==
  ASSUME OtelOk(ledger, own1, own2, own3), NEW isError \in BOOLEAN, NEW sealed \in BOOLEAN,
         Record!BackfillLine(isError, sealed)
  PROVE  OtelOk(ledger', own1', own2', own3')
<1>1. PICK c : c = File[own2]
  OBVIOUS
<1>2. PICK yes, status : yes = TRUE /\ status = IF isError THEN "failed" ELSE "confirmed"
  OBVIOUS
<1>3. PICK capsule : capsule = Capsule(c, status, yes, 0, SourceMark)
  OBVIOUS
<1>4. capsule.call = c /\ capsule.prior = 0 /\ capsule.marks = SourceMark
  BY <1>3 DEF Capsule
<1>5. /\ own2 \in DOMAIN File /\ own2' = own2 + 1
      /\ \/ /\ Signature[c] \in own1 \/ c \notin Effects
            /\ ledger' = ledger /\ own1' = own1 /\ own3' = own3
         \/ /\ Signature[c] \notin own1 /\ Seal(capsule, sealed)
            /\ own1' = IF sealed THEN own1 \cup {Signature[c]} ELSE own1
            /\ own3' = IF sealed THEN own3 ELSE own3 \cup {own2}
  BY <1>1, <1>2, <1>3, RecordEmitter DEF Record!BackfillLine, Record!ProcessSpanFacts, SourceMark
<1>6. /\ IsSeq(ledger) /\ SourceMark # {} /\ DOMAIN File \subseteq Nat \ {0} /\ own2 \in Nat
  BY AdapterAssumption DEF OtelOk, Pairs, SourceMark
<1>7. /\ own1 = SourcesIn(ledger)
      /\ \A n \in DOMAIN File \ own3 : n < own2 /\ File[n] \in Effects => Signature[File[n]] \in own1
  BY <1>5, <1>6 DEF OtelOk
<1>8. own2' \in Nat /\ own2' # 0 /\ \A n \in DOMAIN File : n < own2' => n < own2 \/ n = own2
  BY <1>5, <1>6
<1>9. CASE /\ Signature[c] \in own1 \/ c \notin Effects
           /\ ledger' = ledger /\ own1' = own1 /\ own3' = own3
  <2>1. \A n \in DOMAIN File \ own3' : n < own2' /\ File[n] \in Effects => Signature[File[n]] \in own1'
    BY <1>1, <1>7, <1>8, <1>9
  <2> QED
    BY <1>7, <1>8, <1>9, <2>1 DEF OtelOk
<1>10. CASE /\ Signature[c] \notin own1 /\ Seal(capsule, sealed)
            /\ own1' = IF sealed THEN own1 \cup {Signature[c]} ELSE own1
            /\ own3' = IF sealed THEN own3 ELSE own3 \cup {own2}
  <2>1. /\ sealed => Grown(ledger', ledger, capsule)
        /\ ~sealed => ledger' = ledger
    BY <1>6, <1>10, SealWrites
  <2>2. CASE sealed
    <3>1. Grown(ledger', ledger, capsule)
      BY <2>1, <2>2
    <3>2. Pairs(FALSE, ledger', {})
      BY <1>4, <3>1, UncitedGrows DEF OtelOk
    <3>3. /\ \A i \in DOMAIN ledger' : ledger'[i].marks \in {{}, SourceMark}
          /\ \A i, j \in FromSource(ledger') : Signature[ledger'[i].call] = Signature[ledger'[j].call] => i = j
          /\ SourcesIn(ledger') = SourcesIn(ledger) \cup {Signature[c]}
      <4>1. capsule.marks \in {{}, SourceMark} /\ Signature[capsule.call] \notin SourcesIn(ledger)
        BY <1>4, <1>7, <1>10
      <4> QED
        BY <1>4, <3>1, <4>1, SourcesGrow DEF OtelOk
    <3>4. \A n \in DOMAIN File \ own3' : n < own2' /\ File[n] \in Effects => Signature[File[n]] \in own1'
      BY <1>1, <1>7, <1>8, <1>10, <2>2
    <3> QED
      BY <1>7, <1>8, <1>10, <2>2, <3>2, <3>3, <3>4 DEF OtelOk
  <2>3. CASE ~sealed
    <3>1. ledger' = ledger /\ own1' = own1 /\ own3' = own3 \cup {own2}
      BY <1>10, <2>1, <2>3
    <3>2. \A n \in DOMAIN File \ own3' : n < own2' /\ File[n] \in Effects => Signature[File[n]] \in own1'
      BY <1>7, <1>8, <3>1
    <3> QED
      BY <1>7, <1>8, <3>1, <3>2 DEF OtelOk
  <2> QED
    BY <2>2, <2>3
<1> QED
  BY <1>5, <1>9, <1>10

LEMMA BackfillStarts ==
  ASSUME OtelOk(ledger, own1, own2, own3), Record!StartBackfill \/ Record!BackfillEnds
  PROVE  OtelOk(ledger', own1', own2', own3')
<1>1. ledger' = ledger
  BY DEF Record!StartBackfill, Record!BackfillEnds, Record!emitterVars
<1>2. CASE Record!StartBackfill
  <2>1. own1' = Record!SealedSourceRefs /\ own2' = 1 /\ own3' = {}
    BY <1>2 DEF Record!StartBackfill
  <2>2. Record!SealedSourceRefs = SourcesIn(ledger)
    <3>1. \A i \in DOMAIN ledger : <<"source", 0>> \in ledger[i].marks <=> ledger[i].marks = SourceMark
      BY DEF OtelOk, SourceMark
    <3> QED
      BY <3>1 DEF Record!SealedSourceRefs, SourcesIn, FromSource
  <2>3. \A n \in DOMAIN File : n \in Nat /\ ~(n < 1)
    BY AdapterAssumption
  <2> QED
    BY <1>1, <2>1, <2>2, <2>3 DEF OtelOk
<1>3. CASE Record!BackfillEnds
  <2>1. own2' = 0
    BY <1>3 DEF Record!BackfillEnds
  <2> QED
    BY <1>1, <2>1 DEF OtelOk
<1> QED
  BY <1>2, <1>3

LEMMA OtelStart == Init => OtelInv
<1> SUFFICES ASSUME EmitterInit, Record!BackfillInit PROVE OtelOk(ledger, own1, own2, own3)
  BY DEF Init, OtelInv
<1>1. own2 = 0 /\ DOMAIN ledger = {} /\ IsSeq(ledger)
  BY NothingYet DEF Record!BackfillInit
<1> QED
  BY <1>1 DEF OtelOk, Pairs, FromSource

LEMMA OtelStep == OtelInv /\ [Next]_vars => OtelInv'
<1>1. CASE UNCHANGED vars
  <2>1. ledger' = ledger /\ own1' = own1 /\ own2' = own2 /\ own3' = own3 /\ adapter' = adapter
    BY <1>1 DEF vars, emitterVars
  <2> QED
    BY <2>1 DEF OtelInv
<1>2. ASSUME OtelOk(ledger, own1, own2, own3), Record!BackfillNext PROVE OtelOk(ledger', own1', own2', own3')
  BY <1>2, BackfillStarts, BackfillLineKeeps, ExportKeeps DEF Record!BackfillNext
<1>3. ASSUME OtelInv, Next PROVE OtelInv'
  BY <1>2, <1>3 DEF OtelInv, Next
<1> QED
  BY <1>1, <1>3

LEMMA OtelHolds ==
  ASSUME OtelInv, adapter = "otel"
  PROVE  CitationsAreTrue /\ OutcomesAreRecordedOnce
<1>1. OtelOk(ledger, own1, own2, own3)
  BY DEF OtelInv
<1>2. ChainsPairTheSameCall /\ PriorsAreNotShared
  BY <1>1, PairsHold DEF OtelOk
<1>3. OutcomesRecorded
  BY DEF OutcomesRecorded
<1>4. \A i \in Sealed : MarkIds(i, "source") # {} <=> i \in FromSource(ledger)
  <2> SUFFICES ASSUME NEW i \in DOMAIN ledger
               PROVE  MarkIds(i, "source") # {} <=> ledger[i].marks = SourceMark
    BY DEF Sealed, FromSource
  <2>1. ledger[i].marks \in {{}, SourceMark}
    BY <1>1 DEF OtelOk
  <2>2. ASSUME ledger[i].marks = {} PROVE MarkIds(i, "source") = {} /\ ledger[i].marks # SourceMark
    BY <2>2 DEF MarkIds, SourceMark
  <2>3. ASSUME ledger[i].marks = SourceMark PROVE MarkIds(i, "source") # {}
    <3>1. <<"source", 0>> \in ledger[i].marks /\ <<"source", 0>>[1] = "source"
      BY <2>3 DEF SourceMark
    <3> QED
      BY <3>1 DEF MarkIds
  <2> QED
    BY <2>1, <2>2, <2>3
<1>5. BackfilledOnce
  BY <1>1, <1>4 DEF OtelOk, BackfilledOnce
<1>6. Backfilled = SourcesIn(ledger)
  BY <1>4 DEF Backfilled, SourcesIn, FromSource, Sealed
<1>7. BackfillMissesNothing
  <2> SUFFICES ASSUME own2 > Len(File), NEW n \in DOMAIN File \ own3, File[n] \in Effects
               PROVE  Signature[File[n]] \in SourcesIn(ledger)
    BY <1>6 DEF BackfillMissesNothing
  <2>1. /\ Len(File) \in Nat /\ own2 \in Nat /\ n \in Nat /\ n <= Len(File)
    BY <1>1, AdapterAssumption DEF OtelOk
  <2>2. own2 # 0 /\ n < own2
    BY <2>1
  <2> QED
    BY <1>1, <2>2 DEF OtelOk
<1> QED
  BY <1>2, <1>3, <1>5, <1>7, OnlyItsOwn, AllTogether

-----------------------------------------------------------------------------
(* Where no table of open records is kept: chains, handshakes, and what     *)
(* seals beside the emitter                                                 *)

LEMMA ChainsCite ==
  ASSUME ChainsInv, adapter = "chains"
  PROVE  CitationsAreTrue /\ OutcomesAreRecordedOnce
<1>1. ChainsCore
  BY DEF ChainsInv
<1>2. ChainsPairTheSameCall
  BY <1>1 DEF ChainsPairTheSameCall, Sealed, ChainsCore, LinkCitesItsTurn
<1>3. ASSUME NEW i \in DOMAIN ledger, NEW j \in DOMAIN ledger,
             ledger[i].prior # 0, ledger[i].prior = ledger[j].prior
      PROVE  ~(i < j)
  <2>1. /\ ledger[i].prior < i /\ ledger[ledger[i].prior].call = ledger[i].call
        /\ ledger[ledger[j].prior].call = ledger[j].call
    BY <1>1, <1>3 DEF ChainsCore, LinkCitesItsTurn
  <2>2. i < j => i <= ledger[j].prior
    BY <1>1, <1>3, <2>1 DEF ChainsCore, LinkCitesLast
  <2>3. i \in Nat /\ j \in Nat /\ ledger[i].prior \in Nat
    BY <1>1, SeqFacts DEF ChainsCore, ChainsType
  <2> QED
    BY <1>3, <2>1, <2>2, <2>3
<1>4. PriorsAreNotShared
  <2> SUFFICES ASSUME NEW i \in DOMAIN ledger, NEW j \in DOMAIN ledger,
                      ledger[i].prior # 0, ledger[i].prior = ledger[j].prior
               PROVE  i = j
    BY DEF PriorsAreNotShared, Sealed
  <2>1. ~(i < j) /\ ~(j < i)
    BY <1>3
  <2>2. i \in Nat /\ j \in Nat
    BY <1>1, SeqFacts DEF ChainsCore, ChainsType
  <2> QED
    BY <2>1, <2>2
<1>5. OutcomesRecorded
  BY DEF OutcomesRecorded
<1> QED
  BY <1>2, <1>4, <1>5, OnlyItsOwn, AllTogether

\* No party calls a tool, and nothing that seals beside the emitter tells it
\* of a call.
Apart == {"bilateral", "sealing", "egress"}
NothingEnds == DOMAIN phase = Calls /\ \A c \in Calls : phase[c] \notin Ends
ApartInv ==
    /\ adapter \in Apart => NothingEnds
    /\ adapter \in {"sealing", "egress"} => DOMAIN ledger = {}

LEMMA ApartStart == Init => ApartInv
<1> SUFFICES ASSUME Init PROVE ApartInv
  OBVIOUS
<1>1. DOMAIN ledger = {} /\ phase = [c \in Calls |-> "new"]
  BY NothingYet DEF Init, EmitterInit
<1> QED
  BY <1>1 DEF ApartInv, NothingEnds, Ends

LEMMA ApartStep == ApartInv /\ [Next]_vars => ApartInv'
<1>1. CASE UNCHANGED vars
  <2>1. phase' = phase /\ ledger' = ledger /\ adapter' = adapter
    BY <1>1 DEF vars, emitterVars
  <2> QED
    BY <2>1 DEF ApartInv, NothingEnds
<1>2. ASSUME ApartInv, Next, adapter \in {"sealing", "egress"} PROVE ApartInv'
  <2>1. phase' = phase /\ ledger' = ledger /\ adapter' = adapter
    BY <1>2 DEF Next, emitterVars
  <2> QED
    BY <1>2, <2>1 DEF ApartInv, NothingEnds
<1>3. ASSUME NothingEnds, Bilateral!BilateralNext PROVE NothingEnds'
  <2> PICK h \in Calls :
        \/ \E own \in BOOLEAN : \/ Bilateral!Open(h, own)
                                \/ Bilateral!Respond(h, own)
                                \/ \E party \in Parties : Bilateral!Confirm(party, h, own)
        \/ Bilateral!Ghost(h)
        \/ \E sealed \in BOOLEAN : \/ Bilateral!SealRequest(h, sealed)
                                   \/ Bilateral!SealFollowUp("responder", h, "action", "confirmed", sealed)
                                   \/ Bilateral!SealFollowUp("requester", h, "ghost", "planned", sealed)
                                   \/ \E party \in Parties :
                                          Bilateral!SealFollowUp(party, h, "bilateral", "confirmed", sealed)
    BY <1>3 DEF Bilateral!BilateralNext, Parties
  <2>1. phase' = phase \/ \E next \in {"one_sided", "requested", "acted", "bilateral", "refused"} :
                              phase' = [phase EXCEPT ![h] = next]
    BY DEF Bilateral!Open, Bilateral!Respond, Bilateral!Confirm, Bilateral!Ghost,
           Bilateral!SealRequest, Bilateral!SealFollowUp
  <2>2. \A next \in {"one_sided", "requested", "acted", "bilateral", "refused"} : next \notin Ends
    BY DEF Ends
  <2> QED
    BY <1>3, <2>1, <2>2 DEF NothingEnds
<1>4. ASSUME ApartInv, Next, adapter = "bilateral" PROVE ApartInv'
  <2>1. Bilateral!BilateralNext /\ adapter' = adapter
    BY <1>4 DEF Next
  <2> QED
    BY <1>3, <1>4, <2>1 DEF ApartInv, Apart
<1>5. ASSUME ApartInv, Next, adapter \notin Apart PROVE ApartInv'
  <2>1. adapter' = adapter
    BY <1>5 DEF Next
  <2> QED
    BY <1>5, <2>1 DEF ApartInv, Apart
<1> QED
  BY <1>1, <1>2, <1>4, <1>5 DEF Apart

LEMMA ApartHolds ==
  ASSUME ApartInv, BilateralInv, adapter \in Apart
  PROVE  CitationsAreTrue /\ OutcomesAreRecordedOnce
<1>1. OutcomesRecorded
  BY DEF ApartInv, NothingEnds, Ends, OutcomesRecorded
<1>2. CASE adapter = "bilateral"
  <2>1. ChainsPairTheSameCall
    BY <1>2 DEF ChainsPairTheSameCall, Sealed, BilateralInv, BilateralCore, FollowsUp, Targets,
                Bilateral!CapsulesOf
  <2>2. PriorsAreNotShared
    BY <1>2 DEF PriorsAreNotShared
  <2> QED
    BY <1>1, <1>2, <2>1, <2>2, OnlyItsOwn, AllTogether
<1>3. CASE adapter \in {"sealing", "egress"}
  <2>1. ChainsPairTheSameCall /\ PriorsAreNotShared
    BY <1>3 DEF ApartInv, ChainsPairTheSameCall, PriorsAreNotShared, Sealed
  <2> QED
    BY <1>1, <1>3, <2>1, OnlyItsOwn, AllTogether
<1> QED
  BY <1>2, <1>3 DEF Apart

-----------------------------------------------------------------------------
(* ADK                                                                      *)

\* The newest entry of a table that is too long stays.
LEMMA OldestGone ==
  ASSUME NEW table, TableOk(table), Len(table) # 0
  PROVE  TableOk(Tail(table)) /\ Heads(Tail(table)) = HeadsAt(table, 2..Len(table))
<1>1. Len(table) \in Nat /\ IsSeq(table)
  BY SeqFacts DEF TableOk
<1>2. 2 \in 1..(Len(table) + 1)
  BY <1>1
<1>3. PICK first : first = 2
  OBVIOUS
<1>4. PartOf(SubSeq(table, first, Len(table)), table, first..Len(table))
  BY <1>1, <1>2, <1>3, RestIs
<1>5. Tail(table) = SubSeq(table, first, Len(table))
  <2> DEFINE S == {table[i] : i \in DOMAIN table}
  <2>1. table \in Seq(S)
    BY <1>1 DEF IsSeq
  <2> HIDE DEF S
  <2>2. table # <<>>
    <3>1. SUFFICES ASSUME table = <<>> PROVE FALSE
      OBVIOUS
    <3>2. Len(<<>>) = 0
      OBVIOUS
    <3> QED
      BY <3>1, <3>2
  <2>3. SubSeq(table, 2, Len(table)) = [i \in 1..(Len(table) - 1) |-> table[i + 1]]
    <3> PICK n \in Nat : n = Len(table)
      BY <1>1
    <3>1. n \in 0..n /\ 2 \in 1..(n + 1) /\ 2 <= n + 1
      BY <1>2
    <3>2. /\ SubSeq(table, 2, n) \in Seq(S) /\ Len(SubSeq(table, 2, n)) = n - 2 + 1
          /\ \A i \in 1..(n - 2 + 1) : SubSeq(table, 2, n)[i] = table[i + (2 - 1)]
      BY <2>1, <3>1, SubSeqIs
    <3> QED
      BY <3>2
  <2> QED
    BY <1>3, <2>1, <2>2, <2>3
<1> QED
  BY <1>3, <1>4, <1>5, PartIsTable

\* A key is noted, and another may have been given up for it.
Marked(after, table, key) ==
    /\ TableOk(after) /\ key \in Keys(after)
    /\ Keys(after) \subseteq Keys(table) \cup {key}

LEMMA NotedIs ==
  ASSUME NEW table, TableOk(table), NEW key
  PROVE  Marked(Run!Noted(table, key), table, key)
<1> PICK rest : rest = Without(table, key)
  OBVIOUS
<1>1. Removed(rest, table, key)
  BY WithoutIs
<1> PICK none : none = 0
  OBVIOUS
<1> PICK t : t = Append(rest, [key |-> key, val |-> none])
  OBVIOUS
<1>2. TableOk(rest) /\ key \notin Keys(rest) /\ Keys(rest) \subseteq Keys(table)
  BY <1>1, KeysOf DEF Removed
<1>3. Assigned(t, rest, key, none)
  BY <1>2, AppendedKey
<1>4. TableOk(t) /\ Heads(t) \subseteq Heads(rest) \cup {<<key, none>>}
  BY <1>3 DEF Assigned
<1>5. Grown(t, rest, [key |-> key, val |-> none])
  BY <1>2, OneMore DEF TableOk
<1>6. Len(rest) \in Nat /\ Len(t) = Len(rest) + 1 /\ t[Len(t)] = [key |-> key, val |-> none] /\ Len(t) \in DOMAIN t
  BY <1>5 DEF Grown
<1>7. Keys(t) \subseteq Keys(table) \cup {key} /\ key \in Keys(t)
  <2>1. \A h \in Heads(t) : h[1] \in Keys(table) \cup {key}
    <3>1. \A h \in Heads(rest) : h[1] \in Keys(table)
      BY <1>2, KeysOf
    <3>2. <<key, none>>[1] = key
      OBVIOUS
    <3> QED
      BY <1>4, <3>1, <3>2
  <2>2. key \in Keys(t)
    BY <1>6 DEF Keys
  <2> QED
    BY <2>1, <2>2, KeysOf
<1>8. CASE Len(t) > MaxPending
  <2>1. MaxPending \in Nat \ {0}
    BY EmitterAssumption
  <2>2. TableOk(Tail(t)) /\ Heads(Tail(t)) = HeadsAt(t, 2..Len(t))
    <3>1. Len(t) # 0
      BY <1>6
    <3> QED
      BY <1>4, <3>1, OldestGone
  <2>3. Len(t) \in 2..Len(t) /\ 2..Len(t) \subseteq DOMAIN t
    BY <1>4, <1>6, <1>8, <2>1, SeqFacts DEF TableOk
  <2>4. <<key, none>> \in Heads(Tail(t)) /\ Heads(Tail(t)) \subseteq Heads(t)
    <3>1. t[Len(t)].key = key /\ t[Len(t)].val = none
      BY <1>6
    <3> QED
      BY <2>2, <2>3, <3>1 DEF HeadsAt, Heads
  <2>5. key \in Keys(Tail(t)) /\ Keys(Tail(t)) \subseteq Keys(t)
    BY <2>4, KeysOf, KeysAreHeads
  <2>6. Run!Noted(table, key) = Tail(t)
    BY <1>8, RunEmitter DEF Run!Noted
  <2> QED
    BY <1>7, <2>2, <2>5, <2>6 DEF Marked
<1>9. CASE ~(Len(t) > MaxPending)
  <2>1. Run!Noted(table, key) = t
    BY <1>9, RunEmitter DEF Run!Noted
  <2> QED
    BY <1>4, <1>7, <2>1 DEF Marked
<1> QED
  BY <1>8, <1>9

\* A record of an answer: a refusal is apart.
Answers(led, c) == {i \in About(led, c) : led[i].status # "blocked"}

\* The answers of a call are sealed once it ran, its id is kept as long as
\* one is sealed, and where its chain is open, it has no final one.
Told(led, ph, lo, seen, open, gone, inc, c) ==
    /\ ph[c] \in {"new", "running", "refused"} => Answers(led, c) = {}
    /\ c \in seen => Answers(led, c) # {}
    /\ c \notin gone =>
          /\ Answers(led, c) # {} => c \in seen
          /\ c \in open => \A i \in Answers(led, c) : led[i].status \in {"pending", "update"}
          /\ \A i, j \in Answers(led, c) :
                 i < j => led[i].status \in {"pending", "update"} /\ led[j].status \in {"update", "final"}
          /\ inc /\ MaxLost = 1 =>
                /\ ph[c] = "returned" => Answers(led, c) # {} \/ lo # {}
                /\ ph[c] = "done" => Answers(led, c) # {}

AdkOk(led, ph, lo, seen, open, gone, inc) ==
    /\ KeeperOk(led, ph, lo, Heads(open)) /\ IsFiniteSet(lo)
    /\ TableOk(seen) /\ TableOk(open)
    /\ \A h \in Heads(open) : h[2] # 0 /\ led[h[2]].status # "blocked"
    /\ \A i \in DOMAIN led : led[i].status # "planned"
    /\ \A c \in Calls : Told(led, ph, lo, Keys(seen), Keys(open), gone, inc, c)

AdkInv == adapter = "adk" => AdkOk(ledger, phase, lost, own1, own3, own5, include)

LEMMA AdkStart == Init => AdkInv
<1> SUFFICES ASSUME EmitterInit, Run!AdkInit PROVE AdkOk(ledger, phase, lost, own1, own3, own5, include)
  BY DEF Init, AdkInv
<1>1. own1 = <<>> /\ own3 = <<>> /\ own5 = {} /\ lost = {}
  BY DEF Run!AdkInit, EmitterInit
<1>2. /\ KeeperOk(ledger, phase, lost, {}) /\ DOMAIN ledger = {} /\ \A c \in Calls : phase[c] = "new"
  BY KeeperStarts
<1>3. /\ TableOk(own1) /\ TableOk(own3) /\ Heads(own3) = {} /\ Keys(own1) = {} /\ Keys(own3) = {}
      /\ IsFiniteSet(lost)
  BY <1>1, EmptyTable, FS_EmptySet DEF Keys
<1>4. \A c : Answers(ledger, c) = {}
  BY <1>2 DEF Answers, About
<1>5. ASSUME NEW c \in Calls PROVE Told(ledger, phase, lost, Keys(own1), Keys(own3), own5, include, c)
  BY <1>2, <1>3, <1>4 DEF Told
<1> QED
  BY <1>2, <1>3, <1>5 DEF AdkOk

\* What a call that is open or sealed has on record.
LEMMA OpenIsTold ==
  ASSUME NEW led, NEW ph, NEW lo, NEW seen, NEW open, NEW gone, NEW inc,
         AdkOk(led, ph, lo, seen, open, gone, inc), NEW c \in Calls
  PROVE  c \in Keys(open) \cup Keys(seen) => Answers(led, c) # {}
<1>1. CASE c \in Keys(seen)
  BY <1>1 DEF AdkOk, Told
<1>2. CASE c \in Keys(open)
  <2>1. PICK val : <<c, val>> \in Heads(open)
    BY <1>2, KeysAreHeads
  <2>2. <<c, val>>[1] = c /\ <<c, val>>[2] = val
    OBVIOUS
  <2>3. val # 0 /\ led[val].status # "blocked"
    BY <2>1, <2>2 DEF AdkOk
  <2>4. val \in DOMAIN led /\ led[val].call = c
    BY <2>1, <2>2, <2>3 DEF AdkOk, KeeperOk, Pairs, Name
  <2> QED
    BY <2>3, <2>4 DEF Answers, About
<1> QED
  BY <1>1, <1>2

\* One call at a time: the others keep what they had, or are given up.
LEMMA OthersAreTold ==
  ASSUME NEW led, NEW ph, NEW lo, NEW seen, NEW open, NEW gone, NEW inc,
         NEW led2, NEW ph2, NEW lo2, NEW seen2, NEW open2, NEW gone2, NEW c \in Calls,
         AdkOk(led, ph, lo, seen, open, gone, inc),
         \A d : d # c => Untouched(led2, led, d), \A d \in Calls : d # c => ph2[d] = ph[d],
         lo \subseteq lo2, Keys(seen2) \subseteq Keys(seen) \cup {c}, Keys(open2) \subseteq Keys(open) \cup {c},
         gone2 = gone \cup (Keys(seen) \ Keys(seen2)),
         KeeperOk(led2, ph2, lo2, Heads(open2)), IsFiniteSet(lo2), TableOk(seen2), TableOk(open2),
         \A h \in Heads(open2) : h[2] # 0 /\ led2[h[2]].status # "blocked",
         \A i \in DOMAIN led2 : led2[i].status # "planned",
         Told(led2, ph2, lo2, Keys(seen2), Keys(open2), gone2, inc, c)
  PROVE  AdkOk(led2, ph2, lo2, seen2, open2, gone2, inc)
<1>1. ASSUME NEW d \in Calls, d # c PROVE Told(led2, ph2, lo2, Keys(seen2), Keys(open2), gone2, inc, d)
  <2>1. Told(led, ph, lo, Keys(seen), Keys(open), gone, inc, d)
    BY DEF AdkOk
  <2>2. Answers(led2, d) = Answers(led, d) /\ \A i \in Answers(led, d) : led2[i] = led[i]
    BY <1>1 DEF Untouched, Answers
  <2>3. /\ ph2[d] = ph[d] /\ (lo # {} => lo2 # {})
        /\ d \in Keys(seen2) => d \in Keys(seen)
        /\ d \in Keys(open2) => d \in Keys(open)
        /\ d \notin gone2 => d \notin gone /\ (d \in Keys(seen) => d \in Keys(seen2))
    BY <1>1
  <2> QED
    BY <2>1, <2>2, <2>3 DEF Told
<1> QED
  BY <1>1 DEF AdkOk

\* What the first record of an answer does to the tables.
Answered(c, status, sealed) ==
    /\ \E capsule : /\ capsule.call = c /\ capsule.prior = 0 /\ capsule.status = status
                    /\ Seal(capsule, sealed)
    /\ TableOk(own1') /\ Keys(own1') \subseteq Keys(own1) \cup {c}
    /\ TableOk(own3') /\ \A h \in Heads(own3') : h \in Heads(own3) \/ (sealed /\ h[1] = c /\ h[2] = NextId)
    /\ sealed => c \in Keys(own1')
    /\ ~sealed => own1' = own1 /\ own3' = own3
    /\ status = "dispatched" => own3' = own3

\* The first record of an answer, whichever observer has it sealed.
LEMMA AnswerKept ==
  ASSUME AdkOk(ledger, phase, lost, own1, own3, own5, include), NEW c \in Calls,
         NEW next \in {"returned", "done"}, NEW status \in {"pending", "dispatched"}, NEW sealed \in BOOLEAN,
         Answered(c, status, sealed), Moved(phase', phase, c, next), include' = include,
         c \in Keys(own1) => phase[c] = "running",
         next = "done" /\ include => phase[c] \in {"returned", "done"},
         own5' = own5 \cup (Keys(own1) \ Keys(own1'))
  PROVE  AdkOk(ledger', phase', lost', own1', own3', own5', include')
<1>1. PICK capsule : /\ capsule.call = c /\ capsule.prior = 0 /\ capsule.status = status
                     /\ Seal(capsule, sealed)
  BY DEF Answered
<1>2. Answers(ledger, c) = {} \/ c \in own5
  BY DEF AdkOk, Told
<1>3. own5' = own5 \cup (Keys(own1) \ Keys(own1'))
  OBVIOUS
<1>4. /\ TableOk(own1') /\ Keys(own1') \subseteq Keys(own1) \cup {c}
      /\ c \in Keys(own1') => sealed \/ c \in Keys(own1)
      /\ sealed => c \in Keys(own1')
      /\ TableOk(own3') /\ \A h \in Heads(own3') : h \in Heads(own3) \/ (sealed /\ h[1] = c /\ h[2] = NextId)
      /\ capsule.status = "dispatched" \/ ~sealed => own3' = own3
  BY <1>1 DEF Answered
<1>5. /\ KeeperOk(ledger, phase, lost, Heads(own3)) /\ IsSeq(ledger) /\ IsFiniteSet(lost)
      /\ \A h \in Heads(own3) : h[2] \in DOMAIN ledger
      /\ Told(ledger, phase, lost, Keys(own1), Keys(own3), own5, include, c)
      /\ c \in Keys(own3) => Answers(ledger, c) # {}
  <2>1. c \in Keys(own3) => Answers(ledger, c) # {}
    BY OpenIsTold
  <2>2. KeeperOk(ledger, phase, lost, Heads(own3)) /\ \A h \in Heads(own3) : h[2] # 0
    BY DEF AdkOk
  <2>3. IsSeq(ledger) /\ \A h \in Heads(own3) : h[2] \in DOMAIN ledger
    BY <2>2 DEF KeeperOk, Pairs
  <2> QED
    BY <2>1, <2>2, <2>3 DEF AdkOk
<1>6. /\ Wrote(ledger', lost', ledger, lost, capsule)
      /\ sealed => Grown(ledger', ledger, capsule) /\ lost' = lost
      /\ ~sealed => ledger' = ledger /\ lost' = lost \cup {c}
  BY <1>1, <1>5, SealWrites
<1>7. KeeperOk(ledger', phase', lost', Heads(own3'))
  <2>1. capsule.status # "planned"
    BY <1>1
  <2>2. \A h \in Heads(own3') : h \in Heads(own3) \/ h[2] = 0 \/ (sealed /\ h[1] = c /\ h[2] = NextId)
    BY <1>1, <1>4
  <2> QED
    <3>1. PICK open, after : open = Heads(own3) /\ after = Heads(own3')
      OBVIOUS
    <3>2. capsule.call = c /\ capsule.prior = 0 /\ Seal(capsule, sealed)
      BY <1>1
    <3>3. KeeperOk(ledger, phase, lost, open)
      BY <1>5, <3>1
    <3>4. \A h \in after : h \in open \/ h[2] = 0 \/ (sealed /\ h[1] = c /\ h[2] = NextId)
      BY <2>2, <3>1
    <3>5. KeeperOk(ledger', phase', lost', after)
      BY <2>1, <3>2, <3>3, <3>4, PlanKept
    <3> QED
      BY <3>1, <3>5
<1>8. /\ \A d : d # c => Untouched(ledger', ledger, d)
      /\ \A d \in Calls : d # c => phase'[d] = phase[d]
      /\ lost \subseteq lost' /\ IsFiniteSet(lost') /\ phase'[c] = next
  BY <1>1, <1>2, <1>5, <1>6, OthersStay, FS_AddElement DEF Moved
<1>9. Keys(own3') \subseteq Keys(own3) \cup {c}
  BY <1>1, <1>4, KeysOf
<1>10. PICK n : n = NextId
  OBVIOUS
<1>11. sealed => /\ DOMAIN ledger' = DOMAIN ledger \cup {n} /\ ledger'[n] = capsule
                 /\ \A i \in DOMAIN ledger : ledger'[i] = ledger[i]
                 /\ About(ledger', c) = About(ledger, c) \cup {n}
                 /\ \A i \in About(ledger, c) : ledger'[i] = ledger[i]
                 /\ n \in Nat /\ n # 0
  <2> SUFFICES ASSUME sealed
               PROVE  /\ DOMAIN ledger' = DOMAIN ledger \cup {n} /\ ledger'[n] = capsule
                      /\ \A i \in DOMAIN ledger : ledger'[i] = ledger[i]
                      /\ About(ledger', c) = About(ledger, c) \cup {n}
                      /\ \A i \in About(ledger, c) : ledger'[i] = ledger[i]
                      /\ n \in Nat /\ n # 0
    OBVIOUS
  <2>1. Grown(ledger', ledger, capsule) /\ n = Len(ledger) + 1
    BY <1>1, <1>6, <1>10 DEF NextId
  <2>2. About(ledger', c) = About(ledger, c) \cup {n} /\ \A i \in About(ledger, c) : ledger'[i] = ledger[i]
    BY <1>1, <2>1, AboutGrows
  <2> QED
    BY <2>1, <2>2 DEF Grown
<1>12. \A i \in DOMAIN ledger' : ledger'[i].status # "planned"
  BY <1>1, <1>6, <1>11 DEF AdkOk
<1>13. \A h \in Heads(own3') : h[2] # 0 /\ ledger'[h[2]].status # "blocked"
  <2> SUFFICES ASSUME NEW h \in Heads(own3') PROVE h[2] # 0 /\ ledger'[h[2]].status # "blocked"
    OBVIOUS
  <2>1. CASE h \in Heads(own3)
    BY <1>1, <2>1, <1>5, <1>6, <1>11 DEF AdkOk
  <2>2. CASE sealed /\ h[1] = c /\ h[2] = NextId
    BY <1>1, <2>2, <1>10, <1>11
  <2> QED
    BY <1>1, <1>4, <2>1, <2>2
<1>14. CASE sealed
  <2>1. Answers(ledger', c) = Answers(ledger, c) \cup {n}
    BY <1>1, <1>11, <1>14 DEF Answers
  <2>2. c \in own5' \/ (c \notin own5 /\ Answers(ledger', c) = {n} /\ c \notin Keys(own3))
    BY <1>1, <1>2, <1>3, <1>5, <2>1
  <2>3. ASSUME c \notin own5' PROVE c \in Keys(own3') => capsule.status = "pending"
    BY <1>1, <1>4, <2>2, <2>3
  <2>4. phase'[c] \notin {"new", "running", "refused"}
    BY <1>1, <1>8
  <2>5. Told(ledger', phase', lost', Keys(own1'), Keys(own3'), own5', include', c)
    BY <1>1, <1>4, <1>11, <1>14, <2>1, <2>2, <2>3, <2>4 DEF Told
  <2> QED
    BY <1>3, <1>4, <1>7, <1>8, <1>9, <1>12, <1>13, <2>5, OthersAreTold
<1>15. CASE ~sealed
  <2>1. ledger' = ledger /\ lost' = lost \cup {c} /\ own3' = own3
    BY <1>1, <1>4, <1>6, <1>15
  <2>2. c \in Keys(own1') => c \in Keys(own1)
    BY <1>1, <1>4, <1>15
  <2>3. c \notin own5' => c \notin own5 /\ (c \in Keys(own1) => c \in Keys(own1'))
    BY <1>1, <1>3
  <2>4. MaxLost = 1 => lost = {}
    <3>1. Cardinality(lost) < MaxLost
      BY <1>1, <1>15 DEF Seal, Sealable
    <3> QED
      BY <1>1, <3>1, <1>5, FS_CardinalityType, FS_EmptySet
  <2>5. phase'[c] \notin {"new", "running", "refused"}
    BY <1>1, <1>8
  <2>6. ASSUME c \notin own5', include, MaxLost = 1, phase'[c] = "done" PROVE Answers(ledger, c) # {}
    BY <1>1, <1>2, <1>5, <1>8, <2>3, <2>4, <2>6 DEF Told
  <2>7. Told(ledger', phase', lost', Keys(own1'), Keys(own3'), own5', include', c)
    BY <1>1, <1>5, <2>1, <2>2, <2>3, <2>5, <2>6 DEF Told
  <2> QED
    BY <1>3, <1>4, <1>7, <1>8, <1>9, <1>12, <1>13, <2>7, OthersAreTold
<1> QED
  BY <1>1, <1>14, <1>15

\* Another answer, chained to the last.
LEMMA UpdateKept ==
  ASSUME AdkOk(ledger, phase, lost, own1, own3, own5, include), NEW c \in Calls, c \in Keys(own3),
         NEW capsule, NEW sealed \in BOOLEAN,
         Moved(phase', phase, c, "done"), Seal(capsule, sealed), include' = include,
         capsule.call = c, capsule.prior = Get(own3, c, 0), capsule.status \in {"update", "final"},
         own1' = own1, own5' = own5,
         ~sealed => own3' = own3,
         sealed => /\ TableOk(own3')
                   /\ \A h \in Heads(own3') : \/ h \in Heads(own3) /\ h[1] # c
                                              \/ h[1] = c /\ h[2] = NextId /\ capsule.status = "update"
  PROVE  AdkOk(ledger', phase', lost', own1', own3', own5', include')
<1>1. /\ KeeperOk(ledger, phase, lost, Heads(own3)) /\ IsSeq(ledger) /\ IsFiniteSet(lost)
      /\ TableOk(own1) /\ TableOk(own3)
      /\ \A h \in Heads(own3) : h[2] # 0 /\ h[2] \in DOMAIN ledger /\ ledger[h[2]].call = h[1]
      /\ Told(ledger, phase, lost, Keys(own1), Keys(own3), own5, include, c)
  <2>1. KeeperOk(ledger, phase, lost, Heads(own3)) /\ \A h \in Heads(own3) : h[2] # 0
    BY DEF AdkOk
  <2>2. IsSeq(ledger) /\ \A h \in Heads(own3) : h[2] \in DOMAIN ledger /\ ledger[h[2]].call = h[1]
    BY <2>1 DEF KeeperOk, Pairs, Name
  <2> QED
    BY <2>1, <2>2 DEF AdkOk
<1>2. /\ Wrote(ledger', lost', ledger, lost, capsule)
      /\ sealed => Grown(ledger', ledger, capsule) /\ lost' = lost
      /\ ~sealed => ledger' = ledger /\ lost' = lost \cup {c}
  BY <1>1, SealWrites
<1>3. Answers(ledger, c) # {}
  BY OpenIsTold
<1>4. /\ \A d : d # c => Untouched(ledger', ledger, d)
      /\ \A d \in Calls : d # c => phase'[d] = phase[d]
      /\ lost \subseteq lost' /\ IsFiniteSet(lost') /\ phase'[c] = "done"
  BY <1>1, <1>2, OthersStay, FS_AddElement DEF Moved
<1>5. Keys(own3') \subseteq Keys(own3) \cup {c}
  BY KeysOf
<1>6. \E h \in Heads(own3) : h[1] = c /\ h[2] = capsule.prior
  <2>1. <<c, capsule.prior>> \in Heads(own3)
    BY GetIs
  <2>2. <<c, capsule.prior>>[1] = c /\ <<c, capsule.prior>>[2] = capsule.prior
    OBVIOUS
  <2> QED
    BY <2>1, <2>2
<1>7. Reopened(FALSE, Heads(own3'), Heads(own3), ledger', ledger, capsule)
  <2>1. CASE ~sealed
    BY <1>2, <2>1 DEF Reopened
  <2>2. CASE sealed
    <3>1. Grown(ledger', ledger, capsule)
      BY <1>2, <2>2
    <3>2. ASSUME NEW h \in Heads(own3'), h \in Heads(own3), h[1] # c PROVE h[2] # capsule.prior
      BY <1>1, <1>6, <3>2
    <3>3. ASSUME NEW h \in Heads(own3')
          PROVE  \/ h \in Heads(own3) /\ h[1] # c
                 \/ h[1] = Name(FALSE, capsule.call) /\ h[2] = Len(ledger) + 1
      BY <2>2, <3>3 DEF Name, NextId
    <3> QED
      BY <3>1, <3>2, <3>3 DEF Reopened
  <2> QED
    BY <2>1, <2>2
<1>8. KeeperOk(ledger', phase', lost', Heads(own3'))
  <2>1. capsule.status # "planned"
    OBVIOUS
  <2> QED
    BY <1>1, <1>2, <1>6, <1>7, <2>1, KeeperSteps
<1>9. PICK n : n = NextId
  OBVIOUS
<1>10. CASE sealed
  <2>1. /\ DOMAIN ledger' = DOMAIN ledger \cup {n} /\ ledger'[n] = capsule
        /\ \A i \in DOMAIN ledger : ledger'[i] = ledger[i] /\ i < n
        /\ About(ledger', c) = About(ledger, c) \cup {n}
        /\ \A i \in About(ledger, c) : ledger'[i] = ledger[i]
        /\ n \in Nat /\ n # 0
    <3>1. Grown(ledger', ledger, capsule) /\ n = Len(ledger) + 1
      BY <1>2, <1>9, <1>10 DEF NextId
    <3>2. About(ledger', c) = About(ledger, c) \cup {n} /\ \A i \in About(ledger, c) : ledger'[i] = ledger[i]
      BY <3>1, AboutGrows
    <3> QED
      BY <3>1, <3>2 DEF Grown
  <2>2. \A i \in DOMAIN ledger' : ledger'[i].status # "planned"
    BY <2>1 DEF AdkOk
  <2>3. \A h \in Heads(own3') : h[2] # 0 /\ ledger'[h[2]].status # "blocked"
    BY <1>1, <1>9, <1>10, <2>1 DEF AdkOk
  <2>4. Answers(ledger', c) = Answers(ledger, c) \cup {n} /\ \A i \in Answers(ledger, c) : ledger'[i] = ledger[i] /\ i < n
    BY <2>1 DEF Answers, About
  <2>5. capsule.status = "final" => c \notin Keys(own3')
    BY <1>10, KeysOf
  <2>6. ASSUME c \notin own5'
        PROVE  /\ \A i \in Answers(ledger, c) : ledger[i].status \in {"pending", "update"}
               /\ c \in Keys(own1)
    BY <1>1, <1>3, <2>6 DEF Told
  <2>7. /\ \A i \in Answers(ledger, c) : i \in Nat
        /\ phase'[c] \notin {"new", "running", "refused"}
    BY <1>1, <1>4, SeqFacts DEF Answers, About
  <2>8. ASSUME c \notin own5', NEW i \in Answers(ledger', c), NEW j \in Answers(ledger', c), i < j
        PROVE  ledger'[i].status \in {"pending", "update"} /\ ledger'[j].status \in {"update", "final"}
    <3>1. i \in Answers(ledger, c)
      BY <2>1, <2>4, <2>7, <2>8
    <3>2. CASE j = n
      BY <2>1, <2>4, <2>6, <2>8, <3>1, <3>2
    <3>3. CASE j \in Answers(ledger, c)
      BY <1>1, <2>4, <2>8, <3>1, <3>3 DEF Told
    <3> QED
      BY <2>4, <3>2, <3>3
  <2>9. ASSUME c \notin own5', c \in Keys(own3'), NEW i \in Answers(ledger', c)
        PROVE  ledger'[i].status \in {"pending", "update"}
    BY <2>1, <2>4, <2>5, <2>6, <2>9
  <2>10. Told(ledger', phase', lost', Keys(own1'), Keys(own3'), own5', include', c)
    BY <1>3, <2>4, <2>6, <2>7, <2>8, <2>9 DEF Told
  <2> QED
    BY <1>1, <1>4, <1>5, <1>8, <1>10, <2>2, <2>3, <2>10, OthersAreTold
<1>11. CASE ~sealed
  <2>1. ledger' = ledger /\ own3' = own3
    BY <1>2, <1>11
  <2>2. Told(ledger', phase', lost', Keys(own1'), Keys(own3'), own5', include', c)
    BY <1>1, <1>3, <1>4, <2>1 DEF Told
  <2>3. \A h \in Heads(own3') : h[2] # 0 /\ ledger'[h[2]].status # "blocked"
    BY <2>1 DEF AdkOk
  <2> QED
    <3>1. \A i \in DOMAIN ledger' : ledger'[i].status # "planned"
      BY <2>1 DEF AdkOk
    <3>2. Keys(own3') \subseteq Keys(own3) \cup {c} /\ TableOk(own3')
      BY <1>1, <2>1
    <3> QED
      BY <1>1, <1>4, <1>8, <2>1, <2>2, <2>3, <3>1, <3>2, OthersAreTold
<1> QED
  BY <1>10, <1>11

\* No record: of a call that starts, or of one that is on record already.
LEMMA QuietKept ==
  ASSUME AdkOk(ledger, phase, lost, own1, own3, own5, include), NEW c \in Calls, NEW next,
         Moved(phase', phase, c, next), ledger' = ledger, lost' = lost, include' = include,
         own1' = own1, own3' = own3, own5' = own5,
         \/ phase[c] = "new" /\ next = "running"
         \/ next \in {"returned", "done"} /\ c \in Keys(own3) \cup Keys(own1)
  PROVE  AdkOk(ledger', phase', lost', own1', own3', own5', include')
<1>1. /\ KeeperOk(ledger, phase, lost, Heads(own3))
      /\ Told(ledger, phase, lost, Keys(own1), Keys(own3), own5, include, c)
      /\ TableOk(own1) /\ TableOk(own3) /\ IsFiniteSet(lost)
      /\ \A h \in Heads(own3) : h[2] # 0 /\ ledger[h[2]].status # "blocked"
      /\ \A i \in DOMAIN ledger : ledger[i].status # "planned"
  BY DEF AdkOk
<1>2. c \in Keys(own3) \cup Keys(own1) => Answers(ledger, c) # {}
  BY OpenIsTold
<1>3. /\ \A d : d # c => Untouched(ledger', ledger, d)
      /\ \A d \in Calls : d # c => phase'[d] = phase[d]
      /\ phase'[c] = next /\ DOMAIN phase' = Calls
  BY DEF Moved, Untouched
<1>4. KeeperOk(ledger', phase', lost', Heads(own3'))
  <2>1. CASE next \notin Ends
    BY <1>1, <2>1, KeeperRests
  <2>2. CASE Answers(ledger, c) # {}
    <3>1. OutcomesIn(ledger, c) # {}
      BY <1>1, <2>2 DEF Answers, OutcomesIn, About
    <3>2. Recorded(ledger, phase', lost)
      BY <1>1, <1>3, <3>1 DEF KeeperOk, Recorded
    <3> QED
      BY <1>1, <1>3, <3>2 DEF KeeperOk
  <2> QED
    BY <1>2, <2>1, <2>2 DEF Ends
<1>5. Told(ledger', phase', lost', Keys(own1'), Keys(own3'), own5', include', c)
  <2>1. CASE phase[c] = "new" /\ next = "running"
    BY <1>1, <1>3, <2>1 DEF Told
  <2>2. CASE next \in {"returned", "done"} /\ c \in Keys(own3) \cup Keys(own1)
    BY <1>1, <1>2, <1>3, <2>2 DEF Told
  <2> QED
    BY <2>1, <2>2
<1> QED
  BY <1>1, <1>3, <1>4, <1>5, OthersAreTold

\* A refusal: it is no answer.
LEMMA RefusalKept ==
  ASSUME AdkOk(ledger, phase, lost, own1, own3, own5, include), NEW c \in Calls, NEW capsule, NEW sealed \in BOOLEAN,
         phase[c] = "running", Moved(phase', phase, c, "refused"), Seal(capsule, sealed), include' = include,
         capsule.call = c, capsule.status = "blocked", capsule.prior = 0,
         own1' = own1, own3' = own3, own5' = own5
  PROVE  AdkOk(ledger', phase', lost', own1', own3', own5', include')
<1>1. /\ KeeperOk(ledger, phase, lost, Heads(own3)) /\ IsSeq(ledger)
      /\ Told(ledger, phase, lost, Keys(own1), Keys(own3), own5, include, c)
      /\ TableOk(own1) /\ TableOk(own3) /\ IsFiniteSet(lost)
      /\ \A h \in Heads(own3) : h[2] # 0 /\ ledger[h[2]].status # "blocked"
      /\ \A i \in DOMAIN ledger : ledger[i].status # "planned"
  BY DEF AdkOk, KeeperOk, Pairs
<1>2. /\ Wrote(ledger', lost', ledger, lost, capsule)
      /\ sealed => Grown(ledger', ledger, capsule) /\ lost' = lost
      /\ ~sealed => ledger' = ledger /\ lost' = lost \cup {c}
  BY <1>1, SealWrites
<1>3. KeeperOk(ledger', phase', lost', Heads(own3'))
  <2>1. capsule.status # "planned"
    OBVIOUS
  <2> QED
    <3> PICK next : next = "refused"
      OBVIOUS
    <3> PICK open : open = Heads(own3)
      OBVIOUS
    <3>1. KeeperOk(ledger', phase', lost', open)
      BY <1>1, <2>1, PlanKept
    <3> QED
      BY <3>1
<1>4. /\ \A d : d # c => Untouched(ledger', ledger, d)
      /\ \A d \in Calls : d # c => phase'[d] = phase[d]
      /\ lost \subseteq lost' /\ IsFiniteSet(lost') /\ phase'[c] = "refused"
  BY <1>1, <1>2, OthersStay, FS_AddElement DEF Moved
<1>5. /\ \A i \in DOMAIN ledger' : ledger'[i].status # "planned"
      /\ \A i \in DOMAIN ledger : ledger'[i] = ledger[i]
      /\ Answers(ledger', c) = Answers(ledger, c)
  <2>1. CASE sealed
    <3>1. Grown(ledger', ledger, capsule)
      BY <1>2, <2>1
    <3>2. About(ledger', c) = About(ledger, c) \cup {Len(ledger) + 1} /\ \A i \in About(ledger, c) : ledger'[i] = ledger[i]
      BY <3>1, AboutGrows
    <3> QED
      BY <1>1, <3>1, <3>2 DEF Grown, Answers
  <2> QED
    BY <1>1, <1>2, <2>1
<1>6. \A h \in Heads(own3') : h[2] # 0 /\ ledger'[h[2]].status # "blocked"
  <2>1. \A h \in Heads(own3) : h[2] \in DOMAIN ledger
    BY <1>1 DEF KeeperOk, Pairs
  <2> QED
    BY <1>1, <1>5, <2>1
<1>7. Told(ledger', phase', lost', Keys(own1'), Keys(own3'), own5', include', c)
  BY <1>1, <1>4, <1>5 DEF Told, Answers
<1> QED
  BY <1>1, <1>3, <1>4, <1>5, <1>6, <1>7, OthersAreTold

LEMMA PlainIs ==
  ASSUME TableOk(own1), TableOk(own3), NEW c \in Calls, NEW sealed \in BOOLEAN, Run!SealPlain(c, sealed)
  PROVE  Answered(c, "dispatched", sealed)
<1>1. PICK yes : yes = TRUE
  OBVIOUS
<1>2. PICK capsule : capsule = Capsule(c, "dispatched", yes, 0, {})
  OBVIOUS
<1>3. capsule.call = c /\ capsule.prior = 0 /\ capsule.status = "dispatched" /\ Seal(capsule, sealed)
  <2>1. Run!Seal(Run!Capsule(c, "dispatched", yes, 0, {}), sealed)
    BY <1>1 DEF Run!SealPlain
  <2> QED
    BY <1>2, <2>1, RunEmitter DEF Capsule
<1>4. own3' = own3 /\ own1' = IF sealed THEN Run!Noted(own1, c) ELSE own1
  BY DEF Run!SealPlain, Run!SeenIf
<1>5. Marked(Run!Noted(own1, c), own1, c)
  BY NotedIs
<1> QED
  BY <1>3, <1>4, <1>5 DEF Answered, Marked

LEMMA PendingIs ==
  ASSUME TableOk(own1), TableOk(own3), NEW c \in Calls, NEW sealed \in BOOLEAN, Run!SealPending(c, sealed)
  PROVE  Answered(c, "pending", sealed)
<1>1. PICK yes : yes = TRUE
  OBVIOUS
<1>2. PICK capsule : capsule = Capsule(c, "pending", yes, 0, {})
  OBVIOUS
<1>3. PICK opened, full, old : /\ opened = Assign(own3, c, NextId)
                               /\ full = (Len(opened) > MaxLongRunning)
                               /\ old = opened[1].key
  OBVIOUS
<1>4. /\ Seal(capsule, sealed)
      /\ ~sealed => own1' = own1 /\ own3' = own3
      /\ sealed => /\ own3' = IF full THEN Tail(opened) ELSE opened
                   /\ own1' = Run!Noted(IF full THEN Without(own1, old) ELSE own1, c)
  <2>1. /\ Run!Seal(Run!Capsule(c, "pending", yes, 0, {}), sealed)
        /\ IF sealed
           THEN /\ own3' = IF full THEN Tail(opened) ELSE opened
                /\ own1' = Run!SeenIf(c, IF full THEN Run!Without(own1, old) ELSE own1, sealed)
           ELSE own3' = own3 /\ own1' = own1
    <3>1. opened = Run!Assign(own3, c, Run!NextId)
      BY <1>3, RunEmitter
    <3> QED
      BY <1>1, <1>3, <3>1 DEF Run!SealPending
  <2> QED
    BY <1>2, <2>1, RunEmitter DEF Run!SeenIf
<1>5. capsule.call = c /\ capsule.prior = 0 /\ capsule.status = "pending"
  BY <1>2 DEF Capsule
<1>6. Assigned(opened, own3, c, NextId)
  BY <1>3, AssignIs
<1>7. /\ TableOk(opened) /\ Len(opened) # 0
      /\ \A h \in Heads(opened) : h \in Heads(own3) \/ (h[1] = c /\ h[2] = NextId)
  <2>1. TableOk(opened) /\ <<c, NextId>> \in Heads(opened)
    BY <1>6 DEF Assigned
  <2>2. PICK i \in DOMAIN opened : <<c, NextId>> = <<opened[i].key, opened[i].val>>
    BY <2>1 DEF Heads
  <2>3. Len(opened) # 0
    BY <2>1, <2>2, SeqFacts DEF TableOk
  <2>4. <<c, NextId>>[1] = c /\ <<c, NextId>>[2] = NextId
    OBVIOUS
  <2> QED
    BY <1>6, <2>1, <2>3, <2>4 DEF Assigned
<1>8. TableOk(Tail(opened)) /\ Heads(Tail(opened)) \subseteq Heads(opened)
  <2>1. TableOk(Tail(opened)) /\ Heads(Tail(opened)) = HeadsAt(opened, 2..Len(opened))
    BY <1>7, OldestGone
  <2>2. 2..Len(opened) \subseteq DOMAIN opened
    BY <1>7, SeqFacts DEF TableOk
  <2> QED
    BY <2>1, <2>2 DEF HeadsAt, Heads
<1>9. Removed(Without(own1, old), own1, old)
  BY WithoutIs
<1>10. TableOk(Without(own1, old)) /\ Keys(Without(own1, old)) \subseteq Keys(own1)
  BY <1>9, KeysOf DEF Removed
<1>11. PICK kept : kept = IF full THEN Without(own1, old) ELSE own1
  OBVIOUS
<1>12. Marked(Run!Noted(kept, c), kept, c) /\ Keys(kept) \subseteq Keys(own1)
  BY <1>10, <1>11, NotedIs
<1>13. CASE sealed
  <2>1. own1' = Run!Noted(kept, c) /\ own3' = IF full THEN Tail(opened) ELSE opened
    BY <1>4, <1>11, <1>13
  <2>2. TableOk(own1') /\ c \in Keys(own1') /\ Keys(own1') \subseteq Keys(own1) \cup {c}
    BY <1>12, <2>1 DEF Marked
  <2>3. TableOk(own3') /\ \A h \in Heads(own3') : h \in Heads(own3) \/ (h[1] = c /\ h[2] = NextId)
    BY <1>7, <1>8, <2>1
  <2> QED
    BY <1>4, <1>5, <1>13, <2>2, <2>3 DEF Answered
<1>14. CASE ~sealed
  BY <1>4, <1>5, <1>14 DEF Answered
<1> QED
  BY <1>13, <1>14

LEMMA RefusalSteps ==
  ASSUME AdkOk(ledger, phase, lost, own1, own3, own5, include), NEW c \in Calls, NEW sealed \in BOOLEAN,
         Run!Guard(c, sealed)
  PROVE  AdkOk(ledger', phase', lost', own1', own3', own5', include')
<1>1. PICK yes : yes = TRUE
  OBVIOUS
<1>2. PICK capsule : capsule = Capsule(c, "blocked", yes, 0, {})
  OBVIOUS
<1>3. /\ phase[c] = "running" /\ Moved(phase', phase, c, "refused") /\ Seal(capsule, sealed)
      /\ own1' = own1 /\ own3' = own3 /\ own5' = own5 /\ include' = include
  <2>1. /\ Run!Becomes(c, "running", "refused")
        /\ Run!Seal(Run!Capsule(c, "blocked", yes, 0, {}), sealed)
        /\ own1' = own1 /\ own3' = own3 /\ own5' = own5 /\ include' = include
    BY <1>1 DEF Run!Guard, Run!adkVars
  <2>2. DOMAIN phase = Calls
    BY DEF AdkOk, KeeperOk
  <2> QED
    BY <1>2, <2>1, <2>2, RunEmitter, BecomesMoves
<1>4. capsule.call = c /\ capsule.status = "blocked" /\ capsule.prior = 0
  BY <1>2 DEF Capsule
<1> QED
  BY <1>3, <1>4, RefusalKept

LEMMA TapCallSteps ==
  ASSUME AdkOk(ledger, phase, lost, own1, own3, own5, include), NEW c \in Calls, Run!TapCall(c)
  PROVE  AdkOk(ledger', phase', lost', own1', own3', own5', include')
<1>1. /\ phase[c] = "new" /\ Moved(phase', phase, c, "running")
      /\ ledger' = ledger /\ lost' = lost /\ include' = include
      /\ own1' = own1 /\ own3' = own3 /\ own5' = own5
  <2>1. /\ Run!Becomes(c, "new", "running") /\ ledger' = ledger /\ lost' = lost /\ include' = include
        /\ own1' = own1 /\ own3' = own3 /\ own5' = own5
    BY DEF Run!TapCall
  <2>2. DOMAIN phase = Calls
    BY DEF AdkOk, KeeperOk
  <2> QED
    BY <2>1, <2>2, RunEmitter, BecomesMoves
<1> QED
  BY <1>1, QuietKept

\* The callback's record of an answer, or the application's of an error.
LEMMA CallbackSteps ==
  ASSUME AdkOk(ledger, phase, lost, own1, own3, own5, include), NEW c \in Calls, NEW sealed \in BOOLEAN,
         Run!AfterToolCallback(c, sealed) \/ Run!EmitErrored(c, sealed)
  PROVE  AdkOk(ledger', phase', lost', own1', own3', own5', include')
<1>1. TableOk(own1) /\ TableOk(own3) /\ DOMAIN phase = Calls
  BY DEF AdkOk, KeeperOk
<1>2. /\ phase[c] \in {"running", "refused"} /\ Moved(phase', phase, c, "returned") /\ include' = include
      /\ own5' = own5 \cup (Keys(own1) \ Keys(own1'))
      /\ \/ c \in Keys(own1) /\ ledger' = ledger /\ lost' = lost /\ own1' = own1 /\ own3' = own3
         \/ (c \notin Keys(own1) \/ phase[c] = "running") /\ (Run!SealPending(c, sealed) \/ Run!SealPlain(c, sealed))
  <2>1. CASE Run!AfterToolCallback(c, sealed)
    <3>1. /\ phase[c] \in {"running", "refused"} /\ phase' = [phase EXCEPT ![c] = "returned"]
          /\ include' = include /\ own5' = own5 \cup Run!GoneFrom(own1, own1')
          /\ IF c \in Run!Keys(own1) THEN Run!SealNothing
             ELSE Run!SealPending(c, sealed) \/ Run!SealPlain(c, sealed)
      BY <2>1 DEF Run!AfterToolCallback
    <3>2. Moved(phase', phase, c, "returned")
      BY <1>1, <3>1 DEF Moved
    <3>3. Run!SealNothing => ledger' = ledger /\ lost' = lost /\ own1' = own1 /\ own3' = own3
      BY DEF Run!SealNothing
    <3>4. Run!GoneFrom(own1, own1') = Keys(own1) \ Keys(own1') /\ Run!Keys(own1) = Keys(own1)
      BY RunEmitter DEF Run!GoneFrom
    <3> QED
      BY <3>1, <3>2, <3>3, <3>4
  <2>2. CASE Run!EmitErrored(c, sealed)
    <3>1. /\ Run!Becomes(c, "running", "returned")
          /\ include' = include /\ own5' = own5 \cup Run!GoneFrom(own1, own1')
          /\ Run!SealPlain(c, sealed)
      BY <2>2 DEF Run!EmitErrored
    <3>2. phase[c] = "running" /\ Moved(phase', phase, c, "returned")
      BY <1>1, <3>1, RunEmitter, BecomesMoves
    <3>3. Run!GoneFrom(own1, own1') = Keys(own1) \ Keys(own1')
      BY RunEmitter DEF Run!GoneFrom
    <3> QED
      BY <3>1, <3>2, <3>3
  <2> QED
    BY <2>1, <2>2
<1>3. CASE c \in Keys(own1) /\ ledger' = ledger /\ lost' = lost /\ own1' = own1 /\ own3' = own3
  <2>1. own5' = own5
    BY <1>2, <1>3
  <2> QED
    BY <1>2, <1>3, <2>1, QuietKept
<1>4. CASE (c \notin Keys(own1) \/ phase[c] = "running") /\ (Run!SealPending(c, sealed) \/ Run!SealPlain(c, sealed))
  <2>1. PICK status \in {"pending", "dispatched"} : Answered(c, status, sealed)
    BY <1>1, <1>4, PlainIs, PendingIs
  <2>2. c \in Keys(own1) => phase[c] = "running"
    BY <1>4
  <2> QED
    BY <1>2, <2>1, <2>2, AnswerKept
<1> QED
  BY <1>2, <1>3, <1>4

\* The next answer of a chain.
LEMMA UpdateIs ==
  ASSUME AdkOk(ledger, phase, lost, own1, own3, own5, include), NEW c \in Calls, c \in Keys(own3),
         NEW final \in BOOLEAN, NEW sealed \in BOOLEAN, Run!SealUpdate(c, final, sealed),
         Moved(phase', phase, c, "done"), include' = include, own5' = own5 \cup (Keys(own1) \ Keys(own1'))
  PROVE  AdkOk(ledger', phase', lost', own1', own3', own5', include')
<1>1. PICK yes : yes = TRUE
  OBVIOUS
<1>2. PICK status : status = IF final THEN "final" ELSE "update"
  OBVIOUS
<1>3. PICK capsule : capsule = Capsule(c, status, yes, Get(own3, c, 0), {})
  OBVIOUS
<1>4. PICK rest : rest = Without(own3, c)
  OBVIOUS
<1>5. /\ Seal(capsule, sealed) /\ own1' = own1
      /\ own3' = IF ~sealed THEN own3 ELSE IF final THEN rest ELSE Append(rest, [key |-> c, val |-> NextId])
  <2>1. /\ Run!Seal(Run!Capsule(c, status, yes, Run!Get(own3, c, 0), {}), sealed) /\ own1' = own1
        /\ own3' = IF ~sealed THEN own3
                   ELSE IF final THEN Run!Without(own3, c)
                   ELSE Append(Run!Without(own3, c), [key |-> c, val |-> Run!NextId])
    BY <1>1, <1>2 DEF Run!SealUpdate
  <2> QED
    BY <1>3, <1>4, <2>1, RunEmitter
<1>6. capsule.call = c /\ capsule.status = status /\ capsule.prior = Get(own3, c, 0)
  BY <1>3 DEF Capsule
<1>7. TableOk(rest) /\ Heads(rest) = {h \in Heads(own3) : h[1] # c} /\ c \notin Keys(rest)
  <2>1. Removed(rest, own3, c)
    BY <1>4, WithoutIs DEF AdkOk
  <2> QED
    BY <2>1, KeysOf DEF Removed
<1>8. Assigned(Append(rest, [key |-> c, val |-> NextId]), rest, c, NextId)
  BY <1>7, AppendedKey
<1>9. sealed => /\ TableOk(own3')
                /\ \A h \in Heads(own3') : \/ h \in Heads(own3) /\ h[1] # c
                                           \/ h[1] = c /\ h[2] = NextId /\ capsule.status = "update"
  <2>1. CASE ~final
    <3>1. <<c, NextId>>[1] = c /\ <<c, NextId>>[2] = NextId
      OBVIOUS
    <3> QED
      BY <1>2, <1>5, <1>6, <1>7, <1>8, <2>1, <3>1 DEF Assigned
  <2>2. CASE final
    BY <1>5, <1>7, <2>2
  <2> QED
    BY <2>1, <2>2
<1>10. own5' = own5 /\ (~sealed => own3' = own3) /\ capsule.status \in {"update", "final"}
  BY <1>2, <1>5, <1>6
<1> QED
  BY <1>5, <1>6, <1>9, <1>10, UpdateKept

LEMMA TapResponseSteps ==
  ASSUME AdkOk(ledger, phase, lost, own1, own3, own5, include), NEW c \in Calls, NEW final \in BOOLEAN,
         NEW sealed \in BOOLEAN, Run!TapResponse(c, final, sealed)
  PROVE  AdkOk(ledger', phase', lost', own1', own3', own5', include')
<1>1. TableOk(own1) /\ TableOk(own3) /\ DOMAIN phase = Calls
  BY DEF AdkOk, KeeperOk
<1>2. /\ Moved(phase', phase, c, "done") /\ include' = include
      /\ include => phase[c] \in {"returned", "done"}
      /\ own5' = own5 \cup (Keys(own1) \ Keys(own1'))
      /\ \/ /\ c \in Keys(own3) \cup Keys(own1)
            /\ ledger' = ledger /\ lost' = lost /\ own1' = own1 /\ own3' = own3
         \/ c \in Keys(own3) /\ Run!SealUpdate(c, final, sealed)
         \/ c \notin Keys(own1) /\ (Run!SealPending(c, sealed) \/ Run!SealPlain(c, sealed))
  <2>1. /\ phase[c] \in {"running", "refused", "returned", "done"}
        /\ phase[c] \in {"running", "refused"} => ~include
        /\ phase' = [phase EXCEPT ![c] = "done"]
        /\ include' = include /\ own5' = own5 \cup Run!GoneFrom(own1, own1')
        /\ IF c \in Run!Keys(own3)
           THEN Run!SealNothing \/ Run!SealUpdate(c, final, sealed)
           ELSE IF c \in Run!Keys(own1) THEN Run!SealNothing
           ELSE Run!SealPending(c, sealed) \/ Run!SealPlain(c, sealed)
    BY DEF Run!TapResponse
  <2>2. Moved(phase', phase, c, "done")
    BY <1>1, <2>1 DEF Moved
  <2>3. Run!SealNothing => ledger' = ledger /\ lost' = lost /\ own1' = own1 /\ own3' = own3
    BY DEF Run!SealNothing
  <2>4. Run!GoneFrom(own1, own1') = Keys(own1) \ Keys(own1') /\ \A table : Run!Keys(table) = Keys(table)
    BY RunEmitter DEF Run!GoneFrom
  <2> QED
    BY <2>1, <2>2, <2>3, <2>4
<1>3. CASE /\ c \in Keys(own3) \cup Keys(own1)
           /\ ledger' = ledger /\ lost' = lost /\ own1' = own1 /\ own3' = own3
  <2>1. own5' = own5
    BY <1>2, <1>3
  <2> QED
    BY <1>2, <1>3, <2>1, QuietKept
<1>4. CASE c \in Keys(own3) /\ Run!SealUpdate(c, final, sealed)
  BY <1>2, <1>4, UpdateIs
<1>5. CASE c \notin Keys(own1) /\ (Run!SealPending(c, sealed) \/ Run!SealPlain(c, sealed))
  <2>1. PICK status \in {"pending", "dispatched"} : Answered(c, status, sealed)
    BY <1>1, <1>5, PlainIs, PendingIs
  <2>2. c \in Keys(own1) => phase[c] = "running"
    BY <1>5
  <2> QED
    BY <1>2, <2>1, <2>2, AnswerKept
<1> QED
  BY <1>2, <1>3, <1>4, <1>5

LEMMA AdkStep == AdkInv /\ [Next]_vars => AdkInv'
<1>1. CASE UNCHANGED vars
  <2>1. /\ ledger' = ledger /\ phase' = phase /\ lost' = lost /\ include' = include
        /\ own1' = own1 /\ own3' = own3 /\ own5' = own5 /\ adapter' = adapter
    BY <1>1 DEF vars, emitterVars
  <2> QED
    BY <2>1 DEF AdkInv
<1>2. ASSUME AdkOk(ledger, phase, lost, own1, own3, own5, include), Run!AdkNext
      PROVE  AdkOk(ledger', phase', lost', own1', own3', own5', include')
  <2> PICK c \in Calls :
        \/ Run!TapCall(c)
        \/ \E sealed \in BOOLEAN :
            \/ Run!Guard(c, sealed)
            \/ Run!AfterToolCallback(c, sealed)
            \/ Run!EmitErrored(c, sealed)
            \/ \E final \in BOOLEAN : Run!TapResponse(c, final, sealed)
    BY <1>2 DEF Run!AdkNext
  <2>1. CASE Run!TapCall(c)
    BY <1>2, <2>1, TapCallSteps
  <2>2. ASSUME NEW sealed \in BOOLEAN, Run!Guard(c, sealed)
        PROVE  AdkOk(ledger', phase', lost', own1', own3', own5', include')
    BY <1>2, <2>2, RefusalSteps
  <2>3. ASSUME NEW sealed \in BOOLEAN, Run!AfterToolCallback(c, sealed) \/ Run!EmitErrored(c, sealed)
        PROVE  AdkOk(ledger', phase', lost', own1', own3', own5', include')
    BY <1>2, <2>3, CallbackSteps
  <2>4. ASSUME NEW sealed \in BOOLEAN, NEW final \in BOOLEAN, Run!TapResponse(c, final, sealed)
        PROVE  AdkOk(ledger', phase', lost', own1', own3', own5', include')
    BY <1>2, <2>4, TapResponseSteps
  <2> QED
    BY <2>1, <2>2, <2>3, <2>4
<1>3. ASSUME AdkInv, Next PROVE AdkInv'
  BY <1>2, <1>3 DEF AdkInv, Next
<1> QED
  BY <1>1, <1>3

LEMMA AdkHolds ==
  ASSUME AdkInv, adapter = "adk"
  PROVE  CitationsAreTrue /\ OutcomesAreRecordedOnce
<1>1. AdkOk(ledger, phase, lost, own1, own3, own5, include)
  BY DEF AdkInv
<1>2. ChainsPairTheSameCall /\ PriorsAreNotShared /\ OutcomesRecorded
  BY <1>1, KeeperHolds DEF AdkOk
<1>3. \A c : Answers(ledger, c) = {k \in Sealed : ledger[k].call = c /\ ledger[k].status # "blocked"}
  BY DEF Answers, About, Sealed
<1>4. OneRecordPerCall
  BY <1>1, <1>3 DEF OneRecordPerCall, AdkOk, Told
<1>5. EitherObserverSeals
  <2> SUFFICES ASSUME include, MaxLost = 1, NEW c \in Calls \ own5, phase[c] = "done"
               PROVE  \E i \in OutcomesOf(c) : ledger[i].status # "blocked"
    BY DEF EitherObserverSeals
  <2>1. Answers(ledger, c) # {}
    BY <1>1 DEF AdkOk, Told
  <2>2. Answers(ledger, c) \subseteq OutcomesOf(c)
    BY <1>1 DEF AdkOk, Answers, About, OutcomesOf, Sealed
  <2> QED
    BY <2>1, <2>2 DEF Answers
<1> QED
  BY <1>2, <1>4, <1>5, OnlyItsOwn, AllTogether

-----------------------------------------------------------------------------
(* The gateway                                                              *)

Begun == {"running", "gone", "resolved", "raised", "done"}
In(ph, states) == {c \in Calls : ph[c] \in states}

\* What is open: an entry that waits, one that is about to, one taken.
Waiting(ph, table, made, taken) ==
    Heads(table) \cup {<<c, made[c]>> : c \in In(ph, {"sealing"})}
                 \cup {<<taken[c].key, taken[c].val>> : c \in In(ph, {"resolved"})}

\* An entry waits or is taken by one response, and its request was answered
\* to the gateway before.
EntriesAreApart(ph, table, taken) ==
    /\ Keys(table) \subseteq In(ph, Begun)
    /\ \A c \in In(ph, {"resolved"}) : taken[c].val # 0 =>
           /\ taken[c].key \in In(ph, Begun) /\ taken[c].key \notin Keys(table)
           /\ \A d \in In(ph, {"resolved"}) :
                  taken[d].val # 0 /\ taken[d].key = taken[c].key => d = c

\* While requests come one at a time, the one entry that has not expired is
\* that of the one call that is under way.
OneAtATime(ph, table, stale, taken) ==
    /\ \A c, d \in In(ph, {"sealing", "running", "resolved"}) : c = d
    /\ Len(table) <= stale + 1
    /\ \A c \in In(ph, {"sealing", "running", "resolved"}) : \A i \in DOMAIN table :
           i > stale => ph[c] = "running" /\ table[i].key = c
    /\ \A c \in In(ph, {"resolved"}) :
           taken[c].pairing = "unmatched" \/ (taken[c].pairing = "paired" /\ taken[c].key = c)

PairingIsTold(capsule) ==
    \A m \in capsule.marks : (m[1] = "paired" => m[2] = capsule.call) /\ m[1] # "unresolved"

GatewayOk(led, ph, table, made, stale, taken, over) ==
    /\ DOMAIN ph = Calls /\ DOMAIN made = Calls /\ DOMAIN taken = Calls
    /\ TableOk(table) /\ stale \in Nat /\ stale <= Len(table)
    /\ Pairs(FALSE, led, Waiting(ph, table, made, taken))
    /\ EntriesAreApart(ph, table, taken)
    /\ ~over => /\ OneAtATime(ph, table, stale, taken)
                /\ \A i \in DOMAIN led : PairingIsTold(led[i])

GatewayInv == adapter = "gateway" => GatewayOk(ledger, phase, pending, own1, own2, own3, own4)

LEMMA GatewayStart == Init => GatewayInv
<1> SUFFICES ASSUME EmitterInit, Record!GatewayInit PROVE GatewayOk(ledger, phase, pending, own1, own2, own3, own4)
  BY DEF Init, GatewayInv
<1>1. DOMAIN own1 = Calls /\ DOMAIN own3 = Calls /\ own2 = 0 /\ pending = <<>>
  BY DEF Record!GatewayInit, EmitterInit
<1>2. /\ TableOk(pending) /\ DOMAIN ledger = {} /\ Heads(pending) = {} /\ DOMAIN phase = Calls
      /\ \A c \in Calls : phase[c] = "new"
      /\ \A bySignature : Pairs(bySignature, ledger, Heads(pending))
  BY NothingYet
<1>3. Keys(pending) = {} /\ DOMAIN pending = {} /\ Len(pending) = 0
  BY <1>1 DEF Keys
<1>4. In(phase, {"sealing"}) = {} /\ In(phase, {"resolved"}) = {} /\ In(phase, {"sealing", "running", "resolved"}) = {}
  BY <1>2 DEF In
<1>5. Waiting(phase, pending, own1, own3) = {}
  BY <1>2, <1>4 DEF Waiting
<1>6. Pairs(FALSE, ledger, Waiting(phase, pending, own1, own3))
  BY <1>2, <1>5
<1>7. EntriesAreApart(phase, pending, own3) /\ OneAtATime(phase, pending, own2, own3)
  BY <1>1, <1>3, <1>4 DEF EntriesAreApart, OneAtATime
<1>8. own2 \in Nat /\ own2 <= Len(pending)
  BY <1>1, <1>3
<1> QED
  BY <1>1, <1>2, <1>6, <1>7, <1>8 DEF GatewayOk

LEMMA RequestSteps ==
  ASSUME GatewayOk(ledger, phase, pending, own1, own2, own3, own4), NEW c \in Calls, NEW sealed \in BOOLEAN,
         Record!CheckRequest(c, sealed)
  PROVE  GatewayOk(ledger', phase', pending', own1', own2', own3', own4')
<1>1. PICK no : no = FALSE
  OBVIOUS
<1>2. PICK capsule : capsule = Capsule(c, "planned", no, 0, {})
  OBVIOUS
<1>3. PICK id : id = IdIf(sealed)
  OBVIOUS
<1>4. DOMAIN phase = Calls /\ DOMAIN own1 = Calls /\ IsSeq(ledger)
  BY DEF GatewayOk, Pairs
<1>5. /\ phase[c] = "new" /\ Moved(phase', phase, c, "sealing") /\ Seal(capsule, sealed)
      /\ Moved(own1', own1, c, id) /\ pending' = pending /\ own2' = own2 /\ own3' = own3
      /\ own4' = (own4 \/ own2 < Len(pending) \/ \E d \in Calls : phase[d] \in {"sealing", "running", "resolved"})
  <2>1. /\ Record!Becomes(c, "new", "sealing")
        /\ Record!Seal(Record!Capsule(c, "planned", no, 0, {}), sealed)
        /\ own1' = [own1 EXCEPT ![c] = Record!IdIf(sealed)]
        /\ pending' = pending /\ own2' = own2 /\ own3' = own3
        /\ own4' = (own4 \/ own2 < Len(pending) \/ \E d \in Calls : phase[d] \in {"sealing", "running", "resolved"})
    BY <1>1 DEF Record!CheckRequest
  <2>2. Moved(own1', own1, c, id)
    BY <1>3, <1>4, <2>1, RecordEmitter DEF Moved
  <2> QED
    BY <1>2, <1>4, <2>1, <2>2, RecordEmitter, BecomesMoves
<1>6. capsule.call = c /\ capsule.prior = 0 /\ capsule.marks = {}
  BY <1>2 DEF Capsule
<1>7. /\ Wrote(ledger', lost', ledger, lost, capsule)
      /\ sealed => Grown(ledger', ledger, capsule)
  BY <1>4, <1>5, SealWrites
<1>8. /\ In(phase', {"sealing"}) = In(phase, {"sealing"}) \cup {c} /\ c \notin In(phase, {"sealing"})
      /\ In(phase', {"resolved"}) = In(phase, {"resolved"})
  BY <1>5 DEF In, Moved
<1>9. ASSUME NEW h \in Waiting(phase', pending', own1', own3')
      PROVE  h \in Waiting(phase, pending, own1, own3) \/ h = <<c, id>>
  <2>1. \A d \in In(phase, {"sealing"}) : own1'[d] = own1[d]
    BY <1>5, <1>8 DEF Moved, In
  <2>2. own1'[c] = id
    BY <1>5 DEF Moved
  <2> QED
    BY <1>5, <1>8, <1>9, <2>1, <2>2 DEF Waiting
<1>10. Pairs(FALSE, ledger', Waiting(phase', pending', own1', own3'))
  <2>1. Reopened(FALSE, Waiting(phase', pending', own1', own3'), Waiting(phase, pending, own1, own3), ledger', ledger, capsule)
    <3> SUFFICES ASSUME NEW h \in Waiting(phase', pending', own1', own3'), h[2] # 0
                 PROVE  \/ h \in Waiting(phase, pending, own1, own3) /\ h[2] # capsule.prior
                        \/ /\ Grown(ledger', ledger, capsule) /\ h[1] = Name(FALSE, capsule.call)
                           /\ h[2] = Len(ledger) + 1
      BY DEF Reopened
    <3>1. CASE h \in Waiting(phase, pending, own1, own3)
      BY <1>6, <3>1
    <3>2. CASE h = <<c, id>>
      <4>1. h[1] = c /\ h[2] = id /\ sealed
        BY <1>3, <3>2 DEF IdIf
      <4> QED
        BY <1>3, <1>6, <1>7, <4>1 DEF Name, IdIf, NextId
    <3> QED
      BY <1>9, <3>1, <3>2
  <2>2. Pairs(FALSE, ledger, Waiting(phase, pending, own1, own3))
    BY DEF GatewayOk
  <2> QED
    BY <1>6, <1>7, <2>1, <2>2, PairsStep
<1>11. EntriesAreApart(phase', pending', own3')
  <2>1. EntriesAreApart(phase, pending, own3)
    BY DEF GatewayOk
  <2>2. In(phase, Begun) \subseteq In(phase', Begun)
    BY <1>5 DEF Moved, In, Begun
  <2> QED
    BY <1>5, <1>8, <2>1, <2>2 DEF EntriesAreApart
<1>12. ASSUME ~own4'
       PROVE  /\ OneAtATime(phase', pending', own2', own3')
              /\ \A i \in DOMAIN ledger' : PairingIsTold(ledger'[i])
  <2>1. /\ ~own4 /\ own2 \in Nat /\ own2 <= Len(pending) /\ ~(own2 < Len(pending))
        /\ In(phase, {"sealing", "running", "resolved"}) = {}
    BY <1>5, <1>12 DEF GatewayOk, In
  <2>2. /\ TableOk(pending) /\ OneAtATime(phase, pending, own2, own3)
        /\ \A i \in DOMAIN ledger : PairingIsTold(ledger[i])
    BY <2>1 DEF GatewayOk
  <2>3. In(phase', {"sealing", "running", "resolved"}) = {c} /\ In(phase', {"resolved"}) = {}
    BY <1>5, <2>1 DEF In, Moved
  <2>4. \A i \in DOMAIN pending : ~(i > own2)
    BY <2>1, <2>2, SeqFacts DEF TableOk
  <2>5. OneAtATime(phase', pending', own2', own3')
    BY <1>5, <2>1, <2>2, <2>3, <2>4 DEF OneAtATime
  <2>6. PairingIsTold(capsule)
    BY <1>6 DEF PairingIsTold
  <2>7. \A i \in DOMAIN ledger' : ledger'[i] = capsule \/ (i \in DOMAIN ledger /\ ledger'[i] = ledger[i])
    BY <1>7 DEF Wrote, Grown
  <2>8. \A i \in DOMAIN ledger' : PairingIsTold(ledger'[i])
    BY <2>2, <2>6, <2>7
  <2> QED
    BY <2>5, <2>8
<1>13. /\ DOMAIN phase' = Calls /\ DOMAIN own1' = Calls /\ DOMAIN own3' = Calls
       /\ TableOk(pending') /\ own2' \in Nat /\ own2' <= Len(pending')
  BY <1>5 DEF GatewayOk, Moved
<1> QED
  BY <1>10, <1>11, <1>12, <1>13 DEF GatewayOk

LEMMA AppendSteps ==
  ASSUME GatewayOk(ledger, phase, pending, own1, own2, own3, own4), NEW c \in Calls, Record!AppendPending(c)
  PROVE  GatewayOk(ledger', phase', pending', own1', own2', own3', own4')
<1>1. PICK e : e = [key |-> c, val |-> own1[c]]
  OBVIOUS
<1>2. /\ phase[c] = "sealing" /\ Moved(phase', phase, c, "running") /\ pending' = Append(pending, e)
      /\ ledger' = ledger /\ own1' = own1 /\ own2' = own2 /\ own3' = own3 /\ own4' = own4
  <2>1. /\ Record!Becomes(c, "sealing", "running") /\ pending' = Append(pending, [key |-> c, val |-> own1[c]])
        /\ ledger' = ledger /\ own1' = own1 /\ own2' = own2 /\ own3' = own3 /\ own4' = own4
    BY DEF Record!AppendPending, Record!gatewayVars
  <2>2. DOMAIN phase = Calls
    BY DEF GatewayOk
  <2> QED
    BY <1>1, <2>1, <2>2, RecordEmitter, BecomesMoves
<1>3. /\ TableOk(pending) /\ EntriesAreApart(phase, pending, own3) /\ IsSeq(pending)
      /\ Pairs(FALSE, ledger, Waiting(phase, pending, own1, own3))
  BY DEF GatewayOk, TableOk
<1>4. c \notin Keys(pending) /\ c \notin In(phase, Begun) /\ In(phase, Begun) \cup {c} = In(phase', Begun)
  BY <1>2, <1>3 DEF EntriesAreApart, In, Begun, Moved
<1>5. /\ TableOk(pending') /\ Heads(pending') \subseteq Heads(pending) \cup {<<c, own1[c]>>}
      /\ Keys(pending') \subseteq Keys(pending) \cup {c}
  <2>1. Assigned(Append(pending, [key |-> c, val |-> own1[c]]), pending, c, own1[c])
    BY <1>3, <1>4, AppendedKey
  <2>2. TableOk(pending') /\ Heads(pending') \subseteq Heads(pending) \cup {<<c, own1[c]>>}
    BY <1>1, <1>2, <2>1 DEF Assigned
  <2>3. <<c, own1[c]>>[1] = c
    OBVIOUS
  <2>4. \A h \in Heads(pending') : h[1] \in Keys(pending) \cup {c}
    BY <2>2, <2>3, KeysOf
  <2> QED
    BY <2>2, <2>4, KeysOf
<1>6. /\ In(phase', {"sealing"}) = In(phase, {"sealing"}) \ {c} /\ c \in In(phase, {"sealing"})
      /\ In(phase', {"resolved"}) = In(phase, {"resolved"})
      /\ In(phase', {"sealing", "running", "resolved"}) = In(phase, {"sealing", "running", "resolved"})
      /\ c \in In(phase, {"sealing", "running", "resolved"})
  BY <1>2 DEF In, Moved
<1>7. Waiting(phase', pending', own1', own3') \subseteq Waiting(phase, pending, own1, own3)
  BY <1>2, <1>5, <1>6 DEF Waiting
<1>8. Pairs(FALSE, ledger', Waiting(phase', pending', own1', own3'))
  BY <1>2, <1>3, <1>7, PairsShrink
<1>9. EntriesAreApart(phase', pending', own3')
  BY <1>2, <1>3, <1>4, <1>5, <1>6 DEF EntriesAreApart
<1>10. Grown(pending', pending, e) /\ e.key = c
  BY <1>1, <1>2, <1>3, OneMore
<1>11. own2' \in Nat /\ own2' <= Len(pending')
  BY <1>2, <1>10 DEF GatewayOk, Grown
<1>12. ASSUME ~own4'
       PROVE  /\ OneAtATime(phase', pending', own2', own3')
              /\ \A i \in DOMAIN ledger' : PairingIsTold(ledger'[i])
  <2>1. /\ OneAtATime(phase, pending, own2, own3) /\ own2 \in Nat /\ own2 <= Len(pending)
        /\ \A i \in DOMAIN ledger : PairingIsTold(ledger[i])
    BY <1>2, <1>12 DEF GatewayOk
  <2>2. \A i \in DOMAIN pending : ~(i > own2)
    BY <1>2, <1>6, <2>1 DEF OneAtATime
  <2>3. \A d \in In(phase, {"sealing", "running", "resolved"}) : d = c
    BY <1>6, <2>1 DEF OneAtATime
  <2>4. Len(pending') <= own2 + 1
    <3>1. Len(pending) \in Nat /\ DOMAIN pending = 1..Len(pending) /\ Len(pending') = Len(pending) + 1
      BY <1>3, <1>10, SeqFacts DEF Grown
    <3>2. ~(Len(pending) > own2)
      BY <2>1, <2>2, <3>1
    <3> QED
      BY <2>1, <3>1, <3>2
  <2>5. \A i \in DOMAIN pending' : i > own2 => pending'[i].key = c
    BY <1>10, <2>2 DEF Grown
  <2>6. phase'[c] = "running"
    BY <1>2 DEF Moved
  <2>7. OneAtATime(phase', pending', own2', own3')
    BY <1>2, <1>6, <2>1, <2>3, <2>4, <2>5, <2>6 DEF OneAtATime
  <2> QED
    BY <1>2, <2>1, <2>7
<1>13. DOMAIN phase' = Calls /\ DOMAIN own1' = Calls /\ DOMAIN own3' = Calls
  BY <1>2 DEF GatewayOk, Moved
<1> QED
  BY <1>5, <1>8, <1>9, <1>11, <1>12, <1>13 DEF GatewayOk

\* No response comes, or time passes.
LEMMA StayingSteps ==
  ASSUME GatewayOk(ledger, phase, pending, own1, own2, own3, own4),
         Record!PassTTL \/ \E c \in Calls : Record!RejectedDownstream(c)
  PROVE  GatewayOk(ledger', phase', pending', own1', own2', own3', own4')
<1>1. CASE Record!PassTTL
  <2>1. /\ own2 < Len(pending) /\ own2' = own2 + 1
        /\ ledger' = ledger /\ phase' = phase /\ pending' = pending /\ own1' = own1 /\ own3' = own3 /\ own4' = own4
    BY <1>1 DEF Record!PassTTL, Record!emitterVars
  <2>2. /\ own2 \in Nat /\ own2 <= Len(pending) /\ Len(pending) \in Nat
        /\ \A i \in DOMAIN pending : i \in Nat
    BY SeqFacts DEF GatewayOk, TableOk
  <2>3. own2' \in Nat /\ own2' <= Len(pending')
    BY <2>1, <2>2
  <2>4. OneAtATime(phase, pending, own2, own3) => OneAtATime(phase', pending', own2', own3')
    <3>1. \A i \in DOMAIN pending : i > own2 + 1 => i > own2
      BY <2>2
    <3>2. Len(pending) <= own2 + 1 => Len(pending) <= (own2 + 1) + 1
      BY <2>2
    <3> QED
      BY <2>1, <3>1, <3>2 DEF OneAtATime
  <2> QED
    BY <2>1, <2>3, <2>4 DEF GatewayOk
<1>2. ASSUME NEW c \in Calls, Record!RejectedDownstream(c)
      PROVE  GatewayOk(ledger', phase', pending', own1', own2', own3', own4')
  <2>1. /\ phase[c] = "running" /\ Moved(phase', phase, c, "gone")
        /\ ledger' = ledger /\ pending' = pending /\ own1' = own1 /\ own2' = own2 /\ own3' = own3 /\ own4' = own4
    <3>1. /\ Record!Becomes(c, "running", "gone") /\ ledger' = ledger /\ pending' = pending
          /\ own1' = own1 /\ own2' = own2 /\ own3' = own3 /\ own4' = own4
      BY <1>2 DEF Record!RejectedDownstream, Record!gatewayVars
    <3>2. DOMAIN phase = Calls
      BY DEF GatewayOk
    <3> QED
      BY <3>1, <3>2, RecordEmitter, BecomesMoves
  <2>2. /\ In(phase', {"sealing"}) = In(phase, {"sealing"}) /\ In(phase', {"resolved"}) = In(phase, {"resolved"})
        /\ In(phase', {"sealing", "running", "resolved"}) \subseteq In(phase, {"sealing", "running", "resolved"})
        /\ In(phase', Begun) = In(phase, Begun)
        /\ \A d \in In(phase', {"sealing", "running", "resolved"}) : phase'[d] = phase[d]
    BY <2>1 DEF In, Moved, Begun
  <2>3. Waiting(phase', pending', own1', own3') = Waiting(phase, pending, own1, own3)
    BY <2>1, <2>2 DEF Waiting
  <2>4. EntriesAreApart(phase, pending, own3) => EntriesAreApart(phase', pending', own3')
    BY <2>1, <2>2 DEF EntriesAreApart
  <2>5. OneAtATime(phase, pending, own2, own3) => OneAtATime(phase', pending', own2', own3')
    BY <2>1, <2>2 DEF OneAtATime
  <2>6. DOMAIN phase' = Calls
    BY <2>1 DEF Moved
  <2> QED
    BY <2>1, <2>3, <2>4, <2>5, <2>6 DEF GatewayOk
<1> QED
  BY <1>1, <1>2

\* What a response takes: nothing, or the one entry that has not expired.
LEMMA PairedIs ==
  ASSUME NEW table, TableOk(table), NEW old \in Nat, old <= Len(table), NEW entry,
         entry = Record!Paired(SubSeq(table, old + 1, Len(table)))
  PROVE  /\ entry.val # 0 => <<entry.key, entry.val>> \in Heads(table)
         /\ entry.pairing \in {"unmatched", "paired", "unresolved"}
         /\ entry.pairing = "paired" => \E i \in DOMAIN table : i > old /\ entry.key = table[i].key
         /\ Len(table) <= old + 1 => entry.pairing # "unresolved"
<1>1. IsSeq(table) /\ Len(table) \in Nat /\ DOMAIN table = 1..Len(table)
  BY SeqFacts DEF TableOk
<1>2. PICK n \in Nat : n = Len(table)
  BY <1>1
<1>3. PICK first : first = old + 1
  OBVIOUS
<1>4. PICK rest : rest = SubSeq(table, first, n)
  OBVIOUS
<1>5. first \in 1..(n + 1) /\ n \in 0..n /\ first <= n + 1 /\ n - first + 1 = n - old
  BY <1>2, <1>3
<1>6. PartOf(rest, table, first..n)
  BY <1>1, <1>2, <1>4, <1>5, RestIs
<1>7. IsSeq(rest) /\ Heads(rest) = HeadsAt(table, first..n) /\ first..n \subseteq DOMAIN table
  <2>1. TableOk(rest) /\ Heads(rest) = HeadsAt(table, first..n)
    BY <1>6, PartIsTable
  <2> QED
    BY <1>6, <2>1 DEF PartOf
<1>8. Len(rest) = n - old
  <2> DEFINE S == {table[i] : i \in DOMAIN table}
  <2>1. table \in Seq(S)
    BY <1>1 DEF IsSeq
  <2> HIDE DEF S
  <2> QED
    BY <1>2, <1>4, <1>5, <2>1, SubSeqIs
<1>9. /\ rest = <<>> => entry = [Record!NoEntry EXCEPT !.pairing = "unmatched"]
      /\ rest # <<>> /\ Len(rest) = 1 => entry = [key |-> rest[1].key, val |-> rest[1].val, pairing |-> "paired"]
      /\ rest # <<>> /\ Len(rest) # 1 => entry = [Record!NoEntry EXCEPT !.pairing = "unresolved"]
  BY <1>2, <1>3, <1>4 DEF Record!Paired
<1>10. CASE rest # <<>> /\ Len(rest) = 1
  <2>1. /\ entry.key = rest[1].key /\ entry.val = rest[1].val /\ entry.pairing = "paired"
    BY <1>9, <1>10
  <2>2. 1 \in DOMAIN rest
    BY <1>7, <1>10, SeqFacts
  <2>3. <<rest[1].key, rest[1].val>> \in Heads(rest)
    BY <2>2 DEF Heads
  <2>4. PICK i \in first..n : <<entry.key, entry.val>> = <<table[i].key, table[i].val>>
    BY <1>7, <2>1, <2>3 DEF HeadsAt
  <2>5. i \in DOMAIN table /\ i > old
    BY <1>3, <1>5, <1>7
  <2> QED
    BY <2>1, <2>4, <2>5 DEF Heads
<1>11. CASE rest = <<>>
  BY <1>9, <1>11 DEF Record!NoEntry
<1>12. CASE rest # <<>> /\ Len(rest) # 1
  <2>1. entry.val = 0 /\ entry.pairing = "unresolved"
    BY <1>9, <1>12 DEF Record!NoEntry
  <2>2. Len(rest) # 0
    <3> DEFINE S == {rest[i] : i \in DOMAIN rest}
    <3>1. rest \in Seq(S)
      BY <1>7 DEF IsSeq
    <3> HIDE DEF S
    <3> QED
      BY <1>12, <3>1, EmptySeq
  <2>3. ~(Len(table) <= old + 1)
    BY <1>2, <1>5, <1>8, <1>12, <2>2
  <2> QED
    BY <2>1, <2>3
<1> QED
  BY <1>10, <1>11, <1>12

LEMMA ResolveSteps ==
  ASSUME GatewayOk(ledger, phase, pending, own1, own2, own3, own4), NEW c \in Calls, Record!Resolve(c)
  PROVE  GatewayOk(ledger', phase', pending', own1', own2', own3', own4')
<1>1. PICK entry : entry = Record!Paired(SubSeq(pending, own2 + 1, Len(pending)))
  OBVIOUS
<1>2. /\ DOMAIN phase = Calls /\ DOMAIN own3 = Calls /\ DOMAIN own1 = Calls /\ TableOk(pending)
      /\ own2 \in Nat /\ own2 <= Len(pending)
      /\ EntriesAreApart(phase, pending, own3) /\ Pairs(FALSE, ledger, Waiting(phase, pending, own1, own3))
  BY DEF GatewayOk
<1>3. /\ phase[c] = "running" /\ Moved(phase', phase, c, "resolved") /\ Moved(own3', own3, c, entry)
      /\ pending' = <<>> /\ own2' = 0
      /\ ledger' = ledger /\ own1' = own1 /\ own4' = own4
  <2>1. /\ Record!Becomes(c, "running", "resolved") /\ own3' = [own3 EXCEPT ![c] = entry]
        /\ pending' = <<>> /\ own2' = 0 /\ ledger' = ledger /\ own1' = own1 /\ own4' = own4
    BY <1>1 DEF Record!Resolve, Record!Unexpired
  <2>2. Moved(own3', own3, c, entry)
    BY <1>2, <2>1 DEF Moved
  <2> QED
    BY <1>2, <2>1, <2>2, RecordEmitter, BecomesMoves
<1>4. /\ entry.val # 0 => <<entry.key, entry.val>> \in Heads(pending)
      /\ entry.pairing = "paired" => \E i \in DOMAIN pending : i > own2 /\ entry.key = pending[i].key
      /\ entry.pairing \in {"unmatched", "paired", "unresolved"}
      /\ Len(pending) <= own2 + 1 => entry.pairing # "unresolved"
  BY <1>1, <1>2, PairedIs
<1>5. TableOk(pending') /\ Heads(pending') = {} /\ Keys(pending') = {} /\ DOMAIN pending' = {} /\ Len(pending') = 0
  <2>1. Len(<<>>) = 0
    OBVIOUS
  <2> QED
    BY <1>3, <2>1, EmptyTable DEF Keys
<1>6. /\ In(phase', {"sealing"}) = In(phase, {"sealing"}) /\ In(phase', Begun) = In(phase, Begun)
      /\ In(phase', {"resolved"}) = In(phase, {"resolved"}) \cup {c} /\ c \notin In(phase, {"resolved"})
      /\ In(phase', {"sealing", "running", "resolved"}) = In(phase, {"sealing", "running", "resolved"})
      /\ c \in In(phase, {"sealing", "running", "resolved"})
  BY <1>3 DEF In, Moved, Begun
<1>7. own3'[c] = entry /\ \A d \in In(phase, {"resolved"}) : own3'[d] = own3[d] /\ d # c
  BY <1>3, <1>6 DEF Moved, In
<1>8. \A h \in Waiting(phase', pending', own1', own3') : h \in Waiting(phase, pending, own1, own3) \/ h[2] = 0
  <2> SUFFICES ASSUME NEW h \in Waiting(phase', pending', own1', own3'), h[2] # 0
               PROVE  h \in Waiting(phase, pending, own1, own3)
    OBVIOUS
  <2>1. \/ h \in {<<d, own1[d]>> : d \in In(phase, {"sealing"})}
        \/ \E d \in In(phase', {"resolved"}) : h = <<own3'[d].key, own3'[d].val>>
    BY <1>3, <1>5, <1>6 DEF Waiting
  <2>2. ASSUME NEW d \in In(phase, {"resolved"}), h = <<own3'[d].key, own3'[d].val>>
        PROVE  h \in Waiting(phase, pending, own1, own3)
    BY <1>7, <2>2 DEF Waiting
  <2>3. ASSUME h = <<entry.key, entry.val>>
        PROVE  h \in Waiting(phase, pending, own1, own3)
    <3>1. entry.val # 0
      BY <2>3
    <3> QED
      BY <1>4, <2>3, <3>1 DEF Waiting
  <2> QED
    BY <1>6, <1>7, <2>1, <2>2, <2>3 DEF Waiting
<1>9. Pairs(FALSE, ledger', Waiting(phase', pending', own1', own3'))
  BY <1>2, <1>3, <1>8, PairsShrink
<1>10. EntriesAreApart(phase', pending', own3')
  <2>1. entry.val # 0 => entry.key \in Keys(pending)
    <3>1. <<entry.key, entry.val>>[1] = entry.key
      OBVIOUS
    <3> QED
      BY <1>4, <3>1, KeysOf
  <2> QED
    BY <1>2, <1>5, <1>6, <1>7, <2>1 DEF EntriesAreApart
<1>11. ASSUME ~own4'
       PROVE  /\ OneAtATime(phase', pending', own2', own3')
              /\ \A i \in DOMAIN ledger' : PairingIsTold(ledger'[i])
  <2>1. /\ OneAtATime(phase, pending, own2, own3) /\ \A i \in DOMAIN ledger : PairingIsTold(ledger[i])
    BY <1>3, <1>11 DEF GatewayOk
  <2>2. entry.pairing = "unmatched" \/ (entry.pairing = "paired" /\ entry.key = c)
    BY <1>4, <1>6, <2>1 DEF OneAtATime
  <2>3. \A d \in In(phase, {"sealing", "running", "resolved"}) : d = c
    BY <1>6, <2>1 DEF OneAtATime
  <2>4. In(phase', {"resolved"}) = {c}
    BY <1>6, <2>3 DEF In
  <2>5. OneAtATime(phase', pending', own2', own3')
    BY <1>3, <1>5, <1>6, <1>7, <2>2, <2>3, <2>4 DEF OneAtATime
  <2> QED
    BY <1>3, <2>1, <2>5
<1>12. DOMAIN phase' = Calls /\ DOMAIN own1' = Calls /\ DOMAIN own3' = Calls
       /\ own2' \in Nat /\ own2' <= Len(pending')
  BY <1>2, <1>3, <1>5 DEF Moved
<1> QED
  BY <1>5, <1>9, <1>10, <1>11, <1>12 DEF GatewayOk

LEMMA ResponseSteps ==
  ASSUME GatewayOk(ledger, phase, pending, own1, own2, own3, own4), NEW c \in Calls, NEW failed \in BOOLEAN,
         NEW sealed \in BOOLEAN, Record!CheckResponse(c, failed, sealed)
  PROVE  GatewayOk(ledger', phase', pending', own1', own2', own3', own4')
<1>1. PICK yes : yes = TRUE
  OBVIOUS
<1>2. PICK entry, next, status, marks :
        /\ entry = own3[c] /\ next = IF failed THEN "raised" ELSE "done"
        /\ status = IF failed THEN "failed" ELSE "confirmed"
        /\ marks = {<<entry.pairing, c>>} \cup Unchained(entry.pairing = "paired" /\ entry.val = 0)
  OBVIOUS
<1>3. PICK capsule : capsule = Capsule(entry.key, status, yes, entry.val, marks)
  OBVIOUS
<1>4. /\ DOMAIN phase = Calls /\ DOMAIN own3 = Calls /\ DOMAIN own1 = Calls /\ TableOk(pending)
      /\ own2 \in Nat /\ own2 <= Len(pending) /\ IsSeq(ledger)
      /\ EntriesAreApart(phase, pending, own3) /\ Pairs(FALSE, ledger, Waiting(phase, pending, own1, own3))
  BY DEF GatewayOk, Pairs
<1>5. /\ phase[c] = "resolved" /\ Moved(phase', phase, c, next) /\ Seal(capsule, sealed)
      /\ pending' = pending /\ own1' = own1 /\ own2' = own2 /\ own3' = own3 /\ own4' = own4
  <2>1. /\ Record!Becomes(c, "resolved", next)
        /\ Record!Seal(Record!Capsule(entry.key, status, yes, entry.val, marks), sealed)
        /\ pending' = pending /\ own1' = own1 /\ own2' = own2 /\ own3' = own3 /\ own4' = own4
    <3>1. marks = {<<own3[c].pairing, c>>} \cup Record!Unchained(own3[c].pairing = "paired" /\ own3[c].val = 0)
      BY <1>2 DEF Record!Unchained, Unchained
    <3> QED
      BY <1>1, <1>2, <3>1 DEF Record!CheckResponse, Record!gatewayVars
  <2> QED
    BY <1>3, <1>4, <2>1, RecordEmitter, BecomesMoves
<1>6. capsule.call = entry.key /\ capsule.prior = entry.val /\ capsule.marks = marks
  BY <1>3 DEF Capsule
<1>7. /\ next \in {"raised", "done"}
      /\ In(phase', {"sealing"}) = In(phase, {"sealing"}) /\ In(phase, Begun) = In(phase', Begun)
      /\ In(phase', {"resolved"}) = In(phase, {"resolved"}) \ {c} /\ c \in In(phase, {"resolved"})
      /\ In(phase', {"sealing", "running", "resolved"}) = In(phase, {"sealing", "running", "resolved"}) \ {c}
      /\ c \in In(phase, {"sealing", "running", "resolved"})
  <2>1. next \in {"raised", "done"}
    BY <1>2
  <2> QED
    BY <1>5, <2>1 DEF In, Moved, Begun
<1>8. /\ Wrote(ledger', lost', ledger, lost, capsule)
  BY <1>4, <1>5, SealWrites
<1>9. <<entry.key, entry.val>> \in Waiting(phase, pending, own1, own3)
  BY <1>2, <1>7 DEF Waiting
<1>10. ASSUME NEW h \in Waiting(phase', pending', own1', own3'), h[2] # 0
       PROVE  h \in Waiting(phase, pending, own1, own3) /\ h[2] # entry.val
  <2>1. h \in Waiting(phase, pending, own1, own3)
    BY <1>5, <1>7, <1>10 DEF Waiting
  <2>2. ASSUME h[2] = entry.val PROVE h[1] = entry.key
    <3>1. ledger[h[2]].call = h[1]
      BY <1>4, <1>10, <2>1 DEF Pairs, Name
    <3>2. <<entry.key, entry.val>>[1] = entry.key /\ <<entry.key, entry.val>>[2] = entry.val
      OBVIOUS
    <3>3. ledger[entry.val].call = entry.key
      BY <1>4, <1>9, <1>10, <2>2, <3>2 DEF Pairs, Name
    <3> QED
      BY <2>2, <3>1, <3>3
  <2>3. entry.val # 0 => entry.key \in In(phase, Begun) /\ entry.key \notin Keys(pending)
    BY <1>2, <1>4, <1>7 DEF EntriesAreApart
  <2>4. CASE h \in Heads(pending)
    <3>1. h[1] \in Keys(pending)
      BY <2>4, KeysOf
    <3> QED
      BY <1>10, <2>1, <2>2, <2>3, <3>1
  <2>5. ASSUME NEW d \in In(phase, {"sealing"}), h = <<d, own1[d]>> PROVE h[2] # entry.val
    <3>1. h[1] = d /\ d \notin In(phase, Begun)
      BY <2>5 DEF In, Begun
    <3> QED
      BY <1>10, <2>1, <2>2, <2>3, <3>1
  <2>6. ASSUME NEW d \in In(phase, {"resolved"}) \ {c}, h = <<own3[d].key, own3[d].val>> PROVE h[2] # entry.val
    <3>1. h[1] = own3[d].key /\ h[2] = own3[d].val
      BY <2>6
    <3>2. own3[d].val # 0 /\ own3[c].val # 0 => own3[d].key # own3[c].key
      BY <1>4, <1>7 DEF EntriesAreApart
    <3> QED
      BY <1>2, <1>10, <2>2, <3>1, <3>2
  <2> QED
    BY <1>5, <1>7, <1>10, <2>1, <2>4, <2>5, <2>6 DEF Waiting
<1>11. Pairs(FALSE, ledger', Waiting(phase', pending', own1', own3'))
  <2>1. Reopened(FALSE, Waiting(phase', pending', own1', own3'), Waiting(phase, pending, own1, own3), ledger', ledger, capsule)
    BY <1>6, <1>10 DEF Reopened
  <2>2. \E h \in Waiting(phase, pending, own1, own3) : h[1] = Name(FALSE, capsule.call) /\ h[2] = capsule.prior
    <3>1. <<entry.key, entry.val>>[1] = entry.key /\ <<entry.key, entry.val>>[2] = entry.val
      OBVIOUS
    <3> QED
      BY <1>6, <1>9, <3>1 DEF Name
  <2> QED
    BY <1>4, <1>8, <2>1, <2>2, PairsStep
<1>12. EntriesAreApart(phase', pending', own3')
  BY <1>4, <1>5, <1>7 DEF EntriesAreApart
<1>13. ASSUME ~own4'
       PROVE  /\ OneAtATime(phase', pending', own2', own3')
              /\ \A i \in DOMAIN ledger' : PairingIsTold(ledger'[i])
  <2>1. /\ OneAtATime(phase, pending, own2, own3) /\ \A i \in DOMAIN ledger : PairingIsTold(ledger[i])
    BY <1>5, <1>13 DEF GatewayOk
  <2>2. entry.pairing = "unmatched" \/ (entry.pairing = "paired" /\ entry.key = c)
    BY <1>2, <1>7, <2>1 DEF OneAtATime
  <2>3. In(phase', {"sealing", "running", "resolved"}) = {} /\ In(phase', {"resolved"}) = {}
    BY <1>7, <2>1 DEF OneAtATime, In
  <2>4. OneAtATime(phase', pending', own2', own3')
    BY <1>5, <2>1, <2>3 DEF OneAtATime
  <2>5. PairingIsTold(capsule)
    <3> SUFFICES ASSUME NEW m \in marks PROVE (m[1] = "paired" => m[2] = entry.key) /\ m[1] # "unresolved"
      BY <1>6 DEF PairingIsTold
    <3>1. <<entry.pairing, c>>[1] = entry.pairing /\ <<entry.pairing, c>>[2] = c /\ <<"unchained", 0>>[1] = "unchained"
      OBVIOUS
    <3>2. m = <<entry.pairing, c>> \/ m = <<"unchained", 0>>
      BY <1>2 DEF Unchained
    <3> QED
      BY <2>2, <3>1, <3>2
  <2>6. \A i \in DOMAIN ledger' : ledger'[i] = capsule \/ (i \in DOMAIN ledger /\ ledger'[i] = ledger[i])
    BY <1>8 DEF Wrote, Grown
  <2> QED
    BY <2>1, <2>4, <2>5, <2>6
<1>14. DOMAIN phase' = Calls
  BY <1>5 DEF Moved
<1> QED
  BY <1>4, <1>5, <1>11, <1>12, <1>13, <1>14 DEF GatewayOk

LEMMA GatewayStep == GatewayInv /\ [Next]_vars => GatewayInv'
<1>1. CASE UNCHANGED vars
  <2>1. /\ ledger' = ledger /\ phase' = phase /\ pending' = pending
        /\ own1' = own1 /\ own2' = own2 /\ own3' = own3 /\ own4' = own4 /\ adapter' = adapter
    BY <1>1 DEF vars, emitterVars
  <2> QED
    BY <2>1 DEF GatewayInv
<1>2. ASSUME GatewayOk(ledger, phase, pending, own1, own2, own3, own4), Record!GatewayNext
      PROVE  GatewayOk(ledger', phase', pending', own1', own2', own3', own4')
  <2>1. CASE Record!PassTTL
    BY <1>2, <2>1, StayingSteps
  <2>2. ASSUME NEW c \in Calls,
               \/ Record!AppendPending(c)
               \/ Record!RejectedDownstream(c)
               \/ Record!Resolve(c)
        PROVE  GatewayOk(ledger', phase', pending', own1', own2', own3', own4')
    BY <1>2, <2>2, AppendSteps, StayingSteps, ResolveSteps
  <2>3. ASSUME NEW c \in Calls, NEW sealed \in BOOLEAN, Record!CheckRequest(c, sealed)
        PROVE  GatewayOk(ledger', phase', pending', own1', own2', own3', own4')
    BY <1>2, <2>3, RequestSteps
  <2>4. ASSUME NEW c \in Calls, NEW sealed \in BOOLEAN, Record!CheckResponse(c, ~Record!HasOutput(c), sealed)
        PROVE  GatewayOk(ledger', phase', pending', own1', own2', own3', own4')
    <3>1. PICK failed \in BOOLEAN : failed = ~Record!HasOutput(c)
      BY DEF Record!HasOutput
    <3> QED
      BY <1>2, <2>4, <3>1, ResponseSteps
  <2> QED
    BY <1>2, <2>1, <2>2, <2>3, <2>4 DEF Record!GatewayNext
<1>3. ASSUME GatewayInv, Next PROVE GatewayInv'
  BY <1>2, <1>3 DEF GatewayInv, Next
<1> QED
  BY <1>1, <1>3

LEMMA GatewayHolds ==
  ASSUME GatewayInv, adapter = "gateway"
  PROVE  CitationsAreTrue /\ OutcomesAreRecordedOnce
<1>1. GatewayOk(ledger, phase, pending, own1, own2, own3, own4)
  BY DEF GatewayInv
<1>2. ChainsPairTheSameCall /\ PriorsAreNotShared
  BY <1>1, PairsHold DEF GatewayOk
<1>3. OutcomesRecorded
  BY DEF OutcomesRecorded
<1>4. SequentialCallsPair
  <2> SUFFICES ASSUME ~own4, NEW i \in DOMAIN ledger
               PROVE  MarkIds(i, "paired") \subseteq {ledger[i].call} /\ MarkIds(i, "unresolved") = {}
    BY DEF SequentialCallsPair, Sealed
  <2>1. PairingIsTold(ledger[i])
    BY <1>1 DEF GatewayOk
  <2> QED
    BY <2>1 DEF PairingIsTold, MarkIds
<1> QED
  BY <1>2, <1>3, <1>4, OnlyItsOwn, AllTogether

-----------------------------------------------------------------------------
(* LlamaIndex                                                               *)

\* What the table of parents says is so of the host's trees.
Rooted(table) == \A h \in Heads(table) : h[2] = NoCall \/ RootOf[h[2]] = RootOf[h[1]]

\* A model is none, or was observed under the root of the span.
ObservedUnder(spans, model, span) ==
    model = 0 \/ \E s \in spans : ModelOf[s] = model /\ RootOf[s] = RootOf[span]

LlamaIndexOk(led, ph, lo, table, links, models, spans) ==
    /\ TableOk(table) /\ KeeperOk(led, ph, lo, Heads(table))
    /\ TableOk(links) /\ Rooted(links)
    /\ TableOk(models) /\ \A h \in Heads(models) : ObservedUnder(spans, h[2], h[1])
    /\ \A i \in DOMAIN led : ObservedUnder(spans, led[i].model, led[i].call)

LlamaIndexInv ==
    adapter = "llamaindex" => LlamaIndexOk(ledger, phase, lost, pending, own1, own2, own3)

\* One step of the walk stays in the tree.
UpFrom(table, span) ==
    IF Get(table, span, NoCall) = NoCall THEN span ELSE Get(table, span, NoCall)

LEMMA UpFromIs ==
  ASSUME NEW table, Rooted(table), NEW span
  PROVE  RootOf[UpFrom(table, span)] = RootOf[span]
<1> PICK parent : parent = Get(table, span, NoCall)
  OBVIOUS
<1>1. parent = NoCall \/ <<span, parent>> \in Heads(table)
  BY GetIs
<1>2. <<span, parent>>[1] = span /\ <<span, parent>>[2] = parent
  OBVIOUS
<1>3. parent = NoCall \/ RootOf[parent] = RootOf[span]
  BY <1>1, <1>2 DEF Rooted
<1> QED
  BY <1>3 DEF UpFrom

\* The walk is a function of the number of steps, of any number.
IsWalk(walk, table, span, n) ==
    walk = [k \in 0..n |-> IF k = 0 THEN span ELSE UpFrom(table, walk[k - 1])]

LEMMA WalkExists ==
  ASSUME NEW table, NEW span, NEW n \in Nat
  PROVE  \E walk : IsWalk(walk, table, span, n)
<1> DEFINE T == {k \in Nat : ~\E walk : IsWalk(walk, table, span, k)}
<1> SUFFICES ASSUME T # {} PROVE FALSE
  OBVIOUS
<1>1. PICK k \in T : \A j \in T : k <= j
  BY LeastNat, Zenon
<1>2. CASE k = 0
  <2> DEFINE walk == [j \in 0..0 |-> span]
  <2>1. IsWalk(walk, table, span, 0)
    BY DEF IsWalk
  <2> QED
    BY <1>2, <2>1
<1>3. CASE k # 0
  <2>1. k - 1 \in Nat /\ k - 1 \notin T /\ k \in Nat
    BY <1>1, <1>3
  <2>2. PICK before : IsWalk(before, table, span, k - 1)
    BY <2>1
  <2> DEFINE walk == [j \in 0..k |-> IF j = k THEN UpFrom(table, before[k - 1]) ELSE before[j]]
  <2>3. ASSUME NEW j \in 0..k
        PROVE  walk[j] = IF j = 0 THEN span ELSE UpFrom(table, walk[j - 1])
    <3>1. \A i \in 0..(k - 1) : before[i] = IF i = 0 THEN span ELSE UpFrom(table, before[i - 1])
      BY <2>2 DEF IsWalk
    <3>2. CASE j = k
      <4>1. k - 1 \in 0..k /\ k - 1 # k
        BY <2>1
      <4>2. walk[k - 1] = before[k - 1] /\ walk[k] = UpFrom(table, before[k - 1])
        BY <2>1, <4>1
      <4> QED
        BY <1>3, <3>2, <4>2
    <3>3. CASE j # k
      <4>1. j \in 0..(k - 1) /\ walk[j] = before[j]
        BY <2>1, <3>3
      <4>2. j # 0 => j - 1 \in 0..k /\ j - 1 # k /\ walk[j - 1] = before[j - 1]
        BY <2>1, <4>1
      <4> QED
        BY <3>1, <4>1, <4>2
    <3> QED
      BY <3>2, <3>3
  <2>4. walk = [j \in 0..k |-> IF j = 0 THEN span ELSE UpFrom(table, walk[j - 1])]
    <3>1. DOMAIN walk = 0..k /\ walk = [j \in 0..k |-> walk[j]]
      OBVIOUS
    <3> HIDE DEF walk
    <3> QED
      BY <2>3, <3>1
  <2>5. IsWalk(walk, table, span, k)
    BY <2>4 DEF IsWalk
  <2> QED
    BY <1>1, <2>5
<1> QED
  BY <1>2, <1>3

LEMMA WalkStays ==
  ASSUME NEW table, Rooted(table), NEW span, NEW n \in Nat, NEW walk, IsWalk(walk, table, span, n)
  PROVE  RootOf[walk[n]] = RootOf[span]
<1> DEFINE T == {k \in 0..n : RootOf[walk[k]] # RootOf[span]}
<1>1. \A k \in 0..n : walk[k] = IF k = 0 THEN span ELSE UpFrom(table, walk[k - 1])
  BY DEF IsWalk
<1>2. ASSUME T # {} PROVE FALSE
  <2>1. T \subseteq Nat
    OBVIOUS
  <2>2. PICK k \in T : \A j \in T : k <= j
    BY <1>2, <2>1, LeastNat, Zenon
  <2>3. k # 0 /\ k - 1 \in 0..n /\ k - 1 \notin T
    BY <1>1, <2>2
  <2>4. walk[k] = UpFrom(table, walk[k - 1]) /\ RootOf[walk[k - 1]] = RootOf[span]
    BY <1>1, <2>2, <2>3
  <2>5. RootOf[walk[k]] = RootOf[span]
    BY <2>4, UpFromIs
  <2> QED
    BY <2>2, <2>5
<1> QED
  BY <1>2

LEMMA RootInIs ==
  ASSUME NEW table, Rooted(table), NEW span
  PROVE  RootOf[Run!RootIn(table, span)] = RootOf[span]
<1>1. MaxRootWalk \in Nat
  BY AdapterAssumption
<1> DEFINE walk == CHOOSE w : IsWalk(w, table, span, MaxRootWalk)
<1>2. IsWalk(walk, table, span, MaxRootWalk)
  BY <1>1, WalkExists
<1>3. Run!RootIn(table, span) = walk[MaxRootWalk]
  BY RunEmitter DEF Run!RootIn, IsWalk, UpFrom
<1> HIDE DEF walk
<1> QED
  BY <1>1, <1>2, <1>3, WalkStays

\* More spans are observed, and nothing else changes what was said of models.
LEMMA ObservedStays ==
  ASSUME NEW spans, NEW spans2, spans \subseteq spans2, NEW model, NEW span,
         ObservedUnder(spans, model, span)
  PROVE  ObservedUnder(spans2, model, span)
BY DEF ObservedUnder

LEMMA SpanIsObserved ==
  ASSUME LlamaIndexOk(ledger, phase, lost, pending, own1, own2, own3),
         NEW span \in Spans \cup Calls, Run!ObserveSpanInstance(span)
  PROVE  /\ TableOk(own1') /\ Rooted(own1')
         /\ TableOk(own2') /\ \A h \in Heads(own2') : ObservedUnder(own3', h[2], h[1])
         /\ \A i \in DOMAIN ledger : ObservedUnder(own3', ledger[i].model, ledger[i].call)
<1> PICK parent : parent = ParentSpan[span]
  OBVIOUS
<1> PICK model : model = ModelOf[span]
  OBVIOUS
<1> PICK links : links = Remember(own1, span, parent)
  OBVIOUS
<1> PICK root : root = Run!RootIn(links, span)
  OBVIOUS
<1> PICK models : models = Remember(own2, root, model)
  OBVIOUS
<1>1. /\ own3' = own3 \cup {span} /\ own1' = links
      /\ own2' = own2 \/ own2' = models
  BY RunEmitter DEF Run!ObserveSpanInstance
<1>2. /\ TableOk(own1) /\ Rooted(own1) /\ TableOk(own2)
      /\ \A h \in Heads(own2) : ObservedUnder(own3, h[2], h[1])
      /\ \A i \in DOMAIN ledger : ObservedUnder(own3, ledger[i].model, ledger[i].call)
  BY DEF LlamaIndexOk
<1>3. own3 \subseteq own3' /\ span \in own3'
  BY <1>1
<1>4. TableOk(links) /\ Rooted(links)
  <2>1. Remembered(links, own1, span, parent)
    BY <1>2, RememberIs
  <2>2. parent = NoCall \/ RootOf[parent] = RootOf[span]
    BY AdapterAssumption
  <2>3. <<span, parent>>[1] = span /\ <<span, parent>>[2] = parent
    OBVIOUS
  <2> QED
    BY <1>2, <2>1, <2>2, <2>3 DEF Remembered, Rooted
<1>5. RootOf[root] = RootOf[span]
  BY <1>4, RootInIs
<1>6. \A h \in Heads(own2) : ObservedUnder(own3', h[2], h[1])
  BY <1>2, <1>3, ObservedStays
<1>7. TableOk(models) /\ \A h \in Heads(models) : ObservedUnder(own3', h[2], h[1])
  <2>1. Remembered(models, own2, root, model)
    BY <1>2, RememberIs
  <2>2. ObservedUnder(own3', model, root)
    BY <1>3, <1>5 DEF ObservedUnder
  <2>3. <<root, model>>[1] = root /\ <<root, model>>[2] = model
    OBVIOUS
  <2> QED
    BY <1>6, <2>1, <2>2, <2>3 DEF Remembered
<1>8. \A i \in DOMAIN ledger : ObservedUnder(own3', ledger[i].model, ledger[i].call)
  BY <1>2, <1>3, ObservedStays
<1> QED
  BY <1>1, <1>2, <1>4, <1>6, <1>7, <1>8

\* The model a record takes from the table was observed under its root.
LEMMA ModelForIs ==
  ASSUME NEW links, NEW models, NEW spans, NEW span, Rooted(links),
         \A h \in Heads(models) : ObservedUnder(spans, h[2], h[1])
  PROVE  ObservedUnder(spans, Run!ModelFor(links, models, span), span)
<1> PICK root : root = Run!RootIn(links, span)
  OBVIOUS
<1> PICK model : model = Get(models, root, 0)
  OBVIOUS
<1>1. RootOf[root] = RootOf[span]
  BY RootInIs
<1>2. <<root, model>>[1] = root /\ <<root, model>>[2] = model
  OBVIOUS
<1>3. model = 0 \/ <<root, model>> \in Heads(models)
  BY GetIs
<1>4. ObservedUnder(spans, model, span)
  BY <1>1, <1>2, <1>3 DEF ObservedUnder
<1>5. Run!ModelFor(links, models, span) = model \/ Run!ModelFor(links, models, span) = 0
  BY RunEmitter DEF Run!ModelFor
<1>6. ObservedUnder(spans, 0, span)
  BY DEF ObservedUnder
<1> QED
  BY <1>4, <1>5, <1>6

\* A record with such a model may be sealed.
LEMMA ModelsStay ==
  ASSUME NEW spans, IsSeq(ledger), \A i \in DOMAIN ledger : ObservedUnder(spans, ledger[i].model, ledger[i].call),
         NEW capsule, NEW sealed \in BOOLEAN, Seal(capsule, sealed), ObservedUnder(spans, capsule.model, capsule.call)
  PROVE  \A i \in DOMAIN ledger' : ObservedUnder(spans, ledger'[i].model, ledger'[i].call)
<1>1. ledger' = ledger \/ Grown(ledger', ledger, capsule)
  BY SealWrites
<1>2. ASSUME Grown(ledger', ledger, capsule), NEW i \in DOMAIN ledger'
      PROVE  ObservedUnder(spans, ledger'[i].model, ledger'[i].call)
  <2>1. ledger'[i] = capsule \/ (i \in DOMAIN ledger /\ ledger'[i] = ledger[i])
    BY <1>2 DEF Grown
  <2> QED
    BY <2>1
<1> QED
  BY <1>1, <1>2

LEMMA LlamaIndexEnters ==
  ASSUME LlamaIndexOk(ledger, phase, lost, pending, own1, own2, own3),
         NEW c \in Calls, NEW sealed \in BOOLEAN, Run!OnSpanEnter(c, sealed)
  PROVE  LlamaIndexOk(ledger', phase', lost', pending', own1', own2', own3')
<1> PICK model : model = Run!ModelFor(own1', own2', c)
  OBVIOUS
<1> PICK capsule : capsule = Attributed(Capsule(c, "planned", FALSE, 0, {}), model)
  OBVIOUS
<1> PICK id : id = IdIf(sealed)
  OBVIOUS
<1>1. capsule.call = c /\ capsule.prior = 0 /\ capsule.status = "planned" /\ capsule.model = model
  BY DEF Capsule, Attributed
<1>2. /\ Run!ObserveSpanInstance(c) /\ Becomes(c, "new", "running") /\ Seal(capsule, sealed)
      /\ pending' = Remember(pending, c, id)
  BY RunEmitter DEF Run!OnSpanEnter
<1>3. /\ TableOk(own1') /\ Rooted(own1')
      /\ TableOk(own2') /\ \A h \in Heads(own2') : ObservedUnder(own3', h[2], h[1])
      /\ \A i \in DOMAIN ledger : ObservedUnder(own3', ledger[i].model, ledger[i].call)
  BY <1>2, SpanIsObserved
<1>4. TableOk(pending) /\ KeeperOk(ledger, phase, lost, Heads(pending)) /\ IsSeq(ledger)
  BY DEF LlamaIndexOk, KeeperOk, Pairs
<1>5. Moved(phase', phase, c, "running")
  BY <1>2, <1>4, BecomesMoves DEF KeeperOk
<1>6. /\ TableOk(pending')
      /\ \A h \in Heads(pending') : h \in Heads(pending) \/ h[2] = 0 \/ (sealed /\ h[1] = c /\ h[2] = NextId)
  <2>1. Remembered(Remember(pending, c, id), pending, c, id)
    BY <1>4, RememberIs
  <2>2. <<c, id>>[1] = c /\ <<c, id>>[2] = id
    OBVIOUS
  <2>3. id = 0 \/ (sealed /\ id = NextId)
    BY DEF IdIf
  <2> QED
    BY <1>2, <2>1, <2>2, <2>3 DEF Remembered
<1>7. KeeperOk(ledger', phase', lost', Heads(pending'))
  <2>1. "running" \notin Ends
    BY DEF Ends
  <2>2. PICK open2 : open2 = Heads(pending')
    OBVIOUS
  <2>3. \A h \in open2 : h \in Heads(pending) \/ h[2] = 0 \/ (sealed /\ h[1] = c /\ h[2] = NextId)
    BY <1>6, <2>2
  <2>4. KeeperOk(ledger, phase, lost, Heads(pending)) /\ Seal(capsule, sealed)
    BY <1>2, <1>4
  <2>5. capsule.status # "planned" \/ "running" \notin Ends
    BY <2>1
  <2>6. capsule.call = c /\ capsule.prior = 0
    BY <1>1
  <2>7. KeeperOk(ledger', phase', lost', open2)
    BY <1>5, <2>3, <2>4, <2>5, <2>6, PlanKept
  <2> QED
    BY <2>2, <2>7
<1>8. \A i \in DOMAIN ledger' : ObservedUnder(own3', ledger'[i].model, ledger'[i].call)
  <2>1. ObservedUnder(own3', model, c)
    BY <1>3, ModelForIs
  <2>2. PICK spans : spans = own3'
    OBVIOUS
  <2>3. \A i \in DOMAIN ledger' : ObservedUnder(spans, ledger'[i].model, ledger'[i].call)
    BY <1>1, <1>2, <1>3, <1>4, <2>1, <2>2, ModelsStay
  <2> QED
    BY <2>2, <2>3
<1> QED
  BY <1>3, <1>6, <1>7, <1>8 DEF LlamaIndexOk

\* A span ends with a record, as a result or as an error.
LEMMA LlamaIndexEnds ==
  ASSUME LlamaIndexOk(ledger, phase, lost, pending, own1, own2, own3),
         NEW c \in Calls, NEW sealed \in BOOLEAN, NEW end, NEW status, status # "planned", NEW output,
         Becomes(c, "running", end), pending' = Without(pending, c),
         Seal(Attributed(Capsule(c, status, output, Get(pending, c, 0), {}), Run!ModelFor(own1, own2, c)), sealed),
         own1' = own1, own2' = own2, own3' = own3
  PROVE  LlamaIndexOk(ledger', phase', lost', pending', own1', own2', own3')
<1> PICK model : model = Run!ModelFor(own1, own2, c)
  OBVIOUS
<1> PICK plan : plan = Get(pending, c, 0)
  OBVIOUS
<1> PICK capsule : capsule = Attributed(Capsule(c, status, output, plan, {}), model)
  OBVIOUS
<1>1. capsule.call = c /\ capsule.prior = plan /\ capsule.status = status /\ capsule.model = model
  BY AttributedIs
<1>2. Seal(capsule, sealed)
  OBVIOUS
<1>3. /\ TableOk(pending) /\ KeeperOk(ledger, phase, lost, Heads(pending)) /\ IsSeq(ledger)
      /\ TableOk(own1) /\ Rooted(own1) /\ TableOk(own2)
      /\ \A h \in Heads(own2) : ObservedUnder(own3, h[2], h[1])
      /\ \A i \in DOMAIN ledger : ObservedUnder(own3, ledger[i].model, ledger[i].call)
  BY DEF LlamaIndexOk, KeeperOk, Pairs
<1>4. Moved(phase', phase, c, end)
  BY <1>3, BecomesMoves DEF KeeperOk
<1>5. TableOk(pending') /\ Heads(pending') = {h \in Heads(pending) : h[1] # c}
  BY <1>3, WithoutIs DEF Removed
<1>6. plan = 0 \/ \E h \in Heads(pending) : h[1] = c /\ h[2] = plan
  BY EntryOf
<1>7. KeeperOk(ledger', phase', lost', Heads(pending'))
  <2>1. PICK open2 : open2 = Heads(pending')
    OBVIOUS
  <2>2. \A h \in open2 : h \in Heads(pending) /\ h[1] # c
    BY <1>5, <2>1
  <2>3. KeeperOk(ledger', phase', lost', open2)
    BY <1>1, <1>2, <1>3, <1>4, <1>6, <2>2, OutcomeKept
  <2> QED
    BY <2>1, <2>3
<1>8. ObservedUnder(own3, model, c)
  BY <1>3, ModelForIs
<1>9. \A i \in DOMAIN ledger' : ObservedUnder(own3, ledger'[i].model, ledger'[i].call)
  BY <1>1, <1>2, <1>3, <1>8, ModelsStay
<1> QED
  BY <1>3, <1>5, <1>7, <1>9 DEF LlamaIndexOk

\* A span ends, or raised, without a record.
LEMMA LlamaIndexLeaves ==
  ASSUME LlamaIndexOk(ledger, phase, lost, pending, own1, own2, own3),
         NEW c \in Calls, Becomes(c, "running", "gone"),
         pending' = pending \/ pending' = Without(pending, c),
         ledger' = ledger, lost' = lost, own1' = own1, own2' = own2, own3' = own3
  PROVE  LlamaIndexOk(ledger', phase', lost', pending', own1', own2', own3')
<1>1. TableOk(pending) /\ KeeperOk(ledger, phase, lost, Heads(pending))
  BY DEF LlamaIndexOk
<1>2. Moved(phase', phase, c, "gone")
  BY <1>1, BecomesMoves DEF KeeperOk
<1>3. TableOk(pending') /\ Heads(pending') \subseteq Heads(pending)
  BY <1>1, WithoutIs DEF Removed
<1>4. KeeperOk(ledger, phase', lost, Heads(pending'))
  <2>1. PICK open2 : open2 = Heads(pending')
    OBVIOUS
  <2>2. KeeperOk(ledger, phase', lost, open2)
    BY <1>1, <1>2, <1>3, <2>1, KeeperRests DEF Ends
  <2> QED
    BY <2>1, <2>2
<1> QED
  BY <1>3, <1>4 DEF LlamaIndexOk

LEMMA LlamaIndexNextKeeps ==
  ASSUME LlamaIndexOk(ledger, phase, lost, pending, own1, own2, own3), Run!LlamaIndexNext
  PROVE  LlamaIndexOk(ledger', phase', lost', pending', own1', own2', own3')
<1>1. ASSUME NEW span \in Spans, Run!EnterOtherSpan(span)
      PROVE  LlamaIndexOk(ledger', phase', lost', pending', own1', own2', own3')
  <2>1. Run!ObserveSpanInstance(span) /\ ledger' = ledger /\ phase' = phase /\ lost' = lost /\ pending' = pending
    BY <1>1 DEF Run!EnterOtherSpan, Run!emitterVars
  <2>2. /\ TableOk(own1') /\ Rooted(own1')
        /\ TableOk(own2') /\ \A h \in Heads(own2') : ObservedUnder(own3', h[2], h[1])
        /\ \A i \in DOMAIN ledger : ObservedUnder(own3', ledger[i].model, ledger[i].call)
    BY <2>1, SpanIsObserved
  <2> QED
    BY <2>1, <2>2 DEF LlamaIndexOk
<1>2. ASSUME NEW c \in Calls, NEW sealed \in BOOLEAN, Run!OnSpanEnter(c, sealed)
      PROVE  LlamaIndexOk(ledger', phase', lost', pending', own1', own2', own3')
  BY <1>2, LlamaIndexEnters
<1>3. ASSUME NEW c \in Calls, Run!OnSpanExitOther(c)
      PROVE  LlamaIndexOk(ledger', phase', lost', pending', own1', own2', own3')
  <2>1. /\ Becomes(c, "running", "gone") /\ pending' = Without(pending, c)
        /\ ledger' = ledger /\ lost' = lost /\ own1' = own1 /\ own2' = own2 /\ own3' = own3
    BY <1>3, RunEmitter DEF Run!OnSpanExitOther, Run!spanVars
  <2> QED
    BY <2>1, LlamaIndexLeaves
<1>4. ASSUME NEW c \in Calls, NEW sealed \in BOOLEAN, Run!OnSpanDrop(c, sealed)
      PROVE  LlamaIndexOk(ledger', phase', lost', pending', own1', own2', own3')
  <2>1. own1' = own1 /\ own2' = own2 /\ own3' = own3
    BY <1>4 DEF Run!OnSpanDrop, Run!spanVars
  <2>2. CASE c \in Run!Keys(pending)
    <3>1. PICK end, status, output : end = "raised" /\ status = "failed" /\ output = TRUE
      OBVIOUS
    <3>2. /\ Becomes(c, "running", end) /\ pending' = Without(pending, c)
          /\ Seal(Attributed(Capsule(c, status, output, Get(pending, c, 0), {}), Run!ModelFor(own1, own2, c)), sealed)
      BY <1>4, <2>2, <3>1, RunEmitter DEF Run!OnSpanDrop
    <3>3. status # "planned"
      BY <3>1
    <3> QED
      BY <2>1, <3>2, <3>3, LlamaIndexEnds
  <2>3. CASE c \notin Run!Keys(pending)
    <3>1. Becomes(c, "running", "gone") /\ ledger' = ledger /\ lost' = lost /\ pending' = pending
      BY <1>4, <2>3, RunEmitter DEF Run!OnSpanDrop
    <3> QED
      BY <2>1, <3>1, LlamaIndexLeaves
  <2> QED
    BY <2>2, <2>3
<1>5. ASSUME NEW c \in Calls, NEW sealed \in BOOLEAN, NEW isError \in BOOLEAN,
             Run!OnSpanExit(c, isError, isError \/ Run!HasOutput(c), sealed)
      PROVE  LlamaIndexOk(ledger', phase', lost', pending', own1', own2', own3')
  <2>1. PICK end, status, output : /\ end = IF isError THEN "raised" ELSE "done"
                                   /\ status = IF isError THEN "failed" ELSE "confirmed"
                                   /\ output = (isError \/ Run!HasOutput(c))
    OBVIOUS
  <2>2. /\ Becomes(c, "running", end) /\ pending' = Without(pending, c)
        /\ Seal(Attributed(Capsule(c, status, output, Get(pending, c, 0), {}), Run!ModelFor(own1, own2, c)), sealed)
        /\ own1' = own1 /\ own2' = own2 /\ own3' = own3
    BY <1>5, <2>1, RunEmitter DEF Run!OnSpanExit, Run!spanVars
  <2>3. status # "planned"
    BY <2>1
  <2> QED
    BY <2>2, <2>3, LlamaIndexEnds
<1> QED
  BY <1>1, <1>2, <1>3, <1>4, <1>5 DEF Run!LlamaIndexNext

LEMMA LlamaIndexStart == Init => LlamaIndexInv
<1> SUFFICES ASSUME EmitterInit, own1 = <<>>, own2 = <<>>
             PROVE  LlamaIndexOk(ledger, phase, lost, pending, own1, own2, own3)
  BY DEF Init, LlamaIndexInv, Run!LlamaIndexInit
<1>1. /\ KeeperOk(ledger, phase, lost, Heads(pending)) /\ TableOk(pending) /\ DOMAIN ledger = {}
  BY KeeperStarts
<1> QED
  BY <1>1, EmptyTable DEF LlamaIndexOk, Rooted

LEMMA LlamaIndexStep == LlamaIndexInv /\ [Next]_vars => LlamaIndexInv'
<1>1. CASE UNCHANGED vars
  <2>1. /\ ledger' = ledger /\ phase' = phase /\ lost' = lost /\ pending' = pending /\ adapter' = adapter
        /\ own1' = own1 /\ own2' = own2 /\ own3' = own3
    BY <1>1 DEF vars, emitterVars
  <2> QED
    BY <2>1 DEF LlamaIndexInv
<1>2. ASSUME LlamaIndexInv, Next PROVE LlamaIndexInv'
  BY <1>2, LlamaIndexNextKeeps DEF LlamaIndexInv, Next
<1> QED
  BY <1>1, <1>2

LEMMA LlamaIndexHolds ==
  ASSUME LlamaIndexInv, adapter = "llamaindex"
  PROVE  CitationsAreTrue /\ OutcomesAreRecordedOnce
<1>1. /\ KeeperOk(ledger, phase, lost, Heads(pending))
      /\ \A i \in DOMAIN ledger : ObservedUnder(own3, ledger[i].model, ledger[i].call)
  BY DEF LlamaIndexInv, LlamaIndexOk
<1>2. ChainsPairTheSameCall /\ PriorsAreNotShared /\ OutcomesRecorded
  BY <1>1, KeeperHolds
<1>3. ModelOfItsRoot
  BY <1>1 DEF ModelOfItsRoot, ObservedUnder, Sealed
<1> QED
  BY <1>2, <1>3, OnlyItsOwn, AllTogether

-----------------------------------------------------------------------------
(* All of them                                                              *)

AdapterNames ==
    {"langchain", "agno", "litellm", "strands", "crewai", "openai", "llamaindex", "microsoft", "adk",
     "wrappers", "chains", "gateway", "otel"} \cup Apart

LEMMA AdapterStart == Init => adapter \in AdapterNames
BY DEF Init, AdapterNames, Apart

LEMMA AdapterStep == adapter \in AdapterNames /\ [Next]_vars => adapter' \in AdapterNames
<1>1. ASSUME [Next]_vars PROVE adapter' = adapter
  BY <1>1 DEF Next, vars
<1> QED
  BY <1>1

\* Whichever adapter is attached, its own invariant holds.
AttachedInv ==
    /\ adapter \in AdapterNames
    /\ LangChainInv /\ AgnoInv /\ LiteLLMInv /\ StrandsInv /\ CrewInv
    /\ OpenAIInv /\ LlamaIndexInv /\ MiddlewareInv /\ AdkInv
    /\ WrappersInv /\ ChainsInv /\ GatewayInv /\ OtelInv
    /\ BilateralInv /\ ApartInv

LEMMA AttachedStart == Init => AttachedInv
BY AdapterStart, LangChainStart, AgnoStart, StrandsStart, CrewStart, OpenAIStart, LlamaIndexStart,
   MiddlewareStart, AdkStart, WrappersStart, ChainsStart, GatewayStart, OtelStart, BilateralStart,
   ApartStart DEF AttachedInv

LEMMA AttachedStep == AttachedInv /\ [Next]_vars => AttachedInv'
BY AdapterStep, LangChainStep, AgnoStep, StrandsStep, CrewStep, OpenAIStep, LlamaIndexStep,
   MiddlewareStep, AdkStep, WrappersStep, ChainsStep, GatewayStep, OtelStep, BilateralStep,
   ApartStep DEF AttachedInv

LEMMA AttachedHolds == AttachedInv => CitationsAreTrue /\ OutcomesAreRecordedOnce
<1> SUFFICES ASSUME AttachedInv PROVE CitationsAreTrue /\ OutcomesAreRecordedOnce
  OBVIOUS
<1>1. CASE adapter = "langchain"
  BY <1>1, LangChainHolds DEF AttachedInv
<1>2. CASE adapter \in {"agno", "litellm"}
  BY <1>2, AgnoHolds DEF AttachedInv
<1>3. CASE adapter = "strands"
  BY <1>3, StrandsHolds DEF AttachedInv
<1>4. CASE adapter = "crewai"
  BY <1>4, CrewHolds DEF AttachedInv
<1>5. CASE adapter = "openai"
  BY <1>5, OpenAIHolds DEF AttachedInv
<1>6. CASE adapter = "llamaindex"
  BY <1>6, LlamaIndexHolds DEF AttachedInv
<1>7. CASE adapter = "microsoft"
  BY <1>7, MiddlewareHolds DEF AttachedInv
<1>8. CASE adapter = "adk"
  BY <1>8, AdkHolds DEF AttachedInv
<1>9. CASE adapter = "wrappers"
  BY <1>9, WrappersHolds DEF AttachedInv
<1>10. CASE adapter = "chains"
  BY <1>10, ChainsCite DEF AttachedInv
<1>11. CASE adapter = "gateway"
  BY <1>11, GatewayHolds DEF AttachedInv
<1>12. CASE adapter = "otel"
  BY <1>12, OtelHolds DEF AttachedInv
<1>13. CASE adapter \in Apart
  BY <1>13, ApartHolds DEF AttachedInv
<1> QED
  BY <1>1, <1>2, <1>3, <1>4, <1>5, <1>6, <1>7, <1>8, <1>9, <1>10, <1>11, <1>12, <1>13
     DEF AttachedInv, AdapterNames

\* Every adapter: however calls overlap, seals fail, plans are evicted and
\* outcomes come late, what a record cites is its own call's plan or an earlier
\* confirmed call, as what it retries the last plan of its call, for an outcome
\* the one it answers, the model its root observed, and no plan is answered
\* twice.
THEOREM CitationsHold == Spec => []CitationsAreTrue
<1>1. Spec => []AttachedInv
  BY AttachedStart, AttachedStep, PTL DEF Spec
<1> QED
  BY <1>1, AttachedHolds, PTL

\* Every adapter: the outcome of a call that ended is in the ledger or a seal
\* of it failed, one without its plan says so, and two observers, or two
\* imports of one file, do not record it twice.
THEOREM OutcomesHold == Spec => []OutcomesAreRecordedOnce
<1>1. Spec => []AttachedInv
  BY AttachedStart, AttachedStep, PTL DEF Spec
<1> QED
  BY <1>1, AttachedHolds, PTL
=============================================================================
