--------------------------- MODULE RustCheckpoint ---------------------------
(***************************************************************************)
(* rust/capsule-emit/src/checkpoint.rs and substrate.rs: the checkpoint    *)
(* state over a node's ledger.  A runner folds the ledger's lines into its *)
(* MMR, pads the ledger when it is to cut, signs a checkpoint of a prefix  *)
(* of the leaves and commits it.  A leaf stands for its line's id and a    *)
(* root for the sequence of leaves under it.                               *)
(*                                                                         *)
(* Witnesses are external: one accepts the first checkpoint it is sent,    *)
(* then each that names the last one it accepted as its previous.          *)
(***************************************************************************)
EXTENDS RustLedger

CONSTANTS Witnesses,
          Runners,     \* the processes that may keep a checkpoint state
          Writer,      \* the runner in the ledger's own process
          Nodes,       \* the nodes considered: layout, pad_bucket, runners,
                       \* witness_urls they are loaded with, tips, faults
          Cadence      \* cadence_entries

\* What another log left at a witness under this log id.
Foreign == <<-1>>

\* A flat ledger is checkpointed by the process that writes it, and no witness
\* has accepted anything of a log that is not there yet.
ASSUME NodesAssumption ==
    /\ Writer \in Runners
    /\ \A n \in Nodes :
          /\ n.layout \in {"flat", "stores"}
          /\ n.bucket \in Nat
          /\ n.layout = "flat" => n.runners \subseteq {Writer}
          /\ n.configs \subseteq Seq(Witnesses)
          /\ n.tips \in [Witnesses -> {<<>>, Foreign}]

VARIABLES bucket,    \* pad_bucket
          configs,   \* the witness_urls a runner may be loaded with
          cuts,      \* the lines of checkpoints.jsonl, or the log's cuts:
                     \* [leaves, prev, padded, how]
          stored,    \* the leaves in mmr_nodes.dat, or in the CLL state
          tip,       \* what each witness last accepted: a root, or <<>>
          took,      \* history: every root a witness accepted
          receipts,  \* flat: <<witness, root>> in checkpoints.jsonl or beside it
          rows,      \* stores: rows[w][k], the witness row of cut k
          run        \* each runner's CheckpointState, and where its call is

nodeVars == <<bucket, configs, cuts, stored, tip, took, receipts, rows, run>>
vars == <<ledgerVars, nodeVars>>

None == "none"
NoRow == [st |-> "none", tries |-> 0]
OpenRow == [st |-> "open", tries |-> 0]

Off == [at |-> "off", urls |-> <<>>, known |-> {}, mem |-> <<>>, last |-> <<>>,
        seen |-> <<>>, pending |-> {}, deferred |-> FALSE,
        queue |-> [w \in Witnesses |-> <<>>], register |-> FALSE, push |-> 0,
        goal |-> 0, prep |-> <<>>, given |-> {}, todo |-> <<>>, answer |-> None,
        caught |-> FALSE]

\* The call is over.
Idle(x) == [x EXCEPT !.at = "idle", !.register = FALSE, !.push = 0, !.goal = 0,
                     !.prep = <<>>, !.given = {}, !.todo = <<>>, !.answer = None,
                     !.caught = FALSE]

\* The numbers in a set, in order.
InOrder(S) ==
    CHOOSE q \in [1 .. Cardinality(S) -> S] :
        ToSet(q) = S /\ \A i, j \in DOMAIN q : i < j => q[i] < q[j]

\* A line of checkpoints.jsonl was written ("written"), is there although its
\* write failed ("unheard"), is there in part ("torn"), or was written behind
\* such a part without a line end between them ("glued").  The last two cannot
\* be read; what the library that reads the file then does is not in the
\* repository: it leaves them out here, or refuses the file.
Legible == {k \in DOMAIN cuts : cuts[k].how \in {"written", "unheard"}}
Roots == {cuts[k].leaves : k \in Legible}
Latest == IF Legible = {} THEN <<>> ELSE cuts[Max(Legible)].leaves
Torn == cuts # <<>> /\ Last(cuts).how = "torn"

\* The previous of the checkpoint of these leaves, the last one if a failed
\* write was followed by another.
PreviousOf(root) == cuts[Max({k \in DOMAIN cuts : cuts[k].leaves = root})].prev

NodeInit ==
    /\ LedgerInit
    /\ \E n \in Nodes :
          /\ layout = n.layout /\ faults = n.faults /\ bucket = n.bucket /\ configs = n.configs /\ tip = n.tips
          /\ run = [r \in Runners |-> IF r \in n.runners THEN Off ELSE [Off EXCEPT !.at = "absent"]]
    /\ cuts = <<>> /\ stored = <<>>
    /\ took = [w \in Witnesses |-> {}]
    /\ receipts = {}
    /\ rows = [w \in Witnesses |-> <<>>]

(***************************************************************************)
(* Loading and folding.                                                    *)
(***************************************************************************)

\* The leaves a store of them grows to when it folds the lines it does not have.
Folding(leaves) == leaves \o SubSeq(Ids(file), Len(leaves) + 1, Len(file))

\* read_complete_lines(): every complete line from there on must parse.
Whole(n) == \A k \in n + 1 .. Len(file) : file[k] # Glued

\* Variant: a held row counts as closed.
UndeliveredAfterHeld(w) ==
    LET closed == {k \in DOMAIN rows[w] : rows[w][k].st \in {"receipt", "ahead", "held"}}
    IN InOrder({k \in DOMAIN rows[w] :
                   rows[w][k].st = "open" /\ \A c \in closed : c < k})

\* undelivered(): the rows past the last closed one, and every held row.
Undelivered(w) ==
    LET closed == {k \in DOMAIN rows[w] : rows[w][k].st \in {"receipt", "ahead"}}
    IN InOrder({k \in DOMAIN rows[w] :
                   \/ rows[w][k].st = "held"
                   \/ rows[w][k].st = "open" /\ \A c \in closed : c < k})

\* verify_stored_leaves_match_chain(full), or open_log()'s node checks: the store
\* is not ahead of the ledger and holds the leaves of its lines.
StoredMatches == IsPrefix(stored, Ids(file))

\* checked_checkpoint(): the stored checkpoint is of the first of the entries.
CheckpointMatches == IsPrefix(Latest, Ids(file))

\* A checkpoint state as it is loaded, with the leaves it holds.
Loaded(urls, leaves) ==
    [Off EXCEPT !.at = "idle", !.urls = urls, !.mem = leaves, !.last = Latest, !.seen = stored]

\* CheckpointState::load(): it checks every leaf, then folds what is new into
\* mmr_nodes.dat.  What is still owed to a witness is forgotten.
LoadFlat(r) ==
    /\ layout = "flat"
    /\ run[r].at = "off" /\ led.open
    /\ Whole(0) /\ StoredMatches
    /\ stored' = Folding(stored)
    /\ \E urls \in configs : run' = [run EXCEPT ![r] = Loaded(urls, stored')]
    /\ UNCHANGED <<ledgerVars, bucket, configs, cuts, tip, took, receipts, rows>>

\* load_log(): the leaves are the log's, the CLL state is checked against them,
\* and the rows say what is still owed.
LoadLog(r) ==
    /\ layout = "stores"
    /\ run[r].at = "off" /\ (r = Writer => led.open)
    /\ StoredMatches /\ CheckpointMatches
    /\ \E urls \in configs :
          run' = [run EXCEPT ![r] =
              [Loaded(urls, Ids(file)) EXCEPT
                  !.known = ToSet(urls) \cup {w \in Witnesses : \E k \in DOMAIN cuts : rows[w][k] # NoRow},
                  !.queue = [w \in Witnesses |-> IF w \in ToSet(urls) THEN Undelivered(w) ELSE <<>>]]]
    /\ UNCHANGED <<ledgerVars, bucket, configs, cuts, stored, tip, took, receipts, rows>>

\* check_last_folded_line(): the last folded line still names its leaf.
LastLineMatches(x) == x.mem # <<>> => file[Len(x.mem)].id = Last(x.mem)

\* sync(): the file is no shorter than what was folded, its last folded line is
\* still that leaf, and every new line can be read.
Syncs(x) ==
    /\ Len(x.mem) <= Len(file)
    /\ LastLineMatches(x)
    /\ Whole(Len(x.mem))

Folded(x) == [x EXCEPT !.mem = Folding(@)]

\* The call goes on as y; a fold in the flat layout is in mmr_nodes.dat at once.
Becomes(r, y) ==
    /\ run' = [run EXCEPT ![r] = y]
    /\ stored' = IF layout = "flat" THEN y.mem ELSE stored
    /\ UNCHANGED <<layout, bucket, configs, cuts>>

(***************************************************************************)
(* Cutting.                                                                *)
(***************************************************************************)
Backlog(x) == Len(x.mem) - Len(x.last)
HasSink(r) == r = Writer /\ bucket > 0

\* Variant: it need not grow.
GrowsOrStays(x, n) == n >= Len(x.last) /\ n > 0

Grows(x, n) == n > Len(x.last)

\* prepare_checkpoint() of the first n leaves: refused when it is empty, does
\* not grow, or the leaves under the last checkpoint are not its own.  In the
\* flat layout a clock cut is then offered to every witness before it is
\* committed.
Prepared(x, n) ==
    IF /\ Grows(x, n)
       /\ IsPrefix(x.last, x.mem)
    THEN IF layout = "flat" /\ x.register
         THEN [x EXCEPT !.prep = SubSeq(x.mem, 1, n),
                        !.at = IF x.urls = <<>> THEN "commit" ELSE "offer", !.todo = x.urls,
                        !.pending = {}, !.deferred = FALSE]
         ELSE [x EXCEPT !.prep = SubSeq(x.mem, 1, n), !.at = "commit"]
    ELSE Idle(x)

\* deliver_witness_rows(): it runs over every configured witness.
Delivers(x) == [x EXCEPT !.at = IF x.urls = <<>> THEN "idle" ELSE "send", !.todo = x.urls]

\* checkpoint_now(): with a padding sink the ledger is padded first.
Cuts(r, x, register, push) ==
    LET y == [x EXCEPT !.register = register, !.push = push]
    IN IF HasSink(r) THEN [y EXCEPT !.at = "pad"] ELSE Prepared(y, Len(y.mem))

\* cut_leaf_count(): the sink pads the ledger, under its writer's lock, to the
\* next bucket boundary, or fails on the way.
Pad(r) ==
    /\ run[r].at = "pad"
    /\ led.open /\ led.writing = Free
    /\ LET k == Missing(bucket, led.count)
       IN \/ /\ PadsBy(k)
             /\ Becomes(r, [run[r] EXCEPT !.at = "fold", !.goal = led.count + k])
             /\ UNCHANGED faults
          \/ /\ Fault
             /\ \E j \in 0 .. k - 1 : PadsBy(j)
             /\ Becomes(r, Idle(run[r]))
    /\ UNCHANGED <<tip, took, receipts, rows>>

\* Variant: the bucket before it.
GoalBefore(x) == x.goal - bucket

\* The cut is at exactly the padded count.
Goal(x) == x.goal

\* It folds the padding, and whatever was written since.
Fold(r) ==
    LET x == Folded(run[r])
    IN /\ run[r].at = "fold"
       /\ IF ~Syncs(run[r]) THEN Becomes(r, Idle(run[r]))
          ELSE IF Len(x.mem) < x.goal THEN Becomes(r, Idle(x))
          ELSE Becomes(r, Prepared(x, Goal(x)))
       /\ UNCHANGED <<file, torn, bodies, led, sealed, misled, faults, tip, took, receipts, rows>>

\* commit_cll()'s compare-and-set: nodes and checkpoint are those last seen.
NotMoved(x) == Len(stored) = Len(x.seen) /\ Latest = x.last

Cut(r, how) ==
    [leaves |-> run[r].prep, prev |-> run[r].last, padded |-> HasSink(r), how |-> how]

\* A line of checkpoints.jsonl, with the receipts it was given.
CutLine(r, how) ==
    /\ cuts' = Append(cuts, Cut(r, how))
    /\ receipts' = receipts \cup
          IF how \in {"written", "unheard"} THEN {<<w, run[r].prep>> : w \in run[r].given} ELSE {}

\* commit_checkpoint() to checkpoints.jsonl: the checkpoint is the state's last
\* one when append_checkpoint() has returned.  One that fails may leave its
\* line, or the start of it.
CommitFlat(r) ==
    LET x == run[r]
    IN /\ layout = "flat" /\ x.at = "commit"
       /\ \/ /\ \E how \in {"written"} \cup IF Torn THEN {"glued"} ELSE {} : CutLine(r, how)
             /\ run' = [run EXCEPT ![r] =
                   [Idle(x) EXCEPT !.last = x.prep, !.deferred = @ \/ ~x.register]]
             /\ UNCHANGED faults
          \/ /\ Fault
             /\ \/ \E how \in {"unheard", "torn"} : CutLine(r, how)
                \/ UNCHANGED <<cuts, receipts>>
             /\ run' = [run EXCEPT ![r] = Idle(x)]
       /\ UNCHANGED <<layout, file, torn, bodies, led, sealed, misled,
                      bucket, configs, stored, tip, took, rows>>

\* commit_checkpoint() to the CLL state, with a row per configured witness; the
\* state may have moved, and the answer may be lost.
CommitStores(r) ==
    LET x == run[r]
        k == Len(cuts) + 1
        written == /\ cuts' = Append(cuts, Cut(r, "written"))
                   /\ stored' = x.mem
                   /\ rows' = [w \in Witnesses |->
                         Append(rows[w], IF w \in ToSet(x.urls) THEN OpenRow ELSE NoRow)]
        committed == [x EXCEPT !.last = x.prep, !.seen = x.mem,
                               !.queue = [w \in Witnesses |->
                                   IF w \in ToSet(x.urls) THEN Append(@[w], k) ELSE @[w]]]
    IN /\ layout = "stores" /\ x.at = "commit"
       /\ \/ /\ NotMoved(x)
             /\ written
             /\ run' = [run EXCEPT ![r] =
                   IF x.register THEN Delivers(Idle(committed))
                   ELSE [Idle(committed) EXCEPT !.deferred = TRUE]]
             /\ UNCHANGED faults
          \/ /\ NotMoved(x) /\ Fault
             /\ written
             /\ run' = [run EXCEPT ![r] = Idle(x)]
          \/ /\ ~NotMoved(x)
             /\ run' = [run EXCEPT ![r] = Idle(x)]
             /\ UNCHANGED <<cuts, stored, rows, faults>>
       /\ UNCHANGED <<layout, file, torn, bodies, led, sealed, misled,
                      bucket, configs, tip, took, receipts>>

(***************************************************************************)
(* A witness.                                                              *)
(***************************************************************************)

\* What submitting a checkpoint to a witness at t can end in: no answer with
\* nothing done, a receipt, an answer that was lost, or a 409 naming t.
Answers(t, root, prev) ==
    {[tip |-> t, says |-> "error"]}
    \cup IF t \in {<<>>, prev}
         THEN {[tip |-> root, says |-> "receipt"], [tip |-> root, says |-> "error"]}
         ELSE {[tip |-> t, says |-> "refused"]}
=============================================================================
