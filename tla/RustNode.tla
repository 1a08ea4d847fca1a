------------------------------ MODULE RustNode ------------------------------
(***************************************************************************)
(* A Rust node: the ledger's writer, and the checkpoint state that the     *)
(* cadence task ticks and a push asks to cover a record, in one process.   *)
(* On a CLL backend a second process may keep a checkpoint state over the  *)
(* same log.  Any of them may die at any step.                             *)
(***************************************************************************)
EXTENDS RustDelivery

Init == NodeInit

OnlyLedger == UNCHANGED nodeVars

Quiet == UNCHANGED <<file, torn, bodies, led, sealed, misled, faults,
                     tip, took, receipts, rows>>

\* tick(): a cut by either leg; else, while neither is due, what witnesses are
\* still owed.  The clock leg may be up as soon as a leaf is waiting.
Tick(r) ==
    LET x == Folded(run[r])
    IN /\ run[r].at = "idle" /\ Syncs(run[r])
       /\ \/ /\ Backlog(x) > 0
             /\ Becomes(r, Cuts(r, x, TRUE, 0))
          \/ /\ Backlog(x) < Cadence
             /\ Becomes(r, IF layout = "flat" THEN RetriesPending(OffersDeferred(x))
                           ELSE Delivers(x))
       /\ Quiet

\* existing_coverage(): the last checkpoint is over the record's leaf.
Covers(x, i) == i <= Len(x.last)

\* checkpoint_covering(): a record the last checkpoint covers is answered from
\* it; else a cut that is not offered to the witnesses.
Push(r) ==
    LET x == Folded(run[r])
    IN /\ run[r].at = "idle" /\ Syncs(run[r])
       /\ \E i \in DOMAIN x.mem :
             Becomes(r, IF Covers(x, i) THEN x ELSE Cuts(r, x, FALSE, x.mem[i]))
       /\ Quiet

\* reconnect() and checkpoint_on_shutdown(): what is not checkpointed is.
Reconnect(r) ==
    LET x == Folded(run[r])
    IN /\ run[r].at = "idle" /\ Syncs(run[r])
       /\ x.mem # <<>>
       /\ Becomes(r, IF Backlog(x) > 0 THEN Cuts(r, x, TRUE, 0)
                     ELSE IF layout = "flat" THEN RetriesPending(x) ELSE Delivers(x))
       /\ Quiet

\* A process dies.
Crash(r) ==
    /\ run[r].at \notin {"off", "absent"} \/ (r = Writer /\ led.open)
    /\ Fault
    /\ IF r = Writer THEN LedgerDies
       ELSE UNCHANGED <<layout, file, torn, bodies, led, sealed, misled>>
    /\ run' = [run EXCEPT ![r] = Off]
    /\ UNCHANGED <<bucket, configs, cuts, stored, tip, took, receipts, rows>>

\* While nothing runs, the ledger is cut back, or rewritten from a record on (a
\* migration, a restored copy).
Rewrite ==
    /\ ~led.open /\ \A r \in Runners : run[r].at \in {"off", "absent"}
    /\ Fault
    /\ \E n \in 0 .. Len(file) - 1 :
          LET kept == SubSeq(file, 1, n)
              fresh == Line(sealed + 1, HeadBefore(file, n + 1), FALSE)
          IN /\ torn' = FALSE
             /\ \/ /\ file' = kept
                   /\ UNCHANGED <<bodies, sealed>>
                \/ /\ file' = Append(kept, fresh)
                   /\ bodies' = bodies \cup {fresh.id}
                   /\ sealed' = sealed + 1
    /\ UNCHANGED <<layout, led, misled, nodeVars>>

Next ==
    \/ LedgerNext /\ OnlyLedger
    \/ \E r \in Runners :
          \/ LoadFlat(r) \/ LoadLog(r) \/ Tick(r) \/ Push(r) \/ Reconnect(r)
          \/ Pad(r) \/ Fold(r) \/ CommitFlat(r) \/ CommitStores(r)
          \/ Offer(r) \/ Deliver(r) \/ Crash(r)
    \/ \E w \in Witnesses : Hold(w)
    \/ Rewrite

Spec == Init /\ [][Next]_vars

-----------------------------------------------------------------------------
(* Properties.                                                              *)

\* The cuts are one chain, however many runners cut, die and come back: each
\* holds all the leaves of the one it names, and more, and names the one before
\* it (prepare_checkpoint() and commit_cll()'s compare-and-set).  In
\* checkpoints.jsonl it may name an earlier one, and the file forks, when the
\* lines between them are of failed writes or cannot be read; not in a log.
CutsChain ==
    \A k \in DOMAIN cuts :
        /\ IsStrictPrefix(cuts[k].prev, cuts[k].leaves)
        /\ \E j \in 0 .. k - 1 :
              /\ cuts[k].prev = IF j = 0 THEN <<>> ELSE cuts[j].leaves
              /\ \A i \in j + 1 .. k - 1 : layout = "flat" /\ cuts[i].how # "written"

\* A checkpoint is over the first lines of the ledger as it is when it is
\* committed, whatever was done to the file while nothing ran, and with a
\* padding sink it ends on a bucket boundary, although the writer goes on
\* (verify_stored_leaves_match_chain(), cut_leaf_count()).
CutIsTheLedger ==
    cuts' # cuts =>
        LET cut == Last(cuts')
        IN /\ IsPrefix(cut.leaves, Ids(file'))
           /\ cut.padded => Len(cut.leaves) % bucket = 0
CutsAreTheLedger == [][CutIsTheLedger]_vars

\* A push that cuts covers the record it was made for: the expect() in
\* checkpoint_covering() does not panic, unless the writer's count was left
\* behind its file by a write that failed after it reached the disk.
PushIsIn ==
    \A r \in Runners :
        cuts' # cuts /\ run[r].at = "commit" /\ run'[r].at # "commit"
        /\ run[r].push # 0 /\ ~misled
            => run[r].push \in ToSet(Last(cuts').leaves)
PushIsCovered == [][PushIsIn]_vars

\* A receipt on record is for a checkpoint the witness accepted, and a row
\* closed without one is of a cut at or before one it accepted
\* (RowDelivery::run(), close_ahead(), register_with()).
ClosedIsAccepted ==
    /\ \A p \in receipts : p[2] \in took[p[1]]
    /\ \A w \in Witnesses, k \in DOMAIN cuts :
          /\ layout = "stores" /\ rows[w][k].st = "receipt" => cuts[k].leaves \in took[w]
          /\ layout = "stores" /\ rows[w][k].st = "ahead" =>
                \E j \in k .. Len(cuts) : cuts[j].leaves \in took[w]

\* A runner whose checkpoint is the latest has every row that is still owed to
\* one of its witnesses in that witness's queue, oldest first, across restarts
\* (undelivered(), commit, RowDelivery::run()).
NothingUndelivered ==
    \A r \in Runners :
        LET x == run[r]
        IN layout = "stores" /\ x.at \notin {"off", "absent"} /\ x.last = Latest =>
              \A w \in ToSet(x.urls) :
                  /\ \A k \in DOMAIN cuts :
                        \/ k \in ToSet(x.queue[w]) \/ rows[w][k] = NoRow
                        \/ \E c \in k .. Len(cuts) : rows[w][c].st \in {"receipt", "ahead"}
                  /\ \A i, j \in DOMAIN x.queue[w] : i < j => x.queue[w][i] < x.queue[w][j]

\* Unless a write failed after it reached the disk, the ledger can be opened
\* again wherever its process dies, and its writer's head and count are what
\* replaying it gives, padding included (write_line(), append_padding()).
ReopenFindsTheChain ==
    ~misled =>
        /\ Admitted(file)
        /\ led.open => /\ led.head = HeadBefore(file, Len(file) + 1)
                       /\ led.count = Len(file)

\* A checkpoint is of the records that are there, and of the record it was
\* asked for (prepare_checkpoint(), checkpoint_covering()).
CutsCoverTheLedger == CutsAreTheLedger /\ PushIsCovered

\* A receipt on record is of a checkpoint that witness accepted, and what a
\* witness is still owed is queued for it (RowDelivery::run(), undelivered()).
DeliveryIsAccounted == ClosedIsAccepted /\ NothingUndelivered
=============================================================================
