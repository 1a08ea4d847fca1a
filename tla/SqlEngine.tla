----------------------------- MODULE SqlEngine -----------------------------
(***************************************************************************)
(* One namespace of the SQL artifact stores, and what the databases make   *)
(* of a statement: InnoDB's row and gap locks under REPEATABLE READ and    *)
(* READ COMMITTED, SQLite's one writer and its snapshots.  The databases   *)
(* are not part of the repository; they are modelled by the guarantees its *)
(* stores rest on.                                                         *)
(*                                                                         *)
(* A call that writes is a program, a sequence of statements given by the  *)
(* module of its language, run in a transaction of its own.  A statement   *)
(* is one step.                                                            *)
(***************************************************************************)
EXTENDS Integers, Sequences, SequencesExt, FiniteSetsExt

CONSTANTS Clients, Ids, Bodies, PathSets

None == "none"
Damaged == "damaged"

VARIABLES engine,   \* "mysql" (REPEATABLE READ), "mysql rc" or "sqlite"
          db,       \* [cap, tables, paths, order]
          tx,       \* client -> its transaction
          paging,   \* a caller pages through find
          answer,   \* what the step told a caller
          failed    \* history: <<id, body>> of puts whose outcome is unknown

vars == <<engine, db, tx, paging, answer, failed>>

\* db.cap: the committed records, Capsule ID -> [body, gone, sound];
\* db.tables: the index tables exist; db.paths: the committed declaration;
\* db.order: capsule_store_index_records by seq.  A row has the paths it was
\* extracted for (under) and the clients whose transactions insert (by) and
\* delete it (cut); it lies before the cursor of who pages (passed), or was
\* there when the paging began and has not been returned (owed).
Idle == [op |-> None, id |-> None, arg |-> None, first |-> <<>>, again |-> <<>>,
         retry |-> FALSE, todo |-> <<>>, locks |-> {}, stale |-> FALSE,
         paths |-> None, add |-> None, whole |-> FALSE, erase |-> FALSE,
         declare |-> None, clear |-> FALSE]

Says(op, i, b, what) == answer' = [op |-> op, id |-> i, body |-> b, says |-> what]
Tell(c, what) == Says(tx[c].op, tx[c].id, tx[c].arg, what)
Silent == Says(None, None, None, None)

Others(c) == Clients \ {c}
Doing(c) == IF tx[c].todo = <<>> THEN None ELSE Head(tx[c].todo)
Rest(c) == [tx[c] EXCEPT !.todo = Tail(@)]
Stored(i) == i \in DOMAIN db.cap

\* The index rows, and the records the transaction of c finds indexed.
NewRow(i, ps, c) == [id |-> i, under |-> ps, by |-> c, cut |-> None,
                     passed |-> FALSE, owed |-> FALSE]
Committed == {k \in DOMAIN db.order : db.order[k].by = None}
Indexed(c) == {db.order[k].id : k \in {j \in DOMAIN db.order :
                  db.order[j].by \in {None, c} /\ db.order[j].cut # c}}
-----------------------------------------------------------------------------
(* Locks.                                                                  *)

Row(i) == <<"capsule", i>>
Paths == <<"paths">>
Rows == <<"index records">>
AllRows == <<"capsules">>
Database == <<"database">>

Writes == {"insert capsule", "insert artifacts", "index record", "tombstone",
           "insert paths", "clear records", "clear paths", "backfill"}
PathReads == {"paths", "paths for share", "paths for update"}

\* What the next statement of c asks InnoDB for.  A locking read of a row that
\* is not there locks the gap.
Request(c) ==
    LET i == tx[c].id
        s == Doing(c)
    IN CASE s = "insert capsule" ->
                IF Stored(i) THEN {<<Row(i), "S">>}
                ELSE {<<Row(i), "X">>, <<AllRows, "insert">>}
         [] s \in {"read for update", "select for update"} -> {<<Row(i), "X">>}
         [] s = "paths for share" /\ db.tables ->
                {<<Paths, IF db.paths = None THEN "gap" ELSE "S">>}
         [] s \in {"paths for update", "clear paths"} ->
                {<<Paths, IF db.paths = None THEN "gap" ELSE "X">>}
         [] s = "insert paths" -> {<<Paths, "insert">>}
         [] s = "index record" -> {<<Rows, "insert">>}
         [] s = "clear records" -> {<<Rows, "X">>}
         [] s = "backfill" -> {<<Row(j), "S">> : j \in Ids} \cup
                              {<<AllRows, "gap">>, <<Rows, "insert">>}
         [] OTHER -> {}

\* A request of mode m waits for a lock of mode h of somebody else.
Conflict(m, h) == \/ m = "X" /\ h \in {"S", "X", "row"}
                  \/ m \in {"S", "gap"} /\ h = "X"
                  \/ m = "insert" /\ h \in {"gap", "S", "X"}
Clash(these, those) ==
    \E r \in these, h \in those : r[1] = h[1] /\ Conflict(r[2], h[2])

\* The locks the statement leaves: an inserted row is locked, and only
\* REPEATABLE READ keeps gaps.
LeftBy(r) == CASE r[1] = AllRows -> IF r[2] = "gap" THEN r ELSE <<AllRows, "row">>
               [] r[1] = Rows -> <<Rows, IF r[2] = "X" /\ engine = "mysql"
                                         THEN "X" ELSE "row">>
               [] OTHER -> <<r[1], IF r[2] = "insert" THEN "X" ELSE r[2]>>
Kept(c) ==
    IF engine = "sqlite"
    THEN {<<Database, IF Doing(c) \in Writes THEN "X" ELSE "read">>}
    ELSE {LeftBy(r) : r \in {q \in Request(c) :
             /\ ~(q[2] = "gap" /\ engine = "mysql rc")
             /\ ~(\E j \in Ids : q = <<Row(j), "S">> /\ ~Stored(j))}}

Blockers(c) ==
    IF engine = "sqlite"
    THEN {d \in Others(c) :
             /\ Doing(c) \in Writes \/ (Doing(c) = "create tables" /\ ~db.tables)
             /\ <<Database, "X">> \in tx[d].locks}
    ELSE {d \in Others(c) : Clash(Request(c), tx[d].locks)}

\* Whom c may wait for: a holder, or one that asked before and waits itself.
WaitsFor(c) ==
    Blockers(c) \cup {d \in Others(c) :
                         Blockers(d) # {} /\ Clash(Request(c), Request(d))}
Deadlocked(c) ==
    \E S \in SUBSET Clients : c \in S /\ \A d \in S : WaitsFor(d) \cap S # {}
-----------------------------------------------------------------------------
(* Statements.                                                             *)

Runs(c, s) ==
    /\ Doing(c) = s
    /\ Blockers(c) = {}
    /\ engine = "sqlite" => ~(s \in Writes /\ tx[c].stale)

Becomes(c, t) == tx' = [tx EXCEPT ![c] = [t EXCEPT !.locks = @ \cup Kept(c)]]
Undone(c) ==
    LET left == SelectSeq(db.order, LAMBDA e : e.by # c)
    IN [db EXCEPT !.order =
           [k \in DOMAIN left |->
               IF left[k].cut = c THEN [left[k] EXCEPT !.cut = None] ELSE left[k]]]
Over(c, what) ==
    /\ db' = Undone(c)
    /\ tx' = [tx EXCEPT ![c] = Idle]
    /\ Tell(c, what)
    /\ UNCHANGED <<paging, failed>>
\* Whoever has read before is left with a snapshot older than the commit.
Overtaken(c, new, t) ==
    [d \in Clients |->
        IF d = c THEN t
        ELSE [tx[d] EXCEPT !.stale =
                 @ \/ (<<Database, "read">> \in tx[d].locks /\ new # db)]]
OnlyTx == Silent /\ UNCHANGED <<db, paging, failed>>

\* CREATE TABLE IF NOT EXISTS, in no transaction.
CreateTables(c) ==
    LET new == [db EXCEPT !.tables = TRUE]
    IN /\ Runs(c, "create tables")
       /\ db' = new
       /\ tx' = Overtaken(c, new, Rest(c))
       /\ Silent /\ UNCHANGED <<paging, failed>>

\* A duplicate key sends the program to its second part.
InsertCapsule(c) ==
    /\ Runs(c, "insert capsule")
    /\ Becomes(c, IF Stored(tx[c].id) THEN [tx[c] EXCEPT !.todo = tx[c].again]
                  ELSE [Rest(c) EXCEPT !.add = tx[c].arg])
    /\ OnlyTx

InsertArtifacts(c) ==
    /\ Runs(c, "insert artifacts")
    /\ Becomes(c, [Rest(c) EXCEPT !.whole = TRUE])
    /\ OnlyTx

\* The record a put came upon is read, and with it the put is decided.
Compare(c, compared(_, _)) ==
    /\ \E s \in {"read", "read for update"} : Runs(c, s)
    /\ Over(c, compared(db.cap[tx[c].id], tx[c].arg))

Select(c) ==
    /\ \E s \in {"select", "select for update"} : Runs(c, s)
    /\ IF Stored(tx[c].id) THEN Becomes(c, Rest(c)) /\ OnlyTx
       ELSE Over(c, "NotFound")

Tombstone(c) ==
    /\ Runs(c, "tombstone")
    /\ Becomes(c, [Rest(c) EXCEPT !.erase = TRUE])
    /\ OnlyTx

\* The declaration, or none, also where the tables are older than the index.
\* One that no longer decodes ends every program but a reindex.
ReadPaths(c) ==
    /\ \E s \in PathReads : Runs(c, s)
    /\ IF db.paths = Damaged /\ tx[c].op # "reindex" THEN Over(c, "Corrupt")
       ELSE Becomes(c, [Rest(c) EXCEPT !.paths = db.paths]) /\ OnlyTx

\* INSERT IGNORE of the index rows of these records, in some order.
AddRows(c, t, ids, ps) ==
    /\ \E s \in {q \in [1 .. Cardinality(ids) -> ids] : IsInjective(q)} :
           db' = [db EXCEPT !.order =
                     @ \o [k \in DOMAIN s |-> NewRow(s[k], ps, c)]]
    /\ Becomes(c, t)
    /\ Silent /\ UNCHANGED <<paging, failed>>

IndexRecord(c) ==
    /\ Runs(c, "index record")
    /\ AddRows(c, Rest(c),
               IF tx[c].paths = None THEN {} ELSE {tx[c].id} \ Indexed(c),
               tx[c].paths)

\* init_index's decision between a first declaration, the same and another.
Declare(c) ==
    /\ Runs(c, "declare")
    /\ IF tx[c].paths = None THEN Becomes(c, Rest(c)) /\ OnlyTx
       ELSE Over(c, IF tx[c].paths = tx[c].arg THEN "ok" ELSE "Conflict")

ClearRecords(c) ==
    /\ Runs(c, "clear records")
    /\ db' = [db EXCEPT !.order =
                 [k \in DOMAIN @ |->
                     IF k \in Committed THEN [@[k] EXCEPT !.cut = c] ELSE @[k]]]
    /\ Becomes(c, Rest(c))
    /\ Silent /\ UNCHANGED <<paging, failed>>

ClearPaths(c) ==
    /\ Runs(c, "clear paths")
    /\ Becomes(c, [Rest(c) EXCEPT !.clear = TRUE])
    /\ OnlyTx

InsertPaths(c) ==
    /\ Runs(c, "insert paths")
    /\ IF db.paths = None \/ tx[c].clear
       THEN Becomes(c, [Rest(c) EXCEPT !.declare = tx[c].arg]) /\ OnlyTx
       ELSE Over(c, "IOError")

\* A record whose bytes no longer decode is left out.
Backfill(c) ==
    /\ Runs(c, "backfill")
    /\ AddRows(c, Rest(c),
               {i \in DOMAIN db.cap \ Indexed(c) : db.cap[i].sound}, tx[c].arg)
-----------------------------------------------------------------------------
(* Ends.                                                                   *)

Result(c) ==
    LET i == tx[c].id
        new == [body |-> tx[c].add, gone |-> FALSE, sound |-> tx[c].whole]
        cap == IF tx[c].add = None THEN db.cap ELSE (i :> new) @@ db.cap
        kept == SelectSeq(db.order, LAMBDA e : e.cut # c)
    IN [cap |-> IF tx[c].erase THEN [cap EXCEPT ![i].gone = TRUE] ELSE cap,
        tables |-> db.tables,
        paths |-> IF tx[c].declare = None THEN db.paths ELSE tx[c].declare,
        order |-> [k \in DOMAIN kept |->
                      IF kept[k].by = c THEN [kept[k] EXCEPT !.by = None]
                      ELSE kept[k]]]

Commits(c) ==
    /\ db' = Result(c)
    /\ tx' = Overtaken(c, Result(c), Idle)

Commit(c) ==
    /\ Runs(c, "commit")
    /\ Commits(c)
    /\ Tell(c, "ok")
    /\ UNCHANGED <<paging, failed>>

\* The connection is lost while a put commits: the caller cannot tell which
\* way it went.
CommitUnheard(c) ==
    /\ engine # "sqlite" /\ Runs(c, "commit") /\ tx[c].op = "put"
    /\ tx' = [tx EXCEPT ![c].todo = <<"unheard">>]
    /\ failed' = failed \cup {<<tx[c].id, tx[c].arg>>}
    /\ Tell(c, "IOError")
    /\ UNCHANGED <<db, paging>>

Settles(c) ==
    /\ Runs(c, "unheard")
    /\ \/ Commits(c)
       \/ /\ db' = Undone(c)
          /\ tx' = [tx EXCEPT ![c] = Idle]
    /\ Silent /\ UNCHANGED <<paging, failed>>

\* InnoDB rolls one transaction of a cycle back; the store runs the program
\* again, or it is out of retries.
DeadlockVictim(c) ==
    /\ engine # "sqlite" /\ Deadlocked(c)
    /\ \/ /\ tx[c].retry
          /\ db' = Undone(c)
          /\ tx' = [tx EXCEPT ![c] =
                [Idle EXCEPT !.op = tx[c].op, !.id = tx[c].id, !.arg = tx[c].arg,
                             !.first = tx[c].first, !.again = tx[c].again,
                             !.retry = TRUE, !.todo = tx[c].first]]
          /\ Silent /\ UNCHANGED <<paging, failed>>
       \/ Over(c, "IOError")

\* SQLITE_BUSY: somebody else writes, the snapshot is not the newest, or a
\* reader holds up the commit.
Busy(c) ==
    /\ engine = "sqlite"
    /\ \/ Blockers(c) # {}
       \/ Doing(c) \in Writes /\ tx[c].stale
       \/ Doing(c) = "commit" /\ Result(c) # db
    /\ Over(c, "IOError")

Statement(c) ==
    \/ CreateTables(c)
    \/ InsertCapsule(c) \/ InsertArtifacts(c)
    \/ Select(c) \/ Tombstone(c)
    \/ ReadPaths(c) \/ IndexRecord(c)
    \/ Declare(c) \/ ClearRecords(c) \/ ClearPaths(c) \/ InsertPaths(c) \/ Backfill(c)
    \/ Commit(c) \/ CommitUnheard(c) \/ Settles(c)
    \/ DeadlockVictim(c) \/ Busy(c)
=============================================================================
