------------------------- MODULE SqlArtifactStores -------------------------
(***************************************************************************)
(* The SQL artifact stores of the four languages on one database: clients  *)
(* in any of them write at the same time, one pages through find, and the  *)
(* database interleaves their statements.                                  *)
(***************************************************************************)
EXTENDS SqlEngine, SqlPrograms

CONSTANTS Engines,     \* the engines considered
          MaxFailed    \* bound: puts whose outcome stays unknown

Ports == {"python", "go", "typescript", "rust"}

\* The database is empty, or from before the index, maybe with a damaged row,
\* or its declaration is damaged.
Init ==
    /\ engine \in Engines
    /\ db \in [cap : {<<>>} \cup
                     {i :> [body |-> b, gone |-> FALSE, sound |-> FALSE] :
                          i \in Ids, b \in Bodies},
               tables : {FALSE}, paths : {None}, order : {<<>>}]
             \cup {[cap |-> <<>>, tables |-> TRUE, paths |-> Damaged, order |-> <<>>]}
    /\ tx = [c \in Clients |-> Idle]
    /\ paging = FALSE
    /\ answer = [op |-> None, id |-> None, body |-> None, says |-> None]
    /\ failed = {}

\* A call: the tables first where it declares, then its transaction.
Begins(c, op, i, arg, program, again, retried) ==
    /\ tx[c] = Idle
    /\ tx' = [tx EXCEPT ![c] =
          [Idle EXCEPT !.op = op, !.id = i, !.arg = arg,
                       !.first = program, !.again = again, !.retry = op \in retried,
                       !.todo = IF op \in {"index", "reindex"}
                                THEN <<"create tables">> \o program ELSE program]]
    /\ Silent /\ UNCHANGED <<db, paging, failed>>

\* Bound: READ COMMITTED keeps no gap for a first declaration, and two callers
\* may then reindex past each other.
MayReindex == engine = "mysql rc" => db.paths # None

\* One call of find() with limit 1, in one snapshot: from the start, or from the
\* cursor of the last page until there is none.
PageSize == 1
Ahead == SetToSortSeq({k \in Committed : paging => ~db.order[k].passed}, <)
Find(page(_, _)) ==
    LET got == page(Ahead, PageSize)
        last == IF got.next = 0 THEN 0 ELSE Ahead[got.next]
    IN /\ IF db.paths \in PathSets
          THEN /\ paging' = (got.next # 0)
               /\ db' = [db EXCEPT !.order = [k \in DOMAIN @ |->
                     [@[k] EXCEPT
                         !.passed = k <= last,
                         !.owed = /\ k \notin ToSet(got.ids)
                                  /\ IF paging THEN @ ELSE k \in Committed]]]
          ELSE UNCHANGED <<db, paging>>
       /\ Silent /\ UNCHANGED <<tx, failed>>

InPython(c) ==
    LET e == engine
    IN \/ \E i \in Ids, b \in Bodies :
              Begins(c, "put", i, b, PythonTransaction(PythonPutTx(e)), PythonExisting(e),
                     PythonRetried(e))
       \/ \E i \in Ids :
              Begins(c, "purge", i, None, PythonTransaction(PythonPurgeTx(e)), <<>>,
                     PythonRetried(e))
       \/ \E ps \in PathSets :
              Begins(c, "index", None, ps, PythonTransaction(PythonDeclareTx(e)), <<>>,
                     PythonRetried(e))
       \/ \E ps \in PathSets :
              /\ MayReindex
              /\ Begins(c, "reindex", None, ps, PythonTransaction(PythonReindexTx(e)), <<>>,
                        PythonRetried(e))
       \/ Compare(c, PythonCompared)

InGo(c) ==
    LET e == engine
    IN \/ \E i \in Ids, b \in Bodies :
              Begins(c, "put", i, b, GoTransaction(GoPutTx(e)), GoExisting(e),
                     GoRetried(e))
       \/ \E i \in Ids :
              Begins(c, "purge", i, None, GoTransaction(GoPurgeTx(e)), <<>>,
                     GoRetried(e))
       \/ \E ps \in PathSets :
              Begins(c, "index", None, ps, GoTransaction(GoDeclareTx(e)), <<>>,
                     GoRetried(e))
       \/ \E ps \in PathSets :
              /\ MayReindex
              /\ Begins(c, "reindex", None, ps, GoTransaction(GoReindexTx(e)), <<>>,
                        GoRetried(e))
       \/ Compare(c, GoCompared)

InTypeScript(c) ==
    LET e == engine
    IN \/ \E i \in Ids, b \in Bodies :
              Begins(c, "put", i, b, TypeScriptTransaction(TypeScriptPutTx(e)), TypeScriptExisting(e),
                     TypeScriptRetried(e))
       \/ \E i \in Ids :
              Begins(c, "purge", i, None, TypeScriptTransaction(TypeScriptPurgeTx(e)), <<>>,
                     TypeScriptRetried(e))
       \/ \E ps \in PathSets :
              Begins(c, "index", None, ps, TypeScriptTransaction(TypeScriptDeclareTx(e)), <<>>,
                     TypeScriptRetried(e))
       \/ \E ps \in PathSets :
              /\ MayReindex
              /\ Begins(c, "reindex", None, ps, TypeScriptTransaction(TypeScriptReindexTx(e)), <<>>,
                        TypeScriptRetried(e))
       \/ Compare(c, TypeScriptCompared)

InRust(c) ==
    LET e == engine
    IN \/ \E i \in Ids, b \in Bodies :
              Begins(c, "put", i, b, RustTransaction(RustPutTx(e)), RustExisting(e),
                     RustRetried(e))
       \/ \E i \in Ids :
              Begins(c, "purge", i, None, RustTransaction(RustPurgeTx(e)), <<>>,
                     RustRetried(e))
       \/ \E ps \in PathSets :
              Begins(c, "index", None, ps, RustTransaction(RustDeclareTx(e)), <<>>,
                     RustRetried(e))
       \/ \E ps \in PathSets :
              /\ MayReindex
              /\ Begins(c, "reindex", None, ps, RustTransaction(RustReindexTx(e)), <<>>,
                        RustRetried(e))
       \/ Compare(c, RustCompared)

Finds == \/ Find(PythonPage) \/ Find(GoPage)
         \/ Find(TypeScriptPage) \/ Find(RustPage)

\* Bound: while a caller pages, one client at a time writes.
Writing == {c \in Clients : tx[c] # Idle}

Next ==
    /\ \/ Finds
       \/ \E c \in Clients :
              InPython(c) \/ InGo(c) \/ InTypeScript(c) \/ InRust(c) \/ Statement(c)
    /\ UNCHANGED engine
    /\ Cardinality(failed') <= MaxFailed
    /\ paging' => Cardinality(Writing') <= 1

Spec == Init /\ [][Next]_vars

-----------------------------------------------------------------------------
Contract == INSTANCE ArtifactContract WITH held <- db.cap, maybe <- failed

\* Clients, ids, records and declarations are told apart only by being equal or
\* not.
Interchangeable ==
    Permutations(Clients) \cup Permutations(Ids)
    \cup Permutations(Bodies) \cup Permutations(PathSets)

\* Whatever the interleaving, the retries after a deadlock and the commits
\* nobody heard of, the committed records and the answers keep the promises of
\* docs/artifact-store.md: a record is admitted whole, once, and never changed.
KeepsTheContract == Contract!Spec

\* internal/index/sql.go, Declare: "no record escapes".  What is committed of
\* the index is each readable record once, extracted for the declared paths,
\* in a namespace that declares some, and nothing in one that does not.
IndexMatchesRecords ==
    LET ids == {db.order[k].id : k \in Committed}
    IN /\ Cardinality(ids) = Cardinality(Committed)
       /\ db.paths \in PathSets =>
              /\ ids = {i \in DOMAIN db.cap : db.cap[i].sound}
              /\ \A k \in Committed : db.order[k].under = db.paths
       /\ db.paths = None => ids = {}

\* A caller that follows find()'s cursors to the end was given every record that
\* was indexed when it began and still is.
PagesMissNothing == ~paging => \A k \in DOMAIN db.order : ~db.order[k].owed

\* The index is whole for whoever asks it while others write, declare and
\* rebuild it (Declare, Reindex, Add and Find of the four languages).
IndexIsWhole == IndexMatchesRecords /\ PagesMissNothing
=============================================================================
