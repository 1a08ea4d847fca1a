---------------------------- MODULE SqlPrograms -----------------------------
(***************************************************************************)
(* What each call of the SQL stores sends to its database, as sequences of *)
(* statements, in the four languages. e is the engine.                     *)
(***************************************************************************)
EXTENDS Integers, Sequences, FiniteSetsExt

-----------------------------------------------------------------------------
(* python/capsule_emit/artifact/_sql.py, mysql.py and sqlite.py: the       *)
(* statements of the Python SQL stores.  e is the engine.                  *)

PythonMysql(e) == e # "sqlite"
PythonLockShared(e) == IF PythonMysql(e) THEN "paths for share" ELSE "paths"
PythonLockUpdate(e) == IF PythonMysql(e) THEN "paths for update" ELSE "paths"

\* put_tx(): the rows of the record, then _admit its index rows.
PythonPutTx(e) ==
    <<"insert capsule", "insert artifacts", PythonLockShared(e), "index record">>

\* put_tx() of an ID that is stored: _read with the lock, then compare.
PythonExisting(e) == <<IF PythonMysql(e) THEN "read for update" ELSE "read">>

\* put_tx() of an ID that is stored, as read.
PythonCompared(r, b) == IF ~r.sound THEN "Corrupt"
                        ELSE IF r.body # b THEN "Conflict"
                        ELSE IF r.gone THEN "Purged" ELSE "ok"

PythonPurgeTx(e) ==
    <<IF PythonMysql(e) THEN "select for update" ELSE "select", "tombstone">>

\* _declare_tx(): the declaration and the backfill, or what the decision says.
PythonDeclareTx(e) == <<PythonLockUpdate(e), "declare", "insert paths", "backfill">>

\* _reindex_tx(): the declaration is locked before anything is deleted.
PythonReindexTx(e) ==
    <<PythonLockUpdate(e), "clear records", "clear paths", "insert paths", "backfill">>

\* _transaction(): commits what the program leaves, rolls it back on any error.
PythonTransaction(program) == Append(program, "commit")

\* _retry_deadlock(): what is run again when InnoDB chose it as the victim.
PythonRetried(e) == IF PythonMysql(e) THEN {"put", "index", "reindex"} ELSE {}

\* Variant: the cursor is that of the row that did not fit.
PythonPageNextRow(rows, limit) ==
    [ids |-> SubSeq(rows, 1, Min({limit, Len(rows)})),
     next |-> IF Len(rows) > limit THEN limit + 1 ELSE 0]

\* _find_tx(): of limit + 1 rows the page has limit, and the cursor is the last
\* one's seq when there was one more.
PythonPage(rows, limit) ==
    [ids |-> SubSeq(rows, 1, Min({limit, Len(rows)})),
     next |-> IF Len(rows) > limit THEN limit ELSE 0]

-----------------------------------------------------------------------------
(* go/artifact/mysql/store.go, sqlite/store.go, internal/index/sql.go: the *)
(* statements of the Go SQL stores.  e is the engine.                      *)

GoMysql(e) == e # "sqlite"

\* PutTx() and admit: the declaration is read in the transaction of the insert.
GoMysqlPut == <<"insert capsule", "insert artifacts", "paths for share", "index record">>
GoSqlitePut == <<"insert capsule", "insert artifacts", "paths", "index record">>
GoPutTx(e) == IF GoMysql(e) THEN GoMysqlPut ELSE GoSqlitePut

\* PutTx() after a duplicate key: read, on MySQL FOR UPDATE, then compare.
GoExisting(e) == IF GoMysql(e) THEN <<"read for update">> ELSE <<"read">>

\* PutTx() of an ID that is stored, as read.
GoCompared(r, b) == IF ~r.sound THEN "Corrupt"
                    ELSE IF r.body # b THEN "Conflict"
                    ELSE IF r.gone THEN "Purged" ELSE "ok"

\* Purge(): existence is enough, the record need not verify.
GoMysqlPurge == <<"select for update", "tombstone">>
GoSqlitePurge == <<"select", "tombstone">>
GoPurgeTx(e) == IF GoMysql(e) THEN GoMysqlPurge ELSE GoSqlitePurge

GoDeclareTx(e) ==
    <<IF GoMysql(e) THEN "paths for update" ELSE "paths",
      "declare", "insert paths", "backfill">>

\* Reindex(): the declaration is locked first, so that a Put waits.
GoReindexTx(e) ==
    <<IF GoMysql(e) THEN "paths for update" ELSE "paths",
      "clear records", "clear paths", "insert paths", "backfill">>

GoTransaction(program) == Append(program, "commit")

\* retryDeadlock()
GoRetried(e) == IF GoMysql(e) THEN {"put", "index", "reindex"} ELSE {}

\* Find(): the loop stops at the row behind the page and keeps the last seq.
GoPage(rows, limit) ==
    [ids |-> SubSeq(rows, 1, Min({limit, Len(rows)})),
     next |-> IF Len(rows) > limit THEN limit ELSE 0]

-----------------------------------------------------------------------------
(* ts/src/artifact/mysql.ts, sqlite.ts and lookup-sql.ts: the statements of *)
(* the TypeScript SQL stores.  e is the engine.                            *)

TypeScriptMysql(e) == e # "sqlite"

\* putTx() and admit: the declaration is read in the transaction of the insert.
TypeScriptMysqlPut == <<"insert capsule", "insert artifacts", "paths for share", "index record">>
TypeScriptSqlitePut == <<"insert capsule", "insert artifacts", "paths", "index record">>
TypeScriptPutTx(e) == IF TypeScriptMysql(e) THEN TypeScriptMysqlPut ELSE TypeScriptSqlitePut

\* putTx() after a duplicate key: read, on MySQL FOR UPDATE, then compare.
TypeScriptExisting(e) == IF TypeScriptMysql(e) THEN <<"read for update">> ELSE <<"read">>

\* Variant: what is purged is told before what conflicts.
TypeScriptComparedPurgedFirst(r, b) == IF ~r.sound THEN "Corrupt"
                                       ELSE IF r.gone THEN "Purged"
                                       ELSE IF r.body # b THEN "Conflict" ELSE "ok"

\* putTx() of an ID that is stored, as read.
TypeScriptCompared(r, b) == IF ~r.sound THEN "Corrupt"
                            ELSE IF r.body # b THEN "Conflict"
                            ELSE IF r.gone THEN "Purged" ELSE "ok"

\* purge(): existence is enough, the record need not verify.
TypeScriptMysqlPurge == <<"select for update", "tombstone">>
TypeScriptSqlitePurge == <<"select", "tombstone">>
TypeScriptPurgeTx(e) == IF TypeScriptMysql(e) THEN TypeScriptMysqlPurge ELSE TypeScriptSqlitePurge

TypeScriptDeclareTx(e) ==
    <<IF TypeScriptMysql(e) THEN "paths for update" ELSE "paths",
      "declare", "insert paths", "backfill">>

\* reindex(): the declaration is locked first, so that a put waits.
TypeScriptReindexTx(e) ==
    <<IF TypeScriptMysql(e) THEN "paths for update" ELSE "paths",
      "clear records", "clear paths", "insert paths", "backfill">>

TypeScriptTransaction(program) == Append(program, "commit")

\* put() and inTx(): a deadlock is tried again.
TypeScriptRetried(e) == IF TypeScriptMysql(e) THEN {"put", "index", "reindex"} ELSE {}

\* find(): the loop stops at the row behind the page and keeps the last seq.
TypeScriptPage(rows, limit) ==
    [ids |-> SubSeq(rows, 1, Min({limit, Len(rows)})),
     next |-> IF Len(rows) > limit THEN limit ELSE 0]

-----------------------------------------------------------------------------
(* rust/capsule-emit-artifact/src/mysql.rs, sqlite.rs and index_sql.rs: the *)
(* statements of the Rust SQL stores.  e is the engine.                    *)

RustMysql(e) == e # "sqlite"

\* put_tx() and admit: the declaration is read in the transaction of the insert.
RustMysqlPut == <<"insert capsule", "insert artifacts", "paths for share", "index record">>
RustSqlitePut == <<"insert capsule", "insert artifacts", "paths", "index record">>
RustPutTx(e) == IF RustMysql(e) THEN RustMysqlPut ELSE RustSqlitePut

\* put_tx() after a duplicate key: read, on MySQL FOR UPDATE, then compare.
RustExisting(e) == IF RustMysql(e) THEN <<"read for update">> ELSE <<"read">>

\* put_tx() of an ID that is stored, as read.
RustCompared(r, b) == IF ~r.sound THEN "Corrupt"
                      ELSE IF r.body # b THEN "Conflict"
                      ELSE IF r.gone THEN "Purged" ELSE "ok"

\* purge(): existence is enough, the record need not verify.
RustMysqlPurge == <<"select for update", "tombstone">>
RustSqlitePurge == <<"select", "tombstone">>
RustPurgeTx(e) == IF RustMysql(e) THEN RustMysqlPurge ELSE RustSqlitePurge

RustDeclareTx(e) ==
    <<IF RustMysql(e) THEN "paths for update" ELSE "paths",
      "declare", "insert paths", "backfill">>

\* reindex(): the declaration is locked first, so that a put waits.
RustReindexTx(e) ==
    <<IF RustMysql(e) THEN "paths for update" ELSE "paths",
      "clear records", "clear paths", "insert paths", "backfill">>

RustTransaction(program) == Append(program, "commit")

\* retry_deadlock()
RustRetried(e) == IF RustMysql(e) THEN {"put", "index", "reindex"} ELSE {}

\* find(): the loop stops at the row behind the page and keeps the last seq.
RustPage(rows, limit) ==
    [ids |-> SubSeq(rows, 1, Min({limit, Len(rows)})),
     next |-> IF Len(rows) > limit THEN limit ELSE 0]
=============================================================================
