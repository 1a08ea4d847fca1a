---------------------------- MODULE JsonlStores -----------------------------
(***************************************************************************)
(* The file-backed artifact stores of the four languages, each over the    *)
(* file and the index of RecordFile.                                       *)
(***************************************************************************)
EXTENDS RecordFile

-----------------------------------------------------------------------------
(* python/capsule_emit/artifact/jsonl.py: the Python file-backed artifact  *)
(* store.  Every call holds the store's lock from its first read of the    *)
(* index to its last change, so each is one step.                          *)

\* Opening reads the file once: the last whole line of an ID is its record,
\* the first one its place in the admission order.
PythonOpened(lines) == Open("python", LastSpans(lines), ByFirstLine(lines))

\* init(): creates the file; one that exists is untouched.
PythonCreated == [file EXCEPT !.exists = TRUE]
PythonInit ==
    /\ file' = PythonCreated
    /\ Says("init", None, None, "ok")
    /\ UNCHANGED <<store, failed>>

\* put() of an ID the index has: the stored record is read and compared.
PythonAgain(i, b) ==
    IF ~Readable(i) THEN "Corrupt"
    ELSE IF Stored(i).body # b THEN "Conflict"
    ELSE IF Stored(i).gone THEN "Purged"
    ELSE "ok"

\* put() of a new record: end a damaged last line, append, then index.  A
\* write that stops early raises and leaves the index as it was.
PythonPut(i, b) ==
    \/ /\ Has(i)
       /\ Fails("put", i, b, PythonAgain(i, b))
    \/ /\ ~Has(i) /\ ~file.exists
       /\ Fails("put", i, b, "IOError")
    \/ /\ ~Has(i) /\ file.exists
       /\ file' = [file EXCEPT !.lines = Append(Ended(@), Line(i, b))]
       /\ store' = [store EXCEPT
              !.spans = (i :> SizeOf(Ended(file.lines))) @@ @,
              !.order = Append(@, i),
              !.found = Added(i)]
       /\ Says("put", i, b, "ok")
       /\ UNCHANGED failed
    \/ /\ ~Has(i) /\ file.exists
       /\ \E t \in Torn(file.lines, Line(i, b)) :
              file' = [file EXCEPT !.lines = t]
       /\ Says("put", i, b, "IOError")
       /\ failed' = failed \cup {<<i, b>>}
       /\ UNCHANGED store

\* A new index over every readable record in admission order.
PythonRebuilt(ps) == [store EXCEPT !.declared = ps,
                                   !.found = SelectSeq(store.order, Readable)]

\* init_index(): the declaration is made once; another one is refused.
PythonInitIndex(ps) ==
    /\ file' = PythonCreated
    /\ store' = IF store.declared = None THEN PythonRebuilt(ps) ELSE store
    /\ Says("index", None, ps,
            IF store.declared \in {None, ps} THEN "ok" ELSE "Conflict")
    /\ UNCHANGED failed

\* reindex(): the new index is swapped in once it is complete.
PythonReindex(ps) ==
    /\ file' = PythonCreated
    /\ store' = PythonRebuilt(ps)
    /\ Says("index", None, ps, "ok")
    /\ UNCHANGED failed

PythonGet(i) ==
    Fails("get", i, IF Has(i) /\ Readable(i) THEN Stored(i).body ELSE None,
          IF ~Has(i) THEN "NotFound"
          ELSE IF Readable(i) THEN "ok" ELSE "Corrupt")

\* _rewrite(): every line of the ID becomes the replacement, every other one
\* is copied; the spans are those of the new file.
PythonRewriteIndexedLineOnly(i) ==
    [k \in DOMAIN file.lines |->
        IF k = LastLine(file.lines, i)
        THEN [file.lines[k] EXCEPT !.gone = TRUE] ELSE file.lines[k]]
PythonRewrite(i) ==
    [k \in DOMAIN file.lines |->
        IF k \in Named(file.lines) /\ file.lines[k].id = i
        THEN [Stored(i) EXCEPT !.gone = TRUE] ELSE file.lines[k]]

\* purge(): an interrupted rewrite leaves the old file and the old index.
PythonPurge(i) ==
    \/ /\ ~Has(i)
       /\ Fails("purge", i, None, "NotFound")
    \/ /\ Has(i) /\ ~Readable(i)
       /\ Fails("purge", i, None, "Corrupt")
    \/ /\ Has(i) /\ Readable(i)
       /\ Fails("purge", i, None, "IOError")
    \/ /\ Has(i) /\ Readable(i)
       /\ file' = [file EXCEPT !.lines = PythonRewrite(i)]
       /\ store' = [store EXCEPT !.spans = LastSpans(PythonRewrite(i))]
       /\ Says("purge", i, None, "ok")
       /\ UNCHANGED failed

-----------------------------------------------------------------------------
(* go/artifact/jsonl/store.go: the Go file-backed artifact store.  Put,    *)
(* Purge, InitIndex, Reindex and Find hold s.mu throughout; Get releases   *)
(* it only after its read.                                                 *)

\* New() and scanIndex(): the last complete line of an ID wins, its first one
\* gives its place in the order.
GoOpened(lines) == Open("go", LastSpans(lines), ByFirstLine(lines))

\* Init(): O_CREATE|O_EXCL, an existing file is a no-op.
GoCreated == [file EXCEPT !.exists = TRUE]
GoInit ==
    /\ file' = GoCreated
    /\ Says("init", None, None, "ok")
    /\ UNCHANGED <<store, failed>>

\* Put() of an ID the index has.
GoAgain(i, b) ==
    IF ~Readable(i) THEN "Corrupt"
    ELSE IF Stored(i).body # b THEN "Conflict"
    ELSE IF Stored(i).gone THEN "Purged"
    ELSE "ok"

\* Put() of a new record: one Write of the newline a torn tail needs, the
\* record and its own newline; a short write returns before the index moves.
GoPut(i, b) ==
    \/ /\ Has(i)
       /\ Fails("put", i, b, GoAgain(i, b))
    \/ /\ ~Has(i) /\ ~file.exists
       /\ Fails("put", i, b, "IOError")
    \/ /\ ~Has(i) /\ file.exists
       /\ file' = [file EXCEPT !.lines = Append(Ended(@), Line(i, b))]
       /\ store' = [store EXCEPT
              !.spans = (i :> SizeOf(Ended(file.lines))) @@ @,
              !.order = Append(@, i),
              !.found = Added(i)]
       /\ Says("put", i, b, "ok")
       /\ UNCHANGED failed
    \/ /\ ~Has(i) /\ file.exists
       /\ \E t \in Torn(file.lines, Line(i, b)) :
              file' = [file EXCEPT !.lines = t]
       /\ Says("put", i, b, "IOError")
       /\ failed' = failed \cup {<<i, b>>}
       /\ UNCHANGED store

\* indexAll(): every readable record in order; on a read error the previous
\* index is put back.
GoIndexAll(ps, op) ==
    \/ /\ file' = GoCreated
       /\ store' = [store EXCEPT !.declared = ps,
                                 !.found = SelectSeq(store.order, Readable)]
       /\ Says(op, None, ps, "ok")
       /\ UNCHANGED failed
    \/ /\ store.order # <<>>
       /\ file' = GoCreated
       /\ Says(op, None, ps, "IOError")
       /\ UNCHANGED <<store, failed>>

\* InitIndex(): Init, then Declare; only a first declaration indexes.
GoInitIndex(ps) ==
    \/ /\ store.declared # None
       /\ file' = GoCreated
       /\ Says("index", None, ps,
               IF store.declared = ps THEN "ok" ELSE "Conflict")
       /\ UNCHANGED <<store, failed>>
    \/ /\ store.declared = None
       /\ GoIndexAll(ps, "index")

\* Reindex(): Reset, then indexAll.
GoReindex(ps) == GoIndexAll(ps, "index")

GoGet(i) ==
    Fails("get", i, IF Has(i) /\ Readable(i) THEN Stored(i).body ELSE None,
          IF ~Has(i) THEN "NotFound"
          ELSE IF Readable(i) THEN "ok" ELSE "Corrupt")

\* rewrite(): the replacement for every line of the ID, the other lines and a
\* torn tail byte for byte.
GoRewrite(i) ==
    [k \in DOMAIN file.lines |->
        IF k \in Named(file.lines) /\ file.lines[k].id = i
        THEN [Stored(i) EXCEPT !.gone = TRUE] ELSE file.lines[k]]

\* Purge(): nothing changes unless the rename succeeds.
GoPurge(i) ==
    \/ /\ ~Has(i)
       /\ Fails("purge", i, None, "NotFound")
    \/ /\ Has(i) /\ ~Readable(i)
       /\ Fails("purge", i, None, "Corrupt")
    \/ /\ Has(i) /\ Readable(i)
       /\ Fails("purge", i, None, "IOError")
    \/ /\ Has(i) /\ Readable(i)
       /\ file' = [file EXCEPT !.lines = GoRewrite(i)]
       /\ store' = [store EXCEPT !.spans = LastSpans(GoRewrite(i))]
       /\ Says("purge", i, None, "ok")
       /\ UNCHANGED failed

-----------------------------------------------------------------------------
(* ts/src/artifact/jsonl.ts: the TypeScript file-backed artifact store.    *)
(* It has no lock: the index is a Map, whose iteration order is the        *)
(* admission order, and nothing is awaited between the read of the Map and *)
(* the change of the file and the Map.  A retry awaits the verification of *)
(* what it read and changes nothing.                                       *)

\* The constructor's scanIndex().
TypeScriptOpened(lines) == Open("typescript", LastSpans(lines), ByFirstLine(lines))

TypeScriptCreated == [file EXCEPT !.exists = TRUE]
TypeScriptInit ==
    /\ file' = TypeScriptCreated
    /\ Says("init", None, None, "ok")
    /\ UNCHANGED <<store, failed>>

\* put() of an ID the Map has.
TypeScriptAgain(i, b) ==
    IF ~Readable(i) THEN "Corrupt"
    ELSE IF Stored(i).body # b THEN "Conflict"
    ELSE IF Stored(i).gone THEN "Purged"
    ELSE "ok"

\* put() of a new record: stat, the last byte, one appendFileSync, the Map and
\* the lookup.
TypeScriptPut(i, b) ==
    \/ /\ Has(i)
       /\ Fails("put", i, b, TypeScriptAgain(i, b))
    \/ /\ ~Has(i) /\ ~file.exists
       /\ Fails("put", i, b, "IOError")
    \/ /\ ~Has(i) /\ file.exists
       /\ file' = [file EXCEPT !.lines = Append(Ended(@), Line(i, b))]
       /\ store' = [store EXCEPT
              !.spans = (i :> SizeOf(Ended(file.lines))) @@ @,
              !.order = Append(@, i),
              !.found = Added(i)]
       /\ Says("put", i, b, "ok")
       /\ UNCHANGED failed
    \/ /\ ~Has(i) /\ file.exists
       /\ \E t \in Torn(file.lines, Line(i, b)) :
              file' = [file EXCEPT !.lines = t]
       /\ Says("put", i, b, "IOError")
       /\ failed' = failed \cup {<<i, b>>}
       /\ UNCHANGED store

\* rebuilt(): over the Map's keys in their order.
TypeScriptRebuilt(ps) == [store EXCEPT !.declared = ps,
                                       !.found = SelectSeq(store.order, Readable)]

TypeScriptInitIndex(ps) ==
    /\ file' = TypeScriptCreated
    /\ store' = IF store.declared = None THEN TypeScriptRebuilt(ps) ELSE store
    /\ Says("index", None, ps,
            IF store.declared \in {None, ps} THEN "ok" ELSE "Conflict")
    /\ UNCHANGED failed

TypeScriptReindex(ps) ==
    /\ file' = TypeScriptCreated
    /\ store' = TypeScriptRebuilt(ps)
    /\ Says("index", None, ps, "ok")
    /\ UNCHANGED failed

TypeScriptGet(i) ==
    Fails("get", i, IF Has(i) /\ Readable(i) THEN Stored(i).body ELSE None,
          IF ~Has(i) THEN "NotFound"
          ELSE IF Readable(i) THEN "ok" ELSE "Corrupt")

\* purge() tombstones each line of the ID from its own contents; one that does
\* not decode fails the whole rewrite.
TypeScriptOwnLines(i) == {k \in Named(file.lines) : file.lines[k].id = i}
TypeScriptRewrite(i) ==
    [k \in DOMAIN file.lines |->
        IF k \in TypeScriptOwnLines(i)
        THEN [file.lines[k] EXCEPT !.gone = TRUE] ELSE file.lines[k]]

\* The Map is replaced by the rewritten file's, keys in order of first line.
TypeScriptPurge(i) ==
    \/ /\ ~Has(i)
       /\ Fails("purge", i, None, "NotFound")
    \/ /\ Has(i)
       /\ \E k \in TypeScriptOwnLines(i) : ~file.lines[k].sound
       /\ Fails("purge", i, None, "Corrupt")
    \/ /\ Has(i)
       /\ Fails("purge", i, None, "IOError")
    \/ /\ Has(i)
       /\ \A k \in TypeScriptOwnLines(i) : file.lines[k].sound
       /\ file' = [file EXCEPT !.lines = TypeScriptRewrite(i)]
       /\ store' = [store EXCEPT !.spans = LastSpans(TypeScriptRewrite(i)),
                                 !.order = ByFirstLine(TypeScriptRewrite(i))]
       /\ Says("purge", i, None, "ok")
       /\ UNCHANGED failed

-----------------------------------------------------------------------------
(* rust/capsule-emit-artifact/src/jsonl.rs: the Rust file-backed artifact  *)
(* store.  The Mutex over State is held for every call that reads or       *)
(* changes the index; get verifies after releasing it.                     *)

\* new() over scan_lines(): a torn last line is never an entry.
RustOpened(lines) == Open("rust", LastSpans(lines), ByFirstLine(lines))

\* create(): create_new, and AlreadyExists is success.
RustCreated == [file EXCEPT !.exists = TRUE]
RustInit ==
    /\ file' = RustCreated
    /\ Says("init", None, None, "ok")
    /\ UNCHANGED <<store, failed>>

\* put() of an ID the spans have: read, verify, compare, look for a tombstone.
RustAgain(i, b) ==
    IF ~Readable(i) THEN "Corrupt"
    ELSE IF Stored(i).body # b THEN "Conflict"
    ELSE IF Stored(i).gone THEN "Purged"
    ELSE "ok"

\* put() of a new record: one write_all of prefix, record and newline, then the
\* span, the order and the lookup.
RustPut(i, b) ==
    \/ /\ Has(i)
       /\ Fails("put", i, b, RustAgain(i, b))
    \/ /\ ~Has(i) /\ ~file.exists
       /\ Fails("put", i, b, "IOError")
    \/ /\ ~Has(i) /\ file.exists
       /\ file' = [file EXCEPT !.lines = Append(Ended(@), Line(i, b))]
       /\ store' = [store EXCEPT
              !.spans = (i :> SizeOf(Ended(file.lines))) @@ @,
              !.order = Append(@, i),
              !.found = Added(i)]
       /\ Says("put", i, b, "ok")
       /\ UNCHANGED failed
    \/ /\ ~Has(i) /\ file.exists
       /\ \E t \in Torn(file.lines, Line(i, b)) :
              file' = [file EXCEPT !.lines = t]
       /\ Says("put", i, b, "IOError")
       /\ failed' = failed \cup {<<i, b>>}
       /\ UNCHANGED store

\* rebuilt(): a new MemoryIndex over every readable record, in file order.
RustRebuilt(ps) == [store EXCEPT !.declared = ps,
                                 !.found = SelectSeq(store.order, Readable)]

RustInitIndex(ps) ==
    /\ file' = RustCreated
    /\ store' = IF store.declared = None THEN RustRebuilt(ps) ELSE store
    /\ Says("index", None, ps,
            IF store.declared \in {None, ps} THEN "ok" ELSE "Conflict")
    /\ UNCHANGED failed

RustReindex(ps) ==
    /\ file' = RustCreated
    /\ store' = RustRebuilt(ps)
    /\ Says("index", None, ps, "ok")
    /\ UNCHANGED failed

RustGet(i) ==
    Fails("get", i, IF Has(i) /\ Readable(i) THEN Stored(i).body ELSE None,
          IF ~Has(i) THEN "NotFound"
          ELSE IF Readable(i) THEN "ok" ELSE "Corrupt")

\* rewrite(): into a temporary file, synced and renamed over the store.
RustRewrite(i) ==
    [k \in DOMAIN file.lines |->
        IF k \in Named(file.lines) /\ file.lines[k].id = i
        THEN [Stored(i) EXCEPT !.gone = TRUE] ELSE file.lines[k]]

\* purge(): needs the record to decode, not to verify.
RustPurge(i) ==
    \/ /\ ~Has(i)
       /\ Fails("purge", i, None, "NotFound")
    \/ /\ Has(i) /\ ~Readable(i)
       /\ Fails("purge", i, None, "Corrupt")
    \/ /\ Has(i) /\ Readable(i)
       /\ Fails("purge", i, None, "IOError")
    \/ /\ Has(i) /\ Readable(i)
       /\ file' = [file EXCEPT !.lines = RustRewrite(i)]
       /\ store' = [store EXCEPT !.spans = LastSpans(RustRewrite(i))]
       /\ Says("purge", i, None, "ok")
       /\ UNCHANGED failed
=============================================================================
