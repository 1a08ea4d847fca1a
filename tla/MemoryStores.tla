---------------------------- MODULE MemoryStores ----------------------------
(***************************************************************************)
(* The four in-memory artifact stores.  store.spans holds the records      *)
(* themselves, [body, gone]; the file is never touched and nothing is kept *)
(* when the process ends.  A put decides under the lock; what it reads of  *)
(* an existing record it compares after releasing it in Python, on a value *)
(* no purge changes in place.                                              *)
(***************************************************************************)
EXTENDS RecordFile

Fresh(p) == Open(p, <<>>, <<>>)

Against(rec, b) == IF rec.body # b THEN "Conflict"
                   ELSE IF rec.gone THEN "Purged" ELSE "ok"

Admit(i, b) ==
    /\ store' = [store EXCEPT !.spans = (i :> [body |-> b, gone |-> FALSE]) @@ @,
                              !.order = Append(@, i),
                              !.found = Added(i)]
    /\ Says("put", i, b, "ok")
    /\ UNCHANGED <<file, failed>>

Erase(i) ==
    /\ store' = [store EXCEPT !.spans[i].gone = TRUE]
    /\ Says("purge", i, None, "ok")
    /\ UNCHANGED <<file, failed>>

Declare(ps, anew) ==
    /\ store' = IF anew \/ store.declared = None
                THEN [store EXCEPT !.declared = ps, !.found = store.order]
                ELSE store
    /\ Says("index", None, ps,
            IF anew \/ store.declared \in {None, ps} THEN "ok" ELSE "Conflict")
    /\ UNCHANGED <<file, failed>>

\* Variant: the record is stored and the order forgotten.
PythonPutUnordered(i, b) ==
    /\ ~Has(i)
    /\ store' = [store EXCEPT !.spans = (i :> [body |-> b, gone |-> FALSE]) @@ @]
    /\ Says("put", i, b, "ok")
    /\ UNCHANGED <<file, failed>>

PythonPut(i, b) ==
    \/ ~Has(i) /\ Admit(i, b)
    \/ Has(i) /\ Fails("put", i, b, Against(store.spans[i], b))

PythonGet(i) ==
    Fails("get", i, IF Has(i) THEN store.spans[i].body ELSE None,
          IF Has(i) THEN "ok" ELSE "NotFound")

PythonPurge(i) ==
    \/ Has(i) /\ Erase(i)
    \/ ~Has(i) /\ Fails("purge", i, None, "NotFound")

PythonInitIndex(ps) == Declare(ps, FALSE)

PythonReindex(ps) == Declare(ps, TRUE)

GoPut(i, b) ==
    \/ ~Has(i) /\ Admit(i, b)
    \/ Has(i) /\ Fails("put", i, b, Against(store.spans[i], b))

GoGet(i) ==
    Fails("get", i, IF Has(i) THEN store.spans[i].body ELSE None,
          IF Has(i) THEN "ok" ELSE "NotFound")

GoPurge(i) ==
    \/ Has(i) /\ Erase(i)
    \/ ~Has(i) /\ Fails("purge", i, None, "NotFound")

GoInitIndex(ps) == Declare(ps, FALSE)

GoReindex(ps) == Declare(ps, TRUE)

\* Variant: a Map.set before the look at what the Map holds.
TypeScriptPutBlind(i, b) == Admit(i, b)

TypeScriptPut(i, b) ==
    \/ ~Has(i) /\ Admit(i, b)
    \/ Has(i) /\ Fails("put", i, b, Against(store.spans[i], b))

TypeScriptGet(i) ==
    Fails("get", i, IF Has(i) THEN store.spans[i].body ELSE None,
          IF Has(i) THEN "ok" ELSE "NotFound")

TypeScriptPurge(i) ==
    \/ Has(i) /\ Erase(i)
    \/ ~Has(i) /\ Fails("purge", i, None, "NotFound")

TypeScriptInitIndex(ps) == Declare(ps, FALSE)

TypeScriptReindex(ps) == Declare(ps, TRUE)

RustPut(i, b) ==
    \/ ~Has(i) /\ Admit(i, b)
    \/ Has(i) /\ Fails("put", i, b, Against(store.spans[i], b))

RustGet(i) ==
    Fails("get", i, IF Has(i) THEN store.spans[i].body ELSE None,
          IF Has(i) THEN "ok" ELSE "NotFound")

RustPurge(i) ==
    \/ Has(i) /\ Erase(i)
    \/ ~Has(i) /\ Fails("purge", i, None, "NotFound")

RustInitIndex(ps) == Declare(ps, FALSE)

RustReindex(ps) == Declare(ps, TRUE)
=============================================================================
