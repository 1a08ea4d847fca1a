-------------------------- MODULE ArtifactContract --------------------------
(***************************************************************************)
(* What docs/artifact-store.md promises of put, get and purge in one       *)
(* namespace, whatever keeps the records: an admitted record stays and     *)
(* stays the same, a retry is told so, a purge erases and is final.        *)
(*                                                                         *)
(* A put that failed with a backend error is the one thing left open: its  *)
(* record may turn up later, and until then stands in maybe.               *)
(***************************************************************************)
EXTENDS Integers

CONSTANTS Ids, Bodies

VARIABLES held,    \* Capsule ID -> [body, gone, sound]
          maybe,   \* <<id, body>> of puts that failed
          answer   \* the last call and what it returned

Has(i) == i \in DOMAIN held
Record(b) == [body |-> b, gone |-> FALSE, sound |-> TRUE]

\* h2 is h but for records of failed puts that turned up.
Surfaced(h, h2) ==
    /\ DOMAIN h \subseteq DOMAIN h2
    /\ \A i \in DOMAIN h2 :
           \/ i \in DOMAIN h /\ h2[i] = h[i]
           \/ \E b \in Bodies : <<i, b>> \in maybe /\ h2[i] = Record(b)

\* What a put of an ID already held is told.
Retry(i, b) == IF ~held[i].sound THEN "Corrupt"
               ELSE IF held[i].body # b THEN "Conflict"
               ELSE IF held[i].gone THEN "Purged"
               ELSE "ok"

Call(op, i) == answer'.op = op /\ answer'.id = i

PutNew(i, b) ==
    /\ Call("put", i) /\ answer'.body = b /\ answer'.says = "ok"
    /\ ~Has(i)
    /\ DOMAIN held' = DOMAIN held \cup {i}
    /\ held'[i] = Record(b)
    /\ \A j \in DOMAIN held : held'[j] = held[j]
    /\ UNCHANGED maybe

PutAgain(i, b) ==
    /\ Call("put", i) /\ answer'.body = b
    /\ Has(i)
    /\ answer'.says = Retry(i, b)
    /\ UNCHANGED <<held, maybe>>

\* A backend error, or an index declaration that no longer decodes.
PutFails(i, b) ==
    /\ Call("put", i) /\ answer'.body = b
    /\ answer'.says = "IOError" \/ (answer'.says = "Corrupt" /\ ~Has(i))
    /\ maybe' \in {maybe, maybe \cup {<<i, b>>}}
    /\ UNCHANGED held

Get(i) ==
    /\ Call("get", i)
    /\ answer'.says = IF ~Has(i) THEN "NotFound"
                      ELSE IF held[i].sound THEN "ok" ELSE "Corrupt"
    /\ answer'.says = "ok" => answer'.body = held[i].body
    /\ UNCHANGED <<held, maybe>>

\* A purge rewrites the store, which may bring a failed put's record to light.
Purge(i) ==
    /\ Call("purge", i) /\ answer'.says = "ok"
    /\ Has(i)
    /\ i \in DOMAIN held' /\ held'[i].gone
    /\ Surfaced([held EXCEPT ![i].gone = TRUE],
                [held' EXCEPT ![i] = IF @.body = held[i].body
                                     THEN [held[i] EXCEPT !.gone = TRUE]
                                     ELSE Record(@.body)])
    /\ UNCHANGED maybe

PurgeRefused(i) ==
    /\ Call("purge", i)
    /\ answer'.says \in IF ~Has(i) THEN {"NotFound"} ELSE {"Corrupt", "IOError"}
    /\ UNCHANGED <<held, maybe>>

\* Declaring an index, finding, opening and closing leave the records as they
\* are, and so does what happens between two answers.
Other ==
    /\ answer'.op \notin {"put", "get", "purge"}
    /\ Surfaced(held, held')
    /\ UNCHANGED maybe

Next ==
    \/ \E i \in Ids, b \in Bodies : PutNew(i, b) \/ PutAgain(i, b) \/ PutFails(i, b)
    \/ \E i \in Ids : Get(i) \/ Purge(i) \/ PurgeRefused(i)
    \/ Other

Init == maybe = {}

Spec == Init /\ [][Next]_<<held, maybe, answer>>
=============================================================================
