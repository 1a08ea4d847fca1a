--------------------------- MODULE ArtifactStores ---------------------------
(***************************************************************************)
(* The artifact stores of the four languages over one namespace: either    *)
(* one JSONL file that one process at a time has open, each time in any of *)
(* the languages, or an in-memory store.                                   *)
(***************************************************************************)
EXTENDS JsonlStores

CONSTANTS FilePorts,    \* the languages that may open the file
          MemoryPorts,  \* the in-memory stores considered
          MaxFailed     \* bound: records whose put may fail

Memory == INSTANCE MemoryStores

\* History: the records no call gave to the open store and its index.  The put
\* of each failed and left its line without a newline, where no span points;
\* the next put ended the line, and a purge read the file again.
VARIABLE late
storeVars == <<file, store, answer, failed, late>>

CameToLight == IF answer'.op = "purge" THEN DOMAIN store'.spans \ DOMAIN store.spans ELSE {}
\* A file store begins with no file, or with one in which somebody damaged a
\* line so that it still names its Capsule and no longer decodes as a record.
Init ==
    /\ \/ /\ store \in {Closed} \cup {Memory!Fresh(p) : p \in MemoryPorts}
          /\ file = [exists |-> FALSE, lines |-> <<>>]
       \/ /\ store = Closed
          /\ \E i \in Ids, b \in Bodies :
                 file = [exists |-> TRUE,
                         lines |-> <<[Line(i, b) EXCEPT !.sound = FALSE]>>]
    /\ answer = [op |-> "open", id |-> None, body |-> None, says |-> "ok"]
    /\ failed = {}
    /\ late = {}

Opens(p) ==
    /\ store = Closed
    /\ p \in FilePorts
    /\ store' = CASE p = "python" -> PythonOpened(file.lines)
                  [] p = "go" -> GoOpened(file.lines)
                  [] p = "typescript" -> TypeScriptOpened(file.lines)
                  [] p = "rust" -> RustOpened(file.lines)
    /\ Says("open", None, None, "ok")
    /\ UNCHANGED <<file, failed, late>>

\* The process ends or is killed; a call it was in has left what Torn says.
Ends ==
    /\ store.port \in FilePorts
    /\ store' = Closed
    /\ Says("close", None, None, "ok")
    /\ late' = {}
    /\ UNCHANGED <<file, failed>>

\* Bound: a put that would write needs room under MaxLines.
Room(i) == Has(i) \/ Len(file.lines) < MaxLines

\* Bound: at most MaxFailed records have a put that failed.
MayFail == Cardinality(failed') <= MaxFailed

InPython ==
    /\ store.port = "python"
    /\ \/ PythonInit
       \/ \E i \in Ids, b \in Bodies : Room(i) /\ PythonPut(i, b) /\ MayFail
       \/ \E i \in Ids : PythonGet(i) \/ PythonPurge(i)
       \/ \E ps \in PathSets : PythonInitIndex(ps) \/ PythonReindex(ps)
    /\ late' = late \cup CameToLight

InGo ==
    /\ store.port = "go"
    /\ \/ GoInit
       \/ \E i \in Ids, b \in Bodies : Room(i) /\ GoPut(i, b) /\ MayFail
       \/ \E i \in Ids : GoGet(i) \/ GoPurge(i)
       \/ \E ps \in PathSets : GoInitIndex(ps) \/ GoReindex(ps)
    /\ late' = late \cup CameToLight

\* In TypeScript a purge replaces the order as well as the spans, so a new
\* index has everything.
InTypeScript ==
    /\ store.port = "typescript"
    /\ \/ /\ \/ TypeScriptInit
             \/ \E i \in Ids, b \in Bodies : Room(i) /\ TypeScriptPut(i, b) /\ MayFail
             \/ \E i \in Ids : TypeScriptGet(i) \/ TypeScriptPurge(i)
          /\ late' = late \cup CameToLight
       \/ \E ps \in PathSets :
              \/ TypeScriptInitIndex(ps) /\ late' = IF store.declared = None THEN {} ELSE late
              \/ TypeScriptReindex(ps) /\ late' = {}

InRust ==
    /\ store.port = "rust"
    /\ \/ RustInit
       \/ \E i \in Ids, b \in Bodies : Room(i) /\ RustPut(i, b) /\ MayFail
       \/ \E i \in Ids : RustGet(i) \/ RustPurge(i)
       \/ \E ps \in PathSets : RustInitIndex(ps) \/ RustReindex(ps)
    /\ late' = late \cup CameToLight

InMemory ==
    /\ UNCHANGED late
    /\ \/ /\ store.port = "python memory"
          /\ \/ \E i \in Ids, b \in Bodies : Memory!PythonPut(i, b)
             \/ \E i \in Ids : Memory!PythonGet(i) \/ Memory!PythonPurge(i)
             \/ \E ps \in PathSets : Memory!PythonInitIndex(ps) \/ Memory!PythonReindex(ps)
       \/ /\ store.port = "go memory"
          /\ \/ \E i \in Ids, b \in Bodies : Memory!GoPut(i, b)
             \/ \E i \in Ids : Memory!GoGet(i) \/ Memory!GoPurge(i)
             \/ \E ps \in PathSets : Memory!GoInitIndex(ps) \/ Memory!GoReindex(ps)
       \/ /\ store.port = "typescript memory"
          /\ \/ \E i \in Ids, b \in Bodies : Memory!TypeScriptPut(i, b)
             \/ \E i \in Ids : Memory!TypeScriptGet(i) \/ Memory!TypeScriptPurge(i)
             \/ \E ps \in PathSets :
                    Memory!TypeScriptInitIndex(ps) \/ Memory!TypeScriptReindex(ps)
       \/ /\ store.port = "rust memory"
          /\ \/ \E i \in Ids, b \in Bodies : Memory!RustPut(i, b)
             \/ \E i \in Ids : Memory!RustGet(i) \/ Memory!RustPurge(i)
             \/ \E ps \in PathSets : Memory!RustInitIndex(ps) \/ Memory!RustReindex(ps)

Next ==
    \/ \E p \in FilePorts : Opens(p)
    \/ Ends
    \/ InPython \/ InGo \/ InTypeScript \/ InRust
    \/ InMemory

Spec == Init /\ [][Next]_storeVars

-----------------------------------------------------------------------------
(* What the store holds, for a caller: the records get would return.       *)

InMemoryNow == store.port \in MemoryPorts
Spans == IF store = Closed THEN LastSpans(file.lines) ELSE store.spans
Held ==
    [i \in DOMAIN Spans |->
        IF InMemoryNow
        THEN [body |-> Spans[i].body, gone |-> Spans[i].gone, sound |-> TRUE]
        ELSE IF LinesAt(file.lines, Spans[i]) = {}
        THEN [body |-> None, gone |-> FALSE, sound |-> FALSE]
        ELSE LET l == RecordAt(file.lines, Spans[i])
             IN [body |-> l.body, gone |-> l.gone,
                 sound |-> Decodes(file.lines, i, Spans[i])]]

Contract == INSTANCE ArtifactContract WITH held <- Held, maybe <- failed

\* Every backend, in every language and through every change of language, kill
\* and torn write, keeps the promises of docs/artifact-store.md "Operations":
\* admitted once, never changed, retried without effect, purged for good,
\* answers that fit; only a put that failed may turn up later.
KeepsTheContract == Contract!Spec

\* purge() reaches every line that names the Capsule, not only the one the
\* index points at: a file may hold a record twice after a put that tore.
PurgeReachesEveryLine ==
    [][(answer'.op = "purge" /\ answer'.says = "ok") =>
           \A k \in Named(file'.lines) :
               file'.lines[k].id = answer'.id => file'.lines[k].gone]_vars

\* The index of the open store has each record once and misses none, but for
\* the lines that no longer decode and for those a purge brought to light, of
\* records whose put failed.  These stay out of the index until the next one is
\* built; in Python, Go and Rust, whose new index walks the order the store
\* opened with, until the file is opened again.
IndexMissesOnlyFailed ==
    /\ \A i \in late : \E b \in Bodies : <<i, b>> \in failed
    /\ store.declared # None =>
           /\ IsInjective(store.found)
           /\ ToSet(store.found) \subseteq DOMAIN store.spans
           /\ \A i \in DOMAIN store.spans \ ToSet(store.found) :
                  i \in late \/ (~InMemoryNow /\ ~Readable(i))
=============================================================================
