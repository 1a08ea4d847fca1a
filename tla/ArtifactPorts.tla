---------------------------- MODULE ArtifactPorts ----------------------------
(***************************************************************************)
(* What the four languages compute for themselves, whatever keeps the      *)
(* records: the index over paths of the records, and the form and the      *)
(* checks of a record (ArtifactRecords).  They share no state, and a       *)
(* behaviour is about one of them.                                         *)
(*                                                                         *)
(* The index: one namespace with an index in each of the four languages.   *)
(* Paths are declared, records admitted, the index rebuilt, and a client   *)
(* reads the pages of a query in between.  declared and admitted are what  *)
(* the callers did; said is what each port answered to the declaration     *)
(* just made, and asked what it was.                                       *)
(***************************************************************************)
EXTENDS PathIndex

CONSTANTS Docs,          \* capsule ID -> the capsule's JSON
          Alone,         \* those admitted only with no other (a bound)
          Declarations, Queries, WalkQueries, Walkers,
          MaxAdmitted

Ports == {"python", "go", "typescript", "rust"}

VARIABLES declared,      \* <<>>, or <<the declared paths, sorted>>
          admitted,      \* the IDs in the order they were admitted
          index,         \* port -> its index
          said,          \* port -> its answer to the declaration just made
          asked,         \* [paths, before]: that declaration, and declared then
          walk           \* a client's pages
vars == <<declared, admitted, index, said, asked, walk>>

Declare(p, paths) ==
    CASE p = "python" -> PythonDeclare(index[p], paths)
      [] p = "go" -> GoDeclare(index[p], paths)
      [] p = "typescript" -> TypeScriptDeclare(index[p], paths)
      [] p = "rust" -> RustDeclare(index[p], paths)
NormalizePaths(p, paths) ==
    CASE p = "python" -> PythonNormalizePaths(paths)
      [] p = "go" -> GoNormalizePaths(paths)
      [] p = "typescript" -> TypeScriptNormalizePaths(paths)
      [] p = "rust" -> RustNormalizePaths(paths)
Reset(p, paths) ==
    CASE p = "python" -> PythonReset(paths) [] p = "go" -> GoReset(paths)
      [] p = "typescript" -> TypeScriptReset(paths) [] p = "rust" -> RustReset(paths)
Add(p, ix, id) ==
    CASE p = "python" -> PythonAdd(ix, id, Docs[id])
      [] p = "go" -> GoAdd(ix, id, Docs[id])
      [] p = "typescript" -> TypeScriptAdd(ix, id, Docs[id])
      [] p = "rust" -> RustAdd(ix, id, Docs[id])
Find(p, q) ==
    CASE p = "python" -> PythonFind(index[p], q)
      [] p = "go" -> GoFind(index[p], q)
      [] p = "typescript" -> TypeScriptFind(index[p], q)
      [] p = "rust" -> RustFind(index[p], q)

\* The backends add what they hold, in its order.
AddAll(p, ix) ==
    LET added[n \in 0 .. Len(admitted)] ==
            IF n = 0 THEN ix ELSE Add(p, added[n - 1], admitted[n])
    IN added[Len(admitted)]

-----------------------------------------------------------------------------
NoWalk == [port |-> "none"]

Init ==
    /\ declared = <<>> /\ admitted = <<>> /\ walk = NoWalk
    /\ index = [p \in Ports |-> Fresh]
    /\ said = [p \in Ports |-> "none"]
    /\ asked = [paths |-> <<>>, before |-> <<>>]

NothingAsked == /\ said' = [p \in Ports |-> "none"]
                /\ asked' = [paths |-> <<>>, before |-> <<>>]

\* What the caller of a declaration may count on.
Valid(paths) ==
    /\ Len(paths) <= MaxIndexPaths
    /\ \A k \in DOMAIN paths :
           paths[k] \in DOMAIN PathKeys /\ Len(PathKeys[paths[k]]) <= MaxSegments
    /\ \A j, k \in DOMAIN paths : paths[j] = paths[k] => j = k
Sorted(paths) == SetToSortSeq(ToSet(paths), <)

InitIndex(paths) ==
    /\ index' = [p \in Ports |-> LET d == Declare(p, paths)
                                 IN IF d[3] THEN AddAll(p, d[2]) ELSE d[2]]
    /\ said' = [p \in Ports |-> Declare(p, paths)[1]]
    /\ asked' = [paths |-> paths, before |-> declared]
    /\ declared' = IF declared = <<>> /\ Valid(paths) THEN <<Sorted(paths)>> ELSE declared
    /\ UNCHANGED <<admitted, walk>>

Reindex(paths) ==
    /\ index' = [p \in Ports |->
                    LET n == NormalizePaths(p, paths)
                    IN IF n[1] = "ok" THEN AddAll(p, Reset(p, n[2])) ELSE index[p]]
    /\ declared' = IF Valid(paths) THEN <<Sorted(paths)>> ELSE declared
    /\ NothingAsked
    /\ UNCHANGED <<admitted, walk>>

\* put() of a record, and again of one the store holds.
Admit(id) ==
    /\ id \in ToSet(admitted) \/ Len(admitted) < MaxAdmitted
    /\ (ToSet(admitted) \cup {id}) \cap Alone # {} => admitted \in {<<>>, <<id>>}
    /\ admitted' = IF id \in ToSet(admitted) THEN admitted ELSE Append(admitted, id)
    /\ index' = [p \in Ports |-> Add(p, index[p], id)]
    /\ NothingAsked
    /\ UNCHANGED <<declared, walk>>

\* A client asks for the first page of q, and for the one after each page that
\* names one.
NextPage(p, q) ==
    /\ \/ walk = NoWalk
       \/ walk # NoWalk /\ walk.port = p /\ walk.q = q /\ ~walk.over
    /\ LET got == IF walk = NoWalk THEN <<>> ELSE walk.got
           after == IF walk = NoWalk THEN 0 ELSE walk.after
       IN \E asking \in {[q EXCEPT !.after = [given |-> after # 0, plain |-> TRUE, n |-> after]]} :
              \E page \in {Find(p, asking)} :
                  walk' = [port |-> p, q |-> q, got |-> got \o page.ids, after |-> page.next,
                           over |-> page.next = 0, complete |-> page.says = "ok"]
    /\ NothingAsked
    /\ UNCHANGED <<declared, admitted, index>>

WalkOver == walk # NoWalk /\ walk.over
EndWalk ==
    /\ WalkOver
    /\ walk' = NoWalk
    /\ UNCHANGED <<declared, admitted, index, said, asked>>

Next ==
    \/ EndWalk
    \/ /\ ~WalkOver
       /\ \/ \E paths \in Declarations : InitIndex(paths) \/ Reindex(paths)
          \/ \E id \in DOMAIN Docs : Admit(id)
          \/ \E p \in Walkers, q \in WalkQueries : NextPage(p, q)

Spec == Init /\ [][Next]_vars

-----------------------------------------------------------------------------
\* The reference: days are counted, and every record is looked at.
LeapDays(year) ==
    Cardinality({y \in 0 .. year - 1 : y % 4 = 0 /\ (y % 100 = 0 => y % 400 = 0)})
MonthDays(year, month) ==
    CASE month \in {1, 3, 5, 7, 8, 10, 12} -> 31
      [] month \in {4, 6, 9, 11} -> 30
      [] month = 2 -> 28 + LeapDays(year + 1) - LeapDays(year)
Instant(m) ==
    LET days == 365 * (m.year - 1970) + LeapDays(m.year) - LeapDays(1970)
                + FoldSet(LAMBDA k, n : n + MonthDays(m.year, k), 0, 1 .. m.month - 1)
                + m.day - 1
        ahead == IF m.zone = "Z" THEN 0
                 ELSE IF m.zone = "+" THEN m.oh * 60 + m.om ELSE -(m.oh * 60 + m.om)
        minute == m.hour * 60 + m.minute - ahead
        digit(k) == IF k \in DOMAIN m.fraction THEN m.fraction[k] ELSE 0
    IN IF \/ m.month \notin 1 .. 12 \/ m.hour > 23 \/ m.minute > 59 \/ m.second > 59
          \/ m.zone # "Z" /\ (m.oh > 23 \/ m.om > 59)
       THEN NoStamp
       ELSE IF m.day \notin 1 .. MonthDays(m.year, m.month) THEN NoStamp
       ELSE <<days + minute \div 1440, 60 * (minute % 1440) + m.second,
              100000 * digit(1) + 10000 * digit(2) + 1000 * digit(3)
                  + 100 * digit(4) + 10 * digit(5) + digit(6)>>
Instants == [s \in DOMAIN StampFields |-> Instant(StampFields[s])]
InstantOf(s) == IF s \in DOMAIN StampFields THEN Instants[s] ELSE NoStamp

Field(v, key) == IF v.is = "object" /\ key \in DOMAIN v.of THEN v.of[key] ELSE NoValue
Stamp(id) == LET s == Field(Docs[id], "timestamp")
             IN IF s.is = "string" THEN InstantOf(s.of) ELSE NoStamp
Shows(id, path, value) ==
    LET keys == PathKeys[path]
        v == IF Len(keys) = 1 THEN Field(Docs[id], keys[1])
             ELSE Field(Field(Docs[id], keys[1]), keys[2])
    IN \/ v.is = "string" /\ v.of = value
       \/ v.is = "list" /\ \E k \in DOMAIN v.of : v.of[k] = [is |-> "string", of |-> value]
Answers(id, q) ==
    /\ \A path \in DOMAIN q.where : Shows(id, path, q.where[path])
    /\ q.since # "" => /\ Stamp(id) # NoStamp
                       /\ AtOrAfter(Stamp(id), InstantOf(q.since))

\* Go cannot tell a limit of 0 from none given; Go and Rust take no value of
\* another type.
Asks(p) == {q \in Queries : p \in {"go", "rust"} => "not a string" \notin Range(q.where)}
LimitOf(p, q) ==
    IF q.limit = NotGiven \/ (p = "go" /\ q.limit = 0) THEN DefaultFindLimit ELSE q.limit
Expected(p, q) ==
    LET after == IF q.after.given THEN q.after.n ELSE 0
        all == SelectSeq([k \in DOMAIN admitted |-> k],
                         LAMBDA k : k > after /\ Answers(admitted[k], q))
        limit == LimitOf(p, q)
    IN IF \/ declared = <<>>
          \/ limit \notin 1 .. MaxFindLimit
          \/ q.since # "" /\ InstantOf(q.since) = NoStamp
          \/ q.after.given /\ ~(q.after.plain /\ q.after.n \in 1 .. MaxInt64)
          \/ "not a string" \in Range(q.where)
       THEN Invalid
       ELSE IF ~(DOMAIN q.where \subseteq ToSet(declared[1])) THEN Invalid
       ELSE IF Len(all) <= limit
       THEN [says |-> "ok", ids |-> [k \in DOMAIN all |-> admitted[all[k]]], next |-> 0]
       ELSE [says |-> "ok", ids |-> [k \in 1 .. limit |-> admitted[all[k]]],
             next |-> all[limit]]

\* In every language find() gives what looking at every record gives, whatever
\* was declared, rebuilt and admitted before, and refuses exactly the same
\* queries.  (A page leaves the index alone, and what a declaration answers is not
\* read again: the states that differ only in them are asked once.)
IndexTellsTheTruth ==
    (walk = NoWalk /\ asked.paths = <<>>) =>
        \A p \in Ports : \A q \in Asks(p) : Find(p, q) = Expected(p, q)

\* The instant a record is indexed under is the one its timestamp means: four
\* ports may share one database, and compare what another wrote.
StampsAreUtc ==
    \A p \in Ports : \A k \in DOMAIN index[p].ids : index[p].ts[k] = Stamp(index[p].ids[k])

\* A namespace has one declaration: the same set in any order is accepted again,
\* any other is a conflict, and what cannot be declared is refused, alike in the
\* four languages.
OneDeclaration ==
    \A p \in Ports :
        /\ said[p] # "none" =>
               said[p] = IF ~Valid(asked.paths) THEN "invalid"
                         ELSE IF asked.before \in {<<>>, <<Sorted(asked.paths)>>} THEN "ok"
                         ELSE "conflict"
        /\ index[p].declared <=> declared # <<>>
        /\ declared # <<>> => index[p].paths = declared[1]

\* The pages of a walk are the matching records in the order of their
\* admission, none twice and none left out, whatever is admitted or rebuilt
\* between two pages; after the last page they are all there.
PagesFollowOn ==
    walk # NoWalk =>
        LET now == SelectSeq(admitted, LAMBDA id : Answers(id, walk.q))
        IN /\ IsPrefix(walk.got, now)
           /\ walk.over /\ walk.complete => walk.got = now

-----------------------------------------------------------------------------
(* The index, or a record.                                                  *)

CONSTANTS Contents, Deep, Sha, JsonDigest, Size, Empty, Hex, Names, DigestFields,
          Trusted, MaxArtifacts, MaxEnvelope, MaxTotal, Offers, States,
          MaxDamages

VARIABLES about, offered, stored, damage

recordVars == <<offered, stored, damage>>
allVars == <<vars, recordVars, about>>

Record == INSTANCE ArtifactRecords

PortsInit ==
    /\ Init
    /\ \/ about = "index" /\ offered = "none" /\ stored = Record!Nothing /\ damage = 0
       \/ about = "record" /\ Record!Init

PortsNext ==
    /\ UNCHANGED about
    /\ \/ about = "index" /\ Next /\ UNCHANGED recordVars
       \/ about = "record" /\ Record!Next /\ UNCHANGED vars

PortsSpec == PortsInit /\ [][PortsNext]_allVars

-----------------------------------------------------------------------------
\* What is admitted is what the contract describes, and Python, Go and
\* TypeScript give one answer to the same put and the same get, error codes
\* included, however the stored bytes were damaged.  Rust gives that answer but
\* refuses JSON nested deeper than its decoder follows, and calls a line with an
\* unknown retention state invalid where the others may name an earlier fault.
RecordsAreJudgedAlike == about = "record" => Record!AdmitsExactlyTheSound /\ Record!PortsAgree

\* What one language admitted comes back in every other as it was offered,
\* less what was purged (from Rust unless its decoder stops at it); a retry is
\* told from a conflict; what get() returns of damaged SQL rows is what was
\* admitted.  A file's line carries no checksum of the whole, and is served when
\* what is left of it verifies.
AdmittedComesBack ==
    about = "record" =>
        Record!AdmittedStaysReadable /\ Record!RetryIsRecognised /\ Record!DamageIsNeverServed

\* An index of any language answers as a look at every record would, by the
\* instants the timestamps mean; the one declaration of a namespace and the
\* pages of a walk hold through what is admitted and rebuilt in between.
FindTellsTheTruth ==
    about = "index" => IndexTellsTheTruth /\ StampsAreUtc /\ OneDeclaration /\ PagesFollowOn
=============================================================================
