----------------------------- MODULE PathIndex ------------------------------
(***************************************************************************)
(* What the in-memory indexes of the four languages share                  *)
(* (docs/artifact-store.md, "Optional index extension").                   *)
(*                                                                         *)
(* A path is a number, in the order its text sorts; PathKeys gives the     *)
(* segments of the well-formed ones.  A JSON value is [is, of], with is    *)
(* "object", "list", "string" or "other".  A date-time is a string, and    *)
(* StampFields gives the fields of those that have the RFC 3339 form.  An  *)
(* instant is <<days since 1970, second of the day, microsecond>>: the     *)
(* code's 64-bit count of microseconds, which is beyond TLC's integers.    *)
(***************************************************************************)
EXTENDS Integers, Sequences, SequencesExt, FiniteSetsExt, TLC

CONSTANTS PathKeys, StampFields,
          MaxIndexPaths, MaxSegments, DefaultFindLimit, MaxFindLimit,
          MaxInt64

NoValue == [is |-> "other", of |-> "undefined"]
NoStamp == <<>>
NotGiven == -1         \* of a limit

Utc(days, seconds, micros) ==
    <<days + seconds \div 86400, seconds % 86400, micros>>
AtOrAfter(t, since) ==
    \/ t[1] > since[1]
    \/ t[1] = since[1] /\ t[2] > since[2]
    \/ t[1] = since[1] /\ t[2] = since[2] /\ t[3] >= since[3]

\* 64-bit addition.
Plus(a, b) == IF a + b > MaxInt64 THEN a + b - 2 * (MaxInt64 + 1) ELSE a + b

\* Library calls: the first place in an ascending sequence not below x, and
\* the days from 1970-01-01 to a date (a month 13 is the next January).
BisectLeft(s, x) == Cardinality({k \in DOMAIN s : s[k] < x}) + 1
IsLeap(year) == (year % 4 = 0 /\ year % 100 # 0) \/ year % 400 = 0
MonthLengths(year) ==
    <<31, IF IsLeap(year) THEN 29 ELSE 28, 31, 30, 31, 30, 31, 31, 30, 31, 30, 31>>
Date(year, month, day) ==
    LET y == year + (month - 1) \div 12
        m == (month - 1) % 12
    IN 365 * y + (y + 3) \div 4 - (y + 99) \div 100 + (y + 399) \div 400
       + FoldLeft(+, 0, SubSeq(MonthLengths(y), 1, m)) + day - 1 - 719528

\* What a map of maps of positions has for a path's value.
Positions(index, path, value) ==
    IF <<path, value>> \in DOMAIN index.values
    THEN index.values[<<path, value>>] ELSE <<>>

\* Each entry's list of positions with one more position.
WithPosition(values, entries, position) ==
    FoldLeft(LAMBDA v, e :
                 (e :> (IF e \in DOMAIN v THEN Append(v[e], position)
                        ELSE <<position>>)) @@ v,
             values, entries)

Strings(list) == SelectSeq(list, LAMBDA v : v.is = "string")
Distinct(s) ==
    [k \in 1 .. Cardinality(ToSet(s)) |->
        s[CHOOSE i \in DOMAIN s :
              /\ \A j \in 1 .. i - 1 : s[j] # s[i]
              /\ Cardinality(ToSet(SubSeq(s, 1, i))) = k]]

Fresh == [declared |-> FALSE, paths |-> <<>>, ids |-> <<>>, ts |-> <<>>,
          values |-> <<>>, position |-> <<>>]
Invalid == [says |-> "invalid", ids |-> <<>>, next |-> 0]

\* A page of what matches, and the cursor after it when more does.
PageOf(index, matching, limit) ==
    [says |-> "ok",
     ids |-> [k \in 1 .. Min({limit, Len(matching)}) |-> index.ids[matching[k]]],
     next |-> IF Len(matching) > limit THEN matching[limit] ELSE 0]

-----------------------------------------------------------------------------
(* python/capsule_emit/artifact/index.py                                   *)

PythonValidPath(path) ==
    path \in DOMAIN PathKeys /\ Len(PathKeys[path]) <= MaxSegments

\* normalize_paths(): <<outcome, the sorted paths>>.
PythonNormalizePaths(paths) ==
    LET sorted == SortSeq(paths, <)
    IN IF \/ Len(paths) > MaxIndexPaths
          \/ \E k \in DOMAIN paths : ~PythonValidPath(paths[k])
          \/ \E k \in 1 .. Len(paths) - 1 : sorted[k] = sorted[k + 1]
       THEN <<"invalid", <<>> >>
       ELSE <<"ok", sorted>>

PythonLeap(year) == year % 4 = 0 /\ (year % 100 # 0 \/ year % 400 = 0)
PythonDaysIn(year, month) == IF month = 2 THEN (IF PythonLeap(year) THEN 29 ELSE 28)
                             ELSE IF month \in {4, 6, 9, 11} THEN 30 ELSE 31

\* _days_from_civil().
PythonDaysFromCivil(year, month, day) ==
    LET y == IF month <= 2 THEN year - 1 ELSE year
        era == y \div 400
        yoe == y - era * 400
        doy == (153 * (month + (IF month > 2 THEN -3 ELSE 9)) + 2) \div 5 + day - 1
        doe == yoe * 365 + yoe \div 4 - yoe \div 100 + doy
    IN era * 146097 + doe - 719468

\* The first six fraction digits, zeros after those there are.
PythonMicros(fraction) ==
    FoldLeft(LAMBDA n, d : 10 * n + d, 0,
             SubSeq(fraction \o <<0, 0, 0, 0, 0>>, 1, 6))

PythonParsed ==
    [m \in Range(StampFields) |->
        LET offset == IF m.zone = "Z" THEN 0
                      ELSE IF m.zone = "-" THEN -(m.oh * 60 + m.om)
                      ELSE m.oh * 60 + m.om
        IN IF \/ ~(m.month \in 1 .. 12 /\ m.day \in 1 .. PythonDaysIn(m.year, m.month))
              \/ m.hour > 23 \/ m.minute > 59 \/ m.second > 59
              \/ m.zone # "Z" /\ (m.oh > 23 \/ m.om > 59)
           THEN NoStamp
           ELSE Utc(PythonDaysFromCivil(m.year, m.month, m.day),
                    m.hour * 3600 + m.minute * 60 + m.second - offset * 60,
                    IF m.fraction = <<>> THEN 0 ELSE PythonMicros(m.fraction))]
PythonParseTimestamp(value) ==
    IF value \in DOMAIN StampFields THEN PythonParsed[StampFields[value]] ELSE NoStamp

\* extract(): the entries of one path.
PythonAt(root, path) ==
    FoldLeft(LAMBDA v, key : IF v.is = "object" /\ key \in DOMAIN v.of
                             THEN v.of[key] ELSE NoValue,
             root, PathKeys[path])
PythonEntries(root, path) ==
    LET v == PythonAt(root, path)
        values == IF v.is = "string" THEN <<v>>
                  ELSE IF v.is = "list" THEN Distinct(Strings(v.of)) ELSE <<>>
    IN [k \in DOMAIN values |-> <<path, values[k].of>>]
PythonExtract(root, paths) ==
    [entries |-> FlattenSeq([k \in DOMAIN paths |-> PythonEntries(root, paths[k])]),
     ts |-> IF "timestamp" \in DOMAIN root.of /\ root.of["timestamp"].is = "string"
            THEN PythonParseTimestamp(root.of["timestamp"].of) ELSE NoStamp]

PythonCheckQuery(q, declared) ==
    [ok |-> /\ q.limit = NotGiven \/ q.limit \in 1 .. MaxFindLimit
            /\ \A path \in DOMAIN q.where :
                   path \in ToSet(declared) /\ q.where[path] # "not a string"
            /\ q.since # "" => PythonParseTimestamp(q.since) # NoStamp
            /\ q.after.given => q.after.plain /\ q.after.n \in 1 .. MaxInt64,
     where |-> SetToSortSeq(DOMAIN q.where, <),
     since |-> IF q.since = "" THEN NoStamp ELSE PythonParseTimestamp(q.since),
     after |-> IF q.after.given THEN q.after.n ELSE 0,
     limit |-> IF q.limit = NotGiven THEN DefaultFindLimit ELSE q.limit]

PythonReset(normalized) == [Fresh EXCEPT !.declared = TRUE, !.paths = normalized]

\* declare(): <<outcome, the index, the caller must add what is stored>>.
PythonDeclare(index, paths) ==
    LET n == PythonNormalizePaths(paths)
    IN IF n[1] # "ok" THEN <<"invalid", index, FALSE>>
       ELSE IF index.declared
       THEN <<IF index.paths # n[2] THEN "conflict" ELSE "ok", index, FALSE>>
       ELSE <<"ok", PythonReset(n[2]), TRUE>>

\* add().
PythonAdd(index, id, capsule) ==
    IF ~index.declared \/ id \in DOMAIN index.position THEN index
    ELSE LET extracted == PythonExtract(capsule, index.paths)
         IN [index EXCEPT
                !.ids = Append(@, id),
                !.position = (id :> Len(index.ids) + 1) @@ @,
                !.ts = Append(@, extracted.ts),
                !.values = WithPosition(@, extracted.entries, Len(index.ids) + 1)]

PythonMatches(index, p, q, c) ==
    /\ c.since # NoStamp =>
           index.ts[p] # NoStamp /\ AtOrAfter(index.ts[p], c.since)
    /\ \A k \in 2 .. Len(c.where) :
           LET positions == Positions(index, c.where[k], q.where[c.where[k]])
               i == BisectLeft(positions, p)
           IN i <= Len(positions) /\ positions[i] = p

\* find(): the first path gives the candidates after the cursor.
PythonFind(index, q) ==
    LET c == PythonCheckQuery(q, index.paths)
        positions == Positions(index, c.where[1], q.where[c.where[1]])
        candidates ==
            IF c.where = <<>> THEN [k \in 1 .. Len(index.ids) - c.after |-> c.after + k]
            ELSE SubSeq(positions, BisectLeft(positions, c.after + 1), Len(positions))
    IN IF ~index.declared \/ ~c.ok THEN Invalid
       ELSE PageOf(index, SelectSeq(candidates, LAMBDA p : PythonMatches(index, p, q, c)),
                   c.limit)

-----------------------------------------------------------------------------
(* go/artifact/internal/index/index.go                                     *)

GoValidPath(path) ==
    path \in DOMAIN PathKeys /\ Len(PathKeys[path]) <= MaxSegments

\* NormalizePaths(): sorted first, each then held to be well formed and new.
GoNormalizePaths(paths) ==
    LET sorted == SortSeq(paths, <)
    IN IF \/ Len(paths) > MaxIndexPaths
          \/ \E k \in DOMAIN sorted :
                \/ ~GoValidPath(sorted[k])
                \/ k > 1 /\ sorted[k - 1] = sorted[k]
       THEN <<"invalid", <<>> >>
       ELSE <<"ok", sorted>>

\* daysIn(): the day before the next month's first.
GoDaysIn(year, month) == Date(year, month + 1, 0) - Date(year, month, 1) + 1

\* ParseTimestamp().
GoParsed ==
    [m \in Range(StampFields) |->
        LET digits == SubSeq(m.fraction \o <<0, 0, 0, 0, 0>>, 1, 6)
            minutes == IF m.zone = "-" THEN -(m.oh * 60 + m.om) ELSE m.oh * 60 + m.om
        IN IF \/ m.month < 1 \/ m.month > 12 \/ m.day < 1
              \/ m.day > GoDaysIn(m.year, m.month)
              \/ m.hour > 23 \/ m.minute > 59 \/ m.second > 59
              \/ m.zone # "Z" /\ (m.oh > 23 \/ m.om > 59)
           THEN NoStamp
           ELSE Utc(Date(m.year, m.month, m.day),
                    m.hour * 3600 + m.minute * 60 + m.second
                        - (IF m.zone = "Z" THEN 0 ELSE minutes * 60),
                    IF m.fraction = <<>> THEN 0
                    ELSE FoldLeft(LAMBDA n, d : 10 * n + d, 0, digits))]
GoParseTimestamp(value) ==
    IF value \in DOMAIN StampFields THEN GoParsed[StampFields[value]] ELSE NoStamp

\* Extract(): the first value that is not an object ends a path.
GoValue(root, path) ==
    FoldLeft(LAMBDA v, key : IF v.is # "object" \/ key \notin DOMAIN v.of
                             THEN NoValue ELSE v.of[key],
             root, PathKeys[path])
GoExtract(root, paths) ==
    LET found(path) ==
            LET v == GoValue(root, path)
            IN CASE v.is = "string" -> << <<path, v.of>> >>
                 [] v.is = "list" -> LET s == Distinct(Strings(v.of))
                                     IN [k \in DOMAIN s |-> <<path, s[k].of>>]
                 [] OTHER -> <<>>
    IN [entries |-> FlattenSeq([k \in DOMAIN paths |-> found(paths[k])]),
        ts |-> IF /\ root.is = "object" /\ "timestamp" \in DOMAIN root.of
                  /\ root.of["timestamp"].is = "string"
               THEN GoParseTimestamp(root.of["timestamp"].of) ELSE NoStamp]

\* Check(): a limit of zero means the default, and so does none.
GoCheck(q, declared) ==
    LET limit == IF q.limit \in {NotGiven, 0} THEN DefaultFindLimit ELSE q.limit
    IN [ok |-> /\ limit >= 1 /\ limit <= MaxFindLimit
               /\ DOMAIN q.where \subseteq ToSet(declared)
               /\ q.since # "" => GoParseTimestamp(q.since) # NoStamp
               /\ q.after.given =>
                      q.after.n >= 1 /\ q.after.n <= MaxInt64 /\ q.after.plain,
        where |-> SetToSortSeq(DOMAIN q.where, <),
        since |-> IF q.since = "" THEN NoStamp ELSE GoParseTimestamp(q.since),
        after |-> IF q.after.given THEN q.after.n ELSE 0,
        limit |-> limit]

GoReset(normalized) == [Fresh EXCEPT !.declared = TRUE, !.paths = normalized]

\* Declare().
GoDeclare(index, paths) ==
    LET n == GoNormalizePaths(paths)
    IN CASE n[1] # "ok" -> <<"invalid", index, FALSE>>
         [] n[1] = "ok" /\ index.declared /\ index.paths # n[2] ->
                <<"conflict", index, FALSE>>
         [] n[1] = "ok" /\ index.declared /\ index.paths = n[2] ->
                <<"ok", index, FALSE>>
         [] OTHER -> <<"ok", GoReset(n[2]), TRUE>>

GoAdd(index, id, capsule) ==
    IF ~index.declared \/ id \in DOMAIN index.position THEN index
    ELSE LET extracted == GoExtract(capsule, index.paths)
             position == Len(index.ids) + 1
         IN [index EXCEPT
                !.ids = Append(@, id),
                !.position = (id :> position) @@ @,
                !.ts = Append(@, extracted.ts),
                !.values = WithPosition(@, extracted.entries, position)]

\* matches(): each further equality is looked for among its positions.
GoMatches(index, p, q, c) ==
    /\ c.since # NoStamp =>
           index.ts[p] # NoStamp /\ AtOrAfter(index.ts[p], c.since)
    /\ \A k \in 2 .. Len(c.where) :
           p \in ToSet(Positions(index, c.where[k], q.where[c.where[k]]))

\* Find(): a cursor at or past the end has an empty page, which also keeps the
\* sum below from wrapping.
GoFind(index, q) ==
    LET c == GoCheck(q, index.paths)
        from == Plus(c.after, 1)
        all == Positions(index, c.where[1], q.where[c.where[1]])
        candidates ==
            IF c.where = <<>> THEN [k \in 1 .. Len(index.ids) + 1 - from |-> from + k - 1]
            ELSE SubSeq(all, BisectLeft(all, from), Len(all))
    IN CASE ~index.declared \/ ~c.ok -> Invalid
         [] index.declared /\ c.ok /\ c.after >= Len(index.ids) ->
                [says |-> "ok", ids |-> <<>>, next |-> 0]
         [] OTHER ->
                PageOf(index, SelectSeq(candidates, LAMBDA p : GoMatches(index, p, q, c)),
                       c.limit)

-----------------------------------------------------------------------------
(* ts/src/artifact/lookup.ts                                               *)

TypeScriptValidPath(path) ==
    path \in DOMAIN PathKeys /\ Len(PathKeys[path]) <= MaxSegments

\* normalizePaths().
TypeScriptNormalizePaths(paths) ==
    LET sorted == SortSeq(paths, <)
    IN IF \/ Len(paths) > MaxIndexPaths
          \/ \E k \in DOMAIN sorted : ~TypeScriptValidPath(sorted[k])
          \/ \E k \in 2 .. Len(sorted) : sorted[k - 1] = sorted[k]
       THEN <<"invalid", <<>> >>
       ELSE <<"ok", sorted>>

TypeScriptLeapYear(year) == (year % 4 = 0 /\ year % 100 # 0) \/ year % 400 = 0
TypeScriptDaysIn(year, month) ==
    <<31, IF TypeScriptLeapYear(year) THEN 29 ELSE 28, 31, 30, 31, 30, 31, 31, 30, 31, 30, 31>>[month]

TypeScriptDaysFromCivil(year, month, day) ==
    LET y == IF month <= 2 THEN year - 1 ELSE year
        era == y \div 400
        yoe == y - era * 400
        mp == (month + 9) % 12
        doy == (153 * mp + 2) \div 5 + day - 1
        doe == yoe * 365 + yoe \div 4 - yoe \div 100 + doy
    IN era * 146097 + doe - 719468

\* parseTimestamp().
TypeScriptParsed ==
    [m \in Range(StampFields) |->
        LET offset == (IF m.zone = "-" THEN -1 ELSE 1) * (m.oh * 60 + m.om)
        IN IF \/ m.month \notin 1 .. 12 \/ m.day < 1 \/ m.day > TypeScriptDaysIn(m.year, m.month)
              \/ m.hour > 23 \/ m.minute > 59 \/ m.second > 59
              \/ m.zone # "Z" /\ (m.oh > 23 \/ m.om > 59)
           THEN NoStamp
           ELSE Utc(TypeScriptDaysFromCivil(m.year, m.month, m.day),
                    m.hour * 3600 + m.minute * 60 + m.second
                        - (IF m.zone = "Z" THEN 0 ELSE offset * 60),
                    FoldLeft(LAMBDA n, d : 10 * n + d, 0,
                             SubSeq(m.fraction \o <<0, 0, 0, 0, 0, 0>>, 1, 6)))]
TypeScriptParseTimestamp(value) ==
    IF value \in DOMAIN StampFields THEN TypeScriptParsed[StampFields[value]] ELSE NoStamp

\* extract().
TypeScriptMember(value, key) ==
    IF value.is = "object" /\ key \in DOMAIN value.of THEN value.of[key] ELSE NoValue
TypeScriptExtract(root, paths) ==
    LET at(path) == FoldLeft(TypeScriptMember, root, PathKeys[path])
        entries(path) ==
            IF at(path).is = "string" THEN << <<path, at(path).of>> >>
            ELSE IF at(path).is # "list" THEN <<>>
            ELSE LET seen == Distinct(Strings(at(path).of))
                 IN [k \in DOMAIN seen |-> <<path, seen[k].of>>]
        timestamp == TypeScriptMember(root, "timestamp")
    IN [entries |-> FlattenSeq([k \in DOMAIN paths |-> entries(paths[k])]),
        ts |-> IF timestamp.is = "string" THEN TypeScriptParseTimestamp(timestamp.of)
               ELSE NoStamp]

\* check().
TypeScriptCheck(query, declared) ==
    LET limit == IF query.limit = NotGiven THEN DefaultFindLimit ELSE query.limit
    IN [ok |-> /\ limit \in 1 .. MaxFindLimit
               /\ \A path \in DOMAIN query.where :
                      path \in ToSet(declared) /\ query.where[path] # "not a string"
               /\ query.since # "" => TypeScriptParseTimestamp(query.since) # NoStamp
               /\ query.after.given => query.after.plain /\ query.after.n \in 1 .. MaxInt64,
        where |-> SetToSortSeq(DOMAIN query.where, <),
        since |-> IF query.since = "" THEN NoStamp ELSE TypeScriptParseTimestamp(query.since),
        after |-> IF query.after.given THEN query.after.n ELSE 0,
        limit |-> limit]

TypeScriptReset(normalized) == [Fresh EXCEPT !.declared = TRUE, !.paths = normalized]

TypeScriptDeclare(index, paths) ==
    LET n == TypeScriptNormalizePaths(paths)
    IN IF n[1] # "ok" THEN <<"invalid", index, FALSE>>
       ELSE IF ~index.declared THEN <<"ok", TypeScriptReset(n[2]), TRUE>>
       ELSE <<IF index.paths = n[2] THEN "ok" ELSE "conflict", index, FALSE>>

\* add().
TypeScriptAdd(index, id, capsule) ==
    IF ~index.declared \/ id \in DOMAIN index.position THEN index
    ELSE LET extracted == TypeScriptExtract(capsule, index.paths)
             position == Len(index.ids) + 1
         IN [index EXCEPT
                !.ids = Append(@, id),
                !.position = (id :> position) @@ @,
                !.ts = Append(@, extracted.ts),
                !.values = WithPosition(@, extracted.entries, position)]

\* sortedHas(): the loop halves [lo, hi), counted from 0.
TypeScriptSortedHas(sorted, p) ==
    LET search[lo, hi \in 0 .. Len(sorted)] ==
            IF lo >= hi THEN lo
            ELSE LET mid == (lo + hi) \div 2
                 IN IF sorted[mid + 1] < p THEN search[mid + 1, hi] ELSE search[lo, mid]
        lo == search[0, Len(sorted)]
    IN lo < Len(sorted) /\ sorted[lo + 1] = p

TypeScriptMatches(index, p, query, c) ==
    /\ c.since # NoStamp =>
           index.ts[p] # NoStamp /\ AtOrAfter(index.ts[p], c.since)
    /\ \A k \in 2 .. Len(c.where) :
           TypeScriptSortedHas(Positions(index, c.where[k], query.where[c.where[k]]), p)

\* find(): the positions of the first path are filtered by the cursor.
TypeScriptFind(index, query) ==
    LET c == TypeScriptCheck(query, index.paths)
        candidates ==
            IF c.where = <<>> THEN [k \in 1 .. Len(index.ids) - c.after |-> c.after + k]
            ELSE SelectSeq(Positions(index, c.where[1], query.where[c.where[1]]),
                           LAMBDA p : p > c.after)
    IN IF ~index.declared \/ ~c.ok THEN Invalid
       ELSE PageOf(index,
                   SelectSeq(candidates, LAMBDA p : TypeScriptMatches(index, p, query, c)),
                   c.limit)

-----------------------------------------------------------------------------
(* rust/capsule-emit-artifact/src/index.rs                                 *)

RustValidPath(path) ==
    path \in DOMAIN PathKeys /\ Len(PathKeys[path]) <= MaxSegments

\* normalize_paths().
RustNormalizePaths(paths) ==
    LET sorted == SortSeq(paths, <)
    IN IF \/ Len(paths) > MaxIndexPaths
          \/ \E k \in DOMAIN sorted :
                ~RustValidPath(sorted[k]) \/ (k > 1 /\ sorted[k - 1] = sorted[k])
       THEN <<"invalid", <<>> >>
       ELSE <<"ok", sorted>>

RustDaysIn(year, month) ==
    CASE month = 2 /\ year % 4 = 0 /\ (year % 100 # 0 \/ year % 400 = 0) -> 29
      [] month = 2 /\ ~(year % 4 = 0 /\ (year % 100 # 0 \/ year % 400 = 0)) -> 28
      [] month \in {4, 6, 9, 11} -> 30
      [] OTHER -> 31

\* days_from_civil(): the era is the floor.
RustDaysFromCivil(year, month, day) ==
    LET y == IF month <= 2 THEN year - 1 ELSE year
        era == y \div 400
        yoe == y - era * 400
        doy == (153 * ((month + 9) % 12) + 2) \div 5 + day - 1
    IN era * 146097 + yoe * 365 + yoe \div 4 - yoe \div 100 + doy - 719468

\* parse_timestamp(): the offset is read before the date is checked.
RustParsed ==
    [m \in Range(StampFields) |->
        LET digit(k) == IF k <= Len(m.fraction) THEN m.fraction[k] ELSE 0
            micros == FoldLeft(LAMBDA n, k : 10 * n + digit(k), 0, <<1, 2, 3, 4, 5, 6>>)
            minutes == m.oh * 60 + m.om
            offset == CASE m.zone = "Z" -> 0
                        [] m.zone = "-" -> -minutes
                        [] m.zone = "+" -> minutes
        IN IF \/ m.zone # "Z" /\ (m.oh > 23 \/ m.om > 59)
              \/ m.month \notin 1 .. 12 \/ m.day < 1 \/ m.day > RustDaysIn(m.year, m.month)
              \/ m.hour > 23 \/ m.minute > 59 \/ m.second > 59
           THEN NoStamp
           ELSE Utc(RustDaysFromCivil(m.year, m.month, m.day),
                    m.hour * 3600 + m.minute * 60 + m.second - offset * 60, micros)]
RustParseTimestamp(value) ==
    IF value \in DOMAIN StampFields THEN RustParsed[StampFields[value]] ELSE NoStamp

\* extract().
RustExtract(root, paths) ==
    LET get(v, key) == IF v.is = "object" /\ key \in DOMAIN v.of THEN v.of[key]
                       ELSE NoValue
        at(path) == FoldLeft(get, root, PathKeys[path])
        strings(path) == CASE at(path).is = "string" -> <<at(path)>>
                           [] at(path).is = "list" -> Distinct(Strings(at(path).of))
                           [] OTHER -> <<>>
        entries(path) ==
            [k \in DOMAIN strings(path) |-> <<path, strings(path)[k].of>>]
        stamp == get(root, "timestamp")
    IN [entries |-> FlattenSeq([k \in DOMAIN paths |-> entries(paths[k])]),
        ts |-> IF stamp.is = "string" THEN RustParseTimestamp(stamp.of) ELSE NoStamp]

\* check(): the cursor is the text of the number it reads as.
RustCheck(query, declared) ==
    [ok |-> /\ query.limit # NotGiven => query.limit \in 1 .. MaxFindLimit
            /\ \A path \in DOMAIN query.where : path \in ToSet(declared)
            /\ query.since = "" \/ RustParseTimestamp(query.since) # NoStamp
            /\ \/ ~query.after.given
               \/ query.after.n <= MaxInt64 /\ query.after.n >= 1 /\ query.after.plain,
     where |-> SetToSortSeq(DOMAIN query.where, <),
     since |-> IF query.since = "" THEN NoStamp ELSE RustParseTimestamp(query.since),
     after |-> IF query.after.given THEN query.after.n ELSE 0,
     limit |-> IF query.limit = NotGiven THEN DefaultFindLimit ELSE query.limit]

RustReset(normalized) == [Fresh EXCEPT !.declared = TRUE, !.paths = normalized]

RustDeclare(index, paths) ==
    LET n == RustNormalizePaths(paths)
    IN CASE n[1] = "invalid" -> <<"invalid", index, FALSE>>
         [] n[1] = "ok" /\ index.declared ->
                <<IF index.paths # n[2] THEN "conflict" ELSE "ok", index, FALSE>>
         [] OTHER -> <<"ok", RustReset(n[2]), TRUE>>

RustAdd(index, id, capsule) ==
    IF ~index.declared \/ id \in DOMAIN index.position THEN index
    ELSE LET extracted == RustExtract(capsule, index.paths)
             position == Len(index.ids) + 1
         IN [index EXCEPT
                !.ids = Append(@, id),
                !.position = (id :> position) @@ @,
                !.ts = Append(@, extracted.ts),
                !.values = WithPosition(@, extracted.entries, position)]

\* matches(): every equality after the first.
RustMatches(index, p, query, c) ==
    /\ c.since # NoStamp =>
           index.ts[p] # NoStamp /\ AtOrAfter(index.ts[p], c.since)
    /\ \A k \in 2 .. Len(c.where) :
           p \in ToSet(Positions(index, c.where[k], query.where[c.where[k]]))

\* find(): the positions that are past the cursor start at the first that is.
\* Variant: the cursor names the first of the next page.
RustFindNextIsFirst(index, query) ==
    LET c == RustCheck(query, index.paths)
        all == IF c.where = <<>> THEN [p \in DOMAIN index.ids |-> p]
               ELSE Positions(index, c.where[1], query.where[c.where[1]])
        start == Len(SelectSeq(all, LAMBDA p : p <= c.after))
        matching == SelectSeq(SubSeq(all, start + 1, Len(all)),
                              LAMBDA p : RustMatches(index, p, query, c))
    IN IF ~index.declared \/ ~c.ok THEN Invalid
       ELSE [PageOf(index, matching, c.limit)
                EXCEPT !.next = IF @ = 0 THEN 0 ELSE matching[c.limit + 1]]

RustFind(index, query) ==
    LET c == RustCheck(query, index.paths)
        all == IF c.where = <<>> THEN [p \in DOMAIN index.ids |-> p]
               ELSE Positions(index, c.where[1], query.where[c.where[1]])
        start == Len(SelectSeq(all, LAMBDA p : p <= c.after))
        matching == SelectSeq(SubSeq(all, start + 1, Len(all)),
                              LAMBDA p : RustMatches(index, p, query, c))
    IN CASE ~index.declared \/ ~c.ok -> Invalid
         [] index.declared /\ c.ok /\ c.after >= Len(index.ids) ->
                [says |-> "ok", ids |-> <<>>, next |-> 0]
         [] OTHER -> PageOf(index, matching, c.limit)
=============================================================================
