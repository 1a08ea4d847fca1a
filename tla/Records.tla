------------------------------ MODULE Records -------------------------------
(***************************************************************************)
(* The artifact record the four languages share (docs/artifact-store.md):  *)
(* a Capsule, its Producer Envelope and the originals it commits to.       *)
(*                                                                         *)
(* Bytes are members of Contents.  SHA-256 and the JSON-DIGEST are given   *)
(* by the functions Sha and JsonDigest: the first tells all contents       *)
(* apart, the second only the JSON values they hold.  A Capsule is what    *)
(* its checks can tell of it:                                              *)
(*   json      "object", "deep" (an object nested deeper than serde_json     *)
(*             follows), "list" (JSON that is no object) or "broken"       *)
(*   type      "capsule" or "padding", its record_type                     *)
(*   profile   format_version 4 and canonicalization_id jcs                *)
(*   class1    it passes the Class 1 verifier                              *)
(*   computes  the ID its bytes give                                       *)
(*   digests   the digest fields it has, with their values                 *)
(*   members, epistemic, nonce, says   the members of a padding record     *)
(***************************************************************************)
EXTENDS Integers, Sequences, SequencesExt, FiniteSetsExt

CONSTANTS Contents, Sha, JsonDigest, Size, Empty,
          Deep,          \* contents nested deeper than serde_json follows, and
                         \* not beyond the 1000 levels of the other decoders
          Hex,           \* strings of 64 lowercase hex characters
          Names,         \* valid artifact names, as numbers in their order
          DigestFields,  \* the digest fields a binding may name
          Trusted,       \* the public keys the store trusts
          MaxArtifacts, MaxEnvelope, MaxTotal

Absent == "absent"     \* content that is not there
NotJson == "not JSON"

\* The capsule's bytes hold an object, at any depth the contract allows.
IsObject(c) == c.json \in {"object", "deep"}

\* What is not there counts as no bytes.
Bytes(a) == IF a.content = Absent THEN Empty ELSE a.content

\* A check is <<it fails, the error it raises>>; the first that fails counts.
Outcome(checks) ==
    LET failing == {k \in DOMAIN checks : checks[k][1]}
    IN IF failing = {} THEN "ok" ELSE checks[Min(failing)][2]

\* The checks of a loop over the artifacts.
ForEach(r, Checks(_)) ==
    FlattenSeq([k \in 1 .. Len(r.artifacts) |-> Checks(k)])

\* The record with Op applied to each artifact.
MapArtifacts(r, Op(_)) ==
    [r EXCEPT !.artifacts = [k \in DOMAIN @ |-> Op(@[k])]]

ByName(artifacts) == SortSeq(artifacts, LAMBDA a, b : a.name < b.name)
TotalSize(r) ==
    r.capsule.size + r.envelope.size
    + MapThenSumSet(LAMBDA k : Size[Bytes(r.artifacts[k])], DOMAIN r.artifacts)

-----------------------------------------------------------------------------
(* python/capsule_emit/artifact/record.py and the SQL read of _sql.py.     *)

PythonValidId(value) == value \in Hex
PythonValidName(name) == name \in Names

PythonPaddingMembers == {"capsule_id", "record_type", "epistemic_type", "store_nonce"}

PythonVerifyPadding(id, c) ==
    /\ c.members \subseteq PythonPaddingMembers
    /\ c.epistemic = "producer_claim"
    /\ PythonValidId(c.nonce)
    /\ c.says = id /\ c.computes = id

PythonDecodeCapsule(c) == IsObject(c) /\ c.profile

\* Padding is told from a Capsule before the Capsule's profile is checked.
PythonVerifyCapsule(id, c) ==
    /\ c.json # "broken"
    /\ IF IsObject(c) /\ c.type = "padding"
       THEN PythonVerifyPadding(id, c)
       ELSE PythonDecodeCapsule(c) /\ c.class1 /\ c.computes = id

\* The committed digest, or "" when the binding names none that is well formed.
PythonDigestAt(c, binding) ==
    IF /\ binding \in DigestFields
       /\ binding \in DOMAIN c.digests
       /\ PythonValidId(c.digests[binding])
    THEN c.digests[binding] ELSE ""

\* verify(): what it checks of artifact k, given those before it.
PythonArtifactChecks(r, k) ==
    LET a == r.artifacts[k]
        committed == PythonDigestAt(r.capsule, a.binding)
    IN << <<~PythonValidName(a.name), "invalid">>,
          <<\E j \in 1 .. k - 1 : r.artifacts[j].name = a.name, "invalid">>,
          <<a.binding # "" /\ committed = "", "invalid">> >>
       \o CASE a.state = "present" ->
               << <<a.content = Absent, "invalid">>,
                  <<a.sum # "" /\ a.sum # Sha[Bytes(a)], "corrupt">>,
                  <<a.binding # "" /\ JsonDigest[Bytes(a)] # committed,
                    "digest_mismatch">> >>
            [] a.state = "purged" ->
               << <<a.content # Absent \/ ~PythonValidId(a.sum), "invalid">> >>
            [] a.state = "never_retained" ->
               << <<a.content # Absent \/ a.sum # "", "invalid">> >>
            [] OTHER -> << <<TRUE, "invalid">> >>

PythonVerify(r) ==
    Outcome(<< <<~PythonValidId(r.id), "invalid">>,
               <<~PythonVerifyCapsule(r.id, r.capsule), "invalid">>,
               <<~r.envelope.ok, "invalid">>,
               <<r.envelope.key \notin Trusted, "untrusted_signer">> >>
            \o ForEach(r, LAMBDA k : PythonArtifactChecks(r, k)))

\* prepare(): the copy with its checksums filled in, and what it is told.
PythonPrepared(r) ==
    MapArtifacts(r, LAMBDA a : IF a.state = "present"
                               THEN [a EXCEPT !.sum = Sha[Bytes(a)]] ELSE a)

PythonPrepare(r) ==
    LET Checks(k) ==
            LET a == r.artifacts[k]
            IN << <<a.state = "purged", "purged">>,
                  <<a.state = "present" /\ a.sum \notin {"", Sha[Bytes(a)]},
                    "corrupt">> >>
    IN Outcome(<< <<\/ Len(r.artifacts) > MaxArtifacts
                    \/ r.envelope.size > MaxEnvelope, "invalid">> >>
               \o ForEach(r, Checks)
               \o << <<TotalSize(r) > MaxTotal, "invalid">> >>)

\* storage_checksum(): what the SHA-256 is taken of.
PythonStorageChecksum(r) ==
    LET Item(a) == [name |-> a.name, binding |-> a.binding,
                    state |-> IF a.state = "purged" THEN "present" ELSE a.state,
                    sum |-> a.sum]
    IN MapArtifacts([r EXCEPT !.artifacts = ByName(@)], Item)

PythonPurgedCopy(r) ==
    MapArtifacts(r, LAMBDA a :
        IF a.state = "present"
        THEN [a EXCEPT !.content = Absent, !.state = "purged"] ELSE a)

PythonHasPurged(r) == \E k \in DOMAIN r.artifacts : r.artifacts[k].state = "purged"

\* encode_record(): the members a wire artifact has, and their values.
PythonEncode(r) ==
    LET Item(a) ==
            LET keys == {"name", "state"}
                        \cup {f \in {"binding", "sum"} : a[f] # ""}
                        \cup {f \in {"content"} : a.content # Absent}
            IN [f \in keys |-> a[f]]
    IN MapArtifacts(r, Item)

\* decode_record(): the record of a wire line.
PythonDecode(line) ==
    LET Get(a, f, else) == IF f \in DOMAIN a THEN a[f] ELSE else
        Item(a) == [name |-> a.name, binding |-> Get(a, "binding", ""),
                    content |-> Get(a, "content", Absent), state |-> a.state,
                    sum |-> Get(a, "sum", "")]
    IN MapArtifacts(line, Item)

\* get() from a file, and from SQL rows with their record_sha256.  Variant:
\* the rows are only verified.
PythonGetLine(line) == PythonVerify(PythonDecode(line))

PythonGetRowsUnsummed(record, sum) == PythonVerify(record)

PythonGetRows(record, sum) ==
    IF PythonStorageChecksum(record) # sum THEN "corrupt" ELSE PythonVerify(record)

\* _purge_tx(): one UPDATE of the rows that are present.
PythonPurgeRows(record) ==
    MapArtifacts(record, LAMBDA a :
        IF a.state = "present"
        THEN [a EXCEPT !.content = Absent, !.state = "purged"] ELSE a)

\* put() of an ID that is stored, once the new record was prepared and
\* verified: the stored one was found to be as found says, and is compared.
PythonAgain(new, stored, found) ==
    Outcome(<< <<found # "ok", found>>,
               <<PythonStorageChecksum(stored) # PythonStorageChecksum(new), "conflict">>,
               <<PythonHasPurged(stored), "purged">> >>)

-----------------------------------------------------------------------------
(* go/artifact/record.go, and the reads of the Go file and SQL stores.     *)

GoIdPattern(value) == value \in Hex
GoNamePattern(name) == name \in Names

GoPaddingMembers == {"capsule_id", "record_type", "epistemic_type", "store_nonce"}

GoVerifyPadding(id, c) ==
    /\ \A member \in c.members : member \in GoPaddingMembers
    /\ c.epistemic = "producer_claim"
    /\ GoIdPattern(c.nonce)
    /\ c.says = id /\ c.computes = id

\* verifyCapsuleBytes(): what does not decode to an object is left to the
\* Capsule verifier, which refuses it.
GoVerifyCapsuleBytes(id, c) ==
    IF IsObject(c) /\ c.type = "padding"
    THEN GoVerifyPadding(id, c)
    ELSE IsObject(c) /\ c.profile /\ c.class1 /\ c.computes = id

GoDigestAt(c, field) ==
    IF /\ field \in DigestFields
       /\ field \in DOMAIN c.digests
       /\ GoIdPattern(c.digests[field])
    THEN c.digests[field] ELSE ""

GoArtifactChecks(r, k) ==
    LET a == r.artifacts[k]
        committed == GoDigestAt(r.capsule, a.binding)
    IN << <<~GoNamePattern(a.name), "invalid">>,
          <<\E j \in 1 .. k - 1 : r.artifacts[j].name = a.name, "invalid">>,
          <<a.binding # "" /\ committed = "", "invalid">> >>
       \o CASE a.state = "present" ->
               << <<a.content = Absent, "invalid">>,
                  <<a.sum \notin {"", Sha[Bytes(a)]}, "corrupt">>,
                  <<a.binding # "" /\ JsonDigest[Bytes(a)] # committed,
                    "digest_mismatch">> >>
            [] a.state = "purged" ->
               << <<a.content # Absent \/ ~GoIdPattern(a.sum), "invalid">> >>
            [] a.state = "never_retained" ->
               << <<a.content # Absent \/ a.sum # "", "invalid">> >>
            [] OTHER -> << <<TRUE, "invalid">> >>

GoVerify(r) ==
    Outcome(<< <<~GoIdPattern(r.id), "invalid">>,
               <<~GoVerifyCapsuleBytes(r.id, r.capsule), "invalid">>,
               <<~r.envelope.ok, "invalid">>,
               <<r.envelope.key \notin Trusted, "untrusted_signer">> >>
            \o ForEach(r, LAMBDA k : GoArtifactChecks(r, k)))

GoStorageChecksum(r) ==
    LET Item(a) == [name |-> a.name, binding |-> a.binding,
                    state |-> IF a.state = "purged" THEN "present" ELSE a.state,
                    sum |-> a.sum]
    IN MapArtifacts([r EXCEPT !.artifacts = ByName(@)], Item)

\* Prepare fills the checksums in as it goes, and is told at the first fault.
GoPrepared(r) ==
    MapArtifacts(r, LAMBDA a : IF a.state = "present"
                               THEN [a EXCEPT !.sum = Sha[Bytes(a)]] ELSE a)

GoPrepare(r) ==
    LET Checks(k) ==
            LET a == r.artifacts[k]
            IN << <<a.state = "purged", "purged">>,
                  <<a.state = "present" /\ a.sum \notin {"", Sha[Bytes(a)]},
                    "corrupt">> >>
    IN Outcome(<< <<\/ Len(r.artifacts) > MaxArtifacts
                    \/ r.envelope.size > MaxEnvelope, "invalid">> >>
               \o ForEach(r, Checks)
               \o << <<TotalSize(r) > MaxTotal, "invalid">> >>)

\* The file store's Purge, and its lines: nil content is left out (omitzero),
\* empty strings are (omitempty).
GoPurgedCopy(r) ==
    MapArtifacts(r, LAMBDA a :
        IF a.state = "present"
        THEN [a EXCEPT !.content = Absent, !.state = "purged"] ELSE a)

GoEncode(r) ==
    LET Item(a) ==
            LET omitted == {f \in {"binding", "sum"} : a[f] = ""}
                           \cup {f \in {"content"} : a.content = Absent}
            IN [f \in DOMAIN a \ omitted |-> a[f]]
    IN MapArtifacts(r, Item)

\* Unmarshalling leaves a member that is missing at its zero value.
GoDecode(line) ==
    LET zero == [binding |-> "", content |-> Absent, sum |-> ""]
    IN MapArtifacts(line, LAMBDA a : a @@ zero)

GoGetLine(line) == GoVerify(GoDecode(line))

\* read(): only a NULL is no content.
GoGetRows(record, sum) ==
    IF GoStorageChecksum(record) # sum THEN "corrupt" ELSE GoVerify(record)

GoPurgeRows(record) ==
    MapArtifacts(record, LAMBDA a :
        IF a.state = "present"
        THEN [a EXCEPT !.content = Absent, !.state = "purged"] ELSE a)

GoAgain(new, stored, found) ==
    Outcome(<< <<found # "ok", found>>,
               <<GoStorageChecksum(stored) # GoStorageChecksum(new), "conflict">>,
               <<\E k \in DOMAIN stored.artifacts :
                     stored.artifacts[k].state = "purged", "purged">> >>)

-----------------------------------------------------------------------------
(* ts/src/artifact/record.ts, the wire codec of jsonl.ts and the reads of  *)
(* the TypeScript SQL stores.                                              *)

TypeScriptIdPattern(value) == value \in Hex
TypeScriptNamePattern(name) == name \in Names

TypeScriptPaddingMembers == {"capsule_id", "record_type", "epistemic_type", "store_nonce"}

TypeScriptVerifyPadding(id, c) ==
    /\ c.members \subseteq TypeScriptPaddingMembers
    /\ c.epistemic = "producer_claim"
    /\ TypeScriptIdPattern(c.nonce)
    /\ c.says = id /\ c.computes = id

\* verifyCapsuleBytes(): the verifier throws, or names another ID.
TypeScriptVerifyCapsuleBytes(id, c) ==
    \/ IsObject(c) /\ c.type = "padding" /\ TypeScriptVerifyPadding(id, c)
    \/ /\ IsObject(c) /\ c.type # "padding"
       /\ c.profile /\ c.class1 /\ c.computes = id

\* digestAt(): a member that is not there reads as undefined.
TypeScriptDigestAt(c, field) ==
    LET value == IF field \in DOMAIN c.digests THEN c.digests[field] ELSE ""
    IN IF field \in DigestFields /\ TypeScriptIdPattern(value) THEN value ELSE ""

TypeScriptArtifactChecks(r, k) ==
    LET a == r.artifacts[k]
        committed == TypeScriptDigestAt(r.capsule, a.binding)
    IN << <<~TypeScriptNamePattern(a.name), "invalid">>,
          <<\E j \in 1 .. k - 1 : r.artifacts[j].name = a.name, "invalid">>,
          <<a.binding # "" /\ committed = "", "invalid">> >>
       \o CASE a.state = "present" ->
               << <<a.content = Absent, "invalid">>,
                  <<a.sum # "" /\ a.sum # Sha[Bytes(a)], "corrupt">>,
                  <<a.binding # "" /\ JsonDigest[Bytes(a)] # committed,
                    "digest_mismatch">> >>
            [] a.state = "purged" ->
               << <<a.content # Absent \/ ~TypeScriptIdPattern(a.sum), "invalid">> >>
            [] a.state = "never_retained" ->
               << <<a.content # Absent \/ a.sum # "", "invalid">> >>
            [] OTHER -> << <<TRUE, "invalid">> >>

TypeScriptVerify(r) ==
    Outcome(<< <<~TypeScriptIdPattern(r.id), "invalid">>,
               <<~TypeScriptVerifyCapsuleBytes(r.id, r.capsule), "invalid">>,
               <<~r.envelope.ok, "invalid">>,
               <<r.envelope.key \notin Trusted, "untrusted_signer">> >>
            \o ForEach(r, LAMBDA k : TypeScriptArtifactChecks(r, k)))

TypeScriptStorageChecksum(r) ==
    LET Item(a) == [name |-> a.name, binding |-> a.binding,
                    state |-> IF a.state = "purged" THEN "present" ELSE a.state,
                    sum |-> a.sum]
    IN MapArtifacts([r EXCEPT !.artifacts = ByName(@)], Item)

TypeScriptPrepared(r) ==
    MapArtifacts(r, LAMBDA a : IF a.state = "present"
                               THEN [a EXCEPT !.sum = Sha[Bytes(a)]] ELSE a)

TypeScriptPrepare(r) ==
    LET Checks(k) ==
            LET a == r.artifacts[k]
            IN << <<a.state = "purged", "purged">>,
                  <<a.state = "present" /\ a.sum \notin {"", Sha[Bytes(a)]},
                    "corrupt">> >>
    IN Outcome(<< <<\/ Len(r.artifacts) > MaxArtifacts
                    \/ r.envelope.size > MaxEnvelope, "invalid">> >>
               \o ForEach(r, Checks)
               \o << <<TotalSize(r) > MaxTotal, "invalid">> >>)

TypeScriptPurgedCopy(r) ==
    MapArtifacts(r, LAMBDA a :
        IF a.state = "present"
        THEN [a EXCEPT !.content = Absent, !.state = "purged"] ELSE a)

\* encodeRecord(): JSON.stringify drops what is undefined.
TypeScriptEncode(r) ==
    LET Item(a) ==
            LET undefined == {f \in {"binding", "sum"} : a[f] = ""}
                             \cup {f \in {"content"} : a.content = Absent}
            IN [f \in DOMAIN a \ undefined |-> a[f]]
    IN MapArtifacts(r, Item)

\* decodeRecord()
TypeScriptDecode(line) ==
    LET Item(a) ==
            [name |-> a.name, state |-> a.state,
             binding |-> IF "binding" \in DOMAIN a THEN a.binding ELSE "",
             content |-> IF "content" \in DOMAIN a THEN a.content ELSE Absent,
             sum |-> IF "sum" \in DOMAIN a THEN a.sum ELSE ""]
    IN MapArtifacts(line, Item)

TypeScriptGetLine(line) == TypeScriptVerify(TypeScriptDecode(line))

TypeScriptGetRows(record, sum) ==
    IF TypeScriptStorageChecksum(record) # sum THEN "corrupt" ELSE TypeScriptVerify(record)

TypeScriptPurgeRows(record) ==
    MapArtifacts(record, LAMBDA a :
        IF a.state = "present"
        THEN [a EXCEPT !.content = Absent, !.state = "purged"] ELSE a)

TypeScriptAgain(new, stored, found) ==
    Outcome(<< <<found # "ok", found>>,
               <<TypeScriptStorageChecksum(stored) # TypeScriptStorageChecksum(new), "conflict">>,
               <<\E k \in DOMAIN stored.artifacts :
                     stored.artifacts[k].state = "purged", "purged">> >>)

-----------------------------------------------------------------------------
(* rust/capsule-emit-artifact/src/record.rs and the reads of the Rust SQL  *)
(* stores.  A record in memory has one of the three retention states; only *)
(* what is stored can have another, and decoding all of a line comes before *)
(* verifying any of it.                                                    *)

RustRetentionStates == {"present", "purged", "never_retained"}

RustValidName(value) == value \in Names
RustValidId(value) == value \in Hex

\* decode_strict_json(): serde_json stops at its recursion limit.
RustDecodes(c) == c.json \notin {"broken", "deep"}
RustJsonDigest(content) == IF content \in Deep THEN NotJson ELSE JsonDigest[content]

RustDigestAt(c, binding) ==
    IF /\ binding \in DigestFields
       /\ binding \in DOMAIN c.digests
       /\ RustValidId(c.digests[binding])
    THEN c.digests[binding] ELSE ""

RustPaddingMembers == {"capsule_id", "record_type", "epistemic_type", "store_nonce"}

RustIsPadding(c) == c.json = "object" /\ c.type = "padding"

RustVerifyCapsule(id, c) ==
    c.json = "object" /\ c.profile /\ c.class1 /\ c.computes = id

RustVerifyPadding(id, c) ==
    /\ c.members \ RustPaddingMembers = {}
    /\ c.epistemic = "producer_claim"
    /\ RustValidId(c.nonce)
    /\ c.says = id /\ c.computes = id

RustArtifactChecks(r, k) ==
    LET a == r.artifacts[k]
        committed == RustDigestAt(r.capsule, a.binding)
    IN << <<~RustValidName(a.name), "invalid">>,
          <<\E j \in 1 .. k - 1 : r.artifacts[j].name = a.name, "invalid">>,
          <<a.binding # "" /\ committed = "", "invalid">> >>
       \o CASE a.state = "present" ->
               << <<a.content = Absent, "invalid">>,
                  <<a.sum # "" /\ a.sum # Sha[Bytes(a)], "corrupt">>,
                  <<a.binding # "" /\ RustJsonDigest(Bytes(a)) # committed,
                    "digest_mismatch">> >>
            [] a.state = "purged" ->
               << <<a.content # Absent \/ ~RustValidId(a.sum), "invalid">> >>
            [] a.state = "never_retained" ->
               << <<a.content # Absent \/ a.sum # "", "invalid">> >>

RustVerify(r) ==
    Outcome(<< <<~RustValidId(r.id), "invalid">>,
               <<~RustDecodes(r.capsule), "invalid">>,
               <<IF RustIsPadding(r.capsule) THEN ~RustVerifyPadding(r.id, r.capsule)
                 ELSE ~RustVerifyCapsule(r.id, r.capsule), "invalid">>,
               <<~r.envelope.ok, "invalid">>,
               <<r.envelope.key \notin Trusted, "untrusted_signer">> >>
            \o ForEach(r, LAMBDA k : RustArtifactChecks(r, k)))

\* checksum_of(): over the states as stored text.
RustChecksumOf(r) ==
    LET Item(a) == [name |-> a.name, binding |-> a.binding,
                    state |-> IF a.state = "purged" THEN "present" ELSE a.state,
                    sum |-> a.sum]
    IN MapArtifacts([r EXCEPT !.artifacts = ByName(@)], Item)
RustStorageChecksum(r) == RustChecksumOf(r)

RustKnown(r) ==
    \A k \in DOMAIN r.artifacts : r.artifacts[k].state \in RustRetentionStates

\* from_rows(): the checksum before the states.  Variant: the states first.
RustFromRowsStatesFirst(record, sum) ==
    IF ~RustKnown(record) THEN "invalid"
    ELSE IF RustChecksumOf(record) # sum THEN "corrupt" ELSE "ok"

RustFromRows(record, sum) ==
    IF RustChecksumOf(record) # sum THEN "corrupt"
    ELSE IF ~RustKnown(record) THEN "invalid" ELSE "ok"

RustPrepared(r) ==
    MapArtifacts(r, LAMBDA a : IF a.state = "present"
                               THEN [a EXCEPT !.sum = Sha[Bytes(a)]] ELSE a)

RustPrepare(r) ==
    LET Checks(k) ==
            LET a == r.artifacts[k]
            IN << <<a.state = "purged", "purged">>,
                  <<a.state = "present" /\ a.sum \notin {"", Sha[Bytes(a)]},
                    "corrupt">> >>
    IN Outcome(<< <<\/ Len(r.artifacts) > MaxArtifacts
                    \/ r.envelope.size > MaxEnvelope, "invalid">> >>
               \o ForEach(r, Checks)
               \o << <<TotalSize(r) > MaxTotal, "invalid">> >>)

RustPurgedCopy(r) ==
    MapArtifacts(r, LAMBDA a :
        IF a.state = "present"
        THEN [a EXCEPT !.content = Absent, !.state = "purged"] ELSE a)

RustHasPurged(r) == \E k \in DOMAIN r.artifacts : r.artifacts[k].state = "purged"

\* Serde skips what is empty or None, and defaults what is missing.
RustEncode(r) ==
    LET Item(a) ==
            LET skipped == {f \in {"binding", "sum"} : a[f] = ""}
                           \cup {f \in {"content"} : a.content = Absent}
            IN [f \in DOMAIN a \ skipped |-> a[f]]
    IN MapArtifacts(r, Item)

RustDecode(line) ==
    MapArtifacts(line, LAMBDA a :
        a @@ [binding |-> "", content |-> Absent, sum |-> ""])

\* decode_record(): a state that is none of the three is "invalid", not a line
\* that does not parse.
RustDecoded(line) == IF RustKnown(line) THEN "ok" ELSE "invalid"

RustGetLine(line) ==
    IF RustDecoded(line) # "ok" THEN RustDecoded(line) ELSE RustVerify(RustDecode(line))

RustGetRows(record, sum) ==
    IF RustFromRows(record, sum) # "ok" THEN RustFromRows(record, sum)
    ELSE RustVerify(record)

RustPurgeRows(record) ==
    MapArtifacts(record, LAMBDA a :
        IF a.state = "present"
        THEN [a EXCEPT !.content = Absent, !.state = "purged"] ELSE a)

RustAgain(new, stored, found) ==
    Outcome(<< <<found # "ok", found>>,
               <<RustStorageChecksum(stored) # RustStorageChecksum(new), "conflict">>,
               <<RustHasPurged(stored), "purged">> >>)
=============================================================================
