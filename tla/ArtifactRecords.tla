--------------------------- MODULE ArtifactRecords ---------------------------
(***************************************************************************)
(* One record's way through the stores: a caller offers it, a store of one *)
(* language admits it to a file line or to SQL rows, stores of the others  *)
(* purge and read it, and bytes of it may be damaged in between.  Reads    *)
(* and retries change nothing and are not steps: the properties ask in     *)
(* every state what each language would answer.                            *)
(***************************************************************************)
EXTENDS Records

CONSTANTS Ports, Offers, States,
          MaxDamages      \* a bound

VARIABLES offered,  \* the record the caller offers
          stored,   \* [medium, form, sum]: where it is kept, in what form,
                    \* and its record_sha256 (history for a line)
          damage    \* how often the stored bytes were damaged

vars == <<offered, stored, damage>>

Nothing == [medium |-> "none"]

Known(r) == \A k \in DOMAIN r.artifacts : r.artifacts[k].state \in States

\* put(): prepare, then verify what was prepared.
Prepared(p, r) == CASE p = "python" -> PythonPrepared(r)
                    [] p = "go" -> GoPrepared(r)
                    [] p = "typescript" -> TypeScriptPrepared(r)
                    [] p = "rust" -> RustPrepared(r)
Prepare(p, r) == CASE p = "python" -> PythonPrepare(r)
                   [] p = "go" -> GoPrepare(r)
                   [] p = "typescript" -> TypeScriptPrepare(r)
                   [] p = "rust" -> RustPrepare(r)
Verify(p, r) == CASE p = "python" -> PythonVerify(r)
                  [] p = "go" -> GoVerify(r)
                  [] p = "typescript" -> TypeScriptVerify(r)
                  [] p = "rust" -> RustVerify(r)
Admits(p, r) == IF Prepare(p, r) # "ok" THEN Prepare(p, r)
                ELSE Verify(p, Prepared(p, r))

Checksum(p, r) == CASE p = "python" -> PythonStorageChecksum(r)
                    [] p = "go" -> GoStorageChecksum(r)
                    [] p = "typescript" -> TypeScriptStorageChecksum(r)
                    [] p = "rust" -> RustStorageChecksum(r)
Encode(p, r) == CASE p = "python" -> PythonEncode(r)
                  [] p = "go" -> GoEncode(r)
                  [] p = "typescript" -> TypeScriptEncode(r)
                  [] p = "rust" -> RustEncode(r)
Decode(p, line) == CASE p = "python" -> PythonDecode(line)
                     [] p = "go" -> GoDecode(line)
                     [] p = "typescript" -> TypeScriptDecode(line)
                     [] p = "rust" -> RustDecode(line)
PurgedCopy(p, r) == CASE p = "python" -> PythonPurgedCopy(r)
                      [] p = "go" -> GoPurgedCopy(r)
                      [] p = "typescript" -> TypeScriptPurgedCopy(r)
                      [] p = "rust" -> RustPurgedCopy(r)
PurgeRows(p, r) == CASE p = "python" -> PythonPurgeRows(r)
                     [] p = "go" -> GoPurgeRows(r)
                     [] p = "typescript" -> TypeScriptPurgeRows(r)
                     [] p = "rust" -> RustPurgeRows(r)

\* get(): what p is told of what is stored.
GetLine(p, line) == CASE p = "python" -> PythonGetLine(line)
                      [] p = "go" -> GoGetLine(line)
                      [] p = "typescript" -> TypeScriptGetLine(line)
                      [] p = "rust" -> RustGetLine(line)
GetRows(p, r, sum) == CASE p = "python" -> PythonGetRows(r, sum)
                        [] p = "go" -> GoGetRows(r, sum)
                        [] p = "typescript" -> TypeScriptGetRows(r, sum)
                        [] p = "rust" -> RustGetRows(r, sum)
Get(p) == IF stored.medium = "line" THEN GetLine(p, stored.form)
          ELSE GetRows(p, stored.form, stored.sum)
\* The record p reads.
Loaded(p) == IF stored.medium = "line" THEN Decode(p, stored.form)
             ELSE stored.form

\* put() when the ID is stored.
Compared(p, new, old, found) ==
    CASE p = "python" -> PythonAgain(new, old, found)
      [] p = "go" -> GoAgain(new, old, found)
      [] p = "typescript" -> TypeScriptAgain(new, old, found)
      [] p = "rust" -> RustAgain(new, old, found)
Again(p, r) == IF Admits(p, r) # "ok" THEN Admits(p, r)
               ELSE Compared(p, Prepared(p, r), Loaded(p), Get(p))
-----------------------------------------------------------------------------
Init ==
    /\ offered \in Offers
    /\ stored = Nothing
    /\ damage = 0

\* Rust cannot be given a state it does not know.
CanOffer(p, r) == p # "rust" \/ Known(r)

Put(p) ==
    LET r == Prepared(p, offered)
    IN /\ stored = Nothing
       /\ CanOffer(p, offered)
       /\ Admits(p, offered) = "ok"
       /\ \/ stored' = [medium |-> "line", form |-> Encode(p, r),
                        sum |-> Checksum(p, r)]
          \/ stored' = [medium |-> "rows", form |-> r, sum |-> Checksum(p, r)]
       /\ UNCHANGED <<offered, damage>>

\* A file's line is decoded and written again, SQL rows are updated in place.
\* Neither asks whether the record verifies.
Purge(p) ==
    /\ stored # Nothing
    /\ \/ /\ stored.medium = "line"
          /\ p # "rust" \/ Known(stored.form)
          /\ stored' = [stored EXCEPT !.form =
                            Encode(p, PurgedCopy(p, Decode(p, @)))]
       \/ /\ stored.medium = "rows"
          /\ stored' = [stored EXCEPT !.form = PurgeRows(p, @)]
    /\ UNCHANGED <<offered, damage>>

\* One field of one artifact is damaged, or one artifact is lost.
\* Bound: after the first time only the state or the content.
Damage(k) ==
    LET a == stored.form.artifacts[k]
        Changed(f, v) == [stored EXCEPT !.form.artifacts[k] =
                             (f :> v) @@ @]
    IN /\ damage < MaxDamages
       /\ damage' = damage + 1
       /\ \/ \E s \in (States \cup {"lost"}) \ {a.state} :
                 stored' = Changed("state", s)
          \/ \E c \in Contents \cup {Absent} :
                 /\ c # Absent \/ stored.medium = "rows"
                 /\ stored' = Changed("content", c)
          \/ /\ damage = 0
             /\ \/ \E d \in Hex : stored' = Changed("sum", d)
                \/ \E b \in DigestFields : stored' = Changed("binding", b)
                \/ stored' = [stored EXCEPT !.form.artifacts = RemoveAt(@, k)]
       /\ stored' # stored
       /\ UNCHANGED offered

Next ==
    \/ \E p \in Ports : Put(p) \/ Purge(p)
    \/ /\ stored # Nothing
       /\ \E k \in DOMAIN stored.form.artifacts : Damage(k)

Spec == Init /\ [][Next]_vars
-----------------------------------------------------------------------------
(* Properties.                                                             *)

\* What docs/artifact-store.md asks of a record, as conditions in no order.
SoundCapsule(id, c) ==
    /\ c.computes = id
    /\ IsObject(c)
    /\ \/ /\ c.type = "padding"
          /\ c.members \subseteq {"capsule_id", "record_type",
                                  "epistemic_type", "store_nonce"}
          /\ c.epistemic = "producer_claim" /\ c.nonce \in Hex /\ c.says = id
       \/ c.type # "padding" /\ c.profile /\ c.class1

SoundArtifact(c, a) ==
    /\ a.name \in Names
    /\ \/ a.state = "present" /\ a.content # Absent
          /\ a.sum \in {"", Sha[a.content]}
       \/ a.state = "never_retained" /\ a.content = Absent /\ a.sum = ""
    /\ a.binding # "" =>
           /\ a.binding \in DigestFields \cap DOMAIN c.digests
           /\ c.digests[a.binding] \in Hex
           /\ a.state = "present" =>
                  JsonDigest[a.content] = c.digests[a.binding]

Sound(r) ==
    /\ r.id \in Hex /\ SoundCapsule(r.id, r.capsule)
    /\ r.envelope.ok /\ r.envelope.key \in Trusted
    /\ \A k \in DOMAIN r.artifacts :
           /\ SoundArtifact(r.capsule, r.artifacts[k])
           /\ \A j \in 1 .. k - 1 : r.artifacts[j].name # r.artifacts[k].name
    /\ Len(r.artifacts) <= MaxArtifacts
    /\ r.envelope.size <= MaxEnvelope /\ TotalSize(r) <= MaxTotal

\* JSON that only Rust's decoder refuses: of the Capsule, or of an original the
\* record holds and binds.
BeyondRust(r) ==
    \/ r.capsule.json = "deep"
    \/ \E k \in DOMAIN r.artifacts :
           LET a == r.artifacts[k]
           IN a.state = "present" /\ a.binding # "" /\ a.content \in Deep

\* Every language admits exactly the records the contract describes, although
\* each tells of the first fault only (prepare(), then verify()); but Rust
\* admits none whose JSON is nested deeper than its decoder follows.
AdmitsExactlyTheSound ==
    stored = Nothing =>
        \A p \in Ports : CanOffer(p, offered) =>
            (Admits(p, offered) = "ok" <=>
                 Sound(offered) /\ ~(p = "rust" /\ BeyondRust(offered)))

\* Python, Go and TypeScript give the same answer to the same put and the same
\* get, error codes included, also of a record whose stored bytes were damaged.
\* Rust gives it too, but for two kinds of record that it refuses:
\*  - one beyond its decoder;
\*  - a line with a retention state nobody knows: decoding the line finds that
\*    before the faults that stand in front of it, and every language refuses.
PortsAgree ==
    /\ \A p \in Ports \ {"rust"} : Admits(p, offered) = Admits("go", offered)
    /\ CanOffer("rust", offered) =>
           IF BeyondRust(offered) THEN Admits("rust", offered) # "ok"
           ELSE Admits("rust", offered) = Admits("go", offered)
    /\ stored # Nothing =>
           /\ \A p \in Ports \ {"rust"} : Get(p) = Get("go")
           /\ IF stored.medium = "line" /\ ~Known(stored.form)
              THEN Get("rust") = "invalid" /\ Get("go") # "ok"
              ELSE IF BeyondRust(Loaded("go")) THEN Get("rust") # "ok"
              ELSE Get("rust") = Get("go")

\* What one language admitted every language reads back as admitted, but for
\* originals that were purged: get() verifies it on every read.  Rust refuses
\* what is beyond its decoder, until a purge takes the original away.
Unpurged(r, k, other) ==
    \/ r.artifacts[k] = other.artifacts[k]
    \/ /\ r.artifacts[k].state = "purged" /\ other.artifacts[k].state = "present"
       /\ r.artifacts[k].sum = other.artifacts[k].sum
       /\ r.artifacts[k].content = Absent

Faithful(r, admitted) ==
    /\ [r EXCEPT !.artifacts = <<>>] = [admitted EXCEPT !.artifacts = <<>>]
    /\ DOMAIN r.artifacts = DOMAIN admitted.artifacts
    /\ \A k \in DOMAIN r.artifacts : Unpurged(r, k, admitted)

AdmittedStaysReadable ==
    stored # Nothing /\ damage = 0 =>
        \A p \in Ports :
            /\ Get(p) = "ok" <=> ~(p = "rust" /\ BeyondRust(Loaded(p)))
            /\ Faithful(Loaded(p), Prepared(p, offered))

\* A retry is told apart from another record under the same ID: the record
\* that was admitted, in any order of its artifacts, is accepted again until
\* something of it was purged; every other one is a conflict.  (Rust accepts
\* none when the retry or what is stored is beyond its decoder.)
SameRecord(r, q) ==
    ByName(PythonPrepared(r).artifacts) = ByName(PythonPrepared(q).artifacts)

RetryIsRecognised ==
    stored # Nothing /\ damage = 0 =>
        \A p \in Ports, r \in Offers :
            r.id = offered.id /\ Sound(r) =>
                IF p = "rust" /\ (BeyondRust(r) \/ BeyondRust(Loaded(p)))
                THEN Again(p, r) # "ok"
                ELSE Again(p, r) =
                        IF ~(SameRecord(r, offered) /\ r.capsule = offered.capsule
                             /\ r.envelope = offered.envelope)
                        THEN "conflict"
                        ELSE IF PythonHasPurged(Loaded(p)) THEN "purged" ELSE "ok"

\* Damage to SQL rows is never served: what get() returns is the record that
\* was admitted, also when a purge came between.
DamageIsNeverServed ==
    stored # Nothing /\ stored.medium = "rows" =>
        \A p \in Ports :
            Get(p) = "ok" => Faithful(Loaded(p), Prepared(p, offered))
=============================================================================
