# A TLA+ verification of capsule-emit

capsule-emit seals what an agent did as *capsules*: signed, content-addressed
records that are appended to a ledger.  Around the append path it keeps budget
holds, commits the ledger to outside witnesses with signed checkpoints, moves
ledgers from one layout to another while they are written, stores the
originals a capsule commits to, and listens to a dozen agent frameworks.  The
artifact stores exist in four languages and the ledger node also in Rust.  This
directory holds TLA+ models of the parts whose correctness depends on the order
of steps or on four programs agreeing, the TLC runs that check them on small
instances, and proofs that TLAPS checks for every instance.  Paths below are
relative to `src/python/capsule_emit/` unless they say otherwise.

## 1. The system

### Components, their state and their operations

| Component | State | Operations | Hard behaviour | What makes it correct |
|---|---|---|---|---|
| Flat ledger (`ledger.py`, `legacy_ledger.py`) | a JSONL file, a sidecar `flock`, one incremental index per process | `append_to_ledger`, `LegacyLedger.append_line`, reads | threads and processes write at once; a write fails or a process dies inside a line | one writer; ids stored once; a returned position never changes |
| Store, layout and import (`ledger_store.py`, `ledger_layout.py`, `ledger_migrate.py`) | `capsule-ledger/` (marker, manifest, segments), a key file beside each ledger | `resolve_ledger`, `create_store`, `append_line`, `import_ledger` | a seal that resolved the old ledger while an import publishes the new one; two imports; a crash between key and store | no capsule left behind; the store is never replaced; one producer |
| Store-backed ledger (`store_backed_ledger.py`) | an artifact store and an entry log, written one after the other | `open_stores`, `append`, `append_padding`, `pad_to_bucket`, `import_flat` | a crash or a lost answer between the two writes; a handle that is stale; an import cut short | every entry has its record; the chain does not fork; an import is all or can be resumed |
| Checkpoint cadence (`witness.py`: `maybe_checkpoint`, `push`) | per ledger: a counter, an age clock, a dispatch lock, the newest checkpoint | count, claim or defer, worker build, `push` | several sealing threads race with a worker and with `push` | one builder; a full window is due; the slot comes back |
| Witness backlog (`witness.py`: `_build_and_register`, `retry_pending_witness_stamps`, `require_witness_receipt`) | stamp and backfill lines of the ledger, the state of each witness | build, register, stamp, drain, require | outages, lost answers, refusals, crashes between acceptance and stamp | nothing shown as witnessed that was not; checkpoints chain forward; the backlog drains |
| Holds (`holds/`, `approval.py`) | hold records in the ledger, a lock per scope | reserve, release, expire, reconcile, resume of an approval | racing closers, unlocked reads, a failed append, damaged records | the cap; one terminal record per hold; the sums agree |
| Sealing core (`core.py`, `surface.py`, `adjudication.py`) | the ledgers, the notice flag, the anchors submitted and not yet answered | `seal`, `log`, `received`, settlement legs, adjudications, compositions | a member of a composition fails; answers arrive on other threads; the process exits with submissions open | a record names only what it was built on; nothing leaves past the kill switch; no submission is forgotten |
| Bilateral attestation (`bilateral.py`, `settlement.py`) | the state of a handshake, the capsules two parties seal of it | open, respond, confirm, ghost, seal each move | a signature shown in another handshake; a ghost racing an answer; a seal that fails between moves | a record shows only attestations its signer made there |
| Framework adapters (`adapters/`, `gate.py`) | tables of open calls, bounded and evicting | start, end and error of a call, a turn, a run | callbacks of a third party in any order, identical calls at once, seals that fail | an outcome cites its own plan or says why it cites none; nothing is sealed twice |
| OTel (`otel/`) | none live; the source references of a backfill | `export`, `seal_otlp_file` | a backfill stopped halfway and run again | every effect once |
| File and memory artifact stores (`artifact/`, also `src/go/artifact`, `src/ts/src/artifact`, `src/rust/capsule-emit-artifact`) | one JSONL file, per process the offsets and an index | open, put, get, purge, declare paths, rebuild the index | torn lines, a rewrite that moves offsets, a file another language wrote | immutable, idempotent, purge is final |
| SQL artifact stores (the same directories) | the tables of a namespace in MySQL or SQLite | the same, and `find` | two transactions interleave statement by statement; deadlocks, busy databases, unheard commits | the same contract; the index misses no record |
| Artifact record and its checks (the same directories) | none | prepare, verify, checksum, encode, decode, purge a copy | four implementations of one specification | they admit the same records and read one another's |
| Path index and lookup (the same directories) | declared paths, entries in order | declare, extract, add, find, page | timestamps, cursors and limits at their edges | each finds what a look at every record finds |
| Rust node (`src/rust/capsule-emit`) | the ledger in two layouts, leaves, checkpoints, delivery rows | append, pad, tick, push, load, deliver | crashes, torn lines, two runners on one log, witnesses that lag | the checkpoints are one chain over the ledger; what is closed was accepted |
| Account fold, builders, signing, digests, verification, bundles, viewers, CLI, server, `produce/` and its ports | none, or read-only | | | |

### Interaction

`seal()` resolves the ledger, resolves the signer beside it, builds and signs a
capsule, appends it under the writer lock, and calls `maybe_checkpoint`.  That
call may start a worker thread, which first drains the backlog of witness
confirmations, then builds a checkpoint over all lines, registers it with every
witness, and appends a stamp to the same ledger.  The hold engine reads the same
ledger and appends to it under the lock of its scope.  An import holds the
writer locks of the old and the new ledger, so it excludes every append.  An
adapter turns the events of its framework into calls of `seal()`.  An artifact
store is written before the entry that names its record (store-backed ledger),
or on its own.

All these parts share the ledger.  The models therefore meet at its interface:
`AppendOnlyLog` says what an append promises, `FlatLedger` shows that the file
keeps the promise, and the other modules use an append as one step.  Likewise
`ArtifactContract` says what an artifact store promises, and `ArtifactStores`
and `SqlArtifactStores` are shown to keep it.

## 2. Modules

| Module | Models | State | Actions |
|---|---|---|---|
| `Holds` | `holds/engine.py`, `aggregate.py`, `capsules.py`, `scope.py`, the resume of `approval.py` | the ledger's hold records, the owner of each scope lock, where each thread is, the status and aggregate it last read | one per step of a call: begin, unlocked read, lock, read under the lock, decide and append or fail; resume; damage to a stored record |
| `CheckpointCadence` | `maybe_checkpoint`, its worker, `push` | clock, numbers of capsules and stamps, `prev`, `_counts`, `_armed_at`, the dispatch lock | each critical section of `_count_lock` is one action; claim, defer, reset, start (or a start that raises), build, stamp, release |
| `WitnessBacklog` | `_build_and_register`, the drain, `require_witness_receipt` | the lines of the ledger, `state.prev`, each witness's last and all accepted sizes | build, register with one witness at a time, stamp, backfill, drain, each with its failure; crash |
| `AppendOnlyLog` | the promise of `append_to_ledger` (abstract) | the log and what callers were told | add an entry, tell a position |
| `FlatLedger` | `append_to_ledger`, `_writer_lock`, `_write_line`, `LegacyLedger._refresh` and `_write_locked` | the pieces of the file between newlines, each process's index, both locks | call, lock, lock or refuse, check for the id, repair a torn tail, write in three parts, index, fail at any part, crash |
| `LedgerMove` | `resolve_ledger`, `_with_resolved_ledger`, `resolve_signer`, `create_store`, `import_ledger`, `HoldEngine.__init__` and `_append` | both ledgers and key files, both writer locks, the call of each process | resolve, sign, lock, recheck, write or run again; import: lock, lock, read, copy key, publish; fail or die at any step |
| `StoreBackedLedger` | `store_backed_ledger.py`: `open_stores`, `append`, `append_padding`, `pad_to_bucket`, `import_flat` | the entry log, the artifact store, each process's lines in memory and where its call is | open, begin a call, check for staleness, put, append the entry; import: check what is there, put every record, commit; fail (also with the entry written and the answer lost) or die at any step |
| `Emitter` | `adapters/_base.py` and the seal rules it reaches | the capsules sealed, the calls of the host, the table of plans, which seals were lost | a seal that may fail, remembering and evicting |
| `CallListeners` | `langchain_listener`, `agno_listener`, `litellm_listener`, `strands_listener`, `crewai`, `crewai_listener` | each listener's own tables | start, end and error of a call; replays and retries |
| `RunListeners` | `llamaindex_listener`, `openai_agents_listener`, `msft_agent_framework`, `adk` | spans and their roots, runs and their models, answers of long-running tools | the same, within runs; ADK's callbacks and its tap on the stream |
| `CallRecorders` | `mcp` with `gate.py`, `dapr_agents`, `langchain`, `hermes`, `nemo_guardrails`, `inspect_ai`, `agentgateway`, `otel/` | the toolset and its manifests, the tip of a turn, the gateway's pending calls, the spans a backfill knows | wrap a call, gate it, chain a turn's rails, pair a response, export, backfill |
| `Bilateral` | `bilateral.py` | handshakes, the signatures they hold, the seals owed | open, respond, confirm, ghost, seal each of them in one ledger or two |
| `Sealing` | `core.py` up to the append, `surface.py`, `settlement.py` legs, `adjudication.py` | capsules, ledgers, the call of each thread | build and append one record, or slots one by one and the composition that binds them, or fail |
| `Egress` | `core.py` after the append: the notice, witnesses, the old anchors, the exit handler | the flags of the process, calls, submissions without an answer | append, decide what may leave, notice, push, submit, answer, sweep, exit |
| `Adapters` | one of the three modules of adapters, or of `Bilateral`, `Sealing` and `Egress`, chosen at the start | `own1`..`own5` stand for its variables | its actions |
| `ArtifactContract` | what `docs/artifact-store.md` promises of put, get and purge (abstract) | the records held, those that may turn up | the outcomes each call may have |
| `RecordFile` | the JSONL file and the spans a process keeps of it | lines with their width, the open store | torn writes, scans, spans |
| `JsonlStores` | `artifact/jsonl.py`, `jsonl/store.go`, `jsonl.ts`, `jsonl.rs` | | init, put, get, purge, declare, reindex of each language |
| `MemoryStores` | `memory.py`, `memory/store.go`, `memory.ts`, `memory.rs` | | the same |
| `ArtifactStores` | all eight over one namespace | | open in some language, its calls, the end of the process, a kill in a write |
| `SqlEngine` | InnoDB and SQLite as the stores rely on them (external) | rows, locks, transactions, what each client is told | one statement; wait, deadlock, busy, roll back, run again |
| `SqlPrograms` | `_sql.py`, `mysql.py`, `sqlite.py` and their three ports | | the statements of each call |
| `SqlArtifactStores` | the SQL stores on one database | | two clients' calls, compared answers, a page of `find` |
| `Records` | `record.py`, `record.go`, `record.ts`, `record.rs` and the codecs beside them | | pure: what each language checks, sums, writes and reads |
| `ArtifactRecords` | one record's way through stores of all languages | the offer, what is stored, the damage | offer, put, purge, damage |
| `PathIndex` | `index.py`, `index.go`, `lookup.ts`, `index.rs` | | pure: declarations, timestamps, extraction, query checks, pages |
| `ArtifactPorts` | one namespace indexed by the four languages; or `ArtifactRecords`, chosen at the start | declarations, records, four indexes, a walk | declare, rebuild, admit, next page |
| `RustLedger` | `ledger.rs` in both layouts | lines, chain head, statement files | append a chained record or padding, torn or unheard |
| `RustCheckpoint` | `checkpoint.rs`, `substrate.rs`, `padding.rs` | leaves, checkpoints, what a runner has prepared | load, fold, pad, prepare, commit, push |
| `RustDelivery` | the registration of `checkpoint.rs` and the delivery rows of `substrate.rs` | rows per witness, the tips of the witnesses | offer, submit, settle a row, catch up, backfill |
| `RustNode` | a node: the writer, its runner, a second runner, the host's calls of `tick`, `push` and `reconnect` | all of these | all of these, crash, restart, rewrite of the ledger |

`MC...` modules give the constants their values for TLC where a .cfg cannot;
`cadence.cfg`, `move.cfg`, `stored.cfg` and `sql.cfg` need none.  `...Proofs` modules hold
the proofs.  Each module's head lists what it simplifies.  Operators named in a
comment as a *faulty variant* (or *variant*) are not part of any specification:
each is a plausible mistake in the code which some property rejects.

## 3. Runs

| Run | Question | Answer |
|---|---|---|
| `holds` | Can racing reserves break the cap, or racing closers close a hold twice, when appends fail and a record rots? | No. The signed sums of the capped classes equal what each hold settled to, a capped reserve cites the exact aggregate in front of it (`AggregatesAreExact`), and a closed hold never reads active again. |
| `cadence` | Does the counter, the age clock and the dispatch slot lose an entry, a builder or a caller? | Several threads seal. There is one builder at a time and each checkpoint covers the disk and grows; a full window is due unless a deferred thread wrote a count from before the last reset over a larger one, and what is older than the age cadence is due in any case (`WindowsAreCovered`). The slot is given back and `push` returns unless a start raised. |
| `backlog` | Do outages, lost answers, failed lines and a crash make the ledger claim more than a witness accepted, make checkpoints chain backwards, or leave a witness behind for good? | No, except that a witness whose accepted checkpoint has no usable stamp on record stays behind (`CaughtUp`'s `Unbroken`). |
| `backlog_receipt` | Does `require_witness_receipt` accept only witnesses that cover the call? | **No** (see below). |
| `ledger` | Does the file keep the promise of `AppendOnlyLog` when threads of two processes append equal, conflicting and new lines, a write fails and a process dies? | Yes, as a refinement; each index is a prefix of the log and every append ends. |
| `move` | Does an import lose or duplicate anything while two processes seal, a second import races, an engine and a checkpoint worker write to the old file and one call dies? | No: nothing is left behind, the store is never replaced, one producer signs it unless the import reported a difference and `DefaultMoved` never reaches a caller (`MoveIsSeamless`), and every call ends. |
| `stored` | Do failures between the put and the entry, old handles, retries and a resumed import harm a store-backed ledger? | No: no entry lacks its record, the chain does not fork and padding fills its bucket (`ChainIsKept`), what a `Ledger` remembers is the log's beginning, and an import that is run again ends unless somebody else's line came in between. |
| `adapters` | Do identical calls at once, lost seals, evictions, retries, replays and late answers make a record say what did not happen? Do handshakes, compositions and submissions? | No: a cited plan, replay, retry, model or manifest is the right one (`CitationsAreTrue`), each ended call is recorded once (`OutcomesAreRecordedOnce`), a turn is one chain whose end tells its rails (`TurnsAreToldWhole`), an attestation on record was made in its handshake (`ExchangesAreTrue`), records and compositions refer to what they were built on (`RecordsAreWhole`), nothing leaves against the kill switch, only another thread's submission overtakes the print of the notice, and no submission is lost (`EgressIsAccounted`). |
| `artifacts` | Does a JSONL namespace keep the contract when four languages take turns, puts tear and purges fail? | Yes; the index misses only records of failed puts that a purge brought to light, until it or the store is built anew (`IndexMissesOnlyFailed`), and a purge reaches every whole line of its Capsule. |
| `sql` | Do two clients' interleaved statements keep it, on InnoDB with either isolation level and on SQLite? | Yes, with deadlocks, busy databases and unheard commits; the index holds each record once it is declared and pages miss nothing (`IndexIsWhole`). |
| `ports` | Do the four languages judge, store and find alike? | Yes, but for JSON nested deeper than Rust decodes, and for the error Rust names for a line with an unknown state: the same records are admitted with the same answers (`RecordsAreJudgedAlike`), what one wrote the others read, and damaged SQL rows are refused (`AdmittedComesBack`); each query finds what a look at every record finds (`FindTellsTheTruth`). |
| `rust` | Do crashes, torn lines, two runners, a rewritten ledger, lagging witnesses and lost answers break a node's chain of checkpoints? | Not on a log: each checkpoint follows the last (`CutsChain`).  `checkpoints.jsonl` forks behind a line whose write failed (see below).  Each commits to the ledger's lines, a pushed record included (`CutsCoverTheLedger`), a closed row was accepted and an open one is still queued (`DeliveryIsAccounted`), a reopened ledger goes on where the chain ends (`ReopenFindsTheChain`). |

`backlog_receipt` finds the disagreement with `witness.py:1471`, "force a
checkpoint covering everything sealed so far": the build fails with a warning,
`push` returns the previous checkpoint and its witnesses are accepted.

### What else the models show

Disagreements with the repository's words that earlier runs showed and that the
properties now leave out (the models still contain the steps):

* `holds/engine.py:222`: a close accepts the id of a record that is no
  reservation.  Releasing a `hold.reconcile` id deducts its amount a second time
  from the developer-wide sum, against `holds/aggregate.py:13`, "A hold's own
  contributions always sum to its final settled value";
* `approval.py:152` trusts a status read earlier and outside the lock; an expiry
  that lands between is not seen, against `holds/engine.py:212`, "after this call
  succeeds, nothing may dispatch citing the original reservation";
* `witness.py:1608`: when `_get_state` or `Thread.start` raises after the claim,
  the dispatch slot stays taken and `push` waits for ever, against
  `witness.py:602`, "if it fails, a worker for this ledger is already running";
* `witness.py:1597`: a thread whose claim failed writes back the count it computed
  before the slot was taken.  When a reset and the counts of other seals came in
  between, those counts are lost, against `witness.py:1591`, "so nothing is lost":
  the checkpoint that a full window should bring comes up to a window late, or by
  age.  `forgot` records exactly this write-back, and
  `FullWindowIsDue` is silent until the next reset; `OverdueIsDue` needs no such
  exception;
* `witness.py:1604`: the age clock is armed again at the dispatch, so the first
  entry after a quiet period is due at once, against `docs/checkpoint.md:17`,
  seconds "since the first unwitnessed entry after the last checkpoint".
  `OverdueIsDue` says "no later than" that;
* `adapters/agentgateway.py:363`: whenever one plan is pending a response is
  paired with it.  After a response that found two pending cleared both, or
  after the TTL gave a slow call up, a late response is paired with the next
  call's plan, against `agentgateway.py:44`, "Pairing is only ever *asserted*
  when it is unambiguous";
* `artifact/jsonl.py:262`: a purge copies a line without a newline as it is, also
  when it is the whole record of the purged Capsule; the next put ends that line
  and a reopened store serves the originals, against `docs/artifact-store.md`,
  "A purged original cannot come back";
* `adapters/strands_listener.py:343`, `:369`, `:381`: every outcome of a second
  or later attempt carries, as `strands_retry_of`, the plan it answers, which is
  its own attempt's, against lines 85-86, "the prior attempt's planned capsule
  id".  It names an earlier attempt's plan only when its own was not sealed and
  that attempt's after-event never came.  `RetriesNameTheLastPlan` says of a
  plan that it names the last plan before it, and of an outcome that it names
  the plan it answers;
* `core.py:248`: the thread that takes the notice sets the flag and then prints;
  a second thread that finds the flag set goes on to the network in between,
  against `core.py:235-239`, "so no network I/O happens in this process ahead of
  the disclosure", and 731-734, "before this process's first anchor or witness
  network attempt".  `NoticeComesFirst` allows exactly this: what left before
  the print was sent by another thread than the one about to print;
* artifact stores in Python, Go and Rust (`artifact/jsonl.py:261`,
  `jsonl/store.go:488`, `jsonl.rs:249`): a put that failed after its whole line
  leaves it without a newline, the next put ends it, and a purge, which reads the
  file again, takes it into the spans but not into the order.  `get` then
  returns the record, while an `init_index` or `reindex` walks the old order and
  leaves it out until the store is opened again, against
  `docs/artifact-store.md:265-266`, "rebuilds the index from the stored records",
  and `jsonl.py:180`, "rebuilds the index from the file".
  `IndexMissesOnlyFailed` allows exactly these records (`late`);
* Rust, records: `decode_strict_json` (`artifact/src/record.rs:203-209`) goes
  through serde_json, which stops at 128 levels, where Python
  (`record.py:182-192`) and Go (`build.go:18`) go to 1000.  A Capsule or a bound
  original nested deeper is admitted by the others and neither admitted nor
  readable in Rust, against `docs/artifact-store.md:360`, "Data written by any
  language opens in the others".  And a Rust line is decoded whole before it is
  verified (`record.rs:603-637`): an unknown retention state is `invalid` there
  also when an earlier artifact, or the envelope, has a fault that comes first in
  the order of the document (lines 106-147) and in the other languages.
  `PortsAgree` names both exceptions, and in both Rust refuses;
* Rust, flat layout: `commit_checkpoint` (`substrate.rs:740-748`, `:804`) advances
  `last_checkpoint` when `append_checkpoint` has returned.  When that fails with
  its line on disk, the next checkpoint chains from the one before and the file
  forks, against `substrate.rs:10`, "a prepared checkpoint must not fork the
  chain", and 728-729, "if another was committed since, it would fork".  A
  witness that was sent the stray line accepts nothing after it: the catch-up
  sends the lines behind it, and the first does not follow, against
  `checkpoint.rs:1717`, "every later one is sent in order (each chains from the
  one before".  `CutsChain` allows a cut of this layout to name an earlier line
  when every line between is of a failed write or cannot be read;
* Rust: `offer_deferred_to_witnesses` (`checkpoint.rs:1075`) can offer a
  checkpoint after a newer one, against the comments at 961 and 1070; a crash
  between a registration and the commit leaves the receipt with a checkpoint
  that does not exist, and a new one stays pending at that witness;
  `witness_deferred` and the pending URLs are not persisted, against the comment
  near 1197.

Behaviour that contradicts no claim and is worth knowing:

* a `HoldEngine` resolves the default ledger once: after an import its holds go
  to the old file while seals in the same process go to the store;
* a reserve without an action class cites a sum over scopes whose locks it does
  not hold, so the cited number can be stale when it is appended;
* `push` after `push` builds a checkpoint over the first one's stamp, because
  the stamp is a leaf;
* a confirmation whose answer was lost is never recorded: the witness refuses
  the retry because it has the checkpoint, the drain skips it, and the stamp
  stays pending there although later stamps go on;
* when the process dies after a witness accepted a checkpoint and before its
  stamp is on disk (or its COSE bytes are), that witness refuses every later
  checkpoint of the ledger, since none chains from the lost one;
* the notice is printed once, so an anchor switched on later is never disclosed.
  Anchor failures answered before
  the next submission are swept without a warning (`core.py:351`);
* a capsule given in two slots of a composition fills the last slot twice
  (`surface.py:320`);
* a handshake with oneself never becomes bilateral, and a request signature can
  open a second handshake over the same action;
* `require_witness_receipt` raises when another thread's checkpoint already
  covered the record, and a retry after `WitnessRequiredError` seals a second
  capsule; an unsigned log entry stays although its signer fails;
* an MCP manifest whose write failed is not tried again while the toolset stays
  the same (`mcp.py:407`); a gate's seal may fail after the effect
  (`mcp.py:621`); two backfills of one file at once seal a span twice
  (`backfill.py:106`);
* an ID with two torn puts may, after the store is opened again, name the other
  record, and the order may differ;
* on InnoDB with READ COMMITTED a put that had read "no declaration" before a
  `reindex` is kept out of the index's gaps only by the declaration's row lock;
  a reindex that runs before the first declaration misses it.  A purge is not
  run again after a deadlock, and a page's cursor may pass a lower sequence
  number that commits later;
* the TypeScript SQLite store shares one connection between calls;
* Rust: a failed `write_line` leaves a torn tail and a stale head, so a push may
  then be told of a record that is not the last line; a ledger rewritten so that
  its last folded line is padding passes the check of a sync; `pending_since`
  keeps the old start after a partial delivery; a runner that lost a race does
  not recover until it is loaded again.

### Bounds

Two contenders on one resource reach every race in these models, as each lock
is taken at most twice by a call; a third actor is there where it differs in
kind.

* `holds`: two threads (symmetric), one capped class and the class-less scope,
  cap 2, tolerance 1, amounts 0..2, four records, one damaged record.  Four
  records are a reservation, a second one at the cap, and two closers.
* `cadence`: two sealing and two pushing threads, cadence 3, age 1, four capsules,
  two pushes: a thread that is due by age defers to one push, is overtaken by the
  next and writes back one entry over two.  Without `forgot` TLC finds this.
* `backlog`: two witnesses, two capsules, three checkpoints, one failure of any
  kind and one crash, so a crash can hit the repair of a failure.
* `ledger`: two threads of one process and one of another, two lines that
  contend for an id and one that does not, three calls, one failed write, one
  crash.
* `move`: two sealers, two imports, one engine, two lines, one failure.  A line
  is written before the import and one after it, by any writer.
* `stored`: two writers and one import, a flat ledger of two records (a chain
  or not), bucket 3, three calls, five records, two failures: a retry can fail
  too, and a bucket needs two padding lines.
* `adapters`: three calls, two of them alike and one without an id, tables of
  two entries, one lost seal; three attempts, two updates of a long-running
  call, two rails, two backfills.  `Bilateral`: three handshakes, two over the
  same action and one with no responder.  `Sealing`: three records, two threads,
  two ledgers, two slots, one failing append, a record cites any known one.
  `Egress`: two seals and two threads; whether a checkpoint is due and whether a
  push succeeds are open.
* `artifacts`: two Capsules, two records that claim the same ID, two
  declarations, three lines, one put that fails.  Three lines are a damaged one,
  a torn one and the retry.
* `sql`: two clients, two Capsules, two records, two declarations, one failed
  put; retries are not counted.  While a caller pages, one client at a time
  writes.
* `ports`: records with up to two artifacts (three in one case) of six contents,
  one of them nested too deep for Rust, and every fault a check looks for; two
  damages, the second to a state or a content; indexes over three records, two
  paths of two segments, limits 2 and 3, a largest number of 9, and timestamps at
  each edge of the calendar; one walk at a time.  A limit of 0 is the default in
  Go, and Go and Rust have no query value that is not a string.
* `rust`: three lines, two witnesses, two attempts, cadence 2, and per node one
  to three failures (two in the flat layout); one kind of node has no
  witnesses.  A ledger is rewritten only while nothing runs; a failed write of
  the backfill's file counts as a crash; whether the age of a window is due is
  open.

`CHECK_DEADLOCK FALSE` is set where the bounds end the behaviour (`move`,
`stored`, `adapters`, `ports`, `rust`), and in `cadence` because a leaked slot
does stop `push`.  The other passing runs check for deadlock.

### Fairness

* `cadence`: weak fairness of each started call and of the worker.  Threads that
  run are scheduled; nobody has to seal or push.
* `ledger`: weak fairness of each thread's steps inside an append.  `flock` is
  released by the kernel when its owner dies, and a call waits only for a
  writer that is itself fair.
* `move`: weak fairness of the calls that were made.  Waiting for a lock is
  enabled whenever it is free, and with the bounded number of lines the others
  cannot take it for ever.
* `stored`: weak fairness of each started call, and that an import which failed
  is run again, as `import_flat` asks of its caller.
* `backlog`: also that somebody keeps asking for a drain.  The code has no
  timer: the next seal or an operator does it.  This is an assumption about
  the environment and is stated as such.

The artifact stores, the adapters and the Rust node promise nothing that needs
fairness of their own: what they must do eventually depends on callers, and is
stated as what is still queued or recorded in every state
(`DeliveryIsAccounted`, `OutcomesAreRecordedOnce`).

## 4. Proofs

Each theorem holds for any number of threads, processes, runners, witnesses,
records and failures, and for any bounds.

| Theorem | States | Argument |
|---|---|---|
| `HoldsProofs!TypeCorrect` | `Spec => []TypeOK` | part of the invariant below |
| `HoldsProofs!ClosedOnce` | `Spec => []OneTerminalPerHold` | not inductive alone.  The scope of a call is a function of the record it names (`CallInv`), who closes a hold owns that scope (`LockInv`), so a status read as active under the lock is still true at the append (`DecideInv`); `ParentInv` says a new record has no terminal yet |
| `HoldsProofs!ClosedIsFinal` | `Spec => TerminalIsFinal` | a terminal record stays a terminal record, also when it rots, and `ClosedOnce` leaves no second one that could disagree |
| `HoldsProofs!CapHolds` | `Spec => []CapRespected` | `EInv`: the aggregate a reservation was admitted by is still the exposure of its scope when it is appended, since every append to a scope needs its lock (`AggInv`) |
| `HoldsProofs!AggregatesStayExact` | `Spec => []AggregatesAreExact` | a terminal record is its hold's only one, so it moves the sum of deltas and the settled sum by the same amount.  `Total` is a recursive function over the ledger; that it changes by the terms that change is shown by least counterexample (`SumsAgree`, `TotalStep`, `TotalChange`) |
| `CadenceProofs!BuildersAreSerial` | `Spec => []OneBuilder` | `SlotGuardsBuilders`: a slot that is free, or was handed to the worker, is held by no caller |
| `CadenceProofs!SealsAreCheckpointed` | `Spec => WindowsAreCovered` | what was sealed since the last build attempt is counted or about to be, the window is due already, or a build that will see it is in flight (`Counted`, `InFlight`); a count that no reset has overtaken belongs to a window that is due (`DeferredAreDue`), so writing it back keeps it due, and an overtaken one that loses nothing keeps the bound; the age clock was set no later than the first unseen capsule was counted (`AgeClockIsOld`) |
| `BacklogProofs!ConfirmationsAreTrue` | `Spec => []ConfirmedWasAccepted` | a confirmation is first in the memory of the builder or of a drain and reaches the ledger steps later, while the other process appends: `ConfirmedInv` follows it there |
| `BacklogProofs!StampsAreOneChain` | `Spec => []StampsChain` | `ChainInv` relates what the builder remembers of the last stamp, and what a restart puts in its place, to the stamps on record |
| `FlatLedgerProofs!OneLogOneWriter` | `Spec => []OneWriter` | `WriterOwnsFlock`: whoever is inside the write owns the one `flock` |
| `FlatLedgerProofs!FileIsOneLog` | `Spec => ImplementsLog`, the refinement of `AppendOnlyLog` | `LInv`: the id a writer found new stays new until its line is there (`StageInv`), finished pieces never change (`Grown`), an index is of what the file read as (`Indexed`) and a refresh then shows everything (`RefreshShowsAll`); each step of the code maps to one append, one answer or a stutter |
| `FlatLedgerProofs!IndexStaysPrefix` | every index shows a prefix of the log | `Indexed` |
| `LedgerMoveProofs!NoCapsuleIsLeft` | `Spec => []NothingLeftBehind` | who is past a lock holds it (`LocksHeld`), so what an import read is what the file holds and nobody else publishes (`SnapIsFlat`), and a call that passed the recheck writes before any import publishes (`WriteBeforeMove`) |
| `LedgerMoveProofs!NoCallerSeesMoved` | `Spec => []MovedStaysInternal` | the second attempt starts when the store is there and a published store stays, so it never targets the flat file (`RetryTargetsStore`).  The `raise` at `core.py:649` is dead code as long as nobody removes the store |
| `LedgerMoveProofs!MoveStaysSeamless` | `Spec => []MoveIsSeamless` | `KInv` adds the keys: the key beside the flat ledger signed every capsule in it (`FlatKeyed`), an import that reports no difference publishes a copy of that key (`CopyKeyed`), and it signs whatever is added to the store (`StoreKeyed`) |
| `LedgerMoveProofs!StoreIsAppendOnly` | `Spec => StoreOnlyGrows` | an import publishes only where there is no store (`SnapIsFlat`), and then it is empty (`EmptyUntilStore`) |
| `StoreBackedProofs!EntriesAlwaysHaveRecords` | `Spec => []EntriesHaveRecords` | the process in the middle of a call is alone (`BusyInv`), and at the entry its record is stored |
| `StoreBackedProofs!ImportsPutEverythingFirst` | `Spec => []NoPartialImport` | an import past its puts has every flat record in the store, and a writer never writes a flat record (`Importing`, `Busy`) |
| `StoreBackedProofs!LinesAreAlwaysThePrefix` | `Spec => []LinesAreThePrefix` | after the staleness check the process's lines are the whole log, so the entry it adds is the line it adds (`PrefixInv`, `Busy`) |
| `StoreBackedProofs!ChainIsAlwaysKept` | `Spec => []ChainIsKept` | `CInv`: the head a writer chains to is the last chained entry of the log it has just checked, and padding names none |
| `RustProofs!ReopenAlwaysFindsTheChain` | `Spec => []ReopenFindsTheChain` | `WriterInv`: a line about to be written names the head the writer knows and its body is on disk, so however a write ends the lines can be replayed; padding is outside the chain and leaves the head alone |
| `RustProofs!CutsStayOneChain` | `Spec => []CutsChain` | `PreparedOk`: what is committed holds the last checkpoint the runner knows and more.  That it is still the last one is the compare-and-set on a CLL backend.  In the flat layout only the writer's process keeps a checkpoint state (`NodesAssumption`), so what it knows is the last line whose write succeeded, or one behind it (`Heads`) |
| `RustProofs!CutsAlwaysCoverTheLedger` | `Spec => CutsCoverTheLedger` | while a runner is up lines are only added, so what it folded stays a prefix (`RunInv`); the padded count is at least what it folded, so the cut at it is on a bucket boundary and holds the pushed record |
| `RustProofs!DeliveryStaysAccounted` | `Spec => []DeliveryIsAccounted` | a row leaves "open" once and each recorded answer adds an attempt (`RowForward`), so an answer in hand whose row has the attempts it was asked with is of an open row, also when a second runner delivers (`AnswerOk`); a runner at the latest checkpoint has each cut in the queue of each of its witnesses, or closed by that cut or a later one (`Accounted`), and a commit leaves every other runner behind the latest one until it loads again. |
| `AdapterProofs!SubmissionsAreAccounted` | `Spec => []EgressIsAccounted` | the channels of a call were allowed when its record was appended and stay so (`SealLawful`); whoever is past the notice found it taken, however many threads raced for it (`NoticeTaken`), and until it is printed one thread that has sent nothing is about to print it (`NoticeInv`); a sweep drops only answered submissions |
| `AdapterProofs!TurnsAreChained` | `Spec => []TurnsAreToldWhole` | what the recorder remembers as the tip of a turn is the turn's last capsule in the ledger, also after a lost seal (`TipIsLast`), and nothing of a turn follows its close (`CloseIsLast`) |
| `AdapterProofs!HandshakesAreTrue` | `Spec => []ExchangesAreTrue` | a signature under a move is of the party and of the handshake its payload says, because the payload holds the nonce of the exchange, and that party made it (`HeldWasMeant`).  A replayed signature is a value held elsewhere, and its payload gives it away |
| `AdapterProofs!SealsAreWhole` | `Spec => []RecordsAreWhole` | a record that is built and not yet appended belongs to one thread, its parent is in its ledger already, and no other thread can bring its target there (`Fits`), so what it cites still stands where it says when it is appended; the slots of a composition are appended one by one before it, each built with the target of the whole call and without its references, so a member cites that target (when it is in another ledger) or nothing |
| `AdapterProofs!CitationsHold` | `Spec => []CitationsAreTrue` | `AttachedInv` has one invariant per adapter; `adapter` never changes, so the one of the attached adapter counts.  What they share: an entry of the table of plans names a capsule of its call that nothing cites yet (`Pairs`), and the entry is gone when a capsule cites it.  What each adds: the results an agno call may replay were confirmed (`AgnoInv`), strands remembers the last plan of a call, and what an outcome answers is that plan or none (`StrandsInv`), a plan is on CrewAI's stacks once, so popping the oldest entry of a key takes it off for good (`StackOk`; a plan is of the key's tool and arguments, all that its events tell), each link LlamaIndex remembers is one of the host's trees, so a walk that stops early is still under the call's root (`Rooted`, `RootInIs`), and while the gateway's requests come one at a time the one entry that has not expired is that of the call under way (`OneAtATime`) |
| `AdapterProofs!OutcomesHold` | `Spec => []OutcomesAreRecordedOnce` | the same `AttachedInv`: a call that ended has an outcome or lost a seal (`Recorded`); a table that forgot a running call's plan was full, or the plan's seal failed (`Forgotten`, `Explained`); of ADK's two observers the second finds the call among the ones seen unless the bounded set gave it up (`Told`); what a backfill knows of is what the ledger has from this source (`OtelOk`) |

The assumptions are the named `ASSUME`s of the modules: disjoint sets of actors,
a free lock has no owner among them, numbers are naturals, a flat Rust ledger is
checkpointed by the process that writes it, and before there is a log no witness
has accepted a checkpoint of it (it may hold one of another log under the same
id).  `AdapterAssumption` says what a host is: a recorded turn and a gated call
are calls, there is some ledger, a function of the agent framework is called
from a run or by the host itself, a trace file is a sequence of spans, and each
LlamaIndex span has the root of its parent (`RootOf`; nothing is assumed of how
deep the tree is, so it may be deeper than `_MAX_ROOT_WALK`).  TLC
evaluates them in every run.  The theorem on compositions is about two members,
as many as the model binds.

The inductive invariants were first checked by TLC on the configurations of
section 3.  Induction is where the provers stop: the induction theorems of the
library take an operator, which no installed prover instantiates.  What has to
be said of every prefix of a sequence (a sum, the fold of a file into entries,
the chain of the lines, the growth along a chain of checkpoints) or of every
finite set of numbers (that it can be put in order) is therefore shown by least
counterexample, with the well-ordering of the naturals (`LeastNat`, `LeastIs`).

Only model-checked:

* All liveness properties (`CallsEnd`, `AppendReturns`, `PushReturns`,
  `CaughtUp`, `ImportCompletes`): they need fairness, and the provers have no
  ENABLED.
* `IndexMissesOnlyFailed`, `IndexIsWhole` and the refinement `KeepsTheContract`
  of the artifact stores: the index is a fold over the lines of the file or the
  rows of a table, filtered with `SelectSeq`, of which the provers know nothing.
* The properties of `ArtifactPorts`: they compare pure algorithms over data
  (orders, extraction, pages) written with recursion.

## 5. Not modelled

* Cryptography, canonical encodings and rendering: signatures, digests, MMR
  roots, COSE, viewers, command lines.  A root is determined by the leaves
  under it, a signature by what it signs.
* The account fold, the builders, reconciliation and the reading of settlements,
  `produce/` and its Go, Rust and TypeScript ports: pure functions of finished
  records, with no order of steps to get wrong.
* Power loss, and SQLite's journal modes: a write that returned is on disk.
* A short write of `fs.writeSync` in the TypeScript purge (`ts/src/artifact/jsonl.ts:393`,
  `:439`), whose result the code does not look at; the other ports write in full
  or fail.
* JSON nested beyond 1000 levels, which no language takes, and the index of a
  Capsule too deep for Rust: its `extract` calls the Capsule corrupt.
* Segments of a managed store, the read-only CLL view, `export_ledger`, the
  bindings of particular transparency services.
* The attribute tiers of OTel spans, agentgateway's audit block, and ADK calls
  without an id, which the code pairs by name on a best-effort basis.
* Deployments that the code excludes by its own documents: two hold engines
  with separate lock registries on one ledger, a ledger file edited by hand
  while it is in use.
* Negative amounts: the engine does not refuse them; what they should mean is a
  question about the interface.

`PROJECT.json` lists every component with its status and reason.

## 6. Plan

Proofs: `IndexIsWhole` of `SqlArtifactStores`, with its filters written over the
places of the rows, as the tables of `Emitter` are.

Models: segments of a managed store and the recovery of a crashed append inside
one; liveness of the Rust delivery under fair ticks.
