---------------------------- MODULE LedgerMove ----------------------------
(***************************************************************************)
(* Moving the default ledger from the flat ./ledger.jsonl to the store     *)
(* ./capsule-ledger/ while it is being written (capsule_emit.ledger_layout *)
(* resolve_ledger and default_moved; core._with_resolved_ledger;           *)
(* ledger_migrate.import_ledger; ledger_store.create_store;                *)
(* signing.resolve_signer).                                                *)
(*                                                                         *)
(* A seal() without ledger= resolves the default, signs with that ledger's *)
(* key, and appends under that ledger's writer lock.  Under the flat       *)
(* file's lock it looks once more whether a store was published; if so it  *)
(* writes nothing and runs again.  An import holds both writer locks,      *)
(* copies every line and the producer key, and renames the finished store  *)
(* into place.  A HoldEngine resolves the default once, when it is made.   *)
(*                                                                         *)
(* Simplifications:                                                        *)
(*  - a ledger is the sequence of its leaves.  Torn lines and the threads  *)
(*    of one process are module FlatLedger's;                              *)
(*  - a store is published by one rename, so building it is no step of its *)
(*    own: a process that dies before leaves a staging directory nobody    *)
(*    reads.  An append to a store happens under its lock, in one step;    *)
(*  - ./ledger.jsonl exists and the deprecation window is open;            *)
(*  - key files are created, never rotated.                                *)
(***************************************************************************)
EXTENDS Integers, Sequences

CONSTANTS
    Sealers,        \* processes that seal() to the default ledger
    Engines,        \* HoldEngine objects on the default ledger
    Importers,      \* runs of "capsule-emit ledger import"
    Nobody,         \* owner of a free lock
    NoKey,          \* a key file that does not exist
    FlatKey,        \* the key created beside ledger.jsonl
    MaxLines,       \* bound: lines written
    MaxFailures     \* bound: imports or seals that fail or die

Procs == Sealers \cup Engines \cup Importers
Keys == Sealers \cup {FlatKey}      \* a sealer that creates a key names it

ASSUME MoveAssumption ==
    /\ Sealers \cap Engines = {} /\ Sealers \cap Importers = {}
    /\ Engines \cap Importers = {}
    /\ Nobody \notin Procs /\ NoKey \notin Keys /\ FlatKey \notin Sealers
    /\ MaxLines \in Nat /\ MaxFailures \in Nat

VARIABLES
    flat,       \* the lines of ./ledger.jsonl
    dir,        \* ./capsule-ledger: "absent", "empty" or "store"
    store,      \* its lines
    flatKey, storeKey,      \* the two key files
    flatLock, storeLock,    \* owners of the two writer locks
    pc,         \* where each process is
    call,       \* its call: the target its resolution chose, the attempt,
                \* the key it signed with, the number of the line
    snap,       \* the lines an import read
    copied,     \* lines the published import copied, -1 when there is none
    differs,    \* report.key_differs
    lines, failures     \* bounded counters

disk == <<flat, dir, store, copied>>
keys == <<flatKey, storeKey, differs>>
locks == <<flatLock, storeLock>>
calls == <<pc, call, snap>>
bounds == <<lines, failures>>
vars == <<disk, keys, locks, calls, bounds>>

NoCall == [target |-> "flat", attempt |-> 1, key |-> NoKey, id |-> 0]
Line(id, kind, k) == [id |-> id, kind |-> kind, key |-> k]

\* A flat ledger that was written before has its key; a new one has neither.
Init ==
    /\ flatKey \in {NoKey, FlatKey}
    /\ flat = IF flatKey = NoKey THEN <<>>
              ELSE <<Line(0, "capsule", FlatKey)>>
    /\ dir = "absent" /\ store = <<>> /\ copied = -1
    /\ storeKey = NoKey /\ differs = FALSE
    /\ flatLock = Nobody /\ storeLock = Nobody
    /\ pc = [p \in Procs |-> "idle"]
    /\ call = [p \in Procs |-> NoCall]
    /\ snap = [p \in Procs |-> <<>>]
    /\ lines = 0 /\ failures = 0

Goto(p, label) == pc' = [pc EXCEPT ![p] = label]

\* Faulty variant: the flat file's lock is never given back.
ReleaseStoreOnly(p) ==
    /\ storeLock' = IF storeLock = p THEN Nobody ELSE storeLock
    /\ UNCHANGED flatLock

\* The locks p holds are released, by leaving the "with" or by the kernel.
Release(p) ==
    /\ flatLock' = IF flatLock = p THEN Nobody ELSE flatLock
    /\ storeLock' = IF storeLock = p THEN Nobody ELSE storeLock

\* The call returns or raises.
Return(p) ==
    /\ Release(p) /\ Goto(p, "idle")
    /\ call' = [call EXCEPT ![p] = NoCall]
    /\ snap' = [snap EXCEPT ![p] = <<>>]

-----------------------------------------------------------------------------
(* seal(): _with_resolved_ledger, _emit_capsule_at, _append_capsule         *)

\* Faulty variant: an existing ledger.jsonl wins over the store.
FlatFirst == "flat"

\* resolve_ledger(None): an existing store (or empty directory) wins.
DefaultTarget == IF dir = "absent" THEN "flat" ELSE "store"

\* The default would now resolve elsewhere: a manifest is in place.
DefaultMoved == dir = "store"

Seal(t) ==
    /\ pc[t] = "idle" /\ lines < MaxLines
    /\ Goto(t, "resolve")
    /\ lines' = lines + 1
    /\ call' = [call EXCEPT ![t].id = lines']
    /\ UNCHANGED <<disk, keys, locks, snap, failures>>

Resolve(t) ==
    /\ pc[t] = "resolve"
    /\ call' = [call EXCEPT ![t].target = DefaultTarget]
    /\ Goto(t, "sign")
    /\ UNCHANGED <<disk, keys, locks, snap, bounds>>

\* resolve_signer beside the flat file: load the key, or create it.
SignFlat(t) ==
    /\ pc[t] = "sign" /\ call[t].target = "flat"
    /\ flatKey' = FlatKey
    /\ call' = [call EXCEPT ![t].key = FlatKey]
    /\ Goto(t, "append")
    /\ UNCHANGED <<disk, storeKey, differs, locks, snap, bounds>>

\* A store's key is created only under the store's writer lock.
SignStore(t) ==
    /\ pc[t] = "sign" /\ call[t].target = "store"
    /\ storeKey = NoKey => storeLock = Nobody
    /\ storeKey' = IF storeKey = NoKey THEN t ELSE storeKey
    /\ call' = [call EXCEPT ![t].key = storeKey']
    /\ Goto(t, "append")
    /\ UNCHANGED <<disk, flatKey, differs, locks, snap, bounds>>

LockFlat(t) ==
    /\ pc[t] = "append" /\ call[t].target = "flat" /\ flatLock = Nobody
    /\ flatLock' = t
    /\ Goto(t, "precheck")
    /\ UNCHANGED <<disk, keys, storeLock, call, snap, bounds>>

\* LedgerLockedError, unless the caller asked to wait.
Locked(t) ==
    /\ pc[t] = "append"
    /\ IF call[t].target = "flat" THEN flatLock # Nobody ELSE storeLock # Nobody
    /\ Return(t)
    /\ UNCHANGED <<disk, keys, bounds>>

\* Faulty variant: the default is not looked at again under the lock.
NoPrecheck(t) ==
    /\ pc[t] = "precheck"
    /\ Goto(t, "write")
    /\ UNCHANGED <<disk, keys, locks, call, snap, bounds>>

Precheck(t) ==
    /\ pc[t] = "precheck" /\ ~DefaultMoved
    /\ Goto(t, "write")
    /\ UNCHANGED <<disk, keys, locks, call, snap, bounds>>

\* DefaultMoved: nothing is written and the call runs once more.
RunAgain(t) ==
    /\ pc[t] = "precheck" /\ DefaultMoved
    /\ Release(t)
    /\ call' = [call EXCEPT ![t].attempt = @ + 1]
    /\ Goto(t, IF call[t].attempt = 1 THEN "resolve" ELSE "raised")
    /\ UNCHANGED <<disk, keys, snap, bounds>>

WriteFlat(t) ==
    /\ pc[t] = "write"
    /\ flat' = Append(flat, Line(call[t].id, "capsule", call[t].key))
    /\ Return(t)
    /\ UNCHANGED <<dir, store, copied, keys, bounds>>

\* append_line: create the store with its first line, or append to it.
AppendToStore(line) ==
    /\ storeLock = Nobody
    /\ store' = Append(store, line)
    /\ dir' = "store"
    /\ UNCHANGED <<flat, copied>>

WriteStore(t) ==
    /\ pc[t] = "append" /\ call[t].target = "store"
    /\ AppendToStore(Line(call[t].id, "capsule", call[t].key))
    /\ Return(t)
    /\ UNCHANGED <<keys, bounds>>

-----------------------------------------------------------------------------
(* Writers that keep the path they once resolved.                           *)

\* HoldEngine.__init__ resolves the default.
OpenEngine(e) ==
    /\ pc[e] = "idle"
    /\ call' = [call EXCEPT ![e].target = DefaultTarget]
    /\ Goto(e, "open")
    /\ UNCHANGED <<disk, keys, locks, snap, bounds>>

AppendToFlat(line) ==
    /\ flatLock = Nobody
    /\ flat' = Append(flat, line)
    /\ UNCHANGED <<dir, store, copied>>

\* HoldEngine._append, with an explicit path and so without the precheck.
AppendHold(e) ==
    /\ pc[e] = "open" /\ lines < MaxLines
    /\ lines' = lines + 1
    /\ IF call[e].target = "flat" THEN AppendToFlat(Line(lines + 1, "hold", NoKey))
                                  ELSE AppendToStore(Line(lines + 1, "hold", NoKey))
    /\ UNCHANGED <<keys, locks, calls, failures>>

\* A checkpoint worker stamps the flat ledger it was started for, before or
\* after the move: bookkeeping about lines the flat file holds never stops.
Stamp ==
    /\ flat # <<>> /\ lines < MaxLines
    /\ lines' = lines + 1
    /\ AppendToFlat(Line(lines + 1, "stamp", NoKey))
    /\ UNCHANGED <<keys, locks, calls, failures>>

\* Somebody makes the directory by hand.
MakeDir ==
    /\ dir = "absent"
    /\ dir' = "empty"
    /\ UNCHANGED <<flat, store, copied, keys, locks, calls, bounds>>

-----------------------------------------------------------------------------
(* import_ledger                                                            *)

\* _check_destination
DestinationIsNew == dir # "store"

Import(i) ==
    /\ pc[i] = "idle" /\ DestinationIsNew
    /\ Goto(i, "lock store")
    /\ UNCHANGED <<disk, keys, locks, call, snap, bounds>>

ImportLocksStore(i) ==
    /\ pc[i] = "lock store" /\ storeLock = Nobody
    /\ storeLock' = i
    /\ Goto(i, "lock flat")
    /\ UNCHANGED <<disk, keys, flatLock, call, snap, bounds>>

ImportLocksFlat(i) ==
    /\ pc[i] = "lock flat" /\ flatLock = Nobody
    /\ flatLock' = i
    /\ Goto(i, "read")
    /\ UNCHANGED <<disk, keys, storeLock, call, snap, bounds>>

\* Faulty variant: the destination is not looked at again under the locks.
ReadUnchecked(i) ==
    /\ pc[i] = "read"
    /\ snap' = [snap EXCEPT ![i] = flat]
    /\ Goto(i, "copy key")
    /\ UNCHANGED <<disk, keys, locks, call, bounds>>

ReadSource(i) ==
    /\ pc[i] = "read" /\ DestinationIsNew
    /\ snap' = [snap EXCEPT ![i] = flat]
    /\ Goto(i, "copy key")
    /\ UNCHANGED <<disk, keys, locks, call, bounds>>

\* The old key is copied unless the store has one; then a difference is
\* reported.
CopyKey(i) ==
    /\ pc[i] = "copy key"
    /\ storeKey' = IF storeKey = NoKey THEN flatKey ELSE storeKey
    /\ differs' = (flatKey # NoKey /\ storeKey' # flatKey)
    /\ Goto(i, "publish")
    /\ UNCHANGED <<disk, flatKey, locks, call, snap, bounds>>

\* create_store: the rename.
Publish(i) ==
    /\ pc[i] = "publish"
    /\ store' = snap[i] /\ dir' = "store" /\ copied' = Len(snap[i])
    /\ Return(i)
    /\ UNCHANGED <<flat, keys, bounds>>

\* The destination was taken meanwhile, a line cannot be copied, the disk is
\* full, or the process dies: no store appears and the locks are released.
\* A key that was copied stays.
Fails(p) ==
    /\ pc[p] \notin {"idle", "open", "raised"}
    /\ \/ pc[p] = "read" /\ ~DestinationIsNew /\ UNCHANGED failures
       \/ failures < MaxFailures /\ failures' = failures + 1
    /\ Return(p)
    /\ UNCHANGED <<disk, keys, lines>>

-----------------------------------------------------------------------------
SealStep(t) ==
    \/ Resolve(t) \/ SignFlat(t) \/ SignStore(t) \/ LockFlat(t) \/ Locked(t)
    \/ Precheck(t) \/ RunAgain(t) \/ WriteFlat(t) \/ WriteStore(t)

ImportStep(i) ==
    \/ ImportLocksStore(i) \/ ImportLocksFlat(i) \/ ReadSource(i) \/ CopyKey(i)
    \/ Publish(i)

Next ==
    \/ \E t \in Sealers : Seal(t) \/ SealStep(t)
    \/ \E e \in Engines : OpenEngine(e) \/ AppendHold(e)
    \/ \E i \in Importers : Import(i) \/ ImportStep(i)
    \/ \E p \in Sealers \cup Importers : Fails(p)
    \/ Stamp \/ MakeDir

Spec == Init /\ [][Next]_vars

\* A call that was made goes on.
FairSpec ==
    /\ Spec
    /\ \A t \in Sealers : WF_vars(SealStep(t) \/ Fails(t))
    /\ \A i \in Importers : WF_vars(ImportStep(i) \/ Fails(i))

-----------------------------------------------------------------------------
(* Properties.                                                              *)

LineType ==
    [id : Nat, kind : {"capsule", "hold", "stamp"}, key : Keys \cup {NoKey}]

Labels ==
    {"idle", "resolve", "sign", "append", "precheck", "write", "raised", "open",
     "lock store", "lock flat", "read", "copy key", "publish"}

CallType ==
    [target : {"flat", "store"}, attempt : 1..2, key : Keys \cup {NoKey}, id : Nat]

DiskOK ==
    /\ flat \in Seq(LineType) /\ store \in Seq(LineType)
    /\ dir \in {"absent", "empty", "store"} /\ copied \in Nat \cup {-1}
    /\ flatKey \in {NoKey, FlatKey} /\ storeKey \in Keys \cup {NoKey}
    /\ differs \in BOOLEAN

CallsOK ==
    /\ pc \in [Procs -> Labels] /\ call \in [Procs -> CallType]
    /\ snap \in [Procs -> Seq(LineType)]
    /\ flatLock \in Procs \cup {Nobody} /\ storeLock \in Procs \cup {Nobody}
    /\ lines \in Nat /\ failures \in Nat

TypeOK == DiskOK /\ CallsOK

\* Flat lines that an import left behind.
Stragglers == IF copied = -1 THEN {} ELSE (copied + 1)..Len(flat)

\* core._with_resolved_ledger and import_ledger: the store starts with every
\* line of the flat file at its old position, and no capsule sealed to the
\* default ledger, however late it resolved, locked or wrote, is left in the
\* flat file only.
NothingLeftBehind ==
    /\ copied # -1 =>
         /\ copied <= Len(flat) /\ copied <= Len(store)
         /\ \A n \in 1..copied : store[n] = flat[n]
    /\ \A n \in Stragglers : flat[n].kind # "capsule"

\* ledger_store: a published store is only appended to, never replaced by an
\* import or by a process that believed it was the first.
StoreOnlyGrows ==
    [][/\ dir = "store" => dir' = "store"
       /\ Len(store) <= Len(store') /\ SubSeq(store', 1, Len(store)) = store]_vars

\* ledger_migrate "the producer key is carried over": after an import that
\* reported no difference, all capsules of the store have one signer.
OneProducer ==
    copied # -1 /\ ~differs =>
        \A m, n \in DOMAIN store :
            store[m].kind = "capsule" /\ store[n].kind = "capsule"
                => store[m].key = store[n].key

\* The second attempt of a seal() finds the store, so DefaultMoved, an
\* internal exception, never reaches a caller.
MovedStaysInternal == \A t \in Sealers : pc[t] # "raised"

\* The move does not show: one signer for all capsules, and no error that is
\* the package's own (import_ledger, core._with_resolved_ledger).
MoveIsSeamless == OneProducer /\ MovedStaysInternal

\* Every seal() and every import ends.
CallsEnd ==
    \A p \in Sealers \cup Importers : pc[p] # "idle" ~> pc[p] = "idle"
=============================================================================
