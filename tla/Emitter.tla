------------------------------ MODULE Emitter ------------------------------
(***************************************************************************)
(* What the framework adapters share (capsule_emit.adapters._base and the  *)
(* seal rules of capsule_emit.core they reach): a ledger of capsules, a    *)
(* seal that may fail without breaking the host, and the bounded, ordered  *)
(* tables in which an adapter remembers the plans it has sealed.           *)
(*                                                                         *)
(* A capsule's id is its place in the ledger, so an id is never reused and *)
(* 0 is "no capsule".  A call of the host framework has an identity and a  *)
(* Signature, its tool and arguments, which other calls may share.         *)
(*                                                                         *)
(* Simplifications:                                                        *)
(*  - payloads are reduced to whether there is one.  Canonical JSON,       *)
(*    digests, salts and what a payload says are left out;                 *)
(*  - a host delivers its events one at a time, so a handler is one step   *)
(*    (the gateway, whose handlers run on a thread pool, is separate);     *)
(*  - the ledger is one that is not moved while the adapter runs.          *)
(***************************************************************************)
EXTENDS Integers, Sequences, FiniteSets

CONSTANTS
    Calls,          \* tool calls of the host
    Signature,      \* the tool and arguments of each call
    Anonymous,      \* calls whose events carry no id
    Answering,      \* calls whose result reaches the adapter
    Models,         \* the models a host may say it uses, as numbers
    MaxPending,     \* max_pending, max_seen: entries a table may hold
    MaxLost,        \* bound: seals that fail although the capsule is valid
    MaxNotes,       \* bound: lifecycle and model records
    NoCall          \* what a record that is about no tool call names

ASSUME EmitterAssumption ==
    /\ NoCall \notin Calls
    /\ Calls \subseteq DOMAIN Signature
    /\ Anonymous \cup Answering \subseteq Calls
    /\ Models \subseteq Nat \ {0}
    /\ MaxPending \in Nat \ {0}
    /\ {MaxLost, MaxNotes} \subseteq Nat

VARIABLES
    ledger,     \* the sealed capsules
    phase,      \* where the host is with each call
    pending,    \* the adapter's table of open plans, oldest first
    lost,       \* the calls a seal of which failed
    include     \* the adapter's option: optional records or marks are on

emitterVars == <<ledger, phase, pending, lost, include>>

EmitterInit ==
    /\ ledger = <<>>
    /\ phase = [c \in Calls |-> "new"]
    /\ pending = <<>>
    /\ lost = {}
    /\ include \in BOOLEAN

-----------------------------------------------------------------------------
(* Ordered tables: OrderedDict with the oldest entry evicted.               *)

Keys(table) == {table[i].key : i \in DOMAIN table}

LeaveOut(table, place) == SubSeq(table, 1, place - 1) \o SubSeq(table, place + 1, Len(table))

PlaceOf(table, key) == CHOOSE i \in DOMAIN table : table[i].key = key

\* d.get(key, default)
Get(table, key, default) ==
    IF key \in Keys(table) THEN table[PlaceOf(table, key)].val ELSE default

\* d.pop(key, None)
Without(table, key) ==
    IF key \in Keys(table) THEN LeaveOut(table, PlaceOf(table, key)) ELSE table

\* while len(d) >= max: d.popitem(last=False)
Bounded(table) ==
    IF Len(table) < MaxPending THEN table
    ELSE SubSeq(table, Len(table) - MaxPending + 2, Len(table))

\* d[key] = val: a key that is there keeps its place.
Assign(table, key, val) ==
    IF key \in Keys(table)
    THEN [i \in DOMAIN table |-> IF table[i].key = key THEN [key |-> key, val |-> val]
                                                       ELSE table[i]]
    ELSE Append(table, [key |-> key, val |-> val])

Remember(table, key, val) == Assign(Bounded(table), key, val)

-----------------------------------------------------------------------------
(* emit_capsule and the seal rules behind it                                *)

\* What a capsule is about, as the properties tell capsules apart.  marks
\* are the claims an adapter adds to the compute attestation: <<name, id>>.
\* The status "blocked" is the verdict blocked with a planned effect.
Capsule(call, status, output, prior, marks) ==
    [call |-> call, status |-> status, output |-> output, prior |-> prior,
     marks |-> marks, model |-> 0]

NextId == Len(ledger) + 1

\* A confirmed effect carries a response digest, of the output or else of
\* the capsule it confirms.  With neither, the emitter refuses it.
Sealable(capsule) ==
    capsule.status = "confirmed" => capsule.output \/ capsule.prior # 0

\* _seal: emit_capsule, or a warning and no capsule.
Seal(capsule, sealed) ==
    \/ /\ sealed /\ Sealable(capsule)
       /\ ledger' = Append(ledger, capsule)
       /\ UNCHANGED lost
    \/ /\ ~sealed
       /\ Sealable(capsule) => Cardinality(lost) < MaxLost
       /\ lost' = lost \cup {capsule.call}
       /\ UNCHANGED ledger

Notes == Cardinality({i \in DOMAIN ledger : ledger[i].call = NoCall})

\* A record with no effect: crew and chain lifecycle, model calls.
SealNote(sealed) ==
    /\ Notes < MaxNotes
    /\ Seal(Capsule(NoCall, "none", FALSE, 0, {}), sealed)

Attributed(capsule, model) == [capsule EXCEPT !.model = model]

\* The host moves a call on.
Becomes(c, now, next) ==
    /\ phase[c] = now
    /\ phase' = [phase EXCEPT ![c] = next]

IdIf(sealed) == IF sealed THEN NextId ELSE 0

\* Whether a payload comes with the end of a call: none, or one withheld.
HasOutput(c) == c \in Answering

Unchained(dropped) == IF dropped THEN {<<"unchained", 0>>} ELSE {}

=============================================================================
