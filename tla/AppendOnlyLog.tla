--------------------------- MODULE AppendOnlyLog ---------------------------
(***************************************************************************)
(* What a ledger promises its callers (docs/concurrency.md and the         *)
(* docstring of append_to_ledger): one log, entries are added one at a     *)
(* time under a new id, an entry never changes or moves, and whoever was   *)
(* told a sequence number finds that entry there for ever.                 *)
(***************************************************************************)
EXTENDS Integers, Sequences

CONSTANT Entry     \* the entries there can be: records with an id

VARIABLES
    log,    \* the entries, in order
    told    \* what callers were told: an entry and its sequence number

vars == <<log, told>>

Init == log = <<>> /\ told = {}

\* One new entry, under an id the log does not hold.
Add(e) ==
    /\ \A i \in DOMAIN log : log[i].id # e.id
    /\ log' = Append(log, e)
    /\ UNCHANGED told

\* A caller learns where an entry is: it was added, or was there already.
Tell(i) ==
    /\ told' = told \cup {[entry |-> log[i], seq |-> i]}
    /\ UNCHANGED log

Next == (\E e \in Entry : Add(e)) \/ (\E i \in DOMAIN log : Tell(i))

Spec == Init /\ [][Next]_vars
=============================================================================
