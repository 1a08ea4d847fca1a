--------------------------- MODULE MCFlatLedger ---------------------------
(* Small instances of FlatLedger for TLC: threads a and b in process p,     *)
(* thread c in process q.                                                   *)
EXTENDS FlatLedger, TLC

MCProcOf == [t \in Threads |-> IF t = "c" THEN "q" ELSE "p"]

\* Two lines that contend for an id, and one that does not.
MCEntry == {[id |-> "i1", val |-> "x"], [id |-> "i1", val |-> "y"],
            [id |-> "i2", val |-> "x"]}
=============================================================================
