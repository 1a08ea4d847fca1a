----------------------------- MODULE MCRustNode -----------------------------
(***************************************************************************)
(* A flat node, a node that pads, a store-backed one, two runners on one   *)
(* log, a log id that was used before, and no witnesses.                   *)
(***************************************************************************)
EXTENDS RustNode

NewTips == [w \in Witnesses |-> <<>>]
UsedTips == [w \in Witnesses |-> IF w = "w1" THEN Foreign ELSE <<>>]

One == {<<"w2">>}
Both == {<<"w1", "w2">>, <<"w2">>}

MCNodes ==
    [layout : {"flat", "stores"}, bucket : {0}, runners : {{"r1"}}, configs : {Both},
     tips : {UsedTips}, faults : {2}]
    \cup [layout : {"stores"}, bucket : {0}, runners : {{"r1"}}, configs : {Both},
          tips : {NewTips}, faults : {3}]
    \cup [layout : {"flat"}, bucket : {0}, runners : {{"r1"}}, configs : {Both},
          tips : {NewTips}, faults : {2}]
    \cup [layout : {"flat", "stores"}, bucket : {2}, runners : {{"r1"}}, configs : {Both},
          tips : {NewTips}, faults : {2}]
    \cup [layout : {"flat", "stores"}, bucket : {2}, runners : {{"r1"}}, configs : {{<<>>}},
          tips : {NewTips}, faults : {1}]
    \cup [layout : {"stores"}, bucket : {0}, runners : {{"r1", "r2"}}, configs : {One},
          tips : {NewTips}, faults : {1}]
=============================================================================
