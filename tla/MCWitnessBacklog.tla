------------------------- MODULE MCWitnessBacklog -------------------------
(* Small instances of WitnessBacklog for TLC.                               *)
EXTENDS WitnessBacklog, TLC

OneWitness == <<"w1">>
TwoWitnesses == <<"w1", "w2">>
=============================================================================
