------------------------------ MODULE MCHolds ------------------------------
(* Small instances of Holds for TLC.                                        *)
EXTENDS Holds, TLC

CONSTANTS c1, c2, wire

MCCallers == {c1, c2}
MCClasses == {wire}
MCCap == (wire :> 2)
MCTolerance == (wire :> 1)
MCSymmetry == Permutations(MCCallers)
=============================================================================
