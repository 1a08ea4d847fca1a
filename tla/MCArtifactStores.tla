-------------------------- MODULE MCArtifactStores --------------------------
(***************************************************************************)
(* Two Capsules, two records that claim the same ID, two declarations, the *)
(* four languages and their in-memory stores.                              *)
(***************************************************************************)
EXTENDS ArtifactStores

CONSTANTS c1, c2, r1, r2, p1, p2

MCIds == {c1, c2}
MCBodies == {r1, r2}
MCPathSets == {p1, p2}
Interchangeable ==
    Permutations(MCIds) \cup Permutations(MCBodies) \cup Permutations(MCPathSets)
MCFilePorts == {"python", "go", "typescript", "rust"}
MCMemoryPorts == {"python memory", "go memory", "typescript memory", "rust memory"}
=============================================================================
