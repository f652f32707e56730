-------------------------- MODULE MCEventVersions --------------------------
(* Small instances of EventVersions for TLC.                               *)
EXTENDS EventVersions, TLC

CONSTANTS a, b, i1, i2, p1, p2, e1, m1, c1
Symmetry ==
  Permutations(Items) \cup Permutations(Keys) \cup Permutations(Pipelines)
=============================================================================
