--------------------------- MODULE MCWaveMembers ---------------------------
(* Small instances of WaveMembers for TLC.                                 *)
EXTENDS WaveMembers, TLC

CONSTANTS m1, m2, m3

Symmetry == Permutations({m1, m2, m3})
=============================================================================
