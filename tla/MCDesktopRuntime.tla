-------------------------- MODULE MCDesktopRuntime --------------------------
(* A small instance of DesktopRuntime for TLC.                             *)
EXTENDS DesktopRuntime, TLC

CONSTANTS p1, p2, p3

MCSymmetry == Permutations(Pids)
=============================================================================
