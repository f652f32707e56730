---------------------------- MODULE MCOperationQueue ----------------------------
(* Instances of OperationQueue for TLC: which process runs under which     *)
(* --worker-id.                                                            *)
EXTENDS OperationQueue, TLC

CONSTANTS o1, o2, p1, p2, w1, w2

(* The default identifiers, host name and process id: all different.       *)
DistinctIds == p1 :> w1 @@ p2 :> w2

(* Two processes with their identifiers, and any two operations, may be    *)
(* exchanged.                                                              *)
Exchange == p1 :> p2 @@ p2 :> p1 @@ w1 :> w2 @@ w2 :> w1
Symmetry == Permutations(Operations) \cup {Exchange}
=============================================================================
