------------------------ MODULE MCSourceRemediation ------------------------
(* A small instance of SourceRemediation for TLC.                          *)
EXTENDS SourceRemediation, FiniteSets, TLC

CONSTANTS s1, s2, k1, r1, r2, t1, c1, c2

MCSymmetry == Permutations(Sources) \cup Permutations(Remedies) \cup Permutations(Clerks)

(* Two clerks can pass the check that no remediation is active before one  *)
(* of them inserts.  The third probe comes after the batch was frozen, as  *)
(* it follows up its evidence, and once no more than one of the requests   *)
(* and remediations is under way.                                          *)
UnderWay == {c \in Clerks : clerk[c] # Idle} \cup {o \in Remedies : Active(o)}
MCProbedInTurn ==
  Cardinality(UnderWay) > 1 \/ (\A s \in Sources : frozen[s] = 0) => Len(probes) < MaxProbes
=============================================================================
