SPECIFICATION Spec
CONSTANTS
  s1 = s1  s2 = s2  k1 = k1  r1 = r1  r2 = r2  t1 = t1  c1 = c1  c2 = c2  None = None
  Sources = {s1, s2}
  Keys = {k1}
  Remedies = {r1, r2}
  Trials = {t1}
  Clerks = {c1, c2}
  MaxAttempts = 2
  MaxProbes = 3
  MaxEvidence = 2
  MaxFaults = 1
CONSTRAINT MCProbedInTurn
SYMMETRY MCSymmetry
CHECK_DEADLOCK FALSE
INVARIANTS TrialsRestOnEvidence VerdictsAreTraceable
