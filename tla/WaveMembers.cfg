SPECIFICATION Spec
CONSTANTS
  Wave = Wave
  m1 = m1
  m2 = m2
  m3 = m3
  None = None
  Members = {m1, m2, m3}
  Fetchable = {m1, m2, m3}
  MaxAttempts = 2
  Limit = 2
SYMMETRY Symmetry
CHECK_DEADLOCK FALSE
INVARIANTS ManifestIsSound
PROPERTIES VerdictsAreFenced
