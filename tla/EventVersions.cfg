SPECIFICATION Spec
CONSTANTS
  a = a  b = b  i1 = i1  i2 = i2  p1 = p1  p2 = p2  e1 = e1  m1 = m1  c1 = c1
  Keys = {a, b}
  Items = {i1, i2}
  Pipelines = {p1, p2}
  Editors = {e1}
  Deciders = {m1}
  Candidates = {c1}
  Workers = 2
  MaxVersions = 3
  None = None
SYMMETRY Symmetry
CHECK_DEADLOCK FALSE
INVARIANTS VersionsAreKept MergedAsReviewed
