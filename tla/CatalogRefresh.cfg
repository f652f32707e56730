SPECIFICATION Spec
CONSTANTS
  None = None
  Sources <- MCSources
  Lane <- MCLane
  Provider <- MCProvider
  Catalogs <- MCCatalogs
  Drifts <- MCDrifts
  Verified = {"entry"}
  MaxBatches = 2
  MaxAttempts = 2
  Workers = 2
  MaxStarts = 2
  Limit = 2
  Rounds = 2
CHECK_DEADLOCK FALSE
INVARIANTS RefreshIsExact
PROPERTIES VerdictsAreKept
