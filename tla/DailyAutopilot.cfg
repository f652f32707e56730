SPECIFICATION FairSpec
CONSTANTS
  w1 = w1
  Workers = {w1}
  MaxRuns = 1
  MaxWaves = 3
  Slots = {1, 2, 3, 4}
  MaxFaults = 1
  MaxCancels = 1
  MaxAttempts = 3
  None = None
CHECK_DEADLOCK FALSE
INVARIANTS ChainIsSound PublicationIsSound
PROPERTIES StagesAreOrdered RunEnds
