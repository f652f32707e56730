CONSTANTS
  Operations = {o1}
  o1 = o1  o2 = o2
  p1 = p1  p2 = p2
  w1 = w1  w2 = w2
  Processes = {p1, p2}
  WorkerIds = {w1, w2}
  IdOf <- DistinctIds
  MaxAttempts = 2
  MonitorErrors = TRUE
  MaxCrashes = 2
  None = None
SPECIFICATION FairSpec
PROPERTIES Settles HistoryIsFenced CheckpointsAreFenced
