SPECIFICATION ReportsSpec
CONSTANTS
  p1 = p1  r1 = r1
  MaxReports = 4
  Operations = {1, 2}
  Windows = {24}
  Publishers = {p1}
  MaxScope = 1
  MaxPurges = 1
  MaxAttempts = 2
  Reports = {r1}
  DateOf <- MCDateOf
  RetentionDays = 1
  TrashDays = 1
  Plans = {1, 2}
  MaxTime = 3
  MaxRuns = 2
CHECK_DEADLOCK FALSE
INVARIANTS LineageIsSound OverviewNeverShrinks OneScheduledRun
PROPERTIES LineageIsKept OnlyExpired
