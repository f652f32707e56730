SPECIFICATION DailySpec
CONSTANTS
  a1 = a1  g1 = g1  g2 = g2  m1 = m1  m2 = m2
  Rows <- MCRows
  Audios = {a1}
  Purges = {g1, g2}
  MaxAttempts = 2
  MaxFaults = 1
  Events <- MCEvents
  MaxReports = 3
  MaxItems = 2
  MaxRare = 2
  Members = {m1, m2}
CHECK_DEADLOCK FALSE
CONSTRAINT HasRoom
INVARIANTS PageIsSpoken FilesFollowRows NoAudioOfPurgedReport OnlyReclaimsDeadlock
PROPERTIES DayIsCumulative RejectedStaysOut
