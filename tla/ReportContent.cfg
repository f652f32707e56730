SPECIFICATION ContentSpec
CONSTANTS
  Events <- MCEvents
  MaxReports = 2
  MaxItems = 2
  MaxRare = 1
CHECK_DEADLOCK FALSE
CONSTRAINT HasRoom
INVARIANT MergedRowsStay
