SPECIFICATION LocksSpec
CONSTANTS
  Members = {m1}
CHECK_DEADLOCK FALSE
INVARIANT NoDeadlock
