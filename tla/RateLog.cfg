SPECIFICATION LogSpec
CONSTANTS
  Intervals <- MCIntervals
  LimitBurst = 4
  LimitHeloLoggingSeconds = 5
  MaxIdle = 7
INVARIANTS
  LogTypeOK
  LinesBounded
