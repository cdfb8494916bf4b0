SPECIFICATION Spec
CONSTANTS
  Remotes = {r1, r2}
  Flows = {7}
  Single = 1
  Bidirectional = 3
  CleanUpInterval = 1
  MaxDelay = 2
  MaxInFlight = 3
  Free = Free
  NoEntry = NoEntry
  Never = Never
INVARIANTS TypeOK RestedNumberIsClean
PROPERTIES SessionNotCut
