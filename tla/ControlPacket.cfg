SPECIFICATION Spec
CONSTANTS
  Word = 16
  MaxUnixTimeDiff = 2
  MaxOffset = 1
  MaxAge = 5
  MaxInFlight = 2
  FirstTime = 10
  LastTime = 38
INVARIANTS
  NeverStale
  FailsOnlyAtWrapAround
  KeyComesBack
