SPECIFICATION FairSpec
CONSTANTS
  Addresses = {a1, a2}
  HeloTimeout = 3
  HeloRepeatInterval = 2
  HeloRoundtripTime = 0
  MaxTimeDifference = 1
  MaxDelay = 1
  MaxInFlight = 2
  NoAddress = NoAddress
INVARIANTS
  TypeOK
  SilenceRetriggers
PROPERTIES
  OutsideExitsFirst
  LinkRecovers
