SPECIFICATION FairSpec
CONSTANTS
  i1 = i1
  i2 = i2
  r1 = r1
  r2 = r2
  f1 = f1
  f2 = f2
  f3 = f3
  Ids = {i1, i2}
  Remotes = {r1, r2}
  Flows = {f1, f2, f3}
  MaxCurrentFlows = 2
  TimeOutSingleDirection <- SingleTimeouts
  TimeOutBidirectional <- BidirectionalTimeouts
  NoEntry = NoEntry
  NoRemote = NoRemote
  Never = Never
INVARIANTS
  TypeOK
  FlowsPartitioned
  MapsAgree
  CountsAgree
  NoFalseExhaustion
PROPERTIES
  OnlyExpiredReclaimed
  ImplementsAllocator
  ReclaimedWhenInsideSilent
