SPECIFICATION FairSpec
CONSTANTS
  Keys = {k1}
  Channels = {c1, c2}
  ChanSize = 1
  Single = 1
  Bidirectional = 1
  CleanUpInterval = 1
  NoEntry = NoEntry
  Never = Never
INVARIANTS
  TypeOK
  ChannelServed
PROPERTIES
  RemovedWhenDone
  ReceiverNotStuck
  DoneEntryRemoved
