SPECIFICATION FairSpec
CONSTANTS
  c1 = c1
  c2 = c2
  c3 = c3
  Conns = {c1, c2, c3}
  HeloTimeout = 4
  ConnectTimeout = 1
  MaxTimeDifference = 2
  ChannelSize = 1
  StreamSize = 2
  MaxConnecting = 1
  NoConn = NoConn
INVARIANTS
  LossNoticed
  FullChannelHasReader
  AnswerBeforeCalls
PROPERTIES
  LinkRecovers
