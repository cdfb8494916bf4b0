SPECIFICATION FairSpec
CONSTANTS
  i1 = i1
  i2 = i2
  c1 = c1
  c2 = c2
  c3 = c3
  Ids = {i1, i2}
  KnockIds = {i1}
  Conns = {c1, c2, c3}
  MaxCurrentConnections = 2
  ConnectTimeout = 1
  ChaSize = 1
  NoConn = NoConn
INVARIANTS
  TypeOK
  OnlyUnknockedLeak
PROPERTIES
  AnswerMatchedIffInTime
  CleanedByTraffic
