SPECIFICATION PoolSpec
CONSTANTS
  m1 = m1
  m2 = m2
  m3 = m3
  m4 = m4
  p1 = p1
  p2 = p2
  p3 = p3
  p4 = p4
  r1 = r1
  r2 = r2
  s1 = s1
  s2 = s2
  Msgs = {m1, m2, m3, m4}
  Payloads = {p1, p2, p3, p4}
  Receivers = {r1, r2}
  Senders = {s1, s2}
  LenMsgCache = 3
  LenPayloadCache = 2
  ChanSize = 2
  NoMsg = NoMsg
  NoPayload = NoPayload
SYMMETRY Symmetry
INVARIANTS
  OneOwner
  BuffersNotShared
