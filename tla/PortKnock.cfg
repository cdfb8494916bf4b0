SPECIFICATION KnockSpec
CONSTANTS
  n1 = n1
  n2 = n2
  a1 = a1
  a2 = a2
  Names = {n1, n2}
  Addrs = {a1, a2}
  timeOut = 5
  maxportknock = 5
  NoKnock = NoKnock
  NoPage = NoPage
SYMMETRY Symmetry
INVARIANTS
  OnlyRepeatsLeak
  OpenPageKeepsKnock
