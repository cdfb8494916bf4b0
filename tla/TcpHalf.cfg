SPECIFICATION HalfFairSpec
CONSTANTS
  SecondsTimeout = 2
  MaxBytes = 3
  NoDeadline = NoDeadline
INVARIANTS
  HalfTypeOK
PROPERTIES
  LosesOnlyAtDeadline
  EndsAfterPeer
