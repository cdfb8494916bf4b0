SPECIFICATION HalfFairSpec
CONSTANTS
  SecondsTimeout = 2
  MaxBytes = 3
  NoDeadline = NoDeadline
PROPERTIES
  BytesForwarded
