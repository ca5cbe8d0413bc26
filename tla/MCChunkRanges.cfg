\* Three chunks of two sectors, the last one half outside the device; the
\* counter wraps after every fourth era.
SPECIFICATION Spec
CONSTANTS
  DevSize = 5
  Granularity = 2
  EraCycle = 4
  MaxClosed = 6
INVARIANTS
  TypeOK
  NoSectorMissed
  OnlyChangedChunks
  RangesCanonical
