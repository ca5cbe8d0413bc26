\* Three blocks and a cache of three: overlaps, torn entries and write-back.
SPECIFICATION Spec
CONSTANTS
  NrBlocks = 3
  CacheCap = 3
  Values = {0, 1}
INVARIANTS
  TypeOK
  ReadYourWrites
  FlushedSurvives
  RecentWindow
