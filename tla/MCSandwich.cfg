\* One block of two values, a cache of one block, two tags.
SPECIFICATION FairSpec
CONSTANTS
  q1 = q1
  t1 = t1
  t2 = t2
  NrBlocks = 1
  CacheCap = 1
  Values = {0, 1}
  Queue = q1
  Tags = {t1, t2}
INVARIANTS
  TypeOK
  FlushDurable
  DumpCovers
PROPERTY ThawReleases
