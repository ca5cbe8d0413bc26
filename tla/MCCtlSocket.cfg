\* Two daemons on one path, started and ended in any order, again and again.
SPECIFICATION FairSpec
CONSTANTS
  d1 = d1
  d2 = d2
  NoOne = NoOne
  Daemons = {d1, d2}
INVARIANTS
  TypeOK
  OneDaemon
PROPERTIES
  RefusedOnlyByLive
  EndsWhenTold
