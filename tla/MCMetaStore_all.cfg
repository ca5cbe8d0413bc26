\* With and without --meta; kill -9 at every step and every fault.
SPECIFICATION Spec
CONSTANTS
  NoGen = NoGen
  Chunks = {c1}
  Gens = {g1, g2}
  MaxEra = 3
  MetaModes = {TRUE, FALSE}
  SaveErrors = {"marker", "checkpoint", "final"}
  Faults = {"power_loss", "external_delete", "forgotten", "add_timeout"}
SYMMETRY Symmetry
CONSTRAINT Explored
INVARIANTS
  TypeOK
  CursorSound
  UncleanWhileLive
  FileAheadOfCursor
  FileIntact
