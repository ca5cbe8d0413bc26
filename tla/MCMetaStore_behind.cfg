\* A file whose era is behind the consumer's cursor, after a checkpoint whose
\* save failed or whose rename a power loss undid.
SPECIFICATION Spec
CONSTANTS
  NoGen = NoGen
  Chunks = {c1}
  Gens = {g1, g2, g3}
  MaxEra = 4
  MetaModes = {TRUE}
  SaveErrors = {"checkpoint"}
  Faults = {"power_loss"}
SYMMETRY Symmetry
INVARIANTS
  CrashSafe
