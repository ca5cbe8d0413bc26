\* Two attachments, of one backing or of two, and every fault.
SPECIFICATION FairSpec
CONSTANTS
  NoAtt = NoAtt
  Atts = {a1, a2}
  Backings = {x, y}
  Faults = {"kill", "panic", "external", "signal", "timeout", "del_error"}
INVARIANTS
  TypeOK
  NoDoubleAttach
  NoOrphan
  UncleanIfUndisturbed
  ExitDetached
PROPERTIES
  RequestsReturn
  ShutdownEnds
