\* Two attachments, of one backing or of two; devices deleted by another tool.
SPECIFICATION Spec
CONSTANTS
  NoAtt = NoAtt
  Atts = {a1, a2}
  Backings = {x, y}
  Faults = {"external"}
INVARIANTS
  UncleanWhileUp
