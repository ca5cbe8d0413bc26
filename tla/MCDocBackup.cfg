\* One writer, one chunk, the documented first backup.
SPECIFICATION DocSpec
CONSTANTS
  t1 = t1
  q1 = q1
  NrChunks = 1
  Tags = {t1}
  Queues = {q1}
  QueueOf <- OneTag
  Ops = {"write"}
  MaxEra = 3
INVARIANTS
  NoLostChange
