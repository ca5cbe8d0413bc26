\* Two queue threads, two chunks, three eras.
SPECIFICATION Spec
CONSTANTS
  t1 = t1
  t2 = t2
  q1 = q1
  q2 = q2
  NrChunks = 2
  Tags = {t1, t2}
  Queues = {q1, q2}
  QueueOf <- TwoQueues
  Ops = {"write"}
  MaxEra = 3
SYMMETRY ThreadSymmetry
INVARIANTS
  TypeOK
  NoLostChange
  CaughtNowOrNext
  FrozenBackupExact
  OnlyTouchedReported
PROPERTIES
  Tracks
