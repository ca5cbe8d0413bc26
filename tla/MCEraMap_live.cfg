\* Two tags on one queue thread, one chunk, three eras.
SPECIFICATION FairSpec
CONSTANTS
  t1 = t1
  t2 = t2
  q1 = q1
  q2 = q2
  NrChunks = 1
  Tags = {t1, t2}
  Queues = {q1, q2}
  QueueOf <- OneQueue
  Ops = {"discard", "flush", "other"}
  MaxEra = 3
PROPERTIES
  RequestsComplete
  BackupEnds
