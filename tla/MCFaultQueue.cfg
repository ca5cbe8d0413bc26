\* Two queues of one slot each (serve --queues 2).
SPECIFICATION Spec
CONSTANTS
  Queues = {q1, q2}
  Tags = {t1}
INVARIANT SingleOwner
