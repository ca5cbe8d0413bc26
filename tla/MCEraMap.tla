------------------------------ MODULE MCEraMap ------------------------------
(***************************************************************************)
(* Small instances of EraMap for TLC.                                      *)
(***************************************************************************)
EXTENDS EraMap, TLC

CONSTANTS t1, t2, q1, q2

\* Two tags on queues of their own: two threads stamp at the same time.
TwoQueues == [t \in {t1, t2} |-> IF t = t1 THEN q1 ELSE q2]

\* Two tags on one queue: the thread runs one handler at a time.
OneQueue == [t \in {t1, t2} |-> q1]

\* The two threads are interchangeable.
Swap == [v \in {t1, t2, q1, q2} |->
           CASE v = t1 -> t2 [] v = t2 -> t1 [] v = q1 -> q2 [] v = q2 -> q1]
ThreadSymmetry == {Swap}

=============================================================================
