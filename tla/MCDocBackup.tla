---------------------------- MODULE MCDocBackup ----------------------------
(***************************************************************************)
(* A small instance of DocBackup for TLC.                                  *)
(***************************************************************************)
EXTENDS DocBackup

CONSTANTS t1, q1

OneTag == [t \in {t1} |-> q1]

=============================================================================
