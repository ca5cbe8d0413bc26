----------------------------- MODULE MCMetaStore -----------------------------
(***************************************************************************)
(* Small instances of MetaStore for TLC.                                   *)
(***************************************************************************)
EXTENDS MetaStore, TLC

\* Chunks are interchangeable, and so are generation ids.
Symmetry == Permutations(Chunks) \cup Permutations(Gens)

\* Bound: once a device has been added beside a forgotten one, the behaviour is
\* followed up to the next harm, and only as long as no rename has been
\* committed to the directory. What is claimed of it by then is FileIntact,
\* which the proof covers without the bound.
Explored == "beside" \in happened => happened = {"beside"} /\ durable = NoFile

=============================================================================
