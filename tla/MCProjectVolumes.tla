--------------------------- MODULE MCProjectVolumes ---------------------------
(* A small instance of ProjectVolumes alone. *)
EXTENDS ProjectVolumes, TLC

\* Commands are told apart by nothing but their names.
MCSymmetry == Permutations(Job)
=============================================================================
