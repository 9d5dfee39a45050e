---------------------------- MODULE MCJobRecords ----------------------------
(* A small instance of JobRecords for TLC, with the symmetry of its parts. *)
EXTENDS JobRecords, TLC

Symmetry == Permutations(Job) \cup Permutations(Key)
=============================================================================
