--------------------------- MODULE MCLogPipeline ---------------------------
(* LogPipeline for TLC.  Symmetry is for instances without StreamEnds. *)
EXTENDS LogPipeline, TLC

Symmetry == Permutations(Viewer) \cup Permutations(Stream)
=============================================================================
