---------------------------- MODULE MCJobSystem ----------------------------
(* Small instances of JobSystem for TLC. *)
EXTENDS JobSystem
=============================================================================
