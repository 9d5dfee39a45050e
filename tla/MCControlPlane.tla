--------------------------- MODULE MCControlPlane ---------------------------
(* Small instances of ControlPlane for TLC. *)
EXTENDS ControlPlane, TLC

(* Jobs, connections and agents are interchangeable: the only choices among *)
(* jobs are by (priority, created_at), which orders them totally.           *)
Symmetry == Permutations(Job) \cup Permutations(Conn) \cup Permutations(Agent)
=============================================================================
