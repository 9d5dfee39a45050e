--------------------------- MODULE MCAgentRuntime ---------------------------
(* AgentRuntime with the symmetry of its agents, jobs and containers. *)
EXTENDS AgentRuntime, TLC

Symmetry == Permutations(Agent) \cup Permutations(Job) \cup Permutations(Container)
=============================================================================
