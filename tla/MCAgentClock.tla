----------------------------- MODULE MCAgentClock -----------------------------
(* The root of the TLC runs of AgentClock: two keys, with a permutation symmetry. *)
EXTENDS AgentClock, TLC
CONSTANTS k1, k2
Symmetry == Permutations({k1, k2})
================================================================================
