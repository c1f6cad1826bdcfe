---------------------------- MODULE MCAgentLink ----------------------------
(* Two hosts, which may use the same ID for different messages, and two    *)
(* uu-link processes.  The symmetry is used by the safety run only.        *)
EXTENDS AgentLink, TLC

Symmetry ==
  Permutations(Hosts) \cup Permutations(Bodies) \cup Permutations(Attempts)
=============================================================================
