------------------------ MODULE MCAgentSupervisor ------------------------
(* AgentSupervisor on small sets of agents, which are interchangeable.    *)
EXTENDS AgentSupervisor, TLC

Symmetry == Permutations(Configured)
=============================================================================
