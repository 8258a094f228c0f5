-------------------------- MODULE MCMetadataStore --------------------------
(* MetadataStore with a few processes; the values of swarm ids do not      *)
(* matter, nor which process is which.                                     *)
EXTENDS MetadataStore, TLC

Symmetry == Permutations(Processes) \cup Permutations(SwarmIds)
=============================================================================
