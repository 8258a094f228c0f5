------------------------- MODULE MCRuntimeDaemon -------------------------
(* RuntimeDaemon on small sets of agents and clients, without symmetry,   *)
(* which would be unsound for the liveness properties.                    *)
EXTENDS RuntimeDaemon
=============================================================================
