---------------------------- MODULE AtomicStore ----------------------------
(***************************************************************************)
(* What the atomic writes of the metadata store promise: a named file is   *)
(* absent or holds one whole value that some writer gave it, and is only   *)
(* ever replaced as a whole.  A power failure may take files back, each on *)
(* its own, to something they held since the last one.                     *)
(***************************************************************************)
EXTENDS Naturals

CONSTANTS Names,        \* the files
          Values,         \* Values[n]: what may be written to file n
          Absent

VARIABLES files,        \* what a reader finds
          versions      \* what a power failure may leave

storeVars == << files, versions >>

Init == /\ files = [n \in Names |-> Absent]
        /\ versions = [n \in Names |-> {Absent}]

Write(n) == \E v \in Values[n] :
    /\ files' = [files EXCEPT ![n] = v]
    /\ versions' = [versions EXCEPT ![n] = @ \cup {v}]

PowerFails ==
    /\ \A n \in Names : files'[n] \in versions[n]
    /\ files' = [n \in Names |-> files'[n]]
    /\ versions' = [n \in Names |-> {files'[n]}]

Next == PowerFails \/ \E n \in Names : Write(n)

Spec == Init /\ [][Next]_storeVars
=============================================================================
