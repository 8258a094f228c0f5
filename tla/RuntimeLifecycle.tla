-------------------------- MODULE RuntimeLifecycle --------------------------
(***************************************************************************)
(* What the runtime promises about its lifecycle, whatever it is made of:  *)
(* RuntimeStatus of runtime/state.py as its clients may rely on it.  A     *)
(* runtime starts at most once, accepts at most one shutdown, never leaves *)
(* Stopped, and a shutdown that has begun ends in Stopped.                 *)
(***************************************************************************)
EXTENDS Naturals

VARIABLES status,       \* RuntimeState.status
          accepted      \* number of shutdown requests answered "accepted"

lifecycleVars == << status, accepted >>

(* Failed is a member of the enumeration that no code assigns.             *)
RuntimeStatus == {"Starting", "Running", "ShuttingDown", "Stopped", "Failed"}

Init == status = "Starting" /\ accepted = 0

BecomeRunning == /\ status = "Starting"
                 /\ status' = "Running"
                 /\ UNCHANGED accepted

(* The owner of the process asks for the shutdown.                         *)
BeginShutdown == /\ status = "Running"
                 /\ status' = "ShuttingDown"
                 /\ UNCHANGED accepted

(* A client of the control API asks for it and is told "accepted".         *)
AcceptShutdown == /\ status = "Running"
                  /\ status' = "ShuttingDown"
                  /\ accepted' = accepted + 1

(* A runtime may also stop without a shutdown request: a start that fails, *)
(* or a cancelled server.                                                  *)
Stop == /\ status # "Stopped"
        /\ status' = "Stopped"
        /\ UNCHANGED accepted

CompleteShutdown == status = "ShuttingDown" /\ Stop

Next == BecomeRunning \/ BeginShutdown \/ AcceptShutdown \/ Stop

Safety   == Init /\ [][Next]_lifecycleVars
Progress == WF_lifecycleVars(CompleteShutdown)

Spec == Safety /\ Progress
=============================================================================
