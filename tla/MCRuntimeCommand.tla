-------------------------- MODULE MCRuntimeCommand --------------------------
(* RuntimeCommand on two projects beside each other, with environments of  *)
(* each kind and requests that get every answer.  Commands are             *)
(* interchangeable, but the run checks liveness and so declares no symmetry.*)
EXTENDS RuntimeCommand

MCProjects == {<< "work", "a" >>, << "work", "b" >>}

MCDirectories == MCProjects \cup {<< >>, << "work" >>}

MCStrip(text) == IF text = " s " THEN "s" ELSE IF text = " " THEN Blank ELSE text

(* Nothing set, or as good as nothing; everything set, to a metadata       *)
(* directory that both projects share, also with blanks around the id and  *)
(* an IPv6 literal for the host; an id of blanks; and variables that are   *)
(* empty, no number, or point too far away.                                *)
Plain == [project |-> Unset, host |-> Blank, port |-> Unset,
          swarm_id |-> Unset, metadata |-> Blank]

Shared == [Plain EXCEPT !.host = "127.0.0.2", !.port = 9000, !.swarm_id = "s",
             !.metadata = [absolute |-> TRUE, path |-> << "work", ".ntm" >>]]

Padded  == [Shared EXCEPT !.host = "::1", !.swarm_id = " s "]
BlankId == [Plain EXCEPT !.swarm_id = " "]

MCEnvironments ==
    {Plain, Shared, Padded, BlankId,
     [Plain EXCEPT !.port = Blank],
     [Plain EXCEPT !.port = NotANumber],
     [Plain EXCEPT !.metadata = [absolute |-> FALSE, path |-> << "..", "..", "tmp" >>]]}

(* The projects matter to each other only where they share a directory, and*)
(* --agents is the same in every environment; what becomes of an id of     *)
(* blanks is seen without the control API.                                 *)
MCCommands ==
    {opts \in Options :
        /\ opts.env # Shared => opts.project = << "work", "a" >> /\ opts.agents = None
        /\ opts.env = BlankId => ~opts.control_api}

Ask(method, params) == Request("2.0", method, params)

MCRequests ==
    {Ask("runtime.shutdown", NoParams),
     Ask("runtime.shutdown", [timeout_seconds |-> "other"]),
     Ask("agent.get_detail", [agent_id |-> "agent-1"])}

InfiniteTimeout == {Ask("runtime.shutdown", [timeout_seconds |-> "infinite"])}
=============================================================================
