-------------------------- MODULE MCEventFanout --------------------------
(* EventFanout on small sets of connections and agents.  Connections are  *)
(* interchangeable in the runs that check safety only.                    *)
EXTENDS EventFanout, TLC

CONSTANTS a1, a2        \* the agents

Symmetry == Permutations(Clients)

(* Subscribe only, with different filters.                                *)
SubscribeOnly == {Subscribe({}), Subscribe({a1})}

(* Subscribe, drop the first subscription, whoever has it, or fail.       *)
ForeignUnsubscribe == {Subscribe({a1}), Unsubscribe(1), Undecodable}

(* Every kind of request; a page shorter than what may have been emitted. *)
AllKinds == ForeignUnsubscribe \cup {Detail(a1, 1)}
=============================================================================
