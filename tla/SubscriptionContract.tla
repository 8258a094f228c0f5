------------------------ MODULE SubscriptionContract ------------------------
(***************************************************************************)
(* What events.subscribe promises, whatever carries the notifications      *)
(* (specs/001-swarm-runtime-orchestrator/contracts/runtime-api.md, events):*)
(* ids are new, a subscription that has ended never returns, and an event  *)
(* is offered to a subscription at most once, only while it is active and  *)
(* only if it is about an agent that was asked for.  Subscriptions and     *)
(* events are numbered in the order in which they come.                    *)
(***************************************************************************)
EXTENDS Naturals, Sequences

CONSTANT Agents

VARIABLES phase,        \* of each subscription
          wanted,       \* the agents of an active subscription, {} for all
          events,       \* the agents of the events so far
          offers        \* offers[s][e]: whether event e was offered to s

contractVars == << phase, wanted, events, offers >>

Init == phase = << >> /\ wanted = << >> /\ events = << >> /\ offers = << >>

Open(agents) ==
    /\ phase' = Append(phase, "active")
    /\ wanted' = Append(wanted, agents)
    /\ offers' = Append(offers, [e \in DOMAIN events |-> "never"])
    /\ UNCHANGED events

(* A subscription is dropped, or all those of a connection are.            *)
Close(S) ==
    /\ \A s \in S : phase[s] = "active"
    /\ phase' = [s \in DOMAIN phase |-> IF s \in S THEN "ended" ELSE phase[s]]
    /\ wanted' = [s \in DOMAIN phase |-> IF s \in S THEN {} ELSE wanted[s]]
    /\ UNCHANGED << events, offers >>

Happen(a) ==
    /\ events' = Append(events, a)
    /\ offers' = [s \in DOMAIN phase |-> Append(offers[s], "never")]
    /\ UNCHANGED << phase, wanted >>

Offer(s, e) ==
    /\ phase[s] = "active" /\ offers[s][e] = "never"
    /\ wanted[s] = {} \/ events[e] \in wanted[s]
    /\ offers' = [offers EXCEPT ![s][e] = "once"]
    /\ UNCHANGED << phase, wanted, events >>

Next == \/ \E agents \in SUBSET Agents : Open(agents)
        \/ \E S \in SUBSET DOMAIN phase : Close(S)
        \/ \E a \in Agents : Happen(a)
        \/ \E s \in DOMAIN phase, e \in DOMAIN events : Offer(s, e)

Spec == Init /\ [][Next]_contractVars
=============================================================================
