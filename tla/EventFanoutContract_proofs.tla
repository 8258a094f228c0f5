--------------------- MODULE EventFanoutContract_proofs ---------------------
(***************************************************************************)
(* Event streaming implements SubscriptionContract, for every set of       *)
(* connections, agents and requests and every number of events: each step  *)
(* opens a subscription, drops some, lets an event happen, offers one to a *)
(* subscription, or is none of the contract's business.                    *)
(***************************************************************************)
EXTENDS EventFanoutDelivery_proofs

WasSent(s, t) == \E c \in Clients : \E i \in DOMAIN written[c] :
                     written[c][i] = Notification(t, s)

SentInv == \A s, t : Sent(s, t) = IF WasSent(s, t) THEN "once" ELSE "never"

(* No two frames are the same notification.                                *)
LEMMA OneOfAKind ==
    ASSUME NoRepeat, NEW c \in Clients, NEW d \in Clients,
           NEW i \in DOMAIN written[c], NEW j \in DOMAIN written[d],
           written[c][i].kind = "notify", written[c][i] = written[d][j]
    PROVE  c = d /\ i = j
    BY DEF NoRepeat

(* Nothing is sent twice, so the set of deliveries has one element or none. *)
LEMMA SentOnceOrNever == DeliveryInv => SentInv
  <1> SUFFICES ASSUME DeliveryInv, NEW s, NEW t
               PROVE  Sent(s, t) = IF WasSent(s, t) THEN "once" ELSE "never"
    BY DEF SentInv
  <1>1. \A p \in Deliveries(s, t) :
          /\ p[1] \in Clients /\ p[2] \in DOMAIN written[p[1]] /\ p = << p[1], p[2] >>
          /\ written[p[1]][p[2]] = Notification(t, s)
    BY DEF Deliveries, Notification
  <1>2. ASSUME NEW c \in Clients, NEW i \in DOMAIN written[c],
               written[c][i] = Notification(t, s)
        PROVE  << c, i >> \in Deliveries(s, t)
    BY <1>2 DEF Deliveries, Notification
  <1>3. ASSUME NEW p \in Deliveries(s, t), NEW q \in Deliveries(s, t) PROVE p = q
    <2>1. Notification(t, s).kind = "notify" /\ NoRepeat
      BY DEF Notification, DeliveryInv
    <2>2. /\ p[1] \in Clients /\ p[2] \in DOMAIN written[p[1]]
          /\ q[1] \in Clients /\ q[2] \in DOMAIN written[q[1]]
          /\ written[p[1]][p[2]].kind = "notify"
          /\ written[p[1]][p[2]] = written[q[1]][q[2]]
      BY <1>1, <2>1
    <2>3. p[1] = q[1] /\ p[2] = q[2]
      BY <2>1, <2>2, OneOfAKind
    <2> QED BY <1>1, <2>3
  <1>4. WasSent(s, t) <=> Deliveries(s, t) # {}
    <2>1. ASSUME WasSent(s, t) PROVE Deliveries(s, t) # {}
      <3>1. PICK c \in Clients : \E i \in DOMAIN written[c] : written[c][i] = Notification(t, s)
        BY <2>1 DEF WasSent
      <3>2. PICK i \in DOMAIN written[c] : written[c][i] = Notification(t, s)
        BY <3>1
      <3> QED BY <1>2, <3>2
    <2>2. ASSUME NEW p \in Deliveries(s, t) PROVE WasSent(s, t)
      BY <1>1, Zenon DEF WasSent
    <2> QED BY <2>1, <2>2
  <1> HIDE DEF Deliveries, WasSent
  <1> QED BY <1>3, <1>4 DEF Sent

LEMMA SentAfter == DeliveryInv' => SentInv'
  BY SentOnceOrNever, PTL

(* A table that keeps its entries and gains one.                           *)
LEMMA TableGrows ==
    ASSUME NEW n \in Nat, NEW f, NEW g, NEW x,
           f = [s \in 1 .. n |-> f[s]], g = [s \in 1 .. n + 1 |-> g[s]],
           \A s \in 1 .. n : g[s] = f[s], g[n + 1] = x
    PROVE  g = Append(f, x)
  <1> DEFINE S == {f[s] : s \in 1 .. n} \cup {x}
  <1>1. f \in [1 .. n -> S] /\ x \in S
    OBVIOUS
  <1> HIDE DEF S
  <1>2. f \in Seq(S) /\ Len(f) = n
    BY <1>1, SeqDef
  <1> DEFINE h == Append(f, x)
  <1>3. /\ h \in Seq(S) /\ Len(h) = n + 1
        /\ \A s \in 1 .. n : h[s] = f[s]
        /\ h[n + 1] = x
    BY <1>1, <1>2, AppendProperties
  <1> HIDE DEF h
  <1>4. h = [s \in 1 .. n + 1 |-> h[s]]
    BY <1>3
  <1>5. ASSUME NEW s \in 1 .. n + 1 PROVE g[s] = h[s]
    <2>1. s \in 1 .. n \/ s = n + 1
      OBVIOUS
    <2> QED BY <1>3, <2>1
  <1>6. g = h
    BY <1>4, <1>5
  <1> QED BY <1>6 DEF h

-----------------------------------------------------------------------------
LEMMA NothingNewIsSent ==
    ASSUME FramesKept,
           \A c \in Clients : \A i \in DOMAIN written'[c] :
             written'[c][i].kind = "notify" => i \in DOMAIN written[c]
    PROVE  \A s, t : WasSent(s, t)' <=> WasSent(s, t)
  <1> SUFFICES ASSUME NEW s, NEW t PROVE WasSent(s, t)' <=> WasSent(s, t)
    OBVIOUS
  <1>1. Notification(t, s).kind = "notify" /\ Notification(t, s)' = Notification(t, s)
    BY DEF Notification
  <1> QED BY <1>1 DEF WasSent, FramesKept

(* Whoever was sent an event had its turn in the task of the event.        *)
LEMMA SentInTurn ==
    ASSUME DeliveryInv, NEW s, NEW t, WasSent(s, t)
    PROVE  /\ t \in DOMAIN tasks /\ s \in tasks[t].audience \ tasks[t].pending
           /\ s < nextSub
  <1> PICK c \in Clients : \E i \in DOMAIN written[c] : written[c][i] = Notification(t, s)
    BY DEF WasSent
  <1>1. PICK i \in DOMAIN written[c] : written[c][i] = Notification(t, s)
    OBVIOUS
  <1>2. NotifyInv(Notification(t, s))
    BY <1>1 DEF DeliveryInv
  <1>3. t \in DOMAIN tasks /\ s \in tasks[t].audience \ tasks[t].pending
    BY <1>2 DEF NotifyInv, Notification
  <1> QED BY <1>3 DEF DeliveryInv, TaskInv

SameEvents == /\ DOMAIN tasks' = DOMAIN tasks
              /\ \A t \in DOMAIN tasks : tasks'[t].agent = tasks[t].agent
SameSent   == \A s, t : WasSent(s, t)' <=> WasSent(s, t)

LEMMA StepCloses ==
    ASSUME DeliveryInv, DeliveryInv', SameEvents, SameSent, RegistryKept,
           nextSub' = nextSub
    PROVE  Subscription!Next
  <1> PICK S : S = DOMAIN subscriptions \ DOMAIN subscriptions'
    OBVIOUS
  <1>1. /\ DOMAIN subscriptions \subseteq 1 .. nextSub - 1
        /\ DOMAIN subscriptions' \subseteq 1 .. nextSub - 1
        /\ nextSub \in Nat
    BY DEF DeliveryInv, TypesInv, RegistryTypes
  <1>2. \A s \in DOMAIN subscriptions' :
          s \in DOMAIN subscriptions /\ subscriptions'[s] = subscriptions[s]
    BY <1>1 DEF RegistryKept
  <1>3. \A s, t : Sent(s, t)' = Sent(s, t)
    BY SentOnceOrNever, SentAfter DEF SentInv, SameSent
  <1>4. /\ S \subseteq 1 .. nextSub - 1
        /\ \A s \in S : Phase(s) = "active"
        /\ \A s \in 1 .. nextSub - 1 :
             /\ Phase(s)' = IF s \in S THEN "ended" ELSE Phase(s)
             /\ Wanted(s)' = IF s \in S THEN {} ELSE Wanted(s)
    BY <1>1, <1>2 DEF Phase, Wanted
  <1>5. Subscription!Close(S)
    <2> HIDE DEF Phase, Wanted, Sent
    <2> QED BY <1>3, <1>4 DEF Subscription!Close, SameEvents
  <1> QED BY <1>4, <1>5 DEF Subscription!Next

LEMMA StepOpens ==
    ASSUME DeliveryInv, DeliveryInv', SameEvents, SameSent, RegistryKept,
           nextSub' # nextSub
    PROVE  Subscription!Next
  <1> PICK agents : agents = subscriptions'[nextSub]
    OBVIOUS
  <1> PICK n : n = nextSub - 1
    OBVIOUS
  <1>1. /\ n \in Nat /\ nextSub = n + 1 /\ nextSub' = n + 2 /\ nextSub' - 1 = n + 1
        /\ DOMAIN subscriptions \subseteq 1 .. n
        /\ DOMAIN subscriptions' = DOMAIN subscriptions \cup {n + 1}
    <2>1. nextSub \in Nat \ {0} /\ DOMAIN subscriptions \subseteq 1 .. nextSub - 1
      BY DEF DeliveryInv, TypesInv, RegistryTypes
    <2>2. /\ nextSub' = nextSub + 1
          /\ DOMAIN subscriptions' = DOMAIN subscriptions \cup {nextSub}
      BY DEF RegistryKept
    <2> QED BY <2>1, <2>2
  <1>2. agents \in SUBSET Agents
    BY <1>1 DEF DeliveryInv, TypesInv, RegistryTypes
  <1>3. /\ \A s \in 1 .. n : Phase(s)' = Phase(s) /\ Wanted(s)' = Wanted(s)
        /\ Phase(n + 1)' = "active" /\ Wanted(n + 1)' = agents
    BY <1>1 DEF Phase, Wanted, RegistryKept
  <1>4. /\ \A s, t : Sent(s, t)' = Sent(s, t)
        /\ \A t : Sent(n + 1, t) = "never"
    BY <1>1, SentOnceOrNever, SentAfter, SentInTurn DEF SentInv, SameSent
  <1> HIDE DEF Phase, Wanted, Sent
  <1>5. [s \in 1 .. n + 1 |-> Phase(s)'] = Append([s \in 1 .. n |-> Phase(s)], "active")
    BY <1>1, <1>3, TableGrows
  <1>6. [s \in 1 .. n + 1 |-> Wanted(s)'] = Append([s \in 1 .. n |-> Wanted(s)], agents)
    BY <1>1, <1>3, TableGrows
  <1>7. [s \in 1 .. n + 1 |-> [t \in DOMAIN tasks |-> Sent(s, t)]]
          = Append([s \in 1 .. n |-> [t \in DOMAIN tasks |-> Sent(s, t)]],
                   [t \in DOMAIN tasks |-> "never"])
    BY <1>1, <1>4, TableGrows
  <1>8. Subscription!Open(agents)
    BY <1>1, <1>4, <1>5, <1>6, <1>7 DEF Subscription!Open, SameEvents
  <1> QED BY <1>2, <1>8 DEF Subscription!Next

LEMMA EmitHappens ==
    ASSUME DeliveryInv, DeliveryInv', NEW a \in Agents, Emit(a)
    PROVE  Subscription!Next
  <1> PICK n : n = Len(tasks)
    OBVIOUS
  <1>1. /\ n \in Nat /\ DOMAIN tasks = 1 .. n /\ DOMAIN tasks' = 1 .. n + 1
        /\ \A t \in 1 .. n : tasks'[t] = tasks[t]
        /\ tasks'[n + 1].agent = a
        /\ UNCHANGED << written, subscriptions, nextSub >>
    <2>1. tasks \in Seq(Task)
      BY DEF DeliveryInv, TypesInv, TurnInv
    <2> QED BY <2>1 DEF Emit, registryVars, connectionVars
  <1>2. /\ \A s, t : Sent(s, t)' = Sent(s, t)
        /\ \A s : Sent(s, n + 1) = "never"
    <2>1. \A s, t : Sent(s, t)' = Sent(s, t)
      BY <1>1 DEF Sent, Deliveries
    <2>2. n + 1 \notin DOMAIN tasks
      BY <1>1
    <2> QED BY <2>1, <2>2, SentOnceOrNever, SentInTurn DEF SentInv
  <1>3. \A s : Phase(s)' = Phase(s) /\ Wanted(s)' = Wanted(s)
    BY <1>1 DEF Phase, Wanted
  <1> HIDE DEF Phase, Wanted, Sent
  <1>4. [t \in 1 .. n + 1 |-> tasks'[t].agent] = Append([t \in 1 .. n |-> tasks[t].agent], a)
    BY <1>1, TableGrows
  <1>5. \A s : [t \in 1 .. n + 1 |-> Sent(s, t)]
                 = Append([t \in 1 .. n |-> Sent(s, t)], "never")
    <2> TAKE s
    <2> QED BY <1>1, <1>2, TableGrows
  <1>6. Subscription!Happen(a)
    BY <1>1, <1>2, <1>3, <1>4, <1>5 DEF Subscription!Happen
  <1> QED BY <1>6 DEF Subscription!Next

LEMMA TurnOffers ==
    ASSUME DeliveryInv, DeliveryInv', NEW t \in DOMAIN tasks, NEW s \in tasks[t].pending,
           SameEvents, UNCHANGED registryVars, s \in DOMAIN subClients,
           Appends(subClients[s], Notification(t, s))
    PROVE  Subscription!Next
  <1> DEFINE f == Notification(t, s)
  <1>1. /\ f \in Frame /\ f.kind = "notify" /\ subClients[s] \in Clients
        /\ s \in DOMAIN subscriptions /\ s \in 1 .. nextSub - 1 /\ nextSub' = nextSub
        /\ ConnectionTypes
    BY NotificationIsFrame, RegistryBounds
       DEF DeliveryInv, TypesInv, Notification, RegistryTypes, registryVars
  <1>2. \A r, u : Notification(u, r) = f <=> r = s /\ u = t
    BY DEF Notification
  <1>3. /\ FramesKept
        /\ \A d \in Clients : \A i \in DOMAIN written'[d] \ DOMAIN written[d] :
             written'[d][i] = f
        /\ \E i \in DOMAIN written'[subClients[s]] : written'[subClients[s]][i] = f
    <2> HIDE DEF f
    <2> QED BY <1>1, FrameAppended DEF f
  <1>4. WasSent(s, t)' /\ ~WasSent(s, t)
    <2>1. WasSent(s, t)'
      BY <1>1, <1>3 DEF WasSent, Notification
    <2> QED BY <2>1, SentInTurn
  <1>5. ASSUME NEW r, NEW u, r # s \/ u # t PROVE WasSent(r, u)' <=> WasSent(r, u)
    BY <1>2, <1>3, <1>5 DEF WasSent, FramesKept, Notification
  <1>6. /\ Sent(s, t) = "never" /\ Sent(s, t)' = "once"
        /\ \A r, u : r # s \/ u # t => Sent(r, u)' = Sent(r, u)
    BY <1>4, <1>5, SentOnceOrNever, SentAfter DEF SentInv
  <1>7. \A r : Phase(r)' = Phase(r) /\ Wanted(r)' = Wanted(r)
    BY DEF Phase, Wanted, registryVars
  <1>8. Phase(s) = "active" /\ (Wanted(s) = {} \/ tasks[t].agent \in Wanted(s))
    BY <1>1 DEF Phase, Wanted, DeliveryInv, TaskInv, Matches
  <1> HIDE DEF f, Phase, Wanted, Sent
  <1> DEFINE offered == [r \in 1 .. nextSub - 1 |-> [u \in DOMAIN tasks |-> Sent(r, u)]]
  <1>9. offered' = [offered EXCEPT ![s][t] = "once"]
    <2> PICK T : T = DOMAIN tasks
      OBVIOUS
    <2>1. \A r \in 1 .. nextSub - 1 : r # s =>
            [u \in T |-> Sent(r, u)'] = [u \in T |-> Sent(r, u)]
      BY <1>6
    <2>2. [u \in T |-> Sent(s, u)'] = [[u \in T |-> Sent(s, u)] EXCEPT ![t] = "once"]
      <3>1. \A u \in T : Sent(s, u)' = IF u = t THEN "once" ELSE Sent(s, u)
        BY <1>6, Zenon
      <3> QED BY <3>1
    <2>3. [r \in 1 .. nextSub - 1 |-> [u \in T |-> Sent(r, u)']]
            = [[r \in 1 .. nextSub - 1 |-> [u \in T |-> Sent(r, u)]]
                 EXCEPT ![s] = [[u \in T |-> Sent(s, u)] EXCEPT ![t] = "once"]]
      <3> DEFINE row(r) == [u \in T |-> Sent(r, u)]
                 rowAfter(r) == [u \in T |-> Sent(r, u)']
      <3>1. \A r \in 1 .. nextSub - 1 :
              rowAfter(r) = IF r = s THEN [row(s) EXCEPT ![t] = "once"] ELSE row(r)
        BY <2>1, <2>2
      <3> HIDE DEF row, rowAfter
      <3>2. [r \in 1 .. nextSub - 1 |-> rowAfter(r)]
              = [[r \in 1 .. nextSub - 1 |-> row(r)]
                   EXCEPT ![s] = [row(s) EXCEPT ![t] = "once"]]
        BY <3>1
      <3> QED BY <3>2 DEF row, rowAfter
    <2> QED BY <1>1, <2>3 DEF SameEvents
  <1>10. /\ [r \in 1 .. nextSub' - 1 |-> Phase(r)'] = [r \in 1 .. nextSub - 1 |-> Phase(r)]
         /\ [r \in 1 .. nextSub' - 1 |-> Wanted(r)'] = [r \in 1 .. nextSub - 1 |-> Wanted(r)]
         /\ [u \in DOMAIN tasks' |-> tasks'[u].agent] = [u \in DOMAIN tasks |-> tasks[u].agent]
    BY <1>1, <1>7 DEF SameEvents
  <1>11. Subscription!Offer(s, t)
    BY <1>1, <1>6, <1>8, <1>9, <1>10 DEF Subscription!Offer
  <1> QED BY <1>1, <1>11 DEF Subscription!Next

LEMMA NextIsContractStep ==
    ASSUME DeliveryInv, [Next]_fanoutVars
    PROVE  Subscription!Next
  <1>1. TypesInv /\ DeliveryInv' /\ ConnectionTypes
    BY NextKeepsDelivery DEF DeliveryInv, TypesInv
  <1>2. CASE TasksKept /\ RegistryKept /\ Responds
    <2>1. SameEvents /\ SameSent
      BY <1>1, <1>2, ResponseAddsNoNotification, NothingNewIsSent
         DEF TasksKept, SameEvents, SameSent
    <2> QED BY <1>1, <1>2, <2>1, StepCloses, StepOpens
  <1>3. ASSUME SameEvents, UNCHANGED << written, registryVars >>
        PROVE  Subscription!Next
    <2>1. SameSent
      BY <1>3 DEF SameSent, WasSent, Notification
    <2>2. RegistryKept /\ nextSub' = nextSub
      BY <1>1, <1>3, RegistryStays DEF registryVars
    <2> QED BY <1>1, <1>3, <2>1, <2>2, StepCloses
  <1>4. ASSUME NEW t \in DOMAIN tasks, StartPublish(t) PROVE Subscription!Next
    <2>1. SameEvents /\ UNCHANGED << written, registryVars >>
      BY <1>1, <1>4, RegistryBounds DEF StartPublish, SameEvents, connectionVars, Task
    <2> QED BY <1>3, <2>1
  <1>5. ASSUME NEW t \in DOMAIN tasks, TakesTurn(t) PROVE Subscription!Next
    <2>1. PICK s \in tasks[t].pending, pc \in TaskStates \ {"queued", "done"} :
            /\ OnlyTask(t, tasks[t].audience, tasks[t].pending \ {s}, pc)
            /\ \/ s \notin DOMAIN subClients /\ UNCHANGED written
               \/ s \in DOMAIN subClients /\ Appends(subClients[s], Notification(t, s))
      BY <1>5 DEF TakesTurn
    <2>2. SameEvents /\ UNCHANGED registryVars
      BY <2>1 DEF OnlyTask, SameEvents
    <2> QED BY <1>1, <1>3, <2>1, <2>2, TurnOffers
  <1> QED BY <1>1, <1>2, <1>4, <1>5, StepIs, EmitHappens

(* The registry, the routing maps, the connections and the publish tasks   *)
(* together keep what events.subscribe promises: an event is offered to a  *)
(* subscription at most once, only while it is active, and only if it is   *)
(* about an agent that was asked for; an ended subscription never returns. *)
THEOREM FanoutKeepsContract == Spec => KeepsSubscriptionContract
  <1>1. Init => Subscription!Init
    <2> SUFFICES ASSUME Init PROVE Subscription!Init
      OBVIOUS
    <2>1. nextSub = 1 /\ tasks = << >>
      BY DEF Init
    <2>2. 1 .. nextSub - 1 = {} /\ DOMAIN tasks = {}
      BY <2>1
    <2> QED BY <2>2 DEF Subscription!Init
  <1>2. DeliveryInv /\ [Next]_fanoutVars => Subscription!Next
    BY NextIsContractStep
  <1> QED BY <1>1, <1>2, InitEstablishesDelivery, NextKeepsDelivery, PTL
          DEF Spec, KeepsSubscriptionContract, Subscription!Spec
=============================================================================
