----------------------- MODULE EventFanoutOrder_proofs -----------------------
(***************************************************************************)
(* What the queues of waiting senders promise, for every set of            *)
(* connections, agents and requests and every number of events: no         *)
(* suspended coroutine is forgotten, and as long as nobody leaves, a       *)
(* subscription sees the events of an agent in order.                      *)
(***************************************************************************)
EXTENDS EventFanoutDelivery_proofs

InQueue(c, w) == \E i \in DOMAIN drain[c] : drain[c][i] = w

(* Sender v waits behind sender w for the buffer of connection c.          *)
Behind(c, w, v) == \E i, j \in DOMAIN drain[c] :
                       i < j /\ drain[c][i] = w /\ drain[c][j] = v

-----------------------------------------------------------------------------
(* Queues *)

LEMMA QueueGrows ==
    ASSUME drain \in [Clients -> Seq(Nat)], NEW c \in Clients, NEW w \in Nat,
           drain' = [drain EXCEPT ![c] = Append(@, w)]
    PROVE  /\ \A d \in Clients : \A x :
                InQueue(d, x)' <=> InQueue(d, x) \/ (d = c /\ x = w)
           /\ \A d \in Clients : \A x, y : Behind(d, x, y) => Behind(d, x, y)'
           /\ \A x : InQueue(c, x) => Behind(c, x, w)'
  <1>1. /\ \A d \in Clients \ {c} : drain'[d] = drain[d]
        /\ drain'[c] = Append(drain[c], w) /\ drain[c] \in Seq(Nat)
    OBVIOUS
  <1>2. /\ Len(drain[c]) \in Nat /\ DOMAIN drain[c] = 1 .. Len(drain[c])
        /\ DOMAIN drain'[c] = 1 .. Len(drain[c]) + 1
        /\ drain'[c][Len(drain[c]) + 1] = w
        /\ \A i \in 1 .. Len(drain[c]) : drain'[c][i] = drain[c][i]
    BY <1>1
  <1> PICK n : n = Len(drain[c]) + 1
    OBVIOUS
  <1>3. /\ n \in DOMAIN drain'[c] /\ drain'[c][n] = w
        /\ \A i \in DOMAIN drain[c] : /\ i \in DOMAIN drain'[c] /\ i < n
                                      /\ drain'[c][i] = drain[c][i]
        /\ \A i \in DOMAIN drain'[c] : i \in DOMAIN drain[c] \/ i = n
    BY <1>2
  <1>4. ASSUME NEW x PROVE InQueue(c, x)' <=> InQueue(c, x) \/ x = w
    BY <1>3, Zenon DEF InQueue
  <1>5. ASSUME NEW x, NEW y, Behind(c, x, y) PROVE Behind(c, x, y)'
    BY <1>3, <1>5, Zenon DEF Behind
  <1>6. ASSUME NEW x, InQueue(c, x) PROVE Behind(c, x, w)'
    BY <1>3, <1>6, Zenon DEF Behind, InQueue
  <1>7. ASSUME NEW d \in Clients \ {c}, NEW x, NEW y
        PROVE  (InQueue(d, x)' <=> InQueue(d, x)) /\ (Behind(d, x, y)' <=> Behind(d, x, y))
    <2>1. drain'[d] = drain[d]
      BY <1>1
    <2> QED BY <2>1, Zenon DEF InQueue, Behind
  <1> QED BY <1>4, <1>5, <1>6, <1>7, Zenon

(* The head of a queue leaves it, and is then in none unless it is a       *)
(* handler: a handler has a place in the queue of its own connection only. *)
LEMMA HeadLeaves ==
    ASSUME drain \in [Clients -> Seq(Nat)], Alone, NEW c \in Clients,
           drain[c] # << >>, drain' = [drain EXCEPT ![c] = Tail(@)],
           NEW w, w = Head(drain[c])
    PROVE  /\ w \in Nat /\ InQueue(c, w)
           /\ \A d \in Clients : \A x : InQueue(d, x)' => InQueue(d, x)
           /\ \A d \in Clients : \A x : InQueue(d, x) => InQueue(d, x)' \/ (d = c /\ x = w)
           /\ \A d \in Clients : \A x, y :
                Behind(d, x, y) => Behind(d, x, y)' \/ (d = c /\ x = w)
           /\ ~InQueue(c, w)'
           /\ w # Handler => \A d \in Clients : ~InQueue(d, w)'
  <1>1. /\ \A d \in Clients \ {c} : drain'[d] = drain[d]
        /\ drain'[c] = Tail(drain[c]) /\ drain[c] \in Seq(Nat)
    OBVIOUS
  <1>2. /\ Len(drain[c]) \in Nat /\ DOMAIN drain[c] = 1 .. Len(drain[c])
        /\ DOMAIN drain'[c] = 1 .. Len(drain[c]) - 1
        /\ \A i \in 1 .. Len(drain[c]) - 1 : drain'[c][i] = drain[c][i + 1]
        /\ w \in Nat /\ 1 \in DOMAIN drain[c] /\ drain[c][1] = w
    BY <1>1
  <1>3. /\ \A i \in DOMAIN drain'[c] : /\ i + 1 \in DOMAIN drain[c] /\ i + 1 # 1
                                       /\ drain'[c][i] = drain[c][i + 1]
        /\ \A i \in DOMAIN drain[c] \ {1} : /\ i - 1 \in DOMAIN drain'[c]
                                            /\ drain'[c][i - 1] = drain[c][i]
        /\ \A i, j \in DOMAIN drain[c] : i < j => j # 1 /\ (i # 1 => i - 1 < j - 1)
    BY <1>2
  <1>4. ASSUME NEW x, InQueue(c, x)' PROVE InQueue(c, x)
    BY <1>3, <1>4, Zenon DEF InQueue
  <1>5. ASSUME NEW x, InQueue(c, x), x # w PROVE InQueue(c, x)'
    <2>1. PICK i \in DOMAIN drain[c] : drain[c][i] = x
      BY <1>5, Zenon DEF InQueue
    <2>2. i # 1
      BY <1>2, <1>5, <2>1, Zenon
    <2> QED BY <1>3, <2>1, <2>2, Zenon DEF InQueue
  <1>6. ASSUME NEW x, NEW y, Behind(c, x, y), x # w PROVE Behind(c, x, y)'
    <2>1. PICK i \in DOMAIN drain[c] :
            \E j \in DOMAIN drain[c] : i < j /\ drain[c][i] = x /\ drain[c][j] = y
      BY <1>6, Zenon DEF Behind
    <2>2. PICK j \in DOMAIN drain[c] : i < j /\ drain[c][i] = x /\ drain[c][j] = y
      BY <2>1, Zenon
    <2>3. i # 1
      BY <1>2, <1>6, <2>2, Zenon
    <2>4. /\ i - 1 \in DOMAIN drain'[c] /\ j - 1 \in DOMAIN drain'[c] /\ i - 1 < j - 1
          /\ drain'[c][i - 1] = x /\ drain'[c][j - 1] = y
      BY <1>3, <2>2, <2>3, Zenon
    <2> QED BY <2>4, Zenon DEF Behind
  <1>7. ASSUME NEW d \in Clients, d = c \/ w # Handler, InQueue(d, w)' PROVE FALSE
    <2>1. CASE d = c
      <3>1. PICK i \in DOMAIN drain'[c] : drain'[c][i] = w
        BY <1>7, <2>1, Zenon DEF InQueue
      <3>2. i + 1 \in DOMAIN drain[c] /\ drain[c][i + 1] = w /\ i + 1 # 1
        BY <1>3, <3>1, Zenon
      <3>3. 1 \in DOMAIN drain[c] /\ drain[c][1] = w
        BY <1>2, Zenon
      <3> QED BY <3>2, <3>3, AloneIsOne
    <2>2. CASE d # c
      <3>1. PICK i \in DOMAIN drain[d] : drain[d][i] = w
        BY <1>1, <1>7, <2>2, Zenon DEF InQueue
      <3> QED BY <1>2, <1>7, <2>2, <3>1, AloneIsOne
    <2> QED BY <2>1, <2>2
  <1>8. ASSUME NEW d \in Clients \ {c}, NEW x, NEW y
        PROVE  (InQueue(d, x)' <=> InQueue(d, x)) /\ (Behind(d, x, y)' <=> Behind(d, x, y))
    <2>1. drain'[d] = drain[d]
      BY <1>1
    <2> QED BY <2>1, Zenon DEF InQueue, Behind
  <1>9. w \in Nat /\ InQueue(c, w)
    BY <1>2, Zenon DEF InQueue
  <1> QED BY <1>4, <1>5, <1>6, <1>7, <1>8, <1>9, Zenon

-----------------------------------------------------------------------------
(* Nobody is forgotten *)

Ended == {"closing", "closed"}

(* A publish task that has begun and not ended holds the loop, is in line  *)
(* for a write buffer, or waits for the end of a connection that ends.     *)
TaskHeld(t) ==
    /\ tasks[t].pc = "running" => current = t
    /\ tasks[t].pc = "drain" => \E c \in Clients : InQueue(c, t)
    /\ tasks[t].pc = "ensure_open" =>
         \E c \in Clients : tasks[t].at = {c} /\ conn[c] \in Ended

(* So does a handler; it exists from the first moment of its connection,   *)
(* and does not end before its connection begins to.                       *)
HandlerHeld(c) ==
    /\ handler[c] = "none" <=> conn[c] = "absent"
    /\ handler[c] = "raising" <=> current = c
    /\ handler[c] = "drain" => InQueue(c, Handler)
    /\ handler[c] \in {"ensure_open", "done"} => conn[c] \in Ended

(* A server that stops waits for no connection that is still open.         *)
ServerHeld == server # "up" => \A c \in Clients : conn[c] # "open"

NobodyForgotten ==
    /\ \A t \in DOMAIN tasks : TaskHeld(t)
    /\ \A c \in Clients : HandlerHeld(c)
    /\ ServerHeld

ConnectionsGoOn ==
    \A c \in Clients : /\ conn[c] \in Ended => conn'[c] \in Ended
                       /\ conn'[c] = "absent" => conn[c] = "absent"

LEMMA NextConnectionsGoOn ==
    ASSUME TypesInv, [Next]_fanoutVars
    PROVE  ConnectionsGoOn
  <1>1. conn \in [Clients -> {"absent", "open", "closing", "closed"}]
    BY DEF TypesInv, ConnectionTypes
  <1>2. CASE UNCHANGED conn
    BY <1>2 DEF ConnectionsGoOn
  <1>3. ASSUME NEW c \in Clients, NEW x \in Ended, conn[c] # "absent",
               conn' = [conn EXCEPT ![c] = x]
        PROVE  ConnectionsGoOn
    BY <1>1, <1>3 DEF ConnectionsGoOn, Ended
  <1>4. ASSUME NEW c \in Clients, Connect(c) PROVE ConnectionsGoOn
    BY <1>1, <1>4 DEF Connect, ConnectionsGoOn, Ended
  <1>5. ASSUME NEW c \in Clients, CloseConnection(c) \/ ConnectionClosed(c) \/ ConnectionLost(c)
        PROVE  ConnectionsGoOn
    BY <1>3, <1>5 DEF CloseConnection, ConnectionClosed, ConnectionLost, Ended
  <1>6. ASSUME NEW c \in Clients, HandlerEnds(c) PROVE ConnectionsGoOn
    BY <1>1, <1>6 DEF HandlerEnds, ConnectionsGoOn, Ended
  <1>7. CASE StopBegins
    BY <1>1, <1>7 DEF StopBegins, ConnectionsGoOn, Ended
  <1>8. \/ UNCHANGED conn \/ StopBegins
        \/ \E c \in Clients : \/ Connect(c) \/ CloseConnection(c) \/ ConnectionClosed(c)
                              \/ ConnectionLost(c) \/ HandlerEnds(c)
    BY DEF Next, Resume, SendRequest, HandleRequest, HandlerRaises, DrainReturns,
       DrainRaises, Emit, Publishing, StartPublish, PublishSkips, PublishSends,
       PublishWrites, PublishAwaitsClose, PublishRaises, PublishEnds, PublishAwaitRaises,
       StopEnds, fanoutVars, connectionVars
  <1> QED BY <1>2, <1>4, <1>5, <1>6, <1>7, <1>8

LEMMA OtherTaskHeld ==
    ASSUME ConnectionsGoOn, NEW u \in DOMAIN tasks, TaskHeld(u), tasks'[u] = tasks[u],
           current = u => current' = u,
           \A c \in Clients : InQueue(c, u) => InQueue(c, u)'
    PROVE  TaskHeld(u)'
  <1>1. tasks[u].pc = "running" => current' = u
    BY DEF TaskHeld
  <1>2. tasks[u].pc = "drain" => \E c \in Clients : InQueue(c, u)'
    BY Zenon DEF TaskHeld
  <1>3. tasks[u].pc = "ensure_open" =>
          \E c \in Clients : tasks[u].at = {c} /\ conn'[c] \in Ended
    BY DEF TaskHeld, ConnectionsGoOn
  <1> QED BY <1>1, <1>2, <1>3 DEF TaskHeld

(* Nobody leaves a queue in the step.                                      *)
QueuesGoOn == \A c \in Clients : \A w : InQueue(c, w) => InQueue(c, w)'

LEMMA QueuesStay == UNCHANGED drain => QueuesGoOn
    BY DEF QueuesGoOn, InQueue

LEMMA PublishingHolds ==
    ASSUME TypesInv, ConnectionsGoOn, \A u \in DOMAIN tasks : TaskHeld(u),
           NEW t \in DOMAIN tasks, Publishing(t)
    PROVE  (\A u \in DOMAIN tasks' : TaskHeld(u)') /\ QueuesGoOn
  <1>1. /\ tasks[t] \in Task /\ tasks \in Seq(Task) /\ DOMAIN tasks \subseteq Nat \ {0}
        /\ t # Nobody /\ t \in Nat /\ drain \in [Clients -> Seq(Nat)]
        /\ current = t => tasks[t].pc = "running"
        /\ \A s \in DOMAIN subClients : subClients[s] \in Clients
    BY RegistryBounds DEF TypesInv, TurnInv, Nobody
  <1>2. current \in {Nobody, t}
    BY DEF Publishing, StartPublish, PublishSkips, PublishSends, PublishEnds,
       PublishAwaitRaises
  <1> DEFINE OthersStay == /\ DOMAIN tasks' = DOMAIN tasks
                           /\ \A u \in DOMAIN tasks \ {t} : tasks'[u] = tasks[u]
  <1>3. ASSUME TaskHeld(t)', QueuesGoOn, OthersStay
        PROVE  (\A u \in DOMAIN tasks' : TaskHeld(u)') /\ QueuesGoOn
    <2>1. ASSUME NEW u \in DOMAIN tasks \ {t} PROVE TaskHeld(u)'
      <3>1. current # u /\ tasks'[u] = tasks[u]
        BY <1>1, <1>2, <1>3 DEF Nobody
      <3>2. \A c \in Clients : InQueue(c, u) => InQueue(c, u)'
        BY <1>3, Zenon DEF QueuesGoOn
      <3> QED BY <3>1, <3>2, OtherTaskHeld, Zenon
    <2> QED BY <1>3, <2>1
  <1>4. CASE StartPublish(t)
    <2>1. OthersStay /\ tasks'[t].pc = "running" /\ current' = t /\ QueuesGoOn
      BY <1>1, <1>4, QueuesStay DEF StartPublish, Task, connectionVars
    <2> QED BY <1>3, <2>1 DEF TaskHeld
  <1>5. ASSUME NEW s, PublishSkips(t, s)
        PROVE  (\A u \in DOMAIN tasks' : TaskHeld(u)') /\ QueuesGoOn
    <2>1. OthersStay /\ tasks'[t].pc = "running" /\ current' = t /\ QueuesGoOn
      BY <1>1, <1>5, QueuesStay DEF PublishSkips, Task, connectionVars
    <2> QED BY <1>3, <2>1 DEF TaskHeld
  <1>6. ASSUME NEW s \in DOMAIN subClients, PublishWrites(t, s), current = t
        PROVE  (\A u \in DOMAIN tasks' : TaskHeld(u)') /\ QueuesGoOn
    <2>1. PICK c \in Clients : c = subClients[s]
      BY <1>1
    <2>2. /\ drain' = drain \/ drain' = [drain EXCEPT ![c] = Append(@, t)]
          /\ Waits(c) => drain' = [drain EXCEPT ![c] = Append(@, t)]
      BY <1>1, <1>6, <2>1, WriteJoins DEF PublishWrites
    <2>3. /\ drain' = [drain EXCEPT ![c] = Append(@, t)] =>
               /\ \A d \in Clients : \A x : InQueue(d, x)' <=> InQueue(d, x) \/ (d = c /\ x = t)
               /\ \A d \in Clients : \A x, y : Behind(d, x, y) => Behind(d, x, y)'
               /\ \A x : InQueue(c, x) => Behind(c, x, t)'
      BY <1>1, QueueGrows
    <2>4. QueuesGoOn /\ (Waits(c) => InQueue(c, t)')
      <3>1. CASE drain' = drain /\ ~Waits(c)
        BY <3>1, QueuesStay
      <3>2. CASE drain' = [drain EXCEPT ![c] = Append(@, t)]
        BY <2>3, <3>2, Zenon DEF QueuesGoOn
      <3> QED BY <2>2, <3>1, <3>2
    <2>5. CASE Waits(c)
      <3>1. tasks' = [tasks EXCEPT ![t].pc = "drain", ![t].pending = @ \ {s}]
        BY <1>6, <2>1, <2>5 DEF PublishWrites
      <3>2. OthersStay /\ tasks'[t].pc = "drain"
        BY <1>1, <3>1 DEF Task
      <3>3. \E d \in Clients : InQueue(d, t)'
        BY <2>4, <2>5, Zenon
      <3> QED BY <1>3, <2>4, <3>2, <3>3 DEF TaskHeld
    <2>6. CASE ~Waits(c)
      <3>1. tasks' = [tasks EXCEPT ![t].pending = @ \ {s}] /\ current' = t
        BY <1>6, <2>1, <2>6 DEF PublishWrites
      <3>2. OthersStay /\ tasks'[t].pc = "running"
        BY <1>1, <1>6, <3>1 DEF Task
      <3> QED BY <1>3, <2>4, <3>1, <3>2 DEF TaskHeld
    <2> QED BY <2>5, <2>6
  <1>7. ASSUME NEW s \in DOMAIN subClients, PublishAwaitsClose(t, s), current = t
        PROVE  (\A u \in DOMAIN tasks' : TaskHeld(u)') /\ QueuesGoOn
    <2>1. PICK c \in Clients : c = subClients[s]
      BY <1>1
    <2>2. /\ OthersStay /\ tasks'[t].pc = "ensure_open" /\ tasks'[t].at = {c}
          /\ conn[c] = "closing" /\ UNCHANGED << conn, drain >>
      BY <1>1, <1>7, <2>1 DEF PublishAwaitsClose, Task, connectionVars
    <2>3. \E d \in Clients : tasks'[t].at = {d} /\ conn'[d] \in Ended
      BY <2>2 DEF Ended
    <2> QED BY <1>3, <2>2, <2>3, QueuesStay DEF TaskHeld
  <1>8. CASE PublishEnds(t) \/ PublishAwaitRaises(t) \/ \E s : PublishRaises(t, s)
    <2>1. OthersStay /\ tasks'[t].pc \in {"done", "failed"} /\ UNCHANGED drain
      BY <1>1, <1>8 DEF PublishEnds, PublishAwaitRaises, PublishRaises, Task, connectionVars
    <2> QED BY <1>3, <2>1, QueuesStay DEF TaskHeld
  <1> QED BY <1>4, <1>5, <1>6, <1>7, <1>8 DEF Publishing, PublishSends

LEMMA NextKeepsTasksHeld ==
    ASSUME TypesInv, ConnectionsGoOn, \A u \in DOMAIN tasks : TaskHeld(u), [Next]_fanoutVars
    PROVE  \A u \in DOMAIN tasks' : TaskHeld(u)'
  <1>1. /\ tasks \in Seq(Task) /\ DOMAIN tasks \subseteq Nat \ {0}
        /\ drain \in [Clients -> Seq(Nat)] /\ Alone
        /\ \A u \in DOMAIN tasks : u # Nobody /\ u # Handler /\ u \notin Clients
        /\ \A c \in Clients : \A i \in DOMAIN drain[c] : Waiting(c, drain[c][i])
    BY RegistryBounds, ClientsAreNotTasks DEF TypesInv, TurnInv, Nobody, Handler
  (* A step that is not about tasks. *)
  <1>2. ASSUME UNCHANGED tasks, current \in {Nobody, current'} \cup Clients,
               \A c \in Clients : \A u \in DOMAIN tasks : InQueue(c, u) => InQueue(c, u)'
        PROVE  \A u \in DOMAIN tasks' : TaskHeld(u)'
    <2> SUFFICES ASSUME NEW u \in DOMAIN tasks PROVE TaskHeld(u)'
      BY <1>2
    <2>1. tasks'[u] = tasks[u] /\ (current = u => current' = u)
      BY <1>1, <1>2
    <2>2. \A c \in Clients : InQueue(c, u) => InQueue(c, u)'
      BY <1>2, Zenon
    <2> QED BY <2>1, <2>2, OtherTaskHeld, Zenon
  <1>3. ASSUME UNCHANGED << tasks, drain >>, current \in {Nobody, current'} \cup Clients
        PROVE  \A u \in DOMAIN tasks' : TaskHeld(u)'
    BY <1>2, <1>3 DEF InQueue
  <1>4. ASSUME NEW c \in Clients,
               \/ Connect(c) \/ CloseConnection(c) \/ ConnectionClosed(c)
               \/ ConnectionLost(c) \/ Resume(c)
               \/ \E request \in Requests : SendRequest(c, request)
               \/ HandlerRaises(c) \/ HandlerEnds(c)
        PROVE  \A u \in DOMAIN tasks' : TaskHeld(u)'
    <2>1. UNCHANGED << tasks, drain >> /\ current \in {Nobody, current'} \cup Clients
      BY <1>4 DEF Connect, CloseConnection, ConnectionClosed, ConnectionLost, Resume,
         SendRequest, HandlerRaises, HandlerEnds
    <2> QED BY <1>3, <2>1
  <1>5. ASSUME NEW c \in Clients, HandleRequest(c)
        PROVE  \A u \in DOMAIN tasks' : TaskHeld(u)'
    <2>1. UNCHANGED tasks /\ current = Nobody
      BY <1>5 DEF HandleRequest
    <2>2. drain' = drain \/ drain' = [drain EXCEPT ![c] = Append(@, Handler)]
      BY <1>1, <1>5, WriteJoins DEF HandleRequest
    <2>3. CASE drain' = drain
      BY <1>3, <2>1, <2>3
    <2>4. CASE drain' = [drain EXCEPT ![c] = Append(@, Handler)]
      <3>1. Handler \in Nat
        BY DEF Handler
      <3>2. \A d \in Clients : \A x :
              InQueue(d, x)' <=> InQueue(d, x) \/ (d = c /\ x = Handler)
        BY <1>1, <2>4, <3>1, QueueGrows
      <3>3. \A d \in Clients : \A u \in DOMAIN tasks : InQueue(d, u) => InQueue(d, u)'
        BY <3>2, Zenon
      <3> QED BY <1>2, <2>1, <3>3
    <2> QED BY <2>2, <2>3, <2>4
  <1>6. ASSUME NEW c \in Clients, DrainReturns(c) \/ DrainRaises(c)
        PROVE  \A u \in DOMAIN tasks' : TaskHeld(u)'
    <2>1. PICK w : w = Head(drain[c])
      OBVIOUS
    <2>2. current = Nobody /\ drain[c] # << >> /\ drain' = [drain EXCEPT ![c] = Tail(@)]
      BY <1>6 DEF DrainReturns, DrainRaises
    <2>3. /\ w \in Nat /\ InQueue(c, w)
          /\ \A d \in Clients : \A x : InQueue(d, x) => InQueue(d, x)' \/ (d = c /\ x = w)
      <3>1. drain \in [Clients -> Seq(Nat)] /\ Alone
        BY <1>1
      <3> QED BY <2>1, <2>2, <3>1, HeadLeaves
    <2>4. CASE w = Handler
      <3>1. UNCHANGED tasks
        BY <1>6, <2>1, <2>4 DEF DrainReturns, DrainRaises
      <3>2. \A d \in Clients : \A u \in DOMAIN tasks : InQueue(d, u) => InQueue(d, u)'
        BY <1>1, <2>3, <2>4, Zenon
      <3> QED BY <1>2, <2>2, <3>1, <3>2
    <2>5. CASE w # Handler
      <3>1. w \in DOMAIN tasks
        <4>1. PICK i \in DOMAIN drain[c] : drain[c][i] = w
          BY <2>3, Zenon DEF InQueue
        <4>2. Waiting(c, w)
          BY <1>1, <4>1, Zenon
        <4> QED BY <2>5, <4>2 DEF Waiting
      <3>2. /\ DOMAIN tasks' = DOMAIN tasks
            /\ \A u \in DOMAIN tasks \ {w} : tasks'[u] = tasks[u]
            /\ \/ tasks'[w].pc = "running" /\ current' = w
               \/ tasks'[w].pc = "failed"
        <4>1. tasks[w] \in Task
          BY <1>1, <3>1
        <4>2. \/ tasks' = [tasks EXCEPT ![w].pc = "running"] /\ current' = w
              \/ tasks' = [tasks EXCEPT ![w].pc = "failed"]
          BY <1>6, <2>1, <2>5 DEF DrainReturns, DrainRaises
        <4> QED BY <1>1, <3>1, <4>1, <4>2 DEF Task
      <3>3. TaskHeld(w)'
        BY <3>2 DEF TaskHeld
      <3>4. ASSUME NEW u \in DOMAIN tasks \ {w} PROVE TaskHeld(u)'
        <4>1. tasks'[u] = tasks[u] /\ current # u
          BY <1>1, <2>2, <3>2
        <4>2. \A d \in Clients : InQueue(d, u) => InQueue(d, u)'
          BY <2>3, Zenon
        <4> QED BY <4>1, <4>2, OtherTaskHeld, Zenon
      <3> QED BY <3>2, <3>3, <3>4
    <2> QED BY <2>4, <2>5
  <1>7. ASSUME NEW a \in Agents, Emit(a) PROVE \A u \in DOMAIN tasks' : TaskHeld(u)'
    <2>1. UNCHANGED << drain, current >>
      BY <1>7 DEF Emit, connectionVars
    <2>2. \A u \in DOMAIN tasks' :
            \/ u \in DOMAIN tasks /\ tasks'[u] = tasks[u]
            \/ tasks'[u].pc = "queued"
      BY <1>1, <1>7 DEF Emit
    <2>3. ASSUME NEW u \in DOMAIN tasks, tasks'[u] = tasks[u] PROVE TaskHeld(u)'
      <3>1. \A c \in Clients : InQueue(c, u) => InQueue(c, u)'
        BY <2>1 DEF InQueue
      <3> QED BY <2>1, <2>3, <3>1, OtherTaskHeld, Zenon
    <2>4. ASSUME NEW u \in DOMAIN tasks', tasks'[u].pc = "queued" PROVE TaskHeld(u)'
      BY <2>4 DEF TaskHeld
    <2> QED BY <2>2, <2>3, <2>4
  <1>8. CASE StopBegins \/ StopEnds \/ UNCHANGED fanoutVars
    <2>1. UNCHANGED << tasks, drain >> /\ current' = current
      BY <1>8 DEF StopBegins, StopEnds, fanoutVars, connectionVars
    <2> QED BY <1>3, <2>1
  <1> QED BY <1>4, <1>5, <1>6, <1>7, <1>8, PublishingHolds DEF Next

LEMMA OtherHandlerHeld ==
    ASSUME ConnectionsGoOn, NEW d \in Clients, HandlerHeld(d), handler'[d] = handler[d],
           conn[d] = "absent" => conn'[d] = "absent",
           current' = d <=> current = d, InQueue(d, Handler) => InQueue(d, Handler)'
    PROVE  HandlerHeld(d)'
  BY DEF HandlerHeld, ConnectionsGoOn

LEMMA NextKeepsHandlersHeld ==
    ASSUME TypesInv, ConnectionsGoOn, \A u \in DOMAIN tasks : TaskHeld(u),
           \A d \in Clients : HandlerHeld(d), [Next]_fanoutVars
    PROVE  \A d \in Clients : HandlerHeld(d)'
  <1>1. /\ conn \in [Clients -> {"absent", "open", "closing", "closed"}]
        /\ handler \in [Clients -> HandlerStates] /\ drain \in [Clients -> Seq(Nat)]
        /\ Alone /\ Nobody \notin Clients /\ \A d \in Clients : d \notin Nat
        /\ \A c \in Clients : \A i \in DOMAIN drain[c] : Waiting(c, drain[c][i])
    BY ClientsAreNotTasks DEF TypesInv, ConnectionTypes, TurnInv, Nobody
  <1>2. ASSUME NEW d \in Clients, UNCHANGED drain
        PROVE  InQueue(d, Handler) => InQueue(d, Handler)'
    BY <1>2 DEF InQueue
  <1>3. ASSUME NEW c \in Clients,
               \A d \in Clients \ {c} :
                 /\ handler'[d] = handler[d] /\ (conn[d] = "absent" => conn'[d] = "absent")
                 /\ current' = d <=> current = d
                 /\ InQueue(d, Handler) => InQueue(d, Handler)',
               HandlerHeld(c)'
        PROVE  \A d \in Clients : HandlerHeld(d)'
    <2>1. ASSUME NEW d \in Clients \ {c} PROVE HandlerHeld(d)'
      BY <1>3, OtherHandlerHeld, Zenon
    <2> QED BY <1>3, <2>1
  <1>4. ASSUME NEW c \in Clients, Connect(c) PROVE \A d \in Clients : HandlerHeld(d)'
    <2>1. /\ current = Nobody /\ current' = Nobody /\ UNCHANGED drain
          /\ handler'[c] = "recv" /\ conn'[c] = "open"
          /\ \A d \in Clients \ {c} : handler'[d] = handler[d] /\ conn'[d] = conn[d]
      BY <1>1, <1>4 DEF Connect
    <2>2. HandlerHeld(c)'
      BY <1>1, <2>1 DEF HandlerHeld
    <2> QED BY <1>2, <1>3, <2>1, <2>2
  (* A step that moves no handler. *)
  <1>5. ASSUME UNCHANGED handler, \A d \in Clients : conn[d] = "absent" => conn'[d] = "absent",
               \A d \in Clients : (current' = d <=> current = d)
                                  /\ (InQueue(d, Handler) => InQueue(d, Handler)')
        PROVE  \A d \in Clients : HandlerHeld(d)'
    <2> SUFFICES ASSUME NEW d \in Clients PROVE HandlerHeld(d)'
      OBVIOUS
    <2> QED BY <1>5, OtherHandlerHeld
  <1>6. ASSUME NEW c \in Clients,
               \/ CloseConnection(c) \/ ConnectionClosed(c) \/ ConnectionLost(c)
               \/ Resume(c) \/ \E request \in Requests : SendRequest(c, request)
        PROVE  \A d \in Clients : HandlerHeld(d)'
    <2>1. UNCHANGED << handler, drain, current >>
      BY <1>6 DEF CloseConnection, ConnectionClosed, ConnectionLost, Resume, SendRequest
    <2>2. \A d \in Clients : conn[d] = "absent" => conn'[d] = "absent"
      BY <1>1, <1>6 DEF CloseConnection, ConnectionClosed, ConnectionLost, Resume, SendRequest
    <2> QED BY <1>2, <1>5, <2>1, <2>2
  <1>7. ASSUME NEW c \in Clients, HandlerRaises(c) PROVE \A d \in Clients : HandlerHeld(d)'
    <2>1. /\ current = Nobody /\ current' = c /\ UNCHANGED << drain, conn >>
          /\ handler[c] = "recv" /\ handler'[c] = "raising"
          /\ \A d \in Clients \ {c} : handler'[d] = handler[d]
      BY <1>1, <1>7 DEF HandlerRaises
    <2>2. HandlerHeld(c)'
      BY <1>1, <2>1 DEF HandlerHeld
    <2> QED BY <1>1, <1>2, <1>3, <2>1, <2>2
  <1>8. ASSUME NEW c \in Clients, HandlerEnds(c) PROVE \A d \in Clients : HandlerHeld(d)'
    <2>1. /\ current \in {Nobody, c} /\ current' = Nobody /\ UNCHANGED drain
          /\ handler[c] # "none" /\ handler'[c] = "done"
          /\ conn'[c] = IF conn[c] = "open" THEN "closing" ELSE conn[c]
          /\ \A d \in Clients \ {c} : handler'[d] = handler[d] /\ conn'[d] = conn[d]
      BY <1>1, <1>8 DEF HandlerEnds
    <2>2. HandlerHeld(c)'
      BY <1>1, <2>1 DEF HandlerHeld, Ended
    <2> QED BY <1>1, <1>2, <1>3, <2>1, <2>2
  <1>9. ASSUME NEW c \in Clients, HandleRequest(c) PROVE \A d \in Clients : HandlerHeld(d)'
    <2>1. /\ current = Nobody /\ UNCHANGED conn /\ handler[c] = "recv"
          /\ \A d \in Clients \ {c} : handler'[d] = handler[d]
          /\ conn[c] # "absent" /\ current' \in {Nobody, c}
      BY <1>1, <1>9 DEF HandleRequest, HandlerHeld
    <2>2. /\ drain' = drain \/ drain' = [drain EXCEPT ![c] = Append(@, Handler)]
          /\ conn[c] = "open" /\ Waits(c) => drain' = [drain EXCEPT ![c] = Append(@, Handler)]
      BY <1>1, <1>9, WriteJoins DEF HandleRequest
    <2>3. drain' = [drain EXCEPT ![c] = Append(@, Handler)] =>
            \A d \in Clients : \A x :
              InQueue(d, x)' <=> InQueue(d, x) \/ (d = c /\ x = Handler)
      <3>1. Handler \in Nat
        BY DEF Handler
      <3> QED BY <1>1, <3>1, QueueGrows
    <2>4. /\ \A d \in Clients : InQueue(d, Handler) => InQueue(d, Handler)'
          /\ conn[c] = "open" /\ Waits(c) => InQueue(c, Handler)'
      <3>1. CASE drain' = drain /\ ~(conn[c] = "open" /\ Waits(c))
        BY <1>2, <3>1
      <3>2. CASE drain' = [drain EXCEPT ![c] = Append(@, Handler)]
        BY <2>3, <3>2, Zenon
      <3> QED BY <2>2, <3>1, <3>2
    <2>5. \/ conn[c] = "open" /\ handler'[c] = (IF Waits(c) THEN "drain" ELSE "recv")
             /\ current' = Nobody
          \/ conn[c] = "closing" /\ handler'[c] = "ensure_open" /\ current' = Nobody
          \/ conn[c] = "closed" /\ handler'[c] = "raising" /\ current' = c
      BY <1>1, <1>9 DEF HandleRequest
    <2>6. HandlerHeld(c)'
      BY <1>1, <2>1, <2>4, <2>5 DEF HandlerHeld, Ended
    <2> QED BY <1>1, <1>3, <2>1, <2>4, <2>6
  <1>10. ASSUME NEW c \in Clients, DrainReturns(c) \/ DrainRaises(c)
         PROVE  \A d \in Clients : HandlerHeld(d)'
    <2>1. PICK w : w = Head(drain[c])
      OBVIOUS
    <2>2. /\ current = Nobody /\ drain[c] # << >> /\ drain' = [drain EXCEPT ![c] = Tail(@)]
          /\ UNCHANGED conn
      BY <1>10 DEF DrainReturns, DrainRaises
    <2>3. /\ w \in Nat /\ InQueue(c, w)
          /\ \A d \in Clients : \A x : InQueue(d, x) => InQueue(d, x)' \/ (d = c /\ x = w)
      <3>1. drain \in [Clients -> Seq(Nat)] /\ Alone
        BY <1>1
      <3> QED BY <2>1, <2>2, <3>1, HeadLeaves
    <2>4. CASE w = Handler
      <3>1. handler[c] = "drain"
        <4>1. PICK i \in DOMAIN drain[c] : drain[c][i] = w
          BY <2>3, Zenon DEF InQueue
        <4>2. Waiting(c, w)
          BY <1>1, <4>1, Zenon
        <4> QED BY <2>4, <4>2 DEF Waiting
      <3>2. /\ \A d \in Clients \ {c} : handler'[d] = handler[d]
            /\ \/ handler'[c] = "recv" /\ current' = Nobody
               \/ handler'[c] = "raising" /\ current' = c
        BY <1>1, <1>10, <2>1, <2>2, <2>4 DEF DrainReturns, DrainRaises
      <3>3. \A d \in Clients \ {c} : InQueue(d, Handler) => InQueue(d, Handler)'
        BY <2>3, Zenon
      <3>4. HandlerHeld(c)'
        BY <1>1, <2>2, <3>1, <3>2 DEF HandlerHeld
      <3> QED BY <1>1, <1>3, <2>2, <3>2, <3>3, <3>4
    <2>5. CASE w # Handler
      <3>1. UNCHANGED handler /\ current' \in {Nobody, w}
        BY <1>10, <2>1, <2>2, <2>5 DEF DrainReturns, DrainRaises
      <3>2. \A d \in Clients : InQueue(d, Handler) => InQueue(d, Handler)'
        BY <2>3, <2>5, Zenon
      <3> QED BY <1>1, <1>5, <2>2, <2>3, <3>1, <3>2
    <2> QED BY <2>4, <2>5
  <1>11. ASSUME NEW t \in DOMAIN tasks, Publishing(t)
         PROVE  \A d \in Clients : HandlerHeld(d)'
    <2>1. UNCHANGED << handler, conn >> /\ current \in {Nobody, t} /\ current' \in {Nobody, t}
      BY <1>11 DEF Publishing, StartPublish, PublishSkips, PublishSends, PublishWrites,
         PublishAwaitsClose, PublishRaises, PublishEnds, PublishAwaitRaises, connectionVars
    <2>2. t \in Nat
      BY RegistryBounds
    <2>3. \A d \in Clients : InQueue(d, Handler) => InQueue(d, Handler)'
      <3>1. QueuesGoOn
        BY <1>11, PublishingHolds
      <3> QED BY <3>1, Zenon DEF QueuesGoOn
    <2> QED BY <1>1, <1>5, <2>1, <2>2, <2>3
  <1>12. CASE StopBegins \/ StopEnds \/ (\E a \in Agents : Emit(a)) \/ UNCHANGED fanoutVars
    <2>1. UNCHANGED << handler, drain, current >>
      BY <1>12 DEF StopBegins, StopEnds, Emit, fanoutVars, connectionVars
    <2>2. \A d \in Clients : conn[d] = "absent" => conn'[d] = "absent"
      BY <1>1, <1>12 DEF StopBegins, StopEnds, Emit, fanoutVars, connectionVars
    <2> QED BY <1>2, <1>5, <2>1, <2>2
  <1> QED BY <1>4, <1>6, <1>7, <1>8, <1>9, <1>10, <1>11, <1>12 DEF Next

LEMMA NextKeepsServerHeld ==
    ASSUME TypesInv, ServerHeld, [Next]_fanoutVars
    PROVE  ServerHeld'
  <1>1. conn \in [Clients -> {"absent", "open", "closing", "closed"}]
    BY DEF TypesInv, ConnectionTypes
  <1>2. CASE StopBegins
    BY <1>1, <1>2 DEF StopBegins, ServerHeld
  <1>3. CASE UNCHANGED << conn, server >>
    BY <1>3 DEF ServerHeld
  <1>4. ASSUME NEW c \in Clients, Connect(c) PROVE ServerHeld'
    BY <1>4 DEF Connect, ServerHeld
  <1>5. ASSUME NEW c \in Clients,
               CloseConnection(c) \/ ConnectionClosed(c) \/ ConnectionLost(c) \/ HandlerEnds(c)
        PROVE  ServerHeld'
    BY <1>1, <1>5 DEF CloseConnection, ConnectionClosed, ConnectionLost, HandlerEnds, ServerHeld
  <1>6. CASE StopEnds
    BY <1>6 DEF StopEnds, ServerHeld, connectionVars
  <1>7. ASSUME NEW c \in Clients,
               \/ Resume(c) \/ HandleRequest(c) \/ HandlerRaises(c)
               \/ (\E request \in Requests : SendRequest(c, request))
               \/ DrainReturns(c) \/ DrainRaises(c)
        PROVE  ServerHeld'
    BY <1>3, <1>7 DEF Resume, SendRequest, HandleRequest, HandlerRaises, DrainReturns,
       DrainRaises
  <1>8. CASE (\E a \in Agents : Emit(a)) \/ UNCHANGED fanoutVars
    BY <1>3, <1>8 DEF Emit, fanoutVars, connectionVars
  <1>9. ASSUME NEW t \in DOMAIN tasks, Publishing(t) PROVE ServerHeld'
    <2>1. UNCHANGED << conn, server >>
      BY <1>9 DEF Publishing, StartPublish, PublishSkips, PublishSends, PublishWrites,
         PublishAwaitsClose, PublishRaises, PublishEnds, PublishAwaitRaises, connectionVars
    <2> QED BY <1>3, <2>1
  <1> QED BY <1>2, <1>4, <1>5, <1>6, <1>7, <1>8, <1>9 DEF Next

HeldInv == DeliveryInv /\ NobodyForgotten

LEMMA InitEstablishesHeld == Init => HeldInv
  <1> SUFFICES ASSUME Init PROVE HeldInv
    OBVIOUS
  <1>1. DOMAIN tasks = {} /\ server = "up"
    BY DEF Init
  <1>2. ASSUME NEW c \in Clients PROVE HandlerHeld(c)
    BY ClientsAreNotTasks DEF Init, HandlerHeld, Nobody
  <1> QED BY <1>1, <1>2, InitEstablishesDelivery DEF HeldInv, NobodyForgotten, ServerHeld

LEMMA NextKeepsHeld == HeldInv /\ [Next]_fanoutVars => HeldInv'
  <1> SUFFICES ASSUME HeldInv, [Next]_fanoutVars PROVE HeldInv'
    OBVIOUS
  <1>1. TypesInv /\ DeliveryInv /\ NobodyForgotten
    BY DEF HeldInv, DeliveryInv
  <1>2. ConnectionsGoOn
    BY <1>1, NextConnectionsGoOn
  <1>3. (\A u \in DOMAIN tasks : TaskHeld(u)) /\ (\A d \in Clients : HandlerHeld(d)) /\ ServerHeld
    BY <1>1 DEF NobodyForgotten
  <1>4. \A u \in DOMAIN tasks' : TaskHeld(u)'
    BY <1>1, <1>2, <1>3, NextKeepsTasksHeld
  <1>5. \A d \in Clients : HandlerHeld(d)'
    BY <1>1, <1>2, <1>3, NextKeepsHandlersHeld
  <1>6. ServerHeld'
    BY <1>1, <1>3, NextKeepsServerHeld
  <1>7. DeliveryInv'
    BY <1>1, NextKeepsDelivery
  <1> QED BY <1>4, <1>5, <1>6, <1>7 DEF HeldInv, NobodyForgotten

(* Every coroutine that waits has something it waits for, and whatever it  *)
(* waits for can still come: a place in a queue, or the end of a           *)
(* connection that has begun to end.  No interleaving of writes, resumed   *)
(* clients, departures and the end of the server loses a sender.           *)
THEOREM NobodyIsForgotten == Spec => []NobodyForgotten
  <1>1. HeldInv => NobodyForgotten
    BY DEF HeldInv
  <1> QED BY <1>1, InitEstablishesHeld, NextKeepsHeld, PTL DEF Spec

-----------------------------------------------------------------------------
(* The order of events                                                     *)

Started(t) == tasks[t].pc # "queued"

(* Event t happened before event u of the same agent, which is being       *)
(* published or has been.                                                  *)
Older(t, u) == t < u /\ tasks[t].agent = tasks[u].agent /\ Started(u)

(* Subscription r of connection c comes before all that task t has left.   *)
WaitsBefore(r, c, t) ==
    /\ r \in DOMAIN subClients /\ subClients[r] = c
    /\ \A s \in tasks[t].pending : r < s

AudiencesThere == \A t \in DOMAIN tasks : tasks[t].audience \subseteq DOMAIN subClients

NoneFails == \A t \in DOMAIN tasks : tasks[t].pc \notin {"ensure_open", "failed"}

StartedInOrder == \A t, u \in DOMAIN tasks : t < u /\ Started(u) => Started(t)

(* An older event has no subscription left that a younger one has had.     *)
OlderAhead ==
    \A t, u \in DOMAIN tasks : Older(t, u) => tasks[t].pending \subseteq tasks[u].pending

(* Who waits for the buffer of a connection wrote there what is before all *)
(* that it has left; a younger task of the agent either waits behind it,   *)
(* or still has to write there before it could overtake.                   *)
OlderFirst(c, t) ==
    /\ \E r \in tasks[t].audience : WaitsBefore(r, c, t)
    /\ \A u \in DOMAIN tasks :
         Older(t, u) => Behind(c, t, u) \/ \E r \in tasks[u].pending : WaitsBefore(r, c, t)
QueuesInOrder == \A c \in Clients, t \in DOMAIN tasks : InQueue(c, t) => OlderFirst(c, t)

FramesInOrder ==
    \A c \in Clients : \A i, j \in DOMAIN written[c] :
        /\ written[c][i].kind = "notify" /\ written[c][j].kind = "notify"
        /\ written[c][i].sub = written[c][j].sub
        /\ tasks[written[c][i].event].agent = tasks[written[c][j].event].agent
        /\ i < j
        => written[c][i].event < written[c][j].event

InOrder == /\ AudiencesThere /\ NoneFails /\ StartedInOrder /\ OlderAhead
           /\ QueuesInOrder /\ FramesInOrder

OrderInv == HeldInv /\ (NobodyLeft => InOrder)

(* What a step that is no turn of a publish task may do while nobody has   *)
(* left: subscriptions are only added, and no task loses its place.        *)
Calm ==
    /\ TasksKept /\ NoneFails' /\ Responds
    /\ \A s \in DOMAIN subClients : s \in DOMAIN subClients' /\ subClients'[s] = subClients[s]
    /\ \A c \in Clients, t \in DOMAIN tasks : InQueue(c, t)' =>
         InQueue(c, t) /\ \A u \in DOMAIN tasks : Behind(c, t, u) => Behind(c, t, u)'

LEMMA CalmKeepsFrames ==
    ASSUME DeliveryInv, FramesInOrder, TasksKept, Responds
    PROVE  FramesInOrder'
  <1>1. /\ FramesKept
        /\ \A c \in Clients : \A i \in DOMAIN written'[c] :
             written'[c][i].kind = "notify" => i \in DOMAIN written[c]
    BY ResponseAddsNoNotification DEF DeliveryInv, TypesInv
  <1> SUFFICES ASSUME NEW c \in Clients, NEW i \in DOMAIN written'[c],
                      NEW j \in DOMAIN written'[c],
                      written'[c][i].kind = "notify", written'[c][j].kind = "notify",
                      written'[c][i].sub = written'[c][j].sub,
                      tasks'[written'[c][i].event].agent = tasks'[written'[c][j].event].agent,
                      i < j
               PROVE  written'[c][i].event < written'[c][j].event
    BY DEF FramesInOrder
  <1>2. /\ i \in DOMAIN written[c] /\ j \in DOMAIN written[c]
        /\ written'[c][i] = written[c][i] /\ written'[c][j] = written[c][j]
    BY <1>1 DEF FramesKept
  <1>3. written[c][i].event \in DOMAIN tasks /\ written[c][j].event \in DOMAIN tasks
    BY <1>2 DEF DeliveryInv, NotifyInv
  <1> QED BY <1>2, <1>3 DEF FramesInOrder, TasksKept

LEMMA CalmKeepsOrder ==
    ASSUME DeliveryInv, InOrder, Calm
    PROVE  InOrder'
  <1>1. /\ DOMAIN tasks' = DOMAIN tasks
        /\ \A t \in DOMAIN tasks :
             /\ tasks'[t].agent = tasks[t].agent /\ tasks'[t].audience = tasks[t].audience
             /\ tasks'[t].pending = tasks[t].pending /\ (Started(t)' <=> Started(t))
        /\ \A s \in DOMAIN subClients : s \in DOMAIN subClients' /\ subClients'[s] = subClients[s]
    BY DEF Calm, TasksKept, Started
  <1>2. \A t, u \in DOMAIN tasks : Older(t, u)' <=> Older(t, u)
    BY <1>1 DEF Older
  <1>4. AudiencesThere'
    BY <1>1 DEF InOrder, AudiencesThere
  <1>5. StartedInOrder' /\ OlderAhead'
    BY <1>1, <1>2 DEF InOrder, StartedInOrder, OlderAhead
  <1>6. QueuesInOrder'
    <2> SUFFICES ASSUME NEW c \in Clients, NEW t \in DOMAIN tasks, InQueue(c, t)'
                 PROVE  OlderFirst(c, t)'
      BY <1>1 DEF QueuesInOrder
    <2>1. /\ OlderFirst(c, t)
          /\ \A u \in DOMAIN tasks : Behind(c, t, u) => Behind(c, t, u)'
      BY Zenon DEF Calm, InOrder, QueuesInOrder
    <2>2. \A r : WaitsBefore(r, c, t) => WaitsBefore(r, c, t)'
      BY <1>1 DEF WaitsBefore
    <2>3. \E r \in tasks'[t].audience : WaitsBefore(r, c, t)'
      BY <1>1, <2>1, <2>2 DEF OlderFirst
    <2>4. ASSUME NEW u \in DOMAIN tasks, Older(t, u)'
          PROVE  Behind(c, t, u)' \/ \E r \in tasks'[u].pending : WaitsBefore(r, c, t)'
      BY <1>1, <1>2, <2>1, <2>2, <2>4, Zenon DEF OlderFirst
    <2> QED BY <1>1, <2>3, <2>4 DEF OlderFirst
  <1>7. FramesInOrder' /\ NoneFails'
    BY CalmKeepsFrames DEF InOrder, Calm
  <1> QED BY <1>4, <1>5, <1>6, <1>7 DEF InOrder

LEMMA EmitKeepsOrder ==
    ASSUME DeliveryInv, InOrder, NEW a \in Agents, Emit(a)
    PROVE  InOrder'
  <1> PICK n : n = Len(tasks) + 1
    OBVIOUS
  <1>1. UNCHANGED << written, registryVars, drain >> /\ tasks \in Seq(Task)
    BY DEF Emit, connectionVars, DeliveryInv, TypesInv, TurnInv
  <1>2. /\ DOMAIN tasks' = DOMAIN tasks \cup {n} /\ n \notin DOMAIN tasks
        /\ \A t \in DOMAIN tasks : tasks'[t] = tasks[t] /\ t < n
        /\ tasks'[n].pc = "queued" /\ tasks'[n].audience = {} /\ tasks'[n].pending = {}
        /\ n \in Nat
    BY <1>1 DEF Emit
  <1>3. /\ ~Started(n)' /\ \A t \in DOMAIN tasks : Started(t)' <=> Started(t)
        /\ \A t \in DOMAIN tasks' : ~Older(t, n)' /\ ~Older(n, t)'
        /\ \A t, u \in DOMAIN tasks : Older(t, u)' <=> Older(t, u)
    <2>1. ~Started(n)' /\ \A t \in DOMAIN tasks : Started(t)' <=> Started(t)
      BY <1>2 DEF Started
    <2>2. \A t \in DOMAIN tasks' : ~(n < t)
      <3>1. \A t \in DOMAIN tasks : t \in Nat
        BY <1>1
      <3> QED BY <1>2, <3>1
    <2> QED BY <1>2, <2>1, <2>2 DEF Older
  <1>4. AudiencesThere' /\ NoneFails'
    BY <1>1, <1>2 DEF InOrder, AudiencesThere, NoneFails, registryVars
  <1>5. StartedInOrder'
    <2> SUFFICES ASSUME NEW t \in DOMAIN tasks', NEW u \in DOMAIN tasks',
                        t < u, Started(u)'
                 PROVE  Started(t)'
      BY DEF StartedInOrder
    <2>1. u \in DOMAIN tasks
      BY <1>2, <1>3
    <2>2. t \in DOMAIN tasks
      <3>1. u < n /\ u \in Nat
        BY <1>1, <1>2, <2>1
      <3> QED BY <1>2, <3>1
    <2> QED BY <1>3, <2>1, <2>2 DEF InOrder, StartedInOrder
  <1>6. OlderAhead'
    BY <1>2, <1>3 DEF InOrder, OlderAhead
  <1>7. QueuesInOrder'
    <2> SUFFICES ASSUME NEW c \in Clients, NEW t \in DOMAIN tasks', InQueue(c, t)'
                 PROVE  OlderFirst(c, t)'
      BY DEF QueuesInOrder
    <2>1. /\ \A x : InQueue(c, x)' <=> InQueue(c, x)
          /\ \A x, y : Behind(c, x, y)' <=> Behind(c, x, y)
      BY <1>1 DEF InQueue, Behind
    <2>2. t \in DOMAIN tasks
      <3>1. PICK i \in DOMAIN drain[c] : drain[c][i] = t
        BY <2>1, Zenon DEF InQueue
      <3>2. Waiting(c, t)
        BY <3>1 DEF DeliveryInv, TypesInv, TurnInv
      <3>3. t # Handler
        BY <1>1, <1>2 DEF Handler
      <3> QED BY <3>2, <3>3 DEF Waiting
    <2>3. OlderFirst(c, t)
      BY <2>1, <2>2 DEF InOrder, QueuesInOrder
    <2>4. \A r : WaitsBefore(r, c, t)' <=> WaitsBefore(r, c, t)
      BY <1>1, <1>2, <2>2 DEF WaitsBefore, registryVars
    <2> QED BY <1>2, <1>3, <2>1, <2>2, <2>3, <2>4 DEF OlderFirst
  <1>8. FramesInOrder'
    <2>1. \A c \in Clients : \A i \in DOMAIN written[c] :
            written[c][i].kind = "notify" => written[c][i].event \in DOMAIN tasks
      BY DEF DeliveryInv, NotifyInv
    <2> QED BY <1>1, <1>2, <2>1 DEF InOrder, FramesInOrder
  <1> QED BY <1>4, <1>5, <1>6, <1>7, <1>8 DEF InOrder

LEMMA StartKeepsOrder ==
    ASSUME DeliveryInv, InOrder, NEW t \in DOMAIN tasks, StartPublish(t)
    PROVE  InOrder'
  <1> DEFINE A == Audience(tasks[t].agent)
  <1>1. /\ tasks[t].pc = "queued" /\ UNCHANGED << written, registryVars, drain >>
        /\ OnlyTask(t, A, A, "running") /\ t \in Nat /\ DOMAIN tasks \subseteq Nat
        /\ \A u \in 1 .. t - 1 : tasks[u].pc # "queued"
    BY RegistryBounds DEF DeliveryInv, StartPublish, OnlyTask, connectionVars, Task
  <1>2. /\ A \subseteq DOMAIN subClients
        /\ \A s \in DOMAIN subClients : Matches(s, tasks[t].agent) => s \in A
    BY RegistryBounds DEF Audience, DeliveryInv
  <1> HIDE DEF A
  <1>3. /\ DOMAIN tasks' = DOMAIN tasks
        /\ \A u \in DOMAIN tasks \ {t} : tasks'[u] = tasks[u] /\ (Started(u)' <=> Started(u))
        /\ \A u \in DOMAIN tasks : tasks'[u].agent = tasks[u].agent
        /\ Started(t)' /\ ~Started(t) /\ tasks'[t].pending = A /\ tasks'[t].audience = A
    BY <1>1 DEF OnlyTask, Started
  <1>4. /\ \A u \in DOMAIN tasks : u < t => Started(u)
        /\ \A u \in DOMAIN tasks : t < u => ~Started(u)
    <2>1. ASSUME NEW u \in DOMAIN tasks, u < t PROVE Started(u)
      <3>1. u \in 1 .. t - 1
        BY <1>1, <2>1, RegistryBounds DEF DeliveryInv
      <3> QED BY <1>1, <3>1 DEF Started
    <2> QED BY <1>3, <2>1 DEF InOrder, StartedInOrder
  <1>5. /\ \A u, v \in DOMAIN tasks : v # t => (Older(u, v)' <=> Older(u, v))
        /\ \A u \in DOMAIN tasks : ~Older(t, u) /\ ~Older(t, u)'
    <2>1. \A u, v \in DOMAIN tasks : v # t => (Older(u, v)' <=> Older(u, v))
      BY <1>3 DEF Older
    <2>2. \A u \in DOMAIN tasks : t < u => u # t
      BY <1>1
    <2> QED BY <1>3, <1>4, <2>1, <2>2 DEF Older
  (* All that an older event of the agent is for is in the new audience. *)
  <1>6. \A u \in DOMAIN tasks : tasks[u].agent = tasks[t].agent => tasks[u].audience \subseteq A
    <2> SUFFICES ASSUME NEW u \in DOMAIN tasks, tasks[u].agent = tasks[t].agent,
                        NEW s \in tasks[u].audience
                 PROVE  s \in A
      OBVIOUS
    <2>1. s \in DOMAIN subClients /\ DOMAIN subClients = DOMAIN subscriptions
      BY RegistryBounds DEF InOrder, AudiencesThere, DeliveryInv
    <2>2. Matches(s, tasks[u].agent)
      BY <2>1 DEF DeliveryInv, TaskInv
    <2> QED BY <1>2, <2>1, <2>2
  <1>7. AudiencesThere' /\ NoneFails'
    BY <1>1, <1>2, <1>3 DEF InOrder, AudiencesThere, NoneFails, OnlyTask, registryVars
  <1>8. StartedInOrder'
    BY <1>3, <1>4 DEF InOrder, StartedInOrder
  <1>9. OlderAhead'
    <2> SUFFICES ASSUME NEW u \in DOMAIN tasks, NEW v \in DOMAIN tasks, Older(u, v)'
                 PROVE  tasks'[u].pending \subseteq tasks'[v].pending
      BY <1>3 DEF OlderAhead
    <2>1. u # t
      BY <1>5
    <2>2. CASE v = t
      <3>1. tasks[u].agent = tasks[t].agent /\ tasks[u].pending \subseteq tasks[u].audience
        BY <1>3, <2>2 DEF Older, DeliveryInv, TaskInv
      <3> QED BY <1>3, <1>6, <2>1, <2>2, <3>1
    <2>3. CASE v # t
      BY <1>3, <1>5, <2>1, <2>3 DEF InOrder, OlderAhead
    <2> QED BY <2>2, <2>3
  <1>10. QueuesInOrder'
    <2> SUFFICES ASSUME NEW c \in Clients, NEW u \in DOMAIN tasks, InQueue(c, u)'
                 PROVE  OlderFirst(c, u)'
      BY <1>3 DEF QueuesInOrder
    <2>1. InQueue(c, u) /\ \A x, y : Behind(c, x, y)' <=> Behind(c, x, y)
      BY <1>1 DEF InQueue, Behind
    <2>2. u # t
      <3>1. PICK i \in DOMAIN drain[c] : drain[c][i] = u
        BY <2>1, Zenon DEF InQueue
      <3>2. Waiting(c, u) /\ u # Handler
        BY <3>1, RegistryBounds DEF DeliveryInv, TypesInv, TurnInv, Handler
      <3> QED BY <1>1, <3>2 DEF Waiting
    <2>3. OlderFirst(c, u)
      BY <2>1 DEF InOrder, QueuesInOrder
    <2>4. \A r : WaitsBefore(r, c, u)' <=> WaitsBefore(r, c, u)
      BY <1>1, <1>3, <2>2 DEF WaitsBefore, registryVars
    <2>5. PICK r \in tasks[u].audience : WaitsBefore(r, c, u)
      BY <2>3 DEF OlderFirst
    <2>6. \E q \in tasks'[u].audience : WaitsBefore(q, c, u)'
      BY <1>3, <2>2, <2>4, <2>5
    <2>7. ASSUME NEW v \in DOMAIN tasks, Older(u, v)'
          PROVE  Behind(c, u, v)' \/ \E q \in tasks'[v].pending : WaitsBefore(q, c, u)'
      <3>1. CASE v = t
        <4>1. tasks[u].agent = tasks[t].agent
          BY <1>3, <2>7, <3>1 DEF Older
        <4> QED BY <1>3, <1>6, <2>4, <2>5, <3>1, <4>1
      <3>2. CASE v # t
        BY <1>3, <1>5, <2>1, <2>3, <2>4, <2>7, <3>2, Zenon DEF OlderFirst
      <3> QED BY <3>1, <3>2
    <2> QED BY <1>3, <2>6, <2>7 DEF OlderFirst
  <1>11. FramesInOrder'
    <2>1. \A c \in Clients : \A i \in DOMAIN written[c] :
            written[c][i].kind = "notify" => written[c][i].event \in DOMAIN tasks
      BY DEF DeliveryInv, NotifyInv
    <2> QED BY <1>1, <1>3, <2>1 DEF InOrder, FramesInOrder
  <1> QED BY <1>7, <1>8, <1>9, <1>10, <1>11 DEF InOrder

(* What the turn of subscription s in task t is while nobody has left: its *)
(* client is told, and the task waits behind whoever waits there.          *)
Tells(t, s) ==
    /\ IsNext(t, s) /\ s \in DOMAIN subClients /\ tasks[t].pc = "running"
    /\ \E pc \in {"running", "drain"} :
         OnlyTask(t, tasks[t].audience, tasks[t].pending \ {s}, pc)
    /\ Appends(subClients[s], Notification(t, s))
    /\ \/ UNCHANGED drain /\ drain[subClients[s]] = << >>
       \/ drain' = [drain EXCEPT ![subClients[s]] = Append(@, t)]

(* The turn belongs to no older event: what is older is done, or waits     *)
(* somewhere with nothing left up to s.                                    *)
LEMMA OlderHasHadIts ==
    ASSUME HeldInv, InOrder, NEW t \in DOMAIN tasks, NEW s, IsNext(t, s),
           tasks[t].pc = "running", NEW u \in DOMAIN tasks, Older(u, t)
    PROVE  s \notin tasks[u].pending
  <1>1. /\ TypesInv /\ tasks[t] \in Task /\ tasks[u] \in Task
        /\ t \in Nat \ {0} /\ u \in Nat \ {0} /\ t # Handler
    BY RegistryBounds DEF HeldInv, DeliveryInv, Handler
  <1>2. current = t /\ (tasks[u].pc = "running" => current = u) /\ u # t
    BY <1>1 DEF HeldInv, NobodyForgotten, TaskHeld, Older
  <1>3. tasks[u].pc \in {"drain", "done"}
    <2>1. Started(u)
      BY DEF InOrder, StartedInOrder, Older, Started
    <2> QED BY <1>1, <1>2, <2>1 DEF InOrder, NoneFails, Started, Task, TaskStates
  <1>4. CASE tasks[u].pc = "done"
    BY <1>4 DEF HeldInv, DeliveryInv, TaskInv
  <1>5. CASE tasks[u].pc = "drain"
    <2>1. PICK c \in Clients : InQueue(c, u)
      BY <1>5 DEF HeldInv, NobodyForgotten, TaskHeld
    <2>2. ~Behind(c, u, t)
      <3>1. SUFFICES ASSUME NEW j \in DOMAIN drain[c], drain[c][j] = t PROVE FALSE
        BY Zenon DEF Behind
      <3>2. Waiting(c, t)
        BY <1>1, <3>1 DEF TypesInv, TurnInv
      <3> QED BY <1>1, <3>2 DEF Waiting
    <2>3. PICK r \in tasks[t].pending : WaitsBefore(r, c, u)
      BY <2>1, <2>2 DEF InOrder, QueuesInOrder, OlderFirst
    <2>4. s <= r /\ s \in Nat /\ r \in Nat
      BY <1>1, <2>3 DEF IsNext, Task
    <2> QED BY <2>3, <2>4 DEF WaitsBefore
  <1> QED BY <1>3, <1>4, <1>5

LEMMA TellsKeepsFrames ==
    ASSUME HeldInv, InOrder, NEW t \in DOMAIN tasks, NEW s, Tells(t, s)
    PROVE  FramesInOrder'
  <1> DEFINE f == Notification(t, s)
  <1>1. /\ f \in Frame /\ f.kind = "notify" /\ f.sub = s /\ f.event = t
        /\ s \in tasks[t].pending /\ subClients[s] \in Clients
        /\ ConnectionTypes /\ t \in Nat /\ DOMAIN tasks \subseteq Nat
        /\ DOMAIN tasks' = DOMAIN tasks
        /\ \A u \in DOMAIN tasks : tasks'[u].agent = tasks[u].agent
    <2>1. TypesInv /\ TurnInv /\ s \in tasks[t].pending /\ s \in DOMAIN subClients
      BY DEF HeldInv, DeliveryInv, TypesInv, Tells, IsNext
    <2>2. f \in Frame
      BY <2>1, NotificationIsFrame
    <2>3. \A u \in DOMAIN tasks : tasks'[u].agent = tasks[u].agent
      BY DEF Tells, OnlyTask
    <2> QED BY <2>1, <2>2, <2>3, RegistryBounds DEF Notification, TypesInv, Tells, OnlyTask
  <1> PICK c \in Clients : c = subClients[s]
    BY <1>1
  <1>2. Appends(c, f)
    BY DEF Tells
  <1> HIDE DEF f
  <1>3. /\ FramesKept
        /\ \A d \in Clients : \A i \in DOMAIN written'[d] \ DOMAIN written[d] :
             d = c /\ i = Len(written[c]) + 1 /\ written'[d][i] = f
    BY <1>1, <1>2, FrameAppended
  <1> SUFFICES ASSUME NEW d \in Clients, NEW i \in DOMAIN written'[d],
                      NEW j \in DOMAIN written'[d],
                      written'[d][i].kind = "notify", written'[d][j].kind = "notify",
                      written'[d][i].sub = written'[d][j].sub,
                      tasks'[written'[d][i].event].agent = tasks'[written'[d][j].event].agent,
                      i < j
               PROVE  written'[d][i].event < written'[d][j].event
    BY DEF FramesInOrder
  <1>4. i \in DOMAIN written[d]
    <2>1. /\ DOMAIN written[d] = 1 .. Len(written[d]) /\ Len(written[d]) \in Nat
          /\ j \in Nat \ {0} /\ i \in Nat \ {0}
      <3>1. written[d] \in Seq(Frame) /\ written'[d] \in Seq(Frame)
        BY <1>1, <1>2 DEF ConnectionTypes, Appends
      <3> QED BY <3>1
    <2>2. j \in DOMAIN written[d] => i \in DOMAIN written[d]
      BY <2>1
    <2>3. CASE j \notin DOMAIN written[d] /\ i \notin DOMAIN written[d]
      <3>1. i = Len(written[c]) + 1 /\ j = Len(written[c]) + 1
        BY <1>3, <2>3
      <3>2. i = j
        BY <3>1, Zenon
      <3> QED BY <2>1, <3>2
    <2> QED BY <2>2, <2>3
  <1>5. /\ written'[d][i] = written[d][i] /\ NotifyInv(written[d][i])
        /\ written[d][i].event \in DOMAIN tasks
    <2>1. written'[d][i] = written[d][i] /\ NotifyInv(written[d][i])
      BY <1>3, <1>4 DEF FramesKept, HeldInv, DeliveryInv
    <2> QED BY <2>1 DEF NotifyInv
  <1>6. CASE j \in DOMAIN written[d]
    <2>1. written'[d][j] = written[d][j] /\ NotifyInv(written[d][j])
      BY <1>3, <1>6 DEF FramesKept, HeldInv, DeliveryInv
    <2>2. written[d][j].event \in DOMAIN tasks
      BY <2>1 DEF NotifyInv
    <2> QED BY <1>1, <1>4, <1>5, <1>6, <2>1, <2>2 DEF InOrder, FramesInOrder
  <1>7. CASE j \notin DOMAIN written[d]
    <2> PICK e \in DOMAIN tasks : e = written[d][i].event
      BY <1>5
    <2>1. /\ written'[d][j] = f /\ written[d][i].sub = s
          /\ s \in tasks[e].audience \ tasks[e].pending
          /\ tasks[e].agent = tasks[t].agent
      <3>1. written'[d][j] = f
        BY <1>3, <1>7
      <3> QED BY <1>1, <1>5, <3>1 DEF NotifyInv
    <2>2. Started(e)
      BY <2>1 DEF HeldInv, DeliveryInv, TaskInv, Started
    <2>3. ~(t < e)
      <3>1. CASE t < e
        <4>1. Older(t, e)
          BY <2>1, <2>2, <3>1 DEF Older
        <4>2. tasks[t].pending \subseteq tasks[e].pending
          BY <4>1 DEF InOrder, OlderAhead
        <4> QED BY <1>1, <2>1, <4>2
      <3> QED BY <3>1
    <2>4. e # t /\ e \in Nat
      BY <1>1, <2>1
    <2>5. e < t
      BY <1>1, <2>3, <2>4
    <2> QED BY <1>1, <1>5, <2>1, <2>5
  <1> QED BY <1>6, <1>7

LEMMA TellsKeepsOrder ==
    ASSUME HeldInv, InOrder, NEW t \in DOMAIN tasks, NEW s, Tells(t, s)
    PROVE  InOrder'
  <1>1. /\ TypesInv /\ drain \in [Clients -> Seq(Nat)] /\ subClients[s] \in Clients
        /\ t \in Nat \ {0} /\ t # Handler /\ DOMAIN tasks \subseteq Nat
        /\ \A u \in DOMAIN tasks : tasks[u] \in Task
        /\ s \in tasks[t].pending /\ s \in DOMAIN subClients /\ tasks[t].pc = "running"
        /\ \A q \in tasks[t].pending : s <= q
    BY RegistryBounds DEF HeldInv, DeliveryInv, TypesInv, TurnInv, Handler, Tells, IsNext
  <1> PICK c \in Clients : c = subClients[s]
    BY <1>1
  <1>2. /\ UNCHANGED registryVars /\ DOMAIN tasks' = DOMAIN tasks
        /\ \A u \in DOMAIN tasks \ {t} : tasks'[u] = tasks[u]
        /\ tasks'[t].agent = tasks[t].agent /\ tasks'[t].audience = tasks[t].audience
        /\ tasks'[t].pending = tasks[t].pending \ {s} /\ tasks'[t].pc \in {"running", "drain"}
    BY DEF Tells, OnlyTask
  <1>3. /\ \A u \in DOMAIN tasks : Started(u)' <=> Started(u)
        /\ \A u, v \in DOMAIN tasks : Older(u, v)' <=> Older(u, v)
        /\ \A u \in DOMAIN tasks : ~Older(u, u)
    <2>1. \A u \in DOMAIN tasks : Started(u)' <=> Started(u)
      <3>1. Started(t) /\ Started(t)'
        BY <1>1, <1>2 DEF Started
      <3>2. \A u \in DOMAIN tasks \ {t} : Started(u)' <=> Started(u)
        BY <1>2 DEF Started
      <3> QED BY <3>1, <3>2
    <2>2. \A u \in DOMAIN tasks : tasks'[u].agent = tasks[u].agent
      BY <1>2
    <2>3. \A u \in DOMAIN tasks : ~(u < u)
      BY <1>1
    <2> QED BY <2>1, <2>2, <2>3, Zenon DEF Older
  <1>4. \A u \in DOMAIN tasks : Older(u, t) => s \notin tasks[u].pending
    BY <1>1, OlderHasHadIts DEF Tells
  <1>5. AudiencesThere' /\ NoneFails' /\ StartedInOrder'
    BY <1>2, <1>3 DEF InOrder, AudiencesThere, NoneFails, StartedInOrder, registryVars
  <1>6. OlderAhead'
    <2> SUFFICES ASSUME NEW u \in DOMAIN tasks, NEW v \in DOMAIN tasks, Older(u, v)
                 PROVE  tasks'[u].pending \subseteq tasks'[v].pending
      BY <1>2, <1>3 DEF OlderAhead
    <2>1. tasks[u].pending \subseteq tasks[v].pending /\ u # v
      BY <1>3 DEF InOrder, OlderAhead
    <2> QED BY <1>2, <1>4, <2>1
  (* Where t was before: in no queue.  Where it is now: behind all of one. *)
  <1>7. \A d \in Clients : ~InQueue(d, t) /\ \A u : ~Behind(d, u, t)
    <2> SUFFICES ASSUME NEW d \in Clients, NEW j \in DOMAIN drain[d], drain[d][j] = t
                 PROVE  FALSE
      BY Zenon DEF InQueue, Behind
    <2>1. Waiting(d, t)
      BY <1>1 DEF TypesInv, TurnInv
    <2> QED BY <1>1, <2>1 DEF Waiting
  <1>8. /\ \A d \in Clients : \A u : InQueue(d, u)' => InQueue(d, u) \/ (d = c /\ u = t)
        /\ \A d \in Clients : \A u, v : Behind(d, u, v) => Behind(d, u, v)'
        /\ \A u : InQueue(c, u) => Behind(c, u, t)'
    <2>1. CASE UNCHANGED drain /\ drain[c] = << >>
      <3>1. DOMAIN drain[c] = {}
        BY <2>1
      <3> QED BY <2>1, <3>1 DEF InQueue, Behind
    <2>2. CASE drain' = [drain EXCEPT ![c] = Append(@, t)]
      <3>1. t \in Nat /\ drain \in [Clients -> Seq(Nat)]
        BY <1>1
      <3>2. /\ \A d \in Clients : \A x :
                 InQueue(d, x)' <=> InQueue(d, x) \/ (d = c /\ x = t)
            /\ \A d \in Clients : \A x, y : Behind(d, x, y) => Behind(d, x, y)'
            /\ \A x : InQueue(c, x) => Behind(c, x, t)'
        BY <2>2, <3>1, QueueGrows
      <3> QED BY <3>2, Zenon
    <2> QED BY <2>1, <2>2 DEF Tells
  <1>9. \A d, r : \A u \in DOMAIN tasks : WaitsBefore(r, d, u) => WaitsBefore(r, d, u)'
    BY <1>2 DEF WaitsBefore, registryVars
  <1>10. WaitsBefore(s, c, t)'
    <2>1. \A q \in tasks[t].pending \ {s} : s < q
      BY <1>1 DEF Task
    <2> QED BY <1>1, <1>2, <2>1 DEF WaitsBefore, registryVars
  <1>11. ASSUME NEW d \in Clients, NEW u \in DOMAIN tasks \ {t}, InQueue(d, u)
         PROVE  OlderFirst(d, u)'
    <2>1. OlderFirst(d, u)
      BY <1>11 DEF InOrder, QueuesInOrder
    <2>2. \E r \in tasks'[u].audience : WaitsBefore(r, d, u)'
      BY <1>2, <1>9, <2>1 DEF OlderFirst
    <2>3. ASSUME NEW v \in DOMAIN tasks, Older(u, v)
          PROVE  Behind(d, u, v)' \/ \E r \in tasks'[v].pending : WaitsBefore(r, d, u)'
      <3>1. CASE v # t
        <4>1. tasks'[v].pending = tasks[v].pending
          BY <1>2, <3>1
        <4>2. Behind(d, u, v) \/ \E r \in tasks[v].pending : WaitsBefore(r, d, u)
          BY <2>1, <2>3 DEF OlderFirst
        <4> QED BY <1>8, <1>9, <4>1, <4>2, Zenon
      <3>2. CASE v = t
        <4>1. PICK r \in tasks[t].pending : WaitsBefore(r, d, u)
          BY <1>7, <2>1, <2>3, <3>2 DEF OlderFirst
        <4>2. CASE r = s
          <5>1. d = c
            BY <4>1, <4>2 DEF WaitsBefore
          <5> QED BY <1>8, <1>11, <3>2, <5>1
        <4>3. CASE r # s
          BY <1>2, <1>9, <3>2, <4>1, <4>3
        <4> QED BY <4>2, <4>3
      <3> QED BY <3>1, <3>2
    <2> QED BY <1>2, <1>3, <2>2, <2>3, Zenon DEF OlderFirst
  <1>12. OlderFirst(c, t)'
    <2>1. s \in tasks'[t].audience
      BY <1>1, <1>2 DEF HeldInv, DeliveryInv, TaskInv
    <2>2. ASSUME NEW v \in DOMAIN tasks, Older(t, v) PROVE s \in tasks'[v].pending
      BY <1>1, <1>2, <1>3, <2>2 DEF InOrder, OlderAhead
    <2> QED BY <1>2, <1>3, <1>10, <2>1, <2>2, Zenon DEF OlderFirst
  <1>13. QueuesInOrder'
    <2> SUFFICES ASSUME NEW d \in Clients, NEW u \in DOMAIN tasks, InQueue(d, u)'
                 PROVE  OlderFirst(d, u)'
      BY <1>2 DEF QueuesInOrder
    <2>1. (InQueue(d, u) /\ u # t) \/ (d = c /\ u = t)
      BY <1>7, <1>8
    <2> QED BY <1>11, <1>12, <2>1
  <1> QED BY <1>5, <1>6, <1>13, TellsKeepsFrames DEF InOrder

LEMMA NextKeepsFrames ==
    ASSUME TypesInv, [Next]_fanoutVars
    PROVE  FramesKept
  <1>1. CASE Responds
    BY <1>1, ResponseAddsNoNotification DEF TypesInv
  <1>2. CASE UNCHANGED written
    BY <1>2 DEF FramesKept
  <1>3. ASSUME NEW t \in DOMAIN tasks, TakesTurn(t) PROVE FramesKept
    <2>1. PICK s \in tasks[t].pending :
            \/ s \notin DOMAIN subClients /\ UNCHANGED written
            \/ s \in DOMAIN subClients /\ Appends(subClients[s], Notification(t, s))
      BY <1>3 DEF TakesTurn
    <2>2. CASE s \in DOMAIN subClients /\ Appends(subClients[s], Notification(t, s))
      <3>1. subClients[s] \in Clients /\ Notification(t, s) \in Frame /\ ConnectionTypes
        BY <2>2, RegistryBounds, NotificationIsFrame DEF TypesInv
      <3> QED BY <2>2, <3>1, FrameAppended
    <2> QED BY <1>2, <2>1, <2>2
  <1> QED BY <1>1, <1>2, <1>3, StepIs DEF Emit, StartPublish, connectionVars

(* Who has left does not come back.                                        *)
LEMMA LeavingIsForEver ==
    ASSUME TypesInv, [Next]_fanoutVars, NobodyLeft'
    PROVE  NobodyLeft
  <1>1. FramesKept /\ ConnectionsGoOn
    BY NextKeepsFrames, NextConnectionsGoOn
  <1>2. conn \in [Clients -> {"absent", "open", "closing", "closed"}]
    BY DEF TypesInv, ConnectionTypes
  <1> SUFFICES ASSUME NEW c \in Clients
               PROVE  /\ conn[c] \in {"absent", "open"}
                      /\ \A i \in DOMAIN written[c] : written[c][i].kind # "unsubscribed"
    BY DEF NobodyLeft
  <1>3. conn'[c] \in {"absent", "open"}
    BY DEF NobodyLeft
  <1>4. conn[c] \notin Ended
    BY <1>1, <1>3 DEF ConnectionsGoOn, Ended
  <1>5. \A i \in DOMAIN written[c] : written[c][i].kind # "unsubscribed"
    BY <1>1 DEF FramesKept, NobodyLeft
  <1> QED BY <1>2, <1>4, <1>5 DEF Ended

SubscriptionsStay ==
    \A s \in DOMAIN subClients : s \in DOMAIN subClients' /\ subClients'[s] = subClients[s]

(* No task joins a queue, or loses its place before another.               *)
PlacesKept ==
    \A c \in Clients, t \in DOMAIN tasks : InQueue(c, t)' =>
        InQueue(c, t) /\ \A u \in DOMAIN tasks : Behind(c, t, u) => Behind(c, t, u)'

LEMMA CalmIs ==
    ASSUME TasksKept, NoneFails', Responds, SubscriptionsStay, PlacesKept
    PROVE  Calm
    BY DEF Calm, SubscriptionsStay, PlacesKept

LEMMA PlacesStay == UNCHANGED drain => PlacesKept
    BY DEF PlacesKept, InQueue, Behind

LEMMA ConnectionStepsAreCalm ==
    ASSUME HeldInv, NobodyLeft, NoneFails, NEW c \in Clients,
           \/ Connect(c) \/ CloseConnection(c) \/ ConnectionClosed(c)
           \/ ConnectionLost(c) \/ Resume(c)
           \/ \E request \in Requests : SendRequest(c, request)
           \/ HandlerRaises(c) \/ DrainReturns(c) \/ DrainRaises(c)
    PROVE  Calm
  <1>1. TypesInv /\ TasksKept /\ Responds
    BY ConnectionStepsAreOther DEF HeldInv, DeliveryInv
  <1>2. UNCHANGED registryVars
    BY DEF Connect, CloseConnection, ConnectionClosed, ConnectionLost, Resume, SendRequest,
       HandlerRaises, DrainReturns, DrainRaises
  <1>3. SubscriptionsStay
    BY <1>2 DEF SubscriptionsStay, registryVars
  <1>4. CASE UNCHANGED << tasks, drain >>
    <2>1. NoneFails'
      BY <1>4 DEF NoneFails
    <2> QED BY <1>1, <1>3, <1>4, <2>1, CalmIs, PlacesStay
  <1>5. CASE DrainReturns(c)
    <2>1. PICK w : w = Head(drain[c])
      OBVIOUS
    <2>2. drain[c] # << >> /\ drain' = [drain EXCEPT ![c] = Tail(@)]
      BY <1>5 DEF DrainReturns
    <2>3. /\ w \in Nat /\ InQueue(c, w)
          /\ \A d \in Clients : \A x : InQueue(d, x)' => InQueue(d, x)
          /\ \A d \in Clients : \A x, y :
               Behind(d, x, y) => Behind(d, x, y)' \/ (d = c /\ x = w)
          /\ ~InQueue(c, w)'
      <3>1. drain \in [Clients -> Seq(Nat)] /\ Alone
        BY <1>1 DEF TypesInv, TurnInv
      <3> QED BY <2>1, <2>2, <3>1, HeadLeaves
    <2>4. PlacesKept
      BY <2>3, Zenon DEF PlacesKept
    <2>5. NoneFails'
      <3>1. CASE UNCHANGED tasks
        BY <3>1 DEF NoneFails
      <3>2. CASE w # Handler
        <4>1. PICK i \in DOMAIN drain[c] : drain[c][i] = w
          BY <2>3, Zenon DEF InQueue
        <4>2. Waiting(c, w)
          BY <1>1, <4>1 DEF TypesInv, TurnInv
        <4>3. w \in DOMAIN tasks /\ tasks[w] \in Task
          BY <1>1, <3>2, <4>2, RegistryBounds DEF Waiting
        <4>4. tasks' = [tasks EXCEPT ![w].pc = "running"]
          BY <1>5, <2>1, <3>2 DEF DrainReturns
        <4>5. \A u \in DOMAIN tasks' :
                /\ u \in DOMAIN tasks
                /\ tasks'[u].pc = IF u = w THEN "running" ELSE tasks[u].pc
          BY <4>3, <4>4 DEF Task
        <4> QED BY <4>5 DEF NoneFails
      <3> QED BY <1>5, <2>1, <3>1, <3>2 DEF DrainReturns
    <2> QED BY <1>1, <1>3, <2>4, <2>5, CalmIs
  <1>6. ~DrainRaises(c)
    BY DEF DrainRaises, NobodyLeft
  <1>7. UNCHANGED << tasks, drain >> \/ DrainReturns(c) \/ DrainRaises(c)
    BY DEF Connect, CloseConnection, ConnectionClosed, ConnectionLost, Resume, SendRequest,
       HandlerRaises
  <1> QED BY <1>4, <1>5, <1>6, <1>7

LEMMA RequestsAreCalm ==
    ASSUME HeldInv, NobodyLeft, NobodyLeft', NoneFails, NEW c \in Clients, HandleRequest(c)
    PROVE  Calm
  <1> DEFINE request == Head(inbox[c])
  <1>1. TypesInv /\ TasksKept /\ Responds
    BY HandlerStepsAreOther DEF HeldInv, DeliveryInv
  <1>2. /\ request \in Requests /\ request # Undecodable /\ Dispatch(c, request)
        /\ conn[c] = "open" /\ Write(c, Response(request), Handler) /\ UNCHANGED tasks
    BY <1>1 DEF HandleRequest, NobodyLeft, TypesInv, ConnectionTypes
  <1> HIDE DEF request
  <1>3. request.kind # "unsubscribe"
    <2> SUFFICES ASSUME request.kind = "unsubscribe" PROVE FALSE
      OBVIOUS
    <2>1. Response(request) \in Frame /\ Response(request).kind = "unsubscribed"
      BY <1>1, <1>2, ResponseIsFrame DEF Response, TypesInv
    <2>2. Appends(c, Response(request)) /\ ConnectionTypes
      BY <1>1, <1>2 DEF Write, Appends, TypesInv
    <2>3. \E i \in DOMAIN written'[c] : written'[c][i] = Response(request)
      BY <2>1, <2>2, FrameAppended
    <2> QED BY <2>1, <2>3 DEF NobodyLeft
  <1>4. SubscriptionsStay
    <2>1. RegisterSubscription(c, request.agents) \/ UNCHANGED registryVars
      BY <1>2, <1>3 DEF Dispatch
    <2>2. nextSub \notin DOMAIN subClients
      BY <1>1, RegistryBounds
    <2> QED BY <2>1, <2>2 DEF SubscriptionsStay, RegisterSubscription, With, registryVars
  <1>5. PlacesKept
    <2>1. drain \in [Clients -> Seq(Nat)] /\ Handler \in Nat
          /\ \A t \in DOMAIN tasks : t # Handler
      BY <1>1, RegistryBounds DEF TypesInv, TurnInv, Handler
    <2>2. drain' = drain \/ drain' = [drain EXCEPT ![c] = Append(@, Handler)]
      BY <1>2, <2>1, WriteJoins
    <2>3. CASE drain' = [drain EXCEPT ![c] = Append(@, Handler)]
      <3>1. /\ \A d \in Clients : \A x :
                 InQueue(d, x)' <=> InQueue(d, x) \/ (d = c /\ x = Handler)
            /\ \A d \in Clients : \A x, y : Behind(d, x, y) => Behind(d, x, y)'
        BY <2>1, <2>3, QueueGrows
      <3> QED BY <2>1, <3>1, Zenon DEF PlacesKept
    <2> QED BY <2>2, <2>3, PlacesStay
  <1>6. NoneFails'
    BY <1>2 DEF NoneFails
  <1> QED BY <1>1, <1>4, <1>5, <1>6, CalmIs

LEMMA PublishingTells ==
    ASSUME HeldInv, NobodyLeft, InOrder, NEW t \in DOMAIN tasks, Publishing(t)
    PROVE  Calm \/ StartPublish(t) \/ \E s : Tells(t, s)
  <1>1. /\ TypesInv /\ tasks[t] \in Task /\ tasks \in Seq(Task)
        /\ drain \in [Clients -> Seq(Nat)]
        /\ current = t => tasks[t].pc = "running"
        /\ \A s \in DOMAIN subClients : subClients[s] \in Clients
        /\ NoneFails /\ \A s \in tasks[t].pending : s \in DOMAIN subClients
    BY RegistryBounds DEF HeldInv, DeliveryInv, TypesInv, TurnInv, InOrder, AudiencesThere,
       TaskInv
  <1>2. ~PublishAwaitRaises(t)
    BY <1>1 DEF PublishAwaitRaises, NoneFails
  <1>3. \A s \in DOMAIN subClients : ~PublishAwaitsClose(t, s) /\ ~PublishRaises(t, s)
    BY <1>1 DEF PublishAwaitsClose, PublishRaises, NobodyLeft
  <1>4. CASE PublishEnds(t)
    <2>1. /\ UNCHANGED << drain, registryVars >> /\ tasks[t].pending = {}
          /\ tasks[t].pc # "queued" /\ tasks' = [tasks EXCEPT ![t].pc = "done"]
      BY <1>1, <1>4 DEF PublishEnds, connectionVars
    <2>2. TasksKept /\ Responds
      <3>1. ~StartPublish(t) /\ ~TakesTurn(t)
        BY <2>1 DEF StartPublish, TakesTurn
      <3> QED BY <1>1, <3>1, PublishingIs
    <2>3. NoneFails'
      <3>1. \A u \in DOMAIN tasks' :
              u \in DOMAIN tasks /\ tasks'[u].pc = IF u = t THEN "done" ELSE tasks[u].pc
        BY <1>1, <2>1 DEF Task
      <3> QED BY <1>1, <3>1 DEF NoneFails
    <2>4. SubscriptionsStay
      BY <2>1 DEF SubscriptionsStay, registryVars
    <2> QED BY <2>1, <2>2, <2>3, <2>4, CalmIs, PlacesStay
  <1>5. ASSUME NEW s, IsNext(t, s), PublishWrites(t, s), current = t, s \in DOMAIN subClients,
               UNCHANGED registryVars
        PROVE  Tells(t, s)
    <2>1. \/ OnlyTask(t, tasks[t].audience, tasks[t].pending \ {s}, "running")
          \/ OnlyTask(t, tasks[t].audience, tasks[t].pending \ {s}, "drain")
      <3>1. CASE tasks' = [tasks EXCEPT ![t].pending = @ \ {s}]
        BY <1>1, <1>5, <3>1 DEF OnlyTask, Task
      <3>2. CASE tasks' = [tasks EXCEPT ![t].pc = "drain", ![t].pending = @ \ {s}]
        BY <1>1, <1>5, <3>2 DEF OnlyTask, Task
      <3> QED BY <1>5, <3>1, <3>2 DEF PublishWrites
    <2>2. Write(subClients[s], Notification(t, s), t)
      BY <1>5 DEF PublishWrites
    <2>3. Appends(subClients[s], Notification(t, s))
      BY <2>2 DEF Write, Appends
    <2>4. \/ UNCHANGED drain /\ drain[subClients[s]] = << >>
          \/ drain' = [drain EXCEPT ![subClients[s]] = Append(@, t)]
      BY <2>2 DEF Write
    <2> QED BY <1>1, <1>5, <2>1, <2>3, <2>4 DEF Tells
  <1>6. ASSUME NEW s \in tasks[t].pending, IsNext(t, s), PublishSkips(t, s) \/ PublishSends(t, s)
        PROVE  Tells(t, s)
    BY <1>1, <1>3, <1>5, <1>6 DEF PublishSkips, PublishSends
  <1> QED BY <1>2, <1>4, <1>6 DEF Publishing

LEMMA StopIsCalm ==
    ASSUME HeldInv, NobodyLeft, NoneFails, StopBegins \/ StopEnds \/ UNCHANGED fanoutVars
    PROVE  Calm
  <1>1. UNCHANGED << written, tasks, drain >>
    BY DEF StopBegins, StopEnds, fanoutVars, connectionVars
  <1>2. TasksKept /\ NoneFails' /\ Responds
    BY <1>1 DEF TasksKept, NoneFails, Responds
  <1>3. SubscriptionsStay
    <2>1. CASE UNCHANGED subClients
      BY <2>1 DEF SubscriptionsStay
    <2>2. CASE StopEnds
      <3>1. /\ \A c \in Clients : handler[c] \in {"none", "done"}
            /\ RegistryAgreement /\ DOMAIN clientSubs \subseteq Clients
        BY <2>2 DEF StopEnds, HeldInv, DeliveryInv, TypesInv, WireInv, RegistryInv
      <3>2. DOMAIN subClients = {}
        BY <3>1 DEF RegistryAgreement
      <3> QED BY <3>2 DEF SubscriptionsStay
    <2> QED BY <2>1, <2>2 DEF StopBegins, fanoutVars, registryVars
  <1> QED BY <1>1, <1>2, <1>3, CalmIs, PlacesStay

LEMMA NextKeepsOrder == OrderInv /\ [Next]_fanoutVars => OrderInv'
  <1> SUFFICES ASSUME OrderInv, [Next]_fanoutVars PROVE OrderInv'
    OBVIOUS
  <1>1. HeldInv /\ HeldInv' /\ DeliveryInv /\ TypesInv
    BY NextKeepsHeld DEF OrderInv, HeldInv, DeliveryInv
  <1> SUFFICES ASSUME NobodyLeft' PROVE InOrder'
    BY <1>1 DEF OrderInv
  <1>2. NobodyLeft /\ InOrder /\ NoneFails
    BY <1>1, LeavingIsForEver DEF OrderInv, InOrder
  <1>3. CASE Calm
    BY <1>1, <1>2, <1>3, CalmKeepsOrder
  <1>4. ASSUME NEW c \in Clients PROVE ~HandlerEnds(c)
    <2> SUFFICES ASSUME HandlerEnds(c) PROVE FALSE
      OBVIOUS
    <2>1. handler'[c] = "done"
      BY <1>1 DEF HandlerEnds, TypesInv, TurnInv
    <2>2. HandlerHeld(c)'
      BY <1>1 DEF HeldInv, NobodyForgotten
    <2> QED BY <2>1, <2>2 DEF HandlerHeld, NobodyLeft, Ended
  <1>5. ASSUME NEW t \in DOMAIN tasks, Publishing(t) PROVE InOrder'
    BY <1>1, <1>2, <1>3, <1>5, PublishingTells, StartKeepsOrder, TellsKeepsOrder
  <1>6. ASSUME NEW a \in Agents, Emit(a) PROVE InOrder'
    BY <1>1, <1>2, <1>6, EmitKeepsOrder
  <1>7. ASSUME NEW c \in Clients, HandleRequest(c) PROVE Calm
    BY <1>1, <1>2, <1>7, RequestsAreCalm
  <1>8. ASSUME NEW c \in Clients,
               \/ Connect(c) \/ CloseConnection(c) \/ ConnectionClosed(c)
               \/ ConnectionLost(c) \/ Resume(c)
               \/ \E request \in Requests : SendRequest(c, request)
               \/ HandlerRaises(c) \/ DrainReturns(c) \/ DrainRaises(c)
        PROVE  Calm
    BY <1>1, <1>2, <1>8, ConnectionStepsAreCalm
  <1>9. CASE StopBegins \/ StopEnds \/ UNCHANGED fanoutVars
    BY <1>1, <1>2, <1>3, <1>9, StopIsCalm
  <1> QED BY <1>3, <1>4, <1>5, <1>6, <1>7, <1>8, <1>9 DEF Next

LEMMA InitEstablishesOrder == Init => OrderInv
  <1> SUFFICES ASSUME Init PROVE OrderInv
    OBVIOUS
  <1>1. DOMAIN tasks = {} /\ \A c \in Clients : DOMAIN written[c] = {}
    BY DEF Init
  <1> QED BY <1>1, InitEstablishesHeld DEF OrderInv, InOrder, AudiencesThere, NoneFails,
             StartedInOrder, OlderAhead, QueuesInOrder, FramesInOrder

(* As long as nobody leaves, a subscription sees the events of an agent in *)
(* the order in which they happened, although every event is published by  *)
(* a task of its own and any of them may be held up by a slow client.      *)
THEOREM OrderIsKept == Spec => []EventsInOrder
  <1>1. OrderInv => EventsInOrder
    BY DEF OrderInv, InOrder, FramesInOrder, EventsInOrder
  <1> QED BY <1>1, InitEstablishesOrder, NextKeepsOrder, PTL DEF Spec

=============================================================================
