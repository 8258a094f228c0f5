--------------------- MODULE EventFanoutDelivery_proofs ---------------------
(***************************************************************************)
(* What publish tasks and snapshots promise, for every set of connections, *)
(* agents and requests and every number of events: a task that ends        *)
(* normally has told everyone, a subscription is offered an event once and *)
(* only if it asked for it, and a snapshot and the stream miss nothing.    *)
(***************************************************************************)
EXTENDS EventFanout_proofs, FiniteSetTheorems, WellFoundedInduction

TaskStates == {"queued", "running", "drain", "ensure_open", "done", "failed"}
Task == [agent : Agents, at : SUBSET Clients, pc : TaskStates,
         audience : SUBSET (Nat \ {0}), pending : SUBSET (Nat \ {0})]

-----------------------------------------------------------------------------
(* Types, and who waits where                                              *)

RegistryTypes ==
    /\ nextSub \in Nat \ {0} /\ DOMAIN subscriptions \subseteq 1 .. nextSub - 1
    /\ subscriptions \in [DOMAIN subscriptions -> SUBSET Agents]
    /\ subClients \in [DOMAIN subClients -> Clients]
    /\ DOMAIN clientSubs \subseteq Clients
    /\ clientSubs \in [DOMAIN clientSubs -> SUBSET (1 .. nextSub - 1)]

LEMMA NextKeepsRegistryTypes ==
    ASSUME RegistryTypes, inbox \in [Clients -> Seq(Requests)], [Next]_fanoutVars
    PROVE  RegistryTypes' /\ nextSub' >= nextSub
  <1>1. CASE UNCHANGED registryVars
    BY <1>1 DEF RegistryTypes, registryVars
  <1>2. ASSUME NEW c \in Clients, NEW sub, DropSubscription(c, sub)
        PROVE  RegistryTypes' /\ nextSub' >= nextSub
    BY <1>2 DEF RegistryTypes, DropSubscription, Without
  <1>3. ASSUME NEW c \in Clients, NEW agent_ids \in SUBSET Agents,
               RegisterSubscription(c, agent_ids)
        PROVE  RegistryTypes' /\ nextSub' >= nextSub
    <2>1. nextSub' \in Nat \ {0} /\ nextSub' = nextSub + 1
      BY <1>3 DEF RegistryTypes, RegisterSubscription
    <2>2. /\ DOMAIN subscriptions' \subseteq 1 .. nextSub' - 1
          /\ subscriptions' \in [DOMAIN subscriptions' -> SUBSET Agents]
      BY <1>3, <2>1 DEF RegistryTypes, RegisterSubscription, With
    <2>3. subClients' \in [DOMAIN subClients' -> Clients]
      BY <1>3 DEF RegistryTypes, RegisterSubscription, With
    <2>4. /\ DOMAIN clientSubs' \subseteq Clients
          /\ clientSubs' \in [DOMAIN clientSubs' -> SUBSET (1 .. nextSub' - 1)]
      BY <1>3, <2>1 DEF RegistryTypes, RegisterSubscription, With
    <2> QED BY <2>1, <2>2, <2>3, <2>4 DEF RegistryTypes
  <1>4. ASSUME NEW c \in Clients, HandleRequest(c)
        PROVE  RegistryTypes' /\ nextSub' >= nextSub
    <2> DEFINE request == Head(inbox[c])
    <2>1. Dispatch(c, request) /\ request \in Requests
      BY <1>4 DEF HandleRequest
    <2>2. CASE request.kind = "subscribe"
      <3>1. request.agents \in SUBSET Agents
        BY <2>1, <2>2, RequestsAreRequests DEF Undecodable, Other
      <3> QED BY <1>3, <2>1, <2>2, <3>1 DEF Dispatch
    <2>3. CASE request.kind = "unsubscribe"
      BY <1>2, <2>1, <2>3 DEF Dispatch
    <2>4. CASE request.kind \notin {"subscribe", "unsubscribe"}
      BY <1>1, <2>1, <2>4 DEF Dispatch
    <2> QED BY <2>2, <2>3, <2>4
  <1>5. ASSUME NEW c \in Clients, HandlerEnds(c)
        PROVE  RegistryTypes' /\ nextSub' >= nextSub
    BY <1>5 DEF HandlerEnds, Cleanup, RegistryTypes, Without
  <1>6. CASE StopEnds
    BY <1>6 DEF StopEnds, RegistryTypes, Without
  <1>7. \/ UNCHANGED registryVars \/ StopEnds
        \/ \E c \in Clients : HandleRequest(c) \/ HandlerEnds(c)
    BY DEF Next, Connect, CloseConnection, ConnectionClosed, ConnectionLost, Resume,
       SendRequest, HandlerRaises, DrainReturns, DrainRaises, Emit, Publishing,
       StartPublish, PublishSkips, PublishSends, PublishEnds, PublishAwaitRaises,
       StopBegins, fanoutVars
  <1> QED BY <1>1, <1>4, <1>5, <1>6, <1>7

(* A sender waits at most once, and is where it waits from.                *)
Waiting(c, w) == IF w = Handler THEN handler[c] = "drain"
                 ELSE w \in DOMAIN tasks /\ tasks[w].pc = "drain"

Alone ==
    \A c, d \in Clients : \A i \in DOMAIN drain[c], j \in DOMAIN drain[d] :
        drain[c][i] = drain[d][j] /\ (c = d \/ drain[c][i] # Handler) => c = d /\ i = j

TurnInv ==
    /\ tasks \in Seq(Task) /\ Len(tasks) <= MaxEmitted
    /\ handler \in [Clients -> HandlerStates]
    /\ drain \in [Clients -> Seq(Nat)] /\ Alone
    /\ \A c \in Clients : \A i \in DOMAIN drain[c] : Waiting(c, drain[c][i])
    /\ current \in {Nobody} \cup DOMAIN tasks \cup Clients
    /\ current \in DOMAIN tasks => tasks[current].pc = "running"

(* Sender w, who waits nowhere, joins the queue of connection c.           *)
Joins(c, w) ==
    /\ drain' = [drain EXCEPT ![c] = Append(@, w)]
    /\ \A i \in DOMAIN drain[c] : drain[c][i] # w
    /\ w # Handler => \A d \in Clients : \A i \in DOMAIN drain[d] : drain[d][i] # w

LEMMA JoinQueue ==
    ASSUME drain \in [Clients -> Seq(Nat)], Alone, NEW c \in Clients, NEW w \in Nat,
           Joins(c, w)
    PROVE  /\ drain' \in [Clients -> Seq(Nat)] /\ Alone' /\ drain'[c] # drain[c]
           /\ \A d \in Clients : \A i \in DOMAIN drain'[d] :
                \/ d = c /\ drain'[d][i] = w
                \/ i \in DOMAIN drain[d] /\ drain'[d][i] = drain[d][i]
  <1>1. /\ drain' \in [Clients -> Seq(Nat)]
        /\ \A d \in Clients \ {c} : drain'[d] = drain[d]
        /\ drain'[c] = Append(drain[c], w) /\ drain[c] \in Seq(Nat)
    BY DEF Joins
  <1>2. /\ Len(drain[c]) \in Nat /\ DOMAIN drain[c] = 1 .. Len(drain[c])
        /\ DOMAIN drain'[c] = 1 .. Len(drain[c]) + 1
        /\ drain'[c][Len(drain[c]) + 1] = w
        /\ \A i \in 1 .. Len(drain[c]) : drain'[c][i] = drain[c][i]
    BY <1>1
  <1>3. \A d \in Clients : \A i \in DOMAIN drain'[d] :
          \/ d = c /\ i = Len(drain[c]) + 1 /\ drain'[d][i] = w
          \/ i \in DOMAIN drain[d] /\ drain'[d][i] = drain[d][i]
    <2> SUFFICES ASSUME NEW d \in Clients, NEW i \in DOMAIN drain'[d]
                 PROVE  \/ d = c /\ i = Len(drain[c]) + 1 /\ drain'[d][i] = w
                        \/ i \in DOMAIN drain[d] /\ drain'[d][i] = drain[d][i]
      OBVIOUS
    <2>1. CASE d = c
      <3>1. i \in 1 .. Len(drain[c]) \/ i = Len(drain[c]) + 1
        BY <1>2, <2>1
      <3> QED BY <1>2, <2>1, <3>1
    <2>2. CASE d # c
      BY <1>1, <2>2
    <2> QED BY <2>1, <2>2
  <1>4. drain'[c] # drain[c]
    <2>1. Len(drain[c]) + 1 \in DOMAIN drain'[c] \ DOMAIN drain[c]
      BY <1>2
    <2> QED BY <2>1
  <1>5. Alone'
    <2> SUFFICES ASSUME NEW d \in Clients, NEW e \in Clients,
                        NEW i \in DOMAIN drain'[d], NEW j \in DOMAIN drain'[e],
                        drain'[d][i] = drain'[e][j],
                        d = e \/ drain'[d][i] # Handler
                 PROVE  d = e /\ i = j
      BY DEF Alone
    <2>1. CASE i \in DOMAIN drain[d] /\ drain'[d][i] = drain[d][i]
      <3>1. drain[d][i] # w \/ (w = Handler /\ d # c)
        BY <2>1 DEF Joins, Handler
      <3>2. j \in DOMAIN drain[e] /\ drain'[e][j] = drain[e][j]
        BY <1>3, <2>1, <3>1
      <3>3. drain[d][i] = drain[e][j] /\ (d = e \/ drain[d][i] # Handler)
        BY <2>1, <3>2
      <3> QED BY <2>1, <3>2, <3>3 DEF Alone
    <2>2. CASE d = c /\ i = Len(drain[c]) + 1 /\ drain'[d][i] = w
      <3>1. \A k \in DOMAIN drain[e] : k \in DOMAIN drain'[e] => drain[e][k] # w \/ (w = Handler /\ e # c)
        BY DEF Joins
      <3>2. drain'[e][j] = w /\ (w = Handler => e = c)
        BY <2>2
      <3>3. e = c /\ j = Len(drain[c]) + 1
        BY <1>3, <3>1, <3>2
      <3> QED BY <2>2, <3>3
    <2> QED BY <1>3, <2>1, <2>2
  <1> QED BY <1>1, <1>3, <1>4, <1>5

LEMMA AloneIsOne ==
    ASSUME Alone, NEW c \in Clients, NEW d \in Clients,
           NEW i \in DOMAIN drain[c], NEW j \in DOMAIN drain[d],
           drain[c][i] = drain[d][j], c = d \/ drain[c][i] # Handler
    PROVE  c = d /\ i = j
    BY DEF Alone

LEMMA LeaveQueue ==
    ASSUME drain \in [Clients -> Seq(Nat)], Alone, NEW c \in Clients,
           drain[c] # << >>, drain' = [drain EXCEPT ![c] = Tail(@)]
    PROVE  /\ drain' \in [Clients -> Seq(Nat)] /\ Alone' /\ Head(drain[c]) \in Nat
           /\ 1 \in DOMAIN drain[c] /\ drain[c][1] = Head(drain[c])
           /\ \A d \in Clients : \A i \in DOMAIN drain'[d] :
                /\ \E j \in DOMAIN drain[d] : drain'[d][i] = drain[d][j]
                /\ d = c \/ Head(drain[c]) # Handler => drain'[d][i] # Head(drain[c])
  <1>1. /\ drain' \in [Clients -> Seq(Nat)]
        /\ \A d \in Clients \ {c} : drain'[d] = drain[d]
        /\ drain'[c] = Tail(drain[c]) /\ drain[c] \in Seq(Nat)
    OBVIOUS
  <1>2. /\ Len(drain[c]) \in Nat /\ DOMAIN drain[c] = 1 .. Len(drain[c])
        /\ DOMAIN drain'[c] = 1 .. Len(drain[c]) - 1
        /\ \A i \in 1 .. Len(drain[c]) - 1 : drain'[c][i] = drain[c][i + 1]
        /\ Head(drain[c]) \in Nat
        /\ 1 \in DOMAIN drain[c] /\ drain[c][1] = Head(drain[c])
    BY <1>1
  <1> DEFINE at(d, i) == IF d = c THEN i + 1 ELSE i
  <1>3. \A d \in Clients : \A i \in DOMAIN drain'[d] :
          /\ at(d, i) \in DOMAIN drain[d] /\ drain'[d][i] = drain[d][at(d, i)]
          /\ i \in Nat /\ (d = c => at(d, i) # 1)
    BY <1>1, <1>2
  <1>4. \A d \in Clients : \A i, j \in DOMAIN drain'[d] : at(d, i) = at(d, j) => i = j
    BY <1>3
  <1> HIDE DEF at
  <1>5. Alone'
    <2> SUFFICES ASSUME NEW d \in Clients, NEW e \in Clients,
                        NEW i \in DOMAIN drain'[d], NEW j \in DOMAIN drain'[e],
                        drain'[d][i] = drain'[e][j],
                        d = e \/ drain'[d][i] # Handler
                 PROVE  d = e /\ i = j
      BY DEF Alone
    <2>1. /\ at(d, i) \in DOMAIN drain[d] /\ drain'[d][i] = drain[d][at(d, i)]
          /\ at(e, j) \in DOMAIN drain[e] /\ drain'[e][j] = drain[e][at(e, j)]
      BY <1>3
    <2>2. drain[d][at(d, i)] = drain[e][at(e, j)] /\ (d = e \/ drain[d][at(d, i)] # Handler)
      BY <2>1, Zenon
    <2>3. d = e /\ at(d, i) = at(e, j)
      BY <2>1, <2>2, AloneIsOne
    <2> QED BY <1>4, <2>3, Zenon
  <1>6. \A d \in Clients : \A i \in DOMAIN drain'[d] :
          d = c \/ Head(drain[c]) # Handler => drain'[d][i] # Head(drain[c])
    BY <1>2, <1>3 DEF Alone
  <1> QED BY <1>1, <1>2, <1>3, <1>5, <1>6

LEMMA TaskChanges ==
    ASSUME tasks \in Seq(Task), NEW t \in DOMAIN tasks, NEW r \in Task,
           tasks' = [tasks EXCEPT ![t] = r]
    PROVE  /\ tasks' \in Seq(Task) /\ Len(tasks') = Len(tasks)
           /\ DOMAIN tasks' = DOMAIN tasks /\ tasks'[t] = r
           /\ \A u \in DOMAIN tasks \ {t} : tasks'[u] = tasks[u]
    OBVIOUS

LEMMA TurnStays ==
    ASSUME TurnInv, handler' \in [Clients -> HandlerStates], UNCHANGED << tasks, drain >>,
           current' \in {Nobody, current} \cup Clients,
           \A c \in Clients : \A i \in DOMAIN drain[c] :
             drain[c][i] = Handler => handler'[c] = "drain"
    PROVE  TurnInv'
  <1>1. /\ tasks' \in Seq(Task) /\ Len(tasks') <= MaxEmitted
        /\ drain' \in [Clients -> Seq(Nat)] /\ Alone'
    BY DEF TurnInv, Alone
  <1>2. ASSUME NEW c \in Clients, NEW i \in DOMAIN drain'[c]
        PROVE  Waiting(c, drain[c][i])'
    <2>1. i \in DOMAIN drain[c] /\ Waiting(c, drain[c][i]) /\ drain'[c][i] = drain[c][i]
      BY DEF TurnInv
    <2>2. CASE drain[c][i] = Handler
      BY <2>1, <2>2 DEF Waiting
    <2>3. CASE drain[c][i] # Handler
      BY <2>1, <2>3 DEF Waiting
    <2> QED BY <2>2, <2>3
  <1>3. /\ current' \in {Nobody} \cup DOMAIN tasks' \cup Clients
        /\ current' \in DOMAIN tasks' => tasks'[current'].pc = "running"
    <2>1. DOMAIN tasks = 1 .. Len(tasks) /\ Len(tasks) \in Nat
      BY DEF TurnInv
    <2>2. \A u \in DOMAIN tasks : u \in Nat \ {0} /\ u \notin Clients
      BY <2>1, ClientsAreNotTasks
    <2>3. CASE current' = current
      BY <2>3 DEF TurnInv
    <2>4. CASE current' \in {Nobody} \cup Clients
      BY <2>2, <2>4 DEF Nobody
    <2> QED BY <2>3, <2>4
  <1> QED BY <1>1, <1>2, <1>3 DEF TurnInv

(* Task t, which is not in a queue, changes to r, and may join one.        *)
LEMMA TaskTurn ==
    ASSUME TurnInv, UNCHANGED handler, NEW t \in DOMAIN tasks, tasks[t].pc # "drain",
           NEW r \in Task, tasks' = [tasks EXCEPT ![t] = r],
           \/ /\ drain' = drain
              /\ current' = Nobody \/ (current' = t /\ r.pc = "running")
           \/ /\ \E c \in Clients : drain' = [drain EXCEPT ![c] = Append(@, t)]
              /\ current' = Nobody /\ r.pc = "drain"
    PROVE  TurnInv'
  <1>1. /\ tasks' \in Seq(Task) /\ Len(tasks') = Len(tasks)
        /\ DOMAIN tasks' = DOMAIN tasks /\ tasks'[t] = r
        /\ \A u \in DOMAIN tasks \ {t} : tasks'[u] = tasks[u]
    BY TaskChanges DEF TurnInv
  <1>2. /\ DOMAIN tasks \subseteq Nat \ {0} /\ t \in Nat /\ t # Handler
        /\ \A d \in Clients : \A i \in DOMAIN drain[d] : drain[d][i] # t
    BY DEF TurnInv, Waiting, Handler
  <1> DEFINE Waits2(d, w) == IF w = Handler THEN handler'[d] = "drain"
                             ELSE w \in DOMAIN tasks' /\ tasks'[w].pc = "drain"
  <1>3. \A d \in Clients, w \in Nat : w # t /\ Waiting(d, w) => Waits2(d, w)
    BY <1>1 DEF Waiting
  <1>4. /\ current' \in {Nobody} \cup DOMAIN tasks' \cup Clients
        /\ current' \in DOMAIN tasks' => tasks'[current'].pc = "running"
    BY <1>1, <1>2 DEF Nobody
  <1>5. CASE drain' = drain
    <2>1. \A c \in Clients : \A i \in DOMAIN drain[c] : drain[c][i] \in Nat
      BY DEF TurnInv
    <2> HIDE DEF Waits2
    <2>2. \A c \in Clients : \A i \in DOMAIN drain'[c] : Waits2(c, drain'[c][i])
      BY <1>2, <1>3, <1>5, <2>1 DEF TurnInv
    <2> QED BY <1>1, <1>4, <1>5, <2>2 DEF TurnInv, Alone, Waiting, Waits2
  <1>6. ASSUME NEW c \in Clients, drain' = [drain EXCEPT ![c] = Append(@, t)],
               r.pc = "drain"
        PROVE  TurnInv'
    <2>1. /\ drain' \in [Clients -> Seq(Nat)] /\ Alone'
          /\ \A d \in Clients : \A i \in DOMAIN drain'[d] :
               \/ d = c /\ drain'[d][i] = t
               \/ i \in DOMAIN drain[d] /\ drain'[d][i] = drain[d][i]
      <3>1. drain \in [Clients -> Seq(Nat)] /\ Alone
        BY DEF TurnInv
      <3>2. Joins(c, t)
        BY <1>2, <1>6 DEF Joins
      <3> QED BY <1>2, <3>1, <3>2, JoinQueue
    <2>2. Waits2(c, t)
      BY <1>1, <1>2, <1>6
    <2>3. \A d \in Clients : \A i \in DOMAIN drain[d] : drain[d][i] \in Nat
      BY DEF TurnInv
    <2> HIDE DEF Waits2
    <2>4. \A d \in Clients : \A i \in DOMAIN drain'[d] : Waits2(d, drain'[d][i])
      BY <1>2, <1>3, <2>1, <2>2, <2>3 DEF TurnInv
    <2> QED BY <1>1, <1>4, <2>1, <2>4 DEF TurnInv, Waiting, Waits2
  <1> QED BY <1>5, <1>6

LEMMA WriteJoins ==
    ASSUME drain \in [Clients -> Seq(Nat)], NEW c \in Clients, NEW f, NEW w, Write(c, f, w)
    PROVE  /\ drain' = drain \/ drain' = [drain EXCEPT ![c] = Append(@, w)]
           /\ Waits(c) => drain' = [drain EXCEPT ![c] = Append(@, w)]
    BY DEF Write, Waits

LEMMA PublishingKeepsTurnInv ==
    ASSUME TurnInv, RegistryTypes, NEW t \in DOMAIN tasks, Publishing(t)
    PROVE  TurnInv'
  <1>1. /\ tasks[t] \in Task /\ t \in Nat \ {0} /\ t # Nobody /\ handler' = handler
        /\ current = t => tasks[t].pc = "running"
        /\ drain \in [Clients -> Seq(Nat)] /\ subClients \in [DOMAIN subClients -> Clients]
    BY DEF TurnInv, RegistryTypes, Publishing, StartPublish, PublishSkips, PublishSends,
       PublishEnds, PublishAwaitRaises, Nobody
  <1>2. CASE StartPublish(t)
    <2> DEFINE r == [tasks[t] EXCEPT !.pc = "running", !.audience = Audience(tasks[t].agent),
                                     !.pending = Audience(tasks[t].agent)]
    <2>1. Audience(tasks[t].agent) \in SUBSET (Nat \ {0})
      BY DEF Audience, RegistryTypes
    <2>2. r \in Task /\ r.pc = "running"
      BY <1>1, <2>1 DEF Task, TaskStates
    <2>3. /\ tasks' = [tasks EXCEPT ![t] = r] /\ drain' = drain /\ current' = t
          /\ tasks[t].pc # "drain"
      BY <1>2 DEF StartPublish, connectionVars
    <2> HIDE DEF r
    <2> QED BY <1>1, <2>2, <2>3, TaskTurn
  <1>3. ASSUME NEW s, PublishSkips(t, s) PROVE TurnInv'
    <2> DEFINE r == [tasks[t] EXCEPT !.pending = @ \ {s}]
    <2>1. r \in Task /\ r.pc = "running"
      BY <1>1, <1>3 DEF Task, PublishSkips
    <2>2. /\ tasks' = [tasks EXCEPT ![t] = r] /\ drain' = drain /\ current' = t
          /\ tasks[t].pc # "drain"
      BY <1>1, <1>3 DEF PublishSkips, connectionVars
    <2> HIDE DEF r
    <2> QED BY <1>1, <2>1, <2>2, TaskTurn
  <1>4. ASSUME NEW s \in DOMAIN subClients, PublishWrites(t, s), current = t
        PROVE  TurnInv'
    <2> DEFINE c == subClients[s]
               r == [tasks[t] EXCEPT !.pending = @ \ {s}]
               q == [tasks[t] EXCEPT !.pc = "drain", !.pending = @ \ {s}]
    <2>1. r \in Task /\ r.pc = "running" /\ q \in Task /\ q.pc = "drain"
      BY <1>1, <1>4 DEF Task, TaskStates
    <2>2. /\ c \in Clients /\ tasks[t].pc # "drain"
          /\ drain' = drain \/ drain' = [drain EXCEPT ![c] = Append(@, t)]
          /\ Waits(c) => drain' = [drain EXCEPT ![c] = Append(@, t)]
      BY <1>1, <1>4, WriteJoins DEF PublishWrites
    <2>3. IF Waits(c) THEN tasks' = [tasks EXCEPT ![t] = q] /\ current' = Nobody
                      ELSE tasks' = [tasks EXCEPT ![t] = r] /\ current' = t
      BY <1>4 DEF PublishWrites
    <2>4. ~Waits(c) => drain' = drain
      <3>1. CASE drain' = [drain EXCEPT ![c] = Append(@, t)]
        <4>1. drain'[c] = Append(drain[c], t) /\ drain[c] \in Seq(Nat)
          BY <1>1, <2>2, <3>1
        <4>2. Len(drain[c]) + 1 \in DOMAIN drain'[c] \ DOMAIN drain[c]
          BY <1>1, <4>1
        <4> QED BY <4>2 DEF Waits
      <3> QED BY <2>2, <3>1
    <2> HIDE DEF c, r, q
    <2> QED BY <1>1, <2>1, <2>2, <2>3, <2>4, TaskTurn
  <1>5. ASSUME NEW r \in Task, tasks' = [tasks EXCEPT ![t] = r], drain' = drain,
               current' = Nobody, tasks[t].pc # "drain"
        PROVE  TurnInv'
    BY <1>1, <1>5, TaskTurn
  <1>6. CASE PublishEnds(t) \/ PublishAwaitRaises(t)
    <2>1. /\ [tasks[t] EXCEPT !.pc = "done"] \in Task
          /\ [tasks[t] EXCEPT !.pc = "failed"] \in Task
      BY <1>1 DEF Task, TaskStates
    <2>2. /\ \/ tasks' = [tasks EXCEPT ![t] = [tasks[t] EXCEPT !.pc = "done"]]
             \/ tasks' = [tasks EXCEPT ![t] = [tasks[t] EXCEPT !.pc = "failed"]]
          /\ drain' = drain /\ current' = Nobody /\ tasks[t].pc # "drain"
      BY <1>1, <1>6 DEF PublishEnds, PublishAwaitRaises, connectionVars
    <2> QED BY <1>5, <2>1, <2>2
  <1>7. ASSUME NEW s \in DOMAIN subClients, current = t,
               PublishAwaitsClose(t, s) \/ PublishRaises(t, s)
        PROVE  TurnInv'
    <2>1. /\ [tasks[t] EXCEPT !.pc = "ensure_open", !.at = {subClients[s]}] \in Task
          /\ [tasks[t] EXCEPT !.pc = "failed"] \in Task
      BY <1>1 DEF Task, TaskStates
    <2>2. /\ \/ tasks' = [tasks EXCEPT ![t] = [tasks[t] EXCEPT !.pc = "failed"]]
             \/ tasks' = [tasks EXCEPT ![t] = [tasks[t] EXCEPT !.pc = "ensure_open",
                                                               !.at = {subClients[s]}]]
          /\ drain' = drain /\ current' = Nobody /\ tasks[t].pc # "drain"
      BY <1>1, <1>7 DEF PublishAwaitsClose, PublishRaises, connectionVars
    <2> QED BY <1>5, <2>1, <2>2
  <1> QED BY <1>2, <1>3, <1>4, <1>6, <1>7 DEF Publishing, PublishSends

LEMMA NextKeepsTurnInv ==
    ASSUME TurnInv, WireInv, RegistryInv', RegistryTypes, [Next]_fanoutVars
    PROVE  TurnInv'
  <1>0. /\ handler' \in [Clients -> HandlerStates] /\ handler \in [Clients -> HandlerStates]
        /\ drain \in [Clients -> Seq(Nat)] /\ Alone
        /\ \A c \in Clients : \A i \in DOMAIN drain[c] : Waiting(c, drain[c][i])
        /\ tasks \in Seq(Task)
    BY DEF RegistryInv, TurnInv
  <1>1. ASSUME NEW c \in Clients, Connect(c) PROVE TurnInv'
    <2>1. drain[c] = << >>
      BY <1>1 DEF Connect, WireInv, Unserved
    <2>2. /\ UNCHANGED << tasks, drain, current >>
          /\ \A d \in Clients \ {c} : handler'[d] = handler[d]
      BY <1>0, <1>1 DEF Connect
    <2> QED BY <1>0, <2>1, <2>2, TurnStays DEF Waiting
  <1>2. ASSUME NEW c \in Clients,
               \/ CloseConnection(c) \/ ConnectionClosed(c) \/ ConnectionLost(c)
               \/ Resume(c) \/ \E request \in Requests : SendRequest(c, request)
        PROVE  TurnInv'
    <2>1. UNCHANGED << handler, tasks, drain, current >>
      BY <1>2 DEF CloseConnection, ConnectionClosed, ConnectionLost, Resume, SendRequest
    <2> QED BY <1>0, <2>1, TurnStays DEF Waiting
  <1>3. ASSUME NEW c \in Clients, HandlerRaises(c) \/ HandlerEnds(c) PROVE TurnInv'
    <2>1. /\ UNCHANGED << tasks, drain >> /\ current' \in {Nobody, c}
          /\ handler[c] # "drain"
          /\ \A d \in Clients \ {c} : handler'[d] = handler[d]
      BY <1>0, <1>3 DEF HandlerRaises, HandlerEnds
    <2> QED BY <1>0, <2>1, TurnStays DEF Waiting
  <1>4. ASSUME NEW c \in Clients, HandleRequest(c) PROVE TurnInv'
    <2>1. /\ UNCHANGED tasks /\ current' \in {current, c} /\ handler[c] = "recv"
          /\ \A d \in Clients \ {c} : handler'[d] = handler[d]
      BY <1>0, <1>4 DEF HandleRequest
    <2>2. \A i \in DOMAIN drain[c] : drain[c][i] # Handler
      BY <1>0, <2>1 DEF Waiting
    <2>3. CASE drain' = drain
      <3>1. \A d \in Clients : \A i \in DOMAIN drain[d] :
              drain[d][i] = Handler => handler'[d] = "drain"
        BY <1>0, <2>1, <2>2 DEF Waiting
      <3> QED BY <1>0, <2>1, <2>3, <3>1, TurnStays
    <2>4. CASE drain' = [drain EXCEPT ![c] = Append(@, Handler)] /\ drain' # drain
      <3>1. /\ drain' \in [Clients -> Seq(Nat)] /\ Alone' /\ drain'[c] # drain[c]
            /\ \A d \in Clients : \A i \in DOMAIN drain'[d] :
                 \/ d = c /\ drain'[d][i] = Handler
                 \/ i \in DOMAIN drain[d] /\ drain'[d][i] = drain[d][i]
        <4>1. Joins(c, Handler) /\ Handler \in Nat
          BY <2>2, <2>4 DEF Joins, Handler
        <4> QED BY <1>0, <4>1, JoinQueue
      <3>2. handler'[c] = "drain"
        BY <1>0, <1>4, <3>1 DEF HandleRequest, Waits
      <3>3. \A d \in Clients : \A i \in DOMAIN drain'[d] :
              IF drain'[d][i] = Handler THEN handler'[d] = "drain"
              ELSE drain'[d][i] \in DOMAIN tasks /\ tasks[drain'[d][i]].pc = "drain"
        <4> SUFFICES ASSUME NEW d \in Clients, NEW i \in DOMAIN drain'[d]
                     PROVE  IF drain'[d][i] = Handler THEN handler'[d] = "drain"
                            ELSE /\ drain'[d][i] \in DOMAIN tasks
                                 /\ tasks[drain'[d][i]].pc = "drain"
          OBVIOUS
        <4>1. CASE d = c /\ drain'[d][i] = Handler
          BY <3>2, <4>1
        <4>2. CASE i \in DOMAIN drain[d] /\ drain'[d][i] = drain[d][i]
          BY <1>0, <2>1, <3>2, <4>2 DEF Waiting
        <4> QED BY <3>1, <4>1, <4>2
      <3>4. current' \in {Nobody} \cup DOMAIN tasks \cup Clients
            /\ (current' \in DOMAIN tasks => tasks[current'].pc = "running")
        <4>1. c \notin DOMAIN tasks
          BY <1>0, ClientsAreNotTasks
        <4>2. current \in {Nobody} \cup DOMAIN tasks \cup Clients
              /\ (current \in DOMAIN tasks => tasks[current].pc = "running")
          BY DEF TurnInv
        <4> QED BY <2>1, <4>1, <4>2
      <3> QED BY <1>0, <2>1, <3>1, <3>3, <3>4 DEF TurnInv, Waiting
    <2>5. drain' = drain \/ drain' = [drain EXCEPT ![c] = Append(@, Handler)]
      BY <1>0, <1>4, WriteJoins DEF HandleRequest
    <2> QED BY <2>3, <2>4, <2>5
  <1>5. ASSUME NEW c \in Clients, DrainReturns(c) \/ DrainRaises(c) PROVE TurnInv'
    <2> DEFINE w == Head(drain[c])
    <2>1. current = Nobody /\ drain[c] # << >> /\ drain' = [drain EXCEPT ![c] = Tail(@)]
      BY <1>5 DEF DrainReturns, DrainRaises
    <2>2. /\ drain' \in [Clients -> Seq(Nat)] /\ Alone' /\ w \in Nat
          /\ 1 \in DOMAIN drain[c] /\ drain[c][1] = w
          /\ \A d \in Clients : \A i \in DOMAIN drain'[d] :
               /\ \E j \in DOMAIN drain[d] : drain'[d][i] = drain[d][j]
               /\ d = c \/ w # Handler => drain'[d][i] # w
      BY <1>0, <2>1, LeaveQueue
    <2>3. \A d \in Clients : \A i \in DOMAIN drain'[d] :
            Waiting(d, drain'[d][i]) /\ (d = c \/ w # Handler => drain'[d][i] # w)
      BY <1>0, <2>2
    <2>4. CASE w = Handler
      <3>1. /\ UNCHANGED tasks /\ current' \in {Nobody, c}
            /\ \A d \in Clients \ {c} : handler'[d] = handler[d]
        BY <1>0, <1>5, <2>1, <2>4 DEF DrainReturns, DrainRaises
      <3>2. current' \in {Nobody} \cup Clients /\ current' \notin DOMAIN tasks
        BY <1>0, <3>1, ClientsAreNotTasks DEF Nobody
      <3>3. \A d \in Clients : \A i \in DOMAIN drain'[d] :
              IF drain'[d][i] = Handler THEN handler'[d] = "drain"
              ELSE drain'[d][i] \in DOMAIN tasks /\ tasks[drain'[d][i]].pc = "drain"
        BY <2>3, <2>4, <3>1 DEF Waiting
      <3> QED BY <1>0, <2>2, <3>1, <3>2, <3>3 DEF TurnInv, Waiting
    <2>5. CASE w # Handler
      <3>1. w \in DOMAIN tasks /\ tasks[w] \in Task
        BY <1>0, <2>2, <2>5 DEF Waiting
      <3>2. PICK r \in Task :
              /\ UNCHANGED handler /\ tasks' = [tasks EXCEPT ![w] = r]
              /\ current' = Nobody \/ (current' = w /\ r.pc = "running")
        <4>1. CASE DrainReturns(c)
          <5>1. /\ [tasks[w] EXCEPT !.pc = "running"] \in Task
                /\ [tasks[w] EXCEPT !.pc = "running"].pc = "running"
            BY <3>1 DEF Task, TaskStates
          <5> QED BY <2>5, <4>1, <5>1 DEF DrainReturns
        <4>2. CASE DrainRaises(c)
          <5>1. [tasks[w] EXCEPT !.pc = "failed"] \in Task
            BY <3>1 DEF Task, TaskStates
          <5> QED BY <2>1, <2>5, <4>2, <5>1 DEF DrainRaises
        <4> QED BY <1>5, <4>1, <4>2
      <3>3. /\ tasks' \in Seq(Task) /\ Len(tasks') = Len(tasks)
            /\ DOMAIN tasks' = DOMAIN tasks /\ tasks'[w] = r
            /\ \A u \in DOMAIN tasks \ {w} : tasks'[u] = tasks[u]
        BY <1>0, <3>1, <3>2, TaskChanges
      <3>4. \A d \in Clients : \A i \in DOMAIN drain'[d] :
              IF drain'[d][i] = Handler THEN handler'[d] = "drain"
              ELSE drain'[d][i] \in DOMAIN tasks' /\ tasks'[drain'[d][i]].pc = "drain"
        BY <2>3, <2>5, <3>2, <3>3 DEF Waiting
      <3>5. /\ current' \in {Nobody} \cup DOMAIN tasks' \cup Clients
            /\ current' \in DOMAIN tasks' => tasks'[current'].pc = "running"
        BY <1>0, <3>1, <3>2, <3>3 DEF Nobody
      <3>6. Len(tasks') <= MaxEmitted /\ handler' = handler
        BY <3>2, <3>3 DEF TurnInv
      <3> HIDE DEF w
      <3> QED BY <1>0, <2>2, <3>3, <3>4, <3>5, <3>6 DEF TurnInv, Waiting
    <2> QED BY <2>4, <2>5
  <1>6. ASSUME NEW a \in Agents, Emit(a) PROVE TurnInv'
    <2> DEFINE r == [agent |-> a, pc |-> "queued", audience |-> {}, pending |-> {},
                     at |-> {}]
    <2>1. r \in Task
      BY DEF Task, TaskStates
    <2>2. tasks' = Append(tasks, r) /\ UNCHANGED << drain, handler, current >>
          /\ current = Nobody /\ Len(tasks) < MaxEmitted
      BY <1>6 DEF Emit, connectionVars
    <2> HIDE DEF r
    <2>3. /\ tasks' \in Seq(Task) /\ Len(tasks') <= MaxEmitted
          /\ DOMAIN tasks \subseteq DOMAIN tasks' /\ 0 \notin DOMAIN tasks'
          /\ \A t \in DOMAIN tasks : tasks'[t] = tasks[t]
      BY <1>0, <2>1, <2>2, BoundsAreNats
    <2>4. \A d \in Clients : \A i \in DOMAIN drain[d] :
            IF drain[d][i] = Handler THEN handler'[d] = "drain"
            ELSE drain[d][i] \in DOMAIN tasks' /\ tasks'[drain[d][i]].pc = "drain"
      BY <1>0, <2>2, <2>3 DEF Waiting
    <2> QED BY <1>0, <2>2, <2>3, <2>4 DEF TurnInv, Waiting, Alone, Nobody
  <1>7. CASE StopBegins \/ StopEnds \/ UNCHANGED fanoutVars
    <2>1. UNCHANGED << handler, tasks, drain, current >>
      BY <1>7 DEF StopBegins, StopEnds, fanoutVars, connectionVars
    <2> QED BY <1>0, <2>1, TurnStays DEF Waiting
  <1> QED BY <1>1, <1>2, <1>3, <1>4, <1>5, <1>6, <1>7, PublishingKeepsTurnInv DEF Next

ConnectionTypes ==
    /\ conn \in [Clients -> {"absent", "open", "closing", "closed"}]
    /\ inbox \in [Clients -> Seq(Requests)] /\ asked \in 0 .. MaxRequests
    /\ written \in [Clients -> Seq(Frame)] /\ paused \in [Clients -> BOOLEAN]
    /\ server \in {"up", "closing", "down"}

LEMMA ResponseIsFrame ==
    ASSUME RegistryTypes, TurnInv, NEW request \in Requests, request # Undecodable
    PROVE  Response(request) \in Frame /\ Response(request).kind # "notify"
  <1>1. CASE request \in [kind : {"subscribe"}, agents : SUBSET Agents]
    BY <1>1 DEF Response, Frame, RegistryTypes
  <1>2. CASE request \in [kind : {"unsubscribe"}, sub : Nat]
    BY <1>2 DEF Response, Frame
  <1>3. CASE request \in [kind : {"detail"}, agent : Agents, max_events : Int]
    <2>1. DetailOf(request.agent, request.max_events) \in SUBSET (1 .. MaxEmitted)
      BY BoundsAreNats DEF DetailOf, TurnInv
    <2> QED BY <1>3, <2>1 DEF Response, Frame
  <1>4. CASE request = Other
    BY <1>4 DEF Response, Frame, Other
  <1> QED BY <1>1, <1>2, <1>3, <1>4, RequestsAreRequests DEF Undecodable

LEMMA NotificationIsFrame ==
    ASSUME TurnInv, NEW t \in DOMAIN tasks, NEW s \in tasks[t].pending
    PROVE  Notification(t, s) \in Frame
  <1>1. t \in 1 .. MaxEmitted /\ tasks[t] \in Task
    BY BoundsAreNats DEF TurnInv
  <1> QED BY <1>1 DEF Notification, Frame, Task

LEMMA WriteKeepsTypes ==
    ASSUME ConnectionTypes, NEW c \in Clients, NEW f \in Frame, NEW w, Write(c, f, w)
    PROVE  written' \in [Clients -> Seq(Frame)] /\ paused' \in [Clients -> BOOLEAN]
    BY DEF Write, ConnectionTypes

LEMMA NextKeepsConnectionTypes ==
    ASSUME ConnectionTypes, TurnInv, RegistryTypes, [Next]_fanoutVars
    PROVE  ConnectionTypes'
  <1>1. ASSUME NEW c \in Clients, HandleRequest(c) PROVE ConnectionTypes'
    <2> DEFINE request == Head(inbox[c])
    <2>1. request \in Requests /\ inbox' \in [Clients -> Seq(Requests)]
      BY <1>1 DEF HandleRequest, ConnectionTypes
    <2>2. /\ \/ UNCHANGED << written, paused >>
             \/ Write(c, Response(request), Handler)
          /\ request # Undecodable /\ UNCHANGED << conn, asked, server >>
      BY <1>1 DEF HandleRequest
    <2>3. written' \in [Clients -> Seq(Frame)] /\ paused' \in [Clients -> BOOLEAN]
      BY <2>1, <2>2, ResponseIsFrame, WriteKeepsTypes DEF ConnectionTypes
    <2> QED BY <2>1, <2>2, <2>3 DEF ConnectionTypes
  <1>2. ASSUME NEW t \in DOMAIN tasks, NEW s \in tasks[t].pending, s \in DOMAIN subClients,
               PublishWrites(t, s), UNCHANGED server
        PROVE  ConnectionTypes'
    <2>1. subClients[s] \in Clients /\ Notification(t, s) \in Frame
      BY <1>2, NotificationIsFrame DEF RegistryTypes
    <2> QED BY <1>2, <2>1, WriteKeepsTypes DEF PublishWrites, ConnectionTypes
  <1>3. ASSUME NEW c \in Clients, NEW request \in Requests, SendRequest(c, request)
        PROVE  ConnectionTypes'
    BY <1>3, BoundsAreNats DEF SendRequest, ConnectionTypes
  <1>4. ASSUME NEW c \in Clients, HandlerRaises(c) PROVE ConnectionTypes'
    BY <1>4 DEF HandlerRaises, ConnectionTypes
  <1>5. ASSUME UNCHANGED << inbox, asked, written, paused >>,
               conn' \in [Clients -> {"absent", "open", "closing", "closed"}],
               server' \in {"up", "closing", "down"}
        PROVE  ConnectionTypes'
    BY <1>5 DEF ConnectionTypes
  <1>6. ASSUME NEW c \in Clients,
               \/ Connect(c) \/ CloseConnection(c) \/ ConnectionClosed(c)
               \/ ConnectionLost(c) \/ HandlerEnds(c) \/ DrainReturns(c) \/ DrainRaises(c)
        PROVE  ConnectionTypes'
    BY <1>5, <1>6 DEF Connect, CloseConnection, ConnectionClosed, ConnectionLost,
       HandlerEnds, DrainReturns, DrainRaises, ConnectionTypes
  <1>7. ASSUME NEW c \in Clients, Resume(c) PROVE ConnectionTypes'
    BY <1>7 DEF Resume, ConnectionTypes
  <1>8. CASE StopBegins \/ StopEnds
    BY <1>5, <1>8 DEF StopBegins, StopEnds, ConnectionTypes, connectionVars
  <1>9. CASE UNCHANGED << connectionVars, server >>
    BY <1>5, <1>9 DEF connectionVars, ConnectionTypes
  <1>10. ASSUME NEW a \in Agents, Emit(a) PROVE ConnectionTypes'
    BY <1>9, <1>10 DEF Emit
  <1>11. ASSUME NEW t \in DOMAIN tasks, Publishing(t) PROVE ConnectionTypes'
    <2>1. \/ UNCHANGED << connectionVars, server >>
          \/ \E s \in tasks[t].pending : /\ s \in DOMAIN subClients
                                         /\ PublishWrites(t, s) /\ UNCHANGED server
      BY <1>11 DEF Publishing, StartPublish, PublishSkips, PublishSends, PublishEnds,
         PublishAwaitRaises, PublishAwaitsClose, PublishRaises
    <2> QED BY <1>2, <1>9, <2>1
  <1>12. CASE UNCHANGED fanoutVars
    BY <1>9, <1>12 DEF fanoutVars
  <1> QED BY <1>1, <1>3, <1>4, <1>6, <1>7, <1>8, <1>10, <1>11, <1>12 DEF Next

TypesInv == WireInv /\ RegistryTypes /\ ConnectionTypes /\ TurnInv

LEMMA InitEstablishesTypesInv == Init => TypesInv
  <1> SUFFICES ASSUME Init PROVE TypesInv
    OBVIOUS
  <1>1. RegistryTypes /\ ConnectionTypes
    BY BoundsAreNats DEF Init, RegistryTypes, ConnectionTypes
  <1>2. TurnInv
    BY BoundsAreNats DEF Init, TurnInv, Alone, Waiting, HandlerStates, Nobody
  <1> QED BY <1>1, <1>2, InitEstablishesWireInv DEF TypesInv

LEMMA NextKeepsTypesInv == TypesInv /\ [Next]_fanoutVars => TypesInv'
  <1> SUFFICES ASSUME TypesInv, [Next]_fanoutVars PROVE TypesInv'
    OBVIOUS
  <1>1. WireInv' /\ RegistryInv'
    BY NextKeepsWire DEF TypesInv, WireInv
  <1>2. RegistryTypes'
    BY NextKeepsRegistryTypes DEF TypesInv, ConnectionTypes
  <1>3. ConnectionTypes'
    BY NextKeepsConnectionTypes DEF TypesInv
  <1>4. TurnInv'
    BY <1>1, NextKeepsTurnInv DEF TypesInv
  <1> QED BY <1>1, <1>2, <1>3, <1>4 DEF TypesInv

-----------------------------------------------------------------------------
(* What was written, and to whom                                           *)

(* Whoever task t took into its audience and has had its turn was told, or *)
(* is no longer subscribed.                                                *)
TaskInv(t) ==
    /\ \A s \in tasks[t].audience : s < nextSub
    /\ tasks[t].pending \subseteq tasks[t].audience
    /\ tasks[t].pc = "queued" => tasks[t].audience = {}
    /\ tasks[t].pc = "done" => tasks[t].pending = {}
    /\ \A s \in tasks[t].audience \cap DOMAIN subscriptions : Matches(s, tasks[t].agent)
    /\ \A s \in tasks[t].audience \ tasks[t].pending :
         s \in DOMAIN subClients => WasNotified(s, t)

(* A notification was written in the turn of its subscription.             *)
NotifyInv(f) ==
    f.kind = "notify" =>
        /\ f.event \in DOMAIN tasks
        /\ f.sub \in tasks[f.event].audience \ tasks[f.event].pending
        /\ f = [kind |-> "notify", sub |-> f.sub, event |-> f.event]

(* No two frames are notifications of the same event to one subscription.  *)
NoRepeat ==
    \A c, d \in Clients : \A i \in DOMAIN written[c], j \in DOMAIN written[d] :
        written[c][i].kind = "notify" /\ written[c][i] = written[d][j] => c = d /\ i = j

DeliveryInv ==
    /\ TypesInv
    /\ \A t \in DOMAIN tasks : TaskInv(t)
    /\ \A c \in Clients : \A i \in DOMAIN written[c] : NotifyInv(written[c][i])
    /\ NoRepeat

(* Nothing that was written is taken back.                                 *)
FramesKept ==
    \A c \in Clients :
        /\ DOMAIN written[c] \subseteq DOMAIN written'[c]
        /\ \A i \in DOMAIN written[c] : written'[c][i] = written[c][i]

Appends(c, f) == written' = [written EXCEPT ![c] = Append(@, f)]

LEMMA FrameAppended ==
    ASSUME ConnectionTypes, NEW c \in Clients, NEW f \in Frame, Appends(c, f)
    PROVE  /\ FramesKept
           /\ \A d \in Clients : \A i \in DOMAIN written'[d] \ DOMAIN written[d] :
                d = c /\ i = Len(written[c]) + 1 /\ written'[d][i] = f
           /\ Len(written[c]) + 1 \in DOMAIN written'[c] \ DOMAIN written[c]
           /\ written'[c][Len(written[c]) + 1] = f
  <1>1. /\ \A d \in Clients \ {c} : written'[d] = written[d]
        /\ written'[c] = Append(written[c], f) /\ written[c] \in Seq(Frame)
    BY DEF ConnectionTypes, Appends
  <1>2. /\ Len(written[c]) \in Nat /\ DOMAIN written[c] = 1 .. Len(written[c])
        /\ DOMAIN written'[c] = 1 .. Len(written[c]) + 1
        /\ written'[c][Len(written[c]) + 1] = f
        /\ \A i \in 1 .. Len(written[c]) : written'[c][i] = written[c][i]
    BY <1>1
  <1>3. \A i \in DOMAIN written'[c] \ DOMAIN written[c] : i = Len(written[c]) + 1
    BY <1>2
  <1>4. Len(written[c]) + 1 \in DOMAIN written'[c] \ DOMAIN written[c]
    BY <1>2
  <1>5. FramesKept
    <2> SUFFICES ASSUME NEW d \in Clients
                 PROVE  /\ DOMAIN written[d] \subseteq DOMAIN written'[d]
                        /\ \A i \in DOMAIN written[d] : written'[d][i] = written[d][i]
      BY DEF FramesKept
    <2>1. CASE d = c
      BY <1>2, <2>1
    <2> QED BY <1>1, <2>1
  <1> QED BY <1>1, <1>2, <1>3, <1>4, <1>5

(* A step that is no turn of a publish task: it may register a             *)
(* subscription or drop some, and it may write a response.                 *)
TasksKept ==
    /\ DOMAIN tasks' = DOMAIN tasks
    /\ \A t \in DOMAIN tasks :
         /\ tasks'[t].agent = tasks[t].agent /\ tasks'[t].audience = tasks[t].audience
         /\ tasks'[t].pending = tasks[t].pending
         /\ tasks'[t].pc = "queued" <=> tasks[t].pc = "queued"
         /\ tasks'[t].pc = "done" => tasks[t].pc = "done" \/ tasks[t].pending = {}

RegistryKept ==
    /\ \/ nextSub' = nextSub
       \/ /\ nextSub' = nextSub + 1
          /\ DOMAIN subscriptions' = DOMAIN subscriptions \cup {nextSub}
    /\ \A s \in DOMAIN subscriptions' : s < nextSub =>
         s \in DOMAIN subscriptions /\ subscriptions'[s] = subscriptions[s]
    /\ \A s \in DOMAIN subClients' : s < nextSub =>
         s \in DOMAIN subClients /\ subClients'[s] = subClients[s]

Answers(f) ==
    /\ f.kind # "notify"
    /\ f.kind = "detail" =>
         f.max_events \in Int /\ f.events = DetailOf(f.agent, f.max_events)
    /\ f.kind = "subscribed" =>
         f.sub = nextSub /\ nextSub' = nextSub + 1 /\ subscriptions'[nextSub] = f.agents

Responds ==
    \/ UNCHANGED written
    \/ /\ UNCHANGED tasks
       /\ \E c \in Clients, f \in Frame : Answers(f) /\ Appends(c, f)

LEMMA WasNotifiedStays ==
    ASSUME FramesKept, NEW s, NEW t, WasNotified(s, t), subClients[s] \in Clients,
           subClients'[s] = subClients[s]
    PROVE  WasNotified(s, t)'
    BY DEF WasNotified, FramesKept

LEMMA ResponseAddsNoNotification ==
    ASSUME ConnectionTypes, Responds
    PROVE  /\ FramesKept
           /\ \A c \in Clients : \A i \in DOMAIN written'[c] :
                written'[c][i].kind = "notify" => i \in DOMAIN written[c]
  <1>1. CASE UNCHANGED written
    BY <1>1 DEF FramesKept
  <1>2. ASSUME NEW c \in Clients, NEW f \in Frame, Answers(f), Appends(c, f)
        PROVE  /\ FramesKept
               /\ \A d \in Clients : \A i \in DOMAIN written'[d] :
                    written'[d][i].kind = "notify" => i \in DOMAIN written[d]
    <2>1. /\ FramesKept
          /\ \A d \in Clients : \A i \in DOMAIN written'[d] \ DOMAIN written[d] :
               written'[d][i] = f
      BY <1>2, FrameAppended
    <2> QED BY <1>2, <2>1 DEF Answers
  <1> QED BY <1>1, <1>2 DEF Responds

LEMMA RegistryBounds ==
    ASSUME TypesInv
    PROVE  /\ nextSub \in Nat /\ nextSub' = nextSub' /\ DOMAIN subClients = DOMAIN subscriptions
           /\ \A s \in DOMAIN subClients : s \in Nat /\ s < nextSub /\ subClients[s] \in Clients
           /\ DOMAIN tasks \subseteq Nat \ {0} /\ \A t \in DOMAIN tasks : tasks[t] \in Task
    BY DEF TypesInv, WireInv, RegistryInv, RegistryAgreement, TurnInv

LEMMA OtherStepsKeepDelivery ==
    ASSUME DeliveryInv, TypesInv', TasksKept, RegistryKept, Responds
    PROVE  DeliveryInv'
  <1>1. /\ FramesKept
        /\ \A c \in Clients : \A i \in DOMAIN written'[c] :
             written'[c][i].kind = "notify" => i \in DOMAIN written[c]
    BY ResponseAddsNoNotification DEF DeliveryInv, TypesInv
  <1>2. /\ nextSub \in Nat /\ nextSub' \in Nat
        /\ \A s \in DOMAIN subClients : s \in Nat /\ s < nextSub /\ subClients[s] \in Clients
        /\ DOMAIN tasks \subseteq Nat \ {0} /\ \A t \in DOMAIN tasks : tasks[t] \in Task
    BY RegistryBounds DEF DeliveryInv, TypesInv, RegistryTypes
  <1>3. ASSUME NEW t \in DOMAIN tasks' PROVE TaskInv(t)'
    <2>1. TaskInv(t) /\ t \in DOMAIN tasks /\ tasks[t] \in Task
      BY <1>2, <1>3 DEF TasksKept, DeliveryInv
    <2>2. \A s \in tasks[t].audience : s \in Nat /\ s < nextSub /\ s < nextSub'
      BY <1>2, <2>1 DEF TaskInv, Task, RegistryKept
    <2>3. ASSUME NEW s \in tasks[t].audience, s \in DOMAIN subscriptions'
          PROVE  Matches(s, tasks[t].agent)'
      <3>1. s \in DOMAIN subscriptions /\ subscriptions'[s] = subscriptions[s]
        BY <2>2, <2>3 DEF RegistryKept
      <3> QED BY <2>1, <2>1, <3>1 DEF TaskInv, Matches, TasksKept
    <2>4. ASSUME NEW s \in tasks[t].audience \ tasks[t].pending, s \in DOMAIN subClients'
          PROVE  WasNotified(s, t)'
      <3>1. s \in DOMAIN subClients /\ subClients'[s] = subClients[s]
        BY <2>2, <2>4 DEF RegistryKept
      <3> QED BY <1>1, <1>2, <2>1, <2>4, <3>1, WasNotifiedStays DEF TaskInv
    <2> QED BY <2>1, <2>2, <2>3, <2>4 DEF TaskInv, TasksKept, Matches
  <1>4. ASSUME NEW c \in Clients, NEW i \in DOMAIN written'[c]
        PROVE  NotifyInv(written[c][i])'
    <2>1. CASE written'[c][i].kind = "notify"
      <3>1. NotifyInv(written[c][i]) /\ written'[c][i] = written[c][i]
        BY <1>1, <2>1 DEF DeliveryInv, FramesKept
      <3> QED BY <2>1, <3>1 DEF NotifyInv, TasksKept
    <2> QED BY <2>1 DEF NotifyInv
  <1>5. NoRepeat'
    <2> SUFFICES ASSUME NEW c \in Clients, NEW d \in Clients,
                        NEW i \in DOMAIN written'[c], NEW j \in DOMAIN written'[d],
                        written'[c][i].kind = "notify", written'[c][i] = written'[d][j]
                 PROVE  c = d /\ i = j
      BY DEF NoRepeat
    <2>1. /\ i \in DOMAIN written[c] /\ j \in DOMAIN written[d]
          /\ written'[c][i] = written[c][i] /\ written'[d][j] = written[d][j]
      BY <1>1 DEF FramesKept
    <2>2. NoRepeat
      BY DEF DeliveryInv
    <2>3. written[c][i].kind = "notify" /\ written[c][i] = written[d][j]
      BY <2>1
    <2> QED BY <2>1, <2>2, <2>3 DEF NoRepeat
  <1> QED BY <1>3, <1>4, <1>5 DEF DeliveryInv

(* The turns of a publish task.  Only task t changes, and the registry does *)
(* not.                                                                    *)
OnlyTask(t, audience, pending, pc) ==
    /\ UNCHANGED registryVars /\ DOMAIN tasks' = DOMAIN tasks
    /\ \A u \in DOMAIN tasks \ {t} : tasks'[u] = tasks[u]
    /\ tasks'[t].agent = tasks[t].agent /\ tasks'[t].audience = audience
    /\ tasks'[t].pending = pending /\ tasks'[t].pc = pc

LEMMA OtherTasksStay ==
    ASSUME DeliveryInv, NEW t \in DOMAIN tasks, NEW audience, NEW pending, NEW pc,
           OnlyTask(t, audience, pending, pc), FramesKept,
           NEW u \in DOMAIN tasks \ {t}
    PROVE  TaskInv(u)'
  <1>1. /\ TaskInv(u) /\ tasks'[u] = tasks[u] /\ UNCHANGED registryVars
        /\ \A s \in DOMAIN subClients : subClients[s] \in Clients
    BY RegistryBounds DEF DeliveryInv, OnlyTask
  <1>2. \A s \in tasks[u].audience \ tasks[u].pending :
          s \in DOMAIN subClients => WasNotified(s, u)'
    BY <1>1, WasNotifiedStays DEF TaskInv, registryVars
  <1> QED BY <1>1, <1>2 DEF TaskInv, Matches, registryVars

LEMMA StartKeepsDelivery ==
    ASSUME DeliveryInv, TypesInv', NEW t \in DOMAIN tasks, StartPublish(t)
    PROVE  DeliveryInv'
  <1> DEFINE A == Audience(tasks[t].agent)
  <1>1. /\ tasks[t].pc = "queued" /\ UNCHANGED << written, registryVars >>
        /\ OnlyTask(t, A, A, "running") /\ FramesKept
    BY RegistryBounds DEF DeliveryInv, StartPublish, OnlyTask, FramesKept, connectionVars,
       Task
  <1>2. \A s \in A : s < nextSub /\ s \in DOMAIN subscriptions /\ Matches(s, tasks[t].agent)
    BY RegistryBounds DEF Audience, DeliveryInv
  <1> HIDE DEF A
  <1>3. TaskInv(t)'
    BY <1>1, <1>2 DEF TaskInv, OnlyTask, Matches, registryVars
  <1>4. \A u \in DOMAIN tasks \ {t} : TaskInv(u)'
    BY <1>1, OtherTasksStay
  <1>5. tasks[t].audience = {}
    BY <1>1 DEF DeliveryInv, TaskInv
  <1>6. ASSUME NEW c \in Clients, NEW i \in DOMAIN written'[c]
        PROVE  NotifyInv(written[c][i])'
    <2>1. NotifyInv(written[c][i]) /\ written' = written
      BY <1>1, <1>6 DEF DeliveryInv
    <2> QED BY <1>1, <1>5, <2>1 DEF NotifyInv, OnlyTask
  <1>7. NoRepeat'
    BY <1>1 DEF NoRepeat, DeliveryInv
  <1>8. DOMAIN tasks' = DOMAIN tasks
    BY <1>1 DEF OnlyTask
  <1> QED BY <1>3, <1>4, <1>6, <1>7, <1>8 DEF DeliveryInv

(* Subscription s has had its turn in task t: the client was told, unless  *)
(* the subscription was gone.                                              *)
LEMMA TurnKeepsDelivery ==
    ASSUME DeliveryInv, TypesInv', NEW t \in DOMAIN tasks, NEW s \in tasks[t].pending,
           NEW pc, pc \notin {"queued", "done"},
           OnlyTask(t, tasks[t].audience, tasks[t].pending \ {s}, pc),
           \/ s \notin DOMAIN subClients /\ UNCHANGED written
           \/ s \in DOMAIN subClients /\ Appends(subClients[s], Notification(t, s))
    PROVE  DeliveryInv'
  <1> DEFINE f == Notification(t, s)
  <1>0. /\ f \in Frame /\ f.kind = "notify" /\ f.sub = s /\ f.event = t
        /\ f = [kind |-> "notify", sub |-> f.sub, event |-> f.event]
        /\ f = [kind |-> "notify", sub |-> s, event |-> t]
    BY NotificationIsFrame DEF Notification, DeliveryInv, TypesInv
  <1> HIDE DEF f
  <1>1. /\ FramesKept
        /\ \A d \in Clients : \A i \in DOMAIN written'[d] \ DOMAIN written[d] :
             /\ written'[d][i] = f /\ s \in DOMAIN subClients
             /\ \A e \in Clients : \A j \in DOMAIN written'[e] \ DOMAIN written[e] :
                  d = e /\ i = j
        /\ s \in DOMAIN subClients =>
             \E i \in DOMAIN written'[subClients[s]] : written'[subClients[s]][i] = f
    <2>1. CASE s \notin DOMAIN subClients /\ UNCHANGED written
      BY <2>1 DEF FramesKept
    <2>2. CASE s \in DOMAIN subClients /\ Appends(subClients[s], f)
      <3>1. subClients[s] \in Clients /\ ConnectionTypes
        BY <2>2, RegistryBounds DEF DeliveryInv, TypesInv
      <3> QED BY <1>0, <2>2, <3>1, FrameAppended
    <2> QED BY <2>1, <2>2 DEF f
  <1>2. /\ TaskInv(t) /\ UNCHANGED registryVars /\ DOMAIN tasks' = DOMAIN tasks
        /\ tasks'[t].agent = tasks[t].agent /\ tasks'[t].audience = tasks[t].audience
        /\ tasks'[t].pending = tasks[t].pending \ {s} /\ tasks'[t].pc = pc
        /\ \A r \in DOMAIN subClients : subClients[r] \in Clients
    BY RegistryBounds DEF DeliveryInv, OnlyTask
  <1>3. TaskInv(t)'
    <2>1. ASSUME NEW r \in tasks[t].audience \ tasks'[t].pending, r \in DOMAIN subClients
          PROVE  WasNotified(r, t)'
      <3>1. CASE r = s
        BY <1>0, <1>1, <1>2, <2>1, <3>1 DEF WasNotified, registryVars
      <3>2. CASE r # s
        <4>1. WasNotified(r, t)
          BY <1>2, <2>1, <3>2 DEF TaskInv
        <4> QED BY <1>1, <1>2, <2>1, <4>1, WasNotifiedStays DEF registryVars
      <3> QED BY <3>1, <3>2
    <2> QED BY <1>2, <2>1 DEF TaskInv, Matches, registryVars
  <1>4. \A u \in DOMAIN tasks \ {t} : TaskInv(u)'
    BY <1>1, OtherTasksStay
  <1>5. \A u \in DOMAIN tasks : /\ tasks'[u].audience = tasks[u].audience
                                /\ tasks'[u].pending \subseteq tasks[u].pending
    BY <1>2 DEF OnlyTask
  <1>6. ASSUME NEW c \in Clients, NEW i \in DOMAIN written'[c]
        PROVE  NotifyInv(written[c][i])'
    <2>1. CASE i \in DOMAIN written[c]
      <3>1. NotifyInv(written[c][i]) /\ written'[c][i] = written[c][i]
        BY <1>1, <2>1 DEF DeliveryInv, FramesKept
      <3> QED BY <1>2, <1>5, <3>1 DEF NotifyInv
    <2>2. CASE i \notin DOMAIN written[c]
      <3>1. written'[c][i] = f
        BY <1>1, <2>2
      <3> QED BY <1>0, <1>2, <3>1 DEF NotifyInv, TaskInv
    <2> QED BY <2>1, <2>2
  <1>7. \A c \in Clients : \A i \in DOMAIN written[c] : written[c][i] # f
    BY <1>0 DEF DeliveryInv, NotifyInv
  <1>8. NoRepeat'
    <2> SUFFICES ASSUME NEW c \in Clients, NEW d \in Clients,
                        NEW i \in DOMAIN written'[c], NEW j \in DOMAIN written'[d],
                        written'[c][i].kind = "notify", written'[c][i] = written'[d][j]
                 PROVE  c = d /\ i = j
      BY DEF NoRepeat
    <2>1. CASE i \in DOMAIN written[c] /\ j \in DOMAIN written[d]
      <3>1. /\ written'[c][i] = written[c][i] /\ written'[d][j] = written[d][j]
            /\ NoRepeat
        BY <1>1, <2>1 DEF FramesKept, DeliveryInv
      <3>2. written[c][i].kind = "notify" /\ written[c][i] = written[d][j]
        BY <3>1
      <3> QED BY <2>1, <3>1, <3>2 DEF NoRepeat
    <2>2. CASE i \notin DOMAIN written[c]
      <3>1. written'[d][j] = f
        BY <1>1, <2>2
      <3>2. j \notin DOMAIN written[d]
        BY <1>1, <1>7, <3>1 DEF FramesKept
      <3> QED BY <1>1, <2>2, <3>2
    <2>3. CASE j \notin DOMAIN written[d]
      <3>1. written'[c][i] = f
        BY <1>1, <2>3
      <3>2. i \notin DOMAIN written[c]
        BY <1>1, <1>7, <3>1 DEF FramesKept
      <3> QED BY <1>1, <2>3, <3>2
    <2> QED BY <2>1, <2>2, <2>3
  <1> QED BY <1>2, <1>3, <1>4, <1>6, <1>8 DEF DeliveryInv

LEMMA EmitKeepsDelivery ==
    ASSUME DeliveryInv, TypesInv', NEW a \in Agents, Emit(a)
    PROVE  DeliveryInv'
  <1> PICK n : n = Len(tasks) + 1
    OBVIOUS
  <1>1. /\ UNCHANGED << written, registryVars >> /\ tasks \in Seq(Task)
        /\ FramesKept
    BY DEF Emit, FramesKept, connectionVars, DeliveryInv, TypesInv, TurnInv
  <1>2. /\ DOMAIN tasks' = DOMAIN tasks \cup {n} /\ n \notin DOMAIN tasks
        /\ \A t \in DOMAIN tasks : tasks'[t] = tasks[t]
        /\ tasks'[n].pc = "queued" /\ tasks'[n].audience = {} /\ tasks'[n].pending = {}
    BY <1>1 DEF Emit
  <1>3. ASSUME NEW t \in DOMAIN tasks PROVE TaskInv(t)'
    <2>1. /\ TaskInv(t) /\ tasks'[t] = tasks[t]
          /\ \A s \in DOMAIN subClients : subClients[s] \in Clients
      BY <1>2, RegistryBounds DEF DeliveryInv
    <2>2. \A s \in tasks[t].audience \ tasks[t].pending :
            s \in DOMAIN subClients => WasNotified(s, t)'
      BY <1>1, <2>1, WasNotifiedStays DEF TaskInv, registryVars
    <2> QED BY <1>1, <2>1, <2>2 DEF TaskInv, Matches, registryVars
  <1>4. TaskInv(n)'
    BY <1>2 DEF TaskInv
  <1>5. ASSUME NEW c \in Clients, NEW i \in DOMAIN written'[c]
        PROVE  NotifyInv(written[c][i])'
    <2>1. NotifyInv(written[c][i]) /\ written' = written
      BY <1>1, <1>5 DEF DeliveryInv
    <2> QED BY <1>2, <2>1 DEF NotifyInv
  <1>6. NoRepeat'
    BY <1>1 DEF NoRepeat, DeliveryInv
  <1> QED BY <1>2, <1>3, <1>4, <1>5, <1>6 DEF DeliveryInv

LEMMA RegistryStays ==
    ASSUME TypesInv, UNCHANGED registryVars
    PROVE  RegistryKept
    BY DEF RegistryKept, registryVars, TypesInv, RegistryTypes

(* Task t goes to another place, and its messages stay what they are.      *)
LEMMA TaskGoes ==
    ASSUME TypesInv, NEW t \in DOMAIN tasks, NEW r \in Task, tasks' = [tasks EXCEPT ![t] = r],
           tasks[t].pc # "queued", r.agent = tasks[t].agent,
           r.audience = tasks[t].audience, r.pending = tasks[t].pending,
           r.pc # "queued", r.pc = "done" => tasks[t].pending = {}
    PROVE  TasksKept
  <1>1. /\ DOMAIN tasks' = DOMAIN tasks /\ tasks'[t] = r
        /\ \A u \in DOMAIN tasks \ {t} : tasks'[u] = tasks[u]
    BY TaskChanges DEF TypesInv, TurnInv
  <1> QED BY <1>1 DEF TasksKept

LEMMA ConnectionStepsAreOther ==
    ASSUME TypesInv, NEW c \in Clients,
           \/ Connect(c) \/ CloseConnection(c) \/ ConnectionClosed(c)
           \/ ConnectionLost(c) \/ Resume(c)
           \/ \E request \in Requests : SendRequest(c, request)
           \/ HandlerRaises(c) \/ DrainReturns(c) \/ DrainRaises(c)
    PROVE  TasksKept /\ RegistryKept /\ Responds
  <1>1. UNCHANGED << written, registryVars >>
    BY DEF Connect, CloseConnection, ConnectionClosed, ConnectionLost, Resume, SendRequest,
       HandlerRaises, DrainReturns, DrainRaises
  <1>2. ASSUME UNCHANGED tasks PROVE TasksKept
    BY <1>2 DEF TasksKept
  <1>3. ASSUME ~UNCHANGED tasks PROVE TasksKept
    <2> DEFINE w == Head(drain[c])
    <2>1. /\ drain[c] # << >> /\ w # Handler
          /\ \/ tasks' = [tasks EXCEPT ![w].pc = "running"]
             \/ tasks' = [tasks EXCEPT ![w].pc = "failed"]
      BY <1>3 DEF Connect, CloseConnection, ConnectionClosed, ConnectionLost, Resume,
         SendRequest, HandlerRaises, DrainReturns, DrainRaises
    <2>2. 1 \in DOMAIN drain[c] /\ drain[c][1] = w
      <3>1. drain[c] \in Seq(Nat)
        BY DEF TypesInv, TurnInv
      <3> QED BY <2>1, <3>1
    <2>3. w \in DOMAIN tasks /\ tasks[w].pc = "drain" /\ tasks[w] \in Task
      BY <2>1, <2>2, RegistryBounds DEF TypesInv, TurnInv, Waiting
    <2>4. /\ [tasks[w] EXCEPT !.pc = "running"] \in Task
          /\ [tasks[w] EXCEPT !.pc = "failed"] \in Task
      BY <2>3 DEF Task, TaskStates
    <2>5. CASE tasks' = [tasks EXCEPT ![w].pc = "running"]
      <3> DEFINE r == [tasks[w] EXCEPT !.pc = "running"]
      <3>1. /\ r.agent = tasks[w].agent /\ r.audience = tasks[w].audience
            /\ r.pending = tasks[w].pending /\ r.pc = "running"
        BY <2>3 DEF Task
      <3>2. tasks' = [tasks EXCEPT ![w] = r]
        BY <2>5
      <3> HIDE DEF r, w
      <3> QED BY <2>3, <2>4, <3>1, <3>2, TaskGoes DEF r
    <2>6. CASE tasks' = [tasks EXCEPT ![w].pc = "failed"]
      <3> DEFINE r == [tasks[w] EXCEPT !.pc = "failed"]
      <3>1. /\ r.agent = tasks[w].agent /\ r.audience = tasks[w].audience
            /\ r.pending = tasks[w].pending /\ r.pc = "failed"
        BY <2>3 DEF Task
      <3>2. tasks' = [tasks EXCEPT ![w] = r]
        BY <2>6
      <3> HIDE DEF r, w
      <3> QED BY <2>3, <2>4, <3>1, <3>2, TaskGoes DEF r
    <2> QED BY <2>1, <2>5, <2>6
  <1> QED BY <1>1, <1>2, <1>3, RegistryStays DEF Responds

LEMMA RegistryChanges ==
    ASSUME TypesInv, NEW c \in Clients
    PROVE  /\ \A agent_ids : RegisterSubscription(c, agent_ids) => RegistryKept
           /\ \A sub : DropSubscription(c, sub) => RegistryKept
           /\ Cleanup(c) => RegistryKept
  <1>1. nextSub \in Nat
    BY RegistryBounds
  <1> QED BY <1>1 DEF RegisterSubscription, DropSubscription, Cleanup, RegistryKept,
                      With, Without

LEMMA HandlerStepsAreOther ==
    ASSUME TypesInv, NEW c \in Clients, HandleRequest(c) \/ HandlerEnds(c)
    PROVE  TasksKept /\ RegistryKept /\ Responds
  <1>1. TasksKept
    BY DEF HandleRequest, HandlerEnds, TasksKept
  <1>2. CASE HandlerEnds(c)
    BY <1>1, <1>2, RegistryChanges DEF HandlerEnds, Responds
  <1>3. CASE HandleRequest(c)
    <2> DEFINE request == Head(inbox[c])
    <2>1. request \in Requests /\ request # Undecodable /\ Dispatch(c, request)
      BY <1>3 DEF HandleRequest, TypesInv, ConnectionTypes
    <2>2. RegistryKept
      BY <2>1, RegistryChanges, RegistryStays DEF Dispatch
    <2>3. Response(request) \in Frame /\ Answers(Response(request))
      <3>1. Response(request) \in Frame /\ Response(request).kind # "notify"
        BY <2>1, ResponseIsFrame DEF TypesInv
      <3>2. CASE request.kind = "subscribe"
        <4>1. RegisterSubscription(c, request.agents)
          BY <2>1, <3>2 DEF Dispatch
        <4> QED BY <3>1, <3>2, <4>1 DEF Response, Answers, RegisterSubscription, With
      <3>3. CASE request.kind = "detail"
        <4>1. request.max_events \in Int
          BY <2>1, <3>3, RequestsAreRequests DEF Undecodable, Other
        <4>2. Response(request) =
                [kind |-> "detail", agent |-> request.agent,
                 max_events |-> request.max_events,
                 events |-> DetailOf(request.agent, request.max_events)]
          BY <3>3 DEF Response
        <4> HIDE DEF request
        <4> QED BY <3>1, <4>1, <4>2 DEF Answers
      <3>4. CASE request.kind \notin {"subscribe", "detail"}
        <4>1. Response(request).kind \in {"unsubscribed", "other"}
          BY <3>4 DEF Response
        <4> HIDE DEF request
        <4> QED BY <3>1, <4>1 DEF Answers
      <3> QED BY <3>2, <3>3, <3>4
    <2>4. UNCHANGED tasks /\ (UNCHANGED written \/ Appends(c, Response(request)))
      BY <1>3 DEF HandleRequest, Write, Appends
    <2> HIDE DEF request
    <2> QED BY <1>1, <2>2, <2>3, <2>4 DEF Responds
  <1> QED BY <1>2, <1>3

(* What a step of publish task t is.                                       *)
TakesTurn(t) ==
    \E s \in tasks[t].pending, pc \in TaskStates \ {"queued", "done"} :
        /\ OnlyTask(t, tasks[t].audience, tasks[t].pending \ {s}, pc)
        /\ \/ s \notin DOMAIN subClients /\ UNCHANGED written
           \/ s \in DOMAIN subClients /\ Appends(subClients[s], Notification(t, s))

LEMMA PublishingIs ==
    ASSUME TypesInv, NEW t \in DOMAIN tasks, Publishing(t)
    PROVE  StartPublish(t) \/ TakesTurn(t) \/ (TasksKept /\ RegistryKept /\ Responds)
  <1>1. /\ tasks[t] \in Task /\ UNCHANGED registryVars
        /\ current = t => tasks[t].pc = "running"
        /\ tasks \in Seq(Task)
    BY RegistryBounds DEF TypesInv, TurnInv, Publishing, StartPublish, PublishSkips,
       PublishSends, PublishEnds, PublishAwaitRaises
  <1>2. ASSUME NEW r \in Task, tasks' = [tasks EXCEPT ![t] = r], UNCHANGED written,
               tasks[t].pc # "queued", r.agent = tasks[t].agent,
               r.audience = tasks[t].audience, r.pending = tasks[t].pending,
               r.pc # "queued", r.pc = "done" => tasks[t].pending = {}
        PROVE  TasksKept /\ RegistryKept /\ Responds
    BY <1>1, <1>2, TaskGoes, RegistryStays DEF Responds
  <1>3. CASE PublishEnds(t)
    <2> DEFINE r == [tasks[t] EXCEPT !.pc = "done"]
    <2>1. /\ r \in Task /\ r.agent = tasks[t].agent /\ r.audience = tasks[t].audience
          /\ r.pending = tasks[t].pending /\ r.pc = "done"
      BY <1>1 DEF Task, TaskStates
    <2>2. /\ tasks' = [tasks EXCEPT ![t] = r] /\ UNCHANGED written
          /\ tasks[t].pc # "queued" /\ tasks[t].pending = {}
      BY <1>1, <1>3 DEF PublishEnds, connectionVars
    <2> HIDE DEF r
    <2> QED BY <1>2, <2>1, <2>2
  <1>4. ASSUME tasks[t].pc # "queued", UNCHANGED written,
               \/ tasks' = [tasks EXCEPT ![t].pc = "failed"]
               \/ \E c \in Clients :
                    tasks' = [tasks EXCEPT ![t].pc = "ensure_open", ![t].at = {c}]
        PROVE  TasksKept /\ RegistryKept /\ Responds
    <2>1. CASE tasks' = [tasks EXCEPT ![t].pc = "failed"]
      <3> DEFINE r == [tasks[t] EXCEPT !.pc = "failed"]
      <3>1. /\ r \in Task /\ r.agent = tasks[t].agent /\ r.audience = tasks[t].audience
            /\ r.pending = tasks[t].pending /\ r.pc = "failed"
        BY <1>1 DEF Task, TaskStates
      <3>2. tasks' = [tasks EXCEPT ![t] = r]
        BY <2>1
      <3> HIDE DEF r
      <3> QED BY <1>2, <1>4, <3>1, <3>2
    <2>2. ASSUME NEW c \in Clients,
                 tasks' = [tasks EXCEPT ![t].pc = "ensure_open", ![t].at = {c}]
          PROVE  TasksKept /\ RegistryKept /\ Responds
      <3> DEFINE r == [tasks[t] EXCEPT !.pc = "ensure_open", !.at = {c}]
      <3>1. /\ r \in Task /\ r.agent = tasks[t].agent /\ r.audience = tasks[t].audience
            /\ r.pending = tasks[t].pending /\ r.pc = "ensure_open"
        BY <1>1 DEF Task, TaskStates
      <3>2. tasks' = [tasks EXCEPT ![t] = r]
        BY <2>2
      <3> HIDE DEF r
      <3> QED BY <1>2, <1>4, <3>1, <3>2
    <2> QED BY <1>4, <2>1, <2>2
  <1>5. CASE PublishAwaitRaises(t)
    BY <1>4, <1>5 DEF PublishAwaitRaises, connectionVars
  <1>6. ASSUME NEW s \in tasks[t].pending, PublishAwaitsClose(t, s) \/ PublishRaises(t, s),
               current = t, s \in DOMAIN subClients
        PROVE  TasksKept /\ RegistryKept /\ Responds
    <2>1. subClients[s] \in Clients
      BY <1>6, RegistryBounds
    <2> QED BY <1>1, <1>4, <1>6, <2>1 DEF PublishAwaitsClose, PublishRaises, connectionVars
  <1>7. ASSUME NEW s \in tasks[t].pending, PublishSkips(t, s) PROVE TakesTurn(t)
    <2>1. /\ OnlyTask(t, tasks[t].audience, tasks[t].pending \ {s}, "running")
          /\ s \notin DOMAIN subClients /\ UNCHANGED written
      BY <1>1, <1>7 DEF PublishSkips, OnlyTask, connectionVars, Task
    <2> QED BY <2>1 DEF TakesTurn, TaskStates
  <1>8. ASSUME NEW s \in tasks[t].pending, s \in DOMAIN subClients, PublishWrites(t, s),
               current = t
        PROVE  TakesTurn(t)
    <2>1. \/ OnlyTask(t, tasks[t].audience, tasks[t].pending \ {s}, "running")
          \/ OnlyTask(t, tasks[t].audience, tasks[t].pending \ {s}, "drain")
      <3>1. CASE tasks' = [tasks EXCEPT ![t].pending = @ \ {s}]
        BY <1>1, <1>8, <3>1 DEF OnlyTask, Task
      <3>2. CASE tasks' = [tasks EXCEPT ![t].pc = "drain", ![t].pending = @ \ {s}]
        BY <1>1, <3>2 DEF OnlyTask, Task
      <3> QED BY <1>8, <3>1, <3>2 DEF PublishWrites
    <2>2. Appends(subClients[s], Notification(t, s))
      BY <1>8 DEF PublishWrites, Write, Appends
    <2> QED BY <1>8, <2>1, <2>2 DEF TakesTurn, TaskStates
  <1> QED BY <1>3, <1>5, <1>6, <1>7, <1>8 DEF Publishing, PublishSends

LEMMA StepIs ==
    ASSUME TypesInv, [Next]_fanoutVars
    PROVE  \/ TasksKept /\ RegistryKept /\ Responds
           \/ \E a \in Agents : Emit(a)
           \/ \E t \in DOMAIN tasks : StartPublish(t) \/ TakesTurn(t)
  <1>1. CASE StopBegins \/ StopEnds \/ UNCHANGED fanoutVars
    <2>1. UNCHANGED << written, tasks, subscriptions, nextSub >>
      BY <1>1 DEF StopBegins, StopEnds, fanoutVars, connectionVars, registryVars
    <2>2. nextSub \in Nat /\ \A s \in DOMAIN subClients' :
            s \in DOMAIN subClients /\ subClients'[s] = subClients[s]
      BY <1>1, RegistryBounds DEF StopBegins, StopEnds, fanoutVars, registryVars, Without
    <2> QED BY <2>1, <2>2 DEF TasksKept, RegistryKept, Responds
  <1> QED BY <1>1, ConnectionStepsAreOther, HandlerStepsAreOther, PublishingIs DEF Next

LEMMA NextKeepsDelivery == DeliveryInv /\ [Next]_fanoutVars => DeliveryInv'
  <1> SUFFICES ASSUME DeliveryInv, [Next]_fanoutVars PROVE DeliveryInv'
    OBVIOUS
  <1>1. TypesInv /\ TypesInv'
    BY NextKeepsTypesInv DEF DeliveryInv
  <1>2. ASSUME NEW t \in DOMAIN tasks, TakesTurn(t) PROVE DeliveryInv'
    BY <1>1, <1>2, TurnKeepsDelivery DEF TakesTurn
  <1> QED BY <1>1, <1>2, StepIs, OtherStepsKeepDelivery, EmitKeepsDelivery,
             StartKeepsDelivery

LEMMA InitEstablishesDelivery == Init => DeliveryInv
  <1> SUFFICES ASSUME Init PROVE DeliveryInv
    OBVIOUS
  <1>1. DOMAIN tasks = {} /\ \A c \in Clients : DOMAIN written[c] = {}
    BY DEF Init
  <1> QED BY <1>1, InitEstablishesTypesInv DEF DeliveryInv, NoRepeat

(* Everything has its type, no sender waits twice, and who waits for a     *)
(* write buffer is where it waits from.                                    *)
THEOREM FanoutTypeCorrect == Spec => []FanoutTypeOK
  <1>1. DeliveryInv => FanoutTypeOK
    <2> SUFFICES ASSUME DeliveryInv PROVE FanoutTypeOK
      OBVIOUS
    <2>1. /\ conn \in [Clients -> {"absent", "open", "closing", "closed"}]
          /\ inbox \in [Clients -> Seq(Requests)] /\ asked \in 0 .. MaxRequests
          /\ written \in [Clients -> Seq(Frame)] /\ paused \in [Clients -> BOOLEAN]
          /\ server \in {"up", "closing", "down"}
      BY DEF DeliveryInv, TypesInv, ConnectionTypes
    <2>2. /\ handler \in [Clients -> {"none", "recv", "drain", "ensure_open", "raising",
                                      "done"}]
          /\ drain \in [Clients -> Seq(Nat)]
          /\ current \in {Nobody} \cup DOMAIN tasks \cup Clients
          /\ tasks \in Seq(Task)
      BY DEF DeliveryInv, TypesInv, TurnInv, HandlerStates, Running
    <2>3. \A c \in Clients : \A i, j \in DOMAIN drain[c] :
            /\ drain[c][i] = drain[c][j] => i = j
            /\ drain[c][i] # Handler => tasks[drain[c][i]].pc = "drain"
      BY DEF DeliveryInv, TypesInv, TurnInv, Alone, Waiting
    <2>4. \A t \in 1 .. Len(tasks) :
            tasks[t] \in [agent : Agents, at : SUBSET Clients,
                          pc : {"queued", "running", "drain", "ensure_open", "done",
                                "failed"},
                          audience : SUBSET (1 .. nextSub - 1),
                          pending : SUBSET (1 .. nextSub - 1)]
      <3> SUFFICES ASSUME NEW t \in 1 .. Len(tasks)
                   PROVE  tasks[t] \in [agent : Agents, at : SUBSET Clients,
                                        pc : {"queued", "running", "drain", "ensure_open",
                                              "done", "failed"},
                                        audience : SUBSET (1 .. nextSub - 1),
                                        pending : SUBSET (1 .. nextSub - 1)]
        OBVIOUS
      <3>1. tasks[t] \in Task /\ TaskInv(t) /\ nextSub \in Nat
        BY <2>2, RegistryBounds DEF DeliveryInv
      <3>2. /\ tasks[t].audience \in SUBSET (1 .. nextSub - 1)
            /\ tasks[t].pending \in SUBSET (1 .. nextSub - 1)
        BY <3>1 DEF TaskInv, Task
      <3> QED BY <3>1, <3>2 DEF Task, TaskStates
    <2>5. tasks \in Seq([agent : Agents, at : SUBSET Clients,
                         pc : {"queued", "running", "drain", "ensure_open", "done",
                               "failed"},
                         audience : SUBSET (1 .. nextSub - 1),
                         pending : SUBSET (1 .. nextSub - 1)])
      <3> DEFINE T == [agent : Agents, at : SUBSET Clients,
                       pc : {"queued", "running", "drain", "ensure_open", "done", "failed"},
                       audience : SUBSET (1 .. nextSub - 1),
                       pending : SUBSET (1 .. nextSub - 1)]
      <3>1. /\ Len(tasks) \in Nat /\ tasks = [t \in 1 .. Len(tasks) |-> tasks[t]]
            /\ \A t \in 1 .. Len(tasks) : tasks[t] \in T
        BY <2>2, <2>4
      <3> HIDE DEF T
      <3>2. tasks \in [1 .. Len(tasks) -> T]
        BY <3>1
      <3>3. tasks \in Seq(T)
        BY <3>1, <3>2, SeqDef
      <3> QED BY <3>3 DEF T
    <2>6. RegistryTypes
      BY DEF DeliveryInv, TypesInv
    <2> QED BY <2>1, <2>2, <2>3, <2>5, <2>6 DEF FanoutTypeOK, RegistryTypes
  <1> QED BY <1>1, InitEstablishesDelivery, NextKeepsDelivery, PTL DEF Spec

(* A publish task that ends without an exception has told everyone in its  *)
(* audience who is still subscribed, however many waits and departures     *)
(* there were on the way.                                                  *)
THEOREM DoneIsDelivered == Spec => []DoneMeansDelivered
  <1>1. DeliveryInv => DoneMeansDelivered
    BY DEF DeliveryInv, TaskInv, DoneMeansDelivered
  <1> QED BY <1>1, InitEstablishesDelivery, NextKeepsDelivery, PTL DEF Spec

-----------------------------------------------------------------------------
(* Snapshots                                                               *)

(* A nonempty set of naturals has a least element, a bounded one a last.   *)
LEMMA LeastOf ==
    ASSUME NEW T \in SUBSET Nat, T # {}
    PROVE  \E x \in T : \A y \in T : x <= y
  <1> DEFINE R == OpToRel(<, Nat)
  <1>1. IsWellFoundedOn(R, Nat)
    BY NatLessThanWellFounded
  <1>2. \A x, y \in Nat : <<x, y>> \in R <=> x < y
    BY DEF OpToRel
  <1> HIDE DEF R
  <1>3. PICK x \in T : \A y \in T : ~(<<y, x>> \in R)
    BY <1>1, WFMin
  <1>4. \A y \in T : ~(y < x)
    BY <1>2, <1>3
  <1>5. \A y \in T : x <= y
    BY <1>4
  <1> QED BY <1>5

LEMMA LastOf ==
    ASSUME NEW n \in Nat, NEW T \in SUBSET (1 .. n), T # {}
    PROVE  \E x \in T : \A y \in T : y <= x
  <1> DEFINE U == {k \in Nat : n - k \in T}
  <1>1. U \in SUBSET Nat /\ U # {}
    <2>1. PICK x \in T : TRUE
      OBVIOUS
    <2>2. n - x \in Nat /\ n - (n - x) = x
      OBVIOUS
    <2>3. n - x \in U
      BY <2>1, <2>2
    <2> QED BY <2>3
  <1> HIDE DEF U
  <1>2. PICK k \in U : \A j \in U : k <= j
    BY <1>1, LeastOf
  <1>3. k \in Nat /\ n - k \in T
    BY <1>2 DEF U
  <1>4. ASSUME NEW y \in T PROVE y <= n - k
    <2>1. n - y \in Nat /\ n - (n - y) = y
      OBVIOUS
    <2>2. n - y \in U
      BY <2>1 DEF U
    <2> QED BY <1>2, <1>3, <2>1, <2>2
  <1> QED BY <1>3, <1>4

(* The elements of A with fewer than n greater ones are the n greatest: an *)
(* element outside is below all of them, and they are n.                   *)
LEMMA GreatestElements ==
    ASSUME NEW N \in Nat, NEW A \in SUBSET (1 .. N), NEW n \in Nat, NEW t \in A,
           Cardinality({u \in A : u > t}) >= n,
           NEW page, page = {x \in A : Cardinality({u \in A : u > x}) < n}
    PROVE  Cardinality(page) = n /\ \A u \in page : t < u
  <1> DEFINE Above(x) == {u \in A : u > x}
             P == {x \in A : Cardinality(Above(x)) < n}
  <1>0. A \in SUBSET Nat
    OBVIOUS
  <1>1. \A S \in SUBSET A : IsFiniteSet(S) /\ Cardinality(S) \in Nat
    <2>1. IsFiniteSet(1 .. N)
      BY FS_Interval
    <2>2. \A S \in SUBSET (1 .. N) : IsFiniteSet(S)
      BY <2>1, FS_Subset
    <2> QED BY <2>2, FS_CardinalityType
  <1>2. \A S \in SUBSET A : \A T \in SUBSET S : Cardinality(T) <= Cardinality(S)
    BY <1>1, FS_Subset
  <1>3. P \in SUBSET A /\ t \notin P /\ \A x \in A : Above(x) \in SUBSET A
    <2>1. Cardinality(Above(t)) \in Nat
      BY <1>1
    <2> QED BY <2>1
  <1>4. ASSUME NEW u \in P PROVE t < u
    <2>1. u \in A /\ u # t /\ Cardinality(Above(u)) < n
      BY <1>3, <1>4
    <2>2. CASE u < t
      <3>1. Above(t) \in SUBSET Above(u)
        <4> SUFFICES ASSUME NEW w \in A, w > t PROVE w > u
          OBVIOUS
        <4>1. w \in Nat /\ t \in Nat /\ u \in Nat
          BY <1>0, <2>1
        <4> QED BY <2>2, <4>1
      <3>2. /\ Cardinality(Above(t)) <= Cardinality(Above(u))
            /\ Cardinality(Above(t)) \in Nat /\ Cardinality(Above(u)) \in Nat
        <4> HIDE DEF Above
        <4> QED BY <1>1, <1>2, <1>3, <2>1, <3>1
      <3> QED BY <2>1, <3>2
    <2> QED BY <2>1, <2>2
  <1>5. Cardinality(P) >= n
    <2>1. PICK m \in A \ P : \A y \in A \ P : y <= m
      <3>1. A \ P \in SUBSET (1 .. N) /\ A \ P # {}
        BY <1>3
      <3> HIDE DEF P
      <3> QED BY <3>1, LastOf
    <2>2. Above(m) \in SUBSET P
      <3> SUFFICES ASSUME NEW u \in A, u > m PROVE u \in P
        OBVIOUS
      <3> HIDE DEF P
      <3>1. ~(u <= m)
        OBVIOUS
      <3> QED BY <2>1, <3>1
    <2>3. Cardinality(Above(m)) \in Nat /\ ~(Cardinality(Above(m)) < n)
      BY <1>1, <2>1
    <2> HIDE DEF Above, P
    <2>4. Cardinality(Above(m)) <= Cardinality(P) /\ Cardinality(P) \in Nat
      BY <1>1, <1>2, <1>3, <2>2
    <2> QED BY <2>3, <2>4
  <1>6. Cardinality(P) <= n
    <2>1. CASE P = {}
      <3> HIDE DEF P
      <3> QED BY <2>1, FS_EmptySet
    <2>2. CASE P # {}
      <3>1. PICK x \in P : \A y \in P : x <= y
        <4> HIDE DEF P
        <4>1. P \in SUBSET Nat
          BY <1>0, <1>3
        <4> QED BY <2>2, <4>1, LeastOf
      <3>2. P \ {x} \in SUBSET Above(x)
        <4>1. \A y \in P \ {x} : y \in A /\ x <= y /\ y # x
          BY <1>3, <3>1
        <4> HIDE DEF P
        <4> QED BY <1>3, <3>1, <4>1
      <3>3. x \in A /\ Cardinality(Above(x)) < n
        BY <3>1
      <3> HIDE DEF Above, P
      <3>4. /\ Cardinality(P \ {x}) = Cardinality(P) - 1 /\ Cardinality(P) \in Nat
            /\ Cardinality(P \ {x}) <= Cardinality(Above(x))
            /\ Cardinality(Above(x)) \in Nat
        BY <1>1, <1>2, <1>3, <3>1, <3>2, <3>3, FS_RemoveElement
      <3> QED BY <3>3, <3>4
    <2> QED BY <2>1, <2>2
  <1>7. Cardinality(P) \in Nat
    BY <1>1, <1>3
  <1>8. page = P
    OBVIOUS
  <1> HIDE DEF P
  <1>9. Cardinality(P) = n
    BY <1>5, <1>6, <1>7
  <1>10. \A u \in P : t < u
    BY <1>4, Zenon
  <1> HIDE DEF Above
  <1> QED BY <1>8, <1>9, <1>10, Zenon

(* A page of the stream shows every event of its agent, or is full of      *)
(* newer ones.                                                             *)
LEMMA DetailIsNewest ==
    ASSUME tasks \in Seq(Task), NEW f, f.max_events \in Int,
           f.events = DetailOf(f.agent, f.max_events),
           NEW t \in DOMAIN tasks, tasks[t].agent = f.agent
    PROVE  Shown(f, t)
  <1> DEFINE A == {u \in DOMAIN tasks : tasks[u].agent = f.agent}
             n == PageSize(f.max_events)
  <1>1. /\ Len(tasks) \in Nat /\ A \in SUBSET (1 .. Len(tasks)) /\ t \in A
        /\ n \in Nat
    BY MaxEventsPositive DEF PageSize
  <1>2. \A x \in A : Newer(x) = {u \in A : u > x}
    BY DEF Newer
  <1>3. f.events = {x \in A : Cardinality({u \in A : u > x}) < n}
    <2>1. f.events = {x \in A : Cardinality(Newer(x)) < n}
      BY DEF DetailOf
    <2> HIDE DEF A, n
    <2> QED BY <1>2, <2>1
  <1>4. IsFiniteSet({u \in A : u > t}) /\ Cardinality({u \in A : u > t}) \in Nat
    <2>1. IsFiniteSet(1 .. Len(tasks)) /\ {u \in A : u > t} \in SUBSET (1 .. Len(tasks))
      BY <1>1, FS_Interval
    <2> HIDE DEF A
    <2> QED BY <2>1, FS_Subset, FS_CardinalityType
  <1> HIDE DEF A, n
  <1>5. CASE Cardinality({u \in A : u > t}) < n
    BY <1>1, <1>3, <1>5 DEF Shown
  <1>6. CASE Cardinality({u \in A : u > t}) >= n
    <2>1. \A page : page = {x \in A : Cardinality({u \in A : u > x}) < n}
             => Cardinality(page) = n /\ \A u \in page : t < u
      BY <1>1, <1>6, GreatestElements, Zenon
    <2>2. Cardinality(f.events) = n /\ \A u \in f.events : t < u
      BY <1>3, <2>1, Zenon
    <2> QED BY <2>2 DEF Shown, BeyondPage, n
  <1> QED BY <1>1, <1>4, <1>5, <1>6

SubscribedInv(f) ==
    f.kind = "subscribed" =>
        /\ f.sub < nextSub
        /\ f.sub \in DOMAIN subscriptions => subscriptions[f.sub] = f.agents

(* What the frame f before the snapshot g has to do with it.               *)
CoverInv(f, g) ==
    LET IsOf(t) == t \in DOMAIN tasks /\ tasks[t].agent = g.agent
    IN  /\ f.kind = "notify" /\ IsOf(f.event) => Shown(g, f.event)
        /\ /\ f.kind = "subscribed" /\ f.sub \in DOMAIN subClients
           /\ f.agents = {} \/ g.agent \in f.agents
           => \A t \in DOMAIN tasks :
                IsOf(t) => \/ Shown(g, t) \/ tasks[t].pc = "queued"
                           \/ f.sub \in tasks[t].audience

SnapshotInv ==
    /\ DeliveryInv
    /\ \A c \in Clients : \A i \in DOMAIN written[c] : SubscribedInv(written[c][i])
    /\ \A c \in Clients : \A j \in DOMAIN written[c] : written[c][j].kind = "detail" =>
         \A i \in 1 .. j - 1 : CoverInv(written[c][i], written[c][j])

(* A task keeps its audience, or chooses it now; a new task has none yet.  *)
AudiencesKept ==
    /\ DOMAIN tasks \subseteq DOMAIN tasks'
    /\ \A t \in DOMAIN tasks :
         /\ tasks'[t].agent = tasks[t].agent
         /\ \/ tasks'[t].audience = tasks[t].audience
               /\ (tasks[t].pc = "queued" => tasks'[t].pc = "queued")
            \/ tasks[t].pc = "queued" /\ tasks'[t].audience = Audience(tasks[t].agent)
    /\ \A t \in DOMAIN tasks' \ DOMAIN tasks : tasks'[t].pc = "queued"

AnswersKept ==
    \A c \in Clients : \A i \in DOMAIN written'[c] \ DOMAIN written[c] :
        LET f == written'[c][i] IN
        /\ f.kind = "detail" => \A t \in DOMAIN tasks' :
             tasks'[t].agent = f.agent => Shown(f, t)
        /\ f.kind = "subscribed" => f.sub < nextSub' /\ subscriptions'[f.sub] = f.agents

LEMMA SnapshotStays ==
    ASSUME SnapshotInv, DeliveryInv', FramesKept, RegistryKept, AudiencesKept, AnswersKept
    PROVE  SnapshotInv'
  <1>1. /\ nextSub \in Nat /\ nextSub' \in Nat /\ nextSub <= nextSub'
        /\ DOMAIN subClients = DOMAIN subscriptions
    BY RegistryBounds DEF SnapshotInv, DeliveryInv, TypesInv, RegistryTypes, RegistryKept
  <1>2. ASSUME NEW c \in Clients, NEW i \in DOMAIN written'[c]
        PROVE  SubscribedInv(written[c][i])'
    <2>1. CASE i \in DOMAIN written[c]
      <3>1. SubscribedInv(written[c][i]) /\ written'[c][i] = written[c][i]
        BY <2>1 DEF SnapshotInv, FramesKept
      <3>2. written[c][i].kind = "subscribed" => written[c][i].sub \in Nat
        <4>1. written[c][i] \in Frame
          BY <2>1 DEF SnapshotInv, DeliveryInv, TypesInv, ConnectionTypes
        <4> QED BY <4>1 DEF Frame, Other
      <3> QED BY <1>1, <3>1, <3>2 DEF SubscribedInv, RegistryKept
    <2>2. CASE i \notin DOMAIN written[c]
      BY <2>2 DEF SubscribedInv, AnswersKept
    <2> QED BY <2>1, <2>2
  <1>3. ASSUME NEW c \in Clients, NEW j \in DOMAIN written'[c],
               written'[c][j].kind = "detail", NEW i \in 1 .. j - 1
        PROVE  CoverInv(written[c][i], written[c][j])'
    <2> DEFINE f == written[c][i]
               g == written'[c][j]
    <2>1. /\ i \in DOMAIN written'[c]
          /\ j \in DOMAIN written[c] => i \in DOMAIN written[c]
          /\ written[c] \in Seq(Frame) /\ written'[c] \in Seq(Frame)
      BY DEF DeliveryInv, SnapshotInv, TypesInv, ConnectionTypes
    <2>2. CASE j \notin DOMAIN written[c]
      <3>1. \A t \in DOMAIN tasks' : tasks'[t].agent = g.agent => Shown(g, t)
        BY <1>3, <2>2 DEF AnswersKept
      <3> QED BY <3>1 DEF CoverInv
    <2>3. CASE j \in DOMAIN written[c]
      <3>1. /\ i \in DOMAIN written[c] /\ written'[c][i] = f /\ g = written[c][j]
            /\ SubscribedInv(f) /\ NotifyInv(f) /\ CoverInv(f, g)
        BY <1>3, <2>1, <2>3 DEF SnapshotInv, DeliveryInv, FramesKept
      <3>2. f.kind = "subscribed" => f.sub \in Nat
        BY <2>1, <3>1 DEF Frame, Other
      <3> HIDE DEF f, g
      <3>3. f.kind = "notify" /\ f.event \in DOMAIN tasks' /\ tasks'[f.event].agent = g.agent
            => Shown(g, f.event)
        BY <3>1 DEF CoverInv, NotifyInv, AudiencesKept
      <3>4. ASSUME f.kind = "subscribed", f.sub \in DOMAIN subClients',
                   f.agents = {} \/ g.agent \in f.agents,
                   NEW t \in DOMAIN tasks', ~Shown(g, t), tasks'[t].agent = g.agent
            PROVE  tasks'[t].pc = "queued" \/ f.sub \in tasks'[t].audience
        <4>1. /\ f.sub < nextSub /\ f.sub \in DOMAIN subClients
              /\ f.sub \in DOMAIN subscriptions /\ subscriptions[f.sub] = f.agents
          BY <1>1, <3>1, <3>2, <3>4 DEF SubscribedInv, RegistryKept
        <4>2. CASE t \in DOMAIN tasks
          <5>1. f.sub \in Audience(g.agent)
            BY <3>4, <4>1 DEF Audience, Matches
          <5>2. /\ tasks[t].agent = g.agent
                /\ tasks[t].pc = "queued" \/ f.sub \in tasks[t].audience
            BY <3>1, <3>4, <4>1, <4>2 DEF CoverInv, AudiencesKept
          <5> QED BY <4>2, <5>1, <5>2 DEF AudiencesKept
        <4>3. CASE t \notin DOMAIN tasks
          BY <3>4, <4>3 DEF AudiencesKept
        <4> QED BY <4>2, <4>3
      <3> QED BY <3>1, <3>3, <3>4 DEF CoverInv, g
    <2> QED BY <2>2, <2>3
  <1> QED BY <1>2, <1>3 DEF SnapshotInv

LEMMA NextKeepsSnapshot == SnapshotInv /\ [Next]_fanoutVars => SnapshotInv'
  <1> SUFFICES ASSUME SnapshotInv, [Next]_fanoutVars PROVE SnapshotInv'
    OBVIOUS
  <1>1. TypesInv /\ DeliveryInv /\ DeliveryInv' /\ TypesInv' /\ ConnectionTypes
    BY NextKeepsDelivery DEF SnapshotInv, DeliveryInv, TypesInv
  <1>2. nextSub \in Nat
    BY <1>1, RegistryBounds
  <1>3. ASSUME TasksKept, RegistryKept, Responds PROVE SnapshotInv'
    <2>1. FramesKept
      BY <1>1, <1>3, ResponseAddsNoNotification
    <2>2. AudiencesKept
      BY <1>3 DEF TasksKept, AudiencesKept
    <2>3. CASE UNCHANGED written
      <3>1. AnswersKept
        BY <2>3 DEF AnswersKept
      <3> QED BY <1>1, <1>3, <2>1, <2>2, <3>1, SnapshotStays
    <2>4. ASSUME NEW c \in Clients, NEW f \in Frame, Answers(f), Appends(c, f),
                 UNCHANGED tasks
          PROVE  SnapshotInv'
      <3>1. \A d \in Clients : \A i \in DOMAIN written'[d] \ DOMAIN written[d] :
              written'[d][i] = f
        BY <1>1, <2>4, FrameAppended
      <3>2. AnswersKept
        <4>1. f.kind = "detail" => \A t \in DOMAIN tasks : tasks[t].agent = f.agent => Shown(f, t)
          BY <1>1, <2>4, DetailIsNewest DEF Answers, TypesInv, TurnInv
        <4> QED BY <1>2, <2>4, <3>1, <4>1 DEF AnswersKept, Answers
      <3> QED BY <1>1, <1>3, <2>1, <2>2, <3>2, SnapshotStays
    <2> QED BY <1>3, <2>3, <2>4 DEF Responds
  <1>4. ASSUME NEW a \in Agents, Emit(a) PROVE SnapshotInv'
    <2>1. UNCHANGED << written, registryVars >> /\ tasks \in Seq(Task)
      BY <1>1, <1>4 DEF Emit, connectionVars, TypesInv, TurnInv
    <2>2. AudiencesKept
      BY <1>4, <2>1 DEF Emit, AudiencesKept
    <2>3. FramesKept /\ AnswersKept /\ RegistryKept
      BY <1>1, <2>1, RegistryStays DEF FramesKept, AnswersKept
    <2> QED BY <1>1, <2>2, <2>3, SnapshotStays
  <1>5. ASSUME NEW t \in DOMAIN tasks, StartPublish(t) PROVE SnapshotInv'
    <2>1. UNCHANGED << written, registryVars >> /\ tasks[t].pc = "queued"
      BY <1>5 DEF StartPublish, connectionVars
    <2>2. AudiencesKept
      BY <1>1, <1>5, RegistryBounds DEF StartPublish, AudiencesKept, Task
    <2>3. FramesKept /\ AnswersKept /\ RegistryKept
      BY <1>1, <2>1, RegistryStays DEF FramesKept, AnswersKept
    <2> QED BY <1>1, <2>2, <2>3, SnapshotStays
  <1>6. ASSUME NEW t \in DOMAIN tasks, TakesTurn(t) PROVE SnapshotInv'
    <2>1. PICK s \in tasks[t].pending, pc \in TaskStates \ {"queued", "done"} :
            /\ OnlyTask(t, tasks[t].audience, tasks[t].pending \ {s}, pc)
            /\ \/ s \notin DOMAIN subClients /\ UNCHANGED written
               \/ s \in DOMAIN subClients /\ Appends(subClients[s], Notification(t, s))
      BY <1>6 DEF TakesTurn
    <2>2. tasks[t].pc # "queued"
      BY <1>1 DEF DeliveryInv, TaskInv
    <2>3. AudiencesKept /\ RegistryKept
      BY <1>1, <2>1, <2>2, RegistryStays DEF AudiencesKept, OnlyTask
    <2>4. FramesKept /\ AnswersKept
      <3>1. CASE UNCHANGED written
        BY <3>1 DEF FramesKept, AnswersKept
      <3>2. CASE s \in DOMAIN subClients /\ Appends(subClients[s], Notification(t, s))
        <4> DEFINE f == Notification(t, s)
        <4>1. subClients[s] \in Clients /\ f \in Frame /\ f.kind = "notify"
          BY <1>1, <3>2, RegistryBounds, NotificationIsFrame DEF TypesInv, Notification
        <4> HIDE DEF f
        <4>2. /\ FramesKept
              /\ \A d \in Clients : \A i \in DOMAIN written'[d] \ DOMAIN written[d] :
                   written'[d][i] = f
          BY <1>1, <3>2, <4>1, FrameAppended DEF f
        <4> QED BY <4>1, <4>2 DEF AnswersKept
      <3> QED BY <2>1, <3>1, <3>2
    <2> QED BY <1>1, <2>3, <2>4, SnapshotStays
  <1> QED BY <1>1, <1>3, <1>4, <1>5, <1>6, StepIs

(* A client that subscribes and then asks for a snapshot has no gap from   *)
(* the oldest event of the page on, for every limit it asks with and every *)
(* capacity of the stream.                                                 *)
THEOREM SnapshotAndStreamCover == Spec => []DetailAndStreamCover
  <1>1. Init => SnapshotInv
    <2> SUFFICES ASSUME Init PROVE SnapshotInv
      OBVIOUS
    <2>1. ASSUME NEW c \in Clients PROVE DOMAIN written[c] = {}
      <3>1. written[c] = << >>
        BY DEF Init
      <3> QED BY <3>1
    <2> QED BY <2>1, InitEstablishesDelivery DEF SnapshotInv
  <1>2. SnapshotInv => DetailAndStreamCover
    <2> SUFFICES ASSUME SnapshotInv,
                        NEW c \in Clients, NEW j \in DOMAIN written[c],
                        written[c][j].kind = "detail", NEW i \in 1 .. j - 1
                 PROVE  LET detail == written[c][j]
                            f == written[c][i]
                            IsOf(t) == t \in DOMAIN tasks /\ tasks[t].agent = detail.agent
                        IN  /\ f.kind = "notify" /\ IsOf(f.event) => Shown(detail, f.event)
                            /\ /\ f.kind = "subscribed" /\ f.sub \in DOMAIN subClients
                               /\ f.agents = {} \/ detail.agent \in f.agents
                               => \A t \in DOMAIN tasks :
                                    IsOf(t) /\ tasks[t].pc = "done"
                                    => Shown(detail, t) \/ WasNotified(f.sub, t)
      BY DEF DetailAndStreamCover
    <2>1. CoverInv(written[c][i], written[c][j])
      BY DEF SnapshotInv
    <2>2. \A t \in DOMAIN tasks : TaskInv(t)
      BY DEF SnapshotInv, DeliveryInv
    <2> QED BY <2>1, <2>2 DEF CoverInv, TaskInv
  <1> QED BY <1>1, <1>2, NextKeepsSnapshot, PTL DEF Spec

=============================================================================
