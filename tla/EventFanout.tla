---------------------------- MODULE EventFanout ----------------------------
(***************************************************************************)
(* Event streaming over the control API: the subscription registry of      *)
(* api/server.py, the connection handlers and publish_event of             *)
(* api/jsonrpc_ws.py, and the publish tasks that runtime/runner.py creates *)
(* for every agent event.                                                  *)
(*                                                                         *)
(* Everything runs in one asyncio loop.  A coroutine keeps the loop until  *)
(* it suspends: `current` is the one that holds it between the steps of    *)
(* one run, Nobody when the loop may resume another.  New tasks are first  *)
(* run in the order of their creation.                                     *)
(*                                                                         *)
(* Connections are those of the legacy websockets server (external): send  *)
(* puts the frame in the write buffer at once, then waits, in turn with    *)
(* the other senders of the connection, while the buffer is over its limit *)
(* (paused); on a closing connection it waits for the close and raises.    *)
(***************************************************************************)
EXTENDS AgentEvents, FiniteSets

CONSTANTS Clients,      \* connections, each opened at most once
          Agents,       \* agents whose events are published
          Requests,     \* the requests clients may make
          MaxRequests,  \* bound: requests of all clients together
          MaxEmitted,   \* bound: events published
          Leaving       \* bound: whether connections may end

Nobody  == 0
Handler == 0            \* the handler of a connection, in its queue `drain`

Subscribe(agent_ids) == [kind |-> "subscribe", agents |-> agent_ids]
Unsubscribe(sub)     == [kind |-> "unsubscribe", sub |-> sub]
Detail(agent_id, max_events) ==
    [kind |-> "detail", agent |-> agent_id, max_events |-> max_events]
Undecodable          == [kind |-> "undecodable"]
Other                == [kind |-> "other"]

ASSUME RequestsAreRequests ==
    Requests \subseteq [kind : {"subscribe"}, agents : SUBSET Agents]
                       \cup [kind : {"unsubscribe"}, sub : Nat]
                       \cup [kind : {"detail"}, agent : Agents, max_events : Int]
                       \cup {Undecodable, Other}
ASSUME BoundsAreNats == MaxRequests \in Nat /\ MaxEmitted \in Nat
ASSUME LeavingBoolean == Leaving \in BOOLEAN
ASSUME ClientsAreNotTasks == \A c \in Clients : c \notin Nat

VARIABLES conn,             \* state of each connection
          handler,          \* where the handler of each connection is
          inbox, asked,     \* requests not yet read; number of requests sent
          written,          \* frames written to each connection, in order
          paused, drain,    \* write buffer over its limit; senders waiting
          subscriptions,    \* _subscriptions: id -> agent_ids, {} for all
          nextSub,          \* _next_subscription_id
          subClients,       \* _subscription_clients: id -> connection
          clientSubs,       \* _client_subscriptions: connection -> set of ids
          tasks,            \* the publish tasks, in order of creation
          current,          \* the task or connection whose coroutine runs
          server            \* the WebSocket server

registryVars   == << subscriptions, nextSub, subClients, clientSubs >>
connectionVars == << conn, inbox, asked, written, paused, drain >>
fanoutVars == << connectionVars, handler, registryVars, tasks, current, server >>

Without(f, S) == [x \in DOMAIN f \ S |-> f[x]]
With(f, x, v) == [y \in DOMAIN f \cup {x} |-> IF y = x THEN v ELSE f[y]]

-----------------------------------------------------------------------------
(* Sending *)

(* The write of a frame to connection c by coroutine w: the buffer may go  *)
(* over its limit, and then, or behind earlier senders, w has to wait.     *)
Write(c, frame, w) ==
    /\ written' = [written EXCEPT ![c] = Append(@, frame)]
    /\ \E over \in BOOLEAN :
         /\ paused[c] => over
         /\ paused' = [paused EXCEPT ![c] = over]
         /\ drain' = IF over \/ drain[c] # << >>
                     THEN [drain EXCEPT ![c] = Append(@, w)] ELSE drain

(* The writer w of the last Write to c was told to wait.                   *)
Waits(c) == drain'[c] # drain[c]

-----------------------------------------------------------------------------
(* Connections (external) *)

Connect(c) ==
    /\ server = "up" /\ current = Nobody /\ conn[c] = "absent"
    /\ conn' = [conn EXCEPT ![c] = "open"]
    /\ handler' = [handler EXCEPT ![c] = "recv"]
    /\ UNCHANGED << inbox, asked, written, paused, drain, registryVars, tasks,
                    current, server >>

SendRequest(c, request) ==
    /\ current = Nobody /\ conn[c] = "open" /\ handler[c] # "done"
    /\ asked < MaxRequests
    /\ asked' = asked + 1
    /\ inbox' = [inbox EXCEPT ![c] = Append(@, request)]
    /\ UNCHANGED << conn, written, paused, drain, handler, registryVars, tasks,
                    current, server >>

(* The client starts the closing handshake.                                *)
CloseConnection(c) ==
    /\ Leaving /\ current = Nobody /\ conn[c] = "open"
    /\ conn' = [conn EXCEPT ![c] = "closing"]
    /\ UNCHANGED << inbox, asked, written, paused, drain, handler, registryVars,
                    tasks, current, server >>

(* The closing handshake ends, or its timeout expires.                     *)
ConnectionClosed(c) ==
    /\ current = Nobody /\ conn[c] = "closing"
    /\ conn' = [conn EXCEPT ![c] = "closed"]
    /\ UNCHANGED << inbox, asked, written, paused, drain, handler, registryVars,
                    tasks, current, server >>

(* The connection drops without a handshake: the peer died, or did not     *)
(* answer the keepalive ping in time.                                      *)
ConnectionLost(c) ==
    /\ Leaving /\ current = Nobody /\ conn[c] = "open"
    /\ conn' = [conn EXCEPT ![c] = "closed"]
    /\ UNCHANGED << inbox, asked, written, paused, drain, handler, registryVars,
                    tasks, current, server >>

(* The client has read enough: the write buffer is below its limit again.  *)
Resume(c) ==
    /\ current = Nobody /\ paused[c] /\ conn[c] # "closed"
    /\ paused' = [paused EXCEPT ![c] = FALSE]
    /\ UNCHANGED << conn, inbox, asked, written, drain, handler, registryVars,
                    tasks, current, server >>

-----------------------------------------------------------------------------
(* Connection handlers *)

RegisterReusesId(c, agent_ids) ==       \* bug: the counter is not advanced
    /\ subscriptions' = With(subscriptions, nextSub, agent_ids)
    /\ subClients' = With(subClients, nextSub, c)
    /\ clientSubs' = With(clientSubs, c,
         {nextSub} \cup IF c \in DOMAIN clientSubs THEN clientSubs[c] ELSE {})
    /\ UNCHANGED nextSub

(* subscribe_events, and the bookkeeping of _handle_client for it.         *)
RegisterSubscription(c, agent_ids) ==
    /\ subscriptions' = With(subscriptions, nextSub, agent_ids)
    /\ nextSub' = nextSub + 1
    /\ subClients' = With(subClients, nextSub, c)
    /\ clientSubs' = With(clientSubs, c,
         {nextSub} \cup IF c \in DOMAIN clientSubs THEN clientSubs[c] ELSE {})

DropSubscriptionLate(c, sub) ==         \* bug: leaves it all to the cleanup
    UNCHANGED registryVars

(* unsubscribe_events, and the bookkeeping of _handle_client for it: the   *)
(* id may be unknown, or belong to another connection.                     *)
DropSubscription(c, sub) ==
    /\ subscriptions' = Without(subscriptions, {sub})
    /\ subClients' = Without(subClients, {sub})
    /\ clientSubs' = IF c \in DOMAIN clientSubs
                     THEN [clientSubs EXCEPT ![c] = @ \ {sub}] ELSE clientSubs
    /\ UNCHANGED nextSub

(* dispatch_request and the bookkeeping; a request of another kind, or one *)
(* that is refused, leaves the registry alone.                             *)
Dispatch(c, request) ==
    CASE request.kind = "subscribe"   -> RegisterSubscription(c, request.agents)
      [] request.kind = "unsubscribe" -> DropSubscription(c, request.sub)
      [] OTHER                        -> UNCHANGED registryVars

(* The page that get_events cuts for a limit from a full stream.           *)
PageSize(limit) == IF limit < 0 THEN 0 ELSE IF limit < MaxEvents THEN limit ELSE MaxEvents

(* The events of the agent of task t that came after t: an event enters    *)
(* the stream of its agent in the same step that creates its task.         *)
Newer(t) == {u \in DOMAIN tasks : u > t /\ tasks[u].agent = tasks[t].agent}

DetailOfPublished(agent_id, max_events) ==  \* bug: only what was fanned out
    {t \in DOMAIN tasks : /\ tasks[t].agent = agent_id /\ tasks[t].pc = "done"
                          /\ Cardinality(Newer(t)) < PageSize(max_events)}

(* The events that agent.get_detail shows: the newest ones, as many as the *)
(* request and the stream allow.                                           *)
DetailOf(agent_id, max_events) ==
    {t \in DOMAIN tasks : /\ tasks[t].agent = agent_id
                          /\ Cardinality(Newer(t)) < PageSize(max_events)}

Response(request) ==
    CASE request.kind = "subscribe"   -> [kind |-> "subscribed", sub |-> nextSub,
                                          agents |-> request.agents]
      [] request.kind = "unsubscribe" -> [kind |-> "unsubscribed",
                                          sub |-> request.sub]
      [] request.kind = "detail"      ->
             [kind |-> "detail", agent |-> request.agent,
              max_events |-> request.max_events,
              events |-> DetailOf(request.agent, request.max_events)]
      [] OTHER                        -> [kind |-> "other"]

(* One turn of the loop of _handle_client: the oldest request is read,     *)
(* even from a connection that is no longer open, dispatched and answered. *)
HandleRequest(c) ==
    /\ current = Nobody /\ handler[c] = "recv" /\ inbox[c] # << >>
    /\ Head(inbox[c]) # Undecodable
    /\ inbox' = [inbox EXCEPT ![c] = Tail(@)]
    /\ Dispatch(c, Head(inbox[c]))
    /\ \/ /\ conn[c] = "open"
          /\ Write(c, Response(Head(inbox[c])), Handler)
          /\ handler' = [handler EXCEPT ![c] = IF Waits(c) THEN "drain" ELSE "recv"]
          /\ UNCHANGED current
       \/ /\ conn[c] = "closing"
          /\ handler' = [handler EXCEPT ![c] = "ensure_open"]
          /\ UNCHANGED << written, paused, drain, current >>
       \/ /\ conn[c] = "closed"
          /\ handler' = [handler EXCEPT ![c] = "raising"]
          /\ current' = c
          /\ UNCHANGED << written, paused, drain >>
    /\ UNCHANGED << conn, asked, tasks, server >>

(* A frame of bytes in no encoding of JSON: json.loads raises an error that *)
(* is not a JSONDecodeError, which ends the handler.                       *)
HandlerRaises(c) ==
    /\ current = Nobody /\ handler[c] = "recv" /\ inbox[c] # << >>
    /\ Head(inbox[c]) = Undecodable
    /\ inbox' = [inbox EXCEPT ![c] = Tail(@)]
    /\ handler' = [handler EXCEPT ![c] = "raising"]
    /\ current' = c
    /\ UNCHANGED << conn, asked, written, paused, drain, registryVars, tasks, server >>

CleanupForgetsRegistry(c) ==            \* bug: _subscriptions keeps the ids
    LET subs == IF c \in DOMAIN clientSubs THEN clientSubs[c] ELSE {}
    IN  /\ clientSubs' = Without(clientSubs, {c})
        /\ subClients' = Without(subClients, subs)
        /\ UNCHANGED << subscriptions, nextSub >>

CleanupKeepsSet(c) ==                   \* bug: reads the set, keeps it
    LET subs == IF c \in DOMAIN clientSubs THEN clientSubs[c] ELSE {}
    IN  /\ subClients' = Without(subClients, subs)
        /\ subscriptions' = Without(subscriptions, subs)
        /\ UNCHANGED << nextSub, clientSubs >>

(* _cleanup_client.                                                        *)
Cleanup(c) ==
    LET subs == IF c \in DOMAIN clientSubs THEN clientSubs[c] ELSE {}
    IN  /\ clientSubs' = Without(clientSubs, {c})
        /\ subClients' = Without(subClients, subs)
        /\ subscriptions' = Without(subscriptions, subs)
        /\ UNCHANGED nextSub

(* The handler ends, by the end of the messages of a closed connection or  *)
(* by an exception, and its finally block cleans up.  The server then      *)
(* closes a connection that is still open.                                 *)
HandlerEnds(c) ==
    /\ \/ current = Nobody /\ handler[c] = "recv" /\ inbox[c] = << >>
          /\ conn[c] = "closed"
       \/ current = Nobody /\ handler[c] = "ensure_open" /\ conn[c] = "closed"
       \/ current = c /\ handler[c] = "raising"
    /\ Cleanup(c)
    /\ handler' = [handler EXCEPT ![c] = "done"]
    /\ conn' = [conn EXCEPT ![c] = IF @ = "open" THEN "closing" ELSE @]
    /\ current' = Nobody
    /\ UNCHANGED << inbox, asked, written, paused, drain, tasks, server >>

-----------------------------------------------------------------------------
(* Publishing *)

(* The bridge of runner.py: an event of agent a makes a task.              *)
Emit(a) ==
    /\ current = Nobody /\ Len(tasks) < MaxEmitted
    /\ tasks' = Append(tasks, [agent |-> a, pc |-> "queued",
                               audience |-> {}, pending |-> {},
                               at |-> {}])
    /\ UNCHANGED << connectionVars, handler, registryVars, current, server >>

Matches(sub, a) == subscriptions[sub] = {} \/ a \in subscriptions[sub]

(* build_agent_event_notifications: the matching subscriptions.            *)
Audience(a) == {s \in DOMAIN subscriptions : Matches(s, a)}

(* The messages of task t are sent in the order in which the registry has  *)
(* their subscriptions, a dict: that is the order of their ids.            *)
IsNext(t, s) == s \in tasks[t].pending /\ \A u \in tasks[t].pending : s <= u

StartPublishAnyOrder(t) ==              \* bug: started from several threads
    /\ current = Nobody /\ tasks[t].pc = "queued"
    /\ tasks' = [tasks EXCEPT ![t].pc = "running",
                              ![t].audience = Audience(tasks[t].agent),
                              ![t].pending = Audience(tasks[t].agent)]
    /\ current' = t
    /\ UNCHANGED << connectionVars, handler, registryVars, server >>

(* publish_event begins: the audience is fixed now.                        *)
StartPublish(t) ==
    /\ current = Nobody /\ tasks[t].pc = "queued"
    /\ \A u \in 1 .. t - 1 : tasks[u].pc # "queued"
    /\ tasks' = [tasks EXCEPT ![t].pc = "running",
                              ![t].audience = Audience(tasks[t].agent),
                              ![t].pending = Audience(tasks[t].agent)]
    /\ current' = t
    /\ UNCHANGED << connectionVars, handler, registryVars, server >>

PublishSkipsForever(t, s) ==            \* bug: the loop does not advance
    /\ current = t /\ s \notin DOMAIN subClients
    /\ UNCHANGED fanoutVars

(* The next subscription is no longer there.                               *)
PublishSkips(t, s) ==
    /\ current = t /\ s \notin DOMAIN subClients
    /\ tasks' = [tasks EXCEPT ![t].pending = @ \ {s}]
    /\ UNCHANGED << connectionVars, handler, registryVars, current, server >>

Notification(t, s) == [kind |-> "notify", sub |-> s, event |-> t]

PublishDropsWhenFull(t, s) ==           \* bug: skips a slow subscriber
    LET c == subClients[s] IN
    /\ conn[c] = "open"
    /\ IF paused[c] THEN UNCHANGED << written, paused, drain >>
       ELSE Write(c, Notification(t, s), t)
    /\ IF Waits(c)
       THEN /\ tasks' = [tasks EXCEPT ![t].pc = "drain", ![t].pending = @ \ {s}]
            /\ current' = Nobody
       ELSE /\ tasks' = [tasks EXCEPT ![t].pending = @ \ {s}]
            /\ UNCHANGED current
    /\ UNCHANGED << conn, inbox, asked >>

PublishResendsAfterWait(t, s) ==        \* bug: goes on with the same message
    LET c == subClients[s] IN
    /\ conn[c] = "open"
    /\ Write(c, Notification(t, s), t)
    /\ IF Waits(c)
       THEN /\ tasks' = [tasks EXCEPT ![t].pc = "drain"]
            /\ current' = Nobody
       ELSE /\ tasks' = [tasks EXCEPT ![t].pending = @ \ {s}]
            /\ UNCHANGED current
    /\ UNCHANGED << conn, inbox, asked >>

(* The connection is open: the notification is written, and the task keeps *)
(* the loop unless it has to wait for the write buffer.                    *)
PublishWrites(t, s) ==
    LET c == subClients[s] IN
    /\ conn[c] = "open"
    /\ Write(c, Notification(t, s), t)
    /\ IF Waits(c)
       THEN /\ tasks' = [tasks EXCEPT ![t].pc = "drain", ![t].pending = @ \ {s}]
            /\ current' = Nobody
       ELSE /\ tasks' = [tasks EXCEPT ![t].pending = @ \ {s}]
            /\ UNCHANGED current
    /\ UNCHANGED << conn, inbox, asked >>

(* The connection is closing: send waits for the close, then raises.       *)
PublishAwaitsClose(t, s) ==
    LET c == subClients[s] IN
    /\ conn[c] = "closing"
    /\ tasks' = [tasks EXCEPT ![t].pc = "ensure_open", ![t].at = {c}]
    /\ current' = Nobody
    /\ UNCHANGED connectionVars

(* The connection is closed and its handler has not cleaned up yet: send   *)
(* raises, and the exception ends the task.                                *)
PublishRaises(t, s) ==
    /\ conn[subClients[s]] = "closed"
    /\ tasks' = [tasks EXCEPT ![t].pc = "failed"]
    /\ current' = Nobody
    /\ UNCHANGED connectionVars

(* One turn of the loop of publish_event: the connection is looked up when *)
(* the turn comes, not when the audience was fixed.                        *)
PublishSends(t, s) ==
    /\ current = t /\ s \in DOMAIN subClients
    /\ PublishWrites(t, s) \/ PublishAwaitsClose(t, s) \/ PublishRaises(t, s)
    /\ UNCHANGED << handler, registryVars, server >>

PublishEnds(t) ==
    /\ current = t /\ tasks[t].pending = {}
    /\ tasks' = [tasks EXCEPT ![t].pc = "done"]
    /\ current' = Nobody
    /\ UNCHANGED << connectionVars, handler, registryVars, server >>

PublishAwaitRaises(t) ==
    /\ current = Nobody /\ tasks[t].pc = "ensure_open"
    /\ \A c \in tasks[t].at : conn[c] = "closed"
    /\ tasks' = [tasks EXCEPT ![t].pc = "failed"]
    /\ UNCHANGED << connectionVars, handler, registryVars, current, server >>

-----------------------------------------------------------------------------
(* Senders that wait for a write buffer resume in turn. *)

(* The wait is over: a publish task goes on with its next message, a       *)
(* handler with its next request.  On a closed connection the wait may     *)
(* also end normally, when it was woken before the connection was lost or  *)
(* when the connection was lost without an error.                          *)
DrainReturns(c) ==
    /\ current = Nobody /\ drain[c] # << >>
    /\ paused[c] => conn[c] = "closed"
    /\ drain' = [drain EXCEPT ![c] = Tail(@)]
    /\ IF Head(drain[c]) = Handler
       THEN /\ handler' = [handler EXCEPT ![c] = "recv"]
            /\ UNCHANGED << tasks, current >>
       ELSE /\ tasks' = [tasks EXCEPT ![Head(drain[c])].pc = "running"]
            /\ current' = Head(drain[c])
            /\ UNCHANGED handler
    /\ UNCHANGED << conn, inbox, asked, written, paused, registryVars, server >>

(* The wait ends with ConnectionClosed.                                    *)
DrainRaises(c) ==
    /\ current = Nobody /\ drain[c] # << >> /\ conn[c] = "closed"
    /\ drain' = [drain EXCEPT ![c] = Tail(@)]
    /\ IF Head(drain[c]) = Handler
       THEN /\ handler' = [handler EXCEPT ![c] = "raising"]
            /\ current' = c
            /\ UNCHANGED tasks
       ELSE /\ tasks' = [tasks EXCEPT ![Head(drain[c])].pc = "failed"]
            /\ UNCHANGED << handler, current >>
    /\ UNCHANGED << conn, inbox, asked, written, paused, registryVars, server >>

-----------------------------------------------------------------------------
(* JsonRpcWebSocketServer.stop *)

(* close(): no more connections, and the open ones start to close.         *)
StopBegins ==
    /\ Leaving /\ server = "up" /\ current = Nobody
    /\ server' = "closing"
    /\ conn' = [c \in Clients |-> IF conn[c] = "open" THEN "closing" ELSE conn[c]]
    /\ UNCHANGED << inbox, asked, written, paused, drain, handler, registryVars,
                    tasks, current >>

(* wait_closed() returns when every handler has ended; the maps of the     *)
(* server are cleared, those of the registry are not.                      *)
StopEnds ==
    /\ server = "closing" /\ current = Nobody
    /\ \A c \in Clients : handler[c] \in {"none", "done"}
    /\ server' = "down"
    /\ subClients' = Without(subClients, DOMAIN subClients)
    /\ clientSubs' = Without(clientSubs, DOMAIN clientSubs)
    /\ UNCHANGED << connectionVars, handler, subscriptions, nextSub, tasks, current >>

-----------------------------------------------------------------------------
Init ==
    /\ conn = [c \in Clients |-> "absent"]
    /\ handler = [c \in Clients |-> "none"]
    /\ inbox = [c \in Clients |-> << >>] /\ asked = 0
    /\ written = [c \in Clients |-> << >>]
    /\ paused = [c \in Clients |-> FALSE]
    /\ drain = [c \in Clients |-> << >>]
    /\ subscriptions = [s \in {} |-> {}] /\ nextSub = 1
    /\ subClients = [s \in {} |-> {}] /\ clientSubs = [c \in {} |-> {}]
    /\ tasks = << >>
    /\ current = Nobody
    /\ server = "up"

Publishing(t) ==
    \/ StartPublish(t) \/ PublishEnds(t) \/ PublishAwaitRaises(t)
    \/ \E s \in tasks[t].pending :
         IsNext(t, s) /\ (PublishSkips(t, s) \/ PublishSends(t, s))

Next ==
    \/ \E c \in Clients :
         \/ Connect(c) \/ CloseConnection(c) \/ ConnectionClosed(c)
         \/ ConnectionLost(c) \/ Resume(c)
         \/ \E request \in Requests : SendRequest(c, request)
         \/ HandleRequest(c) \/ HandlerRaises(c) \/ HandlerEnds(c)
         \/ DrainReturns(c) \/ DrainRaises(c)
    \/ \E a \in Agents : Emit(a)
    \/ \E t \in DOMAIN tasks : Publishing(t)
    \/ StopBegins \/ StopEnds

(* The loop keeps running whatever is ready.  A paused connection does not *)
(* stay so: its client reads on, or the keepalive of websockets drops it;  *)
(* a closing handshake has a timeout.  Nobody has to connect, ask, leave,  *)
(* emit or stop.                                                           *)
Fairness ==
    /\ \A c \in Clients :
         /\ WF_fanoutVars(HandleRequest(c) \/ HandlerRaises(c))
         /\ WF_fanoutVars(HandlerEnds(c))
         /\ WF_fanoutVars(DrainReturns(c) \/ DrainRaises(c))
         /\ WF_fanoutVars(Resume(c)) /\ WF_fanoutVars(ConnectionClosed(c))
    /\ \A t \in 1 .. MaxEmitted :
         WF_fanoutVars(t \in DOMAIN tasks /\ Publishing(t))

Spec == Init /\ [][Next]_fanoutVars /\ Fairness

-----------------------------------------------------------------------------
(* Properties *)

Frame == [kind : {"subscribed"}, sub : Nat, agents : SUBSET Agents]
         \cup [kind : {"unsubscribed"}, sub : Nat] \cup {Other}
         \cup [kind : {"detail"}, agent : Agents, max_events : Int,
               events : SUBSET (1 .. MaxEmitted)]
         \cup [kind : {"notify"}, sub : Nat, event : 1 .. MaxEmitted]

FanoutTypeOK ==
    /\ conn \in [Clients -> {"absent", "open", "closing", "closed"}]
    /\ handler \in [Clients -> {"none", "recv", "drain", "ensure_open", "raising",
                                 "done"}]
    /\ inbox \in [Clients -> Seq(Requests)] /\ asked \in 0 .. MaxRequests
    /\ written \in [Clients -> Seq(Frame)]
    /\ paused \in [Clients -> BOOLEAN]
    /\ drain \in [Clients -> Seq(Nat)]
    /\ \A c \in Clients : \A i, j \in DOMAIN drain[c] :
         /\ drain[c][i] = drain[c][j] => i = j
         /\ drain[c][i] # Handler => tasks[drain[c][i]].pc = "drain"
    /\ nextSub \in Nat \ {0} /\ DOMAIN subscriptions \subseteq 1 .. nextSub - 1
    /\ subscriptions \in [DOMAIN subscriptions -> SUBSET Agents]
    /\ subClients \in [DOMAIN subClients -> Clients]
    /\ DOMAIN clientSubs \subseteq Clients
    /\ clientSubs \in [DOMAIN clientSubs -> SUBSET (1 .. nextSub - 1)]
    /\ tasks \in Seq([agent : Agents, at : SUBSET Clients,
                      pc : {"queued", "running", "drain", "ensure_open", "done",
                            "failed"},
                      audience : SUBSET (1 .. nextSub - 1),
                      pending : SUBSET (1 .. nextSub - 1)])
    /\ current \in {Nobody} \cup DOMAIN tasks \cup Clients
    /\ server \in {"up", "closing", "down"}

(* The three maps agree whenever a coroutine could look: the registry and  *)
(* the routing map hold the same subscriptions, each is in the set of the  *)
(* connection it is routed to, no set claims a subscription of another,    *)
(* and every connection in the maps still has a handler that will clean    *)
(* up after it.  Nothing is left of a connection whose handler has ended.  *)
RegistryAgreement ==
    /\ DOMAIN subClients = DOMAIN subscriptions
    /\ \A s \in DOMAIN subClients :
         subClients[s] \in DOMAIN clientSubs /\ s \in clientSubs[subClients[s]]
    /\ \A c \in DOMAIN clientSubs :
         /\ handler[c] \notin {"none", "done"}
         /\ \A s \in clientSubs[c] \cap DOMAIN subClients : subClients[s] = c

IsAck(frame, kind, sub) == frame.kind = kind /\ frame.sub = sub

(* What a client is sent makes sense to it: a notification comes after the *)
(* answer that told it the subscription id, and none comes after the       *)
(* answer to its unsubscribe, although publish tasks that chose their      *)
(* audience before are still running.                                      *)
NotifiedOnlyWhileSubscribed ==
    \A c \in Clients : \A i \in DOMAIN written[c] :
        LET frame == written[c][i] IN
        frame.kind = "notify" =>
            \E j \in 1 .. i - 1 :
                /\ IsAck(written[c][j], "subscribed", frame.sub)
                /\ \A k \in j + 1 .. i - 1 :
                     ~IsAck(written[c][k], "unsubscribed", frame.sub)

(* Where subscription s was sent a notification of event t, and whether it *)
(* was sent one more than once.                                            *)
Deliveries(s, t) ==
    {p \in UNION {{c} \X DOMAIN written[c] : c \in Clients} :
        written[p[1]][p[2]] = [kind |-> "notify", sub |-> s, event |-> t]}
Sent(s, t) == IF Deliveries(s, t) = {} THEN "never"
              ELSE IF \A p, q \in Deliveries(s, t) : p = q THEN "once" ELSE "again"

Phase(s)  == IF s \in DOMAIN subscriptions THEN "active" ELSE "ended"
Wanted(s) == IF s \in DOMAIN subscriptions THEN subscriptions[s] ELSE {}

(* Registry, routing maps, connections and publish tasks together keep the *)
(* promises of SubscriptionContract.                                       *)
Subscription == INSTANCE SubscriptionContract
    WITH phase  <- [s \in 1 .. nextSub - 1 |-> Phase(s)],
         wanted <- [s \in 1 .. nextSub - 1 |-> Wanted(s)],
         events <- [t \in DOMAIN tasks |-> tasks[t].agent],
         offers <- [s \in 1 .. nextSub - 1 |-> [t \in DOMAIN tasks |-> Sent(s, t)]]
KeepsSubscriptionContract == Subscription!Spec

WasNotified(s, t) ==
    \E i \in DOMAIN written[subClients[s]] :
        written[subClients[s]][i] = [kind |-> "notify", sub |-> s, event |-> t]

(* A publish task that ends normally has notified everyone in its audience *)
(* who is still subscribed.                                                *)
DoneMeansDelivered ==
    \A t \in DOMAIN tasks : tasks[t].pc = "done" =>
        \A s \in tasks[t].audience \cap DOMAIN subClients : WasNotified(s, t)

(* Event t is one that a detail answer had no room for: the page is full   *)
(* of newer events.                                                        *)
BeyondPage(detail, t) ==
    /\ Cardinality(detail.events) = PageSize(detail.max_events)
    /\ \A u \in detail.events : t < u
Shown(detail, t) == t \in detail.events \/ BeyondPage(detail, t)

(* A client that subscribes and then asks for the detail of an agent has   *)
(* no gap from the oldest event of the page on, none at all when the page  *)
(* is not full: what it was notified of before the answer is in the page   *)
(* or beyond it, and so is every event that has been fanned out and was    *)
(* not notified to each subscription made before and still there.          *)
DetailAndStreamCover ==
    \A c \in Clients : \A j \in DOMAIN written[c] :
        LET detail == written[c][j]
            IsOf(t) == t \in DOMAIN tasks /\ tasks[t].agent = detail.agent
        IN  detail.kind = "detail" => \A i \in 1 .. j - 1 :
                LET f == written[c][i] IN
                /\ f.kind = "notify" /\ IsOf(f.event) => Shown(detail, f.event)
                /\ /\ f.kind = "subscribed" /\ f.sub \in DOMAIN subClients
                   /\ f.agents = {} \/ detail.agent \in f.agents
                   => \A t \in DOMAIN tasks :
                        IsOf(t) /\ tasks[t].pc = "done"
                        => Shown(detail, t) \/ WasNotified(f.sub, t)

(* jsonrpc_ws.py, publish_event: "Send each notification to the WebSocket  *)
(* associated with its subscription, if still connected."  However a task  *)
(* ends, those of its audience who are still connected have been notified. *)
ConnectedAreNotified ==
    \A t \in DOMAIN tasks : tasks[t].pc \in {"done", "failed"} =>
        \A s \in tasks[t].audience \cap DOMAIN subClients :
            conn[subClients[s]] = "open" => WasNotified(s, t)

(* Nobody has unsubscribed or begun to close so far.                       *)
NobodyLeft ==
    \A c \in Clients :
        /\ conn[c] \in {"absent", "open"}
        /\ \A i \in DOMAIN written[c] : written[c][i].kind # "unsubscribed"

(* As long as nobody leaves, a subscription sees the events of one agent   *)
(* in the order in which they happened, however slow it or others are.     *)
(* (A task that waits for a slow subscriber who unsubscribes is overtaken  *)
(* by the next one, which skips that subscriber.)                          *)
EventsInOrder ==
    NobodyLeft =>
        \A c \in Clients : \A i, j \in DOMAIN written[c] :
            LET f == written[c][i]
                g == written[c][j]
            IN  /\ f.kind = "notify" /\ g.kind = "notify" /\ f.sub = g.sub
                /\ tasks[f.event].agent = tasks[g.event].agent
                /\ i < j
                => f.event < g.event

(* Every event is eventually dealt with, whatever the connections do: no   *)
(* slow or dead client holds a publish task for ever.                      *)
PublishingEnds ==
    \A t \in 1 .. MaxEmitted :
        t \in DOMAIN tasks ~> t \in DOMAIN tasks /\ tasks[t].pc \in {"done", "failed"}

(* The subscriptions of a connection that is gone are eventually removed.  *)
DepartedAreForgotten ==
    \A c \in Clients :
        conn[c] = "closed" ~> c \notin DOMAIN clientSubs /\ handler[c] = "done"
=============================================================================
