--------------------------- MODULE RuntimeDaemon ---------------------------
(***************************************************************************)
(* The runtime daemon: RuntimeDaemon (runtime/daemon.py), RuntimeScheduler *)
(* (runtime/scheduler.py), the serving coroutine of runtime/runner.py and  *)
(* the runtime.shutdown handler of api/server.py, above AgentSupervisor.   *)
(*                                                                         *)
(* All of it runs in one asyncio loop: what a coroutine does between two   *)
(* awaits is one step.  The daemon is driven either by the coroutine       *)
(* serve_runtime_control_api ("serve") or by a program that embeds it and  *)
(* calls its methods ("embedded": the CLI without --with-control-api and   *)
(* the tests).  It starts as create or resume has just built it.           *)
(***************************************************************************)
EXTENDS AgentSupervisor

CONSTANTS Clients,          \* connections that call runtime.shutdown
          MailMayFail,      \* the mail adapter may raise
          LastKnown         \* persisted AgentMetadata.last_known_status

ASSUME MailMayFailBoolean == MailMayFail \in BOOLEAN
ASSUME LastKnownStatus == LastKnown \in AgentStatus

VARIABLES driver,               \* who drives the daemon
          pc,                   \* where the serving coroutine is suspended
          ws,                   \* the WebSocket server
          status, shutdown_requested,           \* RuntimeState
          running,              \* RuntimeScheduler.running
          unread,               \* agents the mail adapter flags
          call,                 \* each client's runtime.shutdown request
          accepted              \* requests answered "accepted" so far

serverVars == << driver, pc, ws >>
stateVars  == << status, shutdown_requested >>
daemonVars == << agents, history, driver, pc, ws, status, shutdown_requested,
                 running, unread, call, accepted >>

RuntimeStatus == {"Starting", "Running", "ShuttingDown", "Stopped", "Failed"}

-----------------------------------------------------------------------------
(* RuntimeScheduler *)

(* The events of the agents of S when each has recorded unread mail.       *)
MailRecorded(ags, S) ==
    [a \in DOMAIN ags |->
       IF a \in S THEN WithEvent(ags[a], NextEvent(ags[a], "MailReceived", NoError))
       ELSE ags[a]]

SchedulerPollsFirst ==                  \* bug: polls before agents exist
    LET flagged == unread \cap DOMAIN agents IN
    /\ \A a \in flagged : Len(history[a]) < EmitBound
    /\ agents' = Launched(MailRecorded(agents, flagged))
    /\ history' = [a \in Configured |->
         IF a \in flagged
         THEN Append(history[a], NextEvent(agents[a], "MailReceived", NoError))
         ELSE history[a]]
    /\ running' = TRUE

(* The body of start when it is not running: launch every agent, poll the  *)
(* mail adapter once, and record mail for the flagged agents.              *)
SchedulerInitializes ==
    LET launched == Launched(agents)
        flagged  == unread \cap DOMAIN launched
    IN  /\ \A a \in flagged : Len(history[a]) < EmitBound
        /\ agents' = MailRecorded(launched, flagged)
        /\ history' = [a \in Configured |->
             IF a \in flagged
             THEN Append(history[a], NextEvent(launched[a], "MailReceived", NoError))
             ELSE history[a]]
        /\ running' = TRUE

SchedulerStart ==
    \/ running /\ UNCHANGED << agents, history, running >>
    \/ ~running /\ SchedulerInitializes

(* start when the poll raises: the agents are launched, the rest is not.   *)
SchedulerStartRaises ==
    /\ MailMayFail /\ ~running /\ Configured # {}
    /\ agents' = Launched(agents)
    /\ UNCHANGED << history, running >>

-----------------------------------------------------------------------------
(* RuntimeDaemon *)

DaemonStartSkipsScheduler ==            \* bug: no agent is launched
    /\ status = "Starting"
    /\ status' = "Running"
    /\ UNCHANGED << agents, history, running >>

(* start, from Starting; from any other status it changes nothing.         *)
DaemonStart ==
    /\ status = "Starting"
    /\ SchedulerStart
    /\ status' = "Running"

DaemonStartRaises ==
    /\ status = "Starting"
    /\ SchedulerStartRaises
    /\ UNCHANGED status

RequestShutdownForgetsFlag ==           \* bug: the poll loop never sees it
    /\ status \notin {"Stopped", "Failed"}
    /\ status' = IF status = "Running" THEN "ShuttingDown" ELSE status
    /\ UNCHANGED shutdown_requested

RequestShutdownReopens ==               \* bug: marks any status ShuttingDown
    /\ shutdown_requested' = TRUE
    /\ status' = "ShuttingDown"

(* request_shutdown: no effect once Stopped; before Running, only the flag.*)
RequestShutdown ==
    /\ status \notin {"Stopped", "Failed"}
    /\ shutdown_requested' = TRUE
    /\ status' = IF status = "Running" THEN "ShuttingDown" ELSE status

MarkStopped == status' = "Stopped"

-----------------------------------------------------------------------------
(* serve_runtime_control_api *)

(* ws_server.stop() begins: the listening socket is closed, connections    *)
(* are told to close, and the coroutine waits for their handlers.          *)
BeginStop == ws' = "closing" /\ pc' = "stopping"

ServeBoundBeforeStart ==                \* bug: yields before daemon.start()
    /\ pc = "binding" /\ driver = "serve"
    /\ ws' = "listening" /\ pc' = "polling"
    /\ status' = "Running"
    /\ UNCHANGED << agents, history, running, driver, shutdown_requested, unread,
                    call, accepted >>

(* The port is bound, the daemon starts, and the loop tests the flag that  *)
(* may have been set before it ran.                                        *)
ServeBound ==
    /\ pc = "binding" /\ driver = "serve"
    /\ DaemonStart
    /\ IF shutdown_requested THEN BeginStop
       ELSE ws' = "listening" /\ pc' = "polling"
    /\ UNCHANGED << driver, shutdown_requested, unread, call, accepted >>

(* The port is bound, and start raises inside the try block.               *)
ServeStartRaises ==
    /\ pc = "binding" /\ driver = "serve"
    /\ DaemonStartRaises
    /\ BeginStop
    /\ UNCHANGED << driver, shutdown_requested, unread, call, accepted >>

(* ws_server.start() raises (port in use) or is cancelled: it is outside   *)
(* the try block, nothing is cleaned up and the status stays Starting.     *)
ServeBindFails ==
    /\ pc = "binding" /\ driver = "serve"
    /\ pc' = "ended"
    /\ UNCHANGED << agents, history, driver, ws, stateVars, running, unread, call,
                    accepted >>

(* A sleep of the poll loop ends and the flag is set.                      *)
PollSeesShutdown ==
    /\ pc = "polling"
    /\ shutdown_requested
    /\ BeginStop
    /\ UNCHANGED << agents, history, driver, stateVars, running, unread, call,
                    accepted >>

(* The task is cancelled while it sleeps; the finally block runs.          *)
ServeCancelled ==
    /\ pc = "polling"
    /\ BeginStop
    /\ UNCHANGED << agents, history, driver, stateVars, running, unread, call,
                    accepted >>

(* No connection handler has a queued request left.                        *)
Drained == \A c \in Clients : call[c] # "sent"

ServeStoppedEarly ==                    \* bug: does not wait for handlers
    /\ pc = "stopping"
    /\ ws' = "closed" /\ pc' = "ended"
    /\ MarkStopped
    /\ UNCHANGED << agents, history, driver, shutdown_requested, running, unread,
                    call, accepted >>

(* wait_closed returns, and the inner finally marks the daemon stopped.    *)
ServeStopped ==
    /\ pc = "stopping" /\ Drained
    /\ ws' = "closed" /\ pc' = "ended"
    /\ MarkStopped
    /\ UNCHANGED << agents, history, driver, shutdown_requested, running, unread,
                    call, accepted >>

(* The task is cancelled in wait_closed: the daemon is marked stopped      *)
(* although handlers are still finishing.                                  *)
ServeCancelledInStop ==
    /\ pc = "stopping"
    /\ pc' = "ended"
    /\ MarkStopped
    /\ UNCHANGED << agents, history, driver, ws, shutdown_requested, running, unread,
                    call, accepted >>

(* External: the server finishes closing by itself after such a cancel.    *)
WsClosed ==
    /\ pc = "ended" /\ ws = "closing" /\ Drained
    /\ ws' = "closed"
    /\ UNCHANGED << agents, history, driver, pc, stateVars, running, unread, call,
                    accepted >>

-----------------------------------------------------------------------------
(* runtime.shutdown over the control API *)

CallShutdown(c) ==
    /\ ws = "listening" /\ call[c] # "sent"
    /\ call' = [call EXCEPT ![c] = "sent"]
    /\ UNCHANGED << agents, history, serverVars, stateVars, running, unread, accepted >>

ShutdownRuntimeAlways(c) ==             \* bug: no status check
    /\ call[c] = "sent" /\ ws \in {"listening", "closing"}
    /\ RequestShutdown
    /\ call' = [call EXCEPT ![c] = "accepted"]
    /\ accepted' = accepted + 1
    /\ UNCHANGED << agents, history, serverVars, running, unread >>

(* shutdown_runtime when the runtime is Running.  Requests that were       *)
(* queued are still handled after the server has begun to close.           *)
ShutdownRuntime(c) ==
    /\ call[c] = "sent" /\ ws \in {"listening", "closing"}
    /\ status = "Running"
    /\ RequestShutdown
    /\ call' = [call EXCEPT ![c] = "accepted"]
    /\ accepted' = accepted + 1
    /\ UNCHANGED << agents, history, serverVars, running, unread >>

(* shutdown_runtime in any other status: error 1100, no state changes.     *)
ShutdownConflict(c) ==
    /\ call[c] = "sent" /\ ws \in {"listening", "closing"}
    /\ status # "Running"
    /\ call' = [call EXCEPT ![c] = "refused"]
    /\ UNCHANGED << agents, history, serverVars, stateVars, running, unread, accepted >>

(* External: the connection is lost before its handler reads the request.  *)
CallLost(c) ==
    /\ call[c] = "sent"
    /\ call' = [call EXCEPT ![c] = "lost"]
    /\ UNCHANGED << agents, history, serverVars, stateVars, running, unread, accepted >>

-----------------------------------------------------------------------------
(* Calls made from inside the process *)

OwnerRequestsShutdown ==
    /\ RequestShutdown
    /\ UNCHANGED << agents, history, serverVars, running, unread, call, accepted >>

EmbeddedStart ==
    /\ driver = "embedded"
    /\ DaemonStart \/ DaemonStartRaises
    /\ UNCHANGED << serverVars, shutdown_requested, unread, call, accepted >>

EmbeddedMarkStopped ==
    /\ driver = "embedded"
    /\ MarkStopped
    /\ UNCHANGED << agents, history, serverVars, shutdown_requested, running, unread,
                    call, accepted >>

EmbeddedSchedulerStart ==
    /\ driver = "embedded"
    /\ SchedulerStart \/ SchedulerStartRaises
    /\ UNCHANGED << serverVars, stateVars, unread, call, accepted >>

EmbeddedSchedulerStop ==
    /\ driver = "embedded"
    /\ running' = FALSE
    /\ UNCHANGED << agents, history, serverVars, stateVars, unread, call, accepted >>

(* scheduler.mark_agent_failed and scheduler.restart_agent, and            *)
(* set_agent_status of the RuntimeState they share.                        *)
AgentChanges ==
    /\ \E a \in Configured :
         \/ \E error \in Errors : MarkAgentFailed(a, error)
         \/ RestartAgent(a)
         \/ \E st \in AgentStatus : SetAgentStatus(a, st)
    /\ UNCHANGED << serverVars, stateVars, running, unread, call, accepted >>

(* External: mail arrives for an agent, or is read.                        *)
MailChanges ==
    /\ \E a \in Configured : unread' \in {unread \cup {a}, unread \ {a}}
    /\ UNCHANGED << agents, history, serverVars, stateVars, running, call, accepted >>

-----------------------------------------------------------------------------
(* The views of the control API *)

(* The status that get_swarm_overview lists for agent a.                   *)
OverviewStatus(a) == IF a \in DOMAIN agents THEN agents[a].status ELSE "Starting"

(* The status that get_agent_detail gives for agent a.                     *)
DetailStatus(a) == IF a \in DOMAIN agents THEN agents[a].status ELSE LastKnown

(* _compute_agent_counts, for one status.                                  *)
AgentCount(st) == Cardinality({a \in DOMAIN agents : agents[a].status = st})

-----------------------------------------------------------------------------
Init ==
    /\ SupervisorInit
    /\ driver \in {"serve", "embedded"}
    /\ pc = "binding"
    /\ ws = "down"
    /\ status = "Starting" /\ shutdown_requested = FALSE
    /\ running = FALSE
    /\ unread \in SUBSET Configured
    /\ call = [c \in Clients |-> "none"]
    /\ accepted = 0

Serving == ServeBound \/ ServeStartRaises \/ ServeBindFails \/ PollSeesShutdown
           \/ ServeStopped \/ WsClosed

Handling(c) == ShutdownRuntime(c) \/ ShutdownConflict(c)

Next ==
    \/ Serving \/ ServeCancelled \/ ServeCancelledInStop
    \/ \E c \in Clients : CallShutdown(c) \/ Handling(c) \/ CallLost(c)
    \/ OwnerRequestsShutdown
    \/ EmbeddedStart \/ EmbeddedMarkStopped
    \/ EmbeddedSchedulerStart \/ EmbeddedSchedulerStop
    \/ AgentChanges \/ MailChanges

(* asyncio resumes a coroutine whose sleep or wait is over, and a handler  *)
(* whose connection has a queued message; closing a connection takes       *)
(* bounded time (the close timeout of websockets).  Nobody is obliged to   *)
(* call, cancel, or change agents and mail.                                *)
Fairness == /\ WF_daemonVars(Serving)
            /\ \A c \in Clients : WF_daemonVars(Handling(c))

Spec == Init /\ [][Next]_daemonVars /\ Fairness

-----------------------------------------------------------------------------
(* Properties *)

DaemonTypeOK ==
    /\ TypeOK
    /\ driver \in {"serve", "embedded"}
    /\ pc \in {"binding", "polling", "stopping", "ended"}
    /\ ws \in {"down", "listening", "closing", "closed"}
    /\ status \in RuntimeStatus \ {"Failed"}
    /\ shutdown_requested \in BOOLEAN /\ running \in BOOLEAN
    /\ unread \subseteq Configured
    /\ call \in [Clients -> {"none", "sent", "accepted", "refused", "lost"}]
    /\ accepted \in Nat

(* However many clients ask at once, and whatever the owner does, at most  *)
(* one runtime.shutdown is answered "accepted" and the others get the      *)
(* conflict error; one that was accepted has set the flag the poll loop    *)
(* reads and has left Running.                                             *)
ShutdownAcceptedOnce ==
    /\ accepted <= 1
    /\ accepted = 1 => shutdown_requested /\ status \in {"ShuttingDown", "Stopped"}

(* Running means ready: from the step that sets it, every configured agent *)
(* has an entry with a process, and keeps it whatever its owner does to    *)
(* its agents.                                                             *)
RunningMeansReady ==
    status \in {"Running", "ShuttingDown"} =>
        \A a \in Configured : a \in DOMAIN agents /\ agents[a].handle

(* The server and the status stay in step: clients can connect only while  *)
(* the coroutine polls a started daemon; it stops polling with the server  *)
(* already closing; and once it has ended, the daemon is Stopped unless    *)
(* the port was never bound.                                               *)
ServerFollowsDaemon ==
    driver = "serve" =>
        /\ ws = "listening" <=> pc = "polling"
        /\ pc = "polling" => status \in {"Running", "ShuttingDown"}
        /\ pc = "stopping" => ws = "closing"
        /\ pc = "ended" => \/ ws = "down" /\ status = "Starting"
                           \/ ws \in {"closing", "closed"} /\ status = "Stopped"
        /\ ws = "closed" => Drained

(* Whatever a connected client asks, it gets one picture: overview, detail *)
(* and counts agree on every configured agent.  (Before the launch they do *)
(* not: overview says Starting, detail the persisted status, counts none.) *)
ServedViewsAgree ==
    ws \in {"listening", "closing"} =>
        /\ \A a \in Configured : OverviewStatus(a) = DetailStatus(a)
        /\ \A st \in AgentStatus :
             AgentCount(st) = Cardinality({a \in Configured : OverviewStatus(a) = st})

Mails(h) == Cardinality({i \in DOMAIN h : h[i].type = "MailReceived"})

(* Unread mail is announced by the step that starts the scheduler, once    *)
(* for each flagged agent, and by no other step: not again by a second     *)
(* start, and not by a start whose poll raised.                            *)
MailAnnouncedAtStart ==
    [][\A a \in Configured :
         Mails(history'[a]) = Mails(history[a])
           + IF ~running /\ running' /\ a \in unread THEN 1 ELSE 0]_daemonVars

(* The daemon keeps the promises of RuntimeLifecycle.                      *)
Lifecycle == INSTANCE RuntimeLifecycle
LifecycleContract == Lifecycle!Safety

(* While nobody obliges an embedding program to finish what it began, a    *)
(* served runtime also keeps the promise of progress.                      *)
LifecycleProgress == driver = "serve" => Lifecycle!Progress

(* A shutdown of a served runtime, whoever asked for it, ends the serving  *)
(* coroutine, closes the server and leaves the daemon Stopped.             *)
ShutdownCompletes ==
    (ws = "listening" /\ (status = "ShuttingDown" \/ shutdown_requested))
        ~> (pc = "ended" /\ status = "Stopped" /\ ws = "closed")

(* Every client that asked for a shutdown gets an answer or loses its      *)
(* connection: no request is left behind by a server that closes.          *)
CallsAreAnswered == \A c \in Clients : call[c] = "sent" ~> call[c] # "sent"
=============================================================================
