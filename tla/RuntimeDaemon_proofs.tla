------------------------ MODULE RuntimeDaemon_proofs ------------------------
(***************************************************************************)
(* Proofs about RuntimeDaemon, for every set of agents and of clients: the *)
(* lifecycle contract, the answers to runtime.shutdown, and how server,    *)
(* status and agents stay in step.                                         *)
(***************************************************************************)
EXTENDS RuntimeDaemon, AgentSupervisor_proofs, FiniteSetTheorems

(* Every step leaves the driver as it is and moves the lifecycle variables *)
(* in one of a few ways; all that is proved of them follows from this.     *)
LifecycleStep ==
    \/ UNCHANGED << status, shutdown_requested, accepted >>
    \/ /\ status = "Starting" /\ status' = "Running"
       /\ UNCHANGED << shutdown_requested, accepted >>
    \/ RequestShutdown /\ UNCHANGED accepted
    \/ /\ status = "Running" /\ RequestShutdown
       /\ accepted' = accepted + 1
    \/ MarkStopped /\ UNCHANGED << shutdown_requested, accepted >>

LEMMA StepsOfTheLifecycle ==
    ASSUME [Next]_daemonVars PROVE LifecycleStep /\ driver' = driver
  <1>1. CASE ServeBound
    BY <1>1 DEF ServeBound, DaemonStart, LifecycleStep
  <1>2. CASE \/ ServeStartRaises \/ ServeBindFails \/ PollSeesShutdown
             \/ ServeCancelled \/ WsClosed
    BY <1>2 DEF ServeStartRaises, DaemonStartRaises, ServeBindFails,
       PollSeesShutdown, ServeCancelled, WsClosed, stateVars, LifecycleStep
  <1>3. CASE ServeStopped \/ ServeCancelledInStop
    BY <1>3 DEF ServeStopped, ServeCancelledInStop, LifecycleStep
  <1>4. ASSUME NEW c \in Clients,
               CallShutdown(c) \/ ShutdownConflict(c) \/ CallLost(c)
        PROVE  LifecycleStep /\ driver' = driver
    BY <1>4 DEF CallShutdown, ShutdownConflict, CallLost, serverVars, stateVars,
       LifecycleStep
  <1>5. ASSUME NEW c \in Clients, ShutdownRuntime(c)
        PROVE  LifecycleStep /\ driver' = driver
    BY <1>5 DEF ShutdownRuntime, serverVars, LifecycleStep
  <1>6. CASE OwnerRequestsShutdown
    BY <1>6 DEF OwnerRequestsShutdown, serverVars, LifecycleStep
  <1>7. CASE EmbeddedStart
    BY <1>7 DEF EmbeddedStart, DaemonStart, DaemonStartRaises, serverVars,
       LifecycleStep
  <1>8. CASE EmbeddedMarkStopped
    BY <1>8 DEF EmbeddedMarkStopped, serverVars, LifecycleStep
  <1>9. CASE EmbeddedSchedulerStart \/ EmbeddedSchedulerStop
             \/ AgentChanges \/ MailChanges
    BY <1>9 DEF EmbeddedSchedulerStart, EmbeddedSchedulerStop, AgentChanges,
       MailChanges, serverVars, stateVars, LifecycleStep
  <1>10. CASE UNCHANGED daemonVars
    BY <1>10 DEF daemonVars, LifecycleStep
  <1> QED BY <1>1, <1>2, <1>3, <1>4, <1>5, <1>6, <1>7, <1>8, <1>9, <1>10
          DEF Next, Serving, Handling

(* The daemon implements the lifecycle contract: the refinement mapping is *)
(* the identity on status and accepted, and no invariant is needed.        *)
THEOREM ImplementsLifecycle == Spec => LifecycleContract
  <1>1. Init => Lifecycle!Init
    BY DEF Init, Lifecycle!Init
  <1>2. [Next]_daemonVars => [Lifecycle!Next]_Lifecycle!lifecycleVars
    <2>1. LifecycleStep => [Lifecycle!Next]_Lifecycle!lifecycleVars
      BY DEF LifecycleStep, RequestShutdown, MarkStopped, Lifecycle!Next,
         Lifecycle!BecomeRunning, Lifecycle!BeginShutdown,
         Lifecycle!AcceptShutdown, Lifecycle!Stop, Lifecycle!lifecycleVars
    <2> QED BY <2>1, StepsOfTheLifecycle
  <1> QED BY <1>1, <1>2, PTL DEF Spec, LifecycleContract, Lifecycle!Safety

-----------------------------------------------------------------------------
(* ShutdownAcceptedOnce is inductive with the type of its counter.         *)
ShutdownInv == accepted \in Nat /\ ShutdownAcceptedOnce

(* At most one runtime.shutdown is answered "accepted", and from then on   *)
(* the poll loop's flag is set and the status has left Running for good.   *)
THEOREM OneShutdownAccepted == Spec => []ShutdownAcceptedOnce
  <1>1. Init => ShutdownInv
    BY DEF Init, ShutdownInv, ShutdownAcceptedOnce
  <1>2. ShutdownInv /\ [Next]_daemonVars => ShutdownInv'
    <2>1. ShutdownInv /\ LifecycleStep => ShutdownInv'
      BY DEF ShutdownInv, ShutdownAcceptedOnce, LifecycleStep, RequestShutdown,
         MarkStopped
    <2> QED BY <2>1, StepsOfTheLifecycle
  <1>3. ShutdownInv => ShutdownAcceptedOnce
    BY DEF ShutdownInv
  <1> QED BY <1>1, <1>2, <1>3, PTL DEF Spec

-----------------------------------------------------------------------------
(* Before the port is bound nothing has happened but requests for a        *)
(* shutdown: what ServerFollowsDaemon needs to know of the state in which  *)
(* the coroutine starts the daemon.                                        *)
ServerInv ==
    /\ ServerFollowsDaemon
    /\ driver = "serve" /\ pc = "binding" => ws = "down" /\ status = "Starting"
    /\ driver \in {"serve", "embedded"}
    /\ driver = "embedded" => pc = "binding" /\ ws = "down"

LEMMA ServerInvIsInvariant == Spec => []ServerInv
  <1>1. Init => ServerInv
    BY DEF Init, ServerInv, ServerFollowsDaemon
  <1>2. ServerInv /\ [Next]_daemonVars => ServerInv'
    <2> SUFFICES ASSUME ServerInv, [Next]_daemonVars PROVE ServerInv'
      OBVIOUS
    <2>1. CASE \/ ServeBound \/ ServeStartRaises \/ ServeBindFails
               \/ PollSeesShutdown \/ ServeCancelled
      BY <2>1 DEF ServeBound, ServeStartRaises, ServeBindFails, PollSeesShutdown,
         ServeCancelled, BeginStop, DaemonStart, DaemonStartRaises, stateVars,
         ServerInv, ServerFollowsDaemon, Drained
    <2>2. CASE ServeStopped \/ ServeCancelledInStop \/ WsClosed
      BY <2>2 DEF ServeStopped, ServeCancelledInStop, WsClosed, MarkStopped,
         stateVars, ServerInv, ServerFollowsDaemon, Drained
    <2>3. ASSUME NEW c \in Clients, CallShutdown(c) PROVE ServerInv'
      BY <2>3 DEF CallShutdown, serverVars, stateVars, ServerInv,
         ServerFollowsDaemon, Drained
    <2>4. ASSUME NEW c \in Clients, ShutdownRuntime(c) \/ ShutdownConflict(c)
          PROVE  ServerInv'
      BY <2>4 DEF ShutdownRuntime, ShutdownConflict, RequestShutdown, serverVars,
         stateVars, ServerInv, ServerFollowsDaemon, Drained
    <2>5. ASSUME NEW c \in Clients, CallLost(c) PROVE ServerInv'
      BY <2>5 DEF CallLost, serverVars, stateVars, ServerInv,
         ServerFollowsDaemon, Drained
    <2>6. CASE OwnerRequestsShutdown
      BY <2>6 DEF OwnerRequestsShutdown, RequestShutdown, serverVars, ServerInv,
         ServerFollowsDaemon, Drained
    <2>7. CASE EmbeddedStart \/ EmbeddedMarkStopped
      BY <2>7 DEF EmbeddedStart, EmbeddedMarkStopped, serverVars, ServerInv,
         ServerFollowsDaemon, Drained
    <2>8. CASE \/ EmbeddedSchedulerStart \/ EmbeddedSchedulerStop
               \/ AgentChanges \/ MailChanges
      BY <2>8 DEF EmbeddedSchedulerStart, EmbeddedSchedulerStop, AgentChanges,
         MailChanges, serverVars, stateVars, ServerInv, ServerFollowsDaemon, Drained
    <2>9. CASE UNCHANGED daemonVars
      BY <2>9 DEF daemonVars, ServerInv, ServerFollowsDaemon, Drained
    <2> QED BY <2>1, <2>2, <2>3, <2>4, <2>5, <2>6, <2>7, <2>8, <2>9
            DEF Next, Serving, Handling
  <1> QED BY <1>1, <1>2, PTL DEF Spec

(* Clients reach a server only while the coroutine polls a started daemon, *)
(* and a coroutine that has ended leaves a Stopped daemon behind it unless *)
(* its port was never bound.                                               *)
THEOREM ServerAndStatusAgree == Spec => []ServerFollowsDaemon
  <1>1. ServerInv => ServerFollowsDaemon
    BY DEF ServerInv
  <1> QED BY <1>1, ServerInvIsInvariant, PTL

-----------------------------------------------------------------------------
(* What the supervisor's invariant says of one agent with record rec and   *)
(* history h.  The scheduler emits for many agents in one step, so its     *)
(* steps are proved agent by agent.                                        *)
AgentInv(rec, h) ==
    /\ rec \in AgentRuntimeState /\ h \in Seq(Event)
    /\ Len(rec.stream) <= MaxEvents
    /\ rec.stream = LastN(h, MaxEvents)
    /\ \A i \in DOMAIN h : h[i].id = EventIdOf(i)
    /\ Explained(rec, h)

EveryAgentInv ==
    /\ DOMAIN agents \subseteq Configured
    /\ agents = [a \in DOMAIN agents |-> agents[a]]
    /\ history \in [Configured -> Seq(Event)]
    /\ \A a \in Configured \ DOMAIN agents : history[a] = << >>
    /\ \A a \in DOMAIN agents : AgentInv(agents[a], history[a])

LEMMA InvAgentByAgent == IInv <=> EveryAgentInv
  <1>1. ASSUME IInv, NEW a \in DOMAIN agents PROVE AgentInv(agents[a], history[a])
    <2>1. Explained(agents[a], history[a])
      BY <1>1, AllExplained DEF IInv
    <2> QED BY <1>1, <2>1 DEF IInv, TypeOK, StreamIsRecentSuffix,
            EventIdsAreClosedForm, AgentInv
  <1>2. IInv => EveryAgentInv
    BY <1>1 DEF IInv, TypeOK, EveryAgentInv
  <1>3. ASSUME EveryAgentInv PROVE IInv
    <2>1. TypeOK
      BY <1>3 DEF TypeOK, AgentInv, EveryAgentInv
    <2>2. StreamIsRecentSuffix
      BY <1>3 DEF StreamIsRecentSuffix, AgentInv, EveryAgentInv
    <2>3. EventIdsAreClosedForm
      <3> SUFFICES ASSUME NEW a \in Configured, NEW i \in DOMAIN history[a]
                   PROVE  history[a][i].id = EventIdOf(i)
        BY DEF EventIdsAreClosedForm
      <3>1. CASE a \in DOMAIN agents
        BY <1>3, <3>1 DEF AgentInv, EveryAgentInv
      <3>2. CASE a \notin DOMAIN agents
        BY <1>3, <3>2 DEF EveryAgentInv
      <3> QED BY <3>1, <3>2
    <2>4. ErrorMatchesHistory
      BY <1>3, AllExplained DEF AgentInv, EveryAgentInv
    <2> QED BY <2>1, <2>2, <2>3, <2>4 DEF IInv
  <1> QED BY <1>2, <1>3

LEMMA InvAgentByAgentNext == IInv' <=> EveryAgentInv'
  BY InvAgentByAgent, PTL

(* Recording unread mail for one agent.                                    *)
LEMMA MailKeepsAgentInv ==
    ASSUME NEW rec, NEW h, AgentInv(rec, h)
    PROVE  LET e == NextEvent(rec, "MailReceived", NoError)
           IN  /\ AgentInv(WithEvent(rec, e), Append(h, e))
               /\ WithEvent(rec, e).handle = rec.handle
  <1> DEFINE e == NextEvent(rec, "MailReceived", NoError)
             t == LastN(Append(h, e), MaxEvents)
             r == WithEvent(rec, e)
  <1>0. MaxEvents \in Nat /\ MaxEvents > 0
    BY MaxEventsPositive
  <1>1. /\ rec \in AgentRuntimeState /\ h \in Seq(Event) /\ Len(h) \in Nat
        /\ rec.stream = LastN(h, MaxEvents)
    BY LenProperties DEF AgentInv
  <1>2. Len(rec.stream) = IF MaxEvents >= Len(h) THEN Len(h) ELSE MaxEvents
    BY <1>0, <1>1, LastNProperties
  <1>3. e = [id |-> Len(rec.stream) + 1, type |-> "MailReceived", error |-> NoError]
    BY DEF NextEvent
  <1>4. e \in Event /\ e.type = "MailReceived" /\ e.id = EventIdOf(Len(h) + 1)
    BY <1>0, <1>1, <1>2, <1>3 DEF Event, EventTypes, EventIdOf
  <1> HIDE DEF e
  <1>5. StreamAppend(rec.stream, e) = t
    BY <1>1, <1>4, StreamAppendIsLastN
  <1>6. Append(h, e) \in Seq(Event)
    BY <1>1, <1>4
  <1>7. t \in Seq(Event) /\ Len(t) <= MaxEvents
    <2> DEFINE g == Append(h, e)
    <2>1. g \in Seq(Event)
      BY <1>6
    <2> HIDE DEF g
    <2>2. LastN(g, MaxEvents) \in Seq(Event) /\ Len(LastN(g, MaxEvents)) <= MaxEvents
      BY <1>0, <2>1, LastNProperties
    <2> QED BY <2>2 DEF g
  <1> HIDE DEF t
  <1>8. /\ r \in AgentRuntimeState /\ r.stream = t /\ r.status = rec.status
        /\ r.last_error = rec.last_error /\ r.handle = rec.handle
    BY <1>1, <1>5, <1>7 DEF WithEvent, AgentRuntimeState
  <1> HIDE DEF r
  <1>9. \A i \in DOMAIN Append(h, e) : Append(h, e)[i].id = EventIdOf(i)
    BY <1>1, <1>4 DEF AgentInv
  <1>10. Explained(r, Append(h, e))
    <2>1. Explained(rec, Append(h, e))
      BY <1>1, <1>4, MailKeepsExplanation DEF AgentInv
    <2> QED BY <2>1, <1>8 DEF Explained
  <1>11. AgentInv(r, Append(h, e))
    BY <1>6, <1>7, <1>8, <1>9, <1>10 DEF AgentInv, t
  <1> QED BY <1>8, <1>11 DEF r, e

-----------------------------------------------------------------------------
(* The inductive invariant of readiness: the daemon registers agents only  *)
(* by launching all of them, so a registered agent has a process, and      *)
(* whoever relies on the launch finds every agent registered.              *)
ReadyInv ==
    /\ IInv
    /\ \A a \in DOMAIN agents : agents[a].handle
    /\ \/ running \/ status \in {"Running", "ShuttingDown"} \/ ws # "down"
       => DOMAIN agents = Configured

(* A launch registers every configured agent, keeps those that were there  *)
(* and leaves none without a process.                                      *)
LEMMA LaunchedProperties ==
    ASSUME ReadyInv
    PROVE  LET ags == Launched(agents) IN
           /\ DOMAIN ags = Configured
           /\ ags = [a \in Configured |-> ags[a]]
           /\ \A a \in Configured : /\ AgentInv(ags[a], history[a])
                                    /\ ags[a].handle
  <1> DEFINE up == [NewAgent EXCEPT !.handle = TRUE, !.status = "Idle"]
  <1>1. /\ DOMAIN agents \subseteq Configured
        /\ \A a \in Configured \ DOMAIN agents : history[a] = << >>
        /\ \A a \in DOMAIN agents : AgentInv(agents[a], history[a])
    BY InvAgentByAgent DEF ReadyInv, EveryAgentInv
  <1>2. /\ DOMAIN Launched(agents) = Configured
        /\ Launched(agents) = [a \in Configured |-> Launched(agents)[a]]
        /\ \A a \in DOMAIN agents : Launched(agents)[a] = agents[a]
        /\ \A a \in Configured \ DOMAIN agents : Launched(agents)[a] = up
    BY <1>1 DEF Launched, Registered, NewAgent
  <1>3. up.handle /\ AgentInv(up, << >>)
    <2>1. /\ up \in AgentRuntimeState /\ up.stream = << >>
          /\ up.last_error = NoError /\ up.handle
      BY EmptySeq DEF NewAgent, AgentRuntimeState, AgentStatus
    <2>2. LastReport(<< >>, "none", NoError)
      BY DEF LastReport
    <2> HIDE DEF up
    <2>3. Explained(up, << >>)
      BY <2>1, <2>2 DEF Explained
    <2>4. << >> \in Seq(Event) /\ Len(<< >>) = 0 /\ MaxEvents \in Nat
      BY MaxEventsPositive, EmptySeq
    <2>5. LastN(<< >>, MaxEvents) = << >>
      BY <2>4 DEF LastN
    <2> QED BY <2>1, <2>3, <2>4, <2>5 DEF AgentInv
  <1> HIDE DEF up
  <1> QED BY <1>1, <1>2, <1>3 DEF ReadyInv

(* What the two bodies of scheduler.start leave behind.                    *)
LEMMA SchedulerLaunches ==
    ASSUME ReadyInv, SchedulerInitializes \/ SchedulerStartRaises
    PROVE  /\ IInv' /\ DOMAIN agents' = Configured
           /\ \A a \in DOMAIN agents' : agents'[a].handle
  <1> DEFINE ags == Launched(agents)
             flagged == unread \cap DOMAIN ags
             mail(a) == NextEvent(ags[a], "MailReceived", NoError)
  <1>1. /\ DOMAIN ags = Configured
        /\ ags = [a \in Configured |-> ags[a]]
        /\ \A a \in Configured : /\ AgentInv(ags[a], history[a])
                                 /\ ags[a].handle
    BY LaunchedProperties
  <1>2. history \in [Configured -> Seq(Event)]
    BY DEF ReadyInv, IInv, TypeOK
  <1>3. \A a \in Configured : /\ AgentInv(WithEvent(ags[a], mail(a)),
                                          Append(history[a], mail(a)))
                              /\ WithEvent(ags[a], mail(a)).handle
    BY <1>1, MailKeepsAgentInv
  <1>4. /\ DOMAIN agents' = Configured
        /\ agents' = [a \in Configured |-> agents'[a]]
        /\ history' = [a \in Configured |-> history'[a]]
        /\ \A a \in Configured :
             \/ agents'[a] = ags[a] /\ history'[a] = history[a]
             \/ /\ agents'[a] = WithEvent(ags[a], mail(a))
                /\ history'[a] = Append(history[a], mail(a))
    <2>1. CASE SchedulerInitializes
      <3>1. /\ agents' = MailRecorded(ags, flagged)
            /\ history' = [a \in Configured |->
                 IF a \in flagged THEN Append(history[a], mail(a)) ELSE history[a]]
        BY <2>1 DEF SchedulerInitializes
      <3> HIDE DEF ags
      <3> QED BY <3>1, <1>1 DEF MailRecorded
    <2>2. CASE SchedulerStartRaises
      <3>1. agents' = ags /\ history' = history
        BY <2>2 DEF SchedulerStartRaises
      <3> HIDE DEF ags
      <3> QED BY <3>1, <1>1, <1>2
    <2> QED BY <2>1, <2>2
  <1> HIDE DEF ags, mail
  <1>5. \A a \in Configured : AgentInv(agents'[a], history'[a])
    BY <1>1, <1>3, <1>4
  <1>6. history' \in [Configured -> Seq(Event)]
    BY <1>4, <1>5 DEF AgentInv
  <1>7. IInv'
    <2>1. EveryAgentInv'
      BY <1>4, <1>5, <1>6 DEF EveryAgentInv
    <2> QED BY <2>1, InvAgentByAgentNext
  <1> QED BY <1>1, <1>3, <1>4, <1>7

-----------------------------------------------------------------------------
LEMMA InitEstablishesReadyInv == Init => ReadyInv
  BY InitEstablishesInv DEF Init, ReadyInv, SupervisorInit

(* A step of the daemon that leaves the agents alone, and neither starts   *)
(* the scheduler nor opens the server, keeps the invariant.                *)
LEMMA AgentsUntouched ==
    ASSUME ReadyInv, UNCHANGED << agents, history >>,
           running' => running,
           ws' = ws \/ ws # "down",
           \/ status' \in {status, "Stopped"}
           \/ status = "Running" /\ status' = "ShuttingDown"
    PROVE  ReadyInv'
  <1>1. IInv'
    <2>1. UNCHANGED supervisorVars
      BY DEF supervisorVars
    <2> QED BY <2>1, NextKeepsInv DEF ReadyInv
  <1> QED BY <1>1 DEF ReadyInv

LEMMA AgentsLaunched ==
    ASSUME ReadyInv, SchedulerInitializes \/ SchedulerStartRaises
    PROVE  ReadyInv'
  <1>1. /\ IInv' /\ DOMAIN agents' = Configured
        /\ \A a \in DOMAIN agents' : agents'[a].handle
    BY SchedulerLaunches
  <1> QED BY <1>1 DEF ReadyInv

(* A step that starts the daemon: the scheduler may be running already.    *)
LEMMA DaemonStarts ==
    ASSUME ReadyInv, DaemonStart \/ DaemonStartRaises
    PROVE  ReadyInv'
  <1>1. CASE SchedulerInitializes \/ SchedulerStartRaises
    BY <1>1, AgentsLaunched
  <1>2. CASE running /\ UNCHANGED << agents, history, running >>
    <2>1. IInv'
      BY <1>2, NextKeepsInv DEF ReadyInv, supervisorVars
    <2>2. DOMAIN agents' = Configured
      BY <1>2 DEF ReadyInv
    <2> QED BY <1>2, <2>1, <2>2 DEF ReadyInv
  <1> QED BY <1>1, <1>2 DEF DaemonStart, DaemonStartRaises, SchedulerStart

LEMMA AgentChangesKeepReadyInv ==
    ASSUME ReadyInv, AgentChanges PROVE ReadyInv'
  <1>1. PICK a \in Configured :
          \/ \E error \in Errors : MarkAgentFailed(a, error)
          \/ RestartAgent(a)
          \/ \E st \in AgentStatus : SetAgentStatus(a, st)
    BY DEF AgentChanges
  <1>2. IInv'
    BY <1>1, NextKeepsInv DEF SupervisorNext, ReadyInv
  <1>3. /\ agents \in [DOMAIN agents -> AgentRuntimeState]
        /\ a \in DOMAIN agents /\ agents[a].handle
    BY <1>1 DEF ReadyInv, IInv, TypeOK, MarkAgentFailed, RestartAgent, SetAgentStatus
  <1>4. /\ DOMAIN agents' = DOMAIN agents
        /\ \A b \in DOMAIN agents : b # a => agents'[b] = agents[b]
        /\ agents'[a].handle
    <2>1. ASSUME NEW rec \in AgentRuntimeState, NEW e, rec.handle,
                 agents' = [agents EXCEPT ![a] = WithEvent(rec, e)]
          PROVE  <1>4!:
      BY <1>3, <2>1 DEF WithEvent, AgentRuntimeState
    <2>2. ASSUME NEW error \in Errors, MarkAgentFailed(a, error)
          PROVE  <1>4!:
      <3> DEFINE rec == [agents[a] EXCEPT !.status = "Failed", !.last_error = error]
      <3>1. rec \in AgentRuntimeState /\ rec.handle
        BY <1>3 DEF AgentRuntimeState, AgentStatus
      <3>2. \E e : agents' = [agents EXCEPT ![a] = WithEvent(rec, e)]
        BY <2>2 DEF MarkAgentFailed, AppendRuntimeEvent
      <3> HIDE DEF rec
      <3> QED BY <3>1, <3>2, <2>1
    <2>3. ASSUME RestartAgent(a)
          PROVE  <1>4!:
      <3> DEFINE rec == [agents[a] EXCEPT !.status = "Idle",
                           !.last_error = NoError, !.handle = TRUE]
      <3>1. rec \in AgentRuntimeState /\ rec.handle
        BY <1>3 DEF AgentRuntimeState, AgentStatus
      <3>2. \E e : agents' = [agents EXCEPT ![a] = WithEvent(rec, e)]
        BY <2>3 DEF RestartAgent, AppendRuntimeEvent
      <3> HIDE DEF rec
      <3> QED BY <3>1, <3>2, <2>1
    <2>4. ASSUME NEW st \in AgentStatus, SetAgentStatus(a, st)
          PROVE  <1>4!:
      BY <1>3, <2>4 DEF SetAgentStatus, AgentRuntimeState
    <2> QED BY <1>1, <2>2, <2>3, <2>4
  <1> QED BY <1>2, <1>4 DEF ReadyInv, AgentChanges, serverVars, stateVars

LEMMA NextKeepsReadyInv == ReadyInv /\ ServerInv /\ [Next]_daemonVars => ReadyInv'
  <1> SUFFICES ASSUME ReadyInv, ServerInv, [Next]_daemonVars PROVE ReadyInv'
    OBVIOUS
  <1>1. CASE ServeBound \/ ServeStartRaises
    BY <1>1, DaemonStarts DEF ServeBound, ServeStartRaises
  <1>2. CASE EmbeddedStart
    BY <1>2, DaemonStarts DEF EmbeddedStart
  <1>3. CASE EmbeddedSchedulerStart
    <2>1. CASE SchedulerInitializes \/ SchedulerStartRaises
      BY <2>1, AgentsLaunched
    <2>2. CASE UNCHANGED << agents, history, running >>
      BY <1>3, <2>2, AgentsUntouched DEF EmbeddedSchedulerStart, serverVars, stateVars
    <2> QED BY <1>3, <2>1, <2>2 DEF EmbeddedSchedulerStart, SchedulerStart
  <1>4. CASE ServeBindFails \/ PollSeesShutdown \/ ServeCancelled
    BY <1>4, AgentsUntouched DEF ServeBindFails, PollSeesShutdown, ServeCancelled,
       BeginStop, stateVars, ServerInv, ServerFollowsDaemon
  <1>5. CASE ServeStopped \/ ServeCancelledInStop \/ WsClosed
    BY <1>5, AgentsUntouched DEF ServeStopped, ServeCancelledInStop, WsClosed,
       MarkStopped, stateVars, ServerInv, ServerFollowsDaemon
  <1>6. ASSUME NEW c \in Clients, CallShutdown(c) \/ Handling(c) \/ CallLost(c)
        PROVE  ReadyInv'
    BY <1>6, AgentsUntouched DEF CallShutdown, Handling, ShutdownRuntime,
       ShutdownConflict, RequestShutdown, CallLost, serverVars, stateVars
  <1>7. CASE \/ OwnerRequestsShutdown \/ EmbeddedMarkStopped
             \/ EmbeddedSchedulerStop \/ MailChanges
    BY <1>7, AgentsUntouched DEF OwnerRequestsShutdown, RequestShutdown,
       EmbeddedMarkStopped, MarkStopped, EmbeddedSchedulerStop, MailChanges,
       serverVars, stateVars
  <1>8. CASE AgentChanges
    BY <1>8, AgentChangesKeepReadyInv
  <1>9. CASE UNCHANGED daemonVars
    BY <1>9, AgentsUntouched DEF daemonVars
  <1> QED BY <1>1, <1>2, <1>3, <1>4, <1>5, <1>6, <1>7, <1>8, <1>9
          DEF Next, Serving

LEMMA ReadyInvIsInvariant == Spec => []ReadyInv
  BY InitEstablishesReadyInv, NextKeepsReadyInv, ServerInvIsInvariant, PTL DEF Spec

(* From the step that makes the runtime Running until it is Stopped, every *)
(* configured agent is registered and has its process.                     *)
THEOREM RunningIsReady == Spec => []RunningMeansReady
  <1>1. ReadyInv => RunningMeansReady
    BY DEF ReadyInv, RunningMeansReady
  <1> QED BY <1>1, ReadyInvIsInvariant, PTL

(* While clients can be connected, overview, detail and counts give one    *)
(* picture of the agents.                                                  *)
THEOREM OneServedPicture == Spec => []ServedViewsAgree
  <1>1. ReadyInv => ServedViewsAgree
    <2> SUFFICES ASSUME ReadyInv, ws \in {"listening", "closing"}
                 PROVE  /\ \A a \in Configured : OverviewStatus(a) = DetailStatus(a)
                        /\ \A st \in AgentStatus :
                             AgentCount(st) =
                               Cardinality({a \in Configured : OverviewStatus(a) = st})
      BY DEF ServedViewsAgree
    <2>1. DOMAIN agents = Configured
      BY DEF ReadyInv
    <2>2. \A a \in Configured : /\ OverviewStatus(a) = agents[a].status
                                /\ DetailStatus(a) = agents[a].status
      BY <2>1 DEF OverviewStatus, DetailStatus
    <2>3. ASSUME NEW st
          PROVE  AgentCount(st) =
                   Cardinality({a \in Configured : OverviewStatus(a) = st})
      <3>1. {a \in DOMAIN agents : agents[a].status = st}
              = {a \in Configured : OverviewStatus(a) = st}
        BY <2>1, <2>2
      <3> QED BY <3>1 DEF AgentCount
    <2> QED BY <2>2, <2>3
  <1> QED BY <1>1, ReadyInvIsInvariant, PTL

(* The scheduler, which launches and polls in one step of its own, keeps   *)
(* what the supervisor alone guarantees.                                   *)
THEOREM DaemonKeepsSupervisorInvariants ==
    Spec => [](/\ TypeOK /\ StreamIsRecentSuffix /\ EventIdsAreClosedForm
               /\ ErrorMatchesHistory)
  <1>1. ReadyInv => /\ TypeOK /\ StreamIsRecentSuffix /\ EventIdsAreClosedForm
                    /\ ErrorMatchesHistory
    BY DEF ReadyInv, IInv
  <1> QED BY <1>1, ReadyInvIsInvariant, PTL

-----------------------------------------------------------------------------
(* Everything but the agents, whose types IInv has.                        *)
RestTypes ==
    /\ driver \in {"serve", "embedded"}
    /\ pc \in {"binding", "polling", "stopping", "ended"}
    /\ ws \in {"down", "listening", "closing", "closed"}
    /\ status \in RuntimeStatus \ {"Failed"}
    /\ shutdown_requested \in BOOLEAN /\ running \in BOOLEAN
    /\ unread \subseteq Configured
    /\ call \in [Clients -> {"none", "sent", "accepted", "refused", "lost"}]
    /\ accepted \in Nat

LEMMA NextKeepsRestTypes == RestTypes /\ [Next]_daemonVars => RestTypes'
  <1> SUFFICES ASSUME RestTypes, [Next]_daemonVars PROVE RestTypes'
    OBVIOUS
  <1> USE DEF RestTypes, RuntimeStatus
  <1>1. CASE ServeBound \/ ServeStartRaises \/ EmbeddedStart
    <2>1. /\ status' \in {status, "Running"} /\ running' \in {running, TRUE}
          /\ UNCHANGED << driver, shutdown_requested, unread, call, accepted >>
      BY <1>1 DEF ServeBound, ServeStartRaises, EmbeddedStart, DaemonStart,
         DaemonStartRaises, SchedulerStart, SchedulerInitializes, SchedulerStartRaises,
         serverVars
    <2>2. /\ ws' \in {ws, "listening", "closing"} /\ pc' \in {pc, "polling", "stopping"}
      BY <1>1 DEF ServeBound, ServeStartRaises, EmbeddedStart, BeginStop, serverVars
    <2> QED BY <2>1, <2>2
  <1>2. CASE ServeBindFails \/ PollSeesShutdown \/ ServeCancelled
    BY <1>2 DEF ServeBindFails, PollSeesShutdown, ServeCancelled, BeginStop, stateVars
  <1>3. CASE ServeStopped \/ ServeCancelledInStop \/ WsClosed
    BY <1>3 DEF ServeStopped, ServeCancelledInStop, WsClosed, MarkStopped, stateVars
  <1>4. ASSUME NEW c \in Clients, CallShutdown(c) \/ Handling(c) \/ CallLost(c)
        PROVE  RestTypes'
    <2>1. /\ status' \in {status, "ShuttingDown"}
          /\ shutdown_requested' = shutdown_requested \/ shutdown_requested' = TRUE
          /\ accepted' \in {accepted, accepted + 1}
          /\ UNCHANGED << serverVars, running, unread >>
      BY <1>4 DEF CallShutdown, Handling, ShutdownRuntime, ShutdownConflict,
         RequestShutdown, CallLost, stateVars
    <2>2. \E answer \in {"sent", "accepted", "refused", "lost"} :
            call' = [call EXCEPT ![c] = answer]
      BY <1>4 DEF CallShutdown, Handling, ShutdownRuntime, ShutdownConflict, CallLost
    <2>3. call' \in [Clients -> {"none", "sent", "accepted", "refused", "lost"}]
      BY <2>2
    <2>4. accepted' \in Nat /\ status' \in {"Starting", "Running", "ShuttingDown", "Stopped"}
      BY <2>1
    <2>5. UNCHANGED << driver, pc, ws, running, unread >>
      BY <2>1 DEF serverVars
    <2>6. shutdown_requested' \in BOOLEAN
      BY <2>1
    <2> QED BY <2>3, <2>4, <2>5, <2>6
  <1>5. CASE OwnerRequestsShutdown \/ EmbeddedMarkStopped
    BY <1>5 DEF OwnerRequestsShutdown, RequestShutdown, EmbeddedMarkStopped,
       MarkStopped, serverVars
  <1>6. CASE EmbeddedSchedulerStart \/ EmbeddedSchedulerStop
    BY <1>6 DEF EmbeddedSchedulerStart, EmbeddedSchedulerStop, SchedulerStart,
       SchedulerInitializes, SchedulerStartRaises, serverVars, stateVars
  <1>7. CASE AgentChanges
    BY <1>7 DEF AgentChanges, serverVars, stateVars
  <1>8. CASE MailChanges
    BY <1>8 DEF MailChanges, serverVars, stateVars
  <1>9. CASE UNCHANGED daemonVars
    BY <1>9 DEF daemonVars
  <1> QED BY <1>1, <1>2, <1>3, <1>4, <1>5, <1>6, <1>7, <1>8, <1>9
          DEF Next, Serving

(* Every variable of the daemon stays in its range.                        *)
THEOREM DaemonTypeCorrect == Spec => []DaemonTypeOK
  <1>1. Init => RestTypes
    <2> SUFFICES ASSUME Init PROVE RestTypes
      OBVIOUS
    <2>1. call \in [Clients -> {"none", "sent", "accepted", "refused", "lost"}]
      BY DEF Init
    <2>2. /\ shutdown_requested = FALSE /\ running = FALSE
          /\ unread \subseteq Configured /\ accepted = 0
          /\ driver \in {"serve", "embedded"} /\ pc = "binding" /\ ws = "down"
          /\ status = "Starting"
      BY DEF Init
    <2> QED BY <2>1, <2>2 DEF RestTypes, RuntimeStatus
  <1>2. ReadyInv /\ RestTypes => DaemonTypeOK
    BY DEF ReadyInv, IInv, RestTypes, DaemonTypeOK
  <1> QED BY <1>1, <1>2, NextKeepsRestTypes, ReadyInvIsInvariant, PTL DEF Spec

-----------------------------------------------------------------------------
(* Announcements of mail                                                   *)

LEMMA MailsAreCounted ==
    ASSUME NEW h \in Seq(Event), NEW e
    PROVE  /\ Mails(h) \in Nat
           /\ Mails(Append(h, e)) = Mails(h) + IF e.type = "MailReceived" THEN 1 ELSE 0
  <1> DEFINE S == {i \in DOMAIN h : h[i].type = "MailReceived"}
             T == {i \in DOMAIN Append(h, e) : Append(h, e)[i].type = "MailReceived"}
             n == Len(h)
  <1>1. /\ n \in Nat /\ DOMAIN h = 1 .. n
        /\ DOMAIN Append(h, e) = 1 .. n + 1
        /\ \A i \in 1 .. n : Append(h, e)[i] = h[i]
        /\ Append(h, e)[n + 1] = e
    OBVIOUS
  <1>2. IsFiniteSet(S) /\ Cardinality(S) \in Nat
    <2>1. IsFiniteSet(1 .. n) /\ S \in SUBSET (1 .. n)
      BY <1>1, FS_Interval
    <2> HIDE DEF S
    <2> QED BY <2>1, FS_Subset, FS_CardinalityType
  <1>3. T = IF e.type = "MailReceived" THEN S \cup {n + 1} ELSE S
    <2>1. ASSUME NEW i PROVE i \in T <=> i \in S \/ (i = n + 1 /\ e.type = "MailReceived")
      BY <1>1
    <2> HIDE DEF S, T
    <2> QED BY <2>1
  <1>4. n + 1 \notin S
    BY <1>1
  <1>5. Mails(h) = Cardinality(S) /\ Mails(Append(h, e)) = Cardinality(T)
    BY DEF Mails
  <1> HIDE DEF S, T, n
  <1>6. CASE e.type = "MailReceived"
    <2>1. T = S \cup {n + 1}
      BY <1>3, <1>6
    <2>2. Cardinality(T) = Cardinality(S) + 1
      BY <1>2, <1>4, <2>1, FS_AddElement
    <2> QED BY <1>2, <1>5, <1>6, <2>2
  <1>7. CASE e.type # "MailReceived"
    BY <1>2, <1>3, <1>5, <1>7
  <1> QED BY <1>6, <1>7

(* Mail is announced by the step that starts the scheduler, once for each  *)
(* flagged agent, and by no other step, whatever failed before.            *)
THEOREM MailIsAnnouncedAtStart == Spec => MailAnnouncedAtStart
  <1> DEFINE Announced ==
        \A a \in Configured : Mails(history'[a]) = Mails(history[a])
          + IF ~running /\ running' /\ a \in unread THEN 1 ELSE 0
  <1>1. ReadyInv /\ [Next]_daemonVars => [Announced]_daemonVars
    <2> SUFFICES ASSUME ReadyInv, Next PROVE Announced
      BY DEF daemonVars
    <2>1. \A a \in Configured : history[a] \in Seq(Event)
      BY DEF ReadyInv, IInv, TypeOK
    <2>2. \A a \in Configured : Mails(history[a]) \in Nat
      BY <2>1, MailsAreCounted
    <2>3. ASSUME UNCHANGED history, running' => running PROVE Announced
      <3> TAKE a \in Configured
      <3> QED BY <2>2, <2>3
    <2>4. ASSUME ~running, SchedulerInitializes PROVE Announced
      <3> TAKE a \in Configured
      <3> DEFINE launched == Launched(agents)
                 e == NextEvent(launched[a], "MailReceived", NoError)
      <3>1. /\ running' = TRUE /\ DOMAIN launched = Configured
            /\ history'[a] = IF a \in unread THEN Append(history[a], e) ELSE history[a]
        BY <2>4, LaunchedProperties DEF SchedulerInitializes
      <3>2. e.type = "MailReceived"
        BY DEF NextEvent
      <3> HIDE DEF e, launched
      <3> QED BY <2>1, <2>2, <2>4, <3>1, <3>2, MailsAreCounted
    <2>5. ASSUME SchedulerStart \/ SchedulerStartRaises PROVE Announced
      BY <2>3, <2>4, <2>5 DEF SchedulerStart, SchedulerStartRaises
    <2>6. ASSUME AgentChanges, history' # history PROVE Announced
      <3>1. PICK b \in Configured :
              \/ \E error \in Errors : MarkAgentFailed(b, error)
              \/ RestartAgent(b)
        BY <2>6 DEF AgentChanges, SetAgentStatus
      <3>2. \E e : /\ history' = [history EXCEPT ![b] = Append(@, e)]
                   /\ e.type \in LifecycleTypes
        <4>1. ASSUME NEW error, MarkAgentFailed(b, error) PROVE <3>2!:
          <5> PICK e : e = NextEvent([agents[b] EXCEPT !.status = "Failed",
                                                       !.last_error = error],
                                     "AgentFailed", error)
            OBVIOUS
          <5>1. e.type \in LifecycleTypes
            BY DEF NextEvent, LifecycleTypes
          <5> QED BY <4>1, <5>1 DEF MarkAgentFailed, AppendRuntimeEvent
        <4>2. ASSUME RestartAgent(b) PROVE <3>2!:
          <5> PICK e : e = NextEvent([agents[b] EXCEPT !.status = "Idle",
                                                       !.last_error = NoError,
                                                       !.handle = TRUE],
                                     "AgentRestarted", NoError)
            OBVIOUS
          <5>1. e.type \in LifecycleTypes
            BY DEF NextEvent, LifecycleTypes
          <5> QED BY <4>2, <5>1 DEF RestartAgent, AppendRuntimeEvent
        <4> QED BY <3>1, <4>1, <4>2
      <3>3. PICK e : /\ history' = [history EXCEPT ![b] = Append(@, e)]
                     /\ e.type \in LifecycleTypes
        BY <3>2
      <3>4. running' = running /\ e.type # "MailReceived"
        BY <2>6, <3>3 DEF AgentChanges, LifecycleTypes
      <3> TAKE a \in Configured
      <3>5. DOMAIN history = Configured
        BY DEF ReadyInv, IInv, TypeOK
      <3>6. history'[a] = IF a = b THEN Append(history[a], e) ELSE history[a]
        BY <3>3, <3>5
      <3> QED BY <2>1, <2>2, <3>4, <3>6, MailsAreCounted
    <2>7. CASE ServeBound \/ ServeStartRaises \/ EmbeddedStart \/ EmbeddedSchedulerStart
      BY <2>5, <2>7 DEF ServeBound, ServeStartRaises, EmbeddedStart,
         EmbeddedSchedulerStart, DaemonStart, DaemonStartRaises
    <2>8. CASE \/ ServeBindFails \/ PollSeesShutdown \/ ServeCancelled \/ ServeStopped
               \/ ServeCancelledInStop \/ WsClosed \/ OwnerRequestsShutdown
               \/ EmbeddedMarkStopped \/ EmbeddedSchedulerStop \/ MailChanges
      <3>1. UNCHANGED history /\ (running' => running)
        BY <2>8 DEF ServeBindFails, PollSeesShutdown, ServeCancelled, ServeStopped,
           ServeCancelledInStop, WsClosed, OwnerRequestsShutdown, EmbeddedMarkStopped,
           EmbeddedSchedulerStop, MailChanges
      <3> QED BY <2>3, <3>1
    <2>9. ASSUME NEW c \in Clients, CallShutdown(c) \/ Handling(c) \/ CallLost(c)
          PROVE  Announced
      <3>1. UNCHANGED history /\ (running' => running)
        BY <2>9 DEF CallShutdown, Handling, ShutdownRuntime, ShutdownConflict, CallLost
      <3> QED BY <2>3, <3>1
    <2>10. ASSUME AgentChanges PROVE Announced
      <3>1. running' = running
        BY <2>10 DEF AgentChanges
      <3> HIDE DEF Announced
      <3> QED BY <2>3, <2>6, <2>10, <3>1
    <2> HIDE DEF Announced
    <2> QED BY <2>7, <2>8, <2>9, <2>10 DEF Next, Serving
  <1> QED BY <1>1, ReadyInvIsInvariant, PTL DEF Spec, MailAnnouncedAtStart
-----------------------------------------------------------------------------
(* What a runtime has still to do can be done: the flag that the poll loop *)
(* reads is set in a runtime that shuts down; a served one then still has  *)
(* its coroutine; and while a request waits for its handler, the server    *)
(* has not closed, so that the handler can answer.                         *)
NothingLeftBehind ==
    /\ status = "ShuttingDown" => shutdown_requested
    /\ driver = "serve" /\ status = "ShuttingDown" => pc \in {"polling", "stopping"}
    /\ \A c \in Clients : call[c] = "sent" => ws \in {"listening", "closing"}

FlagInv == status = "ShuttingDown" => shutdown_requested

SentInv == \A c \in Clients : call[c] = "sent" => ws \in {"listening", "closing"}

LEMMA NextKeepsSent ==
    ASSUME DaemonTypeOK, ServerInv, SentInv, [Next]_daemonVars
    PROVE  SentInv'
  <1>0. DOMAIN call = Clients
    BY DEF DaemonTypeOK
  <1>1. ASSUME \A c \in Clients : call'[c] = "sent" => call[c] = "sent",
               ws \in {"listening", "closing"} => ws' \in {"listening", "closing"} \/ Drained
        PROVE  SentInv'
    BY <1>1 DEF SentInv, Drained
  <1>2. CASE \/ ServeBound \/ ServeStartRaises \/ PollSeesShutdown \/ ServeCancelled
    <2>1. UNCHANGED call /\ ws' \in {"listening", "closing"}
      BY <1>2 DEF ServeBound, ServeStartRaises, PollSeesShutdown, ServeCancelled, BeginStop
    <2> QED BY <1>1, <2>1
  <1>3. CASE ServeStopped \/ WsClosed
    BY <1>1, <1>3 DEF ServeStopped, WsClosed
  <1>4. CASE \/ ServeBindFails \/ ServeCancelledInStop \/ OwnerRequestsShutdown
             \/ EmbeddedStart \/ EmbeddedMarkStopped \/ EmbeddedSchedulerStart
             \/ EmbeddedSchedulerStop \/ AgentChanges \/ MailChanges \/ UNCHANGED daemonVars
    <2>1. UNCHANGED << call, ws >>
      BY <1>4 DEF ServeBindFails, ServeCancelledInStop, OwnerRequestsShutdown,
         EmbeddedStart, EmbeddedMarkStopped, EmbeddedSchedulerStart,
         EmbeddedSchedulerStop, AgentChanges, MailChanges, daemonVars, serverVars
    <2> QED BY <1>1, <2>1
  <1>5. ASSUME NEW c \in Clients, CallShutdown(c) PROVE SentInv'
    BY <1>5 DEF CallShutdown, serverVars, SentInv
  <1>6. ASSUME NEW c \in Clients, Handling(c) \/ CallLost(c) PROVE SentInv'
    <2>1. /\ UNCHANGED ws
          /\ \E answer \in {"accepted", "refused", "lost"} :
               call' = [call EXCEPT ![c] = answer]
      BY <1>6 DEF Handling, ShutdownRuntime, ShutdownConflict, CallLost, serverVars
    <2>2. \A d \in Clients : call'[d] = "sent" => call[d] = "sent"
      BY <1>0, <2>1
    <2> QED BY <1>1, <2>1, <2>2
  <1> QED BY <1>2, <1>3, <1>4, <1>5, <1>6 DEF Next, Serving

(* No shutdown is forgotten and no request stranded, through failures of   *)
(* the start, cancellations at both awaits, and requests that are still    *)
(* queued when the server closes.                                          *)
THEOREM NothingIsLeftBehind == Spec => []NothingLeftBehind
  <1>1. Init => FlagInv /\ SentInv
    BY DEF Init, FlagInv, SentInv
  <1>2. FlagInv /\ [Next]_daemonVars => FlagInv'
    <2>1. FlagInv /\ LifecycleStep => FlagInv'
      BY DEF FlagInv, LifecycleStep, RequestShutdown, MarkStopped
    <2> QED BY <2>1, StepsOfTheLifecycle
  <1>3. DaemonTypeOK /\ ServerInv /\ SentInv /\ [Next]_daemonVars => SentInv'
    BY NextKeepsSent
  <1>4. ServerInv /\ DaemonTypeOK /\ FlagInv /\ SentInv => NothingLeftBehind
    BY DEF ServerInv, ServerFollowsDaemon, DaemonTypeOK, FlagInv, SentInv, NothingLeftBehind
  <1> QED BY <1>1, <1>2, <1>3, <1>4, DaemonTypeCorrect, ServerInvIsInvariant, PTL DEF Spec
=============================================================================
