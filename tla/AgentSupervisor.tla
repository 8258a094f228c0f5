-------------------------- MODULE AgentSupervisor --------------------------
(***************************************************************************)
(* AgentSupervisor of runtime/agents.py with the AgentRuntimeState records *)
(* of runtime/state.py: registration, the development-mode launch, failure *)
(* and restart of agents, and the lifecycle events they append.            *)
(*                                                                         *)
(* Every method is synchronous, so a call is one step.  The effect of each *)
(* call on RuntimeState.agents is an operator on that mapping, because the *)
(* scheduler makes several of the calls within one step of its own.        *)
(*                                                                         *)
(* history[a] is every event of agent a that was handed to on_agent_event, *)
(* in order: what an observer that never missed one has seen.              *)
(***************************************************************************)
EXTENDS AgentEvents, FiniteSets

CONSTANTS Configured,   \* the agent ids of SwarmMetadata.agents
          Errors,       \* error summaries a caller passes to mark_agent_failed
          NoError,      \* None
          EmitBound     \* bound: events of one agent that a behaviour emits

ASSUME NoErrorIsNoError == NoError \notin Errors
ASSUME EmitBoundNat == EmitBound \in Nat

VARIABLES agents,       \* RuntimeState.agents: agent id -> AgentRuntimeState
          history

supervisorVars == << agents, history >>

AgentStatus == {"Starting", "Idle", "Running", "Waiting", "Failed"}

LifecycleTypes == {"AgentFailed", "AgentRestarted"}
EventTypes     == LifecycleTypes \cup {"MailReceived"}

Event == [id : Nat \ {0}, type : EventTypes, error : Errors \cup {NoError}]

AgentRuntimeState == [status     : AgentStatus,
                      last_error : Errors \cup {NoError},
                      handle     : BOOLEAN,         \* has a subprocess_handle
                      stream     : Seq(Event)]

-----------------------------------------------------------------------------
(* Events *)

NextEventCountsFromZero(rec, type, error) ==    \* bug: len(stream)
    [id |-> Len(rec.stream), type |-> type, error |-> error]

NextEventStalls(rec, type, error) ==            \* bug: never above MaxEvents
    [id |-> IF Len(rec.stream) < MaxEvents THEN Len(rec.stream) + 1
            ELSE MaxEvents,
     type |-> type, error |-> error]

(* The event that _append_runtime_event builds: its id is one more than    *)
(* the number of events the stream retains.                                *)
NextEvent(rec, type, error) ==
    [id |-> Len(rec.stream) + 1, type |-> type, error |-> error]

(* The record after _append_runtime_event has stored event e in it.        *)
WithEvent(rec, e) == [rec EXCEPT !.stream = StreamAppend(@, e)]

(* One call of _append_runtime_event for agent a, whose other fields are   *)
(* already those of rec: the event is stored, then handed to the callback. *)
AppendRuntimeEvent(a, rec, type, error) ==
    LET e == NextEvent(rec, type, error)
    IN  /\ Len(history[a]) < EmitBound
        /\ agents' = [agents EXCEPT ![a] = WithEvent(rec, e)]
        /\ history' = [history EXCEPT ![a] = Append(@, e)]

-----------------------------------------------------------------------------
(* Registration and launch *)

NewAgent == [status |-> "Starting", last_error |-> NoError,
             handle |-> FALSE, stream |-> << >>]

RegisteredAfresh(ags, S) ==                     \* bug: replaces live entries
    [a \in DOMAIN ags \cup S |-> IF a \in S THEN NewAgent ELSE ags[a]]

(* ensure_agent_runtime_state for the agents of S: an existing entry is    *)
(* kept as it is, a missing one is created.                                *)
Registered(ags, S) ==
    [a \in DOMAIN ags \cup S |-> IF a \in DOMAIN ags THEN ags[a] ELSE NewAgent]

(* launch_all_agents: register every configured agent, then attach a       *)
(* handle to the entries that this call has just created.                  *)
Launched(ags) ==
    LET all == Registered(ags, Configured)
        fresh(a) == /\ a \notin DOMAIN ags
                    /\ all[a].status = "Starting"
                    /\ ~all[a].handle
    IN  [a \in DOMAIN all |->
           IF fresh(a) THEN [all[a] EXCEPT !.handle = TRUE, !.status = "Idle"]
           ELSE all[a]]

EnsureAgentRuntimeState(a) ==
    /\ agents' = Registered(agents, {a})
    /\ UNCHANGED history

EnsureAgentsRegistered ==
    /\ agents' = Registered(agents, Configured)
    /\ UNCHANGED history

LaunchAllAgents ==
    /\ agents' = Launched(agents)
    /\ UNCHANGED history

-----------------------------------------------------------------------------
(* Lifecycle of a registered agent; the methods raise KeyError, and change *)
(* nothing, for an id without an entry.                                    *)

MarkAgentFailedSilently(a, error) ==            \* bug: the event has no error
    /\ a \in DOMAIN agents
    /\ AppendRuntimeEvent(a, [agents[a] EXCEPT !.status = "Failed",
                                               !.last_error = error],
                          "AgentFailed", NoError)

MarkAgentFailed(a, error) ==
    /\ a \in DOMAIN agents
    /\ AppendRuntimeEvent(a, [agents[a] EXCEPT !.status = "Failed",
                                               !.last_error = error],
                          "AgentFailed", error)

RestartAgentKeepsError(a) ==                    \* bug: last_error survives
    /\ a \in DOMAIN agents
    /\ AppendRuntimeEvent(a, [agents[a] EXCEPT !.status = "Idle",
                                               !.handle = TRUE],
                          "AgentRestarted", NoError)

RestartAgentStopsHalfway(a) ==                  \* bug: never set to Idle
    /\ a \in DOMAIN agents
    /\ AppendRuntimeEvent(a, [agents[a] EXCEPT !.status = "Starting",
                                               !.last_error = NoError,
                                               !.handle = TRUE],
                          "AgentRestarted", NoError)

(* restart_agent, from any status: Starting, then Idle, in one call.       *)
RestartAgent(a) ==
    /\ a \in DOMAIN agents
    /\ AppendRuntimeEvent(a, [agents[a] EXCEPT !.status = "Idle",
                                               !.last_error = NoError,
                                               !.handle = TRUE],
                          "AgentRestarted", NoError)

RecordUnreadMail(a) ==
    /\ a \in DOMAIN agents
    /\ AppendRuntimeEvent(a, agents[a], "MailReceived", NoError)

(* RuntimeState.set_agent_status: any status, Failed and Starting too; it  *)
(* leaves the other fields alone and tells nobody.                         *)
SetAgentStatus(a, status) ==
    /\ a \in DOMAIN agents
    /\ agents' = [agents EXCEPT ![a].status = status]
    /\ UNCHANGED history

-----------------------------------------------------------------------------
SupervisorInit ==
    /\ agents = [a \in {} |-> NewAgent]
    /\ history = [a \in Configured |-> << >>]

SupervisorNext ==
    \/ EnsureAgentsRegistered
    \/ LaunchAllAgents
    \/ \E a \in Configured :
         \/ EnsureAgentRuntimeState(a)
         \/ \E error \in Errors \cup {NoError} : MarkAgentFailed(a, error)
         \/ RestartAgent(a)
         \/ RecordUnreadMail(a)
         \/ \E status \in AgentStatus : SetAgentStatus(a, status)

SupervisorSpec == SupervisorInit /\ [][SupervisorNext]_supervisorVars

-----------------------------------------------------------------------------
(* Properties *)

(* Entries exist only for configured agents and have the fields of         *)
(* AgentRuntimeState; a stream never outgrows its bound, and every agent   *)
(* that was ever given an event has an entry that holds it.                *)
TypeOK ==
    /\ DOMAIN agents \subseteq Configured
    /\ agents \in [DOMAIN agents -> AgentRuntimeState]
    /\ history \in [Configured -> Seq(Event)]
    /\ \A a \in DOMAIN agents : Len(agents[a].stream) <= MaxEvents
    /\ \A a \in Configured \ DOMAIN agents : history[a] = << >>

(* What a stream retains is the most recent part of all that was published *)
(* for the agent, without a gap and without a change: a client that reads  *)
(* the stream (agent.get_detail) and one that was sent every event agree.  *)
StreamIsRecentSuffix ==
    \A a \in DOMAIN agents : agents[a].stream = LastN(history[a], MaxEvents)

(* A page that get_events cuts from the stream is the newest part of what  *)
(* was ever published, for every limit, those past either end included.    *)
PageIsMostRecent ==
    \A a \in DOMAIN agents : \A limit \in -1 .. MaxEvents + 1 :
        LET wanted == IF limit < 0 THEN 0
                      ELSE IF limit > MaxEvents THEN MaxEvents ELSE limit
        IN  GetEvents(agents[a].stream, limit) = LastN(history[a], wanted)

(* The id _append_runtime_event gives to the i-th event of an agent, in    *)
(* closed form: i as long as the stream is not full, then one same id.     *)
EventIdOf(i) == IF i <= MaxEvents THEN i ELSE MaxEvents + 1

EventIdsAreClosedForm ==
    \A a \in Configured : \A i \in DOMAIN history[a] :
        history[a][i].id = EventIdOf(i)

(* Until the stream has dropped its second event, the ids it retains are   *)
(* pairwise distinct: the scope in which "unique within the stream" holds. *)
IdsUniqueUntilFull ==
    \A a \in DOMAIN agents :
        Len(history[a]) <= MaxEvents + 1 =>
            \A i, j \in DOMAIN agents[a].stream :
                agents[a].stream[i].id = agents[a].stream[j].id => i = j

(* events.py, on AgentEvent.event_id: "Unique identifier for the event     *)
(* within the stream."                                                     *)
EventIdsUnique ==
    \A a \in DOMAIN agents : \A i, j \in DOMAIN agents[a].stream :
        agents[a].stream[i].id = agents[a].stream[j].id => i = j

(* type and error are those of the last failure or restart event of the    *)
(* history h; "none" and NoError when it has neither.                      *)
LastReport(h, type, error) ==
    LET IsLifecycle(i) == h[i].type \in LifecycleTypes
    IN  \/ /\ \A i \in DOMAIN h : ~IsLifecycle(i)
           /\ type = "none" /\ error = NoError
        \/ \E i \in DOMAIN h :
             /\ IsLifecycle(i)
             /\ \A j \in DOMAIN h : j > i => ~IsLifecycle(j)
             /\ type = h[i].type /\ error = h[i].error

(* The error an agent reports is the one of its last failure or restart    *)
(* event: an observer that folds the events knows last_error without       *)
(* asking, whatever turns and mail came in between.                        *)
ErrorMatchesHistory ==
    \A a \in DOMAIN agents : \E type \in LifecycleTypes \cup {"none"} :
        LastReport(history[a], type, agents[a].last_error)

(* What event e of an agent tells about its entry, `was` before it and     *)
(* `is` from it on.                                                        *)
Tells(e, was, is) ==
    CASE e.type = "AgentFailed"    -> /\ is.status = "Failed"
                                      /\ is.last_error = e.error
                                      /\ is.handle = was.handle
      [] e.type = "AgentRestarted" -> /\ is.status = "Idle"
                                      /\ is.last_error = NoError
                                      /\ is.handle
      [] e.type = "MailReceived"   -> is = [was EXCEPT !.stream = is.stream]

(* An entry never moves behind its observers' back, but for the status,    *)
(* which set_agent_status sets to anything at any time: every other change *)
(* of an entry comes with one event, and right after that event status,    *)
(* last_error and process are what it says, however set_agent_status,      *)
(* failures and restarts were mixed before.                                *)
EntryFollowsEvents ==
    [][\A a \in DOMAIN agents :
         \/ /\ history'[a] = history[a]
            /\ \/ agents'[a] = agents[a]
               \/ \E status \in AgentStatus : SetAgentStatus(a, status)
         \/ LET e == history'[a][Len(history'[a])]
            IN  /\ history'[a] = Append(history[a], e)
                /\ Tells(e, agents[a], agents'[a])]_supervisorVars

(* agents.py, launch_all_agents: "For each agent currently in Starting     *)
(* state without a subprocess_handle, attaches a lightweight placeholder   *)
(* object and transitions the status to Idle."  After a launch no          *)
(* configured agent should be left waiting.                                *)
LaunchLeavesNoneStarting ==
    [][LaunchAllAgents =>
         \A a \in Configured : agents'[a].status # "Starting"]_supervisorVars

(* Neither a registration nor a launch touches an agent that is already    *)
(* there, and no call ever removes an agent or rewrites what was published.*)
EntriesAreKept ==
    [][/\ DOMAIN agents \subseteq DOMAIN agents'
       /\ LaunchAllAgents \/ EnsureAgentsRegistered =>
            \A a \in DOMAIN agents : agents'[a] = agents[a]
       /\ \A a \in Configured :
            history[a] = SubSeq(history'[a], 1, Len(history[a]))]_supervisorVars
=============================================================================
