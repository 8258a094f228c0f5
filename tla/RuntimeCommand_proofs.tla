----------------------- MODULE RuntimeCommand_proofs -----------------------
(***************************************************************************)
(* For any number of runtimes, calls, projects and environments: a call    *)
(* finds the runtime of its environment, no daemon works on a foreign      *)
(* swarm, the same command resumes what create left, and exit codes tell   *)
(* the effect.  The proofs rest on three invariants, each on the one       *)
(* before: AcceptedInv (what a process holds is what its configuration     *)
(* says, and a serving process is the listener at its address), SwarmInv   *)
(* (a swarm.json is from a create of that directory and stays), CallInv    *)
(* (an accepted shutdown shows in the status of its runtime for good).     *)
(* From CallInv follow the lifecycle of every daemon and, with the types,  *)
(* that no call is left with nobody to answer it.                          *)
(***************************************************************************)
EXTENDS RuntimeCommand, FiniteSetTheorems, TLAPS

-----------------------------------------------------------------------------
(* Configuration *)

(* `a or b`: the first value unless it is missing or empty.                *)
LEMMA FirstOfTwo ==
    ASSUME NEW a, NEW b
    PROVE  FirstGiven(<< a, b >>) = IF a \in {Unset, Blank} THEN b ELSE a
<1> DEFINE v == << a, b >>
           P(i) == /\ v[i] \notin {Unset, Blank} \/ i = Len(v)
                   /\ \A j \in 1 .. i - 1 : v[j] \in {Unset, Blank}
<1>1. DOMAIN v = {1, 2} /\ Len(v) = 2 /\ v[1] = a /\ v[2] = b
  OBVIOUS
<1>2. CASE a \in {Unset, Blank}
  <2>1. P(2)
    BY <1>1, <1>2
  <2>2. \A i \in {1, 2} : P(i) => i = 2
    BY <1>1, <1>2
  <2>3. (CHOOSE i \in DOMAIN v : P(i)) = 2
    BY <1>1, <2>1, <2>2
  <2> QED  BY <1>1, <1>2, <2>3 DEF FirstGiven
<1>3. CASE a \notin {Unset, Blank}
  <2>1. P(1)
    BY <1>1, <1>3
  <2>2. \A i \in {1, 2} : P(i) => i = 1
    BY <1>1, <1>3
  <2>3. (CHOOSE i \in DOMAIN v : P(i)) = 1
    BY <1>1, <2>1, <2>2
  <2> QED  BY <1>1, <1>3, <2>3 DEF FirstGiven
<1> QED  BY <1>2, <1>3

(* A configuration and a client take the same address from an environment, *)
(* unless the environment has no configuration.                            *)
LEMMA ClientAgreesWithConfig ==
    ASSUME NEW project, NEW env, NEW cwd,
           LoadRuntimeConfig(project, env, cwd) # Invalid
    PROVE  ClientAddress(env) = Address(LoadRuntimeConfig(project, env, cwd))
<1>1. ControlPort(env) # Invalid
  BY DEF LoadRuntimeConfig
<1>2. LoadRuntimeConfig(project, env, cwd).control_api_port = ControlPort(env)
      /\ LoadRuntimeConfig(project, env, cwd).control_api_host = ControlHost(env)
  BY DEF LoadRuntimeConfig
<1>3. /\ env.port \notin {Blank, NotANumber} \/ env.port = Unset
      /\ ControlPort(env) = IF env.port = Unset THEN DefaultPort ELSE env.port
  BY <1>1 DEF ControlPort
<1>4. FirstGiven(<< env.port, DefaultPort >>) = ControlPort(env)
  BY <1>3, FirstOfTwo
<1>5. ControlPort(env) # NotANumber
  BY <1>3, TextsDiffer DEF DefaultPort
<1> QED  BY <1>2, <1>4, <1>5 DEF ClientAddress, Address, ControlHost

-----------------------------------------------------------------------------
(* The invariant *)

IsFunctionOn(f, S) == f = [x \in S |-> f[x]]

CallRecord == [pc : {"idle", "connect", "asked", "answered", "ended"},
               env : Environments \cup {None}, request : Requests \cup {None},
               server : Starters \cup {None}, reply : Replies \cup {None},
               accepted : BOOLEAN, exit : {"done", "failed", "usage", None}]

Shapes == /\ IsFunctionOn(pc, Starters) /\ IsFunctionOn(given, Starters)
          /\ IsFunctionOn(conf, Starters) /\ IsFunctionOn(holds, Starters)
          /\ listener \in [Addresses -> Starters \cup {None}]
          /\ call \in [Callers -> CallRecord]

(* The process has the configuration of its project and environment.       *)
Accepted(p) == /\ given[p] \in Options
               /\ conf[p] = ConfigOf(given[p].project, given[p].env)
               /\ conf[p] # Invalid

Holding(p) == /\ holds[p].project_path = conf[p].project_path
              /\ holds[p].swarm_id = conf[p].swarm_id
              /\ holds[p].agent_mail_project_id = MailProject(conf[p])

AcceptedInv ==
    /\ Shapes
    /\ \A p \in Starters :
         /\ pc[p] \notin {"idle", "ended"} => Accepted(p)
         /\ pc[p] = "idle" => holds[p] = None
         /\ holds[p] # None => Accepted(p) /\ Holding(p)
         /\ pc[p] = "serve" => listener[Address(conf[p])] = p

(* An accepted configuration is one that some process can have, so its     *)
(* address is on the map of listeners.                                     *)
LEMMA AcceptedIsOnTheMap ==
    ASSUME NEW p \in Starters, Accepted(p)
    PROVE  /\ conf[p] \in Configs
           /\ Address(conf[p]) \in Addresses
           /\ ClientAddress(given[p].env) = Address(conf[p])
<1>1. given[p].project \in Projects /\ given[p].env \in Environments
  BY DEF Accepted, Options
<1>2. conf[p] \in Configs
  BY <1>1 DEF Accepted, Configs
<1>3. Address(conf[p]) \in Addresses
  BY <1>2 DEF Addresses
<1>4. ClientAddress(given[p].env) = Address(conf[p])
  BY ClientAgreesWithConfig DEF Accepted, ConfigOf
<1> QED  BY <1>2, <1>3, <1>4

(* Every answer is a result or one of four errors.                         *)
LEMMA ReplyIsReply ==
    ASSUME NEW st, NEW agents, NEW frame
    PROVE  Reply(st, agents, frame) \in Replies
<1>1. \A outcome : CodeOf(outcome) \in {1000, 1001, 1100, 1200}
  BY DEF CodeOf
<1> QED  BY <1>1 DEF Reply, Replies

LEMMA InitAccepted == Init => AcceptedInv
<1> SUFFICES ASSUME Init PROVE AcceptedInv
  OBVIOUS
<1>1. NoCall \in CallRecord
  BY DEF NoCall, CallRecord
<1> QED  BY <1>1 DEF Init, AcceptedInv, Shapes, IsFunctionOn

(* The steps of an `api call` change nothing but the call, except that an  *)
(* accepted shutdown changes a status.                                     *)
CallStep(c) == (\E env \in Environments : CallStarts(c, env)) \/ Calling(c)

LEMMA CallRecordsStayRecords ==
    ASSUME NEW r \in CallRecord
    PROVE  /\ \A request \in Requests, p \in Starters :
                [r EXCEPT !.pc = "asked", !.env = None, !.request = request, !.server = p]
                  \in CallRecord
           /\ [r EXCEPT !.pc = "ended", !.env = None, !.exit = "failed"] \in CallRecord
           /\ \A code \in {"done", "failed"} :
                [r EXCEPT !.pc = "ended", !.exit = code] \in CallRecord
           /\ \A reply \in Replies, b \in BOOLEAN :
                [r EXCEPT !.pc = "answered", !.reply = reply, !.accepted = b] \in CallRecord
           /\ \A b \in BOOLEAN :
                [r EXCEPT !.pc = "ended", !.exit = "failed", !.accepted = b] \in CallRecord
  BY DEF CallRecord

LEMMA CallStepKeepsRuntimes ==
    ASSUME AcceptedInv, NEW c \in Callers, CallStep(c)
    PROVE  /\ UNCHANGED << pc, given, conf, holds, exit, swarm, listener >>
           /\ call' \in [Callers -> CallRecord]
           /\ \A d \in Callers \ {c} : call'[d] = call[d]
<1>1. \A st, agents, frame : Reply(st, agents, frame) \in Replies
  BY ReplyIsReply
<1>2. \A frame, reply : ShutsDown(frame, reply) \in BOOLEAN
  BY DEF ShutsDown
<1>0. call \in [Callers -> CallRecord] /\ call[c] \in CallRecord
      /\ listener \in [Addresses -> Starters \cup {None}]
  BY DEF AcceptedInv, Shapes
<1> DEFINE Kept == /\ UNCHANGED << pc, given, conf, holds, exit, swarm, listener >>
                   /\ call' \in [Callers -> CallRecord]
                   /\ \A d \in Callers \ {c} : call'[d] = call[d]
<1>3. ASSUME NEW env \in Environments, CallStarts(c, env) PROVE Kept
  BY <1>0, <1>3 DEF CallStarts, CallEnds, CallStays, CallRecord
<1>4. ASSUME NEW request \in Requests, CallConnects(c, request) PROVE Kept
  <2>1. Listening(c) \in Starters
    BY <1>0, <1>4 DEF CallConnects, Listening
  <2>2. [call[c] EXCEPT !.pc = "asked", !.env = None, !.request = request,
                        !.server = Listening(c)] \in CallRecord
    BY <1>0, <2>1, CallRecordsStayRecords
  <2>3. call' = [call EXCEPT ![c] = [call[c] EXCEPT !.pc = "asked", !.env = None,
                                       !.request = request, !.server = Listening(c)]]
    BY <1>4 DEF CallConnects
  <2> QED  BY <1>0, <1>4, <2>2, <2>3 DEF CallConnects, CallStays
<1>5. ASSUME CallRefused(c) PROVE Kept
  <2>1. [call[c] EXCEPT !.pc = "ended", !.env = None, !.exit = "failed"] \in CallRecord
    BY <1>0, CallRecordsStayRecords
  <2>2. call' = [call EXCEPT ![c] = [call[c] EXCEPT !.pc = "ended", !.env = None,
                                                    !.exit = "failed"]]
    BY <1>5 DEF CallRefused
  <2> QED  BY <1>0, <1>5, <2>1, <2>2 DEF CallRefused, CallStays
<1>6. ASSUME CallReads(c) \/ CallLost(c) \/ \E p \in Starters : DropsRequest(p, c)
      PROVE  Kept
  <2>1. PICK code \in {"done", "failed"} : CallEnds(c, code)
    BY <1>6 DEF CallReads, CallLost, DropsRequest
  <2>2. [call[c] EXCEPT !.pc = "ended", !.exit = code] \in CallRecord
    BY <1>0, CallRecordsStayRecords
  <2>3. CallStays
    BY <1>6 DEF CallReads, CallLost, DropsRequest
  <2> QED  BY <1>0, <2>1, <2>2, <2>3 DEF CallEnds, CallStays
<1>7. ASSUME NEW p \in Starters, Answers(p, c) PROVE Kept
  <2> DEFINE reply == Reply(status[p], holds[p].agents, call[c].request)
             b == ShutsDown(call[c].request, reply)
  <2>1. [call[c] EXCEPT !.pc = "answered", !.reply = reply, !.accepted = b] \in CallRecord
    BY <1>0, <1>1, <1>2, CallRecordsStayRecords
  <2>2. call' = [call EXCEPT ![c] = [call[c] EXCEPT !.pc = "answered", !.reply = reply,
                                                    !.accepted = b]]
    BY <1>7 DEF Answers
  <2> QED  BY <1>0, <1>7, <2>1, <2>2 DEF Answers
<1>8. ASSUME NEW p \in Starters, AnswersInVain(p, c) PROVE Kept
  <2> DEFINE reply == Reply(status[p], holds[p].agents, call[c].request)
             b == ShutsDown(call[c].request, reply)
  <2>1. [call[c] EXCEPT !.pc = "ended", !.exit = "failed", !.accepted = b] \in CallRecord
    BY <1>0, <1>2, CallRecordsStayRecords
  <2>2. call' = [call EXCEPT ![c] = [call[c] EXCEPT !.pc = "ended", !.exit = "failed",
                                                    !.accepted = b]]
    BY <1>8 DEF AnswersInVain
  <2> QED  BY <1>0, <1>8, <2>1, <2>2 DEF AnswersInVain
<1> QED  BY <1>3, <1>4, <1>5, <1>6, <1>7, <1>8 DEF CallStep, Calling

RuntimeStep(p) ==
    \/ \E opts \in Options : Starts(p, opts)
    \/ Running(p) \/ CreateRaises(p) \/ Interrupted(p) \/ Killed(p)

LEMMA RuntimeStepKeepsInv ==
    ASSUME AcceptedInv, NEW p \in Starters, RuntimeStep(p)
    PROVE  AcceptedInv' /\ UNCHANGED call
<1> USE DEF AcceptedInv, Shapes, IsFunctionOn
<1> DEFINE Kept == AcceptedInv' /\ UNCHANGED call
<1>0. pc[p] \notin {"idle", "ended"} => Accepted(p) /\ Address(conf[p]) \in Addresses
  BY AcceptedIsOnTheMap
<1>1. ASSUME NEW opts \in Options, Starts(p, opts) PROVE Kept
  BY <1>1 DEF Starts, Ends, GoesTo, Modes, Options, Accepted, Holding
<1>2. ASSUME CreateAllowed(p) PROVE Kept
  BY <1>0, <1>2 DEF CreateAllowed, GoesTo, Accepted, Holding
<1>3. ASSUME StartRefused(p) PROVE Kept
  BY <1>0, <1>3 DEF StartRefused, Ends, Accepted, Holding
<1>4. ASSUME CreateWrites(p) PROVE Kept
  BY <1>0, <1>4 DEF CreateWrites, BuiltDaemon, GoesTo, Written, Metadata, Accepted, Holding
<1>5. ASSUME ResumeLoads(p) PROVE Kept
  BY <1>0, <1>5 DEF ResumeLoads, BuiltDaemon, GoesTo, Accepts, Validates, Rebinds, Accepted,
     Holding
<1>6. ASSUME ResumeRaises(p) PROVE Kept
  BY <1>0, <1>6 DEF ResumeRaises, Ends, Accepted, Holding
<1>7. ASSUME SmokeTest(p) PROVE Kept
  BY <1>0, <1>7 DEF SmokeTest, Ends, Accepted, Holding
<1>8. ASSUME ServeBound(p) PROVE Kept
  <2> DEFINE here == Address(conf[p])
  <2>1. here \in Addresses /\ listener[here] = None /\ Accepted(p)
    BY <1>0, <1>8 DEF ServeBound
  <2>2. \A q \in Starters : pc[q] = "serve" => Address(conf[q]) # here
    BY <2>1, NoneIsNobody
  <2>3. /\ listener' = [listener EXCEPT ![here] = p]
        /\ pc' = [pc EXCEPT ![p] = "serve"]
        /\ UNCHANGED << given, conf, holds, call >>
    BY <1>8 DEF ServeBound, GoesTo
  <2> HIDE DEF here
  <2>4. /\ listener' \in [Addresses -> Starters \cup {None}]
        /\ listener'[here] = p
        /\ \A a \in Addresses : a # here => listener'[a] = listener[a]
    BY <2>1, <2>3
  <2>5. \A q \in Starters : pc'[q] = "serve" => listener'[Address(conf[q])] = q
    BY <2>1, <2>2, <2>3, <2>4, AcceptedIsOnTheMap DEF here
  <2>6. \A q \in Starters : Accepted(q)' = Accepted(q) /\ Holding(q)' = Holding(q)
    BY <2>3 DEF Accepted, Holding
  <2>7. Shapes'
    BY <2>3, <2>4
  <2> QED  BY <2>1, <2>3, <2>5, <2>6, <2>7
<1>9. ASSUME ServeBindFails(p) PROVE Kept
  BY <1>0, <1>9 DEF ServeBindFails, Ends, Accepted, Holding
<1>10. ASSUME StopBegins(p) \/ Interrupted(p) PROVE Kept
  <2>1. /\ listener' = Unbound(p)
        /\ pc' = [pc EXCEPT ![p] = "stop"] \/ pc' = [pc EXCEPT ![p] = "abort"]
        /\ UNCHANGED << given, conf, holds, call >>
        /\ Accepted(p)
    BY <1>0, <1>10 DEF StopBegins, Interrupted, GoesTo
  <2>2. \A q \in Starters : pc'[q] = "serve" => listener'[Address(conf[q])] = q
    BY <2>1, AcceptedIsOnTheMap DEF Unbound
  <2>3. \A q \in Starters : Accepted(q)' = Accepted(q) /\ Holding(q)' = Holding(q)
    BY <2>1 DEF Accepted, Holding
  <2>4. Shapes'
    BY <2>1 DEF Unbound
  <2> QED  BY <2>1, <2>2, <2>3, <2>4
<1>11. ASSUME StopEnds(p) PROVE Kept
  BY <1>0, <1>11 DEF StopEnds, Ends, Accepted, Holding
<1>12. ASSUME Killed(p) PROVE Kept
  BY <1>0, <1>12, AcceptedIsOnTheMap DEF Killed, Unbound, Ends, Alive, Accepted, Holding
<1>13. ASSUME CreateRaises(p) PROVE Kept
  BY <1>0, <1>13 DEF CreateRaises, Ends, Accepted, Holding
<1> QED  BY <1>1, <1>2, <1>3, <1>4, <1>5, <1>6, <1>7, <1>8, <1>9, <1>10, <1>11,
            <1>12, <1>13 DEF RuntimeStep, Running

(* For the step of one process or call, the invariant is kept.             *)
LEMMA StepKeepsInv == AcceptedInv /\ [Next]_commandVars => AcceptedInv'
<1> SUFFICES ASSUME AcceptedInv, [Next]_commandVars PROVE AcceptedInv'
  OBVIOUS
<1>1. CASE \E p \in Starters : RuntimeStep(p)
  BY <1>1, RuntimeStepKeepsInv
<1>2. ASSUME NEW c \in Callers, CallStep(c) PROVE AcceptedInv'
  BY <1>2, CallStepKeepsRuntimes DEF AcceptedInv, Shapes, IsFunctionOn, Accepted, Holding
<1>3. CASE UNCHANGED commandVars
  BY <1>3 DEF commandVars, AcceptedInv, Shapes, IsFunctionOn, Accepted, Holding
<1> QED  BY <1>1, <1>2, <1>3, CommandsAreOptions DEF Next, RuntimeStep, CallStep

LEMMA AcceptedAlways == Spec => []AcceptedInv
<1> QED  BY InitAccepted, StepKeepsInv, PTL DEF Spec

-----------------------------------------------------------------------------
(* No daemon works on the swarm of another project, under another id or in *)
(* another mail project, whichever directories the projects share and      *)
(* however their commands overlap (SwarmMetadata.validate, and create and  *)
(* resume of RuntimeDaemon).                                               *)
THEOREM SwarmsAreNotForeign == Spec => []NoForeignSwarm
<1>1. AcceptedInv => NoForeignSwarm
  <2> SUFFICES ASSUME AcceptedInv, NEW p \in Starters, holds[p] # None
               PROVE  /\ holds[p].project_path = given[p].project
                      /\ holds[p].swarm_id = conf[p].swarm_id
                      /\ holds[p].agent_mail_project_id = MailProject(conf[p])
    BY DEF NoForeignSwarm
  <2>1. Accepted(p) /\ Holding(p)
    BY DEF AcceptedInv
  <2>2. conf[p].project_path = ProjectPath(given[p].project, given[p].env, given[p].project)
    BY <2>1 DEF Accepted, ConfigOf, LoadRuntimeConfig
  <2>3. ProjectPath(given[p].project, given[p].env, given[p].project) = given[p].project
    BY <2>1, ProjectsExist DEF Accepted, Options, ProjectPath
  <2> QED  BY <2>1, <2>2, <2>3 DEF Holding
<1> QED  BY <1>1, AcceptedAlways, PTL

(* A call finds the runtime that serves in its environment, and no other   *)
(* (runtime_start and api_call resolve the address independently), unless  *)
(* the host is an IPv6 literal: then it fails (api/client.py puts no       *)
(* brackets around it).                                                    *)
THEOREM CallsFindTheirRuntimes == Spec => CallFindsItsRuntime
<1> DEFINE Finds(c, p) ==
        call[c].pc = "connect" /\ call'[c].pc # "connect"
        /\ pc[p] = "serve" /\ given[p].env = call[c].env
        => IF ControlHost(given[p].env) \in IPv6Hosts
           THEN call'[c].exit = "failed" ELSE call'[c].server = p
<1>1. ASSUME AcceptedInv, [Next]_commandVars, NEW c \in Callers, NEW p \in Starters
      PROVE  Finds(c, p)
  <2> SUFFICES ASSUME call[c].pc = "connect", call'[c].pc # "connect",
                      pc[p] = "serve", given[p].env = call[c].env
               PROVE  IF ControlHost(given[p].env) \in IPv6Hosts
                      THEN call'[c].exit = "failed" ELSE call'[c].server = p
    OBVIOUS
  <2>1. CallStep(c)
    <3>1. ~ UNCHANGED call
      OBVIOUS
    <3>2. \A q \in Starters : ~ RuntimeStep(q)
      BY <1>1, <3>1, RuntimeStepKeepsInv
    <3>3. \A d \in Callers : CallStep(d) => d = c
      BY <1>1, CallStepKeepsRuntimes
    <3> QED  BY <1>1, <3>1, <3>2, <3>3, CommandsAreOptions
             DEF Next, RuntimeStep, CallStep, commandVars
  <2>2. /\ ClientAddress(call[c].env) = Address(conf[p])
        /\ Address(conf[p]) \in Addresses /\ listener[Address(conf[p])] = p
        /\ Address(conf[p])[1] = ControlHost(given[p].env)
    <3>1. Accepted(p)
      BY <1>1 DEF AcceptedInv
    <3>2. conf[p].control_api_host = ControlHost(given[p].env)
      BY <3>1 DEF Accepted, ConfigOf, LoadRuntimeConfig
    <3> QED  BY <1>1, <3>1, <3>2, AcceptedIsOnTheMap DEF AcceptedInv, Address
  <2>3. Listening(c) = IF ControlHost(given[p].env) \in IPv6Hosts THEN None ELSE p
    BY <2>2 DEF Listening, IsUri
  <2>4. CallRefused(c) \/ \E request \in Requests : CallConnects(c, request)
    BY <2>1 DEF CallStep, Calling, CallStarts, CallReads, CallLost,
                Answers, AnswersInVain, DropsRequest, Asks
  <2>5. call \in [Callers -> CallRecord] /\ p # None
    BY <1>1, NoneIsNobody DEF AcceptedInv, Shapes
  <2>6. CASE ControlHost(given[p].env) \in IPv6Hosts
    <3>1. CallRefused(c)
      BY <2>3, <2>4, <2>6 DEF CallConnects
    <3> QED  BY <2>5, <2>6, <3>1 DEF CallRefused, CallRecord
  <2>7. CASE ControlHost(given[p].env) \notin IPv6Hosts
    <3>1. PICK request \in Requests : CallConnects(c, request)
      BY <2>3, <2>4, <2>5, <2>7 DEF CallRefused
    <3> QED  BY <2>3, <2>5, <2>7, <3>1 DEF CallConnects, CallRecord
  <2> QED  BY <2>6, <2>7
<1>2. AcceptedInv /\ [Next]_commandVars =>
        [\A c \in Callers, p \in Starters : Finds(c, p)]_commandVars
  BY <1>1
<1> QED  BY <1>2, AcceptedAlways, PTL DEF Spec, CallFindsItsRuntime

-----------------------------------------------------------------------------
(* What is on disk: a swarm.json has been written by a create of that      *)
(* directory, with the ids of its configuration, and stays.                *)

Built == {"bind", "start", "serve", "stop", "abort"}

Origin(d) == LET q == swarm[d].by IN
    /\ q \in Starters /\ pc[q] # "idle" /\ Accepted(q) /\ given[q].mode = "create"
    /\ swarm[d] = Metadata(q, conf[q], swarm[d].agents)

SwarmOf(p) ==
    /\ pc[p] = "idle" => given[p] = None
    /\ pc[p] # "ended" => exit[p] = None
    /\ exit[p] = "usage" => given[p] = None
    /\ pc[p] \in {"create", "write"} => given[p].mode = "create"
    /\ pc[p] \in Built \/ exit[p] = "done" =>
         Dir(p) \in Dirs /\ swarm[Dir(p)] # None

SwarmInv == /\ AcceptedInv
            /\ IsFunctionOn(swarm, Dirs) /\ IsFunctionOn(exit, Starters)
            /\ \A p \in Starters : SwarmOf(p)
            /\ \A d \in Dirs : swarm[d] # None => Origin(d)

(* What a create writes is not nothing and tells where it is from.         *)
LEMMA WrittenIsSwarm ==
    ASSUME NEW p \in Starters, Accepted(p)
    PROVE  /\ Written(p) # None /\ Dir(p) \in Dirs
           /\ Written(p).by = p
           /\ Written(p) = Metadata(p, conf[p], Written(p).agents)
<1>1. conf[p] \in Configs
  BY AcceptedIsOnTheMap
<1>2. AgentsOf(given[p]) \in {{}, Agents}
  BY DEF AgentsOf
<1> QED  BY <1>1, <1>2, NoneIsNothing DEF Written, Metadata, Dir, Dirs

(* A step that leaves the configurations alone and takes no swarm away     *)
(* disturbs only its own process.                                          *)
LEMMA OwnStepOnly ==
    ASSUME SwarmInv, NEW p \in Starters, AcceptedInv',
           UNCHANGED << given, conf >>,
           pc' = [q \in Starters |-> pc'[q]], exit' = [q \in Starters |-> exit'[q]],
           \A q \in Starters \ {p} : pc'[q] = pc[q] /\ exit'[q] = exit[q],
           pc[p] # "idle", pc'[p] # "idle",
           swarm' = swarm \/ (swarm' = [swarm EXCEPT ![Dir(p)] = Written(p)]
                              /\ Accepted(p) /\ given[p].mode = "create"),
           SwarmOf(p)'
    PROVE  SwarmInv'
<1>1. /\ IsFunctionOn(swarm, Dirs) /\ IsFunctionOn(exit, Starters)
      /\ \A q \in Starters : SwarmOf(q)
      /\ \A d \in Dirs : swarm[d] # None => Origin(d)
  BY DEF SwarmInv
<1>2. Accepted(p) => /\ Written(p) # None /\ Dir(p) \in Dirs
                     /\ Written(p).by = p
                     /\ Written(p) = Metadata(p, conf[p], Written(p).agents)
  BY WrittenIsSwarm
<1>3. \A d \in Dirs : swarm[d] # None => swarm'[d] # None
  BY <1>1, <1>2 DEF IsFunctionOn
<1>4. ASSUME NEW q \in Starters PROVE SwarmOf(q)'
  <2>1. CASE q = p
    BY <2>1
  <2>2. CASE q # p
    BY <1>1, <1>3, <2>2 DEF SwarmOf, Dir
  <2> QED  BY <2>1, <2>2
<1>5. ASSUME NEW d \in Dirs, swarm'[d] # None PROVE Origin(d)'
  <2>1. CASE swarm'[d] = swarm[d]
    <3>1. Origin(d)
      BY <1>1, <1>5, <2>1
    <3> QED  BY <2>1, <3>1 DEF Origin, Accepted
  <2>2. CASE swarm'[d] # swarm[d]
    <3>1. swarm'[d] = Written(p) /\ Accepted(p) /\ given[p].mode = "create"
      BY <1>1, <2>2 DEF IsFunctionOn
    <3> QED  BY <1>2, <3>1 DEF Origin, Accepted
  <2> QED  BY <2>1, <2>2
<1>6. IsFunctionOn(swarm, Dirs)' /\ IsFunctionOn(exit, Starters)'
  BY <1>1 DEF IsFunctionOn
<1> QED  BY <1>4, <1>5, <1>6 DEF SwarmInv

LEMMA RuntimeStepKeepsSwarm ==
    ASSUME SwarmInv, NEW p \in Starters, RuntimeStep(p)
    PROVE  SwarmInv'
<1>0. /\ AcceptedInv /\ AcceptedInv'
      /\ IsFunctionOn(pc, Starters) /\ IsFunctionOn(given, Starters)
      /\ IsFunctionOn(conf, Starters)
      /\ IsFunctionOn(swarm, Dirs) /\ IsFunctionOn(exit, Starters)
      /\ SwarmOf(p)
  BY RuntimeStepKeepsInv DEF SwarmInv, AcceptedInv, Shapes
<1>1. /\ pc[p] \notin {"idle", "ended"} =>
           /\ Accepted(p) /\ Written(p) # None /\ Dir(p) \in Dirs
      /\ None \notin {"done", "failed", "usage", "killed"}
  BY <1>0, WrittenIsSwarm, NoneIsNothing DEF AcceptedInv
<1>2. ASSUME NEW opts \in Options, Starts(p, opts) PROVE SwarmInv'
  <2>1. /\ pc[p] = "idle" /\ UNCHANGED swarm
        /\ \A q \in Starters \ {p} : /\ pc'[q] = pc[q] /\ exit'[q] = exit[q]
                                      /\ given'[q] = given[q] /\ conf'[q] = conf[q]
        /\ IsFunctionOn(exit, Starters)'
    BY <1>0, <1>2 DEF Starts, Ends, GoesTo, IsFunctionOn
  <2>2. \/ pc'[p] = "ended" /\ exit'[p] \in {"failed", "usage"} /\ given'[p] = given[p]
        \/ pc'[p] = opts.mode /\ exit'[p] = exit[p] /\ given'[p] = opts
    BY <1>0, <1>2 DEF Starts, Ends, GoesTo, IsFunctionOn
  <2>3. opts.mode \in {"create", "resume"}
    BY DEF Options, Modes
  <2>4. SwarmOf(p)'
    BY <1>0, <1>1, <2>1, <2>2, <2>3 DEF SwarmOf, Built
  <2>5. \A q \in Starters \ {p} : SwarmOf(q)'
    BY <2>1 DEF SwarmInv, SwarmOf, Dir
  <2>6. ASSUME NEW d \in Dirs, swarm'[d] # None PROVE Origin(d)'
    <3>1. Origin(d) /\ swarm[d].by # p
      BY <2>1, <2>6 DEF SwarmInv, Origin
    <3> QED  BY <2>1, <3>1 DEF Origin, Accepted
  <2> QED  BY <1>0, <2>1, <2>4, <2>5, <2>6 DEF SwarmInv, IsFunctionOn
<1>3. ASSUME CreateAllowed(p) \/ ServeBound(p) \/ StopBegins(p) \/ Interrupted(p)
      PROVE SwarmInv'
  <2>1. /\ UNCHANGED << given, conf, swarm, exit >>
        /\ pc[p] \notin {"idle", "ended"} /\ pc'[p] \notin {"idle", "ended"}
        /\ pc'[p] = "write" => pc[p] = "create"
        /\ pc'[p] # "create"
        /\ pc'[p] \in Built => pc[p] \in Built
        /\ \A q \in Starters \ {p} : pc'[q] = pc[q]
    BY <1>0, <1>3 DEF CreateAllowed, ServeBound, StopBegins, Interrupted, GoesTo,
       IsFunctionOn, Built
  <2>2. SwarmOf(p)'
    BY <1>0, <1>1, <2>1 DEF SwarmOf, Dir
  <2> QED  BY <1>0, <2>1, <2>2, OwnStepOnly DEF AcceptedInv, Shapes, IsFunctionOn
<1>4. ASSUME StartRefused(p) \/ ResumeRaises(p) \/ ServeBindFails(p) \/ Killed(p)
             \/ SmokeTest(p) \/ StopEnds(p) \/ CreateRaises(p)
      PROVE SwarmInv'
  <2>1. PICK code \in {"done", "failed", "killed"} :
        /\ Ends(p, code) /\ pc[p] \notin {"idle", "ended"}
        /\ code = "done" => pc[p] \in Built /\ UNCHANGED swarm
    BY <1>4 DEF StartRefused, ResumeRaises, ServeBindFails, Killed, SmokeTest, StopEnds,
       CreateRaises, Alive, Built
  <2>2. /\ UNCHANGED << given, conf >>
        /\ \/ swarm' = swarm
           \/ /\ swarm' = [swarm EXCEPT ![Dir(p)] = Written(p)]
              /\ Accepted(p) /\ given[p].mode = "create"
    BY <1>0, <1>1, <1>4 DEF StartRefused, ResumeRaises, ServeBindFails, Killed, SmokeTest,
       StopEnds, CreateRaises, SwarmOf
  <2>3. /\ pc'[p] = "ended" /\ exit'[p] = code
        /\ \A q \in Starters \ {p} : pc'[q] = pc[q] /\ exit'[q] = exit[q]
    BY <1>0, <2>1 DEF Ends, IsFunctionOn
  <2>4. SwarmOf(p)'
    BY <1>0, <1>1, <2>1, <2>2, <2>3 DEF SwarmOf, Dir, Built
  <2>5. pc' = [q \in Starters |-> pc'[q]] /\ exit' = [q \in Starters |-> exit'[q]]
    BY <1>0, <2>1 DEF Ends, IsFunctionOn
  <2> QED  BY <1>0, <2>1, <2>2, <2>3, <2>4, <2>5, OwnStepOnly
<1>5. ASSUME CreateWrites(p) \/ ResumeLoads(p) PROVE SwarmInv'
  <2>1. /\ UNCHANGED << given, conf, exit >> /\ pc[p] \notin {"idle", "ended"}
        /\ pc' = [pc EXCEPT ![p] = "bind"] \/ pc' = [pc EXCEPT ![p] = "start"]
    BY <1>5 DEF CreateWrites, ResumeLoads, BuiltDaemon, GoesTo
  <2>2. /\ Dir(p) \in Dirs /\ swarm'[Dir(p)] # None
        /\ \/ swarm' = swarm
           \/ /\ swarm' = [swarm EXCEPT ![Dir(p)] = Written(p)]
              /\ Accepted(p) /\ given[p].mode = "create"
    BY <1>0, <1>1, <1>5, <2>1 DEF CreateWrites, ResumeLoads, SwarmOf, IsFunctionOn
  <2>3. /\ pc'[p] \in {"bind", "start"}
        /\ \A q \in Starters \ {p} : pc'[q] = pc[q]
    BY <1>0, <2>1 DEF IsFunctionOn
  <2>4. SwarmOf(p)'
    BY <1>0, <1>1, <2>1, <2>2, <2>3 DEF SwarmOf, Dir, Built
  <2>5. pc' = [q \in Starters |-> pc'[q]] /\ exit' = [q \in Starters |-> exit'[q]]
    BY <1>0, <2>1 DEF IsFunctionOn
  <2> QED  BY <1>0, <2>1, <2>2, <2>3, <2>4, <2>5, OwnStepOnly
<1> QED  BY <1>2, <1>3, <1>4, <1>5 DEF RuntimeStep, Running

LEMMA StepKeepsSwarm == SwarmInv /\ [Next]_commandVars => SwarmInv'
<1> SUFFICES ASSUME SwarmInv, [Next]_commandVars PROVE SwarmInv'
  OBVIOUS
<1>1. CASE \E p \in Starters : RuntimeStep(p)
  BY <1>1, RuntimeStepKeepsSwarm
<1>2. ASSUME UNCHANGED << pc, given, conf, exit, swarm >> PROVE SwarmInv'
  <2>1. AcceptedInv'
    BY StepKeepsInv DEF SwarmInv
  <2> QED  BY <1>2, <2>1 DEF SwarmInv, IsFunctionOn, SwarmOf, Origin, Accepted, Dir
<1>3. ASSUME NEW c \in Callers, CallStep(c) PROVE SwarmInv'
  BY <1>2, <1>3, CallStepKeepsRuntimes DEF SwarmInv
<1>4. CASE UNCHANGED commandVars
  BY <1>2, <1>4 DEF commandVars
<1> QED  BY <1>1, <1>3, <1>4, CommandsAreOptions DEF Next, RuntimeStep, CallStep

LEMMA SwarmAlways == Spec => []SwarmInv
<1>1. Init => SwarmInv
  <2> SUFFICES ASSUME Init PROVE SwarmInv
    OBVIOUS
  <2>1. AcceptedInv
    BY InitAccepted
  <2>2. None # "done" /\ None # "usage"
    BY NoneIsNothing
  <2> QED  BY <2>1, <2>2 DEF Init, SwarmInv, IsFunctionOn, SwarmOf, Built
<1> QED  BY <1>1, StepKeepsSwarm, PTL DEF Spec

(* The exit code of `runtime start` says what it left on the disk.         *)
THEOREM ExitCodesAreTrue == Spec => []ExitCodeTellsEffect
<1>1. SwarmInv => ExitCodeTellsEffect
  <2> SUFFICES ASSUME SwarmInv, NEW p \in Starters
               PROVE  /\ \/ exit[p] = "usage"
                         \/ exit[p] = "failed" /\ (given[p] = None \/ given[p].mode = "resume")
                         => \A d \in Dirs : swarm[d] # None => swarm[d].by # p
                      /\ exit[p] = "done" => swarm[Dir(p)] # None
    BY DEF ExitCodeTellsEffect
  <2>1. SwarmOf(p) /\ \A d \in Dirs : swarm[d] # None => Origin(d)
    BY DEF SwarmInv
  <2>2. \A d \in Dirs : swarm[d] # None /\ swarm[d].by = p =>
          given[p] # None /\ given[p].mode = "create"
    BY <2>1, NoneIsNothing DEF Origin, Accepted
  <2> QED  BY <2>1, <2>2 DEF SwarmOf
<1> QED  BY <1>1, SwarmAlways, PTL

(* Whatever a create left behind is resumed by the same command in the     *)
(* same environment, if its swarm id keeps its form when it is loaded      *)
(* (from_dict strips it), and only then.                                   *)
THEOREM SameStartsResume == Spec => SameStartResumes
<1> DEFINE Resumes(p) == LET s == swarm[Dir(p)] IN
             /\ pc[p] = "resume" /\ pc'[p] # "resume" /\ exit'[p] # "killed"
             /\ s # None /\ given[s.by].project = given[p].project
             /\ given[s.by].env = given[p].env
             => (exit'[p] = "failed" <=> ~KeepsItsId(conf[p].swarm_id))
<1>1. ASSUME SwarmInv, [Next]_commandVars, NEW p \in Starters PROVE Resumes(p)
  <2> DEFINE s == swarm[Dir(p)]
             id == conf[p].swarm_id
  <2> SUFFICES ASSUME pc[p] = "resume", pc'[p] # "resume", exit'[p] # "killed", s # None,
                      given[s.by].project = given[p].project,
                      given[s.by].env = given[p].env
               PROVE  exit'[p] = "failed" <=> ~KeepsItsId(id)
    OBVIOUS
  <2>1. /\ exit[p] = None /\ None # "failed" /\ Accepted(p) /\ Dir(p) \in Dirs
        /\ IsFunctionOn(exit, Starters) /\ IsFunctionOn(pc, Starters) /\ AcceptedInv
    BY <1>1, NoneIsNothing, WrittenIsSwarm DEF SwarmInv, SwarmOf, AcceptedInv, Shapes
  <2>2. PICK q \in Starters : RuntimeStep(q)
    <3>1. ~ UNCHANGED pc
      BY <2>1
    <3>2. \A c \in Callers : ~ CallStep(c)
      BY <2>1, <3>1, CallStepKeepsRuntimes
    <3> QED  BY <1>1, <3>1, <3>2, CommandsAreOptions
             DEF Next, RuntimeStep, CallStep, commandVars
  <2>3. q = p
    <3>1. \E where : pc' = [pc EXCEPT ![q] = where]
      BY <2>2 DEF RuntimeStep, Running, Starts, CreateAllowed, StartRefused, CreateWrites,
         ResumeLoads, ResumeRaises, SmokeTest, ServeBound, ServeBindFails, StopBegins,
         StopEnds, CreateRaises, Interrupted, Killed, BuiltDaemon, GoesTo, Ends
    <3> QED  BY <2>1, <3>1 DEF IsFunctionOn
  <2>4. \/ ResumeRaises(p) /\ exit'[p] = "failed"
        \/ ResumeLoads(p) /\ exit'[p] # "failed"
    <3>1. \A code : Ends(p, code) => exit'[p] = code
      BY <2>1 DEF Ends, IsFunctionOn
    <3>2. ResumeRaises(p) \/ ResumeLoads(p)
      BY <2>2, <2>3, <3>1 DEF RuntimeStep, Running, Starts, CreateAllowed,
         StartRefused, CreateWrites, SmokeTest, ServeBound, ServeBindFails,
         StopBegins, StopEnds, CreateRaises, Interrupted, Killed
    <3> QED  BY <2>1, <3>1, <3>2 DEF ResumeRaises, ResumeLoads, BuiltDaemon, GoesTo
  <2>5. Origin(Dir(p))
    BY <1>1, <2>1 DEF SwarmInv
  <2>6. s = Metadata(s.by, conf[p], s.agents)
    <3>1. conf[s.by] = conf[p]
      BY <2>1, <2>5 DEF Origin, Accepted
    <3> QED  BY <2>5, <3>1 DEF Origin
  <2>7. /\ Loaded(s).swarm_id = Strip(id)
        /\ Loaded(s).project_path = conf[p].project_path
        /\ Loaded(s).agent_mail_project_id = MailProject(conf[p])
    <3> HIDE DEF s
    <3> QED  BY <2>6 DEF Loaded, Metadata
  <2>8. Accepts(p, s) <=> KeepsItsId(id)
    BY <2>7 DEF Accepts, Validates, Rebinds, KeepsItsId
  <2> QED  BY <2>4, <2>8 DEF ResumeRaises, ResumeLoads
<1>2. SwarmInv /\ [Next]_commandVars => [\A p \in Starters : Resumes(p)]_commandVars
  BY <1>1
<1> QED  BY <1>2, SwarmAlways, PTL DEF Spec, SameStartResumes

-----------------------------------------------------------------------------
(* What a call may conclude: an accepted shutdown has reached a runtime    *)
(* that serves or was interrupted, and whose status says so for good.      *)

Before == {"idle", "create", "resume", "write", "bind", "start"}

IsShutdown(c) == call[c].request.method = "runtime.shutdown"

CallOf(c) == LET p == call[c].server IN
    /\ call[c].pc \in {"idle", "connect"} => call[c].exit = None
    /\ call[c].pc \in {"asked", "answered"} => p \in Starters /\ call[c].exit = None
    /\ call[c].pc \in {"idle", "connect", "asked"} => ~ call[c].accepted
    /\ call[c].accepted => p \in Starters /\ status[p] \in {"ShuttingDown", "Stopped"}
    /\ call[c].pc = "answered" =>
         /\ call[c].accepted => call[c].reply = Result
         /\ call[c].reply = Result /\ IsShutdown(c) => call[c].accepted
    /\ call[c].exit = "done" /\ IsShutdown(c) => call[c].accepted
    /\ call[c].exit = "failed" /\ call[c].accepted =>
         pc[p] = "abort" \/ exit[p] \in {"failed", "killed"}

StatusOf(p) == /\ pc[p] \in Before => status[p] = "Starting"
               /\ pc[p] = "stop" => status[p] = "ShuttingDown"

CallInv == /\ SwarmInv
           /\ IsFunctionOn(status, Starters)
           /\ \A p \in Starters : StatusOf(p)
           /\ \A c \in Callers : CallOf(c)

(* No answer is taken for an accepted shutdown, or the other way round.    *)
LEMMA AcceptedIsAResult ==
    ASSUME NEW st, NEW agents, NEW frame
    PROVE  LET reply == Reply(st, agents, frame) IN
           /\ ShutsDown(frame, reply) => reply = Result
           /\ reply = Result /\ frame.method = "runtime.shutdown" =>
                ShutsDown(frame, reply) /\ st = "Running"
<1>1. \A code : Error(code) # Result
  BY DEF Error, Result
<1>2. ASSUME Reply(st, agents, frame) = Result, frame.method = "runtime.shutdown"
      PROVE  ShutsDown(frame, Reply(st, agents, frame)) /\ st = "Running"
  <2>1. WellFormed(frame) /\ Called(st, agents, frame) = Returns
    BY <1>1, <1>2 DEF Reply
  <2>2. Called(st, agents, frame) =
          IF AsInteger(frame, "timeout_seconds") # Returns
          THEN AsInteger(frame, "timeout_seconds")
          ELSE IF st = "Running" THEN Returns ELSE "RuntimeError"
    BY <1>2 DEF Called
  <2>3. st = "Running"
    BY <2>1, <2>2 DEF Returns
  <2> QED  BY <1>2, <2>1, <2>3 DEF ShutsDown, WellFormed
<1> QED  BY <1>2 DEF ShutsDown

LEMMA RuntimeStepKeepsCalls ==
    ASSUME CallInv, NEW p \in Starters, RuntimeStep(p)
    PROVE  CallInv'
<1>0. /\ SwarmInv /\ SwarmInv' /\ call' = call
      /\ IsFunctionOn(pc, Starters) /\ IsFunctionOn(exit, Starters)
      /\ IsFunctionOn(status, Starters) /\ StatusOf(p)
      /\ pc[p] # "ended" => exit[p] = None
      /\ None \notin {"done", "failed", "usage", "killed"}
  BY RuntimeStepKeepsSwarm, RuntimeStepKeepsInv, NoneIsNothing
     DEF CallInv, SwarmInv, AcceptedInv, Shapes, SwarmOf
<1> DEFINE Shut(q) == status[q] \in {"ShuttingDown", "Stopped"}
           Broken(q) == pc[q] = "abort" \/ exit[q] \in {"failed", "killed"}
           Good == /\ IsFunctionOn(status, Starters)'
                   /\ \A q \in Starters \ {p} : /\ pc'[q] = pc[q] /\ exit'[q] = exit[q]
                                                 /\ status'[q] = status[q]
                   /\ StatusOf(p)' /\ (Shut(p) => Shut(p)') /\ (Broken(p) => Broken(p)')
<1> USE DEF IsFunctionOn, StatusOf, Before
<1>1. ASSUME NEW opts \in Options, Starts(p, opts) PROVE Good
  BY <1>0, <1>1 DEF Starts, Ends, GoesTo, Options, Modes
<1>2. ASSUME CreateAllowed(p) PROVE Good
  BY <1>0, <1>2 DEF CreateAllowed, GoesTo
<1>3. ASSUME StartRefused(p) \/ ResumeRaises(p) \/ ServeBindFails(p) \/ CreateRaises(p)
      PROVE  Good
  <2>1. Ends(p, "failed") /\ UNCHANGED status
    BY <1>3 DEF StartRefused, ResumeRaises, ServeBindFails, CreateRaises
  <2> QED  BY <1>0, <2>1 DEF Ends
<1>4. ASSUME CreateWrites(p) \/ ResumeLoads(p) PROVE Good
  <2>1. /\ UNCHANGED << status, exit >> /\ pc[p] \in {"write", "resume"}
        /\ pc' = [pc EXCEPT ![p] = "bind"] \/ pc' = [pc EXCEPT ![p] = "start"]
    BY <1>4 DEF CreateWrites, ResumeLoads, BuiltDaemon, GoesTo
  <2> QED  BY <1>0, <2>1
<1>5. ASSUME SmokeTest(p) PROVE Good
  BY <1>0, <1>5 DEF SmokeTest, BecomesOf, Ends
<1>6. ASSUME ServeBound(p) PROVE Good
  BY <1>0, <1>6 DEF ServeBound, BecomesOf, GoesTo
<1>7. ASSUME StopBegins(p) PROVE Good
  BY <1>0, <1>7 DEF StopBegins, GoesTo
<1>8. ASSUME Interrupted(p) PROVE Good
  BY <1>0, <1>8 DEF Interrupted, GoesTo
<1>9. ASSUME StopEnds(p) PROVE Good
  BY <1>0, <1>9 DEF StopEnds, BecomesOf, Ends
<1>10. ASSUME Killed(p) PROVE Good
  BY <1>0, <1>10 DEF Killed, Ends, Alive
<1>11. Good
  BY <1>1, <1>2, <1>3, <1>4, <1>5, <1>6, <1>7, <1>8, <1>9, <1>10 DEF RuntimeStep, Running
<1>12. \A q \in Starters : StatusOf(q)' /\ (Shut(q) => Shut(q)') /\ (Broken(q) => Broken(q)')
  BY <1>11 DEF CallInv
<1>13. \A c \in Callers : CallOf(c)'
  <2> SUFFICES ASSUME NEW c \in Callers PROVE CallOf(c)'
    OBVIOUS
  <2>1. CallOf(c)
    BY DEF CallInv
  <2> HIDE DEF StatusOf
  <2> QED  BY <1>0, <1>12, <2>1 DEF CallOf, IsShutdown
<1> HIDE DEF StatusOf
<1> QED  BY <1>0, <1>11, <1>12, <1>13 DEF CallInv

LEMMA CallStepKeepsCalls ==
    ASSUME CallInv, NEW c \in Callers, CallStep(c)
    PROVE  CallInv'
<1>0. /\ SwarmInv /\ SwarmInv'
      /\ UNCHANGED << pc, exit >> /\ AcceptedInv
      /\ call \in [Callers -> CallRecord] /\ call' \in [Callers -> CallRecord]
      /\ \A d \in Callers \ {c} : call'[d] = call[d]
      /\ IsFunctionOn(status, Starters) /\ \A p \in Starters : StatusOf(p)
      /\ CallOf(c) /\ None \notin Starters
      /\ None \notin {"done", "failed", "usage", "killed"}
  <2>1. SwarmInv /\ AcceptedInv /\ [Next]_commandVars
    BY DEF CallInv, SwarmInv, Next, CallStep
  <2> QED  BY <2>1, StepKeepsSwarm, CallStepKeepsRuntimes, NoneIsNobody, NoneIsNothing
           DEF CallInv, AcceptedInv, Shapes
<1> DEFINE Shut(q) == status[q] \in {"ShuttingDown", "Stopped"}
           Good == /\ IsFunctionOn(status, Starters)'
                   /\ \A q \in Starters : StatusOf(q)' /\ (Shut(q) => Shut(q)')
                   /\ CallOf(c)'
<1>1. ASSUME UNCHANGED status, CallOf(c)' PROVE Good
  BY <1>0, <1>1 DEF StatusOf
<1>2. ASSUME NEW env \in Environments, CallStarts(c, env) PROVE Good
  <2>1. UNCHANGED status /\ call[c].pc = "idle"
        /\ \/ call'[c] = [call[c] EXCEPT !.pc = "connect", !.env = env]
           \/ call'[c] = [call[c] EXCEPT !.pc = "ended", !.exit = "usage"]
    BY <1>0, <1>2 DEF CallStarts, CallEnds, CallStays
  <2>2. CallOf(c)'
    BY <1>0, <2>1 DEF CallOf, CallRecord, IsShutdown
  <2> QED  BY <1>1, <2>1, <2>2
<1>3. ASSUME NEW request \in Requests, CallConnects(c, request) PROVE Good
  <2>1. Listening(c) \in Starters
    BY <1>0, <1>3 DEF CallConnects, Listening, AcceptedInv, Shapes
  <2>2. /\ UNCHANGED status /\ call[c].pc = "connect"
        /\ call'[c] = [call[c] EXCEPT !.pc = "asked", !.env = None,
                         !.request = request, !.server = Listening(c)]
    BY <1>0, <1>3 DEF CallConnects, CallStays
  <2>3. /\ call'[c].pc = "asked" /\ call'[c].server \in Starters
        /\ call'[c].exit = None /\ ~ call'[c].accepted
    BY <1>0, <2>1, <2>2 DEF CallOf, CallRecord
  <2>4. CallOf(c)'
    BY <1>0, <2>3 DEF CallOf
  <2> QED  BY <1>1, <2>2, <2>4
<1>4. ASSUME CallRefused(c) PROVE Good
  <2>1. /\ UNCHANGED status /\ call[c].pc = "connect"
        /\ call'[c] = [call[c] EXCEPT !.pc = "ended", !.env = None, !.exit = "failed"]
    BY <1>0, <1>4 DEF CallRefused, CallStays
  <2>2. CallOf(c)'
    BY <1>0, <2>1 DEF CallOf, CallRecord
  <2> QED  BY <1>1, <2>1, <2>2
<1>5. ASSUME CallReads(c) PROVE Good
  <2>1. /\ UNCHANGED status /\ call[c].pc = "answered"
        /\ call'[c] = [call[c] EXCEPT !.pc = "ended",
                         !.exit = IF call[c].reply = Result THEN "done" ELSE "failed"]
    BY <1>0, <1>5 DEF CallReads, CallEnds, CallStays
  <2>2. CallOf(c)'
    BY <1>0, <2>1 DEF CallOf, CallRecord, IsShutdown
  <2> QED  BY <1>1, <2>1, <2>2
<1>6. ASSUME CallLost(c) \/ \E p \in Starters : DropsRequest(p, c) PROVE Good
  <2>1. /\ UNCHANGED status /\ call[c].pc \in {"asked", "answered"}
        /\ call'[c] = [call[c] EXCEPT !.pc = "ended", !.exit = "failed"]
        /\ call[c].pc = "asked" \/ exit[call[c].server] = "killed"
    BY <1>0, <1>6 DEF CallLost, DropsRequest, Asks, CallEnds, CallStays
  <2>2. CallOf(c)'
    BY <1>0, <2>1 DEF CallOf, CallRecord, IsShutdown
  <2> QED  BY <1>1, <2>1, <2>2
<1>7. ASSUME NEW p \in Starters, Answers(p, c) \/ AnswersInVain(p, c) PROVE Good
  <2> DEFINE reply == Reply(status[p], holds[p].agents, call[c].request)
             b == ShutsDown(call[c].request, reply)
  <2>1. /\ Asks(c, p) /\ Effect(p, c, reply) /\ pc[p] \in {"serve", "stop", "abort"}
        /\ \/ /\ call'[c] = [call[c] EXCEPT !.pc = "answered", !.reply = reply,
                                           !.accepted = b]
           \/ /\ pc[p] \in {"stop", "abort"}
              /\ call'[c] = [call[c] EXCEPT !.pc = "ended", !.exit = "failed",
                                           !.accepted = b]
    BY <1>0, <1>7 DEF Answers, AnswersInVain
  <2>2. /\ b => reply = Result
        /\ reply = Result /\ call[c].request.method = "runtime.shutdown" => b
        /\ b => status[p] = "Running"
        /\ b \in BOOLEAN
    <3>1. b => call[c].request.method = "runtime.shutdown" /\ reply = Result
      BY DEF ShutsDown
    <3>2. b \in BOOLEAN
      BY DEF ShutsDown
    <3> QED  BY <3>1, <3>2, AcceptedIsAResult
  <2>3. status' = IF b THEN [status EXCEPT ![p] = "ShuttingDown"] ELSE status
    BY <2>1 DEF Effect, BecomesOf
  <2> HIDE DEF reply, b
  <2>4. /\ IsFunctionOn(status, Starters)' /\ (b => status'[p] = "ShuttingDown")
        /\ \A q \in Starters : StatusOf(q)' /\ (Shut(q) => Shut(q)')
    BY <1>0, <2>1, <2>3 DEF IsFunctionOn, StatusOf, Before
  <2>5. pc[p] = "stop" => ~b
    BY <1>0, <2>2 DEF StatusOf
  <2>6. call[c].pc = "asked" /\ call[c].server = p /\ call[c].exit = None
    BY <1>0, <2>1 DEF Asks, CallOf
  <2>7. CASE /\ call'[c] = [call[c] EXCEPT !.pc = "answered", !.reply = reply,
                                          !.accepted = b]
    <3>1. /\ call'[c].pc = "answered" /\ call'[c].reply = reply
          /\ call'[c].accepted = b /\ call'[c].server = p /\ call'[c].exit = None
          /\ call'[c].request = call[c].request
      BY <1>0, <2>6, <2>7 DEF CallRecord
    <3>2. CallOf(c)'
      BY <1>0, <2>2, <2>4, <3>1 DEF CallOf, IsShutdown
    <3> QED  BY <2>4, <3>2
  <2>8. CASE /\ pc[p] \in {"stop", "abort"}
             /\ call'[c] = [call[c] EXCEPT !.pc = "ended", !.exit = "failed",
                                          !.accepted = b]
    <3>1. /\ call'[c].pc = "ended" /\ call'[c].accepted = b
          /\ call'[c].server = p /\ call'[c].exit = "failed"
      BY <1>0, <2>6, <2>8 DEF CallRecord
    <3>2. CallOf(c)'
      BY <1>0, <2>2, <2>4, <2>5, <2>8, <3>1 DEF CallOf
    <3> QED  BY <2>4, <3>2
  <2> QED  BY <2>1, <2>7, <2>8
<1>8. Good
  BY <1>2, <1>3, <1>4, <1>5, <1>6, <1>7 DEF CallStep, Calling
<1>9. \A d \in Callers : CallOf(d)'
  <2> SUFFICES ASSUME NEW d \in Callers, d # c PROVE CallOf(d)'
    BY <1>8
  <2>1. CallOf(d) /\ call'[d] = call[d]
    BY <1>0 DEF CallInv
  <2> QED  BY <1>0, <1>8, <2>1 DEF CallOf, IsShutdown
<1> QED  BY <1>0, <1>8, <1>9 DEF CallInv

LEMMA CallAlways == Spec => []CallInv
<1>1. Init => CallInv
  <2> SUFFICES ASSUME Init PROVE CallInv
    OBVIOUS
  <2>1. SwarmInv
    <3>1. AcceptedInv
      BY InitAccepted
    <3> QED  BY <3>1, NoneIsNothing DEF Init, SwarmInv, IsFunctionOn, SwarmOf, Built
  <2>2. \A c \in Callers : CallOf(c)
    BY NoneIsNothing DEF Init, NoCall, CallOf
  <2>3. IsFunctionOn(status, Starters) /\ \A p \in Starters : StatusOf(p)
    BY DEF Init, IsFunctionOn, StatusOf, Before
  <2> QED  BY <2>1, <2>2, <2>3 DEF CallInv
<1>2. CallInv /\ [Next]_commandVars => CallInv'
  <2> SUFFICES ASSUME CallInv, [Next]_commandVars PROVE CallInv'
    OBVIOUS
  <2>1. CASE \E p \in Starters : RuntimeStep(p)
    BY <2>1, RuntimeStepKeepsCalls
  <2>2. CASE \E c \in Callers : CallStep(c)
    BY <2>2, CallStepKeepsCalls
  <2>3. CASE UNCHANGED commandVars
    <3>1. SwarmInv'
      BY StepKeepsSwarm DEF CallInv
    <3> QED  BY <2>3, <3>1 DEF commandVars, CallInv, IsFunctionOn, StatusOf, CallOf,
                               IsShutdown
  <2> QED  BY <2>1, <2>2, <2>3, CommandsAreOptions DEF Next, RuntimeStep, CallStep
<1> QED  BY <1>1, <1>2, PTL DEF Spec

(* The exit code of `api call` can be trusted, however the answer races    *)
(* with an interruption, a second shutdown or a kill.                      *)
THEOREM CallExitsAreTrue == Spec => []CallExitTellsEffect
<1>1. CallInv => CallExitTellsEffect
  BY DEF CallInv, CallOf, IsShutdown, CallExitTellsEffect
<1> QED  BY <1>1, CallAlways, PTL

-----------------------------------------------------------------------------
(* Every daemon of every command keeps the promises of RuntimeLifecycle.   *)

(* The calls whose shutdown process p has accepted.                        *)
AcceptedBy(p) == {c \in Callers : call[c].server = p /\ call[c].accepted}

Lifecycle(p) == INSTANCE RuntimeLifecycle
                  WITH status <- status[p], accepted <- Cardinality(AcceptedBy(p))

DaemonsKeepLifecycle ==
    /\ \A p \in Starters : Lifecycle(p)!Init
    /\ [][\A p \in Starters :
            [Lifecycle(p)!Next]_(Lifecycle(p)!lifecycleVars)]_commandVars

(* One runtime accepts the shutdown of one call, however many ask for it.  *)
OneShutdownEach == \A p \in Starters : \A c, d \in AcceptedBy(p) : c = d

(* What a step may do to the status of p and to those it has accepted.     *)
LifecycleStep(p) ==
    \/ UNCHANGED << status[p], AcceptedBy(p) >>
    \/ /\ status[p] = "Starting" /\ status'[p] = "Running"
       /\ UNCHANGED AcceptedBy(p)
    \/ status'[p] = "Stopped" /\ UNCHANGED AcceptedBy(p)
    \/ /\ status[p] = "Running" /\ status'[p] = "ShuttingDown"
       /\ \E c \in Callers : AcceptedBy(p)' = AcceptedBy(p) \cup {c}

LEMMA RuntimeStepIsOfLifecycle ==
    ASSUME CallInv, NEW p \in Starters, RuntimeStep(p)
    PROVE  \A q \in Starters : LifecycleStep(q)
<1>0. /\ call' = call /\ IsFunctionOn(status, Starters) /\ StatusOf(p)
  BY RuntimeStepKeepsInv DEF CallInv, SwarmInv
<1>1. \A q \in Starters : UNCHANGED AcceptedBy(q)
  BY <1>0 DEF AcceptedBy
<1>2. \/ UNCHANGED status
      \/ status[p] = "Starting" /\ BecomesOf(p, "Running")
      \/ BecomesOf(p, "Stopped")
  <2>1. CASE ServeBound(p)
    BY <1>0, <2>1 DEF ServeBound, StatusOf, Before
  <2>2. CASE SmokeTest(p) \/ StopEnds(p)
    BY <2>2 DEF SmokeTest, StopEnds
  <2>3. CASE ~ServeBound(p) /\ ~SmokeTest(p) /\ ~StopEnds(p)
    BY <2>3 DEF RuntimeStep, Running, Starts, CreateAllowed, StartRefused, CreateWrites,
       CreateRaises, ResumeLoads, ResumeRaises, ServeBindFails, StopBegins, Interrupted,
       Killed
  <2> QED  BY <2>1, <2>2, <2>3
<1> QED  BY <1>0, <1>1, <1>2 DEF LifecycleStep, BecomesOf, IsFunctionOn

LEMMA CallStepIsOfLifecycle ==
    ASSUME CallInv, NEW c \in Callers, CallStep(c)
    PROVE  \A q \in Starters : LifecycleStep(q)
<1>0. /\ call \in [Callers -> CallRecord] /\ CallOf(c)
      /\ \A d \in Callers \ {c} : call'[d] = call[d]
      /\ IsFunctionOn(status, Starters)
  BY CallStepKeepsRuntimes DEF CallInv, SwarmInv, AcceptedInv, Shapes
<1>1. ASSUME UNCHANGED status, call'[c].accepted = call[c].accepted,
             call[c].accepted => call'[c].server = call[c].server
      PROVE  \A q \in Starters : LifecycleStep(q)
  <2>1. \A q \in Starters : UNCHANGED AcceptedBy(q)
    <3>1. \A d \in Callers : /\ call'[d].accepted = call[d].accepted
                             /\ call[d].accepted => call'[d].server = call[d].server
      BY <1>0, <1>1
    <3> QED  BY <3>1 DEF AcceptedBy
  <2> QED  BY <1>1, <2>1 DEF LifecycleStep
<1>2. ASSUME NEW env \in Environments, CallStarts(c, env)
      PROVE  \A q \in Starters : LifecycleStep(q)
  BY <1>0, <1>1, <1>2 DEF CallStarts, CallEnds, CallStays, CallRecord
<1>3. ASSUME NEW request \in Requests, CallConnects(c, request)
      PROVE  \A q \in Starters : LifecycleStep(q)
  <2>1. ~call[c].accepted
    BY <1>0, <1>3 DEF CallConnects, CallOf
  <2>2. /\ UNCHANGED status
        /\ call'[c] = [call[c] EXCEPT !.pc = "asked", !.env = None,
                         !.request = request, !.server = Listening(c)]
    BY <1>0, <1>3 DEF CallConnects, CallStays
  <2>3. call'[c].accepted = call[c].accepted
    BY <1>0, <2>2 DEF CallRecord
  <2> QED  BY <1>1, <2>1, <2>2, <2>3
<1>4. ASSUME CallRefused(c) \/ CallReads(c) \/ CallLost(c)
             \/ \E p \in Starters : DropsRequest(p, c)
      PROVE  \A q \in Starters : LifecycleStep(q)
  <2>1. /\ UNCHANGED status
        /\ \E code \in {"done", "failed"} :
            \/ call'[c] = [call[c] EXCEPT !.pc = "ended", !.exit = code]
            \/ call'[c] = [call[c] EXCEPT !.pc = "ended", !.env = None, !.exit = code]
    BY <1>0, <1>4 DEF CallRefused, CallReads, CallLost, DropsRequest, CallEnds, CallStays
  <2>2. call'[c].accepted = call[c].accepted /\ call'[c].server = call[c].server
    BY <1>0, <2>1 DEF CallRecord
  <2> QED  BY <1>1, <2>1, <2>2
<1>5. ASSUME NEW p \in Starters, Answers(p, c) \/ AnswersInVain(p, c)
      PROVE  \A q \in Starters : LifecycleStep(q)
  <2> DEFINE reply == Reply(status[p], holds[p].agents, call[c].request)
             b == ShutsDown(call[c].request, reply)
  <2>1. /\ Asks(c, p)
        /\ status' = IF b THEN [status EXCEPT ![p] = "ShuttingDown"] ELSE status
        /\ \/ call'[c] = [call[c] EXCEPT !.pc = "answered", !.reply = reply,
                                        !.accepted = b]
           \/ call'[c] = [call[c] EXCEPT !.pc = "ended", !.exit = "failed",
                                        !.accepted = b]
    BY <1>0, <1>5 DEF Answers, AnswersInVain, Effect, BecomesOf
  <2>2. (b => status[p] = "Running") /\ b \in BOOLEAN
    BY AcceptedIsAResult DEF ShutsDown
  <2> HIDE DEF reply, b
  <2>3. /\ call[c].server = p /\ ~call[c].accepted
        /\ call'[c].server = p /\ call'[c].accepted = b
    BY <1>0, <2>1 DEF Asks, CallOf, CallRecord
  <2>4. CASE ~b
    <3>1. call[c].accepted = FALSE
      BY <1>0, <2>3 DEF CallRecord
    <3> QED  BY <1>1, <2>1, <2>2, <2>3, <2>4, <3>1
  <2>5. CASE b
    <3>1. \A q \in Starters \ {p} : status'[q] = status[q] /\ UNCHANGED AcceptedBy(q)
      BY <1>0, <2>1, <2>3, <2>5 DEF IsFunctionOn, AcceptedBy
    <3>2. status'[p] = "ShuttingDown"
      BY <1>0, <2>1, <2>5 DEF IsFunctionOn
    <3>3. AcceptedBy(p)' = AcceptedBy(p) \cup {c}
      <4>1. call'[c].server = p /\ call'[c].accepted
        BY <2>3, <2>5
      <4> QED  BY <1>0, <4>1 DEF AcceptedBy
    <3> QED  BY <2>2, <2>5, <3>1, <3>2, <3>3 DEF LifecycleStep
  <2> QED  BY <2>2, <2>4, <2>5
<1> QED  BY <1>2, <1>3, <1>4, <1>5 DEF CallStep, Calling

LEMMA StepIsOfLifecycle ==
    ASSUME CallInv, [Next]_commandVars, NEW p \in Starters
    PROVE  /\ LifecycleStep(p)
           /\ status[p] = "Running" => AcceptedBy(p) = {}
<1>1. ASSUME UNCHANGED commandVars PROVE LifecycleStep(p)
  BY <1>1 DEF commandVars, LifecycleStep, AcceptedBy
<1>2. LifecycleStep(p)
  BY <1>1, RuntimeStepIsOfLifecycle, CallStepIsOfLifecycle, CommandsAreOptions
     DEF Next, RuntimeStep, CallStep
<1>3. status[p] = "Running" => AcceptedBy(p) = {}
  BY DEF CallInv, CallOf, AcceptedBy
<1> QED  BY <1>2, <1>3

(* What RuntimeDaemon proves of one daemon, RuntimeCommand keeps of each   *)
(* of its own, of which it follows only the status: it starts at most      *)
(* once, accepts at most one shutdown, never leaves Stopped, and leaves    *)
(* Running by a shutdown or an interruption only.                          *)
THEOREM CommandsKeepLifecycle == Spec => DaemonsKeepLifecycle
<1>1. Init => \A p \in Starters : Lifecycle(p)!Init
  <2> SUFFICES ASSUME Init, NEW p \in Starters PROVE Lifecycle(p)!Init
    OBVIOUS
  <2>1. AcceptedBy(p) = {} /\ status[p] = "Starting"
    BY DEF Init, NoCall, AcceptedBy
  <2> QED  BY <2>1, FS_EmptySet DEF Lifecycle!Init
<1>2. ASSUME CallInv, [Next]_commandVars, NEW p \in Starters
      PROVE  [Lifecycle(p)!Next]_(Lifecycle(p)!lifecycleVars)
  <2> USE DEF Lifecycle!Next, Lifecycle!lifecycleVars
  <2>0. /\ LifecycleStep(p)
        /\ status[p] = "Running" => AcceptedBy(p) = {}
    BY <1>2, StepIsOfLifecycle
  <2>1. CASE UNCHANGED << status[p], AcceptedBy(p) >>
    BY <2>1
  <2>2. CASE /\ status[p] = "Starting" /\ status'[p] = "Running"
             /\ UNCHANGED AcceptedBy(p)
    BY <2>2 DEF Lifecycle!BecomeRunning
  <2>3. CASE status'[p] = "Stopped" /\ UNCHANGED AcceptedBy(p)
    BY <2>3 DEF Lifecycle!Stop
  <2>4. CASE /\ status[p] = "Running" /\ status'[p] = "ShuttingDown"
             /\ \E c \in Callers : AcceptedBy(p)' = AcceptedBy(p) \cup {c}
    <3>1. PICK c \in Callers : AcceptedBy(p)' = {c} /\ AcceptedBy(p) = {}
      BY <2>0, <2>4
    <3>2. Cardinality(AcceptedBy(p)) = 0 /\ Cardinality(AcceptedBy(p)') = 1
      BY <3>1, FS_EmptySet, FS_Singleton
    <3>3. Cardinality(AcceptedBy(p))' = Cardinality(AcceptedBy(p)')
      OBVIOUS
    <3> QED  BY <2>4, <3>2, <3>3 DEF Lifecycle!AcceptShutdown
  <2> QED  BY <2>0, <2>1, <2>2, <2>3, <2>4 DEF LifecycleStep
<1>3. CallInv /\ [Next]_commandVars =>
        [\A p \in Starters : [Lifecycle(p)!Next]_(Lifecycle(p)!lifecycleVars)]_commandVars
  BY <1>2
<1> QED  BY <1>1, <1>3, CallAlways, PTL DEF Spec, DaemonsKeepLifecycle

(* However many calls, from whichever environments, ask one runtime to     *)
(* shut down, one of them at most is told that it has been accepted, also  *)
(* while the server is closing.                                            *)
THEOREM OneCallShutsDown == Spec => []OneShutdownEach
<1>1. Init => OneShutdownEach
  BY DEF Init, NoCall, OneShutdownEach, AcceptedBy
<1>2. CallInv /\ OneShutdownEach /\ [Next]_commandVars => OneShutdownEach'
  <2> SUFFICES ASSUME CallInv, OneShutdownEach, [Next]_commandVars, NEW p \in Starters
               PROVE  \A c, d \in AcceptedBy(p)' : c = d
    BY DEF OneShutdownEach
  <2>1. /\ LifecycleStep(p)
        /\ status[p] = "Running" => AcceptedBy(p) = {}
    BY StepIsOfLifecycle
  <2> QED  BY <2>1 DEF LifecycleStep, OneShutdownEach
<1> QED  BY <1>1, <1>2, CallAlways, PTL DEF Spec

-----------------------------------------------------------------------------
(* Types *)

Codes == {"done", "failed", "usage", "killed"}

TypeOf(p) ==
    /\ pc[p] \in Before \cup Built \cup {"ended"}
    /\ given[p] \in Options \cup {None} /\ conf[p] \in Configs \cup {None}
    /\ status[p] \in {"Starting", "Running", "ShuttingDown", "Stopped"}
    /\ exit[p] \in Codes \cup {None}
    /\ pc[p] = "ended" <=> exit[p] # None
    /\ \A a \in Addresses : listener[a] = p => pc[p] = "serve"

ReplyOf(c) ==
    /\ call[c].pc \in {"idle", "connect", "asked"} => call[c].reply = None
    /\ call[c].pc = "answered" => call[c].reply # None
    /\ call[c].pc = "ended" => call[c].exit # None

TypeInv == /\ \A p \in Starters : TypeOf(p)
           /\ \A c \in Callers : ReplyOf(c)

(* A step of a process keeps its own types and listens for nobody else.    *)
LEMMA RuntimeStepKeepsTypes ==
    ASSUME CallInv, TypeInv, NEW p \in Starters, RuntimeStep(p)
    PROVE  TypeInv'
<1>0. /\ IsFunctionOn(pc, Starters) /\ IsFunctionOn(exit, Starters)
      /\ IsFunctionOn(given, Starters) /\ IsFunctionOn(conf, Starters)
      /\ IsFunctionOn(status, Starters)
      /\ listener \in [Addresses -> Starters \cup {None}]
      /\ TypeOf(p) /\ call' = call /\ None \notin Codes
      /\ pc[p] \notin {"idle", "ended"} => Address(conf[p]) \in Addresses
  BY RuntimeStepKeepsInv, AcceptedIsOnTheMap, NoneIsNothing
     DEF CallInv, SwarmInv, AcceptedInv, Shapes, TypeInv, Codes
<1> DEFINE Heard(q) == \A a \in Addresses : listener[a] = q => pc[q] = "serve"
           Good == /\ \A q \in Starters \ {p} :
                        /\ pc'[q] = pc[q] /\ exit'[q] = exit[q] /\ status'[q] = status[q]
                        /\ given'[q] = given[q] /\ conf'[q] = conf[q]
                        /\ \A a \in Addresses : listener'[a] = q => listener[a] = q
                   /\ TypeOf(p)'
<1> USE DEF IsFunctionOn
<1>1. ASSUME NEW opts \in Options, Starts(p, opts) PROVE Good
  <2> DEFINE c == ConfigOf(opts.project, opts.env)
  <2>1. c # Invalid => c \in Configs
    BY DEF Configs, Options
  <2>2. /\ pc[p] = "idle" /\ UNCHANGED << status, listener >>
        /\ \/ /\ Ends(p, "failed") \/ Ends(p, "usage")
              /\ UNCHANGED << given, conf >>
           \/ /\ c \in Configs /\ GoesTo(p, opts.mode)
              /\ given' = [given EXCEPT ![p] = opts]
              /\ conf' = [conf EXCEPT ![p] = c]
    BY <1>1, <2>1 DEF Starts
  <2>3. opts.mode \in {"create", "resume"}
    BY DEF Options, Modes
  <2> HIDE DEF c
  <2>4. \A a \in Addresses : listener'[a] # p
    BY <1>0, <2>2 DEF TypeOf
  <2> QED  BY <1>0, <2>2, <2>3, <2>4 DEF TypeOf, Ends, GoesTo, Codes, Before
<1>2. ASSUME CreateAllowed(p) PROVE Good
  BY <1>0, <1>2 DEF CreateAllowed, GoesTo, TypeOf, Before
<1>3. ASSUME StartRefused(p) \/ ResumeRaises(p) \/ ServeBindFails(p) \/ CreateRaises(p)
      PROVE  Good
  <2>1. /\ Ends(p, "failed") /\ UNCHANGED << given, conf, status, listener >>
        /\ pc[p] # "serve"
    BY <1>3 DEF StartRefused, ResumeRaises, ServeBindFails, CreateRaises
  <2> QED  BY <1>0, <2>1 DEF Ends, TypeOf, Codes
<1>4. ASSUME CreateWrites(p) \/ ResumeLoads(p) PROVE Good
  <2>1. /\ UNCHANGED << given, conf, status, exit, listener >>
        /\ pc[p] \in {"write", "resume"}
        /\ pc' = [pc EXCEPT ![p] = "bind"] \/ pc' = [pc EXCEPT ![p] = "start"]
    BY <1>4 DEF CreateWrites, ResumeLoads, BuiltDaemon, GoesTo
  <2> QED  BY <1>0, <2>1 DEF TypeOf, Before
<1>5. ASSUME SmokeTest(p) PROVE Good
  BY <1>0, <1>5 DEF SmokeTest, BecomesOf, Ends, TypeOf, Codes
<1>6. ASSUME ServeBound(p) PROVE Good
  <2> DEFINE here == Address(conf[p])
  <2>1. /\ here \in Addresses /\ listener' = [listener EXCEPT ![here] = p]
        /\ status' = [status EXCEPT ![p] = "Running"] /\ pc' = [pc EXCEPT ![p] = "serve"]
        /\ UNCHANGED << given, conf, exit >> /\ pc[p] = "bind"
    BY <1>0, <1>6 DEF ServeBound, BecomesOf, GoesTo
  <2> HIDE DEF here
  <2> QED  BY <1>0, <2>1 DEF TypeOf, Built
<1>7. ASSUME StopBegins(p) \/ Interrupted(p) PROVE Good
  <2>1. /\ listener' = Unbound(p) /\ pc[p] = "serve"
        /\ pc' = [pc EXCEPT ![p] = "stop"] \/ pc' = [pc EXCEPT ![p] = "abort"]
        /\ UNCHANGED << given, conf, status, exit >>
    BY <1>7 DEF StopBegins, Interrupted, GoesTo
  <2>2. \A a \in Addresses : listener'[a] \in {listener[a], None} /\ listener'[a] # p
    BY <2>1, NoneIsNobody DEF Unbound
  <2> QED  BY <1>0, <2>1, <2>2, NoneIsNobody DEF TypeOf, Built
<1>8. ASSUME StopEnds(p) PROVE Good
  <2>1. /\ pc[p] \in {"stop", "abort"} /\ UNCHANGED << given, conf, listener >>
        /\ status' = [status EXCEPT ![p] = "Stopped"]
        /\ Ends(p, "done") \/ Ends(p, "failed")
    BY <1>8 DEF StopEnds, BecomesOf
  <2> QED  BY <1>0, <2>1 DEF Ends, TypeOf, Codes
<1>9. ASSUME Killed(p) PROVE Good
  <2>1. /\ listener' = Unbound(p) /\ Ends(p, "killed")
        /\ UNCHANGED << given, conf, status >>
    BY <1>9 DEF Killed
  <2>2. \A a \in Addresses : listener'[a] \in {listener[a], None} /\ listener'[a] # p
    BY <2>1, NoneIsNobody DEF Unbound
  <2> QED  BY <1>0, <2>1, <2>2, NoneIsNobody DEF Ends, TypeOf, Codes
<1>10. Good
  BY <1>1, <1>2, <1>3, <1>4, <1>5, <1>6, <1>7, <1>8, <1>9 DEF RuntimeStep, Running
<1>11. \A q \in Starters : TypeOf(q)'
  BY <1>10 DEF TypeInv, TypeOf
<1> QED  BY <1>0, <1>11 DEF TypeInv, ReplyOf

LEMMA CallStepKeepsTypes ==
    ASSUME CallInv, TypeInv, NEW c \in Callers, CallStep(c)
    PROVE  TypeInv'
<1>0. /\ AcceptedInv /\ UNCHANGED << pc, given, conf, exit, listener >>
      /\ call \in [Callers -> CallRecord] /\ call' \in [Callers -> CallRecord]
      /\ \A d \in Callers \ {c} : call'[d] = call[d]
      /\ ReplyOf(c) /\ IsFunctionOn(status, Starters)
      /\ None \notin Codes /\ None \notin Replies
  BY CallStepKeepsRuntimes, NoneIsNothing DEF CallInv, SwarmInv, AcceptedInv, Shapes,
     TypeInv, Codes
<1>1. \A p \in Starters : status'[p] \in {status[p], "ShuttingDown"}
  <2>1. UNCHANGED status \/ \E p \in Starters : BecomesOf(p, "ShuttingDown")
    BY DEF CallStep, Calling, CallStarts, CallConnects, CallRefused, CallReads, CallLost,
       Answers, AnswersInVain, DropsRequest, CallStays, Effect
  <2> QED  BY <1>0, <2>1 DEF BecomesOf, IsFunctionOn
<1>2. ReplyOf(c)'
  <2>1. ASSUME call'[c].pc = "connect", call[c].pc = "idle", call'[c].reply = call[c].reply
        PROVE  ReplyOf(c)'
    BY <1>0, <2>1 DEF ReplyOf
  <2>2. ASSUME call'[c].pc = "ended", call'[c].exit \in Codes PROVE ReplyOf(c)'
    BY <1>0, <2>2 DEF ReplyOf
  <2>3. ASSUME NEW env \in Environments, CallStarts(c, env) PROVE ReplyOf(c)'
    <3>1. \/ /\ call[c].pc = "idle"
             /\ call'[c] = [call[c] EXCEPT !.pc = "connect", !.env = env]
          \/ call'[c] = [call[c] EXCEPT !.pc = "ended", !.exit = "usage"]
      BY <1>0, <2>3 DEF CallStarts, CallEnds
    <3> QED  BY <1>0, <2>1, <2>2, <3>1 DEF CallRecord, Codes
  <2>4. ASSUME NEW request \in Requests, CallConnects(c, request) PROVE ReplyOf(c)'
    <3>1. /\ call[c].pc = "connect" /\ call'[c].pc = "asked"
          /\ call'[c].reply = call[c].reply
      BY <1>0, <2>4 DEF CallConnects, CallRecord
    <3> QED  BY <1>0, <3>1 DEF ReplyOf
  <2>5. ASSUME CallRefused(c) \/ CallReads(c) \/ CallLost(c)
               \/ \E p \in Starters : DropsRequest(p, c)
        PROVE  ReplyOf(c)'
    <3>1. \E code \in {"done", "failed"} :
            \/ call'[c] = [call[c] EXCEPT !.pc = "ended", !.exit = code]
            \/ call'[c] = [call[c] EXCEPT !.pc = "ended", !.env = None, !.exit = code]
      BY <1>0, <2>5 DEF CallRefused, CallReads, CallLost, DropsRequest, CallEnds
    <3> QED  BY <1>0, <2>2, <3>1 DEF CallRecord, Codes
  <2>6. ASSUME NEW p \in Starters, Answers(p, c) \/ AnswersInVain(p, c) PROVE ReplyOf(c)'
    <3> DEFINE reply == Reply(status[p], holds[p].agents, call[c].request)
               b == ShutsDown(call[c].request, reply)
    <3>1. \/ call'[c] = [call[c] EXCEPT !.pc = "answered", !.reply = reply,
                                       !.accepted = b]
          \/ call'[c] = [call[c] EXCEPT !.pc = "ended", !.exit = "failed",
                                       !.accepted = b]
      BY <1>0, <2>6 DEF Answers, AnswersInVain
    <3>0. reply # None
      BY <1>0, ReplyIsReply
    <3> HIDE DEF reply, b
    <3>2. \/ call'[c].pc = "answered" /\ call'[c].reply = reply
          \/ call'[c].pc = "ended" /\ call'[c].exit = "failed"
      BY <1>0, <3>1 DEF CallRecord
    <3> QED  BY <1>0, <3>0, <3>2 DEF ReplyOf, Codes
  <2> QED  BY <2>3, <2>4, <2>5, <2>6 DEF CallStep, Calling
<1>3. \A d \in Callers : ReplyOf(d)'
  BY <1>0, <1>2 DEF TypeInv, ReplyOf
<1>4. \A p \in Starters : TypeOf(p)'
  BY <1>0, <1>1 DEF TypeInv, TypeOf
<1> QED  BY <1>3, <1>4 DEF TypeInv

LEMMA TypesAlways == Spec => []TypeInv
<1>1. Init => TypeInv
  <2> SUFFICES ASSUME Init PROVE TypeInv
    OBVIOUS
  <2>1. \A p \in Starters : TypeOf(p)
    BY NoneIsNobody DEF Init, TypeOf, Before
  <2> QED  BY <2>1 DEF Init, TypeInv, ReplyOf, NoCall
<1>2. CallInv /\ TypeInv /\ [Next]_commandVars => TypeInv'
  <2> SUFFICES ASSUME CallInv, TypeInv, [Next]_commandVars PROVE TypeInv'
    OBVIOUS
  <2>1. CASE UNCHANGED commandVars
    BY <2>1 DEF commandVars, TypeInv, TypeOf, ReplyOf
  <2> QED  BY <2>1, RuntimeStepKeepsTypes, CallStepKeepsTypes, CommandsAreOptions
           DEF Next, RuntimeStep, CallStep
<1> QED  BY <1>1, <1>2, CallAlways, PTL DEF Spec

(* Every state of the commands is well typed; a process listens exactly    *)
(* while it serves, and has an exit code exactly when it has ended.        *)
THEOREM CommandTypeCorrect == Spec => []CommandTypeOK
<1>1. CallInv /\ TypeInv => CommandTypeOK
  <2> SUFFICES ASSUME CallInv, TypeInv PROVE CommandTypeOK
    OBVIOUS
  <2>0. /\ AcceptedInv /\ Shapes /\ IsFunctionOn(status, Starters)
        /\ IsFunctionOn(exit, Starters) /\ IsFunctionOn(swarm, Dirs)
        /\ \A p \in Starters : TypeOf(p)
        /\ \A c \in Callers : ReplyOf(c) /\ CallOf(c)
    BY DEF CallInv, SwarmInv, AcceptedInv, TypeInv
  <2>1. pc \in [Starters -> {"idle", "create", "resume", "write", "start", "bind",
                             "serve", "stop", "abort", "ended"}]
    BY <2>0 DEF Shapes, IsFunctionOn, TypeOf, Before, Built
  <2>2. /\ given \in [Starters -> Options \cup {None}]
        /\ conf \in [Starters -> Configs \cup {None}]
    BY <2>0 DEF Shapes, IsFunctionOn, TypeOf
  <2>3. /\ status \in [Starters -> {"Starting", "Running", "ShuttingDown", "Stopped"}]
        /\ exit \in [Starters -> {None, "done", "failed", "usage", "killed"}]
    BY <2>0 DEF IsFunctionOn, TypeOf, Codes
  <2>4. DOMAIN swarm = Dirs /\ DOMAIN listener = Addresses
    BY <2>0 DEF Shapes, IsFunctionOn
  <2>5. \A p \in Starters :
          /\ pc[p] = "ended" <=> exit[p] # None
          /\ (\E a \in Addresses : listener[a] = p) <=> pc[p] = "serve"
    BY <2>0, AcceptedIsOnTheMap DEF AcceptedInv, TypeOf
  <2>6. \A c \in Callers :
          /\ call[c].pc \in {"idle", "connect", "asked", "answered", "ended"}
          /\ call[c].pc = "answered" <=> call[c].reply # None /\ call[c].exit = None
    BY <2>0 DEF Shapes, CallRecord, ReplyOf, CallOf
  <2> QED  BY <2>1, <2>2, <2>3, <2>4, <2>5, <2>6 DEF CommandTypeOK
<1> QED  BY <1>1, CallAlways, TypesAlways, PTL

-----------------------------------------------------------------------------
(* Nobody is stranded *)

(* A call that waits for its answer waits for a process that serves or is  *)
(* stopping, or that has been killed; a runtime whose shutdown has been    *)
(* accepted is on its way to the end, or there.                            *)
CallHeld(c) == LET p == call[c].server IN
    /\ call[c].pc = "asked" => pc[p] \in {"serve", "stop", "abort"} \/ exit[p] = "killed"
    /\ call[c].accepted => \/ pc[p] = "serve" /\ status[p] = "ShuttingDown"
                           \/ pc[p] \in {"stop", "abort", "ended"}

NobodyStranded == \A c \in Callers : CallHeld(c)

ServesAlive(p) == pc[p] = "serve" => status[p] \in {"Running", "ShuttingDown"}

HeldInv == /\ NobodyStranded
           /\ \A p \in Starters : ServesAlive(p)

LEMMA RuntimeStepStrandsNobody ==
    ASSUME CallInv, HeldInv, NEW p \in Starters, RuntimeStep(p)
    PROVE  HeldInv'
<1>0. /\ IsFunctionOn(pc, Starters) /\ IsFunctionOn(exit, Starters)
      /\ IsFunctionOn(status, Starters) /\ call' = call
      /\ pc[p] # "ended" => exit[p] = None
      /\ None # "killed"
  BY RuntimeStepKeepsInv, NoneIsNothing
     DEF CallInv, SwarmInv, AcceptedInv, Shapes, SwarmOf
<1> DEFINE Waits(q) == pc[q] \in {"serve", "stop", "abort"} \/ exit[q] = "killed"
           Ending(q) == \/ pc[q] = "serve" /\ status[q] = "ShuttingDown"
                        \/ pc[q] \in {"stop", "abort", "ended"}
           Good == /\ \A q \in Starters \ {p} : /\ pc'[q] = pc[q] /\ exit'[q] = exit[q]
                                                 /\ status'[q] = status[q]
                   /\ Waits(p) => Waits(p)' \/ \A c \in Callers : ~Asks(c, p)
                   /\ Ending(p) => Ending(p)'
                   /\ ServesAlive(p)'
<1>1. ASSUME NEW opts \in Options, Starts(p, opts) PROVE Good
  BY <1>0, <1>1 DEF Starts, Ends, GoesTo, Options, Modes, ServesAlive, IsFunctionOn
<1>2. ASSUME CreateAllowed(p) PROVE Good
  BY <1>0, <1>2 DEF CreateAllowed, GoesTo, ServesAlive, IsFunctionOn
<1>3. ASSUME StartRefused(p) \/ ResumeRaises(p) \/ ServeBindFails(p) \/ CreateRaises(p)
      PROVE  Good
  <2>1. /\ Ends(p, "failed") /\ UNCHANGED status
        /\ pc[p] \in {"create", "resume", "bind", "write"}
    BY <1>3 DEF StartRefused, ResumeRaises, ServeBindFails, CreateRaises
  <2> QED  BY <1>0, <2>1 DEF Ends, ServesAlive, IsFunctionOn
<1>4. ASSUME CreateWrites(p) \/ ResumeLoads(p) PROVE Good
  <2>1. /\ UNCHANGED << status, exit >> /\ pc[p] \in {"write", "resume"}
        /\ pc' = [pc EXCEPT ![p] = "bind"] \/ pc' = [pc EXCEPT ![p] = "start"]
    BY <1>4 DEF CreateWrites, ResumeLoads, BuiltDaemon, GoesTo
  <2> QED  BY <1>0, <2>1 DEF ServesAlive, IsFunctionOn
<1>5. ASSUME SmokeTest(p) PROVE Good
  BY <1>0, <1>5 DEF SmokeTest, BecomesOf, Ends, ServesAlive, IsFunctionOn
<1>6. ASSUME ServeBound(p) PROVE Good
  BY <1>0, <1>6 DEF ServeBound, BecomesOf, GoesTo, ServesAlive, IsFunctionOn
<1>7. ASSUME StopBegins(p) \/ Interrupted(p) PROVE Good
  <2>1. /\ pc[p] = "serve" /\ UNCHANGED << status, exit >>
        /\ pc' = [pc EXCEPT ![p] = "stop"] \/ pc' = [pc EXCEPT ![p] = "abort"]
    BY <1>7 DEF StopBegins, Interrupted, GoesTo
  <2> QED  BY <1>0, <2>1 DEF ServesAlive, IsFunctionOn
<1>8. ASSUME StopEnds(p) PROVE Good
  <2>1. /\ pc[p] \in {"stop", "abort"} /\ \A c \in Callers : ~Asks(c, p)
        /\ status' = [status EXCEPT ![p] = "Stopped"]
        /\ Ends(p, "done") \/ Ends(p, "failed")
    BY <1>8 DEF StopEnds, BecomesOf
  <2> QED  BY <1>0, <2>1 DEF Ends, ServesAlive, IsFunctionOn
<1>9. ASSUME Killed(p) PROVE Good
  <2>1. Ends(p, "killed") /\ UNCHANGED status
    BY <1>9 DEF Killed
  <2> QED  BY <1>0, <2>1 DEF Ends, ServesAlive, IsFunctionOn
<1>10. Good
  BY <1>1, <1>2, <1>3, <1>4, <1>5, <1>6, <1>7, <1>8, <1>9 DEF RuntimeStep, Running
<1>11. ASSUME NEW c \in Callers PROVE CallHeld(c)'
  <2>1. CallHeld(c) /\ CallOf(c)
    BY DEF HeldInv, NobodyStranded, CallInv
  <2>2. CASE call[c].server = p
    BY <1>0, <1>10, <2>1, <2>2 DEF CallHeld, Asks
  <2>3. CASE call[c].server # p
    <3>1. call[c].pc = "asked" \/ call[c].accepted => call[c].server \in Starters \ {p}
      BY <2>1, <2>3 DEF CallOf
    <3> QED  BY <1>0, <1>10, <2>1, <3>1 DEF CallHeld
  <2> QED  BY <2>2, <2>3
<1>12. \A q \in Starters : ServesAlive(q)'
  BY <1>10 DEF HeldInv, ServesAlive
<1> QED  BY <1>11, <1>12 DEF HeldInv, NobodyStranded

LEMMA CallStepStrandsNobody ==
    ASSUME CallInv, TypeInv, HeldInv, NEW c \in Callers, CallStep(c)
    PROVE  HeldInv'
<1>0. /\ UNCHANGED << pc, exit >>
      /\ call \in [Callers -> CallRecord] /\ CallOf(c) /\ CallHeld(c)
      /\ \A d \in Callers \ {c} : call'[d] = call[d]
      /\ IsFunctionOn(status, Starters)
      /\ listener \in [Addresses -> Starters \cup {None}]
  BY CallStepKeepsRuntimes
     DEF CallInv, SwarmInv, AcceptedInv, Shapes, HeldInv, NobodyStranded
<1>1. \A p \in Starters : /\ status'[p] \in {status[p], "ShuttingDown"}
                          /\ status[p] = "ShuttingDown" => status'[p] = "ShuttingDown"
  <2>1. UNCHANGED status \/ \E p \in Starters : BecomesOf(p, "ShuttingDown")
    BY DEF CallStep, Calling, CallStarts, CallConnects, CallRefused, CallReads, CallLost,
       Answers, AnswersInVain, DropsRequest, CallStays, Effect
  <2> QED  BY <1>0, <2>1 DEF BecomesOf, IsFunctionOn
<1>2. ASSUME call'[c].pc # "asked", call'[c].accepted = call[c].accepted,
             call'[c].server = call[c].server
      PROVE  CallHeld(c)'
  <2>1. call[c].accepted => call[c].server \in Starters
    BY <1>0 DEF CallOf
  <2> QED  BY <1>0, <1>1, <1>2, <2>1 DEF CallHeld
<1>3. CallHeld(c)'
  <2>1. ASSUME NEW env \in Environments, CallStarts(c, env) PROVE CallHeld(c)'
    <3>1. \/ call'[c] = [call[c] EXCEPT !.pc = "connect", !.env = env]
          \/ call'[c] = [call[c] EXCEPT !.pc = "ended", !.exit = "usage"]
      BY <1>0, <2>1 DEF CallStarts, CallEnds
    <3>2. /\ call'[c].pc # "asked" /\ call'[c].accepted = call[c].accepted
          /\ call'[c].server = call[c].server
      BY <1>0, <3>1 DEF CallRecord
    <3> QED  BY <1>2, <3>2
  <2>2. ASSUME NEW request \in Requests, CallConnects(c, request) PROVE CallHeld(c)'
    <3>1. /\ call[c].pc = "connect" /\ Listening(c) # None
          /\ call'[c] = [call[c] EXCEPT !.pc = "asked", !.env = None,
                           !.request = request, !.server = Listening(c)]
      BY <1>0, <2>2 DEF CallConnects
    <3>2. call'[c].server = Listening(c) /\ ~call'[c].accepted
      BY <1>0, <3>1 DEF CallOf, CallRecord
    <3>3. PICK a \in Addresses : Listening(c) = listener[a]
      BY <3>1 DEF Listening
    <3>4. Listening(c) \in Starters
      BY <1>0, <3>1, <3>3
    <3>5. pc[Listening(c)] = "serve"
      BY <3>3, <3>4 DEF TypeInv, TypeOf
    <3> QED  BY <1>0, <3>2, <3>5 DEF CallHeld
  <2>3. ASSUME CallRefused(c) \/ CallReads(c) \/ CallLost(c)
               \/ \E p \in Starters : DropsRequest(p, c)
        PROVE  CallHeld(c)'
    <3>1. \E code \in {"done", "failed"} :
            \/ call'[c] = [call[c] EXCEPT !.pc = "ended", !.exit = code]
            \/ call'[c] = [call[c] EXCEPT !.pc = "ended", !.env = None, !.exit = code]
      BY <1>0, <2>3 DEF CallRefused, CallReads, CallLost, DropsRequest, CallEnds
    <3>2. /\ call'[c].pc # "asked" /\ call'[c].accepted = call[c].accepted
          /\ call'[c].server = call[c].server
      BY <1>0, <3>1 DEF CallRecord
    <3> QED  BY <1>2, <3>2
  <2>4. ASSUME NEW p \in Starters, Answers(p, c) \/ AnswersInVain(p, c) PROVE CallHeld(c)'
    <3> DEFINE reply == Reply(status[p], holds[p].agents, call[c].request)
               b == ShutsDown(call[c].request, reply)
    <3>1. /\ Asks(c, p) /\ pc[p] \in {"serve", "stop", "abort"}
          /\ b => status' = [status EXCEPT ![p] = "ShuttingDown"]
          /\ \/ call'[c] = [call[c] EXCEPT !.pc = "answered", !.reply = reply,
                                          !.accepted = b]
             \/ call'[c] = [call[c] EXCEPT !.pc = "ended", !.exit = "failed",
                                          !.accepted = b]
      BY <1>0, <2>4 DEF Answers, AnswersInVain, Effect, BecomesOf
    <3> HIDE DEF reply, b
    <3>2. /\ call'[c].pc # "asked" /\ call'[c].server = p
          /\ call'[c].accepted = b
      BY <1>0, <3>1 DEF Asks, CallRecord
    <3>3. b => status'[p] = "ShuttingDown"
      BY <1>0, <3>1 DEF IsFunctionOn
    <3> QED  BY <1>0, <3>1, <3>2, <3>3 DEF CallHeld
  <2> QED  BY <2>1, <2>2, <2>3, <2>4 DEF CallStep, Calling
<1>4. ASSUME NEW d \in Callers PROVE CallHeld(d)'
  <2>1. CallHeld(d) /\ (call[d].accepted => call[d].server \in Starters)
    BY DEF HeldInv, NobodyStranded, CallInv, CallOf
  <2> QED  BY <1>0, <1>1, <1>3, <2>1 DEF CallHeld
<1>5. \A p \in Starters : ServesAlive(p)'
  BY <1>0, <1>1 DEF HeldInv, ServesAlive
<1> QED  BY <1>4, <1>5 DEF HeldInv, NobodyStranded

(* No call is left with a process that has ended in another way than by a  *)
(* kill (the server waits for its handlers, and the client of a killed one *)
(* loses its connection), and no accepted shutdown with a process that     *)
(* does not see it.                                                        *)
THEOREM NobodyIsStranded == Spec => []NobodyStranded
<1>1. Init => HeldInv
  BY DEF Init, NoCall, HeldInv, NobodyStranded, CallHeld, ServesAlive
<1>2. CallInv /\ TypeInv /\ HeldInv /\ [Next]_commandVars => HeldInv'
  <2> SUFFICES ASSUME CallInv, TypeInv, HeldInv, [Next]_commandVars PROVE HeldInv'
    OBVIOUS
  <2>1. CASE UNCHANGED commandVars
    BY <2>1 DEF commandVars, HeldInv, NobodyStranded, CallHeld, ServesAlive
  <2> QED  BY <2>1, RuntimeStepStrandsNobody, CallStepStrandsNobody, CommandsAreOptions
           DEF Next, RuntimeStep, CallStep
<1>3. HeldInv => NobodyStranded
  BY DEF HeldInv
<1> QED  BY <1>1, <1>2, <1>3, CallAlways, TypesAlways, PTL DEF Spec
-----------------------------------------------------------------------------
(* Internal errors *)

(* The parameters that a method turns into a number.                       *)
Numbers == {"timeout_seconds", "max_events"}

Infinite(request) ==
    \E name \in Numbers : Given(request, name) /\ request.params[name] = "infinite"

(* What JSON can give for a number is one of the three that AsInteger      *)
(* tells apart.                                                            *)
NumbersAreSorted(request) ==
    \A name \in Numbers :
        Given(request, name) => request.params[name] \in {"integral", "other", "infinite"}

(* Of all that dispatch_request can meet, only int() of an infinite number *)
(* escapes its except clauses for invalid parameters, unknown agents and   *)
(* conflicts, and is answered as an internal error.                        *)
LEMMA InternalErrorIsInfinite ==
    ASSUME NEW st, NEW agents, NEW frame, NumbersAreSorted(frame),
           Reply(st, agents, frame) = Error(1200)
    PROVE  Infinite(frame)
<1> DEFINE outcome == Called(st, agents, frame)
           Known == {"invalid", "ValueError", "KeyError", "RuntimeError"}
<1>1. \A a, b : Error(a) = Error(b) => a = b
  <2> SUFFICES ASSUME NEW a, NEW b, Error(a) = Error(b) PROVE a = b
    OBVIOUS
  <2> QED  BY Error(a).code = a, Error(b).code = b DEF Error
<1>2. Error(1200) # Result
  BY DEF Error, Result
<1>3. outcome # Returns /\ CodeOf(outcome) = 1200
  <2>1. WellFormed(frame) /\ outcome # Returns
    BY <1>1, <1>2 DEF Reply
  <2>2. Error(CodeOf(outcome)) = Error(1200)
    BY <2>1 DEF Reply
  <2> QED  BY <1>1, <2>1, <2>2
<1>4. outcome \notin Known
  BY <1>3 DEF CodeOf
<1>5. ASSUME NEW name \in Numbers
      PROVE  \/ AsInteger(frame, name) \in {Returns, "ValueError"}
             \/ Given(frame, name) /\ frame.params[name] = "infinite"
  BY <1>5 DEF AsInteger, NumbersAreSorted
<1>6. \/ outcome \in Known \cup {Returns}
      \/ \E name \in Numbers : outcome = AsInteger(frame, name)
  BY DEF Called, Numbers
<1>7. PICK name \in Numbers : outcome = AsInteger(frame, name)
  BY <1>3, <1>4, <1>6
<1> QED  BY <1>3, <1>4, <1>5, <1>7 DEF Infinite

OnlyInfinityIsInternal ==
    \A c \in Callers : call[c].reply = Error(1200) => Infinite(call[c].request)

ReplyExplained(c) ==
    /\ call[c].pc = "asked" => call[c].request \in Requests
    /\ call[c].reply = Error(1200) => Infinite(call[c].request)

(* runtime-api.md keeps the codes from 1200 for integrations: an `api call` *)
(* is answered 1200 only for an infinite number, whatever the state of the *)
(* runtime and however the call races with its end.                        *)
THEOREM InternalErrorsAreInfinite ==
    ASSUME \A request \in Requests : NumbersAreSorted(request)
    PROVE  Spec => []OnlyInfinityIsInternal
<1> DEFINE Explained == \A c \in Callers : ReplyExplained(c)
<1>0. None # Error(1200)
  BY NoneIsNothing DEF Replies
<1>1. Init => Explained
  BY <1>0 DEF Init, NoCall, ReplyExplained
<1>2. ASSUME CallInv, TypeInv, Explained, NEW c \in Callers, CallStep(c)
      PROVE  ReplyExplained(c)' /\ \A d \in Callers \ {c} : call'[d] = call[d]
  <2>0. /\ call \in [Callers -> CallRecord] /\ ReplyExplained(c) /\ ReplyOf(c)
        /\ \A d \in Callers \ {c} : call'[d] = call[d]
    BY <1>2, CallStepKeepsRuntimes DEF CallInv, SwarmInv, AcceptedInv, Shapes, TypeInv
  <2>1. ASSUME call'[c].pc # "asked", call'[c].reply = call[c].reply,
               call'[c].request = call[c].request
        PROVE  ReplyExplained(c)'
    BY <2>0, <2>1 DEF ReplyExplained
  <2>2. ASSUME NEW env \in Environments, CallStarts(c, env) PROVE ReplyExplained(c)'
    <3>1. \/ call'[c] = [call[c] EXCEPT !.pc = "connect", !.env = env]
          \/ call'[c] = [call[c] EXCEPT !.pc = "ended", !.exit = "usage"]
      BY <2>0, <2>2 DEF CallStarts, CallEnds
    <3> QED  BY <2>0, <2>1, <3>1 DEF CallRecord
  <2>3. ASSUME NEW request \in Requests, CallConnects(c, request) PROVE ReplyExplained(c)'
    <3>1. call'[c].request = request /\ call'[c].reply = None
      BY <2>0, <2>3 DEF CallConnects, ReplyOf, CallRecord
    <3> QED  BY <1>0, <3>1 DEF ReplyExplained
  <2>4. ASSUME CallRefused(c) \/ CallReads(c) \/ CallLost(c)
               \/ \E p \in Starters : DropsRequest(p, c) \/ AnswersInVain(p, c)
        PROVE  ReplyExplained(c)'
    <3>1. /\ call'[c].pc # "asked" /\ call'[c].reply = call[c].reply
          /\ call'[c].request = call[c].request
      BY <2>0, <2>4 DEF CallRefused, CallReads, CallLost, DropsRequest, AnswersInVain,
         CallEnds, CallRecord
    <3> QED  BY <2>1, <3>1
  <2>5. ASSUME NEW p \in Starters, Answers(p, c) PROVE ReplyExplained(c)'
    <3> DEFINE reply == Reply(status[p], holds[p].agents, call[c].request)
    <3>1. /\ call'[c].pc = "answered" /\ call'[c].reply = reply
          /\ call'[c].request = call[c].request
      BY <2>0, <2>5 DEF Answers, CallRecord
    <3>2. call[c].request \in Requests
      BY <2>0, <2>5 DEF Answers, Asks, ReplyExplained
    <3>3. reply = Error(1200) => Infinite(call[c].request)
      BY <3>2, InternalErrorIsInfinite
    <3> HIDE DEF reply
    <3> QED  BY <3>1, <3>3 DEF ReplyExplained
  <2> QED  BY <1>2, <2>0, <2>2, <2>3, <2>4, <2>5 DEF CallStep, Calling
<1>3. CallInv /\ TypeInv /\ Explained /\ [Next]_commandVars => Explained'
  <2> SUFFICES ASSUME CallInv, TypeInv, Explained, [Next]_commandVars PROVE Explained'
    OBVIOUS
  <2>1. CASE UNCHANGED call
    BY <2>1 DEF ReplyExplained
  <2>2. ASSUME NEW c \in Callers, CallStep(c) PROVE Explained'
    BY <1>2, <2>2 DEF ReplyExplained
  <2>3. \A p \in Starters : RuntimeStep(p) => UNCHANGED call
    BY RuntimeStepKeepsInv DEF CallInv, SwarmInv
  <2> QED  BY <2>1, <2>2, <2>3, CommandsAreOptions
           DEF Next, RuntimeStep, CallStep, commandVars
<1>4. Explained => OnlyInfinityIsInternal
  BY DEF ReplyExplained, OnlyInfinityIsInternal
<1> QED  BY <1>1, <1>3, <1>4, CallAlways, TypesAlways, PTL DEF Spec
=============================================================================
