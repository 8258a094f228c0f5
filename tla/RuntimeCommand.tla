--------------------------- MODULE RuntimeCommand ---------------------------
(***************************************************************************)
(* Runs of the command line (cli.py) on one machine: `runtime start` with  *)
(* what it calls of daemon.py and runner.py, and `api call` with the       *)
(* client of api/client.py.  They meet in the metadata directories and at  *)
(* the addresses of control APIs.  RuntimeConfig says what each makes of   *)
(* its environment, JsonRpcDispatch what is answered.                      *)
(*                                                                         *)
(* Of a daemon only the status is followed; RuntimeDaemon has the rest.  A *)
(* swarm.json is read and replaced whole, as AtomicStore has it; the files *)
(* of agents are left to MetadataStore.                                    *)
(***************************************************************************)
EXTENDS RuntimeConfig, JsonRpcDispatch

CONSTANTS Starters,     \* runs of `runtime start`
          Callers,      \* runs of `api call`
          Projects,     \* directories given as --project
          Environments, \* the environments commands are run in
          Commands,     \* the ways in which `runtime start` is called
          Requests,     \* what is asked
          Agents,       \* the agents of a swarm created with --agents
          None          \* nothing, nobody

(* The paths of projects have no ".." left in them.                        *)
ASSUME ProjectsExist ==
    /\ Projects \subseteq Directories /\ Unset \notin Projects
    /\ \A d \in Projects : Resolve(d) = d

ASSUME NoneIsNobody == None \notin Starters

VARIABLES pc,           \* where each `runtime start` is
          given,        \* its options and environment, once accepted
          conf,         \* its RuntimeConfig
          status,       \* its RuntimeState.status
          holds,        \* the SwarmMetadata of its daemon
          exit,         \* how it ended: its exit code 0 ("done"), 1 ("failed")
                        \* or 2 ("usage"), or "killed"
          swarm,        \* swarm.json in each metadata directory
          listener,     \* who listens at each address
          call          \* each `api call`

commandVars == << pc, given, conf, status, holds, exit, swarm, listener, call >>

Modes == {"create", "resume"}

(* --project, --mode, --agents, --with-control-api, and the environment.   *)
Options == [project : Projects, mode : Modes, agents : {None, 0, 1},
            control_api : BOOLEAN, env : Environments]

ASSUME CommandsAreOptions == Commands \subseteq Options

ConfigOf(project, env) == LoadRuntimeConfig(project, env, project)

Configs == {ConfigOf(p, e) : p \in Projects, e \in Environments} \ {Invalid}
Dirs      == {c.metadata_dir : c \in Configs}
Addresses == {Address(c) : c \in Configs}

Alive(p) == pc[p] \notin {"idle", "ended"}

Ends(p, code) ==
    /\ pc' = [pc EXCEPT ![p] = "ended"]
    /\ exit' = [exit EXCEPT ![p] = code]

GoesTo(p, where) == pc' = [pc EXCEPT ![p] = where] /\ UNCHANGED exit

BecomesOf(p, st) == status' = [status EXCEPT ![p] = st]

-----------------------------------------------------------------------------
(* runtime start: options *)

(* --agents is refused with resume, and when it is not positive.           *)
BadAgents(opts) == opts.agents # None /\ (opts.mode = "resume" \/ opts.agents = 0)

(* FakeAgentMailClient.ensure_project: named after the configured id as it *)
(* is.                                                                     *)
MailProject(c) == << c.swarm_id, c.project_path >>

(* The SwarmMetadata that create builds from its configuration; `by`       *)
(* stands for its timestamps.                                              *)
Metadata(p, c, agents) == [swarm_id |-> c.swarm_id, project_path |-> c.project_path,
                           agent_mail_project_id |-> MailProject(c),
                           agents |-> agents, by |-> p]

(* Nothing is not one of the things there can be.                          *)
ASSUME NoneIsNothing ==
    /\ None \notin Options /\ None \notin Replies /\ None \notin {"done", "failed", "usage", "killed"}
    /\ \A p \in Starters, c \in Configs, agents \in {{}, Agents} :
         None # Metadata(p, c, agents)

StartsLate(p, opts) ==                  \* bug: --agents is tested too late
    LET c == ConfigOf(opts.project, opts.env) IN
    /\ pc[p] = "idle"
    /\ \/ c = Invalid /\ Ends(p, "failed") /\ UNCHANGED << given, conf, swarm >>
       \/ /\ c # Invalid /\ BadAgents(opts)
          /\ Ends(p, "usage")
          /\ swarm' = [swarm EXCEPT ![c.metadata_dir] = Metadata(p, c, {})]
          /\ UNCHANGED << given, conf >>
       \/ /\ c # Invalid /\ ~BadAgents(opts)
          /\ given' = [given EXCEPT ![p] = opts]
          /\ conf' = [conf EXCEPT ![p] = c]
          /\ GoesTo(p, opts.mode)
          /\ UNCHANGED swarm
    /\ UNCHANGED << status, listener, call, holds >>

(* The configuration comes first: an unusable one is an exception, a bad   *)
(* --agents is a usage error.                                              *)
Starts(p, opts) ==
    LET c == ConfigOf(opts.project, opts.env) IN
    /\ pc[p] = "idle"
    /\ \/ c = Invalid /\ Ends(p, "failed") /\ UNCHANGED << given, conf >>
       \/ /\ c # Invalid /\ BadAgents(opts)
          /\ Ends(p, "usage")
          /\ UNCHANGED << given, conf >>
       \/ /\ c # Invalid /\ ~BadAgents(opts)
          /\ given' = [given EXCEPT ![p] = opts]
          /\ conf' = [conf EXCEPT ![p] = c]
          /\ GoesTo(p, opts.mode)
    /\ UNCHANGED << status, swarm, listener, call, holds >>

-----------------------------------------------------------------------------
(* runtime start: the metadata directory *)

Dir(p) == conf[p].metadata_dir

(* Where a built daemon goes: it serves, or is started and stopped.        *)
BuiltDaemon(p) == GoesTo(p, IF given[p].control_api THEN "bind" ELSE "start")

(* create: no swarm.json is there, so it will write one.                   *)
CreateAllowed(p) ==
    /\ pc[p] = "create" /\ swarm[Dir(p)] = None
    /\ GoesTo(p, "write")
    /\ UNCHANGED << given, conf, status, swarm, listener, call, holds >>

(* MetadataAlreadyExistsError or MetadataMissingError: exit code 1.        *)
StartRefused(p) ==
    /\ \/ pc[p] = "create" /\ swarm[Dir(p)] # None
       \/ pc[p] = "resume" /\ swarm[Dir(p)] = None
    /\ Ends(p, "failed")
    /\ UNCHANGED << given, conf, status, swarm, listener, call, holds >>

AgentsOf(opts) == IF opts.agents = None THEN {} ELSE Agents

WrittenDefaultId(p) ==                  \* bug: the configured id is not saved
    Metadata(p, [conf[p] EXCEPT !.swarm_id = DefaultSwarmId], AgentsOf(given[p]))

Written(p) == Metadata(p, conf[p], AgentsOf(given[p]))

CreateWrites(p) ==
    /\ pc[p] = "write"
    /\ swarm' = [swarm EXCEPT ![Dir(p)] = Written(p)]
    /\ holds' = [holds EXCEPT ![p] = Written(p)]
    /\ BuiltDaemon(p)
    /\ UNCHANGED << given, conf, status, listener, call >>

(* A write raises, before or after swarm.json was replaced.                *)
CreateRaises(p) ==
    /\ pc[p] = "write"
    /\ swarm' \in {swarm, [swarm EXCEPT ![Dir(p)] = Written(p)]}
    /\ Ends(p, "failed")
    /\ UNCHANGED << given, conf, status, listener, call, holds >>

(* SwarmMetadata.validate, as load_swarm_metadata calls it.                *)
Validates(p, s) ==
    s.swarm_id = conf[p].swarm_id /\ s.project_path = conf[p].project_path

(* SwarmMetadata.from_dict: the id loses the blanks around it, which the   *)
(* configuration and create leave alone, and must not be empty then.       *)
Loaded(s) == [s EXCEPT !.swarm_id = Strip(s.swarm_id)]

RebindsAnything(p, s) == TRUE           \* bug: takes the project that is there

(* resume: the mail adapter of this configuration names the same project.  *)
(* (Identities of agents depend on the agent only.)                        *)
Rebinds(p, s) == s.agent_mail_project_id = MailProject(conf[p])

Accepts(p, s) ==
    Loaded(s).swarm_id # Blank /\ Validates(p, Loaded(s)) /\ Rebinds(p, Loaded(s))

ResumeLoads(p) ==
    /\ pc[p] = "resume" /\ swarm[Dir(p)] # None /\ Accepts(p, swarm[Dir(p)])
    /\ holds' = [holds EXCEPT ![p] = Loaded(swarm[Dir(p)])]
    /\ BuiltDaemon(p)
    /\ UNCHANGED << given, conf, status, swarm, listener, call >>

ResumeRaises(p) ==
    /\ pc[p] = "resume" /\ swarm[Dir(p)] # None /\ ~Accepts(p, swarm[Dir(p)])
    /\ Ends(p, "failed")
    /\ UNCHANGED << given, conf, status, swarm, listener, call, holds >>

-----------------------------------------------------------------------------
(* runtime start without --with-control-api *)

(* The daemon is started, asked to shut down and marked stopped; nobody    *)
(* can look in between.                                                    *)
SmokeTest(p) ==
    /\ pc[p] = "start"
    /\ BecomesOf(p, "Stopped")
    /\ Ends(p, "done")
    /\ UNCHANGED << given, conf, swarm, listener, call, holds >>

-----------------------------------------------------------------------------
(* runtime start --with-control-api *)

(* The port is bound and the daemon starts.                                *)
ServeBound(p) ==
    /\ pc[p] = "bind" /\ listener[Address(conf[p])] = None
    /\ listener' = [listener EXCEPT ![Address(conf[p])] = p]
    /\ BecomesOf(p, "Running")
    /\ GoesTo(p, "serve")
    /\ UNCHANGED << given, conf, swarm, call, holds >>

(* The port is in use, or the host is not one of this machine: an          *)
(* exception that nothing catches.                                         *)
ServeBindFails(p) ==
    /\ pc[p] = "bind"
    /\ Ends(p, "failed")
    /\ UNCHANGED << given, conf, status, swarm, listener, call, holds >>

Unbound(p) == [a \in Addresses |-> IF listener[a] = p THEN None ELSE listener[a]]

StopKeepsSocket(p) ==                   \* bug: stop() leaves the socket open
    /\ pc[p] = "serve" /\ status[p] = "ShuttingDown"
    /\ GoesTo(p, "stop")
    /\ UNCHANGED << given, conf, status, swarm, listener, call, holds >>

(* The poll loop sees the flag; stop() closes the listening socket.        *)
StopBegins(p) ==
    /\ pc[p] = "serve" /\ status[p] = "ShuttingDown"
    /\ listener' = Unbound(p)
    /\ GoesTo(p, "stop")
    /\ UNCHANGED << given, conf, status, swarm, call, holds >>

(* Control-C while it serves: asyncio.run cancels the coroutine, whose     *)
(* finally block stops the server.                                         *)
Interrupted(p) ==
    /\ pc[p] = "serve"
    /\ listener' = Unbound(p)
    /\ GoesTo(p, "abort")
    /\ UNCHANGED << given, conf, status, swarm, call, holds >>

StopLeavesRequests(p) ==                \* bug: does not wait for the handlers
    /\ pc[p] \in {"stop", "abort"}
    /\ BecomesOf(p, "Stopped")
    /\ Ends(p, IF pc[p] = "stop" THEN "done" ELSE "failed")
    /\ UNCHANGED << given, conf, swarm, listener, call, holds >>

Asks(c, p) == call[c].pc = "asked" /\ call[c].server = p

(* Every handler has ended: the daemon is marked stopped and the process   *)
(* ends.                                                                   *)
StopEnds(p) ==
    /\ pc[p] \in {"stop", "abort"} /\ \A c \in Callers : ~Asks(c, p)
    /\ BecomesOf(p, "Stopped")
    /\ Ends(p, IF pc[p] = "stop" THEN "done" ELSE "failed")
    /\ UNCHANGED << given, conf, swarm, listener, call, holds >>

(* External: the process is killed; the system closes its sockets.         *)
Killed(p) ==
    /\ Alive(p)
    /\ listener' = Unbound(p)
    /\ Ends(p, "killed")
    /\ UNCHANGED << given, conf, status, swarm, call, holds >>

-----------------------------------------------------------------------------
(* api call *)

NoCall == [pc |-> "idle", env |-> None, request |-> None, server |-> None,
           reply |-> None, accepted |-> FALSE, exit |-> None]

CallStays == UNCHANGED << pc, given, conf, status, holds, exit, swarm, listener >>

CallEnds(c, code) == call' = [call EXCEPT ![c].pc = "ended", ![c].exit = code]

(* The address comes from the environment; text that is no port, or a bad  *)
(* --param, is a usage error.                                              *)
CallStarts(c, env) ==
    /\ call[c].pc = "idle"
    /\ \/ /\ ClientAddress(env) # Invalid
          /\ call' = [call EXCEPT ![c].pc = "connect", ![c].env = env]
       \/ CallEnds(c, "usage")
    /\ CallStays

Listening(c) ==
    LET a == ClientAddress(call[c].env)
    IN  IF IsUri(a) /\ a \in Addresses THEN listener[a] ELSE None

(* The connection opens and the request is sent.                           *)
CallConnects(c, request) ==
    /\ call[c].pc = "connect" /\ Listening(c) # None
    /\ call' = [call EXCEPT ![c].pc = "asked", ![c].env = None,
                  ![c].request = request, ![c].server = Listening(c)]
    /\ CallStays

(* Nobody listens, or the address makes no URI: connect raises, exit code  *)
(* 1.                                                                      *)
CallRefused(c) ==
    /\ call[c].pc = "connect" /\ Listening(c) = None
    /\ call' = [call EXCEPT ![c].pc = "ended", ![c].env = None, ![c].exit = "failed"]
    /\ CallStays

(* What the handlers do to the runtime besides the answer.                 *)
Effect(p, c, reply) ==
    IF ShutsDown(call[c].request, reply)
    THEN BecomesOf(p, "ShuttingDown") ELSE UNCHANGED status

(* The handler reads the request, dispatches it and sends the answer.      *)
Answers(p, c) ==
    LET reply == Reply(status[p], holds[p].agents, call[c].request)
    IN  /\ Asks(c, p) /\ pc[p] = "serve"
        /\ Effect(p, c, reply)
        /\ call' = [call EXCEPT ![c].pc = "answered", ![c].reply = reply,
                      ![c].accepted = ShutsDown(call[c].request, reply)]
        /\ UNCHANGED << pc, given, conf, exit, swarm, listener, holds >>

(* The same on a connection that the server has begun to close: send       *)
(* raises, and the client finds its connection closed.                     *)
AnswersInVain(p, c) ==
    LET reply == Reply(status[p], holds[p].agents, call[c].request)
    IN  /\ Asks(c, p) /\ pc[p] \in {"stop", "abort"}
        /\ Effect(p, c, reply)
        /\ call' = [call EXCEPT ![c].pc = "ended", ![c].exit = "failed",
                      ![c].accepted = ShutsDown(call[c].request, reply)]
        /\ UNCHANGED << pc, given, conf, exit, swarm, listener, holds >>

(* Or the connection closes before the handler has read the request.       *)
DropsRequest(p, c) ==
    /\ Asks(c, p) /\ pc[p] \in {"stop", "abort"}
    /\ CallEnds(c, "failed")
    /\ CallStays

CallReadsAnything(c) ==                 \* bug: an error envelope exits with 0
    /\ call[c].pc = "answered"
    /\ CallEnds(c, "done")
    /\ CallStays

(* The answer is read: an error envelope is exit code 1.                   *)
CallReads(c) ==
    /\ call[c].pc = "answered"
    /\ CallEnds(c, IF call[c].reply = Result THEN "done" ELSE "failed")
    /\ CallStays

(* External: the connection is lost with the process of the server, before *)
(* the answer arrives.                                                     *)
CallLost(c) ==
    /\ call[c].pc \in {"asked", "answered"} /\ exit[call[c].server] = "killed"
    /\ CallEnds(c, "failed")
    /\ CallStays

-----------------------------------------------------------------------------
Init ==
    /\ pc = [p \in Starters |-> "idle"]
    /\ given = [p \in Starters |-> None]
    /\ conf = [p \in Starters |-> None]
    /\ status = [p \in Starters |-> "Starting"]
    /\ holds = [p \in Starters |-> None]
    /\ exit = [p \in Starters |-> None]
    /\ swarm = [d \in Dirs |-> None]
    /\ listener = [a \in Addresses |-> None]
    /\ call = [c \in Callers |-> NoCall]

Running(p) ==
    \/ CreateAllowed(p) \/ StartRefused(p) \/ CreateWrites(p)
    \/ ResumeLoads(p) \/ ResumeRaises(p)
    \/ SmokeTest(p)
    \/ ServeBound(p) \/ ServeBindFails(p) \/ StopBegins(p) \/ StopEnds(p)

Calling(c) ==
    \/ \E request \in Requests : CallConnects(c, request)
    \/ CallRefused(c) \/ CallReads(c) \/ CallLost(c)
    \/ \E p \in Starters : Answers(p, c) \/ AnswersInVain(p, c) \/ DropsRequest(p, c)

Next ==
    \/ \E p \in Starters :
         \/ \E opts \in Commands : Starts(p, opts)
         \/ Running(p) \/ CreateRaises(p) \/ Interrupted(p) \/ Killed(p)
    \/ \E c \in Callers :
         \/ \E env \in Environments : CallStarts(c, env)
         \/ Calling(c)

(* A process that can go on does; nobody has to start, interrupt or kill   *)
(* one.                                                                    *)
Fairness == /\ \A p \in Starters : WF_commandVars(Running(p))
            /\ \A c \in Callers : WF_commandVars(Calling(c))

Spec == Init /\ [][Next]_commandVars /\ Fairness
-----------------------------------------------------------------------------
(* Properties *)

CommandTypeOK ==
    /\ pc \in [Starters -> {"idle", "create", "resume", "write", "start", "bind",
                             "serve", "stop", "abort", "ended"}]
    /\ given \in [Starters -> Options \cup {None}]
    /\ conf \in [Starters -> Configs \cup {None}]
    /\ status \in [Starters -> {"Starting", "Running", "ShuttingDown", "Stopped"}]
    /\ exit \in [Starters -> {None, "done", "failed", "usage", "killed"}]
    /\ DOMAIN swarm = Dirs /\ DOMAIN listener = Addresses
    /\ \A p \in Starters :
         /\ pc[p] = "ended" <=> exit[p] # None
         /\ (\E a \in Addresses : listener[a] = p) <=> pc[p] = "serve"
    /\ \A c \in Callers :
         /\ call[c].pc \in {"idle", "connect", "asked", "answered", "ended"}
         /\ call[c].pc = "answered" <=> call[c].reply # None /\ call[c].exit = None

(* Commands run in the same environment find each other: while a runtime   *)
(* serves, a call made in the environment in which it was started never    *)
(* finds nobody, nor another runtime - unless the host is an IPv6 literal: *)
(* the runtime binds and serves it, and every such call fails.             *)
CallFindsItsRuntime ==
    [][\A c \in Callers, p \in Starters :
         call[c].pc = "connect" /\ call'[c].pc # "connect"
         /\ pc[p] = "serve" /\ given[p].env = call[c].env
         => IF ControlHost(given[p].env) \in IPv6Hosts
            THEN call'[c].exit = "failed" ELSE call'[c].server = p]_commandVars

(* No daemon ever works on the swarm of another project or another id, or  *)
(* in another mail project than its metadata names, also when projects     *)
(* share a metadata directory and their creates race.  (An id that lost the*)
(* blanks around it when it was loaded may equal the configured one; the   *)
(* mail project still tells them apart.)                                   *)
NoForeignSwarm ==
    \A p \in Starters : holds[p] # None =>
        /\ holds[p].project_path = given[p].project
        /\ holds[p].swarm_id = conf[p].swarm_id
        /\ holds[p].agent_mail_project_id = MailProject(conf[p])

(* A start that was refused, or called wrongly, has written nothing, and   *)
(* one that ended well leaves a swarm in its directory.                    *)
ExitCodeTellsEffect ==
    \A p \in Starters :
        /\ \/ exit[p] = "usage"
           \/ exit[p] = "failed" /\ (given[p] = None \/ given[p].mode = "resume")
           => \A d \in Dirs : swarm[d] # None => swarm[d].by # p
        /\ exit[p] = "done" => swarm[Dir(p)] # None

(* What create has put on the disk, even if it failed afterwards (the port *)
(* was in use, a write raised, it was killed), can be resumed with the     *)
(* same project and environment if, and only if, the swarm id has no blanks*)
(* around it: an id that has is created and cannot be resumed.             *)
KeepsItsId(id) == Strip(id) = id /\ id # Blank
SameStartResumes ==
    [][\A p \in Starters :
         LET s == swarm[Dir(p)] IN
         /\ pc[p] = "resume" /\ pc'[p] # "resume" /\ exit'[p] # "killed"
         /\ s # None /\ given[s.by].project = given[p].project
         /\ given[s.by].env = given[p].env
         => (exit'[p] = "failed" <=> ~KeepsItsId(conf[p].swarm_id))]_commandVars

(* The exit code of `api call` can be trusted: 0 means that the request    *)
(* was carried out, and a shutdown reported as failed has happened only if *)
(* its runtime was interrupted or killed meanwhile.                        *)
CallExitTellsEffect ==
    \A c \in Callers : LET p == call[c].server IN
        /\ call[c].exit = "done" /\ call[c].request.method = "runtime.shutdown" =>
             status[p] \in {"ShuttingDown", "Stopped"}
        /\ call[c].exit = "failed" /\ call[c].accepted =>
             pc[p] = "abort" \/ exit[p] \in {"failed", "killed"}

(* Every call ends, whatever becomes of the runtime it talks to.           *)
CallsEnd == \A c \in Callers : call[c].pc = "connect" ~> call[c].pc = "ended"

(* A runtime whose shutdown was accepted ends and gives its address back.  *)
ShutdownFreesAddress ==
    \A p \in Starters :
        (\E c \in Callers : call[c].server = p /\ call[c].accepted) ~>
            (pc[p] = "ended" /\ \A a \in Addresses : listener[a] # p)

(* runtime-api.md: "`1000-1099`: Invalid parameters or unknown             *)
(* identifiers", "`1200-1299`: Integration errors": a request whose        *)
(* parameters are wrong is answered 1000 or 1001.                          *)
BadNumber(request) ==
    request.form = "request" /\ \E name \in DOMAIN request.params :
        request.params[name] \in {"other", "infinite"}
InvalidParametersAreReported ==
    \A c \in Callers :
        call[c].reply # None /\ BadNumber(call[c].request) =>
            call[c].reply \in {Error(1000), Error(1001)}
=============================================================================
