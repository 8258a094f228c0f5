--------------------------- MODULE MetadataStore ---------------------------
(***************************************************************************)
(* The metadata directory .nate_ntm/ and the processes that use it:        *)
(* _atomic_write_json, load and save of runtime/metadata_store.py, and the *)
(* startup of RuntimeDaemon.create and RuntimeDaemon.resume                *)
(* (runtime/daemon.py).                                                    *)
(*                                                                         *)
(* A process is one run of the program.  Its steps are the file system     *)
(* calls; between two of them another process may run, the process may be  *)
(* killed, and the power may fail.  Only create writes: swarm.json, then   *)
(* agents/agent-1.json, agents/agent-2.json and so on.  The text of a file *)
(* is abstracted to what a reader parses from it.  Swarm ids have no blanks*)
(* around them (RuntimeCommand has those that have), so the fake adapters  *)
(* of Agent Mail and ACP give the same identifiers in every process, and   *)
(* their check on resume cannot fail for what create has written.          *)
(***************************************************************************)
EXTENDS Naturals, Sequences

CONSTANTS Processes,
          SwarmIds,       \* swarm ids (and project paths) in configurations
          MaxAgents,      \* bound: agents of a swarm
          Absent,         \* no file; None
          PowerMayFail    \* bound: the power may fail

ASSUME MaxAgentsNat == MaxAgents \in Nat

VARIABLES pc,             \* where each process is
          conf,           \* its configuration: swarm id, number of agents
          todo,           \* files that create has still to write
          temp,           \* the temporary file of each process
          files,          \* what a reader of each name finds
          versions,       \* what a power failure may leave of each name
          holds,          \* the SwarmMetadata of a running daemon
          happened        \* history: "overlap" of start-ups, "power" failure

storeVars == << pc, conf, todo, temp, files, versions, holds, happened >>

(* swarm.json, and agents/agent-<n>.json for n from 1.                     *)
Swarm == 0
Files == 0 .. MaxAgents

SwarmMetadata == [swarm_id : SwarmIds, agents : 0 .. MaxAgents, by : Processes]
AgentMetadata(a) == [agent : {a}]

(* What a whole file may hold; `by` stands for the timestamps.             *)
Content == [f \in Files |-> IF f = Swarm THEN SwarmMetadata ELSE AgentMetadata(f)]

(* A file: its text, whole or not, on the disk or not.                     *)
Written(f) == [data : Content[f], whole : BOOLEAN, synced : BOOLEAN]

ASSUME AbsentIsNoFile == \A f \in Files : Absent \notin Written(f)

(* What process p writes to f.                                             *)
Rendered(p, f) ==
    IF f = Swarm
    THEN [swarm_id |-> conf[p].swarm_id, agents |-> conf[p].agents, by |-> p]
    ELSE [agent |-> f]

Writing == {"mkstemp", "dump", "fsync", "replace"}
Busy    == Writing \cup {"load"}
Live    == Busy \cup {"running"}

-----------------------------------------------------------------------------
(* create *)

PlanAgentsFirst(n) ==                   \* bug: swarm.json is written last
    [i \in 1 .. n + 1 |-> IF i = n + 1 THEN Swarm ELSE i]

PlanOneTooMany(n) ==                    \* bug: off by one in the agents
    [i \in 1 .. n + 2 |-> i - 1]

(* save_swarm_metadata, then save_all_agent_metadata: the files of a swarm *)
(* with n agents, in the order in which they are written.                  *)
Plan(n) == [i \in 1 .. n + 1 |-> i - 1]

(* Process p begins: nothing keeps other start-ups from being under way.   *)
Begins(p) ==
    /\ pc[p] = "idle"
    /\ happened' = happened \cup
         IF \E q \in Processes : pc[q] \in Busy THEN {"overlap"} ELSE {}

CreateStartsAnyway(p, swarm_id, n) ==   \* bug: no startup precondition
    /\ Begins(p)
    /\ conf' = [conf EXCEPT ![p] = [swarm_id |-> swarm_id, agents |-> n]]
    /\ pc' = [pc EXCEPT ![p] = "mkstemp"]
    /\ todo' = [todo EXCEPT ![p] = Plan(n)]
    /\ UNCHANGED << temp, files, versions, holds >>

(* check_startup_preconditions finds no swarm.json: create goes on.        *)
CreateStarts(p, swarm_id, n) ==
    /\ Begins(p) /\ files[Swarm] = Absent
    /\ conf' = [conf EXCEPT ![p] = [swarm_id |-> swarm_id, agents |-> n]]
    /\ pc' = [pc EXCEPT ![p] = "mkstemp"]
    /\ todo' = [todo EXCEPT ![p] = Plan(n)]
    /\ UNCHANGED << temp, files, versions, holds >>

(* check_startup_preconditions finds one: MetadataAlreadyExistsError.      *)
CreateRefused(p) ==
    /\ Begins(p) /\ files[Swarm] # Absent
    /\ pc' = [pc EXCEPT ![p] = "refused"]
    /\ UNCHANGED << conf, todo, temp, files, versions, holds >>

(* _atomic_write_json, call by call.                                       *)
MakeTemp(p) ==
    /\ pc[p] = "mkstemp"
    /\ temp' = [temp EXCEPT ![p] = [data |-> Rendered(p, Head(todo[p])),
                                    whole |-> FALSE, synced |-> FALSE]]
    /\ pc' = [pc EXCEPT ![p] = "dump"]
    /\ UNCHANGED << conf, todo, files, versions, holds, happened >>

WriteTempUnsynced(p) ==                 \* bug: replaced without fsync
    /\ pc[p] = "dump"
    /\ temp' = [temp EXCEPT ![p].whole = TRUE]
    /\ pc' = [pc EXCEPT ![p] = "replace"]
    /\ UNCHANGED << conf, todo, files, versions, holds, happened >>

(* json.dump and flush: the text is whole, in the page cache.              *)
WriteTemp(p) ==
    /\ pc[p] = "dump"
    /\ temp' = [temp EXCEPT ![p].whole = TRUE]
    /\ pc' = [pc EXCEPT ![p] = "fsync"]
    /\ UNCHANGED << conf, todo, files, versions, holds, happened >>

SyncTemp(p) ==
    /\ pc[p] = "fsync"
    /\ temp' = [temp EXCEPT ![p].synced = TRUE]
    /\ pc' = [pc EXCEPT ![p] = "replace"]
    /\ UNCHANGED << conf, todo, files, versions, holds, happened >>

(* os.replace; then the next file, or create returns its daemon.  The      *)
(* directory is not synced: a power failure may still undo the rename.     *)
Replace(p) ==
    LET f    == Head(todo[p])
        rest == Tail(todo[p])
    IN  /\ pc[p] = "replace"
        /\ files' = [files EXCEPT ![f] = temp[p]]
        /\ versions' = [versions EXCEPT ![f] = @ \cup {temp[p]}]
        /\ temp' = [temp EXCEPT ![p] = Absent]
        /\ todo' = [todo EXCEPT ![p] = rest]
        /\ \/ rest # << >> /\ pc' = [pc EXCEPT ![p] = "mkstemp"] /\ UNCHANGED holds
           \/ rest = << >> /\ pc' = [pc EXCEPT ![p] = "running"]
              /\ holds' = [holds EXCEPT ![p] = Rendered(p, Swarm)]
        /\ UNCHANGED << conf, happened >>

WriteRaisesUnlinksTarget(p) ==          \* bug: cleans up the wrong path
    /\ pc[p] \in Writing
    /\ files' = [files EXCEPT ![Head(todo[p])] = Absent]
    /\ pc' = [pc EXCEPT ![p] = "failed"]
    /\ UNCHANGED << conf, todo, temp, versions, holds, happened >>

(* One of the calls raises (disk full, permissions): the temporary file is *)
(* removed, unless that fails too, and create raises.  Files it replaced   *)
(* before stay.                                                            *)
WriteRaises(p) ==
    /\ pc[p] \in Writing
    /\ temp' \in {temp, [temp EXCEPT ![p] = Absent]}
    /\ pc' = [pc EXCEPT ![p] = "failed"]
    /\ UNCHANGED << conf, todo, files, versions, holds, happened >>

-----------------------------------------------------------------------------
(* resume *)

(* check_startup_preconditions finds swarm.json: resume goes on.           *)
ResumeStarts(p, swarm_id) ==
    /\ Begins(p) /\ files[Swarm] # Absent
    /\ conf' = [conf EXCEPT ![p] = [swarm_id |-> swarm_id, agents |-> 0]]
    /\ pc' = [pc EXCEPT ![p] = "load"]
    /\ UNCHANGED << todo, temp, files, versions, holds >>

ResumeRefused(p) ==
    /\ Begins(p) /\ files[Swarm] = Absent
    /\ pc' = [pc EXCEPT ![p] = "refused"]
    /\ UNCHANGED << conf, todo, temp, files, versions, holds >>

(* load_swarm_metadata and SwarmMetadata.validate accept file g.           *)
Loadable(p, g) == g # Absent /\ g.whole /\ g.data.swarm_id = conf[p].swarm_id

Load(p) ==
    /\ pc[p] = "load" /\ Loadable(p, files[Swarm])
    /\ holds' = [holds EXCEPT ![p] = files[Swarm].data]
    /\ pc' = [pc EXCEPT ![p] = "running"]
    /\ UNCHANGED << conf, todo, temp, files, versions, happened >>

LoadRaises(p) ==
    /\ pc[p] = "load" /\ ~Loadable(p, files[Swarm])
    /\ pc' = [pc EXCEPT ![p] = "failed"]
    /\ UNCHANGED << conf, todo, temp, files, versions, holds, happened >>

-----------------------------------------------------------------------------
(* External: the end of processes *)

(* The process is killed, or its daemon stops; a temporary file stays.     *)
Dies(p) ==
    /\ pc[p] \in Live
    /\ pc' = [pc EXCEPT ![p] = "dead"]
    /\ UNCHANGED << conf, todo, temp, files, versions, holds, happened >>

(* What a power failure may leave under a name of which g is a version: a  *)
(* file that was never synced may have lost its text.                      *)
Survivors(g) ==
    {g} \cup IF g # Absent /\ ~g.synced THEN {[g EXCEPT !.whole = FALSE]} ELSE {}

(* Renames reach the disk one by one: each name falls back on its own.     *)
PowerFails ==
    /\ PowerMayFail
    /\ pc' = [p \in Processes |-> IF pc[p] \in Live THEN "dead" ELSE pc[p]]
    /\ LET left == [f \in Files |-> UNION {Survivors(g) : g \in versions[f]}]
       IN  files' \in {g \in [Files -> UNION {left[f] : f \in Files}] :
                         \A f \in Files : g[f] \in left[f]}
    /\ versions' = [f \in Files |-> {files'[f]}]
    /\ happened' = happened \cup {"power"}
    /\ UNCHANGED << conf, todo, temp, holds >>

-----------------------------------------------------------------------------
Init ==
    /\ pc = [p \in Processes |-> "idle"]
    /\ conf = [p \in Processes |-> Absent]
    /\ todo = [p \in Processes |-> << >>]
    /\ temp = [p \in Processes |-> Absent]
    /\ files = [f \in Files |-> Absent]
    /\ versions = [f \in Files |-> {Absent}]
    /\ holds = [p \in Processes |-> Absent]
    /\ happened = {}

Next ==
    \/ \E p \in Processes :
         \/ \E swarm_id \in SwarmIds :
              \/ \E n \in 0 .. MaxAgents : CreateStarts(p, swarm_id, n)
              \/ ResumeStarts(p, swarm_id)
         \/ CreateRefused(p) \/ ResumeRefused(p)
         \/ MakeTemp(p) \/ WriteTemp(p) \/ SyncTemp(p) \/ Replace(p)
         \/ WriteRaises(p)
         \/ Load(p) \/ LoadRaises(p)
         \/ Dies(p)
    \/ PowerFails

Spec == Init /\ [][Next]_storeVars

-----------------------------------------------------------------------------
(* Properties *)

StoreTypeOK ==
    /\ pc \in [Processes -> Live \cup {"idle", "refused", "failed", "dead"}]
    /\ \A p \in Processes :
         /\ conf[p] # Absent => conf[p] \in [swarm_id : SwarmIds, agents : 0 .. MaxAgents]
         /\ todo[p] \in Seq(Files)
         /\ temp[p] # Absent => temp[p] \in UNION {Written(f) : f \in Files}
         /\ holds[p] # Absent => holds[p] \in SwarmMetadata
         /\ pc[p] \in Writing => todo[p] # << >>
         /\ pc[p] \in Writing \ {"mkstemp"} => temp[p] \in Written(Head(todo[p]))
    /\ \A f \in Files : /\ versions[f] \subseteq Written(f) \cup {Absent}
                        /\ files[f] \in versions[f]
    /\ happened \subseteq {"overlap", "power"}

(* What a reader makes of file g of name f.                                *)
Torn == [torn |-> TRUE]
Read(g) == IF g = Absent THEN Absent ELSE IF g.whole THEN g.data ELSE Torn

(* Whatever overlaps, fails, is killed or loses power, nobody finds half a *)
(* file under a name: the store implements AtomicStore.                    *)
Atomic == INSTANCE AtomicStore
    WITH Names    <- Files,
         Values   <- Content,
         files    <- [f \in Files |-> Read(files[f])],
         versions <- [f \in Files |-> {Read(g) : g \in versions[f]}]
AtomicContract == Atomic!Spec

(* A daemon that runs has its metadata under it: swarm.json, and, when it  *)
(* created the swarm, the file of every agent, whatever other processes    *)
(* did or failed to do meanwhile.                                          *)
RunningIsOnDisk ==
    \A p \in Processes : pc[p] = "running" =>
        \A f \in 0 .. conf[p].agents : files[f] # Absent /\ files[f].whole

(* While start-ups have not overlapped and the power was on: every daemon  *)
(* that runs has in memory the swarm that is on disk, so that two agree.   *)
RunnersAgreeWithDisk ==
    happened = {} =>
        \A p \in Processes : pc[p] = "running" => files[Swarm].data = holds[p]

(* While start-ups have not overlapped and the power was on: no agent file *)
(* without a swarm.json that names it, though create dies or fails         *)
(* anywhere and is tried again.                                            *)
AgentFilesFollowSwarm ==
    happened = {} =>
        \A a \in Files \ {Swarm} : files[a] # Absent =>
            files[Swarm] # Absent /\ a <= files[Swarm].data.agents

(* Without overlap and power failure swarm.json is written once, though    *)
(* create and resume are called in any order, fail and are killed.         *)
SerialCreateWritesOnce ==
    [][happened' = {} /\ files[Swarm] # Absent =>
           files'[Swarm] = files[Swarm]]_storeVars

(* daemon.py: "In create mode, starting the runtime MUST fail if swarm     *)
(* metadata already exists for the project": a swarm.json is never         *)
(* written over.                                                           *)
SwarmIsNeverOverwritten ==
    [][files[Swarm] # Absent => files'[Swarm] = files[Swarm]]_storeVars

(* tasks.md, T038: "rename into place so that .nate_ntm/ contents are      *)
(* never left in a partially written state after crashes": when nobody is  *)
(* writing, the agents that swarm.json names have their files.             *)
NeverPartlyWritten ==
    (files[Swarm] # Absent /\ \A p \in Processes : pc[p] \notin Writing) =>
        \A a \in 1 .. files[Swarm].data.agents : files[a] # Absent
=============================================================================
