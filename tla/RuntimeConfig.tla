--------------------------- MODULE RuntimeConfig ---------------------------
(***************************************************************************)
(* load_runtime_config (config/runtime_config.py): the configuration of a  *)
(* runtime from arguments, the environment and defaults; and the control   *)
(* API address that `api call` (cli.py) takes from the same environment.   *)
(*                                                                         *)
(* A path is the sequence of its names from the root.  Symbolic links and  *)
(* the expansion of ~ are left out.  The text of a port is abstracted to   *)
(* what int() makes of it: an integer or NotANumber.  Different hosts are  *)
(* different interfaces: no host stands for another's too.                 *)
(***************************************************************************)
EXTENDS Integers, SequencesExt

CONSTANTS Unset,        \* not in the environment, option not given; None
          Blank,        \* the empty string
          NotANumber,   \* any other text that int() refuses
          Directories,  \* the directories that exist
          Invalid,      \* ValueError instead of a configuration
          IPv6Hosts,    \* the texts of hosts that have colons in them
          Strip(_)      \* str.strip

ASSUME TextsDiffer ==
    /\ NotANumber \notin {Unset, Blank}
    /\ Unset \notin Int /\ Blank \notin Int /\ NotANumber \notin Int

DefaultHost    == "127.0.0.1"
DefaultPort    == 8765
DefaultSwarmId == "default"
DefaultName    == ".nate_ntm"

-----------------------------------------------------------------------------
(* Paths *)

ParentOf(path) == IF path = << >> THEN << >> ELSE Front(path)

(* Path.resolve: ".." goes back one name.                                  *)
Resolve(path) ==
    FoldLeft(LAMBDA done, name : IF name = ".." THEN ParentOf(done)
                                 ELSE Append(done, name), << >>, path)

(* _validate_metadata_dir_location: under the project directory, or a      *)
(* sibling of it.                                                          *)
IsNear(dir, project) ==
    IsPrefix(project, dir) \/ ParentOf(dir) = ParentOf(project)

-----------------------------------------------------------------------------
(* Fields *)

(* The first of a sequence of values that Python takes for true, where the *)
(* last is the default: `a or b or default`.                               *)
FirstGiven(values) ==
    values[CHOOSE i \in DOMAIN values :
             /\ values[i] \notin {Unset, Blank} \/ i = Len(values)
             /\ \A j \in 1 .. i - 1 : values[j] \in {Unset, Blank}]

(* _resolve_project_path, with the working directory cwd.                  *)
ProjectPath(arg, env, cwd) ==
    LET path == IF arg # Unset THEN Resolve(arg)
                ELSE Resolve(FirstGiven(<< env.project, cwd >>))
    IN  IF path \in Directories THEN path ELSE Invalid

(* Where NATE_NTM_METADATA_DIR points: relative to the project unless      *)
(* absolute.                                                               *)
MetadataPath(raw, project) ==
    IF raw \in {Unset, Blank} THEN Append(project, DefaultName)
    ELSE IF raw.absolute THEN Resolve(raw.path) ELSE Resolve(project \o raw.path)

(* _resolve_metadata_dir.  (Only None counts as no argument, but no caller *)
(* passes one.)                                                            *)
MetadataDir(env, project) ==
    LET dir == MetadataPath(env.metadata, project)
    IN  IF IsNear(dir, project) THEN dir ELSE Invalid

(* _resolve_control_host.                                                  *)
ControlHost(env) == FirstGiven(<< env.host, DefaultHost >>)

(* The ports that are neither privileged nor out of range.                 *)
Ports == 1025 .. 65535

(* _resolve_control_port: an empty variable is not an unset one here.      *)
ControlPort(env) ==
    IF env.port = Unset THEN DefaultPort
    ELSE IF env.port \in {Blank, NotANumber} \/ env.port \notin Ports
         THEN Invalid ELSE env.port

(* _resolve_swarm_id.                                                      *)
SwarmId(env) == FirstGiven(<< env.swarm_id, DefaultSwarmId >>)

(* load_runtime_config(project_path=project) as the command line calls it. *)
LoadRuntimeConfig(project, env, cwd) ==
    LET path == ProjectPath(project, env, cwd)
        dir  == IF path = Invalid THEN Invalid ELSE MetadataDir(env, path)
        port == ControlPort(env)
    IN  IF path = Invalid \/ dir = Invalid \/ port = Invalid THEN Invalid
        ELSE [project_path     |-> path,
              metadata_dir     |-> dir,
              control_api_host |-> ControlHost(env),
              control_api_port |-> port,
              swarm_id         |-> SwarmId(env)]

-----------------------------------------------------------------------------
(* The client *)

Address(config) == << config.control_api_host, config.control_api_port >>

ClientAddressDefault(env) ==            \* bug: the environment is not read
    << DefaultHost, DefaultPort >>

(* The options --host and --port of `api call` when they are not given: the*)
(* variable, unless it is unset or empty, or else the default.  Text that  *)
(* is no integer is a usage error.                                         *)
ClientAddress(env) ==
    LET port == FirstGiven(<< env.port, DefaultPort >>)
    IN  IF port = NotANumber THEN Invalid
        ELSE << FirstGiven(<< env.host, DefaultHost >>), port >>

(* The client goes through the text ws://host:port, without the brackets   *)
(* that an IPv6 literal needs: the library finds no host or no port in it, *)
(* and connect raises.                                                     *)
IsUri(address) == address[1] \notin IPv6Hosts
=============================================================================
