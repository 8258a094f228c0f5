CONSTANTS
    Starters = {r1, r2}
    Callers = {c1}
    Projects <- MCProjects
    Directories <- MCDirectories
    Environments <- MCEnvironments
    Commands <- MCCommands
    Requests <- MCRequests
    Agents = {"agent-1"}
    Unset = Unset
    Blank = Blank
    NotANumber = NotANumber
    Invalid = Invalid
    None = None
    IPv6Hosts = {"::1"}
    Strip <- MCStrip
SPECIFICATION Spec
INVARIANTS
    CommandTypeOK
    NoForeignSwarm
    ExitCodeTellsEffect
    CallExitTellsEffect
PROPERTIES
    CallFindsItsRuntime
    SameStartResumes
    CallsEnd
    ShutdownFreesAddress
CHECK_DEADLOCK FALSE
