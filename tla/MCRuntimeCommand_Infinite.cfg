CONSTANTS
    Starters = {r1, r2}
    Callers = {c1}
    Projects <- MCProjects
    Directories <- MCDirectories
    Environments <- MCEnvironments
    Commands <- MCCommands
    Requests <- InfiniteTimeout
    Agents = {"agent-1"}
    Unset = Unset
    Blank = Blank
    NotANumber = NotANumber
    Invalid = Invalid
    None = None
    IPv6Hosts = {"::1"}
    Strip <- MCStrip
SPECIFICATION Spec
INVARIANT
    InvalidParametersAreReported
CHECK_DEADLOCK FALSE
