CONSTANTS
    Processes = {p1, p2, p3}
    SwarmIds = {s1, s2}
    MaxAgents = 1
    Absent = Absent
    PowerMayFail = TRUE
SPECIFICATION Spec
SYMMETRY Symmetry
CHECK_DEADLOCK FALSE
INVARIANTS
    StoreTypeOK
    RunningIsOnDisk
    RunnersAgreeWithDisk
    AgentFilesFollowSwarm
PROPERTIES
    AtomicContract
    SerialCreateWritesOnce
