CONSTANTS
    Processes = {p1, p2}
    SwarmIds = {s1, s2}
    MaxAgents = 1
    Absent = Absent
    PowerMayFail = FALSE
SPECIFICATION Spec
SYMMETRY Symmetry
CHECK_DEADLOCK FALSE
INVARIANTS
    NeverPartlyWritten
