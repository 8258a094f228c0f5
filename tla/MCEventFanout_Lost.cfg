CONSTANTS
    a1 = a1
    a2 = a2
    Agents = {a1, a2}
    Clients = {c1, c2}
    Requests <- SubscribeOnly
    MaxEvents = 2
    MaxRequests = 2
    MaxEmitted = 1
    Leaving = TRUE
SPECIFICATION Spec
SYMMETRY Symmetry
INVARIANTS
    ConnectedAreNotified
CHECK_DEADLOCK FALSE
