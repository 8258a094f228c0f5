CONSTANTS
    a1 = a1
    a2 = a2
    Agents = {a1, a2}
    Clients = {c1, c2}
    Requests <- AllKinds
    MaxEvents = 2
    MaxRequests = 3
    MaxEmitted = 2
    Leaving = TRUE
SPECIFICATION Spec
SYMMETRY Symmetry
INVARIANTS
    FanoutTypeOK
    RegistryAgreement
    NotifiedOnlyWhileSubscribed
    DoneMeansDelivered
    DetailAndStreamCover
CHECK_DEADLOCK FALSE
