CONSTANTS
    a1 = a1
    a2 = a2
    Agents = {a1, a2}
    Clients = {c1, c2}
    Requests <- ForeignUnsubscribe
    MaxEvents = 2
    MaxRequests = 2
    MaxEmitted = 2
    Leaving = TRUE
SPECIFICATION Spec
INVARIANT EventsInOrder
PROPERTIES
    KeepsSubscriptionContract
    PublishingEnds
    DepartedAreForgotten
CHECK_DEADLOCK FALSE
