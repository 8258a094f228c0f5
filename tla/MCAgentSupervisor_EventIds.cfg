CONSTANTS
    Configured = {a1, a2}
    Errors = {crash}
    NoError = NoError
    MaxEvents = 2
    EmitBound = 4
SPECIFICATION SupervisorSpec
INVARIANT EventIdsUnique
CHECK_DEADLOCK FALSE
