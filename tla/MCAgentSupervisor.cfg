CONSTANTS
    Configured = {a1, a2}
    Errors = {crash}
    NoError = NoError
    MaxEvents = 2
    EmitBound = 3
SPECIFICATION SupervisorSpec
SYMMETRY Symmetry
INVARIANTS
    TypeOK
    ErrorMatchesHistory
    StreamIsRecentSuffix
    PageIsMostRecent
    EventIdsAreClosedForm
PROPERTIES
    EntryFollowsEvents
    EntriesAreKept
CHECK_DEADLOCK FALSE
