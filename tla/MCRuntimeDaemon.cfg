CONSTANTS
    Configured = {a1, a2}
    Clients = {c1, c2}
    Errors = {crash}
    NoError = NoError
    MaxEvents = 2
    EmitBound = 1
    MailMayFail = TRUE
    LastKnown = "Idle"
SPECIFICATION Spec
INVARIANTS
    DaemonTypeOK
    ShutdownAcceptedOnce
    RunningMeansReady
    ServerFollowsDaemon
    ServedViewsAgree
PROPERTIES
    MailAnnouncedAtStart
    LifecycleContract
    ShutdownCompletes
    CallsAreAnswered
    LifecycleProgress
