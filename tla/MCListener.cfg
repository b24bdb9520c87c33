SPECIFICATION ListenerFairSpec
CONSTANTS
    c1 = c1
    c2 = c2
    Client <- TwoClients
    MetricsEnabled = TRUE
    AdminEnabled = TRUE
    firstAcceptBackoff = 5
    maxAcceptBackoff = 15
INVARIANTS
    ListenerTypeOK
    RunReturnsDrained
    OnlyShutdownEndsRun
    WaitCoversGroup
PROPERTIES
    SignalEndsProcess
    QueuedAreTaken
