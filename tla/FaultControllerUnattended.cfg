SPECIFICATION Spec
CONSTANTS
    l1 = l1
    l2 = l2
    Links <- MCLinks
    Configs <- UnattendedConfigs
    MaxRequests = 1
    MaxStops = 1
INVARIANTS
    QuietWhenDone
    DoneReachesStarter
    LogWrittenAtExit
PROPERTIES
    NoIterationAfterShutdown
    AutomaticEnds
    ImplementsSchedule
