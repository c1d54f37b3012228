SPECIFICATION Spec
CONSTANTS
    l1 = l1
    l2 = l2
    Links <- MCLinks
    Configs <- MostUsedLogging
    MaxRequests = 1
    MaxStops = 1
INVARIANTS
    LogSurvivesShutdown
