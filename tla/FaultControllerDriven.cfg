SPECIFICATION Spec
CONSTANTS
    l1 = l1
    l2 = l2
    Links <- MCLinks
    Configs <- DrivenConfigs
    MaxRequests = 2
    MaxStops = 1
INVARIANTS
    TypeOK
    IterationsNeedRequests
PROPERTIES
    StopEnds
    RequestIsTaken
    ImplementsSchedule
