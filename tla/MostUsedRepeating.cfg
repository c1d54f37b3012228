SPECIFICATION Spec
CONSTANTS
    l1 = l1
    l2 = l2
    Links <- MCLinks
    Configs <- MostUsedRepeating
    MaxRequests = 3
    MaxStops = 1
PROPERTIES
    ImplementsSchedule
