SPECIFICATION Spec
CONSTANTS
    l1 = l1
    l2 = l2
    Links <- MCLinks
    Configs <- NoLinksRepeating
    MaxRequests = 2
    MaxStops = 1
PROPERTIES
    StopEnds
