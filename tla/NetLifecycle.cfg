\* A network built from one of ten topologies, changed, stopped, cleaned up.
SPECIFICATION Spec
CONSTANTS
    Topologies <- MCTopologies
    Names <- MCNames
    PortPairs <- MCPortPairs
    MaxIP = 9
    MaxNodes = 3
    MaxAwaited = 2
    MaxLinks = 4
    MaxCalls = 2
    MaxTroubles = 1
    MaxAimed = 7
    MaxRuns = 2
INVARIANTS
    TypeOK
    BuiltAsDrawn
    LinksAreWired
    StopLeavesNothing
    FaultsStayOnTheirLink
PROPERTIES
    WaitTells
    WaitReturns
\* A process that has ended, and was not started again, does nothing.
CHECK_DEADLOCK FALSE
