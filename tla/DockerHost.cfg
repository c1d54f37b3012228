\* Containers of two names and an access point, in two processes after each other.
SPECIFICATION Spec
CONSTANTS
    Names <- MCNames
    Limits <- MCLimits
    CpuCalls <- MCCpuCalls
    MemoryCalls <- MCMemoryCalls
    None = None
    Saps = {sap}
    Nets = {net1, net2}
    MaxCalls = 3
    MaxNodes = 2
    MaxTroubles = 1
    MaxRuns = 2
INVARIANTS
    TypeOK
    RecordTellsTheLimits
    CommandsReachTheirOwn
    NothingLeftBehind
\* The last process has ended and nobody cleans up.
CHECK_DEADLOCK FALSE
