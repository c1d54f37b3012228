\* A few calls that configure a host and its link, and faults in between.
SPECIFICATION LimitsSpec
CONSTANTS
    NoValue = NoValue
    Params <- MCParams
    NamedLikeSwitch = TRUE
    NumCores = 3
    PeriodUs = 100000
    Fractions <- MCFractions
    MaxRetries = 3
    MaxCalls = 4
INVARIANTS
    QueuesAsAsked
    ShareAsAsked
\* The calls are used up.
CHECK_DEADLOCK FALSE
