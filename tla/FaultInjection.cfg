\* Two injectors on one or two interfaces, every pattern and fault type.
SPECIFICATION Spec
CONSTANTS
    i1 = i1
    i2 = i2
    e1 = e1
    e2 = e2
    Injectors = {i1, i2}
    Interfaces = {e1, e2}
    Profiles <- MCProfiles
    Networks <- MCNetworks
INVARIANTS
    TypeOK
    TableTellsTheTruth
    NothingLeft
    KeepsToItsTime
PROPERTIES
    DegradationClimbs
    EveryTaskEnds
\* All tasks come to an end.
CHECK_DEADLOCK FALSE
