\* A host or a container, three commands, one interrupt and one death of the shell.
SPECIFICATION Spec
CONSTANTS
    Dockers = {TRUE, FALSE}
    Kinds = {"plain", "endless", "background"}
    Lines = 2
    ReadSize = 2
    MaxCommands = 3
    MaxInterrupts = 1
    MaxDeaths = 1
    MaxPending = 3
    MaxReadlines = 1
INVARIANTS
    TypeOK
    InStep
    OutputBelongs
PROPERTIES
    CmdReturns
\* The user may stop calling.
CHECK_DEADLOCK FALSE
