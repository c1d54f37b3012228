\* Everything a user does in a few gestures, from an empty or an imported drawing.
SPECIFICATION Spec
CONSTANTS
    Kinds <- MCKinds
    DialogNames <- MCNames
    Imports <- MCImports
    OldFiles <- MCOldFiles
    MaxGestures = 5
INVARIANTS
    TypeOK
    LinksAgree
    SavedIsLoaded
    RunIsWhatIsDrawn
    ScriptIsTheRun
    AddressesDistinct
\* The user quits.
CHECK_DEADLOCK FALSE
