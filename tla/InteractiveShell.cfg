SPECIFICATION ShellSpec
CONSTANTS
    root = root
    sub = sub
    other = other
    Tasks = {root, sub, other}
    Parent <- FamilyAndOther
    NoTask = NoTask
    MaxTime = 0
INVARIANTS
    FocusSound
    ActsOnShown
    NoWorkFromBefore
PROPERTY
    SeesTheOthers_Pair
