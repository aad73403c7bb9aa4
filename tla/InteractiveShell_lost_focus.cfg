SPECIFICATION ShellSpec
CONSTANTS
    root = root
    sub = sub
    other = other
    Tasks = {root, other}
    Parent <- TwoProjects
    NoTask = NoTask
    MaxTime = 1
INVARIANT
    WorkCountsFromFocus
