SPECIFICATION TreeSpec
CONSTANTS
    a = a
    b = b
    c = c
    x = x
    y = y
    Null = Null
    Ill = Ill
    Root = Root
    Ids <- AnyId
    Times = {1, 2}
    Efforts = {0, 1, 3}
    NewEffort = 1
    Repetitions = 2
    Trees <- AnyTree
    Works <- OneHour
    NoTask = NoTask
    NoTime = NoTime
    Members <- ThreeTasks
    ParentOf <- SomeParents
    FocusForests <- SomeForests
    Clock = {0, 6}
    Waits = {4, 12}
    Days = {0, 1}
    DayLength = 8
    Morning = 2
    PendingBuffer = 2
    ForceBuffer = 4
    StatedTimes = {7, 8}
    Ticks = {3, 6, 9}
    Amounts = {2}
    Second = 2
    LongAgo = 0
    FarFuture = 20
    DefaultEstimate = 2
    Edited <- SomeEdited
    MaxChanges = 2
INVARIANTS
    TypeOK
    SavedIsRead
PROPERTIES
    StaysInSightOfAll
    SplitKeepsTotal
    DeadlineCovers
SYMMETRY AreAlike
CHECK_DEADLOCK FALSE
