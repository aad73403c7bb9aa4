SPECIFICATION DaysSpec
CONSTANTS
    Routines <- RoutinesByDay
    Starts <- SomeStarts
    Deadlines <- SomeDeadlines
    RoutineDeadlines <- SomeRoutineDeadlines
    Clock <- TwoTimes
    Efforts = {1000}
    MaxOccurrences = 2
    Horizon <- LastDay
    NoTime = NoTime
    Times <- NamedHours
    Ticks <- ClockHours
    Amounts = {0, 2}
    PendingBuffer = 1
    ForceBuffer = 2
    NoDeadline = NoDeadline
    DayLength = 4
    MorningSlot = 1
    Offset = 1
    Weekdays = {0, 1}
    LastDate = 2
    Files <- SomeFiles
    ShownTimes <- TwoNights
    LeafStarts <- OneStart
    LeafWaits <- OneStart
    LeafDeadlines = {}
    Words <- SomeWords
    MaxEstimate <- TwoHours
    DefaultDeadline <- Evening
INVARIANTS
    StatusSound
    GoesOn
    CapacityIsFree
PROPERTIES
    TimeKeepsDue
    WaitingEnds
    DefersForward
    NextIsLater
    EstimateFollowsWork
    SweepEnds
    DatesAgree
CHECK_DEADLOCK FALSE
