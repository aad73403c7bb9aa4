SPECIFICATION DaysSpec
CONSTANTS
    Routines <- RoutinesByNight
    Starts <- SomeStarts
    Deadlines <- SomeDeadlines
    RoutineDeadlines <- NightDeadlines
    Clock <- TwoTimes
    Efforts = {0}
    MaxOccurrences = 1
    Horizon <- LastDay
    NoTime = NoTime
    Times <- NamedHours
    Ticks <- ClockHours
    Amounts = {0, 2}
    PendingBuffer = 1
    ForceBuffer = 2
    NoDeadline = NoDeadline
    DayLength = 4
    MorningSlot = 1
    Offset = 1
    Weekdays = {0, 1}
    LastDate = 2
    Files <- SomeFiles
    ShownTimes <- TwoNights
    LeafStarts <- OneStart
    LeafWaits <- OneStart
    LeafDeadlines = {}
    Words <- SomeWords
    MaxEstimate <- TwoHours
    DefaultDeadline <- Evening
PROPERTY
    SweepEnds
CHECK_DEADLOCK FALSE
