SPECIFICATION MCSpec
CONSTANTS
    Tasks = {1, 2, 3, 4}
    Candidates <- AnyTasks
    Now <- MCNow
    MinSplit = 1
    Never = 99
    Nobody = Nobody
    NoTask = NoTask
    Clock = 0
    Project = 4
    Ups <- AnyUps
    Starts = {2}
    Waits <- MCWaits
    Deadlines = {2, 5}
    Estimates = {2}
    Works = {1}
    Initial <- AnyInitial
    Priority <- MCPriority
    Atomic = {2}
    Routine = {3}
    OnOtherSide = {}
    DayLength = 7
    NightHours = 1
    LateHours = 2
    Free <- MCFree
    Horizon = 3
    OverflowDay = 5
    PackDays = 3
    Buffer = 0
    ForceBuffer = 1
    QueryWorlds <- MCQueryWorlds
    Morning = 1
    Dates <- MCDates
    ListWorlds <- MCListWorlds
    Patterns <- AnyList
    DayTicks = 8
    MorningTicks = 2
    OffsetTicks = 1
    Minute = 2
    Character = 4
    SummaryDays = 28
    GapIds = {0, 9}
    NoRow = 0
    NoTime = NoTime
    Nothing = Nothing
INVARIANTS
    SoundPlan
    TimesFit
    IsTimetable
    FlatteningKeepsTime
    PacksTheDay
    AnswersTheDay
    ListIsTrue
PROPERTIES
    FlatteningGoesOn
    AllPlanned
    IsWorkPlan
CHECK_DEADLOCK FALSE
