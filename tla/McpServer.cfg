CONSTANTS
    a = a
    b = b
    c = c
    d = d
    NoTask = NoTask
    Keep = Keep
    MaxMinutes = 1
    Ids <- MCIds
    Minutes <- MCMinutes
    Start <- MCStart
    Requests <- MCRequests
    Calls <- MCCalls
    ElsewhereCalls <- MCElsewhere
    SentCalls <- MCSentCalls
    Lines <- MCLines
    Chars <- MCChars
    Width <- MCWidth
    MaxLine = 5
    Documents <- MCDocuments
    Shortest = 3
    MaxLink = 8
    MaxDepth = 2
SPECIFICATION MCSpec
CHECK_DEADLOCK FALSE
INVARIANTS MemoryIsFile CallsAreUnderstood
PROPERTIES ImplementsTaskService InterfaceSound
