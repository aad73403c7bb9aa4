SPECIFICATION FairSpec
CONSTANTS
    Servers = {mcp}
    Shells = {cli}
    Commands = {cmd}
    Roots = {r1}
    Paths = {r1}
    PathOf <- OwnPath
    MaxOps = 2
    MaxRevision = 2
    NoProc = NoProc
    NoRoot = NoRoot
INVARIANT
    IndInv
PROPERTY
    EveryRequestEnds
