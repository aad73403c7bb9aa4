SPECIFICATION Spec
CONSTANTS
    Servers = {mcp}
    Shells = {cli}
    Commands = {}
    Roots = {r1, r2}
    Paths = {r1, r2}
    PathOf <- OwnPath
    MaxOps = 2
    MaxRevision = 2
    NoProc = NoProc
    NoRoot = NoRoot
INVARIANTS
    OneAtATime
    CacheCoherence
    Durable
    OperatesOnLatest
PROPERTY
    ImplementsProjectStore
