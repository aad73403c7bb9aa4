SPECIFICATION Spec
CONSTANTS
    Servers = {mcp}
    Shells = {}
    Commands = {}
    Roots = {r1, r2}
    Paths = {q}
    PathOf <- SharedPath
    MaxOps = 2
    MaxRevision = 2
    NoProc = NoProc
    NoRoot = NoRoot
INVARIANT
    Durable
