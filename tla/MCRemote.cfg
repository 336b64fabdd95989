CONSTANTS
    HostKeys = {h1, h2}
    Clients = {c1, c2, c3}
    Procs = {p1, p2, p3}
    NoClient = NoClient
    MaxHeld = 3
    SyncCallers = {i1, i2}
    Files = {top, deep, sub}
    Nested = {deep}
    Folder = sub
    Ignored = {}
    Absent = absent
    Directory = directory
    Parallel = 1
    MaxTime = 2
    MaxEdits = 2
    MaxCalls = 2
    Callers = {a, b}
    NoRecord = norecord
    Parts = 2
    MaxRecords = 2
    MaxRestarts = 1
    Machines = {m1}
    Services = {v1}
    Secrets = {x1, x2}
    Passwords = {pw1, pw2}
    NoSecret = nosecret
    Wreck = wreck
    Rings = {r1, r2}
    MaxOpenings = 2
SPECIFICATION RemoteSpec
SYMMETRY Symmetry
CHECK_DEADLOCK FALSE
INVARIANTS
    PoolConsistent
    NeverOvercounts
    ExactUnlessRaced
    NewestSurvives
    RecordIsCurrent
    SecretsReadable
PROPERTIES
    ImplementsShared
