\* Liveness: one session, two goroutines, the store and the worker (no symmetry).
CONSTANTS
    HostKeys = {h1}
    Host1 = h1
    HostOf <- SameHost
    Clients = {c1}
    Procs = {p1, p2}
    NoClient = NoClient
    Ids = {s1}
    NoProc = NoProc
    Async = Async
    NoId = NoId
    HasStore = TRUE
    HasWorker = TRUE
    MaxRefs = 2
    MaxRestarts = 0
SPECIFICATION FairSpec
CHECK_DEADLOCK FALSE
INVARIANTS
    CallsNeverStuck
PROPERTIES
    CallsReturn
