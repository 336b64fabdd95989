\* The store and one restart: two sessions on one host, two goroutines.
CONSTANTS
    HostKeys = {h1}
    Host1 = h1
    HostOf <- SameHost
    Clients = {c1}
    Procs = {p1, p2}
    NoClient = NoClient
    Ids = {s1, s2}
    NoProc = NoProc
    Async = Async
    NoId = NoId
    HasStore = TRUE
    HasWorker = FALSE
    MaxRefs = 2
    MaxRestarts = 1
SPECIFICATION Spec
SYMMETRY Symmetry
CHECK_DEADLOCK FALSE
INVARIANTS
    
    RegisteredIsOnDisk
