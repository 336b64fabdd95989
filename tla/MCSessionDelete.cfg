\* One session, one goroutine, the store, one restart.
CONSTANTS
    HostKeys = {h1}
    Host1 = h1
    HostOf <- SameHost
    Clients = {c1}
    Procs = {p1}
    NoClient = NoClient
    Ids = {s1}
    NoProc = NoProc
    Async = Async
    NoId = NoId
    HasStore = TRUE
    HasWorker = FALSE
    MaxRefs = 2
    MaxRestarts = 1
SPECIFICATION Spec
CHECK_DEADLOCK FALSE
INVARIANTS
    DeletedStaysDeleted
