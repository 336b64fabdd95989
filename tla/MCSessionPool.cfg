\* No store, the worker: two sessions on one host, two goroutines, and room for a
\* reference of each session beside the provider's.
CONSTANTS
    HostKeys = {h1}
    Host1 = h1
    HostOf <- SameHost
    Clients = {c1, c2}
    Procs = {p1, p2}
    NoClient = NoClient
    Ids = {s1, s2}
    NoProc = NoProc
    Async = Async
    NoId = NoId
    HasStore = FALSE
    HasWorker = TRUE
    MaxRefs = 4
    MaxRestarts = 0
SPECIFICATION Spec
SYMMETRY Symmetry
CHECK_DEADLOCK FALSE
INVARIANTS
    ConnectedIsPooled
