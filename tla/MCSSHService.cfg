\* Three sessions of one host, so that a third may use what two race for.
CONSTANTS
    h1 = h1
    HostKeys = {h1}
    Clients = {c1, c2, c3}
    Callers = {s1, s2, s3}
    NoClient = NoClient
    Host <- OneHost
SPECIFICATION Spec
SYMMETRY Symmetry
CHECK_DEADLOCK FALSE
INVARIANTS
    UsersShareOpenClient
    OpenIsReachable
PROPERTIES
    ImplementsShared
