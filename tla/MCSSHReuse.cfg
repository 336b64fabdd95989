\* Two sessions connect to one host at the same time.
CONSTANTS
    h1 = h1
    HostKeys = {h1}
    Clients = {c1, c2}
    Callers = {s1, s2}
    NoClient = NoClient
    Host <- OneHost
SPECIFICATION Spec
SYMMETRY Symmetry
CHECK_DEADLOCK FALSE
INVARIANTS
    ConnectsReuseClient
