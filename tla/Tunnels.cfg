\* One tunnel of either type, two goroutines, two starts.
CONSTANTS
    Tunnels = {t1}
    Procs = {p1, p2}
    NoProc = NoProc
    NoTunnel = NoTunnel
    MaxRuns = 2
SPECIFICATION FairSpec
CHECK_DEADLOCK FALSE
INVARIANTS
    ListensIffRunning
PROPERTIES
    LoopsEnd
    CloseEndsAll
