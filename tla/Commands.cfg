\* Five sessions, two at a time; one task and two starts, so that loops of both
\* may be about.
CONSTANTS
    N = 5
    Parallel = 2
    Tasks = {t1}
    MaxStarts = 2
SPECIFICATION CommandsSpec
CHECK_DEADLOCK FALSE
INVARIANTS
    OneRunPerDue
    DiskIsCurrent
PROPERTIES
    ImplementsJobs
    BatchReturns
    DueTaskRuns
