\* Two connections of any kind; two calls of StartMonitor, which
\* may both fall between two ticks.
CONSTANTS
    Conns = {c1, c2}
    Watchers = {w1, w2}
    Capacity = 2
SPECIFICATION Spec
CHECK_DEADLOCK FALSE
PROPERTIES
    HandlersEnd
    WatchersEnd
