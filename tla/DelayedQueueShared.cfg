\* Two workers and a client, all fair; the client and the handlers of one of the
\* workers post, cancel, stop in both ways and reset.
SPECIFICATION FairSpec
CONSTANTS
    Workers = {w1, w2}
    Clients = {c1}
    Callers = {c1, w1}
    Bounded = {}
    Hint = 0
    Durations = {1}
    StopModes = {TRUE, FALSE}
    MaxRegular = 1
    MaxDelayed = 1
    MaxStops = 1
    MaxNow = 0
    NoThread = NoThread
    c1 = c1
    w1 = w1
    w2 = w2
INVARIANTS
    Custody
    NoLostWakeup
PROPERTIES
    EarlyOnlyWhenStopped
    ImplementsTimers
    EveryTaskServed
    StopEndsRuns
CHECK_DEADLOCK FALSE
