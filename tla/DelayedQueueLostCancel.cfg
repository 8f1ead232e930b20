\* A cancel against a worker that puts the task back.
SPECIFICATION Spec
CONSTANTS
    Workers = {w1}
    Clients = {c1}
    Callers = {c1}
    Bounded = {}
    Hint = 0
    Durations = {1}
    StopModes = {FALSE}
    MaxRegular = 1
    MaxDelayed = 1
    MaxStops = 0
    MaxNow = 0
    NoThread = NoThread
    c1 = c1
    w1 = w1
INVARIANT CancelDeactivates
CHECK_DEADLOCK FALSE
