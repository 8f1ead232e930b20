\* One thread that calls run(2) again and again, and nobody stops the queue.
SPECIFICATION Spec
CONSTANTS
    Workers = {w1}
    Clients = {c1}
    Callers = {c1}
    Bounded = {w1}
    Hint = 2
    Durations = {1, 2}
    StopModes = {FALSE}
    MaxRegular = 2
    MaxDelayed = 2
    MaxStops = 0
    MaxNow = 0
    NoThread = NoThread
    c1 = c1
    w1 = w1
INVARIANTS
    Inductive
    Fifo
PROPERTY EarliestFirst
CHECK_DEADLOCK FALSE
