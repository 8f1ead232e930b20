\* Two threads that subscribe, unsubscribe, unsubscribe all and call, also from
\* the slots.
SPECIFICATION Spec
CONSTANTS
    Threads = {t1,t2}
    MaxSlots = 3
    MaxCalls = 4
    MaxDepth = 3
    All = All
    NoThread = NoThread
    t2 = t2
    t1 = t1
INVARIANTS
    WellFormed
    UnsubscribedNotRun
    NoDanglingIterator
PROPERTY RunsEveryLiveSlot
SYMMETRY Symmetry
CHECK_DEADLOCK FALSE
