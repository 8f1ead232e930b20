\* A slot that unsubscribes itself and calls the observer.
SPECIFICATION Spec
CONSTANTS
    Threads = {t1}
    MaxSlots = 1
    MaxCalls = 2
    MaxDepth = 2
    All = All
    NoThread = NoThread
    t1 = t1
INVARIANT NestedCallsSafe
CHECK_DEADLOCK FALSE
