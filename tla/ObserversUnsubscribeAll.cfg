\* unsubscribe_all and a call that acts on it, then a subscription and a call.
SPECIFICATION Spec
CONSTANTS
    Threads = {t1}
    MaxSlots = 1
    MaxCalls = 2
    MaxDepth = 1
    All = All
    NoThread = NoThread
    t1 = t1
PROPERTY SimpleCall
CHECK_DEADLOCK FALSE
