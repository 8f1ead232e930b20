\* Two attached threads and one that polls, all of which log and dispatch; levels
\* that change; a cache of one element; a stop.
SPECIFICATION FairSpec
CONSTANTS
    Threads = {a1,a2,s1}
    Attached = {a1,a2}
    Polling = {s1}
    MayStop = TRUE
    Levels = {1,2}
    MaxJobs = 2
    MaxParts = 1
    MaxChanges = 1
    MaxCache = 1
    Nothing = Nothing
    a1 = a1
    a2 = a2
    s1 = s1
INVARIANTS
    OnePlace
    Faithful
    Complete
PROPERTIES
    EveryJobOut
    StopDetaches
CHECK_DEADLOCK FALSE
