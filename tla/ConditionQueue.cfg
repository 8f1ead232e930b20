\* Fair threads that push, take, wait, cancel and reset, one of them a consumer,
\* and a queue with either trait.
SPECIFICATION FairSpec
CONSTANTS
    Threads = {t1, t2, t3}
    Consumers = {t1}
    Traits <- BothTraits
    Rank <- SomeRanks
    MaxPushes = 3
    t1 = t1
    t2 = t2
    t3 = t3
INVARIANTS
    NoLostWakeup
    EachOnceInOrder
PROPERTIES
    CancelWakesAll
    EveryValueTaken
CHECK_DEADLOCK FALSE
