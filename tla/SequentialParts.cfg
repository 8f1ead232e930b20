\* An instance of each part without threads of its own, and of the subsystems with
\* two threads.
SPECIFICATION AllPartsSpec
CONSTANTS
    Letters <- MCLetters
    Class <- MCClass
    Values = {v0, v1}
    Default = v0
    Null = Null
    MaxKey = 2
    MaxText = 3
    Plain = {p1, p2}
    Scoped = {s1, s2}
    MaxIds = 3
    Nothing = Nothing
    Sizes <- MCSizes
    MaxSent = 2
    Width = 4
    CodePoints <- MCCodePoints
    MaxLength = 2
    Addresses = {1, 2, 3}
    Links = {l1, l2}
    Nil = Nil
    MaxSize = 4
    Simple = {x1, x2, x3}
    Lists = {y1, y2}
    Threads = {t1, t2}
    Types = {a}
    Outer = Outer
    Inner = Inner
    MaxAdded = 3
    MaxDepth = 2
    Functions = {"init", "start"}
    Missing = Missing
    NodeMax = 3
    Vals <- MCVals
INVARIANTS
    NoDeadNode
    LookupExact
    HandlesKeepSlots
    ReadInOrder
    OverloadsAgree
    ReadsBack
    MessagesPass
    NoneLeftOut
    SearchTree
PROPERTIES
    ImplementsMap
    ImplementsSequences
CHECK_DEADLOCK FALSE
