\* Open empty intervals are cut too.
SPECIFICATION Spec
CONSTANTS
    Ends <- ThreeEnds
    Points <- SevenPoints
    Default <- Zero
    Keys <- WithPoints
    CutKeys <- WithEmpty
    Values = {a}
    a = a
INVARIANT CutErases
CHECK_DEADLOCK FALSE
