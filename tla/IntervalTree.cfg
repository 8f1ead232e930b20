\* Three endpoints and two mapped values.
SPECIFICATION Spec
CONSTANTS
    Ends <- ThreeEnds
    Points <- SevenPoints
    Default <- Zero
    Keys <- WithPoints
    CutKeys <- WithHalfOpenEmpty
    Values = {a, b}
    a = a
    b = b
INVARIANTS
    WellFormed
    LookupsExact
    InsertAssigns
    CutErases
    JoinsExact
    ArraysAgree
    OrdersAgree
SYMMETRY Symmetry
CHECK_DEADLOCK FALSE
