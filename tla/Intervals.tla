------------------------------ MODULE Intervals ------------------------------
(***************************************************************************)
(* intervals::interval: two endpoints, each a value of the domain with an  *)
(* attribute. The domain is an interval of integers; "comparator" is <.    *)
(***************************************************************************)
EXTENDS Integers, Sequences

CONSTANTS
    Ends,      \* the values used as endpoints
    Points,    \* the values that are looked up
    Default    \* domain_type(), the value beside an infinite attribute

ASSUME DomainAssumption == Ends \subseteq Int /\ Points \subseteq Int /\ Default \in Int

\* The endpoints are looked up too, and values before, between and behind them: where
\* there is none between two, an open interval of them has no point and is not empty.
ASSUME PointsAssumption ==
    /\ Points # {} /\ Ends \subseteq Points
    /\ \A a \in Ends : (\E x \in Points : x < a) /\ (\E x \in Points : a < x)
    /\ \A a, b \in Ends : a < b => \E x \in Points : a < x /\ x < b

Attributes == {"MIN_INF", "CLOSE", "OPEN", "MAX_INF"}
Finite == {"CLOSE", "OPEN"}
Infinite == {"MIN_INF", "MAX_INF"}

Interval(lh, rh, lf, rf) == [left |-> lh, right |-> rh, lattr |-> lf, rattr |-> rf]

-----------------------------------------------------------------------------
\* Beside some definitions stands a form of them with a mistake, which nothing
\* uses: the properties have to tell the two apart.
HasInfinite(k) == k.lattr \in Infinite \/ k.rattr \in Infinite
HasOpen(k) == "OPEN" \in {k.lattr, k.rattr}
Empty(k) == ~HasInfinite(k) /\ HasOpen(k) /\ k.left = k.right
IsInfinite(k) == k.lattr = "MIN_INF" /\ k.rattr = "MAX_INF"
Degenerate(k) == k.lattr = "CLOSE" /\ k.rattr = "CLOSE" /\ k.left = k.right

Valid(k) ==
    \/ k.lattr = "MIN_INF"
    \/ k.lattr \in Finite /\ (k.rattr = "MAX_INF" \/ (k.rattr \in Finite /\ k.left =< k.right))
    \/ k.lattr = "MAX_INF" /\ k.rattr = "MAX_INF"

\* The factories give infinite endpoints the default value.
Factory ==
    {Interval(l, r, lf, rf) :
        l \in Ends \cup {Default}, r \in Ends \cup {Default}, lf \in Attributes, rf \in Attributes}
Made == {k \in Factory :
            /\ Valid(k)
            /\ k.lattr \in Infinite => k.left = Default
            /\ k.rattr \in Infinite => k.right = Default
            /\ k.lattr \in Finite => k.left \in Ends
            /\ k.rattr \in Finite => k.right \in Ends}

\* contains(value)
Greater(k, x) == x > k.left
GreaterEqual(k, x) == IF k.lattr = "CLOSE" THEN x >= k.left ELSE x > k.left
LessEqual(k, x) == IF k.rattr = "CLOSE" THEN x =< k.right ELSE x < k.right
Contains(k, x) ==
    /\ k.lattr # "MAX_INF"
    /\ k.lattr = "MIN_INF" \/ GreaterEqual(k, x)
    /\ k.rattr = "MAX_INF" \/ LessEqual(k, x)

\* contains_side: whether an endpoint of the other lies in k.
ContainsLeft(k, other) ==
    /\ other.lattr \in Finite
    /\ \/ Contains(k, other.left)
       \/ other.lattr = "OPEN" /\ k.lattr = "OPEN" /\ k.left = other.left
ContainsRight(k, other) ==
    /\ other.rattr \in Finite
    /\ \/ Contains(k, other.right)
       \/ other.rattr = "OPEN" /\ k.rattr = "OPEN" /\ k.right = other.right

ConnectedAttrSame(a) == a
ConnectedAttr(a) == CASE a = "CLOSE" -> "OPEN" [] a = "OPEN" -> "CLOSE" [] OTHER -> a

\* k begins where the other ends.
LeftConnected(k, other) ==
    /\ k.lattr \in Finite /\ other.rattr \in Finite
    /\ k.left = other.right
    /\ Empty(k) \/ Empty(other) \/ k.lattr = ConnectedAttr(other.rattr)
RightConnected(k, other) == LeftConnected(other, k)

\* What is left of k on the left and on the right of "to".
ConnectRight(k, to) == Interval(k.left, to.left, k.lattr, ConnectedAttr(to.lattr))
ConnectLeftKeepsAttr(k, to) == Interval(to.right, k.right, k.lattr, k.rattr)
ConnectLeft(k, to) == Interval(to.right, k.right, ConnectedAttr(to.rattr), k.rattr)

ReplaceLeft(k, to) == Interval(to.left, k.right, to.lattr, k.rattr)
ReplaceRight(k, to) == Interval(k.left, to.right, k.lattr, to.rattr)

\* cmp::equal
EqualSide(xattr, x, yattr, y) ==
    IF xattr \in Finite /\ yattr \in Finite THEN xattr = yattr /\ x = y ELSE xattr = yattr
Equal(k, other) ==
    /\ EqualSide(k.lattr, k.left, other.lattr, other.left)
    /\ EqualSide(k.rattr, k.right, other.rattr, other.right)

\* cmp::less, the order of the keys: by the left endpoint, then by the right one.
\* A closed endpoint begins before an open one and ends behind it.
Factor(a) == CASE a = "MIN_INF" -> 1 [] a \in Finite -> 6 [] a = "MAX_INF" -> 8
LessLeft(lh, rh) ==
    IF lh.lattr \notin Finite \/ rh.lattr \notin Finite THEN Factor(lh.lattr) < Factor(rh.lattr)
    ELSE lh.left < rh.left \/ (lh.left = rh.left /\ lh.lattr = "CLOSE" /\ rh.lattr = "OPEN")
LessRightClosedFirst(lh, rh) ==
    IF lh.rattr \notin Finite \/ rh.rattr \notin Finite THEN Factor(lh.rattr) < Factor(rh.rattr)
    ELSE lh.right < rh.right \/ (lh.right = rh.right /\ lh.rattr = "CLOSE" /\ rh.rattr = "OPEN")
LessRight(lh, rh) ==
    IF lh.rattr \notin Finite \/ rh.rattr \notin Finite THEN Factor(lh.rattr) < Factor(rh.rattr)
    ELSE lh.right < rh.right \/ (lh.right = rh.right /\ lh.rattr = "OPEN" /\ rh.rattr = "CLOSE")
CmpLess(lh, rh) ==
    IF EqualSide(lh.lattr, lh.left, rh.lattr, rh.left) THEN LessRight(lh, rh) ELSE LessLeft(lh, rh)

\* cmp_not_overlap::less, the order of the containers: lh lies before rh.
EqualEmpty(lh, rh) == Empty(lh) /\ Empty(rh) /\ lh.left = rh.left
LessFinite(lh, rh) ==
    CASE EqualEmpty(lh, rh) -> FALSE
      [] Empty(lh) /\ Degenerate(rh) -> lh.right =< rh.left
      [] Empty(rh) /\ Degenerate(lh) -> lh.right < rh.left
      [] OTHER ->
            IF lh.rattr = "OPEN" \/ rh.lattr = "OPEN" \/ Empty(lh) \/ Empty(rh)
            THEN lh.right =< rh.left ELSE lh.right < rh.left
Less(lh, rh) ==
    CASE rh.lattr = "MAX_INF" -> lh.rattr # "MAX_INF"
      [] rh.lattr = "MIN_INF" -> FALSE
      [] rh.lattr \in Finite /\ lh.rattr \in Infinite -> lh.rattr = "MIN_INF"
      [] rh.lattr \in Finite /\ lh.rattr \in Finite -> LessFinite(lh, rh)

-----------------------------------------------------------------------------
\* intervals::value, an endpoint by itself, and its orders: of two of them, and with
\* a value of the domain on either side.
EndValues == {[get |-> x, attr |-> a] : x \in Ends, a \in Attributes}

ValueLess(lh, rh) ==
    IF rh.attr \in Infinite \/ lh.attr \in Infinite
    THEN IF rh.attr = "MAX_INF" THEN lh.attr # "MAX_INF" ELSE rh.attr # "MIN_INF" /\ lh.attr = "MIN_INF"
    ELSE IF lh.attr = rh.attr THEN lh.get < rh.get ELSE lh.get =< rh.get
LessThanPoint(v, x) ==
    v.attr = "MIN_INF" \/ (v.attr = "CLOSE" /\ v.get < x) \/ (v.attr = "OPEN" /\ v.get =< x)
PointLessThan(x, v) ==
    v.attr = "MAX_INF" \/ (v.attr = "CLOSE" /\ x < v.get) \/ (v.attr = "OPEN" /\ x =< v.get)
ValueEqual(lh, rh) == lh.attr = rh.attr /\ (lh.attr \in Finite => lh.get = rh.get)
EqualsPoint(v, x) == v.attr = "CLOSE" /\ v.get = x

-----------------------------------------------------------------------------
\* The points of an interval, from what its attributes mean.
PointsOf ==
    [k \in Factory |->
        {x \in Points :
            /\ CASE k.lattr = "MIN_INF" -> TRUE [] k.lattr = "MAX_INF" -> FALSE
                 [] k.lattr = "CLOSE" -> k.left =< x [] k.lattr = "OPEN" -> k.left < x
            /\ CASE k.rattr = "MIN_INF" -> FALSE [] k.rattr = "MAX_INF" -> TRUE
                 [] k.rattr = "CLOSE" -> x =< k.right [] k.rattr = "OPEN" -> x < k.right}]
=============================================================================
