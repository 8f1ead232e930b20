-------------------------- MODULE IntervalTreeProofs --------------------------
(***************************************************************************)
(* Proofs about IntervalTree, for any endpoints, keys and mapped values.   *)
(*                                                                         *)
(* Each finite end of an interval is a number, its cut, so that comparing, *)
(* touching, overlapping and what is left of an interval are comparisons   *)
(* of numbers. The inductive invariant is that the elements are intervals  *)
(* with points, each before the next (InOrder). Of such a container it is  *)
(* shown what the searches answer, then what locate() answers, what each   *)
(* operation takes out and puts in, and at last that the new elements fit  *)
(* between the ones that are left, whether the container is a map that     *)
(* ignores the hints or a vector that believes them.                       *)
(***************************************************************************)
EXTENDS IntervalTree, ListLemmas

-----------------------------------------------------------------------------
(***************************************************************************)
(* An interval lies between two cuts. A cut is before or behind a value:   *)
(* the numbers 2 x and 2 x + 1 are the cuts before and behind x.           *)
(***************************************************************************)
HasLeft(k) == k.lattr \in Finite
HasRight(k) == k.rattr \in Finite
Lo(k) == IF k.lattr = "OPEN" THEN 2 * k.left + 1 ELSE 2 * k.left
Hi(k) == IF k.rattr = "CLOSE" THEN 2 * k.right + 1 ELSE 2 * k.right

\* The intervals that a container may have: not empty, and not at an infinite end.
Proper == {k \in Made : ~Empty(k) /\ k.lattr # "MAX_INF" /\ k.rattr # "MIN_INF"}

\* What a factory makes.
LEMMA MadeIs ==
    /\ \A k \in Made : /\ k.left \in Int /\ k.right \in Int
                       /\ k.lattr \in Attributes /\ k.rattr \in Attributes
                       /\ k.lattr \in Finite => k.left \in Ends
                       /\ k.rattr \in Finite => k.right \in Ends
                       /\ k = Interval(k.left, k.right, k.lattr, k.rattr)
                       /\ Lo(k) \in Int /\ Hi(k) \in Int /\ Valid(k) /\ k \in Factory
                       /\ k.lattr \in Infinite => k.left = Default
                       /\ k.rattr \in Infinite => k.right = Default
    /\ \A l, r, lf, rf :
          /\ Valid(Interval(l, r, lf, rf)) /\ lf \in Attributes /\ rf \in Attributes
          /\ IF lf \in Finite THEN l \in Ends ELSE l = Default
          /\ IF rf \in Finite THEN r \in Ends ELSE r = Default
          => Interval(l, r, lf, rf) \in Made
<1>1. ASSUME NEW k \in Made
      PROVE  /\ k.left \in Int /\ k.right \in Int
             /\ k.lattr \in Attributes /\ k.rattr \in Attributes
             /\ k.lattr \in Finite => k.left \in Ends
             /\ k.rattr \in Finite => k.right \in Ends
             /\ k = Interval(k.left, k.right, k.lattr, k.rattr)
             /\ Valid(k) /\ k \in Factory
             /\ k.lattr \in Infinite => k.left = Default
             /\ k.rattr \in Infinite => k.right = Default
  <2>1. k \in Factory
    BY DEF Made
  <2>2. PICK l \in Ends \cup {Default}, r \in Ends \cup {Default}, lf \in Attributes, rf \in Attributes :
           k = Interval(l, r, lf, rf)
    BY <2>1 DEF Factory
  <2>3. k.left = l /\ k.right = r /\ k.lattr = lf /\ k.rattr = rf
    BY <2>2 DEF Interval
  <2> QED
    BY <2>1, <2>2, <2>3, DomainAssumption DEF Made
<1>2. ASSUME NEW k \in Made PROVE Lo(k) \in Int /\ Hi(k) \in Int
  BY <1>1 DEF Lo, Hi
<1>3. ASSUME NEW l, NEW r, NEW lf, NEW rf,
             Valid(Interval(l, r, lf, rf)), lf \in Attributes, rf \in Attributes,
             IF lf \in Finite THEN l \in Ends ELSE l = Default,
             IF rf \in Finite THEN r \in Ends ELSE r = Default
      PROVE  Interval(l, r, lf, rf) \in Made
  <2> DEFINE k == Interval(l, r, lf, rf)
  <2>1. k.left = l /\ k.right = r /\ k.lattr = lf /\ k.rattr = rf
    BY DEF Interval
  <2>2. k \in Factory
    BY <1>3 DEF Factory
  <2>3. (lf \in Infinite => lf \notin Finite) /\ (rf \in Infinite => rf \notin Finite)
    BY DEF Finite, Infinite
  <2> HIDE DEF k
  <2>4. k \in Made
    BY <1>3, <2>1, <2>2, <2>3 DEF Made, k
  <2> QED
    BY <2>4 DEF k
<1> QED
  BY <1>1, <1>2, <1>3

\* Its left cut is before its right one.
LEMMA ProperMeans ==
    ASSUME NEW k \in Proper
    PROVE  /\ k \in Made /\ Lo(k) \in Int /\ Hi(k) \in Int
           /\ HasLeft(k) /\ HasRight(k) => Lo(k) < Hi(k)
           /\ k.lattr \in Finite \cup {"MIN_INF"} /\ k.rattr \in Finite \cup {"MAX_INF"}
<1>1. k \in Made /\ Lo(k) \in Int /\ Hi(k) \in Int /\ k.left \in Int /\ k.right \in Int /\ Valid(k)
  BY MadeIs DEF Proper
<1>2. k.lattr \in Finite \cup {"MIN_INF"} /\ k.rattr \in Finite \cup {"MAX_INF"}
  BY <1>1, MadeIs DEF Proper, Attributes, Finite
<1>3. ASSUME HasLeft(k), HasRight(k) PROVE Lo(k) < Hi(k)
  <2>1. k.left =< k.right
    BY <1>1, <1>3 DEF Valid, HasLeft, HasRight, Finite
  <2>2. k.left < k.right \/ (k.lattr = "CLOSE" /\ k.rattr = "CLOSE")
    BY <1>1, <1>3, <2>1 DEF Proper, Empty, HasInfinite, HasOpen, HasLeft, HasRight, Finite, Infinite
  <2> QED
    BY <1>1, <1>3, <2>1, <2>2 DEF Lo, Hi, HasLeft, HasRight, Finite
<1> QED
  BY <1>1, <1>2, <1>3

\* The points of an interval are those between its cuts, and contains() finds them.
LEMMA PointsBetween ==
    ASSUME NEW k \in Proper, NEW x \in Int
    PROVE  /\ Contains(k, x) <=> (HasLeft(k) => Lo(k) =< 2 * x) /\ (HasRight(k) => 2 * x < Hi(k))
           /\ x \in PointsOf[k] <=> x \in Points /\ Contains(k, x)
<1>1. k \in Made /\ k \in Factory /\ k.left \in Int /\ k.right \in Int
  BY ProperMeans, MadeIs
<1>2. k.lattr \in Finite \cup {"MIN_INF"} /\ k.rattr \in Finite \cup {"MAX_INF"}
  BY ProperMeans
<1>3. Contains(k, x) <=> (HasLeft(k) => Lo(k) =< 2 * x) /\ (HasRight(k) => 2 * x < Hi(k))
  BY <1>1, <1>2 DEF Contains, GreaterEqual, LessEqual, HasLeft, HasRight, Lo, Hi, Finite
<1>4. x \in PointsOf[k] <=> x \in Points /\ Contains(k, x)
  BY <1>1, <1>2 DEF PointsOf, Contains, GreaterEqual, LessEqual, Finite
<1> QED
  BY <1>3, <1>4

\* One lies before another if its right cut is not behind the other's left one.
LEMMA LessMeans ==
    ASSUME NEW k \in Proper, NEW l \in Proper
    PROVE  Less(k, l) <=> HasRight(k) /\ HasLeft(l) /\ Hi(k) =< Lo(l)
<1>1. /\ k.left \in Int /\ k.right \in Int /\ l.left \in Int /\ l.right \in Int
      /\ ~Empty(k) /\ ~Empty(l)
  BY ProperMeans, MadeIs DEF Proper
<1>2. /\ k.rattr \in Finite \cup {"MAX_INF"} /\ l.lattr \in Finite \cup {"MIN_INF"}
  BY ProperMeans
<1>3. Less(k, l) <=> HasRight(k) /\ HasLeft(l) /\ LessFinite(k, l)
  BY <1>2 DEF Less, HasLeft, HasRight, Finite, Infinite
<1>4. LessFinite(k, l) <=> IF k.rattr = "OPEN" \/ l.lattr = "OPEN" THEN k.right =< l.left ELSE k.right < l.left
  BY <1>1 DEF LessFinite, EqualEmpty
<1>5. HasRight(k) /\ HasLeft(l) => (LessFinite(k, l) <=> Hi(k) =< Lo(l))
  BY <1>1, <1>4 DEF Lo, Hi, HasLeft, HasRight, Finite
<1> QED
  BY <1>3, <1>5

\* An interval with its left cut before its right one is proper.
LEMMA ProperIs ==
    ASSUME NEW l, NEW r, NEW lf, NEW rf,
           IF lf \in Finite THEN l \in Ends ELSE lf = "MIN_INF" /\ l = Default,
           IF rf \in Finite THEN r \in Ends ELSE rf = "MAX_INF" /\ r = Default,
           lf \in Finite /\ rf \in Finite => Lo(Interval(l, r, lf, rf)) < Hi(Interval(l, r, lf, rf))
    PROVE  Interval(l, r, lf, rf) \in Proper
<1> DEFINE k == Interval(l, r, lf, rf)
<1>1. k.left = l /\ k.right = r /\ k.lattr = lf /\ k.rattr = rf
  BY DEF Interval
<1>2. lf \in Finite \cup {"MIN_INF"} /\ rf \in Finite \cup {"MAX_INF"} /\ l \in Int /\ r \in Int
  BY DomainAssumption
<1> HIDE DEF k
<1>3. lf \in Finite /\ rf \in Finite =>
          l =< r /\ (l < r \/ (lf = "CLOSE" /\ rf = "CLOSE"))
  BY <1>1, <1>2 DEF Lo, Hi, Finite, k
<1>4. Valid(k)
  BY <1>1, <1>2, <1>3 DEF Valid, Finite
<1>5. k \in Made
  <2>1. lf \in Attributes /\ rf \in Attributes
    BY <1>2 DEF Attributes, Finite
  <2> QED
    BY <1>4, <2>1, MadeIs DEF k
<1>6. ~Empty(k)
  BY <1>1, <1>2, <1>3 DEF Empty, HasInfinite, HasOpen, Finite, Infinite
<1>7. k.lattr # "MAX_INF" /\ k.rattr # "MIN_INF"
  BY <1>1, <1>2 DEF Finite
<1> QED
  BY <1>5, <1>6, <1>7 DEF k, Proper

\* contains_side() of an element that does not lie before the other, or behind it,
\* compares cuts.
LEMMA SidesMean ==
    ASSUME NEW e \in Proper, NEW k \in Proper
    PROVE  /\ ~Less(e, k) => (ContainsLeft(e, k) <=> HasLeft(k) /\ (HasLeft(e) => Lo(e) =< Lo(k)))
           /\ ~Less(k, e) => (ContainsRight(e, k) <=> HasRight(k) /\ (HasRight(e) => Hi(k) =< Hi(e)))
           /\ Less(e, k) => ~ContainsRight(e, k)
           /\ Less(k, e) => ~ContainsLeft(e, k)
<1>1. /\ k.left \in Int /\ k.right \in Int /\ e.left \in Int /\ e.right \in Int
  BY ProperMeans, MadeIs
<1>2. /\ e.lattr \in Finite \cup {"MIN_INF"} /\ e.rattr \in Finite \cup {"MAX_INF"}
      /\ k.lattr \in Finite \cup {"MIN_INF"} /\ k.rattr \in Finite \cup {"MAX_INF"}
      /\ (HasLeft(e) /\ HasRight(e) => Lo(e) < Hi(e)) /\ (HasLeft(k) /\ HasRight(k) => Lo(k) < Hi(k))
  BY ProperMeans
<1>3. /\ Less(e, k) <=> HasRight(e) /\ HasLeft(k) /\ Hi(e) =< Lo(k)
      /\ Less(k, e) <=> HasRight(k) /\ HasLeft(e) /\ Hi(k) =< Lo(e)
  BY LessMeans
<1>4. \A x \in Int : Contains(e, x) <=> (HasLeft(e) => Lo(e) =< 2 * x) /\ (HasRight(e) => 2 * x < Hi(e))
  BY PointsBetween
<1>5. /\ ContainsLeft(e, k) <=>
             HasLeft(k) /\ \/ (HasLeft(e) => Lo(e) =< 2 * k.left) /\ (HasRight(e) => 2 * k.left < Hi(e))
                           \/ k.lattr = "OPEN" /\ e.lattr = "OPEN" /\ e.left = k.left
      /\ ContainsRight(e, k) <=>
             HasRight(k) /\ \/ (HasLeft(e) => Lo(e) =< 2 * k.right) /\ (HasRight(e) => 2 * k.right < Hi(e))
                            \/ k.rattr = "OPEN" /\ e.rattr = "OPEN" /\ e.right = k.right
  BY <1>1, <1>4 DEF ContainsLeft, ContainsRight, HasLeft, HasRight
<1>6. ASSUME ~Less(e, k) PROVE ContainsLeft(e, k) <=> HasLeft(k) /\ (HasLeft(e) => Lo(e) =< Lo(k))
  BY <1>1, <1>2, <1>3, <1>5, <1>6 DEF HasLeft, HasRight, Lo, Hi, Finite
<1>7. ASSUME ~Less(k, e) PROVE ContainsRight(e, k) <=> HasRight(k) /\ (HasRight(e) => Hi(k) =< Hi(e))
  BY <1>1, <1>2, <1>3, <1>5, <1>7 DEF HasLeft, HasRight, Lo, Hi, Finite
<1>8. Less(e, k) => ~ContainsRight(e, k)
  BY <1>1, <1>2, <1>3, <1>5 DEF HasLeft, HasRight, Lo, Hi, Finite
<1>9. Less(k, e) => ~ContainsLeft(e, k)
  BY <1>1, <1>2, <1>3, <1>5 DEF HasLeft, HasRight, Lo, Hi, Finite
<1> QED
  BY <1>6, <1>7, <1>8, <1>9

\* What is left of an element beside an interval is proper unless it is empty.
LEMMA RestsProper ==
    ASSUME NEW e \in Proper, NEW k \in Made
    PROVE  /\ ContainsLeft(e, k) /\ ~Empty(ConnectRight(e, k)) => ConnectRight(e, k) \in Proper
           /\ ContainsRight(e, k) /\ ~Empty(ConnectLeft(e, k)) => ConnectLeft(e, k) \in Proper
<1>0. e \in Made
  BY DEF Proper
<1>1. /\ e.left \in Int /\ e.right \in Int /\ k.left \in Int /\ k.right \in Int
      /\ e.lattr \in Finite \cup {"MIN_INF"} /\ e.rattr \in Finite \cup {"MAX_INF"}
      /\ e.lattr \in Finite => e.left \in Ends
      /\ e.rattr \in Finite => e.right \in Ends
      /\ k.lattr \in Finite => k.left \in Ends
      /\ k.rattr \in Finite => k.right \in Ends
      /\ e.lattr \in Infinite => e.left = Default
      /\ e.rattr \in Infinite => e.right = Default
  BY <1>0, MadeIs, ProperMeans
<1>2. ConnectedAttr("CLOSE") = "OPEN" /\ ConnectedAttr("OPEN") = "CLOSE"
  BY DEF ConnectedAttr
<1>3. ASSUME ContainsLeft(e, k), ~Empty(ConnectRight(e, k)) PROVE ConnectRight(e, k) \in Proper
  <2> DEFINE r == ConnectRight(e, k)
  <2>1. k.lattr \in Finite /\ (e.lattr \in Finite => e.left =< k.left)
    BY <1>1, <1>3 DEF ContainsLeft, Contains, GreaterEqual, Finite
  <2>2. r.left = e.left /\ r.right = k.left /\ r.lattr = e.lattr /\ r.rattr = ConnectedAttr(k.lattr)
    BY DEF ConnectRight, Interval
  <2>3. ConnectedAttr(k.lattr) \in Finite
    BY <1>2, <2>1 DEF Finite
  <2>4. r.lattr \in Finite => Lo(r) < Hi(r)
    <3> HIDE DEF r
    <3>1. ~Empty(r)
      BY <1>3 DEF r
    <3> QED
      BY <1>1, <2>1, <2>2, <2>3, <3>1 DEF Empty, HasInfinite, HasOpen, Lo, Hi, Finite, Infinite
  <2>5. /\ IF e.lattr \in Finite THEN e.left \in Ends ELSE e.lattr = "MIN_INF" /\ e.left = Default
        /\ k.left \in Ends
    BY <1>1, <2>1 DEF Infinite
  <2> QED
    BY <2>2, <2>3, <2>4, <2>5, ProperIs DEF ConnectRight
<1>4. ASSUME ContainsRight(e, k), ~Empty(ConnectLeft(e, k)) PROVE ConnectLeft(e, k) \in Proper
  <2> DEFINE r == ConnectLeft(e, k)
  <2>1. k.rattr \in Finite /\ (e.rattr \in Finite => k.right =< e.right)
    BY <1>1, <1>4 DEF ContainsRight, Contains, LessEqual, Finite
  <2>2. r.left = k.right /\ r.right = e.right /\ r.rattr = e.rattr /\ r.lattr = ConnectedAttr(k.rattr)
    BY DEF ConnectLeft, Interval
  <2>3. ConnectedAttr(k.rattr) \in Finite
    BY <1>2, <2>1 DEF Finite
  <2>4. r.rattr \in Finite => Lo(r) < Hi(r)
    <3> HIDE DEF r
    <3>1. ~Empty(r)
      BY <1>4 DEF r
    <3> QED
      BY <1>1, <2>1, <2>2, <2>3, <3>1 DEF Empty, HasInfinite, HasOpen, Lo, Hi, Finite, Infinite
  <2>5. /\ IF e.rattr \in Finite THEN e.right \in Ends ELSE e.rattr = "MAX_INF" /\ e.right = Default
        /\ k.right \in Ends
    BY <1>1, <2>1 DEF Infinite
  <2> QED
    BY <2>2, <2>3, <2>4, <2>5, ProperIs DEF ConnectLeft
<1> QED
  BY <1>3, <1>4

\* What is left beside k ends, or begins, at k's cut.
LEMMA RestsMean ==
    ASSUME NEW e \in Proper, NEW k \in Made
    PROVE  /\ HasLeft(k) =>
                 LET r == ConnectRight(e, k)
                 IN  /\ HasLeft(r) <=> HasLeft(e)
                     /\ Lo(r) = Lo(e) /\ HasRight(r) /\ Hi(r) = Lo(k)
                     /\ (HasLeft(e) => Lo(e) =< Lo(k)) => (Empty(r) <=> HasLeft(e) /\ Lo(e) = Lo(k))
           /\ HasRight(k) =>
                 LET r == ConnectLeft(e, k)
                 IN  /\ HasRight(r) <=> HasRight(e)
                     /\ Hi(r) = Hi(e) /\ HasLeft(r) /\ Lo(r) = Hi(k)
                     /\ (HasRight(e) => Hi(k) =< Hi(e)) => (Empty(r) <=> HasRight(e) /\ Hi(e) = Hi(k))
<1>1. /\ e.left \in Int /\ e.right \in Int /\ k.left \in Int /\ k.right \in Int
      /\ e.lattr \in Finite \cup {"MIN_INF"} /\ e.rattr \in Finite \cup {"MAX_INF"}
  BY MadeIs, ProperMeans
<1>2. ConnectedAttr("CLOSE") = "OPEN" /\ ConnectedAttr("OPEN") = "CLOSE"
  BY DEF ConnectedAttr
<1>3. ASSUME HasLeft(k), NEW r, r = ConnectRight(e, k)
      PROVE  /\ HasLeft(r) <=> HasLeft(e)
             /\ Lo(r) = Lo(e) /\ HasRight(r) /\ Hi(r) = Lo(k)
             /\ (HasLeft(e) => Lo(e) =< Lo(k)) => (Empty(r) <=> HasLeft(e) /\ Lo(e) = Lo(k))
  <2>1. r.left = e.left /\ r.right = k.left /\ r.lattr = e.lattr /\ r.rattr = ConnectedAttr(k.lattr)
    BY <1>3 DEF ConnectRight, Interval
  <2>2. k.lattr \in Finite /\ r.rattr = IF k.lattr = "OPEN" THEN "CLOSE" ELSE "OPEN"
    BY <1>1, <1>2, <1>3, <2>1 DEF HasLeft, Finite
  <2> QED
    BY <1>1, <1>3, <2>1, <2>2 DEF Empty, HasInfinite, HasOpen, HasLeft, HasRight, Lo, Hi, Finite, Infinite
<1>4. ASSUME HasRight(k), NEW r, r = ConnectLeft(e, k)
      PROVE  /\ HasRight(r) <=> HasRight(e)
             /\ Hi(r) = Hi(e) /\ HasLeft(r) /\ Lo(r) = Hi(k)
             /\ (HasRight(e) => Hi(k) =< Hi(e)) => (Empty(r) <=> HasRight(e) /\ Hi(e) = Hi(k))
  <2>1. r.left = k.right /\ r.right = e.right /\ r.rattr = e.rattr /\ r.lattr = ConnectedAttr(k.rattr)
    BY <1>4 DEF ConnectLeft, Interval
  <2>2. k.rattr \in Finite /\ r.lattr = IF k.rattr = "OPEN" THEN "CLOSE" ELSE "OPEN"
    BY <1>1, <1>2, <1>4, <2>1 DEF HasRight, Finite
  <2> QED
    BY <1>1, <1>4, <2>1, <2>2 DEF Empty, HasInfinite, HasOpen, HasLeft, HasRight, Lo, Hi, Finite, Infinite
<1> QED
  BY <1>3, <1>4

\* Taking over the left, or the right, end of another interval.
LEMMA ReplacedMeans ==
    ASSUME NEW k \in Proper, NEW e \in Proper
    PROVE  /\ LET r == ReplaceLeft(k, e)
              IN  /\ HasLeft(r) <=> HasLeft(e)
                  /\ HasRight(r) <=> HasRight(k)
                  /\ Lo(r) = Lo(e) /\ Hi(r) = Hi(k)
                  /\ (HasLeft(e) /\ HasRight(k) => Lo(e) < Hi(k)) => r \in Proper
           /\ LET r == ReplaceRight(k, e)
              IN  /\ HasLeft(r) <=> HasLeft(k)
                  /\ HasRight(r) <=> HasRight(e)
                  /\ Lo(r) = Lo(k) /\ Hi(r) = Hi(e)
                  /\ (HasLeft(k) /\ HasRight(e) => Lo(k) < Hi(e)) => r \in Proper
<1>0. k \in Made /\ e \in Made
  BY DEF Proper
<1>1. /\ e.lattr \in Finite \cup {"MIN_INF"} /\ e.rattr \in Finite \cup {"MAX_INF"}
      /\ k.lattr \in Finite \cup {"MIN_INF"} /\ k.rattr \in Finite \cup {"MAX_INF"}
      /\ e.lattr \in Finite => e.left \in Ends
      /\ e.rattr \in Finite => e.right \in Ends
      /\ k.lattr \in Finite => k.left \in Ends
      /\ k.rattr \in Finite => k.right \in Ends
      /\ e.lattr \in Infinite => e.left = Default
      /\ e.rattr \in Infinite => e.right = Default
      /\ k.lattr \in Infinite => k.left = Default
      /\ k.rattr \in Infinite => k.right = Default
      /\ k = Interval(k.left, k.right, k.lattr, k.rattr)
  BY <1>0, MadeIs, ProperMeans
<1>2. ReplaceLeft(k, e) = Interval(e.left, k.right, e.lattr, k.rattr)
  BY DEF ReplaceLeft
<1>3. ReplaceRight(k, e) = Interval(k.left, e.right, k.lattr, e.rattr)
  BY DEF ReplaceRight
<1>4. /\ IF e.lattr \in Finite THEN e.left \in Ends ELSE e.lattr = "MIN_INF" /\ e.left = Default
      /\ IF k.lattr \in Finite THEN k.left \in Ends ELSE k.lattr = "MIN_INF" /\ k.left = Default
      /\ IF e.rattr \in Finite THEN e.right \in Ends ELSE e.rattr = "MAX_INF" /\ e.right = Default
      /\ IF k.rattr \in Finite THEN k.right \in Ends ELSE k.rattr = "MAX_INF" /\ k.right = Default
  BY <1>1 DEF Infinite
<1>5. ASSUME NEW r, r = Interval(e.left, k.right, e.lattr, k.rattr)
      PROVE  /\ HasLeft(r) <=> HasLeft(e)
             /\ HasRight(r) <=> HasRight(k)
             /\ Lo(r) = Lo(e) /\ Hi(r) = Hi(k)
             /\ (HasLeft(e) /\ HasRight(k) => Lo(e) < Hi(k)) => r \in Proper
  <2>1. r.left = e.left /\ r.right = k.right /\ r.lattr = e.lattr /\ r.rattr = k.rattr
    BY <1>5 DEF Interval
  <2>2. (HasLeft(r) <=> HasLeft(e)) /\ (HasRight(r) <=> HasRight(k)) /\ Lo(r) = Lo(e) /\ Hi(r) = Hi(k)
    BY <2>1 DEF HasLeft, HasRight, Lo, Hi
  <2>3. (HasLeft(e) /\ HasRight(k) => Lo(e) < Hi(k)) => r \in Proper
    BY <1>4, <1>5, <2>2, ProperIs DEF HasLeft, HasRight
  <2> QED
    BY <2>2, <2>3
<1>6. ASSUME NEW r, r = Interval(k.left, e.right, k.lattr, e.rattr)
      PROVE  /\ HasLeft(r) <=> HasLeft(k)
             /\ HasRight(r) <=> HasRight(e)
             /\ Lo(r) = Lo(k) /\ Hi(r) = Hi(e)
             /\ (HasLeft(k) /\ HasRight(e) => Lo(k) < Hi(e)) => r \in Proper
  <2>1. r.left = k.left /\ r.right = e.right /\ r.lattr = k.lattr /\ r.rattr = e.rattr
    BY <1>6 DEF Interval
  <2>2. (HasLeft(r) <=> HasLeft(k)) /\ (HasRight(r) <=> HasRight(e)) /\ Lo(r) = Lo(k) /\ Hi(r) = Hi(e)
    BY <2>1 DEF HasLeft, HasRight, Lo, Hi
  <2>3. (HasLeft(k) /\ HasRight(e) => Lo(k) < Hi(e)) => r \in Proper
    BY <1>4, <1>6, <2>2, ProperIs DEF HasLeft, HasRight
  <2> QED
    BY <2>2, <2>3
<1> QED
  BY <1>2, <1>3, <1>5, <1>6

\* An empty interval lies behind what ends at its place or before, but for the interval
\* of this one value, and before what begins there or later.
LEMMA EmptyMeans ==
    ASSUME NEW e \in Proper, NEW k \in Made, Empty(k)
    PROVE  /\ Less(k, e) <=> HasLeft(e) /\ k.left =< e.left
           /\ Less(e, k) <=> HasRight(e) /\ (HasLeft(e) => e.left < k.left) /\ e.right =< k.left
<1>1. /\ e.left \in Int /\ e.right \in Int /\ k.left \in Int /\ k.right \in Int
      /\ e.lattr \in Finite \cup {"MIN_INF"} /\ e.rattr \in Finite \cup {"MAX_INF"} /\ ~Empty(e)
      /\ (HasLeft(e) /\ HasRight(e) => Lo(e) < Hi(e))
      /\ k.lattr \in Attributes /\ k.rattr \in Attributes
  BY MadeIs, ProperMeans DEF Proper
<1>2. k.lattr \in Finite /\ k.rattr \in Finite /\ k.left = k.right
  BY <1>1 DEF Empty, HasInfinite, Attributes, Finite, Infinite
<1>3. HasLeft(e) /\ HasRight(e) => e.left =< e.right /\ (e.left = e.right <=> Degenerate(e))
  BY <1>1 DEF HasLeft, HasRight, Lo, Hi, Finite, Degenerate
<1>4. LessFinite(k, e) <=> k.left =< e.left
  BY <1>1, <1>2 DEF LessFinite, EqualEmpty
<1>5. LessFinite(e, k) <=> IF Degenerate(e) THEN e.right < k.left ELSE e.right =< k.left
  BY <1>1, <1>2 DEF LessFinite, EqualEmpty
<1>6. Less(k, e) <=> HasLeft(e) /\ LessFinite(k, e)
  BY <1>1, <1>2 DEF Less, HasLeft, Finite, Infinite
<1>7. Less(e, k) <=> HasRight(e) /\ LessFinite(e, k)
  BY <1>1, <1>2 DEF Less, HasRight, Finite, Infinite
<1>8. Degenerate(e) => HasLeft(e) /\ HasRight(e) /\ e.left = e.right
  BY DEF Degenerate, HasLeft, HasRight, Finite
<1> QED
  BY <1>1, <1>2, <1>3, <1>4, <1>5, <1>6, <1>7, <1>8

\* Of elements one before the other every interval made is a divider, whether it has
\* points or not.
LEMMA KeysDivide ==
    ASSUME NEW e \in Proper, NEW f \in Proper, NEW k \in Made
    PROVE  /\ ~(Less(e, k) /\ Less(k, e))
           /\ Less(e, f) => (Less(f, k) => Less(e, k)) /\ (Less(k, e) => Less(k, f))
<1>1. /\ Lo(e) \in Int /\ Hi(e) \in Int /\ (HasLeft(e) /\ HasRight(e) => Lo(e) < Hi(e))
      /\ Lo(f) \in Int /\ Hi(f) \in Int /\ (HasLeft(f) /\ HasRight(f) => Lo(f) < Hi(f))
      /\ e.left \in Int /\ e.right \in Int /\ f.left \in Int /\ f.right \in Int /\ k.left \in Int
      /\ e.lattr \in Finite \cup {"MIN_INF"} /\ e.rattr \in Finite \cup {"MAX_INF"}
      /\ f.lattr \in Finite \cup {"MIN_INF"} /\ f.rattr \in Finite \cup {"MAX_INF"}
      /\ k.lattr \in Attributes /\ k.rattr \in Attributes /\ Valid(k)
  BY ProperMeans, MadeIs
<1>2. Less(e, f) <=> HasRight(e) /\ HasLeft(f) /\ Hi(e) =< Lo(f)
  BY LessMeans
<1>3. CASE k \in Proper
  <2>1. /\ Lo(k) \in Int /\ Hi(k) \in Int /\ (HasLeft(k) /\ HasRight(k) => Lo(k) < Hi(k))
        /\ Less(e, k) <=> HasRight(e) /\ HasLeft(k) /\ Hi(e) =< Lo(k)
        /\ Less(k, e) <=> HasRight(k) /\ HasLeft(e) /\ Hi(k) =< Lo(e)
        /\ Less(f, k) <=> HasRight(f) /\ HasLeft(k) /\ Hi(f) =< Lo(k)
        /\ Less(k, f) <=> HasRight(k) /\ HasLeft(f) /\ Hi(k) =< Lo(f)
    BY <1>3, LessMeans, ProperMeans
  <2> QED
    BY <1>1, <1>2, <2>1
<1>4. CASE Empty(k)
  <2>1. /\ Less(k, e) <=> HasLeft(e) /\ k.left =< e.left
        /\ Less(e, k) <=> HasRight(e) /\ (HasLeft(e) => e.left < k.left) /\ e.right =< k.left
        /\ Less(k, f) <=> HasLeft(f) /\ k.left =< f.left
        /\ Less(f, k) <=> HasRight(f) /\ (HasLeft(f) => f.left < k.left) /\ f.right =< k.left
    BY <1>4, EmptyMeans
  <2>2. /\ HasLeft(e) /\ HasRight(e) => e.left =< e.right
        /\ HasRight(e) /\ HasLeft(f) /\ Hi(e) =< Lo(f) => e.right =< f.left
    BY <1>1 DEF HasLeft, HasRight, Lo, Hi, Finite
  <2> QED
    BY <1>1, <1>2, <2>1, <2>2
<1>5. CASE k.lattr = "MAX_INF"
  <2>1. k.rattr = "MAX_INF"
    BY <1>1, <1>5 DEF Valid, Finite
  <2>2. \A g \in Proper : /\ Less(g, k) <=> HasRight(g)
                          /\ ~Less(k, g)
    <3>1. TAKE g \in Proper
    <3>2. g.lattr \in Finite \cup {"MIN_INF"} /\ g.rattr \in Finite \cup {"MAX_INF"}
      BY ProperMeans
    <3> QED
      BY <1>5, <2>1, <3>2 DEF Less, HasRight, Finite, Infinite
  <2> QED
    BY <1>2, <2>2
<1>6. CASE k.rattr = "MIN_INF"
  <2>1. k.lattr = "MIN_INF"
    BY <1>1, <1>6 DEF Valid, Finite
  <2>2. \A g \in Proper : /\ ~Less(g, k)
                          /\ Less(k, g) <=> HasLeft(g)
    <3>1. TAKE g \in Proper
    <3>2. g.lattr \in Finite \cup {"MIN_INF"} /\ g.rattr \in Finite \cup {"MAX_INF"}
      BY ProperMeans
    <3> QED
      BY <1>6, <2>1, <3>2 DEF Less, HasLeft, Finite, Infinite
  <2> QED
    BY <1>2, <2>2
<1> QED
  BY <1>3, <1>4, <1>5, <1>6 DEF Proper

-----------------------------------------------------------------------------
(***************************************************************************)
(* Containers in order.                                                    *)
(***************************************************************************)
Held == [key : Proper, val : Values]
Ordered(c) == \A i, j \in 1 .. Len(c) : i < j => Less(c[i].key, c[j].key)
InOrder(c) == c \in Seq(Held) /\ Ordered(c)
Elements(c) == {c[i] : i \in 1 .. Len(c)}

\* Neither overlaps the other.
Apart(e, f) == Less(e.key, f.key) \/ Less(f.key, e.key)

\* The first of a set of positions.
LEMMA FirstIs ==
    ASSUME NEW T \in SUBSET Nat, NEW i
    PROVE  /\ T = {} => FirstOr(i, T) = i
           /\ T # {} => FirstOr(i, T) \in T /\ \A l \in T : FirstOr(i, T) =< l
<1>1. T # {} => \E j \in T : \A l \in T : j =< l
  BY LeastNumber
<1> QED
  BY <1>1 DEF FirstOr

\* What a sequence of elements has at its positions.
LEMMA ElementsAre ==
    ASSUME NEW c \in Seq(Held)
    PROVE  /\ Len(c) \in Nat /\ DOMAIN c = 1 .. Len(c)
           /\ \A i \in 1 .. Len(c) : /\ c[i] \in Held /\ c[i].key \in Proper /\ c[i].key \in Made
                                     /\ c[i].val \in Values /\ c[i] \in Elements(c)
<1>1. Len(c) \in Nat /\ DOMAIN c = 1 .. Len(c) /\ \A i \in 1 .. Len(c) : c[i] \in Held
  BY LenProperties, ElementOfSeq
<1>2. \A i \in 1 .. Len(c) : c[i].key \in Proper /\ c[i].key \in Made /\ c[i].val \in Values
  BY <1>1 DEF Held, Proper
<1> QED
  BY <1>1, <1>2 DEF Elements

\* The searches divide a container in order, for any divider of elements.
Divides(k) ==
    \A e, f \in Proper :
        /\ ~(Less(e, k) /\ Less(k, e))
        /\ Less(e, f) => (Less(f, k) => Less(e, k)) /\ (Less(k, e) => Less(k, f))
Bounded(c, k) ==
    /\ LowerBound(c, k) \in 1 .. Len(c) + 1
    /\ \A i \in 1 .. Len(c) : Less(c[i].key, k) <=> i < LowerBound(c, k)
    /\ UpperBound(c, k) \in 1 .. Len(c) + 1
    /\ \A i \in 1 .. Len(c) : Less(k, c[i].key) <=> i >= UpperBound(c, k)
    /\ LowerBound(c, k) =< UpperBound(c, k)

\* The searches answer the places between which such a key lies.
LEMMA DividersBound == ASSUME NEW c, InOrder(c), NEW k, Divides(k) PROVE Bounded(c, k)
<1>1. /\ Len(c) \in Nat /\ DOMAIN c = 1 .. Len(c)
      /\ \A i \in 1 .. Len(c) : c[i].key \in Proper
  BY ElementsAre DEF InOrder
<1>2. \A i \in 1 .. Len(c) : ~(Less(c[i].key, k) /\ Less(k, c[i].key))
  BY <1>1 DEF Divides
<1>3. \A i, j \in 1 .. Len(c) : i < j =>
          (Less(c[j].key, k) => Less(c[i].key, k)) /\ (Less(k, c[i].key) => Less(k, c[j].key))
  BY <1>1 DEF InOrder, Ordered, Divides
<1> DEFINE L == {i \in DOMAIN c : ~Less(c[i].key, k)}
           U == {i \in DOMAIN c : Less(k, c[i].key)}
           l == FirstOr(Len(c) + 1, L)
           u == FirstOr(Len(c) + 1, U)
<1>0. L \in SUBSET Nat /\ U \in SUBSET Nat
  BY <1>1
<1>4. /\ L = {} => l = Len(c) + 1
      /\ L # {} => l \in L /\ \A i \in L : l =< i
  <2> HIDE DEF L
  <2> QED
    BY <1>0, FirstIs
<1>5. /\ U = {} => u = Len(c) + 1
      /\ U # {} => u \in U /\ \A i \in U : u =< i
  <2> HIDE DEF U
  <2> QED
    BY <1>0, FirstIs
<1>6. l = LowerBound(c, k) /\ u = UpperBound(c, k)
  BY DEF LowerBound, UpperBound
<1> HIDE DEF l, u
<1>7. l \in 1 .. Len(c) + 1 /\ u \in 1 .. Len(c) + 1
  BY <1>1, <1>4, <1>5
<1>8. \A i \in 1 .. Len(c) : Less(c[i].key, k) <=> i < l
  <2>1. TAKE i \in 1 .. Len(c)
  <2>2. i < l => i \notin L
    BY <1>1, <1>4
  <2>3. i >= l => l \in L
    BY <1>1, <1>4, <1>7
  <2>4. i > l => ~Less(c[i].key, k)
    BY <1>1, <1>3, <1>7, <2>3
  <2> QED
    BY <1>1, <1>7, <2>2, <2>3, <2>4
<1>9. \A i \in 1 .. Len(c) : Less(k, c[i].key) <=> i >= u
  <2>1. TAKE i \in 1 .. Len(c)
  <2>2. i < u => i \notin U
    BY <1>1, <1>5
  <2>3. i >= u => u \in U
    BY <1>1, <1>5, <1>7
  <2>4. i > u => Less(k, c[i].key)
    BY <1>1, <1>3, <1>7, <2>3
  <2> QED
    BY <1>1, <1>7, <2>2, <2>3, <2>4
<1>10. l =< u
  <2>1. SUFFICES ASSUME u < l PROVE FALSE
    BY <1>1, <1>7
  <2>2. u \in 1 .. Len(c) /\ u >= u
    BY <1>1, <1>7, <2>1
  <2> QED
    BY <1>2, <1>8, <1>9, <2>1, <2>2
<1> QED
  BY <1>6, <1>7, <1>8, <1>9, <1>10 DEF Bounded

\* Keys, whatever their attributes, are such dividers.
LEMMA BoundsDivide ==
    ASSUME NEW c, InOrder(c), NEW k \in Made
    PROVE  /\ LowerBound(c, k) \in 1 .. Len(c) + 1
           /\ \A i \in 1 .. Len(c) : Less(c[i].key, k) <=> i < LowerBound(c, k)
           /\ UpperBound(c, k) \in 1 .. Len(c) + 1
           /\ \A i \in 1 .. Len(c) : Less(k, c[i].key) <=> i >= UpperBound(c, k)
           /\ LowerBound(c, k) =< UpperBound(c, k)
<1>1. Divides(k)
  BY KeysDivide DEF Divides
<1> QED
  BY <1>1, DividersBound DEF Bounded

\* A stretch of a sequence.
LEMMA StretchIs ==
    ASSUME NEW S, NEW c \in Seq(S), NEW m \in 1 .. Len(c) + 1, NEW n \in m - 1 .. Len(c),
           NEW z \in Nat, m + z = n + 1
    PROVE  /\ SubSeq(c, m, n) \in Seq(S) /\ Len(SubSeq(c, m, n)) = z
           /\ \A j \in 1 .. z : SubSeq(c, m, n)[j] = c[m + j - 1]
<1>1. Len(c) \in Nat /\ \A j \in 1 .. Len(c) : c[j] \in S
  BY LenProperties, ElementOfSeq
<1>2. m \in Int /\ n \in Int
  BY <1>1
<1>3. \A j \in m .. n : c[j] \in S
  <2>1. TAKE j \in m .. n
  <2>2. j \in 1 .. Len(c)
    BY <1>1, <1>2
  <2> QED
    BY <1>1, <2>2
<1>4. /\ SubSeq(c, m, n) \in Seq(S)
      /\ Len(SubSeq(c, m, n)) = IF m <= n THEN n - m + 1 ELSE 0
      /\ \A j \in 1 .. n - m + 1 : SubSeq(c, m, n)[j] = c[m + j - 1]
  BY <1>2, <1>3, SubSeqProperties
<1>5. n - m + 1 = z /\ (~(m <= n) => z = 0)
  BY <1>1, <1>2
<1> QED
  BY <1>2, <1>4, <1>5

\* d is c with e put in at i; d is c without "gap" elements from the place "from" on.
Grown(d, c, i, e) ==
    /\ d \in Seq(Held) /\ Len(d) = Len(c) + 1 /\ d[i] = e
    /\ \A j \in 1 .. Len(c) : d[IF j < i THEN j ELSE j + 1] = c[j]
    /\ \A j \in 1 .. Len(d) : j # i => d[j] = c[IF j < i THEN j ELSE j - 1]
Gapped(d, c, from, gap) ==
    /\ d \in Seq(Held) /\ Len(d) + gap = Len(c)
    /\ \A j \in 1 .. Len(d) : d[j] = c[IF j < from THEN j ELSE j + gap]

\* InsertAt() puts an element in.
LEMMA InsertAtGrows ==
    ASSUME NEW c \in Seq(Held), NEW i \in 1 .. Len(c) + 1, NEW e \in Held
    PROVE  Grown(SE!InsertAt(c, i, e), c, i, e)
<1> DEFINE a == SubSeq(c, 1, i - 1)
           b == SubSeq(c, i, Len(c))
           m == <<e>>
           d == SE!InsertAt(c, i, e)
<1>1. Len(c) \in Nat
  BY LenProperties
<1> DEFINE y == i - 1
           z == Len(c) + 1 - i
<1>2. y \in Nat /\ z \in Nat /\ i = y + 1 /\ Len(c) = y + z
  BY <1>1
<1>3. a \in Seq(Held) /\ Len(a) = y /\ \A j \in 1 .. y : a[j] = c[j]
  <2>1. /\ SubSeq(c, 1, i - 1) \in Seq(Held) /\ Len(SubSeq(c, 1, i - 1)) = y
        /\ \A j \in 1 .. y : SubSeq(c, 1, i - 1)[j] = c[1 + j - 1]
    <3>1. 1 \in 1 .. Len(c) + 1 /\ i - 1 \in 1 - 1 .. Len(c) /\ 1 + y = (i - 1) + 1
      BY <1>1
    <3> HIDE DEF y
    <3> QED
      BY <1>2, <3>1, StretchIs
  <2>2. \A j \in 1 .. y : 1 + j - 1 = j
    BY <1>2
  <2> QED
    BY <2>1, <2>2
<1>4. b \in Seq(Held) /\ Len(b) = z /\ \A j \in 1 .. z : b[j] = c[y + j]
  <2>1. /\ SubSeq(c, i, Len(c)) \in Seq(Held) /\ Len(SubSeq(c, i, Len(c))) = z
        /\ \A j \in 1 .. z : SubSeq(c, i, Len(c))[j] = c[i + j - 1]
    <3>1. i \in 1 .. Len(c) + 1 /\ Len(c) \in i - 1 .. Len(c) /\ i + z = Len(c) + 1
      BY <1>1, <1>2
    <3> HIDE DEF z
    <3> QED
      BY <1>2, <3>1, StretchIs
  <2>2. \A j \in 1 .. z : i + j - 1 = y + j
    BY <1>2
  <2> QED
    BY <2>1, <2>2
<1>5. m \in Seq(Held) /\ Len(m) = 1 /\ m[1] = e
  OBVIOUS
<1>6. d = (a \o m) \o b
  BY DEF SE!InsertAt
<1> HIDE DEF a, b, m, d, y, z
<1>7. /\ a \o m \in Seq(Held) /\ Len(a \o m) = y + 1
      /\ \A j \in 1 .. y + 1 : (a \o m)[j] = IF j <= y THEN a[j] ELSE m[j - y]
  <2>1. /\ a \o m \in Seq(Held) /\ Len(a \o m) = Len(a) + Len(m)
        /\ \A j \in 1 .. Len(a) + Len(m) : (a \o m)[j] = IF j <= Len(a) THEN a[j] ELSE m[j - Len(a)]
    BY <1>3, <1>5, ConcatProperties
  <2> QED
    BY <1>3, <1>5, <2>1
<1>8. /\ d \in Seq(Held) /\ Len(d) = (y + 1) + z
      /\ \A j \in 1 .. (y + 1) + z : d[j] = IF j <= y + 1 THEN (a \o m)[j] ELSE b[j - (y + 1)]
  <2> DEFINE am == a \o m
  <2> HIDE DEF am
  <2>1. /\ am \o b \in Seq(Held) /\ Len(am \o b) = Len(am) + Len(b)
        /\ \A j \in 1 .. Len(am) + Len(b) : (am \o b)[j] = IF j <= Len(am) THEN am[j] ELSE b[j - Len(am)]
    <3>1. am \in Seq(Held)
      BY <1>7 DEF am
    <3> QED
      BY <1>4, <3>1, ConcatProperties
  <2>2. Len(am) = y + 1 /\ d = am \o b
    BY <1>6, <1>7 DEF am
  <2>3. /\ d \in Seq(Held) /\ Len(d) = (y + 1) + z
        /\ \A j \in 1 .. (y + 1) + z : d[j] = IF j <= y + 1 THEN am[j] ELSE b[j - (y + 1)]
    BY <1>4, <2>1, <2>2
  <2> QED
    BY <2>3 DEF am
<1>9. Len(d) = Len(c) + 1
  BY <1>2, <1>8
<1>10. d[i] = e
  <2>1. i \in 1 .. y + 1 /\ i \in 1 .. (y + 1) + z /\ i - y = 1 /\ ~(i <= y) /\ i <= y + 1
    BY <1>2
  <2> QED
    BY <1>5, <1>7, <1>8, <2>1
<1>11. ASSUME NEW j \in 1 .. Len(c), j < i PROVE d[j] = c[j]
  <2>1. j \in 1 .. y /\ j \in 1 .. y + 1 /\ j \in 1 .. (y + 1) + z /\ j <= y /\ j <= y + 1
    BY <1>2, <1>11
  <2> QED
    BY <1>3, <1>7, <1>8, <2>1
<1>12. ASSUME NEW j \in 1 .. Len(c), ~(j < i) PROVE d[j + 1] = c[j]
  <2>1. j + 1 \in 1 .. (y + 1) + z /\ ~(j + 1 <= y + 1) /\ j - y \in 1 .. z /\ (j + 1) - (y + 1) = j - y /\ y + (j - y) = j
    BY <1>2, <1>12
  <2> QED
    BY <1>4, <1>8, <2>1
<1>13. ASSUME NEW j \in 1 .. Len(d), j # i PROVE d[j] = c[IF j < i THEN j ELSE j - 1]
  <2>1. CASE j < i
    <3>1. j \in 1 .. Len(c)
      BY <1>2, <1>9, <2>1
    <3> QED
      BY <1>11, <2>1, <3>1
  <2>2. CASE ~(j < i)
    <3>1. j - 1 \in 1 .. Len(c) /\ ~(j - 1 < i) /\ (j - 1) + 1 = j
      BY <1>2, <1>9, <1>13, <2>2
    <3> QED
      BY <1>12, <2>2, <3>1
  <2> QED
    BY <2>1, <2>2
<1>14. Grown(d, c, i, e)
  BY <1>8, <1>9, <1>10, <1>11, <1>12, <1>13 DEF Grown
<1> QED
  BY <1>14 DEF d

\* What is before a stretch and what is behind it, put together, lacks the stretch.
LEMMA ErasedIsGapped ==
    ASSUME NEW c \in Seq(Held), NEW from \in 1 .. Len(c) + 1, NEW gap \in Nat, from + gap =< Len(c) + 1,
           NEW to, to = from + gap
    PROVE  Gapped(SubSeq(c, 1, from - 1) \o SubSeq(c, to, Len(c)), c, from, gap)
<1> DEFINE a == SubSeq(c, 1, from - 1)
           b == SubSeq(c, to, Len(c))
           d == a \o b
<1>1. Len(c) \in Nat
  BY LenProperties
<1> DEFINE y == from - 1
           z == Len(c) + 1 - to
<1>2. y \in Nat /\ z \in Nat /\ from = y + 1 /\ Len(c) = y + gap + z /\ to = y + 1 + gap /\ to \in 1 .. Len(c) + 1
  BY <1>1
<1>3. a \in Seq(Held) /\ Len(a) = y /\ \A j \in 1 .. y : a[j] = c[j]
  <2>1. /\ SubSeq(c, 1, from - 1) \in Seq(Held) /\ Len(SubSeq(c, 1, from - 1)) = y
        /\ \A j \in 1 .. y : SubSeq(c, 1, from - 1)[j] = c[1 + j - 1]
    <3>1. 1 \in 1 .. Len(c) + 1 /\ from - 1 \in 1 - 1 .. Len(c) /\ 1 + y = (from - 1) + 1
      BY <1>1
    <3> HIDE DEF y
    <3> QED
      BY <1>2, <3>1, StretchIs
  <2>2. \A j \in 1 .. y : 1 + j - 1 = j
    BY <1>2
  <2> QED
    BY <2>1, <2>2
<1>4. b \in Seq(Held) /\ Len(b) = z /\ \A j \in 1 .. z : b[j] = c[y + gap + j]
  <2>1. /\ SubSeq(c, to, Len(c)) \in Seq(Held) /\ Len(SubSeq(c, to, Len(c))) = z
        /\ \A j \in 1 .. z : SubSeq(c, to, Len(c))[j] = c[to + j - 1]
    <3>1. Len(c) \in to - 1 .. Len(c) /\ to + z = Len(c) + 1
      BY <1>1, <1>2
    <3> HIDE DEF z
    <3> QED
      BY <1>2, <3>1, StretchIs
  <2>2. \A j \in 1 .. z : to + j - 1 = y + gap + j
    BY <1>2
  <2> QED
    BY <2>1, <2>2
<1> HIDE DEF a, b, y, z
<1>5. /\ d \in Seq(Held) /\ Len(d) = y + z
      /\ \A j \in 1 .. y + z : d[j] = IF j <= y THEN a[j] ELSE b[j - y]
  BY <1>3, <1>4, ConcatProperties
<1> HIDE DEF d
<1>6. ASSUME NEW j \in 1 .. Len(d) PROVE d[j] = c[IF j < from THEN j ELSE j + gap]
  <2>1. CASE j < from
    <3>1. j \in 1 .. y /\ j \in 1 .. y + z /\ j <= y
      BY <1>2, <1>5, <2>1
    <3> QED
      BY <1>3, <1>5, <2>1, <3>1
  <2>2. CASE ~(j < from)
    <3>1. j \in 1 .. y + z /\ ~(j <= y) /\ j - y \in 1 .. z /\ y + gap + (j - y) = j + gap
      BY <1>2, <1>5, <2>2
    <3> QED
      BY <1>4, <1>5, <2>2, <3>1
  <2> QED
    BY <2>1, <2>2
<1>7. Len(d) + gap = Len(c)
  BY <1>2, <1>5
<1>8. Gapped(d, c, from, gap)
  BY <1>5, <1>6, <1>7 DEF Gapped
<1> QED
  BY <1>8 DEF d, a, b

\* The elements outside a stretch, and what a container without the stretch has.
Others(c, from, to) == {c[n] : n \in {m \in 1 .. Len(c) : m < from \/ m >= to}}

\* It stays in order and has the elements outside the stretch, each where it was or the
\* length of the stretch further down.
LEMMA GappedHas ==
    ASSUME NEW c, InOrder(c), NEW from \in 1 .. Len(c) + 1, NEW gap \in Nat, from + gap =< Len(c) + 1,
           NEW d, Gapped(d, c, from, gap)
    PROVE  /\ InOrder(d) /\ Elements(d) = Others(c, from, from + gap)
           /\ from \in 1 .. Len(d) + 1
           /\ \A j \in 1 .. Len(d) : IF j < from THEN j \in 1 .. Len(c) /\ d[j] = c[j]
                                     ELSE /\ j + gap \in 1 .. Len(c) /\ j + gap >= from + gap
                                          /\ d[j] = c[j + gap]
<1>1. c \in Seq(Held) /\ Ordered(c) /\ Len(c) \in Nat
  BY ElementsAre DEF InOrder
<1>2. /\ d \in Seq(Held) /\ Len(d) + gap = Len(c) /\ Len(d) \in Nat
      /\ \A j \in 1 .. Len(d) : d[j] = c[IF j < from THEN j ELSE j + gap]
  BY ElementsAre DEF Gapped
<1>3. from \in 1 .. Len(d) + 1
  BY <1>1, <1>2
<1>4. ASSUME NEW j \in 1 .. Len(d)
      PROVE  /\ j < from => j \in 1 .. Len(c) /\ d[j] = c[j]
             /\ j >= from => /\ j + gap \in 1 .. Len(c) /\ j + gap >= from + gap
                             /\ d[j] = c[j + gap]
             /\ j < from \/ j >= from
             /\ j >= from => ~(j < from)
  <2>1. j < from => j \in 1 .. Len(c)
    BY <1>1, <1>2
  <2>2. j >= from => j + gap \in 1 .. Len(c) /\ j + gap >= from + gap /\ ~(j < from)
    BY <1>1, <1>2
  <2>3. (j < from \/ j >= from)
    BY <1>2
  <2> QED
    BY <1>2, <2>1, <2>2, <2>3
<1>5. ASSUME NEW i \in 1 .. Len(d), NEW j \in 1 .. Len(d), i < j PROVE Less(d[i].key, d[j].key)
  <2>1. CASE j < from
    <3>1. i < from
      BY <1>2, <1>5, <2>1
    <3> QED
      BY <1>1, <1>4, <1>5, <2>1, <3>1 DEF Ordered
  <2>2. CASE j >= from /\ i < from
    <3>1. i < j + gap
      BY <1>2, <1>5, <2>2
    <3> QED
      BY <1>1, <1>4, <2>2, <3>1 DEF Ordered
  <2>3. CASE j >= from /\ i >= from
    <3>1. i + gap < j + gap
      BY <1>2, <1>5
    <3> QED
      BY <1>1, <1>4, <2>3, <3>1 DEF Ordered
  <2> QED
    BY <1>4, <2>1, <2>2, <2>3
<1>6. ASSUME NEW n \in 1 .. Len(c), n < from \/ n >= from + gap PROVE c[n] \in Elements(d)
  <2>1. CASE n < from
    <3>1. n \in 1 .. Len(d)
      BY <1>1, <1>2, <2>1
    <3> QED
      BY <1>4, <2>1, <3>1 DEF Elements
  <2>2. CASE n >= from + gap
    <3>1. n - gap \in 1 .. Len(d) /\ n - gap >= from /\ (n - gap) + gap = n
      BY <1>1, <1>2, <2>2
    <3>2. d[n - gap] = c[n]
      BY <1>4, <3>1
    <3> QED
      BY <3>1, <3>2 DEF Elements
  <2> QED
    BY <1>6, <2>1, <2>2
<1>7. Elements(d) \subseteq Others(c, from, from + gap)
  <2>1. SUFFICES ASSUME NEW j \in 1 .. Len(d) PROVE d[j] \in Others(c, from, from + gap)
    BY DEF Elements
  <2> QED
    BY <1>4 DEF Others
<1>8. Others(c, from, from + gap) \subseteq Elements(d)
  BY <1>6 DEF Others
<1> QED
  BY <1>2, <1>3, <1>4, <1>5, <1>7, <1>8 DEF InOrder, Ordered

\* In a container in order an element put in where it belongs keeps the order.
Fits(c, i, e) ==
    \A j \in 1 .. Len(c) : IF j < i THEN Less(c[j].key, e.key) ELSE Less(e.key, c[j].key)

\* It has the elements from before and the new one.
LEMMA GrownHas ==
    ASSUME NEW c, InOrder(c), NEW i \in 1 .. Len(c) + 1, NEW e \in Held, Fits(c, i, e),
           NEW d, Grown(d, c, i, e)
    PROVE  InOrder(d) /\ Elements(d) = Elements(c) \cup {e}
<1>1. c \in Seq(Held) /\ Ordered(c) /\ Len(c) \in Nat
  BY ElementsAre DEF InOrder
<1>2. /\ d \in Seq(Held) /\ Len(d) = Len(c) + 1 /\ d[i] = e
      /\ \A j \in 1 .. Len(c) : d[IF j < i THEN j ELSE j + 1] = c[j]
      /\ \A j \in 1 .. Len(d) : j # i => d[j] = c[IF j < i THEN j ELSE j - 1]
  BY DEF Grown
<1> DEFINE at(j) == IF j < i THEN j ELSE j - 1
<1>3. ASSUME NEW j \in 1 .. Len(d), j # i
      PROVE  at(j) \in 1 .. Len(c) /\ d[j] = c[at(j)] /\ (j < i <=> at(j) < i)
  <2>1. at(j) \in 1 .. Len(c) /\ (j < i <=> at(j) < i)
    BY <1>1, <1>2, <1>3
  <2> QED
    BY <1>2, <1>3, <2>1
<1>4. ASSUME NEW n \in 1 .. Len(d), NEW j \in 1 .. Len(d), n < j PROVE Less(d[n].key, d[j].key)
  <2>1. CASE n = i
    <3>1. j # i /\ ~(j < i)
      BY <1>2, <1>4, <2>1
    <3>2. at(j) \in 1 .. Len(c) /\ d[j] = c[at(j)] /\ ~(at(j) < i)
      BY <1>3, <3>1
    <3> HIDE DEF at
    <3> QED
      BY <1>2, <2>1, <3>2 DEF Fits
  <2>2. CASE j = i
    <3>1. n # i /\ n < i
      BY <1>2, <1>4, <2>2
    <3>2. at(n) \in 1 .. Len(c) /\ d[n] = c[at(n)] /\ at(n) < i
      BY <1>3, <3>1
    <3> HIDE DEF at
    <3> QED
      BY <1>2, <2>2, <3>2 DEF Fits
  <2>3. CASE n # i /\ j # i
    <3>1. at(n) < at(j)
      BY <1>1, <1>2, <1>4, <2>3
    <3>2. at(n) \in 1 .. Len(c) /\ d[n] = c[at(n)] /\ at(j) \in 1 .. Len(c) /\ d[j] = c[at(j)]
      BY <1>3, <2>3
    <3> HIDE DEF at
    <3> QED
      BY <1>1, <3>1, <3>2 DEF Ordered
  <2> QED
    BY <2>1, <2>2, <2>3
<1>5. Elements(d) \subseteq Elements(c) \cup {e}
  <2>1. SUFFICES ASSUME NEW j \in 1 .. Len(d) PROVE d[j] \in Elements(c) \cup {e}
    BY DEF Elements
  <2>2. CASE j = i
    BY <1>2, <2>2
  <2>3. CASE j # i
    <3>1. at(j) \in 1 .. Len(c) /\ d[j] = c[at(j)]
      BY <1>3, <2>3
    <3> HIDE DEF at
    <3> QED
      BY <3>1 DEF Elements
  <2> QED
    BY <2>2, <2>3
<1>6. Elements(c) \subseteq Elements(d)
  <2>1. SUFFICES ASSUME NEW n \in 1 .. Len(c) PROVE c[n] \in Elements(d)
    BY DEF Elements
  <2>2. n \in 1 .. Len(d) /\ n + 1 \in 1 .. Len(d)
    BY <1>1, <1>2
  <2> QED
    BY <1>2, <2>2 DEF Elements
<1>7. e \in Elements(d)
  <2>1. i \in 1 .. Len(d)
    BY <1>1, <1>2
  <2> QED
    BY <1>2, <2>1 DEF Elements
<1> QED
  BY <1>2, <1>4, <1>5, <1>6, <1>7 DEF InOrder, Ordered

-----------------------------------------------------------------------------
(***************************************************************************)
(* Emplacing.                                                              *)
(***************************************************************************)
\* std::map refuses an element that overlaps one it has, and puts any other where
\* it belongs.
LEMMA StdPlaceIs ==
    ASSUME NEW c, InOrder(c), NEW e \in Held, NEW h
    PROVE  /\ (\A j \in 1 .. Len(c) : Apart(c[j], e)) => StdPlace(c, h, e) # Refused
           /\ (\E j \in 1 .. Len(c) : ~Apart(c[j], e)) => StdPlace(c, h, e) = Refused
           /\ StdPlace(c, h, e) # Refused =>
                  StdPlace(c, h, e) \in 1 .. Len(c) + 1 /\ Fits(c, StdPlace(c, h, e), e)
<1> DEFINE u == UpperBound(c, e.key)
<1>1. /\ c \in Seq(Held) /\ Ordered(c) /\ Len(c) \in Nat
      /\ \A j \in 1 .. Len(c) : c[j].key \in Proper
      /\ e.key \in Proper /\ e.key \in Made
  BY ElementsAre DEF InOrder, Held, Proper
<1>2. u \in 1 .. Len(c) + 1 /\ \A j \in 1 .. Len(c) : Less(e.key, c[j].key) <=> j >= u
  BY <1>1, BoundsDivide
<1>3. StdPlace(c, h, e) = IF u > 1 /\ ~Less(c[u - 1].key, e.key) THEN Refused ELSE u
  BY DEF StdPlace
<1> HIDE DEF u
<1>4. u > 1 => u - 1 \in 1 .. Len(c)
  BY <1>1, <1>2
<1>5. ASSUME u > 1 => Less(c[u - 1].key, e.key) PROVE Fits(c, u, e)
  <2>1. SUFFICES ASSUME NEW j \in 1 .. Len(c)
                 PROVE  IF j < u THEN Less(c[j].key, e.key) ELSE Less(e.key, c[j].key)
    BY DEF Fits
  <2>2. j >= u \/ j = u - 1 \/ (j < u - 1 /\ u > 1)
    BY <1>1, <1>2
  <2>3. CASE j >= u
    BY <1>1, <1>2, <2>3
  <2>4. CASE j = u - 1
    BY <1>1, <1>2, <1>5, <2>4
  <2>5. CASE j < u - 1 /\ u > 1
    <3>1. Less(c[j].key, c[u - 1].key)
      BY <1>1, <1>4, <2>5 DEF Ordered
    <3>2. Less(c[j].key, e.key)
      BY <1>1, <1>4, <1>5, <2>5, <3>1, KeysDivide
    <3> QED
      BY <1>1, <1>2, <2>5, <3>2
  <2> QED
    BY <2>2, <2>3, <2>4, <2>5
<1>6. ASSUME u > 1, ~Less(c[u - 1].key, e.key) PROVE \E j \in 1 .. Len(c) : ~Apart(c[j], e)
  <2>1. u - 1 \in 1 .. Len(c) /\ ~(u - 1 >= u)
    BY <1>1, <1>2, <1>6
  <2> QED
    BY <1>2, <1>6, <2>1 DEF Apart
<1>7. ASSUME u > 1 => Less(c[u - 1].key, e.key) PROVE \A j \in 1 .. Len(c) : Apart(c[j], e)
  BY <1>5, <1>7 DEF Fits, Apart
<1>8. u # Refused
  BY <1>2 DEF Refused
<1> QED
  BY <1>2, <1>3, <1>5, <1>6, <1>7, <1>8

\* Where an element belongs, the search of a sorted vector finds it too.
LEMMA FirstFrom ==
    ASSUME NEW c, InOrder(c), NEW e \in Held, NEW q \in 1 .. Len(c) + 1, Fits(c, q, e),
           NEW from \in 1 .. q, NEW to \in q .. Len(c) + 1
    PROVE  LowerBoundFrom(c, from, to, e.key) = q
<1>1. /\ Len(c) \in Nat /\ \A j \in 1 .. Len(c) : c[j].key \in Proper
      /\ e.key \in Proper /\ e.key \in Made
  BY ElementsAre DEF InOrder, Held, Proper
<1> DEFINE T == {i \in from .. to - 1 : ~Less(c[i].key, e.key)}
<1>2. \A i \in from .. to - 1 : i \in 1 .. Len(c)
  BY <1>1
<1>3. \A i \in 1 .. Len(c) : Less(c[i].key, e.key) <=> i < q
  BY <1>1, KeysDivide DEF Fits
<1>4. \A i : i \in T <=> i \in from .. to - 1 /\ ~(i < q)
  BY <1>2, <1>3
<1>5. T \in SUBSET Nat
  BY <1>1, <1>2
<1>6. LowerBoundFrom(c, from, to, e.key) = FirstOr(to, T)
  BY DEF LowerBoundFrom
<1> HIDE DEF T
<1>7. CASE q = to
  <2>1. T = {}
    BY <1>1, <1>4, <1>7
  <2> QED
    BY <1>5, <1>6, <1>7, <2>1, FirstIs
<1>8. CASE q # to
  <2>1. q \in T /\ \A i \in T : q =< i
    BY <1>1, <1>4, <1>8
  <2>2. FirstOr(to, T) \in T /\ FirstOr(to, T) =< q
    BY <1>5, <2>1, FirstIs
  <2>3. q =< FirstOr(to, T) /\ FirstOr(to, T) \in Nat
    BY <1>5, <2>1, <2>2
  <2> QED
    BY <1>1, <1>6, <2>2, <2>3
<1> QED
  BY <1>7, <1>8

\* Where an element belongs it is put by either container, if the hint is this place
\* or the one before.
LEMMA PlacesAgree ==
    ASSUME NEW c, InOrder(c), NEW e \in Held, NEW q \in 1 .. Len(c) + 1, Fits(c, q, e),
           NEW h \in Nat, h = q \/ (h + 1 = q /\ h >= 1), NEW kind
    PROVE  Place(kind, c, h, e) = q
<1>1. /\ Len(c) \in Nat /\ \A j \in 1 .. Len(c) : c[j].key \in Proper
      /\ e.key \in Proper /\ e.key \in Made
  BY ElementsAre DEF InOrder, Held, Proper
<1>2. \A j \in 1 .. Len(c) : /\ Less(c[j].key, e.key) <=> j < q
                             /\ Less(e.key, c[j].key) <=> ~(j < q)
  BY <1>1, KeysDivide DEF Fits
<1>3. StdPlace(c, h, e) = q
  <2> DEFINE u == UpperBound(c, e.key)
  <2>1. u \in 1 .. Len(c) + 1 /\ \A j \in 1 .. Len(c) : Less(e.key, c[j].key) <=> j >= u
    BY <1>1, BoundsDivide
  <2>2. StdPlace(c, h, e) = IF u > 1 /\ ~Less(c[u - 1].key, e.key) THEN Refused ELSE u
    BY DEF StdPlace
  <2> HIDE DEF u
  <2>3. u = q
    <3>1. ~(u < q)
      <4>1. SUFFICES ASSUME u < q PROVE FALSE
        OBVIOUS
      <4>2. u \in 1 .. Len(c) /\ u >= u
        BY <1>1, <2>1, <4>1
      <4> QED
        BY <1>2, <2>1, <4>1, <4>2
    <3>2. ~(q < u)
      <4>1. SUFFICES ASSUME q < u PROVE FALSE
        OBVIOUS
      <4>2. q \in 1 .. Len(c) /\ ~(q >= u) /\ ~(q < q)
        BY <1>1, <2>1, <4>1
      <4> QED
        BY <1>2, <2>1, <4>2
    <3> QED
      BY <1>1, <2>1, <3>1, <3>2
  <2>4. u > 1 => u - 1 \in 1 .. Len(c) /\ u - 1 < q
    BY <1>1, <2>1, <2>3
  <2> QED
    BY <1>2, <2>2, <2>3, <2>4
<1>4. ArrayPlace(c, h, e) = q
  <2>1. CASE h > Len(c)
    <3>1. h = q
      BY <1>1, <2>1
    <3> QED
      BY <2>1, <3>1 DEF ArrayPlace
  <2>2. CASE h =< Len(c)
    <3>0. h \in 1 .. Len(c) /\ ~(h > Len(c))
      BY <1>1, <2>2
    <3>1. CASE Less(e.key, c[h].key)
      <4>1. h = q
        BY <1>2, <3>0, <3>1
      <4>2. 1 \in 1 .. q /\ q \in q .. Len(c) + 1
        BY <1>1
      <4>3. ArrayPlace(c, h, e) = LowerBoundFrom(c, 1, h, e.key)
        BY <3>0, <3>1, <2>2 DEF ArrayPlace
      <4> QED
        BY <4>1, <4>2, <4>3, FirstFrom
    <3>2. CASE ~Less(e.key, c[h].key)
      <4>1. h \in 1 .. q /\ Len(c) + 1 \in q .. Len(c) + 1
        BY <1>1, <3>0
      <4>2. ArrayPlace(c, h, e) = LowerBoundFrom(c, h, Len(c) + 1, e.key)
        BY <3>0, <3>2 DEF ArrayPlace
      <4> QED
        BY <4>1, <4>2, FirstFrom
    <3> QED
      BY <3>1, <3>2
  <2> QED
    BY <1>1, <2>1, <2>2
<1> QED
  BY <1>3, <1>4 DEF Place

\* The states of a container, with the place the last element got.
States == {s \in [cont : Seq(Held), at : Nat] : s.at \in 1 .. Len(s.cont) + 1}

\* A container and a place in it are one.
LEMMA StateIs ==
    ASSUME NEW c \in Seq(Held), NEW at \in 1 .. Len(c) + 1
    PROVE  State(c, at) \in States /\ State(c, at).cont = c /\ State(c, at).at = at
<1>1. Len(c) \in Nat
  BY ElementsAre
<1> QED
  BY <1>1 DEF State, States

\* emplace_hint of either kind leads from a state to a state.
LEMMA EmplaceStates ==
    ASSUME NEW s \in States, NEW e \in Held, NEW kind
    PROVE  Emplace(kind, s, e) \in States
<1> DEFINE c == s.cont
           p == Place(kind, c, s.at, e)
<1>1. c \in Seq(Held) /\ Len(c) \in Nat /\ DOMAIN c = 1 .. Len(c) /\ s.at \in 1 .. Len(c) + 1
  BY ElementsAre DEF States
<1>2. \A T \in SUBSET (1 .. Len(c)), i \in 1 .. Len(c) + 1 : FirstOr(i, T) \in 1 .. Len(c) + 1
  <2>1. TAKE T \in SUBSET (1 .. Len(c)), i \in 1 .. Len(c) + 1
  <2>2. T \in SUBSET Nat /\ \A j \in T : j \in 1 .. Len(c) + 1
    BY <1>1
  <2>3. T = {} => FirstOr(i, T) = i
    BY <2>2, FirstIs
  <2>4. T # {} => FirstOr(i, T) \in T
    BY <2>2, FirstIs
  <2> QED
    BY <2>2, <2>3, <2>4
<1>3. p = Refused \/ p \in 1 .. Len(c) + 1
  <2>1. StdPlace(c, s.at, e) = Refused \/ StdPlace(c, s.at, e) \in 1 .. Len(c) + 1
    <3>1. {i \in DOMAIN c : Less(e.key, c[i].key)} \in SUBSET (1 .. Len(c)) /\ Len(c) + 1 \in 1 .. Len(c) + 1
      BY <1>1
    <3>2. UpperBound(c, e.key) \in 1 .. Len(c) + 1
      BY <1>2, <3>1 DEF UpperBound
    <3> QED
      BY <3>2 DEF StdPlace
  <2>2. ASSUME NEW from \in 1 .. Len(c) + 1, NEW to \in 1 .. Len(c) + 1
        PROVE  LowerBoundFrom(c, from, to, e.key) \in 1 .. Len(c) + 1
    <3>1. {i \in from .. to - 1 : ~Less(c[i].key, e.key)} \in SUBSET (1 .. Len(c))
      BY <1>1
    <3> QED
      BY <1>2, <3>1 DEF LowerBoundFrom
  <2>3. ArrayPlace(c, s.at, e) \in 1 .. Len(c) + 1
    <3>1. 1 \in 1 .. Len(c) + 1 /\ Len(c) + 1 \in 1 .. Len(c) + 1
      BY <1>1
    <3>2. s.at > Len(c) \/ (s.at =< Len(c) /\ ~(s.at > Len(c)))
      BY <1>1
    <3> QED
      BY <1>1, <2>2, <3>1, <3>2 DEF ArrayPlace
  <2> QED
    BY <2>1, <2>3 DEF Place
<1>4. Emplace(kind, s, e) = IF p = Refused THEN s ELSE State(SE!InsertAt(c, p, e), p)
  BY DEF Emplace
<1> HIDE DEF p
<1>5. ASSUME p \in 1 .. Len(c) + 1 PROVE State(SE!InsertAt(c, p, e), p) \in States
  <2>1. Grown(SE!InsertAt(c, p, e), c, p, e)
    BY <1>1, <1>5, InsertAtGrows
  <2>2. SE!InsertAt(c, p, e) \in Seq(Held) /\ p \in 1 .. Len(SE!InsertAt(c, p, e)) + 1
    BY <1>1, <1>5, <2>1 DEF Grown
  <2> QED
    BY <2>2, StateIs
<1> QED
  BY <1>3, <1>4, <1>5

\* The states that a change of a container goes through.
Runs(f, kind, change) ==
    /\ f[0] = State(change.left, change.at)
    /\ \A n \in 1 .. Len(change.new) : f[n] = Emplace(kind, f[n - 1], change.new[n])
    /\ Changed(kind, change) = f[Len(change.new)].cont

\* There are such states, whatever is changed.
LEMMA ChangedRuns ==
    ASSUME NEW left \in Seq(Held), NEW at \in 1 .. Len(left) + 1, NEW new \in Seq(Held), NEW kind
    PROVE  \E f : Runs(f, kind, Change(left, at, new))
<1> DEFINE N == Len(new)
           change == Change(left, at, new)
           IsRun(f) == f = [n \in 0 .. Len(change.new) |->
                               IF n = 0 THEN State(change.left, change.at)
                               ELSE Emplace(kind, f[n - 1], change.new[n])]
           run == CHOOSE f : IsRun(f)
<1>1. N \in Nat /\ \A n \in 1 .. N : new[n] \in Held
  BY ElementsAre
<1>2. change.left = left /\ change.at = at /\ change.new = new
  BY DEF Change
<1>3. Changed(kind, change) = run[Len(change.new)].cont
  BY DEF Changed
<1> DEFINE step == [n \in 1 .. N |-> [s \in States |-> Emplace(kind, s, new[n])]]
<1>4. step \in [1 .. N -> [States -> States]]
  BY <1>1, EmplaceStates
<1>5. State(left, at) \in States
  BY StateIs
<1>6. \E f \in [0 .. N -> States] : Iterates(f, N, State(left, at), step)
  <2> HIDE DEF step, N
  <2> QED
    BY <1>1, <1>4, <1>5, Iteration
<1>7. PICK f \in [0 .. N -> States] : Iterates(f, N, State(left, at), step)
  BY <1>6
<1>8. \A n \in 1 .. N : f[n] = Emplace(kind, f[n - 1], new[n])
  <2>1. TAKE n \in 1 .. N
  <2>2. n - 1 \in 0 .. N
    BY <1>1
  <2>3. f[n - 1] \in States /\ f[n] = step[n][f[n - 1]]
    BY <1>7, <2>2 DEF Iterates
  <2> QED
    BY <2>3
<1>9. f[0] = State(left, at)
  BY <1>7 DEF Iterates
<1>10. IsRun(f)
  <2> DEFINE g == [n \in 0 .. N |-> IF n = 0 THEN State(left, at) ELSE Emplace(kind, f[n - 1], new[n])]
  <2>1. \A n \in 0 .. N : f[n] = g[n]
    <3>1. TAKE n \in 0 .. N
    <3>2. n = 0 \/ n \in 1 .. N
      BY <1>1
    <3> QED
      BY <1>8, <1>9, <3>2
  <2>2. f = g
    <3>1. g = [n \in 0 .. N |-> g[n]] /\ f = [n \in 0 .. N |-> f[n]]
      BY <1>7
    <3> HIDE DEF g
    <3> QED
      BY <2>1, <3>1
  <2> QED
    BY <1>2, <2>2
<1>11. IsRun(run)
  <2> HIDE DEF IsRun
  <2> QED
    BY <1>10
<1>12. run = [n \in 0 .. N |-> IF n = 0 THEN State(left, at) ELSE Emplace(kind, run[n - 1], new[n])]
  BY <1>2, <1>11
<1> HIDE DEF run, step, change
<1>13. run[0] = State(left, at) /\ \A n \in 1 .. N : run[n] = Emplace(kind, run[n - 1], new[n])
  <2>1. 0 \in 0 .. N /\ \A n \in 1 .. N : n \in 0 .. N /\ n # 0
    BY <1>1
  <2> DEFINE F(n) == IF n = 0 THEN State(left, at) ELSE Emplace(kind, run[n - 1], new[n])
  <2>2. run = [n \in 0 .. N |-> F(n)]
    BY <1>12
  <2>3. \A n \in 0 .. N : run[n] = F(n)
    <3> HIDE DEF F
    <3> QED
      BY <2>2
  <2> QED
    BY <2>1, <2>3
<1>14. Runs(run, kind, change)
  BY <1>2, <1>3, <1>13 DEF Runs
<1> QED
  BY <1>14 DEF change

\* Whatever is emplaced, a std::map stays in order.
LEMMA ChangedInOrder ==
    ASSUME NEW left, InOrder(left), NEW at \in 1 .. Len(left) + 1, NEW new \in Seq(Held)
    PROVE  InOrder(Changed("std", Change(left, at, new)))
<1> DEFINE N == Len(new)
<1>1. left \in Seq(Held) /\ N \in Nat /\ \A n \in 1 .. N : new[n] \in Held
  BY ElementsAre DEF InOrder
<1>2. PICK f : Runs(f, "std", Change(left, at, new))
  BY <1>1, ChangedRuns
<1>3. /\ f[0] = State(left, at)
      /\ \A n \in 1 .. N : f[n] = Emplace("std", f[n - 1], new[n])
      /\ Changed("std", Change(left, at, new)) = f[N].cont
  BY <1>2 DEF Runs, Change
<1> DEFINE T == {n \in 0 .. N : InOrder(f[n].cont)}
<1>4. 0 \in T
  BY <1>1, <1>3 DEF State
<1>5. ASSUME NEW n \in 1 .. N, n - 1 \in T PROVE n \in T
  <2> DEFINE s == f[n - 1]
             p == StdPlace(s.cont, s.at, new[n])
  <2>1. InOrder(s.cont) /\ s.cont \in Seq(Held) /\ new[n] \in Held
    BY <1>1, <1>5 DEF InOrder
  <2>2. f[n] = IF p = Refused THEN s ELSE State(SE!InsertAt(s.cont, p, new[n]), p)
    BY <1>3 DEF Emplace, Place
  <2>3. p # Refused => p \in 1 .. Len(s.cont) + 1 /\ Fits(s.cont, p, new[n])
    BY <2>1, StdPlaceIs
  <2> HIDE DEF p, s
  <2>4. CASE p = Refused
    BY <2>1, <2>2, <2>4
  <2>5. CASE p # Refused
    <3>1. Grown(SE!InsertAt(s.cont, p, new[n]), s.cont, p, new[n])
      BY <2>1, <2>3, <2>5, InsertAtGrows
    <3>2. InOrder(SE!InsertAt(s.cont, p, new[n]))
      BY <2>1, <2>3, <2>5, <3>1, GrownHas
    <3>3. f[n].cont = SE!InsertAt(s.cont, p, new[n])
      BY <2>2, <2>5 DEF State
    <3> QED
      BY <3>2, <3>3
  <2> QED
    BY <2>4, <2>5
<1>6. T = 0 .. N
  <2>1. T \in SUBSET (0 .. N)
    OBVIOUS
  <2> HIDE DEF T, N
  <2> QED
    BY <1>1, <1>4, <1>5, <2>1, InductionUpTo
<1>7. N \in T
  BY <1>1, <1>6
<1> QED
  BY <1>3, <1>7

\* It stays as it is if each of the new ones overlaps an element.
LEMMA ChangedRefused ==
    ASSUME NEW left, InOrder(left), NEW at \in 1 .. Len(left) + 1, NEW new \in Seq(Held),
           \A n \in 1 .. Len(new) : \E j \in 1 .. Len(left) : ~Apart(left[j], new[n])
    PROVE  Changed("std", Change(left, at, new)) = left
<1> DEFINE N == Len(new)
<1>1. left \in Seq(Held) /\ N \in Nat /\ \A n \in 1 .. N : new[n] \in Held
  BY ElementsAre DEF InOrder
<1>2. PICK f : Runs(f, "std", Change(left, at, new))
  BY <1>1, ChangedRuns
<1>3. /\ f[0] = State(left, at)
      /\ \A n \in 1 .. N : f[n] = Emplace("std", f[n - 1], new[n])
      /\ Changed("std", Change(left, at, new)) = f[N].cont
  BY <1>2 DEF Runs, Change
<1> DEFINE T == {n \in 0 .. N : f[n].cont = left}
<1>4. 0 \in T
  BY <1>1, <1>3 DEF State
<1>5. ASSUME NEW n \in 1 .. N, n - 1 \in T PROVE n \in T
  <2>1. f[n - 1].cont = left /\ new[n] \in Held
    BY <1>1, <1>5
  <2>2. StdPlace(left, f[n - 1].at, new[n]) = Refused
    BY <2>1, StdPlaceIs
  <2> QED
    BY <1>3, <2>1, <2>2 DEF Emplace, Place
<1>6. T = 0 .. N
  <2>1. T \in SUBSET (0 .. N)
    OBVIOUS
  <2> HIDE DEF T, N
  <2> QED
    BY <1>1, <1>4, <1>5, <2>1, InductionUpTo
<1>7. N \in T
  BY <1>1, <1>6
<1> QED
  BY <1>3, <1>7

\* New elements in order that belong at the hint are put there by either container.
Belongs(left, at, new) == InOrder(new) /\ \A n \in 1 .. Len(new) : Fits(left, at, new[n])

\* Before new element n + 1: the n before it are in, the rest belong behind them.
Emplaced(s, left, at, new, n) ==
    /\ InOrder(s.cont) /\ Len(s.cont) = Len(left) + n
    /\ Elements(s.cont) = Elements(left) \cup {new[m] : m \in 1 .. n}
    /\ s.at \in Nat /\ (s.at = at + n \/ (s.at + 1 = at + n /\ s.at >= 1))
    /\ \A m \in n + 1 .. Len(new) : Fits(s.cont, at + n, new[m])

\* Over either kind of container the next element goes where it belongs: the hint is the
\* place of the one before.
LEMMA EmplacesNext ==
    ASSUME NEW left, InOrder(left), NEW at \in 1 .. Len(left) + 1, NEW new, Belongs(left, at, new),
           NEW n \in 1 .. Len(new), NEW s, Emplaced(s, left, at, new, n - 1)
    PROVE  /\ Emplace("array", s, new[n]) = Emplace("std", s, new[n])
           /\ Emplaced(Emplace("std", s, new[n]), left, at, new, n)
<1> DEFINE c == s.cont
           e == new[n]
           m == n - 1
           q == at + m
           d == SE!InsertAt(c, q, e)
<1>1. /\ Len(left) \in Nat /\ Len(new) \in Nat /\ InOrder(new)
      /\ \A i \in 1 .. Len(new) : new[i] \in Held
  BY ElementsAre DEF InOrder, Belongs
<1>2. m \in Nat /\ n = m + 1 /\ q \in Nat /\ q = at + m /\ at + n = q + 1
  BY <1>1
<1> HIDE DEF m
<1>3. /\ InOrder(c) /\ Len(c) = Len(left) + m
      /\ Elements(c) = Elements(left) \cup {new[i] : i \in 1 .. m}
      /\ s.at \in Nat /\ (s.at = q \/ (s.at + 1 = q /\ s.at >= 1))
      /\ \A i \in m + 1 .. Len(new) : Fits(c, q, new[i])
  BY DEF Emplaced, m
<1>4. c \in Seq(Held) /\ Len(c) \in Nat /\ q \in 1 .. Len(c) + 1 /\ e \in Held
  <2>1. e \in Held
    BY <1>1
  <2> HIDE DEF c, e, q, d
  <2>2. c \in Seq(Held)
    BY <1>3 DEF InOrder
  <2>3. Len(c) \in Nat
    BY <2>2, ElementsAre
  <2>4. q \in 1 .. Len(c) + 1
    <3>1. at \in Nat /\ 1 =< at /\ at =< Len(left) + 1
      BY <1>1
    <3> QED
      BY <1>1, <1>2, <1>3, <3>1
  <2> QED
    BY <2>1, <2>2, <2>3, <2>4
<1>5. n \in m + 1 .. Len(new)
  BY <1>1, <1>2
<1>6. Fits(c, q, e)
  BY <1>3, <1>5
<1> HIDE DEF c, e, q, d
<1>7. Place("std", c, s.at, e) = q /\ Place("array", c, s.at, e) = q
  <2> DEFINE h == s.at
  <2>1. InOrder(c) /\ e \in Held /\ q \in 1 .. Len(c) + 1
    BY <1>3, <1>4
  <2>2. h \in Nat /\ (h = q \/ (h + 1 = q /\ h >= 1))
    BY <1>3
  <2> HIDE DEF h
  <2>3. ASSUME NEW kind PROVE Place(kind, c, h, e) = q
    BY <2>1, <2>2, <1>6, PlacesAgree
  <2> QED
    BY <2>3 DEF h
<1>8. Emplace("std", s, e) = State(d, q) /\ Emplace("array", s, e) = State(d, q)
  <2>1. q # Refused
    BY <1>4 DEF Refused
  <2> QED
    BY <1>7, <2>1 DEF Emplace, c, d
<1>9. Grown(d, c, q, e)
  BY <1>4, InsertAtGrows DEF d
<1>10. InOrder(d) /\ Elements(d) = Elements(c) \cup {e}
  BY <1>3, <1>4, <1>6, <1>9, GrownHas
<1>11. /\ Len(d) = Len(c) + 1 /\ d[q] = e
       /\ \A j \in 1 .. Len(d) : j # q => d[j] = c[IF j < q THEN j ELSE j - 1]
  BY <1>9 DEF Grown
<1>12. {new[i] : i \in 1 .. n} = {new[i] : i \in 1 .. m} \cup {e}
  <2>1. \A i : i \in 1 .. n <=> i \in 1 .. m \/ i = n
    BY <1>1, <1>2
  <2> QED
    BY <2>1 DEF e
<1>13. ASSUME NEW i \in n + 1 .. Len(new) PROVE Fits(d, q + 1, new[i])
  <2>1. i \in m + 1 .. Len(new) /\ i \in 1 .. Len(new) /\ n < i
    BY <1>1, <1>2
  <2>2. Fits(c, q, new[i])
    BY <1>3, <2>1
  <2>3. Less(e.key, new[i].key)
    BY <1>1, <2>1 DEF e, InOrder, Ordered
  <2>4. ASSUME NEW j \in 1 .. Len(d)
        PROVE  IF j < q + 1 THEN Less(d[j].key, new[i].key) ELSE Less(new[i].key, d[j].key)
    <3>1. CASE j = q
      <4>1. j < q + 1
        BY <1>2, <3>1
      <4> QED
        BY <1>11, <2>3, <3>1, <4>1
    <3>2. CASE j < q
      <4>1. j \in 1 .. Len(c) /\ j < q + 1 /\ j # q
        BY <1>4, <1>11, <3>2
      <4> QED
        BY <1>11, <2>2, <3>2, <4>1 DEF Fits
    <3>3. CASE j > q
      <4>1. j - 1 \in 1 .. Len(c) /\ ~(j < q + 1) /\ j # q /\ ~(j < q) /\ ~(j - 1 < q)
        BY <1>4, <1>11, <3>3
      <4> QED
        BY <1>11, <2>2, <4>1 DEF Fits
    <3> QED
      BY <1>4, <1>11, <3>1, <3>2, <3>3
  <2> QED
    BY <2>4 DEF Fits
<1>14. Emplaced(State(d, q), left, at, new, n)
  <2>1. State(d, q).cont = d /\ State(d, q).at = q
    BY DEF State
  <2>2. Len(d) = Len(left) + n
    BY <1>1, <1>2, <1>3, <1>11
  <2>3. Elements(d) = Elements(left) \cup {new[i] : i \in 1 .. n}
    BY <1>3, <1>10, <1>12
  <2>4. q \in Nat /\ q + 1 = at + n /\ q >= 1
    BY <1>2, <1>4
  <2>5. \A i \in n + 1 .. Len(new) : Fits(d, at + n, new[i])
    BY <1>13, <2>4
  <2> QED
    BY <1>10, <2>1, <2>2, <2>3, <2>4, <2>5 DEF Emplaced
<1> QED
  BY <1>8, <1>14 DEF c, d, e, q, m

\* In the end all are in, over either kind.
LEMMA ChangedBelongs ==
    ASSUME NEW left, InOrder(left), NEW at \in 1 .. Len(left) + 1, NEW new, Belongs(left, at, new)
    PROVE  LET change == Change(left, at, new)
           IN  /\ InOrder(Changed("std", change))
               /\ Elements(Changed("std", change)) = Elements(left) \cup Elements(new)
               /\ Changed("array", change) = Changed("std", change)
<1> DEFINE N == Len(new)
           change == Change(left, at, new)
<1>1. left \in Seq(Held) /\ Len(left) \in Nat /\ N \in Nat /\ new \in Seq(Held)
  BY ElementsAre DEF InOrder, Belongs
<1>2. PICK f : Runs(f, "std", change)
  BY <1>1, ChangedRuns
<1>3. PICK g : Runs(g, "array", change)
  BY <1>1, ChangedRuns
<1>4. /\ f[0] = State(left, at) /\ g[0] = State(left, at)
      /\ \A n \in 1 .. N : f[n] = Emplace("std", f[n - 1], new[n])
      /\ \A n \in 1 .. N : g[n] = Emplace("array", g[n - 1], new[n])
      /\ Changed("std", change) = f[N].cont
      /\ Changed("array", change) = g[N].cont
  BY <1>2, <1>3 DEF Runs, Change
<1> DEFINE T == {n \in 0 .. N : f[n] = g[n] /\ Emplaced(f[n], left, at, new, n)}
<1>5. 0 \in T
  <2>1. State(left, at).cont = left /\ State(left, at).at = at
    BY DEF State
  <2>2. {new[m] : m \in 1 .. 0} = {} /\ at \in Nat /\ at = at + 0 /\ Len(left) + 0 = Len(left) /\ 0 \in 0 .. N
    BY <1>1
  <2>3. \A m \in 0 + 1 .. Len(new) : Fits(left, at + 0, new[m])
    BY <2>2 DEF Belongs
  <2>4. Emplaced(State(left, at), left, at, new, 0)
    BY <2>1, <2>2, <2>3 DEF Emplaced
  <2> QED
    BY <1>4, <2>2, <2>4
<1>6. ASSUME NEW n \in 1 .. N, n - 1 \in T PROVE n \in T
  <2> DEFINE s == f[n - 1]
  <2>1. g[n - 1] = s /\ Emplaced(s, left, at, new, n - 1)
    BY <1>6
  <2> HIDE DEF s
  <2>0. n \in 1 .. Len(new)
    OBVIOUS
  <2>3. Emplace("array", s, new[n]) = Emplace("std", s, new[n]) /\ Emplaced(Emplace("std", s, new[n]), left, at, new, n)
    BY <2>0, <2>1, EmplacesNext
  <2>4. f[n] = Emplace("std", s, new[n]) /\ g[n] = Emplace("array", s, new[n])
    BY <1>4, <2>1 DEF s
  <2> QED
    BY <2>3, <2>4
<1>7. T = 0 .. N
  <2>1. T \in SUBSET (0 .. N)
    OBVIOUS
  <2> HIDE DEF T, N
  <2> QED
    BY <1>1, <1>5, <1>6, <2>1, InductionUpTo
<1>8. f[N] = g[N] /\ Emplaced(f[N], left, at, new, N)
  <2>1. N \in T
    BY <1>1, <1>7
  <2> QED
    BY <2>1
<1>9. InOrder(f[N].cont) /\ Elements(f[N].cont) = Elements(left) \cup {new[m] : m \in 1 .. N}
  BY <1>8 DEF Emplaced
<1>10. {new[m] : m \in 1 .. N} = Elements(new)
  BY DEF Elements
<1> QED
  BY <1>4, <1>8, <1>9, <1>10

-----------------------------------------------------------------------------
(***************************************************************************)
(* Points and cuts.                                                        *)
(***************************************************************************)
Cuts == {2 * a : a \in Ends} \cup {2 * a + 1 : a \in Ends}

\* There is a point between any two cuts, before each and behind each.
LEMMA CutsApart ==
    ASSUME NEW A \in Cuts, NEW B \in Cuts
    PROVE  /\ A \in Int /\ B \in Int
           /\ A < B => \E x \in Points : x \in Int /\ A =< 2 * x /\ 2 * x < B
           /\ \E x \in Points : x \in Int /\ 2 * x < A
           /\ \E x \in Points : x \in Int /\ A =< 2 * x
<1>1. PICK a \in Ends : A = 2 * a \/ A = 2 * a + 1
  BY DEF Cuts
<1>2. PICK b \in Ends : B = 2 * b \/ B = 2 * b + 1
  BY DEF Cuts
<1>3. a \in Int /\ b \in Int /\ a \in Points /\ A \in Int /\ B \in Int
  BY <1>1, <1>2, DomainAssumption, PointsAssumption
<1>4. ASSUME A < B PROVE \E x \in Points : x \in Int /\ A =< 2 * x /\ 2 * x < B
  <2>1. CASE A = 2 * a /\ a = b
    <3>1. A =< 2 * a /\ 2 * a < B
      BY <1>2, <1>3, <1>4, <2>1
    <3> QED
      BY <1>3, <3>1
  <2>2. CASE ~(A = 2 * a /\ a = b)
    <3>1. a < b
      BY <1>1, <1>2, <1>3, <1>4, <2>2
    <3>2. PICK x \in Points : a < x /\ x < b
      BY <3>1, PointsAssumption
    <3>3. x \in Int
      BY DomainAssumption
    <3>4. A =< 2 * x /\ 2 * x < B
      BY <1>1, <1>2, <1>3, <3>2, <3>3
    <3> QED
      BY <3>3, <3>4
  <2> QED
    BY <2>1, <2>2
<1>5. \E x \in Points : x \in Int /\ 2 * x < A
  <2>1. PICK x \in Points : x < a
    BY PointsAssumption
  <2>2. x \in Int
    BY DomainAssumption
  <2>3. 2 * x < A
    BY <1>1, <1>3, <2>1, <2>2
  <2> QED
    BY <2>2, <2>3
<1>6. \E x \in Points : x \in Int /\ A =< 2 * x
  <2>1. PICK x \in Points : a < x
    BY PointsAssumption
  <2>2. x \in Int
    BY DomainAssumption
  <2>3. A =< 2 * x
    BY <1>1, <1>3, <2>1, <2>2
  <2> QED
    BY <2>2, <2>3
<1> QED
  BY <1>3, <1>4, <1>5, <1>6

\* Finite ends are cuts.
LEMMA CutsAre ==
    ASSUME NEW k \in Proper
    PROVE  (HasLeft(k) => Lo(k) \in Cuts) /\ (HasRight(k) => Hi(k) \in Cuts)
<1>1. k \in Made
  BY DEF Proper
<1>2. (HasLeft(k) => k.left \in Ends) /\ (HasRight(k) => k.right \in Ends)
  BY <1>1, MadeIs DEF HasLeft, HasRight
<1> QED
  BY <1>2 DEF Lo, Hi, Cuts

\* The points between the cuts of an interval.
Between(x, k) == (HasLeft(k) => Lo(k) =< 2 * x) /\ (HasRight(k) => 2 * x < Hi(k))

\* They are what the interval means.
LEMMA PointsAre ==
    ASSUME NEW k \in Proper, NEW x
    PROVE  x \in PointsOf[k] <=> x \in Points /\ x \in Int /\ Between(x, k)
<1>1. x \in PointsOf[k] => x \in Points
  <2>1. k \in Factory
    BY ProperMeans, MadeIs
  <2> QED
    BY <2>1 DEF PointsOf
<1>2. x \in Points => x \in Int
  BY DomainAssumption
<1>3. x \in Int => (x \in PointsOf[k] <=> x \in Points /\ Between(x, k))
  BY PointsBetween DEF Between
<1> QED
  BY <1>1, <1>2, <1>3

\* Neither lies before the other.
Overlap(e, k) == ~Less(e, k) /\ ~Less(k, e)

\* Intervals have a point in common exactly if they overlap: between any two cuts there
\* is a point.
LEMMA CommonPoint ==
    ASSUME NEW e \in Proper, NEW k \in Proper
    PROVE  Overlap(e, k) <=> PointsOf[e] \cap PointsOf[k] # {}
<1>1. /\ Lo(e) \in Int /\ Hi(e) \in Int /\ (HasLeft(e) /\ HasRight(e) => Lo(e) < Hi(e))
      /\ Lo(k) \in Int /\ Hi(k) \in Int /\ (HasLeft(k) /\ HasRight(k) => Lo(k) < Hi(k))
  BY ProperMeans
<1>2. /\ Less(e, k) <=> HasRight(e) /\ HasLeft(k) /\ Hi(e) =< Lo(k)
      /\ Less(k, e) <=> HasRight(k) /\ HasLeft(e) /\ Hi(k) =< Lo(e)
  BY LessMeans
<1>3. ASSUME Overlap(e, k) PROVE \E x \in Points : x \in Int /\ Between(x, e) /\ Between(x, k)
  <2>1. /\ HasRight(e) /\ HasLeft(k) => Lo(k) < Hi(e)
        /\ HasRight(k) /\ HasLeft(e) => Lo(e) < Hi(k)
    BY <1>1, <1>2, <1>3 DEF Overlap
  <2> DEFINE L == {Lo(m) : m \in {n \in {e, k} : HasLeft(n)}}
             R == {Hi(m) : m \in {n \in {e, k} : HasRight(n)}}
  <2>2. L \subseteq Cuts /\ R \subseteq Cuts
    BY CutsAre
  <2>3. L # {} => \E a \in L : \A b \in L : b =< a
    <3>1. CASE HasLeft(e) /\ HasLeft(k)
      <4>1. L = {Lo(e), Lo(k)}
        BY <3>1
      <4> QED
        BY <1>1, <4>1
    <3>2. CASE ~(HasLeft(e) /\ HasLeft(k))
      BY <1>1, <3>2
    <3> QED
      BY <3>1, <3>2
  <2>4. R # {} => \E a \in R : \A b \in R : a =< b
    <3>1. CASE HasRight(e) /\ HasRight(k)
      <4>1. R = {Hi(e), Hi(k)}
        BY <3>1
      <4> QED
        BY <1>1, <4>1
    <3>2. CASE ~(HasRight(e) /\ HasRight(k))
      BY <1>1, <3>2
    <3> QED
      BY <3>1, <3>2
  <2>5. \A a \in L, b \in R : a < b
    BY <1>1, <2>1
  <2>6. \A x : Between(x, e) /\ Between(x, k) <=> (\A a \in L : a =< 2 * x) /\ (\A b \in R : 2 * x < b)
    BY DEF Between
  <2> HIDE DEF L, R
  <2>7. L \subseteq Int /\ R \subseteq Int
    BY <2>2, CutsApart
  <2>8. CASE L = {} /\ R = {}
    <3>1. \E x \in Points : x \in Int
      BY PointsAssumption, DomainAssumption
    <3> QED
      BY <2>6, <2>8, <3>1
  <2>9. CASE L # {} /\ R = {}
    <3>1. PICK a \in L : \A b \in L : b =< a
      BY <2>3, <2>9
    <3>2. PICK x \in Points : x \in Int /\ a =< 2 * x
      BY <2>2, CutsApart
    <3>3. \A b \in L : b =< 2 * x
      BY <2>7, <3>1, <3>2
    <3> QED
      BY <2>6, <2>9, <3>2, <3>3
  <2>10. CASE L = {} /\ R # {}
    <3>1. PICK a \in R : \A b \in R : a =< b
      BY <2>4, <2>10
    <3>2. PICK x \in Points : x \in Int /\ 2 * x < a
      BY <2>2, CutsApart
    <3>3. \A b \in R : 2 * x < b
      BY <2>7, <3>1, <3>2
    <3> QED
      BY <2>6, <2>10, <3>2, <3>3
  <2>11. CASE L # {} /\ R # {}
    <3>1. PICK a \in L : \A b \in L : b =< a
      BY <2>3, <2>11
    <3>2. PICK b \in R : \A d \in R : b =< d
      BY <2>4, <2>11
    <3>3. a \in Cuts /\ b \in Cuts /\ a < b
      BY <2>2, <2>5
    <3>4. PICK x \in Points : x \in Int /\ a =< 2 * x /\ 2 * x < b
      BY <3>3, CutsApart
    <3>5. (\A d \in L : d =< 2 * x) /\ (\A d \in R : 2 * x < d)
      BY <2>7, <3>1, <3>2, <3>4
    <3> QED
      BY <2>6, <3>4, <3>5
  <2> QED
    BY <2>8, <2>9, <2>10, <2>11
<1>4. ASSUME NEW x \in Int, Between(x, e), Between(x, k) PROVE Overlap(e, k)
  BY <1>1, <1>2, <1>4 DEF Between, Overlap
<1>5. ASSUME Overlap(e, k) PROVE PointsOf[e] \cap PointsOf[k] # {}
  BY <1>3, <1>5, PointsAre
<1>6. ASSUME PointsOf[e] \cap PointsOf[k] # {} PROVE Overlap(e, k)
  BY <1>4, <1>6, PointsAre
<1> QED
  BY <1>5, <1>6

-----------------------------------------------------------------------------
(***************************************************************************)
(* What locate() finds: elements l .. u - 1 are neither before nor behind. *)
(***************************************************************************)
LocatedAs(loc, k, l, u) ==
    /\ l \in 1 .. Len(cont_) + 1 /\ u \in 1 .. Len(cont_) + 1 /\ l =< u
    /\ \A i \in 1 .. Len(cont_) : /\ Less(cont_[i].key, k) <=> i < l
                                  /\ Less(k, cont_[i].key) <=> i >= u
    /\ loc.left.itr = l /\ Past(loc.right) = u
    /\ loc.right.itr = IF loc.right.contains THEN u - 1 ELSE u
    /\ loc.left.contains <=> l =< Len(cont_) /\ ContainsLeft(cont_[l].key, k)
    /\ loc.right.contains <=> l =< Len(cont_) /\ u > 1 /\ ContainsRight(cont_[u - 1].key, k)
    /\ loc.left.connected <=> l > 1 /\ LeftConnected(k, cont_[l - 1].key)
    /\ loc.right.connected <=> u =< Len(cont_) /\ RightConnected(k, cont_[u].key)

\* locate() of a key that divides the elements.
LEMMA LocatedIs ==
    ASSUME InOrder(cont_), NEW k, Divides(k)
    PROVE  LocatedAs(Located(k), k, LowerBound(cont_, k), UpperBound(cont_, k))
<1> DEFINE l == LowerBound(cont_, k)
           u == UpperBound(cont_, k)
           loc == Located(k)
<1>1. Bounded(cont_, k) /\ Len(cont_) \in Nat
  BY DividersBound, ElementsAre DEF InOrder
<1>2. /\ l \in 1 .. Len(cont_) + 1 /\ u \in 1 .. Len(cont_) + 1 /\ l =< u
      /\ \A i \in 1 .. Len(cont_) : /\ Less(cont_[i].key, k) <=> i < l
                                    /\ Less(k, cont_[i].key) <=> i >= u
  BY <1>1 DEF Bounded
<1> DEFINE leftBorder == l > 1 /\ LeftConnected(k, cont_[l - 1].key)
           containsRight == u > 1 /\ ContainsRight(cont_[u - 1].key, k)
           containsLeft == ContainsLeft(cont_[l].key, k)
           rightBorder == u # Len(cont_) + 1 /\ RightConnected(k, cont_[u].key)
<1>3. loc = IF l = Len(cont_) + 1
            THEN [left |-> [itr |-> Len(cont_) + 1, contains |-> FALSE, connected |-> leftBorder],
                  right |-> [itr |-> Len(cont_) + 1, contains |-> FALSE, connected |-> FALSE]]
            ELSE [left |-> [itr |-> l, contains |-> containsLeft, connected |-> leftBorder],
                  right |-> [itr |-> IF containsRight THEN u - 1 ELSE u,
                             contains |-> containsRight, connected |-> rightBorder]]
  BY DEF Located, Nowhere, IsEnd, End, Key
<1>4. CASE l = Len(cont_) + 1
  <2>0. /\ loc.left.itr = l /\ loc.left.contains = FALSE /\ loc.left.connected = leftBorder
        /\ loc.right.itr = l /\ loc.right.contains = FALSE /\ loc.right.connected = FALSE
    BY <1>3, <1>4
  <2>1. /\ loc.left.itr = l /\ ~loc.left.contains /\ (loc.left.connected <=> leftBorder)
        /\ loc.right.itr = l /\ ~loc.right.contains /\ ~loc.right.connected
    <3> HIDE DEF l, u, loc, leftBorder
    <3> QED
      BY <2>0
  <2>2. u = l /\ ~(l =< Len(cont_)) /\ ~(u =< Len(cont_))
    BY <1>1, <1>2, <1>4
  <2>3. Past(loc.right) = u
    BY <2>1, <2>2 DEF Past
  <2> HIDE DEF l, u, loc
  <2>4. LocatedAs(loc, k, l, u)
    BY <1>2, <2>1, <2>2, <2>3 DEF LocatedAs
  <2> QED
    BY <2>4 DEF l, u, loc
<1>5. CASE l # Len(cont_) + 1
  <2>0. /\ loc.left.itr = l /\ loc.left.contains = containsLeft /\ loc.left.connected = leftBorder
        /\ loc.right.itr = IF containsRight THEN u - 1 ELSE u
        /\ loc.right.contains = containsRight /\ loc.right.connected = rightBorder
    BY <1>3, <1>5
  <2>1. /\ loc.left.itr = l /\ (loc.left.contains <=> containsLeft) /\ (loc.left.connected <=> leftBorder)
        /\ loc.right.itr = IF containsRight THEN u - 1 ELSE u
        /\ (loc.right.contains <=> containsRight) /\ (loc.right.connected <=> rightBorder)
    <3> HIDE DEF l, u, loc, leftBorder, rightBorder, containsLeft, containsRight
    <3> QED
      BY <2>0
  <2>2. l =< Len(cont_) /\ (u # Len(cont_) + 1 <=> u =< Len(cont_)) /\ (u - 1) + 1 = u
    BY <1>1, <1>2, <1>5
  <2> HIDE DEF l, u, loc
  <2>3. Past(loc.right) = u
    BY <2>1, <2>2 DEF Past
  <2>4. LocatedAs(loc, k, l, u)
    BY <1>2, <2>1, <2>2, <2>3 DEF LocatedAs
  <2> QED
    BY <2>4 DEF l, u, loc
<1> QED
  BY <1>4, <1>5

\* One begins where the other ends.
Touch(e, f) == HasRight(e) /\ HasLeft(f) /\ Hi(e) = Lo(f)

\* left_connected() and right_connected() say it of intervals with points.
LEMMA ConnectedMeans ==
    ASSUME NEW e \in Proper, NEW f \in Proper
    PROVE  (LeftConnected(f, e) <=> Touch(e, f)) /\ (RightConnected(e, f) <=> Touch(e, f))
<1>1. /\ e.left \in Int /\ e.right \in Int /\ f.left \in Int /\ f.right \in Int
      /\ ~Empty(e) /\ ~Empty(f)
  BY MadeIs DEF Proper
<1>2. ConnectedAttr("CLOSE") = "OPEN" /\ ConnectedAttr("OPEN") = "CLOSE"
  BY DEF ConnectedAttr
<1>3. HasRight(e) /\ HasLeft(f) => (Hi(e) = Lo(f) <=> f.left = e.right /\ f.lattr = ConnectedAttr(e.rattr))
  BY <1>1, <1>2 DEF HasRight, HasLeft, Hi, Lo, Finite
<1> QED
  BY <1>1, <1>3 DEF LeftConnected, RightConnected, Touch, HasRight, HasLeft

\* What locate() finds of an interval with points.
LEMMA LocatedCuts ==
    ASSUME InOrder(cont_), NEW k \in Proper, NEW l, NEW u, NEW loc, LocatedAs(loc, k, l, u)
    PROVE  /\ loc.left.contains <=>
                  l < u /\ HasLeft(k) /\ (HasLeft(cont_[l].key) => Lo(cont_[l].key) =< Lo(k))
           /\ loc.right.contains <=>
                  l < u /\ HasRight(k) /\ (HasRight(cont_[u - 1].key) => Hi(k) =< Hi(cont_[u - 1].key))
           /\ loc.left.connected <=> l > 1 /\ Touch(cont_[l - 1].key, k)
           /\ loc.right.connected <=> u =< Len(cont_) /\ Touch(k, cont_[u].key)
<1> DEFINE c == cont_
<1>1. Len(c) \in Nat /\ \A i \in 1 .. Len(c) : c[i].key \in Proper
  BY ElementsAre DEF InOrder
<1>2. /\ l \in 1 .. Len(c) + 1 /\ u \in 1 .. Len(c) + 1 /\ l =< u
      /\ \A i \in 1 .. Len(c) : (Less(c[i].key, k) <=> i < l) /\ (Less(k, c[i].key) <=> i >= u)
      /\ loc.left.contains <=> l =< Len(c) /\ ContainsLeft(c[l].key, k)
      /\ loc.right.contains <=> l =< Len(c) /\ u > 1 /\ ContainsRight(c[u - 1].key, k)
      /\ loc.left.connected <=> l > 1 /\ LeftConnected(k, c[l - 1].key)
      /\ loc.right.connected <=> u =< Len(c) /\ RightConnected(k, c[u].key)
  BY DEF LocatedAs
<1> HIDE DEF c
<1>3. ASSUME l =< Len(c)
      PROVE  ContainsLeft(c[l].key, k) <=>
                 l < u /\ HasLeft(k) /\ (HasLeft(c[l].key) => Lo(c[l].key) =< Lo(k))
  <2>1. l \in 1 .. Len(c) /\ ~(l < l) /\ (l >= u <=> ~(l < u))
    BY <1>1, <1>2, <1>3
  <2>2. c[l].key \in Proper /\ ~Less(c[l].key, k) /\ (Less(k, c[l].key) <=> ~(l < u))
    BY <1>1, <1>2, <2>1
  <2> QED
    BY <2>2, SidesMean
<1>4. ASSUME u > 1
      PROVE  ContainsRight(c[u - 1].key, k) <=>
                 l < u /\ HasRight(k) /\ (HasRight(c[u - 1].key) => Hi(k) =< Hi(c[u - 1].key))
  <2>1. u - 1 \in 1 .. Len(c) /\ ~(u - 1 >= u) /\ (u - 1 < l <=> ~(l < u))
    BY <1>1, <1>2, <1>4
  <2>2. c[u - 1].key \in Proper /\ ~Less(k, c[u - 1].key) /\ (Less(c[u - 1].key, k) <=> ~(l < u))
    BY <1>1, <1>2, <2>1
  <2> QED
    BY <2>2, SidesMean
<1>5. l < u => l =< Len(c) /\ u > 1
  BY <1>1, <1>2
<1>6. l > 1 => (LeftConnected(k, c[l - 1].key) <=> Touch(c[l - 1].key, k))
  <2>1. l > 1 => l - 1 \in 1 .. Len(c)
    BY <1>1, <1>2
  <2> QED
    BY <1>1, <2>1, ConnectedMeans
<1>7. u =< Len(c) => (RightConnected(k, c[u].key) <=> Touch(k, c[u].key))
  <2>1. u =< Len(c) => u \in 1 .. Len(c)
    BY <1>1, <1>2
  <2> QED
    BY <1>1, <2>1, ConnectedMeans
<1>8. /\ loc.left.contains <=> l < u /\ HasLeft(k) /\ (HasLeft(c[l].key) => Lo(c[l].key) =< Lo(k))
      /\ loc.right.contains <=> l < u /\ HasRight(k) /\ (HasRight(c[u - 1].key) => Hi(k) =< Hi(c[u - 1].key))
  BY <1>2, <1>3, <1>4, <1>5
<1>9. /\ loc.left.connected <=> l > 1 /\ Touch(c[l - 1].key, k)
      /\ loc.right.connected <=> u =< Len(c) /\ Touch(k, c[u].key)
  BY <1>2, <1>6, <1>7
<1> QED
  BY <1>8, <1>9 DEF c

-----------------------------------------------------------------------------
(***************************************************************************)
(* The changes. Each takes out the elements from one place to before       *)
(* another and emplaces others there.                                      *)
(***************************************************************************)
Opened(change, from, to) ==
    /\ from \in 1 .. Len(cont_) + 1 /\ to \in from .. Len(cont_) + 1
    /\ change.at = from /\ Gapped(change.left, cont_, from, to - from)
    /\ change = Change(change.left, change.at, change.new)

\* A container is itself without nothing.
LEMMA NothingTaken ==
    ASSUME NEW c \in Seq(Held)
    PROVE  Gapped(c, c, Len(c) + 1, 0) /\ Gapped(<<>>, c, 1, Len(c))
<1>1. Len(c) \in Nat
  BY ElementsAre
<1>2. \A j \in 1 .. Len(c) : j < Len(c) + 1
  BY <1>1
<1>3. Gapped(c, c, Len(c) + 1, 0)
  BY <1>1, <1>2 DEF Gapped
<1>4. Gapped(<<>>, c, 1, Len(c))
  <2>1. <<>> \in Seq(Held) /\ Len(<<>>) = 0 /\ 0 + Len(c) = Len(c) /\ 1 .. 0 = {}
    BY <1>1
  <2> QED
    BY <2>1 DEF Gapped
<1> QED
  BY <1>3, <1>4

\* erase() of a stretch makes room there,
LEMMA ErasedOpens ==
    ASSUME InOrder(cont_), NEW from \in 1 .. Len(cont_) + 1, NEW to \in from .. Len(cont_) + 1, NEW new
    PROVE  Opened(Change(Erased(from, to), from, new), from, to)
<1>1. cont_ \in Seq(Held) /\ Len(cont_) \in Nat
  BY ElementsAre DEF InOrder
<1> DEFINE gap == to - from
<1>2. gap \in Nat /\ to = from + gap /\ from + gap =< Len(cont_) + 1
  BY <1>1
<1> HIDE DEF gap
<1>3. Gapped(SubSeq(cont_, 1, from - 1) \o SubSeq(cont_, to, Len(cont_)), cont_, from, gap)
  BY <1>1, <1>2, ErasedIsGapped
<1>4. Gapped(Erased(from, to), cont_, from, to - from)
  BY <1>3 DEF Erased, gap
<1> QED
  BY <1>4 DEF Opened, Change

\* nothing has to go for what is appended,
LEMMA OpensAtEnd ==
    ASSUME InOrder(cont_), NEW new
    PROVE  Opened(Change(cont_, End, new), Len(cont_) + 1, Len(cont_) + 1)
<1>1. cont_ \in Seq(Held) /\ Len(cont_) \in Nat
  BY ElementsAre DEF InOrder
<1>2. Gapped(cont_, cont_, Len(cont_) + 1, 0) /\ (Len(cont_) + 1) - (Len(cont_) + 1) = 0
  BY <1>1, NothingTaken
<1>3. Len(cont_) + 1 \in 1 .. Len(cont_) + 1 /\ Len(cont_) + 1 \in Len(cont_) + 1 .. Len(cont_) + 1
  BY <1>1
<1> QED
  BY <1>2, <1>3 DEF Opened, Change, End

\* and clear() takes everything.
LEMMA OpensAll ==
    ASSUME InOrder(cont_), NEW new
    PROVE  Opened(Change(<<>>, 1, new), 1, Len(cont_) + 1)
<1>1. cont_ \in Seq(Held) /\ Len(cont_) \in Nat
  BY ElementsAre DEF InOrder
<1>2. Gapped(<<>>, cont_, 1, Len(cont_)) /\ (Len(cont_) + 1) - 1 = Len(cont_)
  BY <1>1, NothingTaken
<1>3. 1 \in 1 .. Len(cont_) + 1 /\ Len(cont_) + 1 \in 1 .. Len(cont_) + 1
  BY <1>1
<1> QED
  BY <1>2, <1>3 DEF Opened, Change

\* The infinite interval takes all.
LEMMA InfiniteTakesAll ==
    ASSUME InOrder(cont_), NEW k, IsInfinite(k), NEW l, NEW u, NEW loc, LocatedAs(loc, k, l, u)
    PROVE  l = 1 /\ u = Len(cont_) + 1 /\ ~loc.left.contains /\ ~loc.right.contains
<1>1. Len(cont_) \in Nat /\ \A i \in 1 .. Len(cont_) : cont_[i].key \in Proper
  BY ElementsAre DEF InOrder
<1>2. k.lattr = "MIN_INF" /\ k.rattr = "MAX_INF"
  BY DEF IsInfinite
<1>3. \A e \in Proper : ~Less(e, k) /\ ~Less(k, e)
  <2>1. TAKE e \in Proper
  <2>2. e.lattr \in Finite \cup {"MIN_INF"}
    BY ProperMeans
  <2> QED
    BY <1>2, <2>2 DEF Less, Finite, Infinite
<1>4. /\ l \in 1 .. Len(cont_) + 1 /\ u \in 1 .. Len(cont_) + 1 /\ l =< u
      /\ \A i \in 1 .. Len(cont_) : /\ Less(cont_[i].key, k) <=> i < l
                                    /\ Less(k, cont_[i].key) <=> i >= u
  BY DEF LocatedAs
<1>5. l = 1
  <2>1. l > 1 => 1 \in 1 .. Len(cont_)
    BY <1>1, <1>4
  <2> QED
    BY <1>1, <1>3, <1>4, <2>1
<1>6. u = Len(cont_) + 1
  <2>1. u =< Len(cont_) => u \in 1 .. Len(cont_) /\ u >= u
    BY <1>1, <1>4
  <2> QED
    BY <1>1, <1>3, <1>4, <2>1
<1>7. ~loc.left.contains /\ ~loc.right.contains
  BY <1>2 DEF LocatedAs, ContainsLeft, ContainsRight, Finite
<1> QED
  BY <1>5, <1>6, <1>7

\* What is left of the elements that contain the endpoints.
LEMMA RestsAre ==
    ASSUME InOrder(cont_), NEW k \in Made, NEW l, NEW u, NEW loc, LocatedAs(loc, k, l, u)
    PROVE  /\ FirstRest(loc, k) \in Seq(Held) /\ LastRest(loc, k) \in Seq(Held)
           /\ FirstRest(loc, k) =
                  IF loc.left.contains /\ ~Empty(ConnectRight(cont_[l].key, k))
                  THEN <<Entry(ConnectRight(cont_[l].key, k), cont_[l].val)>> ELSE <<>>
           /\ LastRest(loc, k) =
                  IF loc.right.contains /\ ~Empty(ConnectLeft(cont_[u - 1].key, k))
                  THEN <<Entry(ConnectLeft(cont_[u - 1].key, k), cont_[u - 1].val)>> ELSE <<>>
<1>1. /\ Len(cont_) \in Nat
      /\ \A i \in 1 .. Len(cont_) : cont_[i].key \in Proper /\ cont_[i].val \in Values
  BY ElementsAre DEF InOrder
<1>2. /\ l \in 1 .. Len(cont_) + 1 /\ u \in 1 .. Len(cont_) + 1
      /\ loc.left.itr = l
      /\ loc.right.itr = IF loc.right.contains THEN u - 1 ELSE u
      /\ loc.left.contains => l =< Len(cont_) /\ ContainsLeft(cont_[l].key, k)
      /\ loc.right.contains => u > 1 /\ ContainsRight(cont_[u - 1].key, k)
  BY DEF LocatedAs
<1> DEFINE a == Entry(ConnectRight(cont_[l].key, k), cont_[l].val)
           b == Entry(ConnectLeft(cont_[u - 1].key, k), cont_[u - 1].val)
<1>3. FirstRest(loc, k) = IF loc.left.contains /\ ~Empty(ConnectRight(cont_[l].key, k)) THEN <<a>> ELSE <<>>
  BY <1>2 DEF FirstRest, Rest, Kept, Entry
<1>4. LastRest(loc, k) = IF loc.right.contains /\ ~Empty(ConnectLeft(cont_[u - 1].key, k)) THEN <<b>> ELSE <<>>
  BY <1>2 DEF LastRest, Rest, Kept, Entry
<1>5. loc.left.contains /\ ~Empty(ConnectRight(cont_[l].key, k)) => a \in Held
  <2>1. loc.left.contains => l \in 1 .. Len(cont_)
    BY <1>1, <1>2
  <2> QED
    BY <1>1, <1>2, <2>1, RestsProper DEF Entry, Held
<1>6. loc.right.contains /\ ~Empty(ConnectLeft(cont_[u - 1].key, k)) => b \in Held
  <2>1. loc.right.contains => u - 1 \in 1 .. Len(cont_)
    BY <1>1, <1>2
  <2> QED
    BY <1>1, <1>2, <2>1, RestsProper DEF Entry, Held
<1> HIDE DEF a, b
<1>7. FirstRest(loc, k) \in Seq(Held)
  BY <1>3, <1>5
<1>8. LastRest(loc, k) \in Seq(Held)
  BY <1>4, <1>6
<1> QED
  BY <1>3, <1>4, <1>7, <1>8 DEF a, b

MergeNew(k, v, loc) == <<Entry(Stretched(k, loc), v)>>

\* insert, cut and merge take out what the interval overlaps.
LEMMA Changes ==
    ASSUME InOrder(cont_), NEW k \in Made, NEW l, NEW u, NEW loc, LocatedAs(loc, k, l, u), NEW v
    PROVE  /\ Opened(InsertChange(k, v, loc), l, u)
           /\ k \in Proper /\ v \in Values => InsertChange(k, v, loc).new = (FirstRest(loc, k) \o <<Entry(k, v)>>) \o LastRest(loc, k)
           /\ Opened(CutChange(k, loc), l, u)
           /\ CutChange(k, loc).new = FirstRest(loc, k) \o LastRest(loc, k)
           /\ Opened(MergeChange(k, v, loc), l, u)
           /\ MergeChange(k, v, loc).new = MergeNew(k, v, loc)
<1>1. /\ l \in 1 .. Len(cont_) + 1 /\ u \in 1 .. Len(cont_) + 1 /\ l =< u
      /\ loc.left.itr = l /\ Past(loc.right) = u
      /\ Len(cont_) \in Nat
  BY ElementsAre DEF LocatedAs, InOrder
<1>2. Without(loc) = Erased(l, u) /\ u \in l .. Len(cont_) + 1 /\ End = Len(cont_) + 1
  BY <1>1 DEF Without, End
<1>3. \A new : Opened(Change(Without(loc), l, new), l, u)
  BY <1>1, <1>2, ErasedOpens
<1>4. l = End => \A new : Opened(Change(cont_, End, new), l, u)
  <2>1. l = End => u = l
    BY <1>1, <1>2
  <2> QED
    BY <1>2, <2>1, OpensAtEnd
<1>5. IsInfinite(k) => /\ \A new : Opened(Change(<<>>, 1, new), l, u)
                       /\ ~loc.left.contains /\ ~loc.right.contains
  BY InfiniteTakesAll, OpensAll
<1>6. l = End => ~loc.left.contains /\ ~loc.right.contains
  BY <1>1, <1>2 DEF LocatedAs
<1>7. /\ ~loc.left.contains => FirstRest(loc, k) = <<>>
      /\ ~loc.right.contains => LastRest(loc, k) = <<>>
      /\ ~loc.left.contains /\ ~loc.right.contains => Stretched(k, loc) = k
  BY DEF FirstRest, LastRest, Stretched
<1>8. /\ k \in Proper /\ v \in Values => (<<>> \o <<Entry(k, v)>>) \o <<>> = <<Entry(k, v)>>
      /\ <<>> \o <<>> = <<>>
  <2>1. k \in Proper /\ v \in Values => Entry(k, v) \in Held
    BY DEF Entry, Held
  <2>2. k \in Proper /\ v \in Values => <<Entry(k, v)>> \in Seq(Held)
    BY <2>1
  <2>3. <<>> \in Seq(Held)
    OBVIOUS
  <2>4. \A s \in Seq(Held) : <<>> \o s = s /\ s \o <<>> = s
    BY ConcatEmptySeq
  <2> QED
    BY <2>2, <2>3, <2>4
<1>9. \A left, at, new : Change(left, at, new).new = new
  BY DEF Change
<1> DEFINE Usual(new) == Change(Without(loc), l, new)
           Behind(new) == Change(cont_, End, new)
           Alone(new) == Change(<<>>, 1, new)
           first == FirstRest(loc, k)
           last == LastRest(loc, k)
           entry == Entry(k, v)
<1>10. /\ InsertChange(k, v, loc) = IF IsInfinite(k) THEN Alone(<<entry>>) ELSE IF l = End THEN Behind(<<entry>>)
                                    ELSE Usual((first \o <<entry>>) \o last)
       /\ CutChange(k, loc) = IF IsInfinite(k) THEN Alone(<<>>) ELSE IF l = End THEN Behind(<<>>)
                              ELSE Usual(first \o last)
       /\ MergeChange(k, v, loc) = IF IsInfinite(k) THEN Alone(<<entry>>)
                                   ELSE IF l = End /\ ~loc.left.connected THEN Behind(<<entry>>)
                                   ELSE Usual(<<Entry(Stretched(k, loc), v)>>)
  BY <1>1 DEF InsertChange, CutChange, MergeChange, IsEnd
<1>11. /\ \A new : Opened(Usual(new), l, u) /\ Usual(new).new = new
       /\ l = End => \A new : Opened(Behind(new), l, u) /\ Behind(new).new = new
       /\ IsInfinite(k) => \A new : Opened(Alone(new), l, u) /\ Alone(new).new = new
  BY <1>3, <1>4, <1>5, <1>9
<1>12. IsInfinite(k) \/ l = End =>
           /\ first = <<>> /\ last = <<>> /\ Stretched(k, loc) = k
           /\ k \in Proper /\ v \in Values => (first \o <<entry>>) \o last = <<entry>>
           /\ first \o last = <<>>
  BY <1>5, <1>6, <1>7, <1>8
<1> HIDE DEF Usual, Behind, Alone, first, last
<1>13. Opened(InsertChange(k, v, loc), l, u) /\ Opened(CutChange(k, loc), l, u) /\ Opened(MergeChange(k, v, loc), l, u)
  BY <1>10, <1>11
<1>14. k \in Proper /\ v \in Values => InsertChange(k, v, loc).new = (first \o <<entry>>) \o last
  BY <1>10, <1>11, <1>12
<1>15. CutChange(k, loc).new = first \o last
  BY <1>10, <1>11, <1>12
<1>16. MergeChange(k, v, loc).new = <<Entry(Stretched(k, loc), v)>>
  BY <1>10, <1>11, <1>12
<1> QED
  BY <1>13, <1>14, <1>15, <1>16 DEF first, last, MergeNew

\* New elements in order that lie between those before one place and those from another
\* on take the place of what was between.
FitsBetween(from, to, e) ==
    \A j \in 1 .. Len(cont_) : /\ j < from => Less(cont_[j].key, e.key)
                               /\ j >= to => Less(e.key, cont_[j].key)

\* The container then has the others and the new elements, in order.
LEMMA ChangeGives ==
    ASSUME InOrder(cont_), NEW from, NEW to, NEW change, Opened(change, from, to),
           InOrder(change.new), \A e \in Elements(change.new) : FitsBetween(from, to, e)
    PROVE  /\ InOrder(Changed("std", change))
           /\ Elements(Changed("std", change)) = Others(cont_, from, to) \cup Elements(change.new)
           /\ Changed("array", change) = Changed("std", change)
<1> DEFINE left == change.left
           new == change.new
           gap == to - from
<1>1. /\ cont_ \in Seq(Held) /\ Len(cont_) \in Nat
      /\ from \in 1 .. Len(cont_) + 1 /\ to \in from .. Len(cont_) + 1
      /\ change.at = from /\ Gapped(left, cont_, from, gap) /\ change = Change(left, from, new)
  BY ElementsAre DEF Opened, InOrder
<1>2. gap \in Nat /\ to = from + gap /\ from + gap =< Len(cont_) + 1
  BY <1>1
<1> HIDE DEF gap, left, new
<1>3. /\ InOrder(left) /\ Elements(left) = Others(cont_, from, to) /\ from \in 1 .. Len(left) + 1
      /\ \A j \in 1 .. Len(left) : IF j < from THEN j \in 1 .. Len(cont_) /\ left[j] = cont_[j]
                                   ELSE /\ j + gap \in 1 .. Len(cont_) /\ j + gap >= to
                                        /\ left[j] = cont_[j + gap]
  BY <1>1, <1>2, GappedHas
<1>4. Len(new) \in Nat /\ \A n \in 1 .. Len(new) : new[n] \in Elements(new)
  BY ElementsAre DEF InOrder, new
<1>5. ASSUME NEW n \in 1 .. Len(new) PROVE Fits(left, from, new[n])
  <2>1. FitsBetween(from, to, new[n])
    BY <1>4 DEF new
  <2> QED
    BY <1>3, <2>1 DEF FitsBetween, Fits
<1>6. Belongs(left, from, new)
  BY <1>5 DEF Belongs, new
<1>7. /\ InOrder(Changed("std", change))
      /\ Elements(Changed("std", change)) = Elements(left) \cup Elements(new)
      /\ Changed("array", change) = Changed("std", change)
  BY <1>1, <1>3, <1>6, ChangedBelongs
<1> QED
  BY <1>3, <1>7 DEF new

\* For any new elements the std::map stays in order.
LEMMA ChangeInOrder ==
    ASSUME InOrder(cont_), NEW from, NEW to, NEW change, Opened(change, from, to), change.new \in Seq(Held)
    PROVE  InOrder(Changed("std", change))
<1> DEFINE left == change.left
           gap == to - from
<1>1. /\ Len(cont_) \in Nat
      /\ from \in 1 .. Len(cont_) + 1 /\ to \in from .. Len(cont_) + 1
      /\ change.at = from /\ Gapped(left, cont_, from, gap) /\ change = Change(left, from, change.new)
  BY ElementsAre DEF Opened, InOrder
<1>2. gap \in Nat /\ to = from + gap /\ from + gap =< Len(cont_) + 1
  BY <1>1
<1> HIDE DEF gap, left
<1>3. InOrder(left) /\ from \in 1 .. Len(left) + 1
  BY <1>1, <1>2, GappedHas
<1> QED
  BY <1>1, <1>3, ChangedInOrder

\* One sequence behind another.
LEMMA ConcatHas ==
    ASSUME NEW s \in Seq(Held), NEW t \in Seq(Held)
    PROVE  /\ s \o t \in Seq(Held) /\ Elements(s \o t) = Elements(s) \cup Elements(t)
           /\ Len(s \o t) = Len(s) + Len(t) /\ Len(s) \in Nat /\ Len(t) \in Nat
           /\ \A i \in 1 .. Len(s) + Len(t) :
                  IF i <= Len(s) THEN i \in 1 .. Len(s) /\ (s \o t)[i] = s[i]
                  ELSE i - Len(s) \in 1 .. Len(t) /\ (s \o t)[i] = t[i - Len(s)]
<1> DEFINE d == s \o t
           m == Len(s)
           n == Len(t)
<1>1. /\ m \in Nat /\ n \in Nat
      /\ \A i \in 1 .. m : s[i] \in Elements(s)
      /\ \A i \in 1 .. n : t[i] \in Elements(t)
  BY ElementsAre
<1>2. /\ d \in Seq(Held) /\ Len(d) = m + n
      /\ \A i \in 1 .. m + n : d[i] = IF i <= m THEN s[i] ELSE t[i - m]
  BY ConcatProperties
<1> HIDE DEF d, m, n
<1>3. \A i \in 1 .. m + n : IF i <= m THEN i \in 1 .. m /\ d[i] = s[i]
                            ELSE i - m \in 1 .. n /\ d[i] = t[i - m]
  <2>1. \A i \in 1 .. m + n : IF i <= m THEN i \in 1 .. m ELSE i - m \in 1 .. n
    BY <1>1
  <2> QED
    BY <1>2, <2>1
<1>4. Elements(d) \subseteq Elements(s) \cup Elements(t)
  <2>1. SUFFICES ASSUME NEW i \in 1 .. Len(d) PROVE d[i] \in Elements(s) \cup Elements(t)
    BY DEF Elements
  <2> QED
    BY <1>1, <1>2, <1>3
<1>5. Elements(s) \subseteq Elements(d)
  <2>1. SUFFICES ASSUME NEW i \in 1 .. m PROVE s[i] \in Elements(d)
    BY DEF Elements, m
  <2>2. i \in 1 .. Len(d) /\ i \in 1 .. m + n /\ i <= m
    BY <1>1, <1>2
  <2> QED
    BY <1>2, <2>2 DEF Elements
<1>6. Elements(t) \subseteq Elements(d)
  <2>1. SUFFICES ASSUME NEW i \in 1 .. n PROVE t[i] \in Elements(d)
    BY DEF Elements, n
  <2>2. i + m \in 1 .. Len(d) /\ i + m \in 1 .. m + n /\ ~(i + m <= m) /\ (i + m) - m = i
    BY <1>1, <1>2
  <2>3. d[i + m] = t[i]
    BY <1>2, <2>2
  <2> QED
    BY <2>2, <2>3 DEF Elements
<1> QED
  BY <1>1, <1>2, <1>3, <1>4, <1>5, <1>6 DEF d, m, n

\* Containers in order one behind the other.
LEMMA OneAfterOther ==
    ASSUME NEW s, InOrder(s), NEW t, InOrder(t),
           \A e \in Elements(s), f \in Elements(t) : Less(e.key, f.key)
    PROVE  InOrder(s \o t) /\ Elements(s \o t) = Elements(s) \cup Elements(t)
<1> DEFINE d == s \o t
           m == Len(s)
           n == Len(t)
<1>1. /\ s \in Seq(Held) /\ t \in Seq(Held) /\ Ordered(s) /\ Ordered(t)
      /\ \A i \in 1 .. m : s[i] \in Elements(s)
      /\ \A i \in 1 .. n : t[i] \in Elements(t)
  BY ElementsAre DEF InOrder
<1>2. /\ d \in Seq(Held) /\ Elements(d) = Elements(s) \cup Elements(t) /\ Len(d) = m + n /\ m \in Nat /\ n \in Nat
      /\ \A i \in 1 .. m + n : IF i <= m THEN i \in 1 .. m /\ d[i] = s[i]
                                ELSE i - m \in 1 .. n /\ d[i] = t[i - m]
  BY <1>1, ConcatHas
<1> HIDE DEF d, m, n
<1>3. ASSUME NEW i \in 1 .. Len(d), NEW j \in 1 .. Len(d), i < j PROVE Less(d[i].key, d[j].key)
  <2>1. CASE j <= m
    <3>1. i <= m
      BY <1>2, <1>3, <2>1
    <3> QED
      BY <1>1, <1>2, <1>3, <2>1, <3>1 DEF Ordered, m
  <2>2. CASE i <= m /\ ~(j <= m)
    BY <1>1, <1>2, <2>2
  <2>3. CASE ~(i <= m)
    <3>1. ~(j <= m) /\ i - m < j - m
      BY <1>2, <1>3, <2>3
    <3> QED
      BY <1>1, <1>2, <2>3, <3>1 DEF Ordered, n
  <2> QED
    BY <2>1, <2>2, <2>3
<1> QED
  BY <1>2, <1>3 DEF InOrder, Ordered, d

\* One element is in order, and so is none.
LEMMA OneOrNone ==
    /\ InOrder(<<>>) /\ Elements(<<>>) = {}
    /\ \A e \in Held : InOrder(<<e>>) /\ Elements(<<e>>) = {e}
<1>1. InOrder(<<>>) /\ Elements(<<>>) = {}
  BY DEF InOrder, Ordered, Elements
<1>2. ASSUME NEW e \in Held PROVE InOrder(<<e>>) /\ Elements(<<e>>) = {e}
  <2>1. <<e>> \in Seq(Held) /\ Len(<<e>>) = 1 /\ <<e>>[1] = e /\ 1 .. 1 = {1}
    OBVIOUS
  <2>2. \A i, j \in 1 .. 1 : ~(i < j)
    OBVIOUS
  <2> QED
    BY <2>1, <2>2 DEF InOrder, Ordered, Elements
<1> QED
  BY <1>1, <1>2

-----------------------------------------------------------------------------
(***************************************************************************)
(* What the operations emplace.                                            *)
(***************************************************************************)
\* The rest on the left of k, and the one on its right.
IsFirstRest(r, k, l, u) ==
    /\ l < u /\ r \in Held /\ r.val = cont_[l].val
    /\ HasLeft(k) /\ (HasLeft(cont_[l].key) => Lo(cont_[l].key) < Lo(k))
    /\ (HasLeft(r.key) <=> HasLeft(cont_[l].key)) /\ Lo(r.key) = Lo(cont_[l].key)
    /\ HasRight(r.key) /\ Hi(r.key) = Lo(k)
IsLastRest(r, k, l, u) ==
    /\ l < u /\ r \in Held /\ r.val = cont_[u - 1].val
    /\ HasRight(k) /\ (HasRight(cont_[u - 1].key) => Hi(k) < Hi(cont_[u - 1].key))
    /\ (HasRight(r.key) <=> HasRight(cont_[u - 1].key)) /\ Hi(r.key) = Hi(cont_[u - 1].key)
    /\ HasLeft(r.key) /\ Lo(r.key) = Hi(k)

\* The rests are at most one element each, and are there if k only cuts into an element.
LEMMA RestsBelong ==
    ASSUME InOrder(cont_), NEW k \in Proper, NEW l, NEW u, NEW loc, LocatedAs(loc, k, l, u)
    PROVE  /\ InOrder(FirstRest(loc, k)) /\ InOrder(LastRest(loc, k))
           /\ \A r \in Elements(FirstRest(loc, k)) : IsFirstRest(r, k, l, u)
           /\ \A r \in Elements(LastRest(loc, k)) : IsLastRest(r, k, l, u)
           /\ l < u /\ HasLeft(k) /\ (HasLeft(cont_[l].key) => Lo(cont_[l].key) < Lo(k)) =>
                  Elements(FirstRest(loc, k)) # {}
           /\ l < u /\ HasRight(k) /\ (HasRight(cont_[u - 1].key) => Hi(k) < Hi(cont_[u - 1].key)) =>
                  Elements(LastRest(loc, k)) # {}
<1> DEFINE e == cont_[l]
           f == cont_[u - 1]
           a == Entry(ConnectRight(e.key, k), e.val)
           b == Entry(ConnectLeft(f.key, k), f.val)
<1>0. k \in Made
  BY DEF Proper
<1>1. /\ FirstRest(loc, k) \in Seq(Held) /\ LastRest(loc, k) \in Seq(Held)
      /\ FirstRest(loc, k) = IF loc.left.contains /\ ~Empty(ConnectRight(e.key, k)) THEN <<a>> ELSE <<>>
      /\ LastRest(loc, k) = IF loc.right.contains /\ ~Empty(ConnectLeft(f.key, k)) THEN <<b>> ELSE <<>>
  BY <1>0, RestsAre
<1>2. /\ loc.left.contains <=> l < u /\ HasLeft(k) /\ (HasLeft(e.key) => Lo(e.key) =< Lo(k))
      /\ loc.right.contains <=> l < u /\ HasRight(k) /\ (HasRight(f.key) => Hi(k) =< Hi(f.key))
  BY LocatedCuts
<1>3. l < u => e.key \in Proper /\ f.key \in Proper
  <2>1. l < u => l \in 1 .. Len(cont_) /\ u - 1 \in 1 .. Len(cont_)
    BY ElementsAre DEF LocatedAs, InOrder
  <2> QED
    BY <2>1, ElementsAre DEF InOrder
<1>4. a.key = ConnectRight(e.key, k) /\ a.val = e.val /\ b.key = ConnectLeft(f.key, k) /\ b.val = f.val
  BY DEF Entry
<1>5. l < u => Lo(e.key) \in Int /\ Hi(e.key) \in Int /\ Lo(f.key) \in Int /\ Hi(f.key) \in Int /\ Lo(k) \in Int /\ Hi(k) \in Int
  BY <1>3, ProperMeans
<1> HIDE DEF e, f
<1>6. loc.left.contains => /\ HasLeft(a.key) <=> HasLeft(e.key)
                           /\ Lo(a.key) = Lo(e.key) /\ HasRight(a.key) /\ Hi(a.key) = Lo(k)
                           /\ Empty(a.key) <=> HasLeft(e.key) /\ Lo(e.key) = Lo(k)
  BY <1>0, <1>2, <1>3, <1>4, RestsMean
<1>7. loc.right.contains => /\ HasRight(b.key) <=> HasRight(f.key)
                            /\ Hi(b.key) = Hi(f.key) /\ HasLeft(b.key) /\ Lo(b.key) = Hi(k)
                            /\ Empty(b.key) <=> HasRight(f.key) /\ Hi(f.key) = Hi(k)
  BY <1>0, <1>2, <1>3, <1>4, RestsMean
<1> HIDE DEF a, b
<1>8. loc.left.contains /\ ~Empty(a.key) => a \in Held
  <2>1. a \in Held \/ ~(loc.left.contains /\ ~Empty(a.key))
    <3>1. SUFFICES ASSUME loc.left.contains, ~Empty(a.key) PROVE a \in Held
      OBVIOUS
    <3>2. FirstRest(loc, k) = <<a>> /\ <<a>> \in Seq(Held)
      BY <1>1, <1>4, <3>1
    <3>3. Len(<<a>>) = 1 /\ <<a>>[1] = a /\ 1 \in 1 .. Len(<<a>>)
      OBVIOUS
    <3> QED
      BY <3>2, <3>3, ElementsAre
  <2> QED
    BY <2>1
<1>9. loc.right.contains /\ ~Empty(b.key) => b \in Held
  <2>1. b \in Held \/ ~(loc.right.contains /\ ~Empty(b.key))
    <3>1. SUFFICES ASSUME loc.right.contains, ~Empty(b.key) PROVE b \in Held
      OBVIOUS
    <3>2. LastRest(loc, k) = <<b>> /\ <<b>> \in Seq(Held)
      BY <1>1, <1>4, <3>1
    <3>3. Len(<<b>>) = 1 /\ <<b>>[1] = b /\ 1 \in 1 .. Len(<<b>>)
      OBVIOUS
    <3> QED
      BY <3>2, <3>3, ElementsAre
  <2> QED
    BY <2>1
<1>10. InOrder(FirstRest(loc, k)) /\ Elements(FirstRest(loc, k)) =
           IF loc.left.contains /\ ~Empty(a.key) THEN {a} ELSE {}
  BY <1>1, <1>4, <1>8, OneOrNone
<1>11. InOrder(LastRest(loc, k)) /\ Elements(LastRest(loc, k)) =
           IF loc.right.contains /\ ~Empty(b.key) THEN {b} ELSE {}
  BY <1>1, <1>4, <1>9, OneOrNone
<1>12. ASSUME NEW r \in Elements(FirstRest(loc, k)) PROVE IsFirstRest(r, k, l, u)
  <2>1. r = a /\ loc.left.contains /\ ~Empty(a.key)
    BY <1>10
  <2>2. l < u /\ a \in Held /\ HasLeft(k) /\ (HasLeft(e.key) => Lo(e.key) < Lo(k))
    BY <1>2, <1>5, <1>6, <1>8, <2>1
  <2> QED
    BY <1>4, <1>6, <2>1, <2>2 DEF IsFirstRest, e
<1>13. ASSUME NEW r \in Elements(LastRest(loc, k)) PROVE IsLastRest(r, k, l, u)
  <2>1. r = b /\ loc.right.contains /\ ~Empty(b.key)
    BY <1>11
  <2>2. l < u /\ b \in Held /\ HasRight(k) /\ (HasRight(f.key) => Hi(k) < Hi(f.key))
    BY <1>2, <1>5, <1>7, <1>9, <2>1
  <2> QED
    BY <1>4, <1>7, <2>1, <2>2 DEF IsLastRest, f
<1>14. ASSUME l < u, HasLeft(k), HasLeft(e.key) => Lo(e.key) < Lo(k) PROVE Elements(FirstRest(loc, k)) # {}
  <2>1. loc.left.contains /\ ~Empty(a.key)
    BY <1>2, <1>5, <1>6, <1>14
  <2> QED
    BY <1>10, <2>1
<1>15. ASSUME l < u, HasRight(k), HasRight(f.key) => Hi(k) < Hi(f.key) PROVE Elements(LastRest(loc, k)) # {}
  <2>1. loc.right.contains /\ ~Empty(b.key)
    BY <1>2, <1>5, <1>7, <1>15
  <2> QED
    BY <1>11, <2>1
<1> QED
  BY <1>10, <1>11, <1>12, <1>13, <1>14, <1>15 DEF e, f

\* The rests and k lie one behind the other, and between the elements that stay.
LEMMA NewFit ==
    ASSUME InOrder(cont_), NEW k \in Proper, NEW l, NEW u, NEW loc, LocatedAs(loc, k, l, u)
    PROVE  /\ \A v : FitsBetween(l, u, Entry(k, v))
           /\ \A r : IsFirstRest(r, k, l, u) => Less(r.key, k) /\ FitsBetween(l, u, r)
           /\ \A r : IsLastRest(r, k, l, u) => Less(k, r.key) /\ FitsBetween(l, u, r)
           /\ \A r, s : IsFirstRest(r, k, l, u) /\ IsLastRest(s, k, l, u) => Less(r.key, s.key)
<1> DEFINE c == cont_
           e == c[l].key
           f == c[u - 1].key
<1>1. Len(c) \in Nat /\ \A i \in 1 .. Len(c) : c[i].key \in Proper
  BY ElementsAre DEF InOrder
<1>2. /\ l \in 1 .. Len(c) + 1 /\ u \in 1 .. Len(c) + 1 /\ l =< u
      /\ \A i \in 1 .. Len(c) : (Less(c[i].key, k) <=> i < l) /\ (Less(k, c[i].key) <=> i >= u)
  BY DEF LocatedAs
<1>3. \A i, j \in 1 .. Len(c) : i < j => Less(c[i].key, c[j].key)
  BY DEF InOrder, Ordered
<1>4. l < u => l \in 1 .. Len(c) /\ u - 1 \in 1 .. Len(c) /\ e \in Proper /\ f \in Proper
  <2>1. l < u => l \in 1 .. Len(c) /\ u - 1 \in 1 .. Len(c)
    BY <1>1, <1>2
  <2> QED
    BY <1>1, <2>1
<1>5. /\ Lo(k) \in Int /\ Hi(k) \in Int /\ (HasLeft(k) /\ HasRight(k) => Lo(k) < Hi(k))
      /\ \A i \in 1 .. Len(c) : Lo(c[i].key) \in Int /\ Hi(c[i].key) \in Int
  BY <1>1, ProperMeans
<1>6. \A v : FitsBetween(l, u, Entry(k, v))
  BY <1>2 DEF FitsBetween, Entry
<1>7. \A i \in 1 .. Len(c) : /\ Less(c[i].key, k) => HasRight(c[i].key) /\ HasLeft(k) /\ Hi(c[i].key) =< Lo(k)
                             /\ Less(k, c[i].key) => HasRight(k) /\ HasLeft(c[i].key) /\ Hi(k) =< Lo(c[i].key)
  BY <1>1, LessMeans
<1>8. ASSUME NEW r, IsFirstRest(r, k, l, u) PROVE Less(r.key, k) /\ FitsBetween(l, u, r)
  <2>1. /\ l < u /\ r.key \in Proper /\ HasLeft(k)
        /\ (HasLeft(r.key) <=> HasLeft(e)) /\ Lo(r.key) = Lo(e)
        /\ HasRight(r.key) /\ Hi(r.key) = Lo(k)
    BY <1>8 DEF IsFirstRest, Held
  <2>2. Less(r.key, k)
    BY <1>5, <2>1, LessMeans
  <2>3. ASSUME NEW j \in 1 .. Len(c), j < l PROVE Less(c[j].key, r.key)
    <3>1. Less(c[j].key, e)
      BY <1>3, <1>4, <2>1, <2>3
    <3> HIDE DEF e
    <3> QED
      BY <1>1, <1>4, <2>1, <3>1, LessMeans
  <2>4. ASSUME NEW j \in 1 .. Len(c), j >= u PROVE Less(r.key, c[j].key)
    <3>1. HasRight(k) /\ HasLeft(c[j].key) /\ Hi(k) =< Lo(c[j].key)
      BY <1>2, <1>7, <2>4
    <3>2. Hi(r.key) =< Lo(c[j].key)
      BY <1>5, <2>1, <3>1
    <3> QED
      BY <1>1, <2>1, <3>1, <3>2, LessMeans
  <2> QED
    BY <2>2, <2>3, <2>4 DEF FitsBetween
<1>9. ASSUME NEW r, IsLastRest(r, k, l, u) PROVE Less(k, r.key) /\ FitsBetween(l, u, r)
  <2>1. /\ l < u /\ r.key \in Proper /\ HasRight(k)
        /\ (HasRight(r.key) <=> HasRight(f)) /\ Hi(r.key) = Hi(f)
        /\ HasLeft(r.key) /\ Lo(r.key) = Hi(k)
    BY <1>9 DEF IsLastRest, Held
  <2>2. Less(k, r.key)
    BY <1>5, <2>1, LessMeans
  <2>3. ASSUME NEW j \in 1 .. Len(c), j >= u PROVE Less(r.key, c[j].key)
    <3>1. u - 1 < j
      BY <1>1, <1>2, <2>3
    <3>2. Less(f, c[j].key)
      BY <1>3, <1>4, <2>1, <3>1
    <3> HIDE DEF f
    <3> QED
      BY <1>1, <1>4, <2>1, <3>2, LessMeans
  <2>4. ASSUME NEW j \in 1 .. Len(c), j < l PROVE Less(c[j].key, r.key)
    <3>1. HasRight(c[j].key) /\ HasLeft(k) /\ Hi(c[j].key) =< Lo(k)
      BY <1>2, <1>7, <2>4
    <3>2. Hi(c[j].key) =< Lo(r.key)
      BY <1>5, <2>1, <3>1
    <3> QED
      BY <1>1, <2>1, <3>1, <3>2, LessMeans
  <2> QED
    BY <2>2, <2>3, <2>4 DEF FitsBetween
<1>10. ASSUME NEW r, NEW s, IsFirstRest(r, k, l, u), IsLastRest(s, k, l, u) PROVE Less(r.key, s.key)
  <2>1. /\ r.key \in Proper /\ HasLeft(k) /\ HasRight(r.key) /\ Hi(r.key) = Lo(k)
        /\ s.key \in Proper /\ HasRight(k) /\ HasLeft(s.key) /\ Lo(s.key) = Hi(k)
    BY <1>10 DEF IsFirstRest, IsLastRest, Held
  <2>2. Hi(r.key) =< Lo(s.key)
    BY <1>5, <2>1
  <2> QED
    BY <2>1, <2>2, LessMeans
<1> QED
  BY <1>6, <1>8, <1>9, <1>10

\* Insert and cut put the rests, and k, between the elements that stay.
LEMMA InsertGives ==
    ASSUME InOrder(cont_), NEW k \in Proper, NEW l, NEW u, NEW loc, LocatedAs(loc, k, l, u), NEW v \in Values
    PROVE  LET change == InsertChange(k, v, loc)
           IN  /\ InOrder(Changed("std", change)) /\ Changed("array", change) = Changed("std", change)
               /\ Elements(Changed("std", change)) =
                      Others(cont_, l, u) \cup (Elements(FirstRest(loc, k)) \cup {Entry(k, v)} \cup Elements(LastRest(loc, k)))
<1> DEFINE first == FirstRest(loc, k)
           last == LastRest(loc, k)
           e == Entry(k, v)
           change == InsertChange(k, v, loc)
<1>0. k \in Made
  BY DEF Proper
<1>1. Opened(change, l, u) /\ change.new = (first \o <<e>>) \o last
  BY <1>0, Changes
<1>2. e.key = k /\ e \in Held
  BY DEF Entry, Held
<1>3. /\ InOrder(first) /\ InOrder(last)
      /\ \A r \in Elements(first) : IsFirstRest(r, k, l, u)
      /\ \A r \in Elements(last) : IsLastRest(r, k, l, u)
  BY RestsBelong
<1>4. InOrder(<<e>>) /\ Elements(<<e>>) = {e}
  BY <1>2, OneOrNone
<1>5. /\ FitsBetween(l, u, e)
      /\ \A r \in Elements(first) : Less(r.key, e.key) /\ FitsBetween(l, u, r)
      /\ \A r \in Elements(last) : Less(e.key, r.key) /\ FitsBetween(l, u, r)
      /\ \A r \in Elements(first), s \in Elements(last) : Less(r.key, s.key)
  BY <1>2, <1>3, NewFit
<1> HIDE DEF first, last, e, change
<1>6. InOrder(first \o <<e>>) /\ Elements(first \o <<e>>) = Elements(first) \cup {e}
  BY <1>3, <1>4, <1>5, OneAfterOther
<1>7. InOrder((first \o <<e>>) \o last) /\ Elements((first \o <<e>>) \o last) = (Elements(first) \cup {e}) \cup Elements(last)
  BY <1>3, <1>5, <1>6, OneAfterOther
<1>8. \A r \in Elements(change.new) : FitsBetween(l, u, r)
  BY <1>1, <1>5, <1>7
<1>9. /\ InOrder(Changed("std", change)) /\ Changed("array", change) = Changed("std", change)
      /\ Elements(Changed("std", change)) = Others(cont_, l, u) \cup ((Elements(first) \cup {e}) \cup Elements(last))
  <2>1. InOrder(change.new) /\ Elements(change.new) = (Elements(first) \cup {e}) \cup Elements(last)
    BY <1>1, <1>7
  <2>2. /\ InOrder(Changed("std", change)) /\ Changed("array", change) = Changed("std", change)
        /\ Elements(Changed("std", change)) = Others(cont_, l, u) \cup Elements(change.new)
    BY <1>1, <1>8, <2>1, ChangeGives
  <2> QED
    BY <2>1, <2>2
<1> QED
  BY <1>9 DEF first, last, e, change

\* cut() leaves what k does not overlap, and the rests.
LEMMA CutGives ==
    ASSUME InOrder(cont_), NEW k \in Proper, NEW l, NEW u, NEW loc, LocatedAs(loc, k, l, u)
    PROVE  LET change == CutChange(k, loc)
           IN  /\ InOrder(Changed("std", change)) /\ Changed("array", change) = Changed("std", change)
               /\ Elements(Changed("std", change)) =
                      Others(cont_, l, u) \cup (Elements(FirstRest(loc, k)) \cup Elements(LastRest(loc, k)))
<1> DEFINE first == FirstRest(loc, k)
           last == LastRest(loc, k)
           change == CutChange(k, loc)
<1>0. k \in Made
  BY DEF Proper
<1>1. Opened(change, l, u) /\ change.new = first \o last
  BY <1>0, Changes
<1>3. /\ InOrder(first) /\ InOrder(last)
      /\ \A r \in Elements(first) : IsFirstRest(r, k, l, u)
      /\ \A r \in Elements(last) : IsLastRest(r, k, l, u)
  BY RestsBelong
<1>5. /\ \A r \in Elements(first) : FitsBetween(l, u, r)
      /\ \A r \in Elements(last) : FitsBetween(l, u, r)
      /\ \A r \in Elements(first), s \in Elements(last) : Less(r.key, s.key)
  BY <1>3, NewFit
<1> HIDE DEF first, last, change
<1>7. InOrder(first \o last) /\ Elements(first \o last) = Elements(first) \cup Elements(last)
  BY <1>3, <1>5, OneAfterOther
<1>8. \A r \in Elements(change.new) : FitsBetween(l, u, r)
  BY <1>1, <1>5, <1>7
<1>9. /\ InOrder(Changed("std", change)) /\ Changed("array", change) = Changed("std", change)
      /\ Elements(Changed("std", change)) = Others(cont_, l, u) \cup (Elements(first) \cup Elements(last))
  <2>1. InOrder(change.new) /\ Elements(change.new) = Elements(first) \cup Elements(last)
    BY <1>1, <1>7
  <2>2. /\ InOrder(Changed("std", change)) /\ Changed("array", change) = Changed("std", change)
        /\ Elements(Changed("std", change)) = Others(cont_, l, u) \cup Elements(change.new)
    BY <1>1, <1>8, <2>1, ChangeGives
  <2> QED
    BY <2>1, <2>2
<1> QED
  BY <1>9 DEF first, last, change

-----------------------------------------------------------------------------
(***************************************************************************)
(* What containers mean.                                                   *)
(***************************************************************************)
Meaning(E) == UNION {Pairs(e) : e \in E}

\* A container means what its elements mean,
LEMMA MappingIs ==
    ASSUME NEW c \in Seq(Held)
    PROVE  Mapping(c) = Meaning(Elements(c))
<1>1. DOMAIN c = 1 .. Len(c)
  BY ElementsAre
<1> QED
  BY <1>1 DEF Mapping, Meaning, Elements

\* which is a value for each point between the cuts of one of them.
LEMMA MeaningIs ==
    ASSUME NEW E \in SUBSET Held, NEW p
    PROVE  p \in Meaning(E) <=>
               \E e \in E, x \in Points : x \in Int /\ Between(x, e.key) /\ p = <<x, e.val>>
<1>1. \A e \in E : e.key \in Proper
  BY DEF Held
<1>2. p \in Meaning(E) <=> \E e \in E : p \in PointsOf[e.key] \X {e.val}
  BY DEF Meaning, Pairs
<1>3. \A e \in E : p \in PointsOf[e.key] \X {e.val} <=> \E x \in PointsOf[e.key] : p = <<x, e.val>>
  OBVIOUS
<1>4. \A e \in E : \A x : x \in PointsOf[e.key] <=> x \in Points /\ x \in Int /\ Between(x, e.key)
  BY <1>1, PointsAre
<1> QED
  BY <1>2, <1>3, <1>4

\* The rests keep what the elements that k overlaps have outside k.
LEMMA RestsKeep ==
    ASSUME InOrder(cont_), NEW k \in Proper, NEW l, NEW u, NEW loc, LocatedAs(loc, k, l, u),
           NEW x \in Int, NEW w
    PROVE  (\E r \in Elements(FirstRest(loc, k)) \cup Elements(LastRest(loc, k)) : Between(x, r.key) /\ r.val = w)
           <=> \E j \in l .. u - 1 : Between(x, cont_[j].key) /\ ~Between(x, k) /\ cont_[j].val = w
<1> DEFINE c == cont_
           first == FirstRest(loc, k)
           last == LastRest(loc, k)
<1>1. Len(c) \in Nat /\ \A i \in 1 .. Len(c) : c[i].key \in Proper
  BY ElementsAre DEF InOrder
<1>2. /\ l \in 1 .. Len(c) + 1 /\ u \in 1 .. Len(c) + 1 /\ l =< u
      /\ \A i \in 1 .. Len(c) : (Less(c[i].key, k) <=> i < l) /\ (Less(k, c[i].key) <=> i >= u)
  BY DEF LocatedAs
<1>3. \A i, j \in 1 .. Len(c) : i < j => Less(c[i].key, c[j].key)
  BY DEF InOrder, Ordered
<1>4. \A j \in l .. u - 1 : j \in 1 .. Len(c) /\ ~Less(c[j].key, k) /\ ~Less(k, c[j].key)
  <2>1. \A j \in l .. u - 1 : j \in 1 .. Len(c) /\ ~(j < l) /\ ~(j >= u)
    BY <1>1, <1>2
  <2> QED
    BY <1>2, <2>1
<1>5. /\ Lo(k) \in Int /\ Hi(k) \in Int /\ (HasLeft(k) /\ HasRight(k) => Lo(k) < Hi(k))
      /\ \A i \in 1 .. Len(c) : Lo(c[i].key) \in Int /\ Hi(c[i].key) \in Int
  BY <1>1, ProperMeans
<1>6. \A i \in 1 .. Len(c) : /\ Less(c[i].key, k) <=> HasRight(c[i].key) /\ HasLeft(k) /\ Hi(c[i].key) =< Lo(k)
                             /\ Less(k, c[i].key) <=> HasRight(k) /\ HasLeft(c[i].key) /\ Hi(k) =< Lo(c[i].key)
  BY <1>1, LessMeans
<1>7. \A i, j \in 1 .. Len(c) : i < j => HasRight(c[i].key) /\ HasLeft(c[j].key) /\ Hi(c[i].key) =< Lo(c[j].key)
  BY <1>1, <1>3, LessMeans
<1>8. /\ \A r \in Elements(first) : IsFirstRest(r, k, l, u)
      /\ \A r \in Elements(last) : IsLastRest(r, k, l, u)
      /\ l < u /\ HasLeft(k) /\ (HasLeft(c[l].key) => Lo(c[l].key) < Lo(k)) => Elements(first) # {}
      /\ l < u /\ HasRight(k) /\ (HasRight(c[u - 1].key) => Hi(k) < Hi(c[u - 1].key)) => Elements(last) # {}
  BY RestsBelong
<1>9. l < u => l \in l .. u - 1 /\ u - 1 \in l .. u - 1
  BY <1>1, <1>2
<1> HIDE DEF c, first, last
<1>10. ASSUME NEW r \in Elements(first), Between(x, r.key)
       PROVE  l \in l .. u - 1 /\ Between(x, c[l].key) /\ ~Between(x, k) /\ c[l].val = r.val
  <2>1. /\ l < u /\ r.val = c[l].val /\ HasLeft(k)
        /\ (HasLeft(r.key) <=> HasLeft(c[l].key)) /\ Lo(r.key) = Lo(c[l].key)
        /\ HasRight(r.key) /\ Hi(r.key) = Lo(k)
    BY <1>8 DEF IsFirstRest, c
  <2>2. l \in l .. u - 1 /\ l \in 1 .. Len(c) /\ ~Less(c[l].key, k)
    BY <1>4, <1>9, <2>1
  <2>3. 2 * x < Lo(k) /\ (HasLeft(c[l].key) => Lo(c[l].key) =< 2 * x)
    BY <1>10, <2>1 DEF Between
  <2>4. ~Between(x, k)
    BY <1>5, <2>1, <2>3 DEF Between
  <2>5. HasRight(c[l].key) => Lo(k) < Hi(c[l].key)
    BY <1>5, <1>6, <2>1, <2>2
  <2>6. Between(x, c[l].key)
    BY <1>5, <2>2, <2>3, <2>5 DEF Between
  <2> QED
    BY <2>1, <2>2, <2>4, <2>6
<1>11. ASSUME NEW r \in Elements(last), Between(x, r.key)
       PROVE  u - 1 \in l .. u - 1 /\ Between(x, c[u - 1].key) /\ ~Between(x, k) /\ c[u - 1].val = r.val
  <2>1. /\ l < u /\ r.val = c[u - 1].val /\ HasRight(k)
        /\ (HasRight(r.key) <=> HasRight(c[u - 1].key)) /\ Hi(r.key) = Hi(c[u - 1].key)
        /\ HasLeft(r.key) /\ Lo(r.key) = Hi(k)
    BY <1>8 DEF IsLastRest, c
  <2>2. u - 1 \in l .. u - 1 /\ u - 1 \in 1 .. Len(c) /\ ~Less(k, c[u - 1].key)
    BY <1>4, <1>9, <2>1
  <2>3. Hi(k) =< 2 * x /\ (HasRight(c[u - 1].key) => 2 * x < Hi(c[u - 1].key))
    BY <1>11, <2>1 DEF Between
  <2>4. ~Between(x, k)
    BY <1>5, <2>1, <2>3 DEF Between
  <2>5. HasLeft(c[u - 1].key) => Lo(c[u - 1].key) < Hi(k)
    BY <1>5, <1>6, <2>1, <2>2
  <2>6. Between(x, c[u - 1].key)
    BY <1>5, <2>2, <2>3, <2>5 DEF Between
  <2> QED
    BY <2>1, <2>2, <2>4, <2>6
<1>12. ASSUME NEW j \in l .. u - 1, Between(x, c[j].key), ~Between(x, k)
       PROVE  \E r \in Elements(first) \cup Elements(last) : Between(x, r.key) /\ r.val = c[j].val
  <2>0. l < u /\ j \in 1 .. Len(c) /\ l \in 1 .. Len(c) /\ u - 1 \in 1 .. Len(c) /\ (j = l \/ l < j) /\ (j = u - 1 \/ j < u - 1)
    BY <1>1, <1>2, <1>4, <1>9
  <2>1. CASE HasLeft(k) /\ 2 * x < Lo(k)
    <3>1. j = l
      <4>1. SUFFICES ASSUME l < j PROVE FALSE
        BY <2>0
      <4>2. HasRight(c[l].key) /\ HasLeft(c[j].key) /\ Hi(c[l].key) =< Lo(c[j].key) /\ Lo(c[j].key) =< 2 * x
        BY <1>7, <1>12, <2>0, <4>1 DEF Between
      <4>3. Less(c[l].key, k)
        BY <1>5, <1>6, <2>0, <2>1, <4>2
      <4> QED
        BY <1>4, <1>9, <2>0, <4>3
    <3>2. HasLeft(c[l].key) => Lo(c[l].key) =< 2 * x /\ Lo(c[l].key) < Lo(k)
      BY <1>5, <1>12, <2>0, <2>1, <3>1 DEF Between
    <3>3. PICK r \in Elements(first) : TRUE
      BY <1>8, <2>0, <2>1, <3>2
    <3>4. IsFirstRest(r, k, l, u)
      BY <1>8
    <3>5. Between(x, r.key) /\ r.val = c[l].val
      BY <2>1, <3>2, <3>4 DEF IsFirstRest, Between, c
    <3> QED
      BY <3>1, <3>5
  <2>2. CASE HasRight(k) /\ Hi(k) =< 2 * x
    <3>1. j = u - 1
      <4>1. SUFFICES ASSUME j < u - 1 PROVE FALSE
        BY <2>0
      <4>2. HasRight(c[j].key) /\ HasLeft(c[u - 1].key) /\ Hi(c[j].key) =< Lo(c[u - 1].key) /\ 2 * x < Hi(c[j].key)
        BY <1>7, <1>12, <2>0, <4>1 DEF Between
      <4>3. Less(k, c[u - 1].key)
        BY <1>5, <1>6, <2>0, <2>2, <4>2
      <4> QED
        BY <1>4, <1>9, <2>0, <4>3
    <3>2. HasRight(c[u - 1].key) => 2 * x < Hi(c[u - 1].key) /\ Hi(k) < Hi(c[u - 1].key)
      BY <1>5, <1>12, <2>0, <2>2, <3>1 DEF Between
    <3>3. PICK r \in Elements(last) : TRUE
      BY <1>8, <2>0, <2>2, <3>2
    <3>4. IsLastRest(r, k, l, u)
      BY <1>8
    <3>5. Between(x, r.key) /\ r.val = c[u - 1].val
      BY <2>2, <3>2, <3>4 DEF IsLastRest, Between, c
    <3> QED
      BY <3>1, <3>5
  <2>3. (HasLeft(k) /\ 2 * x < Lo(k)) \/ (HasRight(k) /\ Hi(k) =< 2 * x)
    BY <1>5, <1>12 DEF Between
  <2> QED
    BY <2>1, <2>2, <2>3
<1>13. ASSUME NEW r \in Elements(first) \cup Elements(last), Between(x, r.key), r.val = w
       PROVE  \E j \in l .. u - 1 : Between(x, c[j].key) /\ ~Between(x, k) /\ c[j].val = w
  <2>1. CASE r \in Elements(first)
    BY <1>10, <1>13, <2>1
  <2>2. CASE r \in Elements(last)
    BY <1>11, <1>13, <2>2
  <2> QED
    BY <2>1, <2>2
<1>14. ASSUME NEW j \in l .. u - 1, Between(x, c[j].key), ~Between(x, k), c[j].val = w
       PROVE  \E r \in Elements(first) \cup Elements(last) : Between(x, r.key) /\ r.val = w
  BY <1>12, <1>14
<1>15. (\E r \in Elements(first) \cup Elements(last) : Between(x, r.key) /\ r.val = w)
       <=> \E j \in l .. u - 1 : Between(x, c[j].key) /\ ~Between(x, k) /\ c[j].val = w
  BY <1>13, <1>14
<1> QED
  BY <1>15 DEF c, first, last

\* The elements between two places and the others.
LEMMA AllElements ==
    ASSUME NEW c \in Seq(Held), NEW l \in 1 .. Len(c) + 1, NEW u \in l .. Len(c) + 1
    PROVE  /\ Elements(c) \subseteq Held /\ Others(c, l, u) \subseteq Elements(c)
           /\ \A e : e \in Elements(c) <=> e \in Others(c, l, u) \/ \E j \in l .. u - 1 : e = c[j]
<1>1. Len(c) \in Nat /\ \A i \in 1 .. Len(c) : c[i] \in Held
  BY ElementsAre
<1>2. \A i : i \in 1 .. Len(c) <=> (i \in 1 .. Len(c) /\ (i < l \/ i >= u)) \/ i \in l .. u - 1
  BY <1>1
<1>3. \A e : e \in Others(c, l, u) <=> \E n \in 1 .. Len(c) : (n < l \/ n >= u) /\ e = c[n]
  BY DEF Others
<1>4. \A e : e \in Elements(c) <=> \E n \in 1 .. Len(c) : e = c[n]
  BY DEF Elements
<1>5. Others(c, l, u) \subseteq Elements(c)
  BY <1>3, <1>4
<1>6. \A e : e \in Elements(c) <=> e \in Others(c, l, u) \/ \E j \in l .. u - 1 : e = c[j]
  BY <1>2, <1>3, <1>4
<1>7. Elements(c) \subseteq Held
  BY <1>1, <1>4
<1> QED
  BY <1>5, <1>6, <1>7

\* The elements that stay have no point of k.
LEMMA OthersOutside ==
    ASSUME InOrder(cont_), NEW k \in Proper, NEW l, NEW u, NEW loc, LocatedAs(loc, k, l, u)
    PROVE  /\ \A e \in Others(cont_, l, u), x \in Int : Between(x, e.key) => ~Between(x, k)
           /\ \A j \in l .. u - 1 : j \in 1 .. Len(cont_) /\ Overlap(cont_[j].key, k)
<1>1. Len(cont_) \in Nat /\ \A i \in 1 .. Len(cont_) : cont_[i].key \in Proper
  BY ElementsAre DEF InOrder
<1>2. /\ l \in 1 .. Len(cont_) + 1 /\ u \in 1 .. Len(cont_) + 1 /\ l =< u
      /\ \A i \in 1 .. Len(cont_) : (Less(cont_[i].key, k) <=> i < l) /\ (Less(k, cont_[i].key) <=> i >= u)
  BY DEF LocatedAs
<1>3. ASSUME NEW n \in 1 .. Len(cont_), n < l \/ n >= u, NEW x \in Int, Between(x, cont_[n].key) PROVE ~Between(x, k)
  <2>1. Less(cont_[n].key, k) \/ Less(k, cont_[n].key)
    BY <1>2, <1>3
  <2>2. cont_[n].key \in Proper /\ Lo(cont_[n].key) \in Int /\ Hi(cont_[n].key) \in Int /\ Lo(k) \in Int /\ Hi(k) \in Int
    BY <1>1, ProperMeans
  <2>3. \/ HasRight(cont_[n].key) /\ HasLeft(k) /\ Hi(cont_[n].key) =< Lo(k)
        \/ HasRight(k) /\ HasLeft(cont_[n].key) /\ Hi(k) =< Lo(cont_[n].key)
    BY <2>1, <2>2, LessMeans
  <2> QED
    BY <1>3, <2>2, <2>3 DEF Between
<1>4. ASSUME NEW j \in l .. u - 1 PROVE j \in 1 .. Len(cont_) /\ Overlap(cont_[j].key, k)
  <2>1. j \in 1 .. Len(cont_) /\ ~(j < l) /\ ~(j >= u)
    BY <1>1, <1>2
  <2> QED
    BY <1>2, <2>1 DEF Overlap
<1> QED
  BY <1>3, <1>4 DEF Others

\* The elements that stay and the rests are what the container had outside k.
LEMMA OutsideKept ==
    ASSUME InOrder(cont_), NEW k \in Proper, NEW l, NEW u, NEW loc, LocatedAs(loc, k, l, u)
    PROVE  Meaning(Others(cont_, l, u) \cup (Elements(FirstRest(loc, k)) \cup Elements(LastRest(loc, k)))) =
               Outside(cont_, PointsOf[k])
<1> DEFINE rests == Elements(FirstRest(loc, k)) \cup Elements(LastRest(loc, k))
           E == Others(cont_, l, u) \cup rests
<1>1. cont_ \in Seq(Held) /\ l \in 1 .. Len(cont_) + 1 /\ u \in l .. Len(cont_) + 1
  BY ElementsAre DEF InOrder, LocatedAs
<1>2. /\ Elements(cont_) \subseteq Held /\ Others(cont_, l, u) \subseteq Elements(cont_)
      /\ \A e : e \in Elements(cont_) <=> e \in Others(cont_, l, u) \/ \E j \in l .. u - 1 : e = cont_[j]
  BY <1>1, AllElements
<1>3. \A r \in rests : r \in Held
  BY RestsBelong DEF IsFirstRest, IsLastRest
<1>4. \A e \in Others(cont_, l, u), x \in Int : Between(x, e.key) => ~Between(x, k)
  BY OthersOutside
<1>5. \A x \in Int : \A w : (\E r \in rests : Between(x, r.key) /\ r.val = w)
                        <=> \E j \in l .. u - 1 : Between(x, cont_[j].key) /\ ~Between(x, k) /\ cont_[j].val = w
  BY RestsKeep
<1> HIDE DEF rests
<1>6. ASSUME NEW p
      PROVE  p \in Meaning(E) <=> p \in Outside(cont_, PointsOf[k])
  <2>1. E \in SUBSET Held /\ Elements(cont_) \in SUBSET Held
    BY <1>2, <1>3
  <2>2. p \in Meaning(E) <=> \E e \in E, x \in Points : x \in Int /\ Between(x, e.key) /\ p = <<x, e.val>>
    <3> HIDE DEF E
    <3> QED
      BY <2>1, MeaningIs
  <2>3. p \in Outside(cont_, PointsOf[k]) <=>
            \E e \in Elements(cont_), x \in Points : x \in Int /\ Between(x, e.key) /\ p = <<x, e.val>> /\ ~Between(x, k)
    <3>1. p \in Mapping(cont_) <=> \E e \in Elements(cont_), x \in Points : x \in Int /\ Between(x, e.key) /\ p = <<x, e.val>>
      BY <1>1, <2>1, MappingIs, MeaningIs
    <3>2. \A x \in Points : x \in Int => (x \in PointsOf[k] <=> Between(x, k))
      BY PointsAre
    <3>3. \A x, w : <<x, w>>[1] = x
      OBVIOUS
    <3> QED
      BY <3>1, <3>2, <3>3 DEF Outside
  <2>4. ASSUME NEW e \in E, NEW x \in Points, x \in Int, Between(x, e.key), p = <<x, e.val>>
        PROVE  p \in Outside(cont_, PointsOf[k])
    <3>1. CASE e \in Others(cont_, l, u)
      BY <1>2, <1>4, <2>3, <2>4, <3>1
    <3>2. CASE e \in rests
      <4>1. PICK j \in l .. u - 1 : Between(x, cont_[j].key) /\ ~Between(x, k) /\ cont_[j].val = e.val
        BY <1>5, <2>4, <3>2
      <4>2. cont_[j] \in Elements(cont_)
        BY <1>2
      <4> QED
        BY <2>3, <2>4, <4>1, <4>2
    <3> QED
      BY <3>1, <3>2
  <2>5. ASSUME NEW e \in Elements(cont_), NEW x \in Points, x \in Int, Between(x, e.key), p = <<x, e.val>>, ~Between(x, k)
        PROVE  p \in Meaning(E)
    <3>1. CASE e \in Others(cont_, l, u)
      BY <2>2, <2>5, <3>1
    <3>2. CASE \E j \in l .. u - 1 : e = cont_[j]
      <4>1. PICK r \in rests : Between(x, r.key) /\ r.val = e.val
        BY <1>5, <2>5, <3>2
      <4> QED
        BY <2>2, <2>5, <4>1
    <3> QED
      BY <1>2, <3>1, <3>2
  <2> HIDE DEF E
  <2> QED
    BY <2>2, <2>3, <2>4, <2>5
<1> HIDE DEF E
<1>7. Meaning(E) = Outside(cont_, PointsOf[k])
  BY <1>6
<1> QED
  BY <1>7 DEF E, rests

\* What is put into a container is proper.
LEMMA KeysAreProper == Keys \subseteq Proper
BY KeysAssumption, KeysHavePoints DEF Proper

\* locate() of a key, in terms of its places.
LEMMA Locates ==
    ASSUME InOrder(cont_), NEW k \in Made, NEW loc \in Locate(k)
    PROVE  LocatedAs(loc, k, LowerBound(cont_, k), UpperBound(cont_, k))
<1>1. Divides(k)
  BY KeysDivide DEF Divides
<1> QED
  BY <1>1, LocatedIs DEF Locate

\* insert() maps the points of its interval to its value and leaves the others.
LEMMA InsertsRight == ASSUME InOrder(cont_) PROVE InsertAssigns
<1>1. SUFFICES ASSUME NEW k \in Keys, NEW v \in Values, NEW loc \in Locate(k)
               PROVE  Mapping(InsertImpl(k, v, loc)) = Outside(cont_, PointsOf[k]) \cup PointsOf[k] \X {v}
  BY DEF InsertAssigns
<1>2. k \in Proper /\ k \in Made
  BY KeysAreProper DEF Proper
<1> DEFINE l == LowerBound(cont_, k)
           u == UpperBound(cont_, k)
           rests == Elements(FirstRest(loc, k)) \cup Elements(LastRest(loc, k))
           d == InsertImpl(k, v, loc)
<1>3. LocatedAs(loc, k, l, u)
  BY <1>2, Locates
<1> HIDE DEF l, u
<1>4. d \in Seq(Held) /\ Elements(d) = (Others(cont_, l, u) \cup rests) \cup {Entry(k, v)}
  BY <1>2, <1>3, InsertGives DEF InsertImpl, InOrder
<1>5. Meaning(Others(cont_, l, u) \cup rests) = Outside(cont_, PointsOf[k])
  BY <1>2, <1>3, OutsideKept
<1>6. Mapping(d) = Meaning(Elements(d))
  BY <1>4, MappingIs
<1> HIDE DEF d, rests
<1>7. \A A, B : Meaning(A \cup B) = Meaning(A) \cup Meaning(B)
  BY DEF Meaning
<1>8. Meaning({Entry(k, v)}) = PointsOf[k] \X {v}
  BY DEF Meaning, Pairs, Entry
<1>9. Mapping(d) = Meaning(Others(cont_, l, u) \cup rests) \cup Meaning({Entry(k, v)})
  BY <1>4, <1>6, <1>7
<1> QED
  BY <1>5, <1>8, <1>9 DEF d

\* Of an interval that is empty and half open there is nothing to cut: an element that
\* it lies in falls into two that touch.
HalfOpen(k) == k \in Made /\ Empty(k) /\ (k.lattr = "CLOSE" \/ k.rattr = "CLOSE")

\* Its two cuts are the same one.
LEMMA HalfOpenIs ==
    ASSUME NEW k, HalfOpen(k)
    PROVE  /\ k \in Made /\ HasLeft(k) /\ HasRight(k) /\ k.left \in Int /\ k.right = k.left
           /\ Lo(k) = Hi(k) /\ Lo(k) \in Int /\ Lo(k) \in {2 * k.left, 2 * k.left + 1}
           /\ PointsOf[k] = {}
<1>1. k \in Made /\ Empty(k) /\ (k.lattr = "CLOSE" \/ k.rattr = "CLOSE")
  BY DEF HalfOpen
<1>2. /\ k.left \in Int /\ k.right \in Int /\ k.lattr \in Attributes /\ k.rattr \in Attributes
      /\ Lo(k) \in Int /\ k \in Factory
  BY <1>1, MadeIs
<1>3. /\ k.left = k.right
      /\ \/ k.lattr = "CLOSE" /\ k.rattr = "OPEN"
         \/ k.lattr = "OPEN" /\ k.rattr = "CLOSE"
  BY <1>1, <1>2 DEF Empty, HasInfinite, HasOpen, Attributes, Infinite
<1>4. Lo(k) = Hi(k) /\ Lo(k) \in {2 * k.left, 2 * k.left + 1} /\ HasLeft(k) /\ HasRight(k)
  BY <1>2, <1>3 DEF Lo, Hi, HasLeft, HasRight, Finite
<1>5. \A x \in Points : x \notin PointsOf[k]
  <2>1. SUFFICES ASSUME NEW x \in Points, x \in PointsOf[k] PROVE FALSE
    OBVIOUS
  <2>2. x \in Int
    BY DomainAssumption
  <2>3. /\ k.lattr = "CLOSE" => k.left =< x
        /\ k.lattr = "OPEN" => k.left < x
        /\ k.rattr = "CLOSE" => x =< k.right
        /\ k.rattr = "OPEN" => x < k.right
    BY <1>2, <2>1 DEF PointsOf
  <2> QED
    BY <1>2, <1>3, <2>2, <2>3
<1>6. PointsOf[k] = {}
  <2>1. \A x \in PointsOf[k] : x \in Points
    BY <1>2 DEF PointsOf
  <2> QED
    BY <1>5, <2>1
<1> QED
  BY <1>1, <1>2, <1>3, <1>4, <1>6

\* Intervals that begin, or end, alike overlap.
LEMMA SharedEnd ==
    ASSUME NEW e \in Proper, NEW r \in Proper,
           \/ (HasLeft(e) <=> HasLeft(r)) /\ Lo(e) = Lo(r)
           \/ (HasRight(e) <=> HasRight(r)) /\ Hi(e) = Hi(r)
    PROVE  Overlap(e, r)
<1>1. /\ Lo(e) \in Int /\ Hi(e) \in Int /\ (HasLeft(e) /\ HasRight(e) => Lo(e) < Hi(e))
      /\ Lo(r) \in Int /\ Hi(r) \in Int /\ (HasLeft(r) /\ HasRight(r) => Lo(r) < Hi(r))
  BY ProperMeans
<1>2. /\ Less(e, r) <=> HasRight(e) /\ HasLeft(r) /\ Hi(e) =< Lo(r)
      /\ Less(r, e) <=> HasRight(r) /\ HasLeft(e) /\ Hi(r) =< Lo(e)
  BY LessMeans
<1> QED
  BY <1>1, <1>2 DEF Overlap

\* If no element has the place of a half-open interval within it, the std::map refuses
\* the rests, each of which is part of an element that stays.
LEMMA HalfOpenBeside ==
    ASSUME InOrder(cont_), NEW k, HalfOpen(k), NEW l, NEW loc, LocatedAs(loc, k, l, l)
    PROVE  Mapping(CutImpl(k, loc)) = Mapping(cont_)
<1> DEFINE c == cont_
           e == c[l]
           f == c[l - 1]
           first == FirstRest(loc, k)
           last == LastRest(loc, k)
           a == Entry(ConnectRight(e.key, k), e.val)
           b == Entry(ConnectLeft(f.key, k), f.val)
           change == CutChange(k, loc)
<1>0. k \in Made /\ HasLeft(k) /\ HasRight(k)
  BY HalfOpenIs
<1>1. /\ c \in Seq(Held) /\ Len(c) \in Nat
      /\ \A i \in 1 .. Len(c) : c[i].key \in Proper /\ c[i] \in Elements(c)
      /\ l \in 1 .. Len(c) + 1 /\ l \in l .. Len(c) + 1 /\ l .. l - 1 = {}
  <2>1. l \in 1 .. Len(c) + 1
    BY DEF LocatedAs
  <2> QED
    BY <2>1, ElementsAre DEF InOrder
<1>2. /\ first \in Seq(Held) /\ last \in Seq(Held)
      /\ first = IF loc.left.contains /\ ~Empty(ConnectRight(e.key, k)) THEN <<a>> ELSE <<>>
      /\ last = IF loc.right.contains /\ ~Empty(ConnectLeft(f.key, k)) THEN <<b>> ELSE <<>>
  BY <1>0, RestsAre
<1>3. /\ loc.left.contains => l \in 1 .. Len(c) /\ ContainsLeft(e.key, k)
      /\ loc.right.contains => l - 1 \in 1 .. Len(c) /\ ContainsRight(f.key, k)
  BY <1>1 DEF LocatedAs
<1>4. a.key = ConnectRight(e.key, k) /\ b.key = ConnectLeft(f.key, k)
  BY DEF Entry
<1>5. Opened(change, l, l) /\ change.new = first \o last
  BY <1>0, Changes
<1> HIDE DEF first, last, a, b, change
<1>6. loc.left.contains /\ ~Empty(ConnectRight(e.key, k)) => Overlap(e.key, a.key) /\ e \in Elements(c)
  <2>1. SUFFICES ASSUME loc.left.contains, ~Empty(ConnectRight(e.key, k)) PROVE Overlap(e.key, a.key) /\ e \in Elements(c)
    OBVIOUS
  <2>2. e.key \in Proper /\ e \in Elements(c) /\ a.key \in Proper
    BY <1>0, <1>1, <1>3, <1>4, <2>1, RestsProper
  <2>3. (HasLeft(e.key) <=> HasLeft(a.key)) /\ Lo(e.key) = Lo(a.key)
    BY <1>0, <1>4, <2>2, RestsMean
  <2> QED
    BY <2>2, <2>3, SharedEnd
<1>7. loc.right.contains /\ ~Empty(ConnectLeft(f.key, k)) => Overlap(f.key, b.key) /\ f \in Elements(c)
  <2>1. SUFFICES ASSUME loc.right.contains, ~Empty(ConnectLeft(f.key, k)) PROVE Overlap(f.key, b.key) /\ f \in Elements(c)
    OBVIOUS
  <2>2. f.key \in Proper /\ f \in Elements(c) /\ b.key \in Proper
    BY <1>0, <1>1, <1>3, <1>4, <2>1, RestsProper
  <2>3. (HasRight(f.key) <=> HasRight(b.key)) /\ Hi(f.key) = Hi(b.key)
    BY <1>0, <1>4, <2>2, RestsMean
  <2> QED
    BY <2>2, <2>3, SharedEnd
<1>8. change.new \in Seq(Held) /\ Elements(change.new) = Elements(first) \cup Elements(last)
  <2>1. first \in Seq(Held) /\ last \in Seq(Held)
    BY <1>2
  <2>2. first \o last \in Seq(Held) /\ Elements(first \o last) = Elements(first) \cup Elements(last)
    BY ONLY <2>1, ConcatHas
  <2> QED
    BY <1>5, <2>2
<1>9. ASSUME NEW r \in Elements(change.new) PROVE \E g \in Elements(c) : ~Apart(g, r)
  <2>0. Elements(<<>>) = {} /\ Elements(<<a>>) = {a} /\ Elements(<<b>>) = {b}
    <3>1. /\ Len(<<a>>) = 1 /\ <<a>>[1] = a /\ Len(<<b>>) = 1 /\ <<b>>[1] = b /\ 1 .. 1 = {1}
          /\ Len(<<>>) = 0 /\ 1 .. 0 = {}
      OBVIOUS
    <3> QED
      BY <3>1 DEF Elements
  <2>1. CASE r \in Elements(first)
    <3>1. r = a /\ loc.left.contains /\ ~Empty(ConnectRight(e.key, k))
      BY <1>2, <2>0, <2>1
    <3> QED
      BY <1>6, <3>1 DEF Overlap, Apart
  <2>2. CASE r \in Elements(last)
    <3>1. r = b /\ loc.right.contains /\ ~Empty(ConnectLeft(f.key, k))
      BY <1>2, <2>0, <2>2
    <3> QED
      BY <1>7, <3>1 DEF Overlap, Apart
  <2> QED
    BY <1>8, <2>1, <2>2
<1> DEFINE left == change.left
           new == change.new
<1>10. Gapped(left, c, l, 0) /\ change = Change(left, l, new) /\ l + 0 = l /\ l - l = 0
  BY <1>1, <1>5 DEF Opened
<1>11. InOrder(left) /\ Elements(left) = Others(c, l, l) /\ l \in 1 .. Len(left) + 1
  <2>1. l + 0 =< Len(c) + 1 /\ 0 \in Nat
    BY <1>1
  <2> HIDE DEF left, c
  <2>2. InOrder(c)
    BY DEF c
  <2> QED
    BY <1>1, <1>10, <2>1, <2>2, GappedHas
<1>12. Elements(left) = Elements(c)
  <2> HIDE DEF c, left
  <2> QED
    BY <1>1, <1>11, AllElements
<1> HIDE DEF left, new, c
<1>13. \A n \in 1 .. Len(new) : \E j \in 1 .. Len(left) : ~Apart(left[j], new[n])
  <2>1. TAKE n \in 1 .. Len(new)
  <2>2. new[n] \in Elements(change.new)
    BY DEF Elements, new
  <2>3. PICK g \in Elements(left) : ~Apart(g, new[n])
    BY <1>9, <1>12, <2>2
  <2> QED
    BY <2>3 DEF Elements
<1>14. Changed("std", change) = left
  BY <1>8, <1>10, <1>11, <1>13, ChangedRefused DEF new
<1>15. Mapping(left) = Meaning(Elements(left)) /\ Mapping(c) = Meaning(Elements(c))
  BY <1>1, <1>11, MappingIs DEF InOrder
<1> QED
  BY <1>12, <1>14, <1>15 DEF CutImpl, change, c

\* An element that has it within is divided there.
LEMMA HalfOpenWithin ==
    ASSUME InOrder(cont_), NEW k, HalfOpen(k), NEW l, NEW u, NEW loc, LocatedAs(loc, k, l, u), l < u
    PROVE  Mapping(CutImpl(k, loc)) = Mapping(cont_)
<1> DEFINE c == cont_
           e == c[l]
           m == Lo(k)
           first == FirstRest(loc, k)
           last == LastRest(loc, k)
           a == Entry(ConnectRight(e.key, k), e.val)
           b == Entry(ConnectLeft(e.key, k), e.val)
           change == CutChange(k, loc)
<1>0. /\ k \in Made /\ Empty(k) /\ HasLeft(k) /\ HasRight(k) /\ k.left \in Int /\ k.right = k.left
      /\ m = Hi(k) /\ m \in Int /\ m \in {2 * k.left, 2 * k.left + 1}
  BY HalfOpenIs DEF HalfOpen
<1>1. /\ c \in Seq(Held) /\ Len(c) \in Nat
      /\ \A i \in 1 .. Len(c) : c[i].key \in Proper /\ c[i] \in Held /\ c[i].val \in Values /\ c[i] \in Elements(c)
  BY ElementsAre DEF InOrder
<1>2. /\ l \in 1 .. Len(c) + 1 /\ u \in 1 .. Len(c) + 1
      /\ \A i \in 1 .. Len(c) : (Less(c[i].key, k) <=> i < l) /\ (Less(k, c[i].key) <=> i >= u)
      /\ loc.left.contains <=> l =< Len(cont_) /\ ContainsLeft(cont_[l].key, k)
      /\ loc.right.contains <=> l =< Len(cont_) /\ u > 1 /\ ContainsRight(cont_[u - 1].key, k)
  BY DEF LocatedAs
<1>3. \A i, j \in 1 .. Len(c) : i < j => Less(c[i].key, c[j].key)
  BY DEF InOrder, Ordered
<1>4. ASSUME NEW j \in l .. u - 1
      PROVE  /\ j \in 1 .. Len(c) /\ c[j].key \in Proper /\ Lo(c[j].key) \in Int /\ Hi(c[j].key) \in Int
             /\ HasLeft(c[j].key) => Lo(c[j].key) < m /\ Lo(c[j].key) < 2 * k.left
             /\ HasRight(c[j].key) => m < Hi(c[j].key) /\ 2 * k.left < Hi(c[j].key)
  <2>1. j \in 1 .. Len(c) /\ ~(j < l) /\ ~(j >= u)
    BY <1>1, <1>2
  <2>2. c[j].key \in Proper /\ ~Less(c[j].key, k) /\ ~Less(k, c[j].key)
    BY <1>1, <1>2, <2>1
  <2>3. /\ Less(k, c[j].key) <=> HasLeft(c[j].key) /\ k.left =< c[j].key.left
        /\ Less(c[j].key, k) <=> HasRight(c[j].key) /\ (HasLeft(c[j].key) => c[j].key.left < k.left) /\ c[j].key.right =< k.left
    BY <1>0, <2>2, EmptyMeans
  <2>4. /\ Lo(c[j].key) \in Int /\ Hi(c[j].key) \in Int /\ c[j].key.left \in Int /\ c[j].key.right \in Int
    BY <2>2, ProperMeans, MadeIs
  <2>5. /\ HasLeft(c[j].key) => c[j].key.left < k.left
        /\ HasRight(c[j].key) => k.left < c[j].key.right
    BY <1>0, <2>2, <2>3, <2>4
  <2>6. /\ HasLeft(c[j].key) => Lo(c[j].key) < 2 * k.left
        /\ HasRight(c[j].key) => 2 * k.left + 1 < Hi(c[j].key)
    BY <1>0, <2>4, <2>5 DEF Lo, Hi
  <2> QED
    BY <1>0, <2>1, <2>2, <2>4, <2>6
<1>5. l \in l .. u - 1 /\ u = l + 1
  <2>1. l \in l .. u - 1
    BY <1>1, <1>2
  <2>2. ~(l + 1 < u)
    <3>1. SUFFICES ASSUME l + 1 < u PROVE FALSE
      OBVIOUS
    <3>2. l + 1 \in l .. u - 1 /\ l < l + 1
      BY <1>1, <1>2, <3>1
    <3>3. Less(c[l].key, c[l + 1].key)
      BY <1>3, <1>4, <2>1, <3>2
    <3>4. HasRight(c[l].key) /\ HasLeft(c[l + 1].key) /\ Hi(c[l].key) =< Lo(c[l + 1].key)
      BY <1>4, <2>1, <3>2, <3>3, LessMeans
    <3>5. m < Hi(c[l].key) /\ Lo(c[l + 1].key) < m /\ Hi(c[l].key) \in Int /\ Lo(c[l + 1].key) \in Int
      BY <1>4, <2>1, <3>2, <3>4
    <3> QED
      BY <1>0, <3>4, <3>5
  <2> QED
    BY <1>1, <1>2, <2>1, <2>2
<1>6. /\ l \in 1 .. Len(c) /\ e.key \in Proper /\ Lo(e.key) \in Int /\ Hi(e.key) \in Int
      /\ HasLeft(e.key) => Lo(e.key) < m /\ Lo(e.key) < 2 * k.left
      /\ HasRight(e.key) => m < Hi(e.key) /\ 2 * k.left < Hi(e.key)
  BY <1>4, <1>5
<1>7. loc.left.contains /\ loc.right.contains /\ u - 1 = l
  <2>1. Contains(e.key, k.left)
    BY <1>0, <1>6, PointsBetween
  <2>2. ContainsLeft(e.key, k) /\ ContainsRight(e.key, k)
    BY <1>0, <2>1 DEF ContainsLeft, ContainsRight, HasLeft, HasRight
  <2>3. u - 1 = l /\ u > 1 /\ l =< Len(c)
    BY <1>1, <1>5, <1>6
  <2> QED
    BY <1>2, <2>2, <2>3
<1>8. a.key = ConnectRight(e.key, k) /\ b.key = ConnectLeft(e.key, k) /\ a.val = e.val /\ b.val = e.val
  BY DEF Entry
<1>9. /\ HasLeft(a.key) <=> HasLeft(e.key)
      /\ Lo(a.key) = Lo(e.key) /\ HasRight(a.key) /\ Hi(a.key) = m /\ ~Empty(a.key)
      /\ HasRight(b.key) <=> HasRight(e.key)
      /\ Hi(b.key) = Hi(e.key) /\ HasLeft(b.key) /\ Lo(b.key) = m /\ ~Empty(b.key)
  <2>1. /\ HasLeft(a.key) <=> HasLeft(e.key)
        /\ Lo(a.key) = Lo(e.key) /\ HasRight(a.key) /\ Hi(a.key) = Lo(k)
        /\ (HasLeft(e.key) => Lo(e.key) =< Lo(k)) => (Empty(a.key) <=> HasLeft(e.key) /\ Lo(e.key) = Lo(k))
    BY <1>0, <1>6, <1>8, RestsMean
  <2>2. /\ HasRight(b.key) <=> HasRight(e.key)
        /\ Hi(b.key) = Hi(e.key) /\ HasLeft(b.key) /\ Lo(b.key) = Hi(k)
        /\ (HasRight(e.key) => Hi(k) =< Hi(e.key)) => (Empty(b.key) <=> HasRight(e.key) /\ Hi(e.key) = Hi(k))
    BY <1>0, <1>6, <1>8, RestsMean
  <2>3. /\ HasLeft(e.key) => Lo(e.key) =< Lo(k) /\ Lo(e.key) # Lo(k)
        /\ HasRight(e.key) => Hi(k) =< Hi(e.key) /\ Hi(e.key) # Hi(k)
    BY <1>0, <1>6
  <2> QED
    BY <1>0, <2>1, <2>2, <2>3
<1>10. first = <<a>> /\ last = <<b>> /\ first \in Seq(Held) /\ last \in Seq(Held)
  <2>1. /\ first = IF loc.left.contains /\ ~Empty(ConnectRight(cont_[l].key, k))
                   THEN <<Entry(ConnectRight(cont_[l].key, k), cont_[l].val)>> ELSE <<>>
        /\ last = IF loc.right.contains /\ ~Empty(ConnectLeft(cont_[u - 1].key, k))
                  THEN <<Entry(ConnectLeft(cont_[u - 1].key, k), cont_[u - 1].val)>> ELSE <<>>
        /\ first \in Seq(Held) /\ last \in Seq(Held)
    BY <1>0, RestsAre
  <2>2. cont_[u - 1] = e
    BY <1>7
  <2> QED
    BY <1>7, <1>8, <1>9, <2>1, <2>2
<1>11. Opened(change, l, u) /\ change.new = first \o last
  BY <1>0, Changes
<1> HIDE DEF first, last, a, b, change
<1>12. a \in Held /\ b \in Held /\ a.key \in Proper /\ b.key \in Proper
  <2>1. Len(<<a>>) = 1 /\ <<a>>[1] = a /\ Len(<<b>>) = 1 /\ <<b>>[1] = b /\ 1 \in 1 .. 1
    OBVIOUS
  <2>2. a \in Held /\ b \in Held
    BY <1>10, <2>1, ElementsAre
  <2> QED
    BY <2>2 DEF Held
<1>13. Less(a.key, b.key)
  <2>1. Hi(a.key) =< Lo(b.key)
    BY <1>0, <1>9
  <2> QED
    BY <1>9, <1>12, <2>1, LessMeans
<1>14. FitsBetween(l, u, a) /\ FitsBetween(l, u, b)
  <2>1. ASSUME NEW j \in 1 .. Len(c), j < l PROVE Less(c[j].key, a.key) /\ Less(c[j].key, b.key)
    <3>1. Less(c[j].key, e.key)
      BY <1>3, <1>6, <2>1
    <3>2. c[j].key \in Proper /\ HasRight(c[j].key) /\ HasLeft(e.key) /\ Hi(c[j].key) =< Lo(e.key) /\ Hi(c[j].key) \in Int
      BY <1>1, <1>6, <3>1, LessMeans, ProperMeans
    <3>3. Hi(c[j].key) =< Lo(a.key) /\ Hi(c[j].key) =< Lo(b.key)
      BY <1>0, <1>6, <1>9, <3>2
    <3> QED
      BY <1>9, <1>12, <3>2, <3>3, LessMeans
  <2>2. ASSUME NEW j \in 1 .. Len(c), j >= u PROVE Less(a.key, c[j].key) /\ Less(b.key, c[j].key)
    <3>0. l < j
      BY <1>1, <1>5, <1>6, <2>2
    <3>1. Less(e.key, c[j].key)
      BY <1>3, <1>6, <3>0
    <3>2. c[j].key \in Proper /\ HasRight(e.key) /\ HasLeft(c[j].key) /\ Hi(e.key) =< Lo(c[j].key) /\ Lo(c[j].key) \in Int
      BY <1>1, <1>6, <3>1, LessMeans, ProperMeans
    <3>3. Hi(a.key) =< Lo(c[j].key) /\ Hi(b.key) =< Lo(c[j].key)
      BY <1>0, <1>6, <1>9, <3>2
    <3> QED
      BY <1>9, <1>12, <3>2, <3>3, LessMeans
  <2> QED
    BY <2>1, <2>2 DEF FitsBetween
<1>15. InOrder(change.new) /\ Elements(change.new) = {a, b}
  <2>1. InOrder(<<a>>) /\ Elements(<<a>>) = {a} /\ InOrder(<<b>>) /\ Elements(<<b>>) = {b}
    BY <1>12, OneOrNone
  <2>2. InOrder(<<a>> \o <<b>>) /\ Elements(<<a>> \o <<b>>) = {a} \cup {b}
    BY <1>13, <2>1, OneAfterOther
  <2> QED
    BY <1>10, <1>11, <2>2
<1> DEFINE d == Changed("std", change)
<1>16. InOrder(d) /\ Elements(d) = Others(cont_, l, u) \cup {a, b}
  <2>1. \A r \in Elements(change.new) : FitsBetween(l, u, r)
    BY <1>14, <1>15
  <2>2. InOrder(d) /\ Elements(d) = Others(cont_, l, u) \cup Elements(change.new)
    BY <1>11, <1>15, <2>1, ChangeGives
  <2> QED
    BY <1>15, <2>2
<1>17. Elements(c) = Others(cont_, l, u) \cup {e} /\ Elements(c) \subseteq Held
  <2>1. u \in l .. Len(c) + 1 /\ l .. u - 1 = {l}
    BY <1>1, <1>2, <1>5
  <2> HIDE DEF c
  <2>2. c \in Seq(Held) /\ l \in 1 .. Len(c) + 1
    BY <1>1, <1>2
  <2>3. /\ Elements(c) \subseteq Held
        /\ \A g : g \in Elements(c) <=> g \in Others(c, l, u) \/ \E j \in l .. u - 1 : g = c[j]
    BY <2>1, <2>2, AllElements
  <2>4. Elements(c) = Others(c, l, u) \cup {c[l]}
    BY <2>1, <2>3
  <2> QED
    BY <2>3, <2>4 DEF c
<1> HIDE DEF d, e, c
<1>18. \A x \in Int : Between(x, e.key) <=> Between(x, a.key) \/ Between(x, b.key)
  BY <1>0, <1>6, <1>9 DEF Between
<1>19. Meaning({a, b}) = Meaning({e})
  <2>1. e \in Held
    BY <1>1, <1>6 DEF e
  <2>2. ASSUME NEW p PROVE p \in Meaning({a, b}) <=> p \in Meaning({e})
    <3>1. p \in Meaning({a, b}) <=> \E r \in {a, b}, x \in Points : x \in Int /\ Between(x, r.key) /\ p = <<x, r.val>>
      <4>1. {a, b} \in SUBSET Held
        BY <1>12
      <4> QED
        BY <4>1, MeaningIs
    <3>2. p \in Meaning({e}) <=> \E r \in {e}, x \in Points : x \in Int /\ Between(x, r.key) /\ p = <<x, r.val>>
      <4>1. {e} \in SUBSET Held
        BY <2>1
      <4> QED
        BY <4>1, MeaningIs
    <3> QED
      BY <1>8, <1>18, <3>1, <3>2
  <2> QED
    BY <2>2
<1>20. \A A, B : Meaning(A \cup B) = Meaning(A) \cup Meaning(B)
  BY DEF Meaning
<1>21. Mapping(d) = Mapping(c)
  <2>1. Mapping(d) = Meaning(Elements(d)) /\ Mapping(c) = Meaning(Elements(c))
    BY <1>1, <1>16, MappingIs DEF InOrder
  <2> DEFINE O == Others(cont_, l, u)
  <2>2. Elements(d) = O \cup {a, b} /\ Elements(c) = O \cup {e}
    BY <1>16, <1>17
  <2> HIDE DEF O
  <2> QED
    BY <1>19, <1>20, <2>1, <2>2
<1> QED
  BY <1>21 DEF CutImpl, change, c, d

\* cut() takes the points of such intervals and no others.
LEMMA CutsRight ==
    ASSUME InOrder(cont_), \A k \in CutKeys : k \in Proper \/ HalfOpen(k)
    PROVE  CutErases
<1>1. SUFFICES ASSUME NEW k \in CutKeys, NEW loc \in Locate(k)
               PROVE  Mapping(CutImpl(k, loc)) = Outside(cont_, PointsOf[k])
  BY DEF CutErases
<1>2. k \in Made
  BY KeysAssumption
<1> DEFINE l == LowerBound(cont_, k)
           u == UpperBound(cont_, k)
           rests == Elements(FirstRest(loc, k)) \cup Elements(LastRest(loc, k))
           d == CutImpl(k, loc)
<1>3. LocatedAs(loc, k, l, u)
  BY <1>2, Locates
<1> HIDE DEF l, u
<1>4. CASE k \in Proper
  <2>1. d \in Seq(Held) /\ Elements(d) = Others(cont_, l, u) \cup rests
    BY <1>3, <1>4, CutGives DEF CutImpl, InOrder
  <2>2. Meaning(Others(cont_, l, u) \cup rests) = Outside(cont_, PointsOf[k])
    BY <1>3, <1>4, OutsideKept
  <2> QED
    BY <2>1, <2>2, MappingIs
<1>5. CASE HalfOpen(k)
  <2>1. PointsOf[k] = {}
    BY <1>5, HalfOpenIs
  <2>2. Outside(cont_, PointsOf[k]) = Mapping(cont_)
    BY <2>1 DEF Outside
  <2>3. l = u \/ l < u
    <3>1. l \in 1 .. Len(cont_) + 1 /\ u \in 1 .. Len(cont_) + 1 /\ l =< u /\ Len(cont_) \in Nat
      BY <1>3, ElementsAre DEF LocatedAs, InOrder
    <3> QED
      BY <3>1
  <2>4. Mapping(d) = Mapping(cont_)
    BY <1>3, <1>5, <2>3, HalfOpenBeside, HalfOpenWithin
  <2> QED
    BY <2>2, <2>4
<1> QED
  BY <1>4, <1>5

-----------------------------------------------------------------------------
(***************************************************************************)
(* Elements that touch, one after the other.                               *)
(***************************************************************************)
Chained(f, t) ==
    /\ f \in 1 .. Len(cont_) /\ t \in f .. Len(cont_)
    /\ \A j \in f .. t - 1 : Touch(cont_[j].key, cont_[j + 1].key)

\* s has the points of k and of the elements from one place to before another, and lies
\* between the other elements.
JoinedAs(s, k, from, to) ==
    /\ s \in Proper /\ from \in 1 .. Len(cont_) + 1 /\ to \in from .. Len(cont_) + 1
    /\ \A j \in 1 .. Len(cont_) : /\ j < from => Less(cont_[j].key, s)
                                  /\ j >= to => Less(s, cont_[j].key)
    /\ \A x \in Int : Between(x, s) <=> Between(x, k) \/ \E j \in from .. to - 1 : Between(x, cont_[j].key)

\* The cuts of the elements of a container in order.
CutsInOrder(c) ==
    /\ Len(c) \in Nat
    /\ \A i \in 1 .. Len(c) :
          /\ c[i].key \in Proper /\ Lo(c[i].key) \in Int /\ Hi(c[i].key) \in Int
          /\ HasLeft(c[i].key) /\ HasRight(c[i].key) => Lo(c[i].key) < Hi(c[i].key)
    /\ \A i, j \in 1 .. Len(c) :
          i < j => HasRight(c[i].key) /\ HasLeft(c[j].key) /\ Hi(c[i].key) =< Lo(c[j].key)

\* A container in order has its cuts in order.
LEMMA OrderedCuts == ASSUME NEW c, InOrder(c) PROVE CutsInOrder(c)
<1>1. Len(c) \in Nat /\ \A i \in 1 .. Len(c) : c[i].key \in Proper
  BY ElementsAre DEF InOrder
<1>2. \A i \in 1 .. Len(c) :
          /\ Lo(c[i].key) \in Int /\ Hi(c[i].key) \in Int
          /\ HasLeft(c[i].key) /\ HasRight(c[i].key) => Lo(c[i].key) < Hi(c[i].key)
  BY <1>1, ProperMeans
<1>3. \A i, j \in 1 .. Len(c) : i < j => Less(c[i].key, c[j].key)
  BY DEF InOrder, Ordered
<1>4. \A i, j \in 1 .. Len(c) :
          i < j => HasRight(c[i].key) /\ HasLeft(c[j].key) /\ Hi(c[i].key) =< Lo(c[j].key)
  BY <1>1, <1>3, LessMeans
<1> QED
  BY <1>1, <1>2, <1>4 DEF CutsInOrder

\* Whatever lies between the ends of a chain lies in one of its elements.
LEMMA ChainCovers ==
    ASSUME InOrder(cont_), NEW f, NEW t, Chained(f, t), NEW x \in Int,
           HasLeft(cont_[f].key) => Lo(cont_[f].key) =< 2 * x,
           HasRight(cont_[t].key) => 2 * x < Hi(cont_[t].key)
    PROVE  \E j \in f .. t : Between(x, cont_[j].key)
<1> DEFINE c == cont_
           T == {j \in f .. t : HasRight(c[j].key) => 2 * x < Hi(c[j].key)}
<1>1. CutsInOrder(c)
  BY OrderedCuts
<1>2. f \in 1 .. Len(c) /\ t \in f .. Len(c) /\ \A j \in f .. t - 1 : Touch(c[j].key, c[j + 1].key)
  BY DEF Chained
<1>3. Len(c) \in Nat
  BY <1>1 DEF CutsInOrder
<1>4. T \in SUBSET Nat /\ t \in T
  <2>1. f .. t \subseteq Nat /\ t \in f .. t
    BY <1>2, <1>3
  <2> QED
    BY <2>1
<1>5. PICK m \in T : \A n \in T : m =< n
  <2>1. T # {}
    BY <1>4
  <2> HIDE DEF T
  <2> QED
    BY <1>4, <2>1, LeastNumber
<1>6. m \in f .. t /\ (HasRight(c[m].key) => 2 * x < Hi(c[m].key)) /\ m \in Int
  BY <1>2, <1>3, <1>5
<1>7. HasLeft(c[m].key) => Lo(c[m].key) =< 2 * x
  <2>1. CASE m = f
    BY <2>1
  <2>2. CASE m # f
    <3>1. m - 1 \in f .. t - 1 /\ m - 1 \in f .. t /\ ~(m =< m - 1) /\ (m - 1) + 1 = m /\ m - 1 \in 1 .. Len(c)
      BY <1>2, <1>3, <1>6, <2>2
    <3>2. m - 1 \notin T
      BY <1>5, <3>1
    <3>3. HasRight(c[m - 1].key) /\ ~(2 * x < Hi(c[m - 1].key))
      BY <3>1, <3>2
    <3>4. Touch(c[m - 1].key, c[m].key) /\ Hi(c[m - 1].key) \in Int
      BY <1>1, <1>2, <3>1 DEF CutsInOrder
    <3> QED
      BY <3>3, <3>4 DEF Touch
  <2> QED
    BY <2>1, <2>2
<1> QED
  BY <1>6, <1>7 DEF Between

\* Part of a chain is one.
LEMMA PartChained ==
    ASSUME InOrder(cont_), NEW f, NEW t, Chained(f, t), NEW g \in f .. t
    PROVE  Chained(g, t)
<1>1. /\ f \in 1 .. Len(cont_) /\ t \in f .. Len(cont_) /\ Len(cont_) \in Nat
      /\ \A j \in f .. t - 1 : Touch(cont_[j].key, cont_[j + 1].key)
  BY OrderedCuts DEF Chained, CutsInOrder
<1>2. g \in 1 .. Len(cont_) /\ t \in g .. Len(cont_) /\ \A j \in g .. t - 1 : j \in f .. t - 1
  BY <1>1
<1> QED
  BY <1>1, <1>2 DEF Chained

\* FirstConnected() finds the longest chain that ends at a place.
LEMMA FirstConnectedIs ==
    ASSUME InOrder(cont_), NEW i \in 1 .. Len(cont_)
    PROVE  /\ Chained(FirstConnected(i), i)
           /\ FirstConnected(i) > 1 =>
                  ~Touch(cont_[FirstConnected(i) - 1].key, cont_[FirstConnected(i)].key)
<1> DEFINE c == cont_
           T == {j \in 1 .. i : \A l \in j + 1 .. i : LeftConnected(Key(l), Key(l - 1))}
           f == FirstConnected(i)
<1>1. Len(c) \in Nat /\ \A j \in 1 .. Len(c) : c[j].key \in Proper
  BY OrderedCuts DEF CutsInOrder
<1>2. T \in SUBSET Nat /\ i \in T
  <2>1. 1 .. i \subseteq Nat /\ i \in 1 .. i /\ i + 1 .. i = {}
    BY <1>1
  <2> QED
    BY <2>1
<1>3. f = FirstOr(i, T)
  BY DEF FirstConnected
<1>4. f \in T /\ \A l \in T : f =< l
  <2>1. T # {}
    BY <1>2
  <2> HIDE DEF T, f
  <2> QED
    BY <1>2, <1>3, <2>1, FirstIs
<1> HIDE DEF f
<1>5. \A l \in 2 .. i : LeftConnected(Key(l), Key(l - 1)) <=> Touch(c[l - 1].key, c[l].key)
  <2>1. \A l \in 2 .. i : l \in 1 .. Len(c) /\ l - 1 \in 1 .. Len(c)
    BY <1>1
  <2> QED
    BY <1>1, <2>1, ConnectedMeans DEF Key
<1>6. f \in 1 .. i /\ \A l \in f + 1 .. i : Touch(c[l - 1].key, c[l].key)
  <2>1. f \in 1 .. i /\ \A l \in f + 1 .. i : LeftConnected(Key(l), Key(l - 1))
    BY <1>4
  <2>2. \A l \in f + 1 .. i : l \in 2 .. i
    BY <2>1
  <2> QED
    BY <1>5, <2>1, <2>2
<1>7. Chained(f, i)
  <2>1. f \in 1 .. Len(c) /\ i \in f .. Len(c)
    BY <1>1, <1>6
  <2>2. \A j \in f .. i - 1 : j + 1 \in f + 1 .. i /\ (j + 1) - 1 = j
    BY <1>6
  <2>3. \A j \in f .. i - 1 : Touch(c[j].key, c[j + 1].key)
    BY <1>6, <2>2
  <2> QED
    BY <2>1, <2>3 DEF Chained
<1>8. ASSUME f > 1, Touch(c[f - 1].key, c[f].key) PROVE FALSE
  <2>1. f - 1 \in 1 .. i /\ ~(f =< f - 1) /\ \A l \in (f - 1) + 1 .. i : l = f \/ l \in f + 1 .. i
    BY <1>6, <1>8
  <2>2. f \in 2 .. i
    BY <1>6, <1>8
  <2>3. LeftConnected(Key(f), Key(f - 1))
    BY <1>5, <1>8, <2>2
  <2>4. \A l \in f + 1 .. i : LeftConnected(Key(l), Key(l - 1))
    BY <1>4
  <2>5. f - 1 \in T
    BY <2>1, <2>3, <2>4
  <2> QED
    BY <1>4, <2>1, <2>5
<1> QED
  BY <1>7, <1>8 DEF f

\* LastConnected() finds the longest chain that begins at a place.
LEMMA LastConnectedIs ==
    ASSUME InOrder(cont_), NEW i \in 1 .. Len(cont_)
    PROVE  /\ Chained(i, LastConnected(i))
           /\ LastConnected(i) < Len(cont_) =>
                  ~Touch(cont_[LastConnected(i)].key, cont_[LastConnected(i) + 1].key)
<1> DEFINE c == cont_
           T == {j \in i .. Len(cont_) : \A l \in i .. j - 1 : RightConnected(Key(l), Key(l + 1))}
           t == LastConnected(i)
           R == {Len(cont_) - j : j \in T}
<1>1. Len(c) \in Nat /\ \A j \in 1 .. Len(c) : c[j].key \in Proper
  BY OrderedCuts DEF CutsInOrder
<1>2. T \subseteq i .. Len(c) /\ i \in T
  <2>1. i \in i .. Len(c) /\ i .. i - 1 = {}
    BY <1>1
  <2> QED
    BY <2>1
<1>3. t = CHOOSE j \in T : \A l \in T : l =< j
  BY DEF LastConnected
<1>4. \E j \in T : \A l \in T : l =< j
  <2> HIDE DEF T
  <2>1. R \in SUBSET Nat
    BY <1>1, <1>2
  <2>2. R # {}
    BY <1>2
  <2>3. PICK m \in R : \A n \in R : m =< n
    <3> HIDE DEF R
    <3> QED
      BY <2>1, <2>2, LeastNumber
  <2>4. PICK j \in T : m = Len(c) - j
    BY <2>3
  <2>5. \A l \in T : Len(c) - j =< Len(c) - l
    BY <2>3, <2>4
  <2>6. \A l \in T : l \in Int
    BY <1>1, <1>2
  <2> QED
    BY <1>1, <2>4, <2>5, <2>6
<1>5. t \in T /\ \A l \in T : l =< t
  <2> HIDE DEF T, t
  <2> QED
    BY <1>3, <1>4
<1> HIDE DEF t
<1>6. \A l \in i .. Len(c) - 1 : RightConnected(Key(l), Key(l + 1)) <=> Touch(c[l].key, c[l + 1].key)
  <2>1. \A l \in i .. Len(c) - 1 : l \in 1 .. Len(c) /\ l + 1 \in 1 .. Len(c)
    BY <1>1
  <2> QED
    BY <1>1, <2>1, ConnectedMeans DEF Key
<1>7. t \in i .. Len(c) /\ \A l \in i .. t - 1 : Touch(c[l].key, c[l + 1].key)
  <2>1. t \in i .. Len(c) /\ \A l \in i .. t - 1 : RightConnected(Key(l), Key(l + 1))
    BY <1>5
  <2>2. \A l \in i .. t - 1 : l \in i .. Len(c) - 1
    BY <1>1, <2>1
  <2> QED
    BY <1>6, <2>1, <2>2
<1>8. ASSUME t < Len(c), Touch(c[t].key, c[t + 1].key) PROVE FALSE
  <2>1. t + 1 \in i .. Len(c) /\ ~(t + 1 =< t) /\ \A l \in i .. (t + 1) - 1 : l = t \/ l \in i .. t - 1
    BY <1>1, <1>7, <1>8
  <2>2. t \in i .. Len(c) - 1
    BY <1>1, <1>7, <1>8
  <2>3. RightConnected(Key(t), Key(t + 1))
    BY <1>6, <1>8, <2>2
  <2>4. \A l \in i .. t - 1 : RightConnected(Key(l), Key(l + 1))
    BY <1>5
  <2>5. t + 1 \in T
    BY <2>1, <2>3, <2>4
  <2> QED
    BY <1>5, <2>1, <2>5
<1> QED
  BY <1>7, <1>8 DEF Chained, t

\* Taking in a chain that touches on the left, or on the right.
LEMMA JoinLeft ==
    ASSUME InOrder(cont_), NEW k \in Proper, NEW s, NEW l, NEW u, JoinedAs(s, k, l, u),
           NEW f, l > 1, Chained(f, l - 1), Touch(cont_[l - 1].key, s)
    PROVE  LET r == ReplaceLeft(s, cont_[f].key)
           IN  /\ JoinedAs(r, k, f, u)
               /\ HasLeft(r) <=> HasLeft(cont_[f].key)
               /\ HasRight(r) <=> HasRight(s)
               /\ Lo(r) = Lo(cont_[f].key) /\ Hi(r) = Hi(s)
<1> DEFINE c == cont_
           r == ReplaceLeft(s, cont_[f].key)
<1>1. CutsInOrder(c)
  BY OrderedCuts
<1>2. Len(c) \in Nat
  BY <1>1 DEF CutsInOrder
<1>3. /\ s \in Proper /\ l \in 1 .. Len(c) + 1 /\ u \in l .. Len(c) + 1
      /\ \A j \in 1 .. Len(c) : (j < l => Less(c[j].key, s)) /\ (j >= u => Less(s, c[j].key))
      /\ \A x \in Int : Between(x, s) <=> Between(x, k) \/ \E j \in l .. u - 1 : Between(x, c[j].key)
  BY DEF JoinedAs
<1>4. f \in 1 .. Len(c) /\ l - 1 \in f .. Len(c) /\ l - 1 \in 1 .. Len(c) /\ f < l
  BY <1>2, <1>3 DEF Chained
<1>5. /\ Lo(s) \in Int /\ Hi(s) \in Int /\ (HasLeft(s) /\ HasRight(s) => Lo(s) < Hi(s))
      /\ c[f].key \in Proper /\ Lo(c[f].key) \in Int /\ Hi(c[f].key) \in Int
      /\ (HasLeft(c[f].key) => Lo(c[f].key) < Hi(c[f].key))
      /\ HasRight(c[f].key) /\ HasLeft(s) /\ Hi(c[f].key) =< Lo(s)
  <2>1. Less(c[f].key, s) /\ c[f].key \in Proper
    BY <1>1, <1>3, <1>4 DEF CutsInOrder
  <2>2. HasRight(c[f].key) /\ HasLeft(s) /\ Hi(c[f].key) =< Lo(s)
    BY <1>3, <2>1, LessMeans
  <2> QED
    BY <1>3, <2>1, <2>2, ProperMeans
<1>6. /\ HasLeft(r) <=> HasLeft(c[f].key)
      /\ HasRight(r) <=> HasRight(s)
      /\ Lo(r) = Lo(c[f].key) /\ Hi(r) = Hi(s) /\ r \in Proper
  <2>1. HasLeft(c[f].key) /\ HasRight(s) => Lo(c[f].key) < Hi(s)
    BY <1>5
  <2> QED
    BY <1>3, <1>5, <2>1, ReplacedMeans
<1> HIDE DEF r
<1>7. ASSUME NEW j \in 1 .. Len(c), j < f PROVE Less(c[j].key, r)
  <2>1. c[j].key \in Proper /\ HasRight(c[j].key) /\ HasLeft(c[f].key) /\ Hi(c[j].key) =< Lo(c[f].key)
    BY <1>1, <1>4, <1>7 DEF CutsInOrder
  <2> QED
    BY <1>6, <2>1, LessMeans
<1>8. ASSUME NEW j \in 1 .. Len(c), j >= u PROVE Less(r, c[j].key)
  <2>1. c[j].key \in Proper /\ HasRight(s) /\ HasLeft(c[j].key) /\ Hi(s) =< Lo(c[j].key)
    BY <1>1, <1>3, <1>8, LessMeans DEF CutsInOrder
  <2> QED
    BY <1>6, <2>1, LessMeans
<1>9. ASSUME NEW x \in Int, Between(x, r) PROVE Between(x, s) \/ \E j \in f .. l - 1 : Between(x, c[j].key)
  <2>1. (HasLeft(c[f].key) => Lo(c[f].key) =< 2 * x) /\ (HasRight(s) => 2 * x < Hi(s))
    BY <1>6, <1>9 DEF Between
  <2>2. CASE Lo(s) =< 2 * x
    BY <2>1, <2>2 DEF Between
  <2>3. CASE 2 * x < Lo(s)
    <3>1. HasRight(c[l - 1].key) => 2 * x < Hi(c[l - 1].key)
      BY <2>3 DEF Touch
    <3> QED
      BY <2>1, <3>1, ChainCovers
  <2> QED
    BY <1>5, <2>2, <2>3
<1>10. ASSUME NEW x \in Int, Between(x, s) PROVE Between(x, r)
  BY <1>5, <1>6, <1>10 DEF Between
<1>11. ASSUME NEW x \in Int, NEW j \in f .. l - 1, Between(x, c[j].key) PROVE Between(x, r)
  <2>1. j \in 1 .. Len(c) /\ j < l /\ (j = f \/ f < j)
    BY <1>2, <1>3, <1>4
  <2>2. /\ c[j].key \in Proper /\ Lo(c[j].key) \in Int /\ Hi(c[j].key) \in Int
        /\ HasLeft(c[f].key) => HasLeft(c[j].key) /\ Lo(c[f].key) =< Lo(c[j].key)
    BY <1>1, <1>4, <1>5, <2>1 DEF CutsInOrder
  <2>3. HasRight(c[j].key) /\ Hi(c[j].key) =< Lo(s)
    BY <1>3, <2>1, <2>2, LessMeans
  <2>4. /\ HasLeft(c[j].key) => Lo(c[j].key) =< 2 * x
        /\ 2 * x < Hi(c[j].key)
    BY <1>11, <2>3 DEF Between
  <2>5. (HasLeft(c[f].key) => Lo(c[f].key) =< 2 * x) /\ (HasRight(s) => 2 * x < Hi(s))
    BY <1>5, <2>2, <2>3, <2>4
  <2> QED
    BY <1>6, <2>5 DEF Between
<1>12. \A j : j \in f .. u - 1 <=> j \in f .. l - 1 \/ j \in l .. u - 1
  BY <1>2, <1>3, <1>4
<1>13. \A x \in Int : Between(x, r) <=> Between(x, k) \/ \E j \in f .. u - 1 : Between(x, c[j].key)
  <2>1. TAKE x \in Int
  <2>2. Between(x, r) <=> Between(x, s) \/ \E j \in f .. l - 1 : Between(x, c[j].key)
    BY <1>9, <1>10, <1>11
  <2> QED
    BY <1>3, <1>12, <2>2
<1>14. f \in 1 .. Len(c) + 1 /\ u \in f .. Len(c) + 1
  BY <1>2, <1>3, <1>4
<1> QED
  BY <1>6, <1>7, <1>8, <1>13, <1>14 DEF JoinedAs, r

\* The same on the right.
LEMMA JoinRight ==
    ASSUME InOrder(cont_), NEW k \in Proper, NEW s, NEW l, NEW u, JoinedAs(s, k, l, u),
           NEW t, u =< Len(cont_), Chained(u, t), Touch(s, cont_[u].key)
    PROVE  LET r == ReplaceRight(s, cont_[t].key)
           IN  /\ JoinedAs(r, k, l, t + 1)
               /\ HasLeft(r) <=> HasLeft(s)
               /\ HasRight(r) <=> HasRight(cont_[t].key)
               /\ Lo(r) = Lo(s) /\ Hi(r) = Hi(cont_[t].key)
<1> DEFINE c == cont_
           r == ReplaceRight(s, cont_[t].key)
<1>1. CutsInOrder(c)
  BY OrderedCuts
<1>2. Len(c) \in Nat
  BY <1>1 DEF CutsInOrder
<1>3. /\ s \in Proper /\ l \in 1 .. Len(c) + 1 /\ u \in l .. Len(c) + 1
      /\ \A j \in 1 .. Len(c) : (j < l => Less(c[j].key, s)) /\ (j >= u => Less(s, c[j].key))
      /\ \A x \in Int : Between(x, s) <=> Between(x, k) \/ \E j \in l .. u - 1 : Between(x, c[j].key)
  BY DEF JoinedAs
<1>4. t \in 1 .. Len(c) /\ u \in 1 .. t /\ t >= u
  BY <1>2, <1>3 DEF Chained
<1>5. /\ Lo(s) \in Int /\ Hi(s) \in Int /\ (HasLeft(s) /\ HasRight(s) => Lo(s) < Hi(s))
      /\ c[t].key \in Proper /\ Lo(c[t].key) \in Int /\ Hi(c[t].key) \in Int
      /\ (HasRight(c[t].key) => Lo(c[t].key) < Hi(c[t].key))
      /\ HasRight(s) /\ HasLeft(c[t].key) /\ Hi(s) =< Lo(c[t].key)
  <2>1. Less(s, c[t].key) /\ c[t].key \in Proper
    BY <1>1, <1>3, <1>4 DEF CutsInOrder
  <2>2. HasRight(s) /\ HasLeft(c[t].key) /\ Hi(s) =< Lo(c[t].key)
    BY <1>3, <2>1, LessMeans
  <2> QED
    BY <1>3, <2>1, <2>2, ProperMeans
<1>6. /\ HasLeft(r) <=> HasLeft(s)
      /\ HasRight(r) <=> HasRight(c[t].key)
      /\ Lo(r) = Lo(s) /\ Hi(r) = Hi(c[t].key) /\ r \in Proper
  <2>1. HasLeft(s) /\ HasRight(c[t].key) => Lo(s) < Hi(c[t].key)
    BY <1>5
  <2> QED
    BY <1>3, <1>5, <2>1, ReplacedMeans
<1> HIDE DEF r
<1>7. ASSUME NEW j \in 1 .. Len(c), j < l PROVE Less(c[j].key, r)
  <2>1. c[j].key \in Proper /\ HasRight(c[j].key) /\ HasLeft(s) /\ Hi(c[j].key) =< Lo(s)
    BY <1>1, <1>3, <1>7, LessMeans DEF CutsInOrder
  <2> QED
    BY <1>6, <2>1, LessMeans
<1>8. ASSUME NEW j \in 1 .. Len(c), j >= t + 1 PROVE Less(r, c[j].key)
  <2>1. t < j
    BY <1>2, <1>4, <1>8
  <2>2. c[j].key \in Proper /\ HasRight(c[t].key) /\ HasLeft(c[j].key) /\ Hi(c[t].key) =< Lo(c[j].key)
    BY <1>1, <1>4, <2>1 DEF CutsInOrder
  <2> QED
    BY <1>6, <2>2, LessMeans
<1>9. ASSUME NEW x \in Int, Between(x, r) PROVE Between(x, s) \/ \E j \in u .. t : Between(x, c[j].key)
  <2>1. (HasRight(c[t].key) => 2 * x < Hi(c[t].key)) /\ (HasLeft(s) => Lo(s) =< 2 * x)
    BY <1>6, <1>9 DEF Between
  <2>2. CASE 2 * x < Hi(s)
    BY <2>1, <2>2 DEF Between
  <2>3. CASE Hi(s) =< 2 * x
    <3>1. HasLeft(c[u].key) => Lo(c[u].key) =< 2 * x
      BY <2>3 DEF Touch
    <3> QED
      BY <2>1, <3>1, ChainCovers
  <2> QED
    BY <1>5, <2>2, <2>3
<1>10. ASSUME NEW x \in Int, Between(x, s) PROVE Between(x, r)
  BY <1>5, <1>6, <1>10 DEF Between
<1>11. ASSUME NEW x \in Int, NEW j \in u .. t, Between(x, c[j].key) PROVE Between(x, r)
  <2>1. j \in 1 .. Len(c) /\ j >= u /\ (j = t \/ j < t)
    BY <1>2, <1>3, <1>4
  <2>2. /\ c[j].key \in Proper /\ Lo(c[j].key) \in Int /\ Hi(c[j].key) \in Int
        /\ HasRight(c[t].key) => HasRight(c[j].key) /\ Hi(c[j].key) =< Hi(c[t].key)
    BY <1>1, <1>4, <1>5, <2>1 DEF CutsInOrder
  <2>3. HasLeft(c[j].key) /\ Hi(s) =< Lo(c[j].key)
    BY <1>3, <2>1, <2>2, LessMeans
  <2>4. /\ HasRight(c[j].key) => 2 * x < Hi(c[j].key)
        /\ Lo(c[j].key) =< 2 * x
    BY <1>11, <2>3 DEF Between
  <2>5. (HasRight(c[t].key) => 2 * x < Hi(c[t].key)) /\ (HasLeft(s) => Lo(s) =< 2 * x)
    BY <1>5, <2>2, <2>3, <2>4
  <2> QED
    BY <1>6, <2>5 DEF Between
<1>12. \A j : j \in l .. (t + 1) - 1 <=> j \in l .. u - 1 \/ j \in u .. t
  BY <1>2, <1>3, <1>4
<1>13. \A x \in Int : Between(x, r) <=> Between(x, k) \/ \E j \in l .. (t + 1) - 1 : Between(x, c[j].key)
  <2>1. TAKE x \in Int
  <2>2. Between(x, r) <=> Between(x, s) \/ \E j \in u .. t : Between(x, c[j].key)
    BY <1>9, <1>10, <1>11
  <2> QED
    BY <1>3, <1>12, <2>2
<1>14. l \in 1 .. Len(c) + 1 /\ t + 1 \in l .. Len(c) + 1
  BY <1>2, <1>3, <1>4
<1> QED
  BY <1>6, <1>7, <1>8, <1>13, <1>14 DEF JoinedAs, r

-----------------------------------------------------------------------------
(***************************************************************************)
(* What merge and absorb put in the place of what they take out.           *)
(***************************************************************************)
\* The interval, stretched to the ends of the elements it begins and ends in.
LEMMA StretchedIs ==
    ASSUME InOrder(cont_), NEW k \in Proper, NEW l, NEW u, NEW loc, LocatedAs(loc, k, l, u)
    PROVE  LET s == Stretched(k, loc)
           IN  /\ JoinedAs(s, k, l, u)
               /\ IF loc.left.contains THEN l < u /\ (HasLeft(s) <=> HasLeft(cont_[l].key)) /\ Lo(s) = Lo(cont_[l].key)
                  ELSE (HasLeft(s) <=> HasLeft(k)) /\ Lo(s) = Lo(k)
               /\ IF loc.right.contains
                  THEN l < u /\ (HasRight(s) <=> HasRight(cont_[u - 1].key)) /\ Hi(s) = Hi(cont_[u - 1].key)
                  ELSE (HasRight(s) <=> HasRight(k)) /\ Hi(s) = Hi(k)
<1> DEFINE c == cont_
           e == c[l].key
           f == c[u - 1].key
           inL == loc.left.contains
           inR == loc.right.contains
           k1 == IF inL THEN ReplaceLeft(k, e) ELSE k
           s == Stretched(k, loc)
<1>1. CutsInOrder(c)
  BY OrderedCuts
<1>2. Len(c) \in Nat
  BY <1>1 DEF CutsInOrder
<1>3. /\ l \in 1 .. Len(c) + 1 /\ u \in 1 .. Len(c) + 1 /\ l =< u
      /\ \A i \in 1 .. Len(c) : (Less(c[i].key, k) <=> i < l) /\ (Less(k, c[i].key) <=> i >= u)
      /\ loc.left.itr = l
      /\ loc.right.itr = IF loc.right.contains THEN u - 1 ELSE u
  BY DEF LocatedAs
<1>4. /\ inL <=> l < u /\ HasLeft(k) /\ (HasLeft(e) => Lo(e) =< Lo(k))
      /\ inR <=> l < u /\ HasRight(k) /\ (HasRight(f) => Hi(k) =< Hi(f))
  BY LocatedCuts
<1>5. s = IF inR THEN ReplaceRight(k1, f) ELSE k1
  BY <1>3 DEF Stretched, Key
<1>6. l < u => l \in 1 .. Len(c) /\ u - 1 \in 1 .. Len(c) /\ (l = u - 1 \/ l < u - 1)
  BY <1>2, <1>3
<1>7. /\ l < u => /\ e \in Proper /\ Lo(e) \in Int /\ Hi(e) \in Int
                  /\ (HasLeft(e) /\ HasRight(e) => Lo(e) < Hi(e))
                  /\ f \in Proper /\ Lo(f) \in Int /\ Hi(f) \in Int
                  /\ (HasLeft(f) /\ HasRight(f) => Lo(f) < Hi(f))
      /\ l < u - 1 => HasRight(e) /\ HasLeft(f) /\ Hi(e) =< Lo(f)
      /\ l = u - 1 => e = f
  <2>1. l < u - 1 => l < u
    BY <1>2, <1>3
  <2>2. l < u => /\ e \in Proper /\ Lo(e) \in Int /\ Hi(e) \in Int
                 /\ (HasLeft(e) /\ HasRight(e) => Lo(e) < Hi(e))
    BY <1>1, <1>6 DEF CutsInOrder
  <2>3. l < u => /\ f \in Proper /\ Lo(f) \in Int /\ Hi(f) \in Int
                 /\ (HasLeft(f) /\ HasRight(f) => Lo(f) < Hi(f))
    BY <1>1, <1>6 DEF CutsInOrder
  <2>4. l < u - 1 => HasRight(e) /\ HasLeft(f) /\ Hi(e) =< Lo(f)
    BY <1>1, <1>6, <2>1 DEF CutsInOrder
  <2> QED
    BY <2>2, <2>3, <2>4
<1>8. /\ Lo(k) \in Int /\ Hi(k) \in Int /\ (HasLeft(k) /\ HasRight(k) => Lo(k) < Hi(k))
  BY ProperMeans
<1>9. \A i \in 1 .. Len(c) : /\ Less(c[i].key, k) <=> HasRight(c[i].key) /\ HasLeft(k) /\ Hi(c[i].key) =< Lo(k)
                             /\ Less(k, c[i].key) <=> HasRight(k) /\ HasLeft(c[i].key) /\ Hi(k) =< Lo(c[i].key)
  BY <1>1, LessMeans DEF CutsInOrder
<1>10. l < u => /\ HasRight(e) /\ HasLeft(k) => Lo(k) < Hi(e)
                /\ HasRight(k) /\ HasLeft(e) => Lo(e) < Hi(k)
                /\ HasRight(f) /\ HasLeft(k) => Lo(k) < Hi(f)
                /\ HasRight(k) /\ HasLeft(f) => Lo(f) < Hi(k)
                /\ HasLeft(e) /\ HasRight(f) => Lo(e) < Hi(f)
  <2>1. SUFFICES ASSUME l < u
                 PROVE  /\ HasRight(e) /\ HasLeft(k) => Lo(k) < Hi(e)
                        /\ HasRight(k) /\ HasLeft(e) => Lo(e) < Hi(k)
                        /\ HasRight(f) /\ HasLeft(k) => Lo(k) < Hi(f)
                        /\ HasRight(k) /\ HasLeft(f) => Lo(f) < Hi(k)
                        /\ HasLeft(e) /\ HasRight(f) => Lo(e) < Hi(f)
    OBVIOUS
  <2>2. ~(l < l) /\ ~(l >= u) /\ ~(u - 1 < l) /\ ~(u - 1 >= u)
    BY <1>2, <1>3, <2>1
  <2>3. /\ ~(HasRight(e) /\ HasLeft(k) /\ Hi(e) =< Lo(k)) /\ ~(HasRight(k) /\ HasLeft(e) /\ Hi(k) =< Lo(e))
        /\ ~(HasRight(f) /\ HasLeft(k) /\ Hi(f) =< Lo(k)) /\ ~(HasRight(k) /\ HasLeft(f) /\ Hi(k) =< Lo(f))
    BY <1>3, <1>6, <1>9, <2>1, <2>2
  <2> HIDE DEF e, f
  <2> QED
    BY <1>6, <1>7, <1>8, <2>1, <2>3
<1> HIDE DEF e, f, inL, inR
<1>11. /\ k1 \in Proper
       /\ IF inL THEN (HasLeft(k1) <=> HasLeft(e)) /\ Lo(k1) = Lo(e) ELSE (HasLeft(k1) <=> HasLeft(k)) /\ Lo(k1) = Lo(k)
       /\ (HasRight(k1) <=> HasRight(k)) /\ Hi(k1) = Hi(k)
  <2>1. CASE inL
    BY <1>4, <1>7, <1>10, <2>1, ReplacedMeans
  <2>2. CASE ~inL
    BY <2>2
  <2> QED
    BY <2>1, <2>2
<1> HIDE DEF k1, s
<1>12. /\ s \in Proper
       /\ (HasLeft(s) <=> HasLeft(k1)) /\ Lo(s) = Lo(k1)
       /\ IF inR THEN (HasRight(s) <=> HasRight(f)) /\ Hi(s) = Hi(f) ELSE (HasRight(s) <=> HasRight(k)) /\ Hi(s) = Hi(k)
  <2>1. CASE inR
    <3>1. l < u
      BY <1>4, <2>1
    <3>2. HasLeft(k1) /\ HasRight(f) => Lo(k1) < Hi(f)
      BY <1>10, <1>11, <3>1
    <3> QED
      BY <1>5, <1>7, <1>11, <2>1, <3>1, <3>2, ReplacedMeans
  <2>2. CASE ~inR
    BY <1>5, <1>11, <2>2
  <2> QED
    BY <2>1, <2>2
<1>13. /\ IF inL THEN l < u /\ (HasLeft(s) <=> HasLeft(e)) /\ Lo(s) = Lo(e) ELSE (HasLeft(s) <=> HasLeft(k)) /\ Lo(s) = Lo(k)
       /\ IF inR THEN l < u /\ (HasRight(s) <=> HasRight(f)) /\ Hi(s) = Hi(f) ELSE (HasRight(s) <=> HasRight(k)) /\ Hi(s) = Hi(k)
       /\ Lo(s) \in Int /\ Hi(s) \in Int
  BY <1>4, <1>11, <1>12, ProperMeans
<1>14. /\ \A j \in l .. u - 1 : j \in 1 .. Len(c) /\ l < u /\ (j = l \/ l < j) /\ (j = u - 1 \/ j < u - 1)
       /\ l < u => l \in l .. u - 1 /\ u - 1 \in l .. u - 1
  BY <1>2, <1>3
<1>15. /\ HasLeft(s) => HasLeft(k) /\ Lo(s) =< Lo(k)
       /\ HasRight(s) => HasRight(k) /\ Hi(k) =< Hi(s)
  BY <1>4, <1>7, <1>8, <1>13
<1>16. ASSUME NEW j \in l .. u - 1
       PROVE  /\ HasLeft(s) => HasLeft(c[j].key) /\ Lo(s) =< Lo(c[j].key)
              /\ HasRight(s) => HasRight(c[j].key) /\ Hi(c[j].key) =< Hi(s)
  <2>1. l < u /\ j \in 1 .. Len(c) /\ l \in 1 .. Len(c) /\ u - 1 \in 1 .. Len(c)
    BY <1>6, <1>14
  <2>2. Lo(c[j].key) \in Int /\ Hi(c[j].key) \in Int
    BY <1>1, <2>1 DEF CutsInOrder
  <2>3. HasLeft(e) => HasLeft(c[j].key) /\ Lo(e) =< Lo(c[j].key)
    <3>1. CASE j = l
      BY <1>7, <2>1, <3>1 DEF e
    <3>2. CASE l < j
      <4>1. HasRight(e) /\ HasLeft(c[j].key) /\ Hi(e) =< Lo(c[j].key)
        BY <1>1, <2>1, <3>2 DEF CutsInOrder, e
      <4> QED
        BY <1>7, <2>1, <2>2, <4>1
    <3> QED
      BY <1>14, <3>1, <3>2
  <2>4. HasRight(f) => HasRight(c[j].key) /\ Hi(c[j].key) =< Hi(f)
    <3>1. CASE j = u - 1
      BY <1>7, <2>1, <3>1 DEF f
    <3>2. CASE j < u - 1
      <4>1. HasRight(c[j].key) /\ HasLeft(f) /\ Hi(c[j].key) =< Lo(f)
        BY <1>1, <2>1, <3>2 DEF CutsInOrder, f
      <4> QED
        BY <1>7, <2>1, <2>2, <4>1
    <3> QED
      BY <1>14, <3>1, <3>2
  <2>5. CASE inL
    <3>1. HasLeft(s) => HasLeft(c[j].key) /\ Lo(s) =< Lo(c[j].key)
      BY <1>13, <2>3, <2>5
    <3> QED
      BY <1>4, <1>7, <1>8, <1>13, <2>1, <2>2, <2>4, <3>1
  <2>6. CASE ~inL
    <3>1. HasLeft(k) => HasLeft(e) /\ Lo(k) =< Lo(e)
      BY <1>4, <1>7, <1>8, <2>1, <2>6
    <3>2. HasLeft(s) => HasLeft(c[j].key) /\ Lo(s) =< Lo(c[j].key)
      BY <1>7, <1>8, <1>13, <2>1, <2>2, <2>3, <2>6, <3>1
    <3> QED
      BY <1>4, <1>7, <1>8, <1>13, <2>1, <2>2, <2>4, <3>2
  <2> QED
    BY <2>5, <2>6
<1>17. ASSUME NEW x \in Int, Between(x, k) \/ \E j \in l .. u - 1 : Between(x, c[j].key) PROVE Between(x, s)
  <2>1. CASE Between(x, k)
    BY <1>8, <1>13, <1>15, <2>1 DEF Between
  <2>2. ASSUME NEW j \in l .. u - 1, Between(x, c[j].key) PROVE Between(x, s)
    <3>1. Lo(c[j].key) \in Int /\ Hi(c[j].key) \in Int
      BY <1>1, <1>14 DEF CutsInOrder
    <3> QED
      BY <1>13, <1>16, <2>2, <3>1 DEF Between
  <2> QED
    BY <1>17, <2>1, <2>2
<1>18. ASSUME NEW x \in Int, Between(x, s), ~Between(x, k) PROVE \E j \in l .. u - 1 : Between(x, c[j].key)
  <2>0. (HasLeft(s) => Lo(s) =< 2 * x) /\ (HasRight(s) => 2 * x < Hi(s))
    BY <1>18 DEF Between
  <2>1. CASE HasLeft(k) /\ 2 * x < Lo(k)
    <3>1. inL /\ l < u
      BY <1>8, <1>13, <2>0, <2>1
    <3>2. HasRight(e) => 2 * x < Hi(e)
      BY <1>7, <1>8, <1>10, <2>1, <3>1
    <3>3. HasLeft(e) => Lo(e) =< 2 * x
      BY <1>13, <2>0, <3>1
    <3> QED
      BY <1>14, <3>1, <3>2, <3>3 DEF Between, e
  <2>2. CASE HasRight(k) /\ Hi(k) =< 2 * x
    <3>1. inR /\ l < u
      BY <1>8, <1>13, <2>0, <2>2
    <3>2. HasLeft(f) => Lo(f) =< 2 * x
      BY <1>7, <1>8, <1>10, <2>2, <3>1
    <3>3. HasRight(f) => 2 * x < Hi(f)
      BY <1>13, <2>0, <3>1
    <3> QED
      BY <1>14, <3>1, <3>2, <3>3 DEF Between, f
  <2>3. (HasLeft(k) /\ 2 * x < Lo(k)) \/ (HasRight(k) /\ Hi(k) =< 2 * x)
    BY <1>8, <1>18 DEF Between
  <2> QED
    BY <2>1, <2>2, <2>3
<1>19. ASSUME NEW j \in 1 .. Len(c), j < l PROVE Less(c[j].key, s)
  <2>1. /\ c[j].key \in Proper /\ HasRight(c[j].key) /\ HasLeft(k) /\ Hi(c[j].key) =< Lo(k)
        /\ Hi(c[j].key) \in Int
    BY <1>1, <1>3, <1>9, <1>19 DEF CutsInOrder
  <2>2. l < u => HasLeft(e) /\ Hi(c[j].key) =< Lo(e)
    BY <1>1, <1>6, <1>19 DEF CutsInOrder, e
  <2>3. HasLeft(s) /\ Hi(c[j].key) =< Lo(s)
    BY <1>13, <2>1, <2>2
  <2> QED
    BY <1>12, <2>1, <2>3, LessMeans
<1>20. ASSUME NEW j \in 1 .. Len(c), j >= u PROVE Less(s, c[j].key)
  <2>1. /\ c[j].key \in Proper /\ HasRight(k) /\ HasLeft(c[j].key) /\ Hi(k) =< Lo(c[j].key)
        /\ Lo(c[j].key) \in Int
    BY <1>1, <1>3, <1>9, <1>20 DEF CutsInOrder
  <2>2. l < u => HasRight(f) /\ Hi(f) =< Lo(c[j].key)
    <3>1. l < u => u - 1 < j
      BY <1>2, <1>3, <1>20
    <3> QED
      BY <1>1, <1>6, <3>1 DEF CutsInOrder, f
  <2>3. HasRight(s) /\ Hi(s) =< Lo(c[j].key)
    BY <1>13, <2>1, <2>2
  <2> QED
    BY <1>12, <2>1, <2>3, LessMeans
<1>21. u \in l .. Len(c) + 1
  BY <1>2, <1>3
<1>22. JoinedAs(s, k, l, u)
  BY <1>3, <1>12, <1>17, <1>18, <1>19, <1>20, <1>21 DEF JoinedAs
<1> QED
  BY <1>13, <1>22 DEF s, e, f, inL, inR

\* A change that puts the joined interval in the place of what it takes out.
LEMMA JoinGives ==
    ASSUME InOrder(cont_), NEW k \in Proper, NEW s, NEW from, NEW to, JoinedAs(s, k, from, to), NEW v \in Values,
           NEW change, Opened(change, from, to), change.new = <<Entry(s, v)>>
    PROVE  /\ InOrder(Changed("std", change)) /\ Changed("array", change) = Changed("std", change)
           /\ Elements(Changed("std", change)) = Others(cont_, from, to) \cup {Entry(s, v)}
<1> DEFINE e == Entry(s, v)
<1>1. e.key = s /\ e \in Held
  BY DEF Entry, Held, JoinedAs
<1>2. InOrder(<<e>>) /\ Elements(<<e>>) = {e}
  BY <1>1, OneOrNone
<1>3. FitsBetween(from, to, e)
  BY <1>1 DEF JoinedAs, FitsBetween
<1> HIDE DEF e
<1>4. InOrder(change.new) /\ Elements(change.new) = {e} /\ \A r \in Elements(change.new) : FitsBetween(from, to, r)
  BY <1>2, <1>3 DEF e
<1> QED
  BY <1>4, ChangeGives DEF e

\* Every proper interval has a point.
LEMMA HasPoint == ASSUME NEW k \in Proper PROVE PointsOf[k] # {}
<1>1. Overlap(k, k)
  BY SharedEnd
<1> QED
  BY <1>1, CommonPoint

\* Such a container is the interval united with those elements.
LEMMA JoinUnites ==
    ASSUME InOrder(cont_), NEW k \in Proper, NEW s, NEW from, NEW to, JoinedAs(s, k, from, to), NEW v \in Values,
           NEW d, InOrder(d), Elements(d) = Others(cont_, from, to) \cup {Entry(s, v)}
    PROVE  Unites(d, PointsOf[s], v)
<1> DEFINE e == Entry(s, v)
           O == Others(cont_, from, to)
<1>1. CutsInOrder(cont_) /\ cont_ \in Seq(Held) /\ d \in Seq(Held)
  BY OrderedCuts DEF InOrder
<1>2. /\ s \in Proper /\ from \in 1 .. Len(cont_) + 1 /\ to \in from .. Len(cont_) + 1 /\ Len(cont_) \in Nat
      /\ \A j \in 1 .. Len(cont_) : /\ j < from => Less(cont_[j].key, s)
                                    /\ j >= to => Less(s, cont_[j].key)
      /\ \A x \in Int : Between(x, s) <=> Between(x, k) \/ \E j \in from .. to - 1 : Between(x, cont_[j].key)
  BY <1>1 DEF JoinedAs, CutsInOrder
<1>3. e.key = s /\ e.val = v /\ e \in Held
  BY <1>2 DEF Entry, Held
<1>4. /\ Elements(cont_) \subseteq Held /\ O \subseteq Elements(cont_)
      /\ \A g : g \in Elements(cont_) <=> g \in O \/ \E j \in from .. to - 1 : g = cont_[j]
  BY <1>1, <1>2, AllElements
<1>5. ASSUME NEW j \in 1 .. Len(cont_), j < from \/ j >= to
      PROVE  PointsOf[cont_[j].key] \cap PointsOf[s] = {}
  <2>1. cont_[j].key \in Proper /\ ~Overlap(cont_[j].key, s)
    BY <1>1, <1>2, <1>5 DEF CutsInOrder, Overlap
  <2> QED
    BY <1>2, <2>1, CommonPoint
<1>6. ASSUME NEW j \in from .. to - 1
      PROVE  j \in 1 .. Len(cont_) /\ PointsOf[cont_[j].key] \subseteq PointsOf[s] /\ PointsOf[cont_[j].key] # {}
  <2>1. j \in 1 .. Len(cont_)
    BY <1>2
  <2>2. cont_[j].key \in Proper
    BY <1>1, <2>1 DEF CutsInOrder
  <2>3. \A x : x \in PointsOf[cont_[j].key] => x \in PointsOf[s]
    BY <1>2, <2>2, PointsAre
  <2> QED
    BY <2>1, <2>2, <2>3, HasPoint
<1>7. \E i \in DOMAIN d : PointsOf[d[i].key] = PointsOf[s] /\ d[i].val = v
  <2>1. e \in Elements(d)
    OBVIOUS
  <2>2. PICK i \in 1 .. Len(d) : d[i] = e
    BY <2>1 DEF Elements
  <2>3. DOMAIN d = 1 .. Len(d)
    BY <1>1, ElementsAre
  <2> QED
    BY <1>3, <2>2, <2>3
<1>8. Mapping(d) = Meaning(O) \cup PointsOf[s] \X {v}
  <2>1. Mapping(d) = Meaning(O \cup {e})
    BY <1>1, MappingIs
  <2>2. Meaning({e}) = PointsOf[s] \X {v}
    BY <1>3 DEF Meaning, Pairs
  <2>3. \A A, B : Meaning(A \cup B) = Meaning(A) \cup Meaning(B)
    BY DEF Meaning
  <2> HIDE DEF O, e
  <2> QED
    BY <2>1, <2>2, <2>3
<1>9. Meaning(O) = Outside(cont_, PointsOf[s])
  <2>1. Mapping(cont_) = Meaning(Elements(cont_))
    BY <1>1, MappingIs
  <2>2. \A g \in O : PointsOf[g.key] \cap PointsOf[s] = {}
    BY <1>5 DEF Others
  <2>3. ASSUME NEW p PROVE p \in Meaning(O) <=> p \in Outside(cont_, PointsOf[s])
    <3>1. \A E : p \in Meaning(E) <=> \E g \in E : \E x \in PointsOf[g.key] : p = <<x, g.val>>
      BY DEF Meaning, Pairs
    <3>2. \A x, w : <<x, w>>[1] = x
      OBVIOUS
    <3>3. p \in Outside(cont_, PointsOf[s]) <=> p \in Meaning(Elements(cont_)) /\ p[1] \notin PointsOf[s]
      BY <2>1 DEF Outside
    <3>4. ASSUME p \in Meaning(O) PROVE p \in Outside(cont_, PointsOf[s])
      <4>1. PICK g \in O : \E x \in PointsOf[g.key] : p = <<x, g.val>>
        BY <3>1, <3>4
      <4>2. PICK x \in PointsOf[g.key] : p = <<x, g.val>>
        BY <4>1
      <4>3. x \notin PointsOf[s] /\ g \in Elements(cont_)
        BY <1>4, <2>2
      <4> QED
        BY <3>1, <3>2, <3>3, <4>2, <4>3
    <3>5. ASSUME p \in Outside(cont_, PointsOf[s]) PROVE p \in Meaning(O)
      <4>1. PICK g \in Elements(cont_) : \E x \in PointsOf[g.key] : p = <<x, g.val>> /\ x \notin PointsOf[s]
        BY <3>1, <3>2, <3>3, <3>5
      <4>2. g \in O
        BY <1>4, <1>6, <4>1
      <4> QED
        BY <3>1, <4>1, <4>2
    <3> QED
      BY <3>4, <3>5
  <2> HIDE DEF O
  <2> QED
    BY <2>3
<1>10. ASSUME NEW i \in DOMAIN cont_, PointsOf[Key(i)] \cap PointsOf[s] = {} PROVE \E j \in DOMAIN d : d[j] = cont_[i]
  <2>1. i \in 1 .. Len(cont_) /\ DOMAIN d = 1 .. Len(d)
    BY <1>1, ElementsAre
  <2>2. i < from \/ i >= to
    <3>1. i \in from .. to - 1 \/ i < from \/ i >= to
      BY <1>2, <2>1
    <3> QED
      BY <1>6, <1>10, <3>1 DEF Key
  <2>3. cont_[i] \in O
    BY <2>1, <2>2 DEF Others
  <2>4. cont_[i] \in Elements(d)
    BY <2>3
  <2> QED
    BY <2>1, <2>4 DEF Elements
<1> HIDE DEF O, e
<1> QED
  BY <1>7, <1>8, <1>9, <1>10 DEF Unites

\* What merge() makes.
LEMMA MergeGives ==
    ASSUME InOrder(cont_), NEW k \in Proper, NEW l, NEW u, NEW loc, LocatedAs(loc, k, l, u), NEW v \in Values
    PROVE  LET change == MergeChange(k, v, loc)
           IN  /\ InOrder(Changed("std", change)) /\ Changed("array", change) = Changed("std", change)
               /\ Elements(Changed("std", change)) = Others(cont_, l, u) \cup {Entry(Stretched(k, loc), v)}
<1>1. k \in Made
  BY DEF Proper
<1> DEFINE change == MergeChange(k, v, loc)
<1>2. Opened(change, l, u) /\ change.new = <<Entry(Stretched(k, loc), v)>>
  <2>1. Opened(MergeChange(k, v, loc), l, u)
    BY <1>1, Changes
  <2>2. MergeChange(k, v, loc).new = MergeNew(k, v, loc)
    BY <1>1, Changes
  <2> QED
    BY <2>1, <2>2 DEF MergeNew
<1>3. JoinedAs(Stretched(k, loc), k, l, u)
  BY StretchedIs
<1> HIDE DEF change
<1>4. /\ InOrder(Changed("std", change)) /\ Changed("array", change) = Changed("std", change)
      /\ Elements(Changed("std", change)) = Others(cont_, l, u) \cup {Entry(Stretched(k, loc), v)}
  BY <1>2, <1>3, JoinGives
<1> QED
  BY <1>4 DEF change

\* merge() unites the interval with the elements it has points in common with.
LEMMA MergesRight == ASSUME InOrder(cont_) PROVE MergeUnites
<1>1. SUFFICES ASSUME NEW k \in Keys, NEW v \in Values, NEW loc \in Locate(k)
               PROVE  Unites(MergeImpl(k, v, loc), Met(k), v)
  BY DEF MergeUnites
<1>2. k \in Proper /\ k \in Made
  BY KeysAreProper DEF Proper
<1> DEFINE l == LowerBound(cont_, k)
           u == UpperBound(cont_, k)
           d == MergeImpl(k, v, loc)
           s == Stretched(k, loc)
<1>3. LocatedAs(loc, k, l, u)
  BY <1>2, Locates
<1> HIDE DEF l, u
<1>4. InOrder(d) /\ Elements(d) = Others(cont_, l, u) \cup {Entry(s, v)}
  BY <1>2, <1>3, MergeGives DEF MergeImpl
<1>5. JoinedAs(s, k, l, u)
  BY <1>2, <1>3, StretchedIs
<1> HIDE DEF d, s
<1>6. Unites(d, PointsOf[s], v)
  BY <1>2, <1>4, <1>5, JoinUnites
<1>7. CutsInOrder(cont_) /\ DOMAIN cont_ = 1 .. Len(cont_)
  BY OrderedCuts, ElementsAre DEF InOrder
<1>8. \A j \in 1 .. Len(cont_) : Meets(cont_[j], k) <=> j \in l .. u - 1
  <2>1. TAKE j \in 1 .. Len(cont_)
  <2>2. Meets(cont_[j], k) <=> Overlap(cont_[j].key, k)
    BY <1>2, <1>7, CommonPoint DEF Meets, CutsInOrder
  <2>3. Overlap(cont_[j].key, k) <=> ~(j < l) /\ ~(j >= u)
    BY <1>3 DEF LocatedAs, Overlap
  <2>4. l \in Int /\ u \in Int
    BY <1>3, <1>7 DEF LocatedAs, CutsInOrder
  <2> QED
    BY <2>2, <2>3, <2>4
<1>9. \A x : x \in PointsOf[s] <=> x \in Met(k)
  <2>1. TAKE x
  <2>2. x \in Met(k) <=> x \in PointsOf[k] \/ \E j \in 1 .. Len(cont_) : j \in l .. u - 1 /\ x \in PointsOf[cont_[j].key]
    BY <1>7, <1>8 DEF Met, Key
  <2>3. \A j \in 1 .. Len(cont_) : x \in PointsOf[cont_[j].key] <=> x \in Points /\ x \in Int /\ Between(x, cont_[j].key)
    BY <1>7, PointsAre DEF CutsInOrder
  <2>4. /\ x \in PointsOf[s] <=> x \in Points /\ x \in Int /\ Between(x, s)
        /\ x \in PointsOf[k] <=> x \in Points /\ x \in Int /\ Between(x, k)
    BY <1>2, <1>5, PointsAre DEF JoinedAs
  <2>5. \A j \in l .. u - 1 : j \in 1 .. Len(cont_)
    BY <1>3, <1>7 DEF LocatedAs, CutsInOrder
  <2>6. x \in Int => (Between(x, s) <=> Between(x, k) \/ \E j \in l .. u - 1 : Between(x, cont_[j].key))
    BY <1>5 DEF JoinedAs
  <2> QED
    BY <2>2, <2>3, <2>4, <2>5, <2>6
<1>10. PointsOf[s] = Met(k)
  <2>1. \A x : x \in PointsOf[s] <=> x \in Met(k)
    BY <1>9
  <2> QED
    BY <2>1
<1> QED
  BY <1>6, <1>10 DEF d

-----------------------------------------------------------------------------
\* Nothing touches the interval at the elements beside it.
Alone(s, from, to) ==
    /\ from > 1 => ~Touch(cont_[from - 1].key, s)
    /\ to =< Len(cont_) => ~Touch(s, cont_[to].key)

\* absorb() joins all that touches, and all that touches that.
AbsorbsAs(change, s, k, v, from, to) ==
    /\ JoinedAs(s, k, from, to) /\ Alone(s, from, to)
    /\ Opened(change, from, to) /\ change.new = <<Entry(s, v)>>

\* It does so whether or not k's ends lie in elements.
LEMMA AbsorbChanges ==
    ASSUME InOrder(cont_), NEW k \in Proper, NEW l, NEW u, NEW loc, LocatedAs(loc, k, l, u), NEW v \in Values
    PROVE  \E s, from, to : AbsorbsAs(AbsorbChange(k, v, loc), s, k, v, from, to)
<1> DEFINE c == cont_
           s0 == Stretched(k, loc)
           r == loc.right.itr
           conL == IF loc.left.contains /\ l > 1 THEN LeftConnected(s0, Key(l - 1)) ELSE loc.left.connected
           conR == IF loc.right.contains THEN r < Len(cont_) /\ RightConnected(s0, Key(r + 1)) ELSE loc.right.connected
           first == IF conL THEN FirstConnected(l - 1) ELSE l
           last == IF conR THEN LastConnected(r) ELSE r
           toL == IF conL THEN ReplaceLeft(s0, Key(first)) ELSE s0
           toR == IF conR THEN ReplaceRight(toL, Key(last)) ELSE toL
           past == IF conR THEN last + 1 ELSE Past(loc.right)
           change == AbsorbChange(k, v, loc)
<1>1. CutsInOrder(c)
  BY OrderedCuts
<1>2. Len(c) \in Nat
  BY <1>1 DEF CutsInOrder
<1>3. /\ l \in 1 .. Len(c) + 1 /\ u \in 1 .. Len(c) + 1 /\ l =< u
      /\ loc.left.itr = l /\ Past(loc.right) = u
      /\ r = IF loc.right.contains THEN u - 1 ELSE u
      /\ loc.left.contains => l =< Len(c)
      /\ loc.right.contains => l =< Len(c) /\ u > 1
  BY DEF LocatedAs
<1>4. /\ loc.left.connected <=> l > 1 /\ Touch(c[l - 1].key, k)
      /\ loc.right.connected <=> u =< Len(c) /\ Touch(k, c[u].key)
  BY LocatedCuts
<1>5. /\ JoinedAs(s0, k, l, u)
      /\ IF loc.left.contains THEN TRUE ELSE (HasLeft(s0) <=> HasLeft(k)) /\ Lo(s0) = Lo(k)
      /\ IF loc.right.contains
         THEN (HasRight(s0) <=> HasRight(c[u - 1].key)) /\ Hi(s0) = Hi(c[u - 1].key)
         ELSE (HasRight(s0) <=> HasRight(k)) /\ Hi(s0) = Hi(k)
  BY StretchedIs
<1>6. change = IF IsInfinite(k) THEN Change(<<>>, 1, <<Entry(k, v)>>)
               ELSE IF l = End /\ ~loc.left.connected THEN Change(cont_, End, <<Entry(k, v)>>)
               ELSE Change(Erased(first, past), first, <<Entry(toR, v)>>)
  BY <1>3 DEF AbsorbChange, IsEnd
<1> HIDE DEF s0, change
<1>7. s0 \in Proper
  BY <1>5 DEF JoinedAs
<1>8. conL <=> l > 1 /\ Touch(c[l - 1].key, s0)
  <2>1. l > 1 => l - 1 \in 1 .. Len(c)
    BY <1>2, <1>3
  <2>2. l > 1 => (LeftConnected(s0, Key(l - 1)) <=> Touch(c[l - 1].key, s0))
    BY <1>1, <1>7, <2>1, ConnectedMeans DEF CutsInOrder, Key
  <2>3. ~loc.left.contains => (Touch(c[l - 1].key, k) <=> Touch(c[l - 1].key, s0))
    BY <1>5 DEF Touch
  <2> HIDE DEF c
  <2>4. CASE loc.left.contains /\ l > 1
    BY <2>2, <2>4
  <2>5. CASE ~(loc.left.contains /\ l > 1)
    BY <1>4, <2>3, <2>5
  <2> QED
    BY <2>4, <2>5
<1>9. conR <=> u =< Len(c) /\ Touch(s0, c[u].key)
  <2>1. u =< Len(c) => u \in 1 .. Len(c)
    BY <1>2, <1>3
  <2>2. u =< Len(c) => (RightConnected(s0, Key(u)) <=> Touch(s0, c[u].key))
    BY <1>1, <1>7, <2>1, ConnectedMeans DEF CutsInOrder, Key
  <2>3. ~loc.right.contains => (Touch(k, c[u].key) <=> Touch(s0, c[u].key))
    BY <1>5 DEF Touch
  <2>4. CASE loc.right.contains
    <3>1. r + 1 = u /\ (r < Len(cont_) <=> u =< Len(cont_))
      BY <1>2, <1>3, <2>4
    <3> HIDE DEF r
    <3>2. conR <=> r < Len(cont_) /\ RightConnected(s0, Key(u))
      BY <2>4, <3>1
    <3> QED
      BY <2>2, <3>1, <3>2
  <2>5. CASE ~loc.right.contains
    BY <1>4, <2>3, <2>5
  <2> QED
    BY <2>4, <2>5
<1> HIDE DEF r, conL, conR
<1>10. /\ JoinedAs(toL, k, first, u)
       /\ (HasRight(toL) <=> HasRight(s0)) /\ Hi(toL) = Hi(s0)
       /\ first > 1 => ~Touch(c[first - 1].key, toL)
  <2>1. CASE conL
    <3>1. l > 1 /\ Touch(c[l - 1].key, s0) /\ l - 1 \in 1 .. Len(c)
      BY <1>2, <1>3, <1>8, <2>1
    <3>2. Chained(first, l - 1) /\ (first > 1 => ~Touch(c[first - 1].key, c[first].key))
      <4>1. first = FirstConnected(l - 1)
        BY <2>1
      <4> HIDE DEF first
      <4> QED
        BY <3>1, <4>1, FirstConnectedIs
    <3>3. toL = ReplaceLeft(s0, c[first].key)
      BY <2>1 DEF Key
    <3> HIDE DEF toL, first
    <3>4. /\ JoinedAs(toL, k, first, u)
          /\ (HasLeft(toL) <=> HasLeft(c[first].key)) /\ Lo(toL) = Lo(c[first].key)
          /\ (HasRight(toL) <=> HasRight(s0)) /\ Hi(toL) = Hi(s0)
      BY <1>5, <3>1, <3>2, <3>3, JoinLeft
    <3>5. first > 1 => ~Touch(c[first - 1].key, toL)
      BY <3>2, <3>4 DEF Touch
    <3> QED
      BY <3>4, <3>5
  <2>2. CASE ~conL
    <3>1. first = l /\ toL = s0
      BY <2>2
    <3>2. l > 1 => ~Touch(c[l - 1].key, s0)
      BY <1>8, <2>2
    <3> HIDE DEF first, toL
    <3> QED
      BY <1>5, <3>1, <3>2
  <2> QED
    BY <2>1, <2>2
<1> HIDE DEF toL, first
<1>11. /\ JoinedAs(toR, k, first, past)
       /\ (HasLeft(toR) <=> HasLeft(toL)) /\ Lo(toR) = Lo(toL)
       /\ past =< Len(c) => ~Touch(toR, c[past].key)
  <2>1. CASE conR
    <3>1. u =< Len(c) /\ Touch(s0, c[u].key) /\ u \in 1 .. Len(c)
      BY <1>2, <1>3, <1>9, <2>1
    <3>2. Touch(toL, c[u].key)
      BY <1>10, <3>1 DEF Touch
    <3>3. Chained(u, last) /\ (last < Len(c) => ~Touch(c[last].key, c[last + 1].key))
      <4>1. last = LastConnected(r)
        BY <2>1
      <4> HIDE DEF last
      <4>2. r \in 1 .. Len(c)
        BY <1>2, <1>3, <3>1
      <4>3. Chained(r, last) /\ (last < Len(c) => ~Touch(c[last].key, c[last + 1].key))
        BY <4>1, <4>2, LastConnectedIs
      <4>4. CASE loc.right.contains
        <5>1. r = u - 1 /\ last \in u - 1 .. Len(c) /\ (u - 1) + 1 = u
          BY <1>2, <1>3, <4>3, <4>4 DEF Chained
        <5>2. Touch(c[u - 1].key, c[u].key)
          BY <1>5, <3>1, <4>4 DEF Touch
        <5>3. last # u - 1
          <6>1. SUFFICES ASSUME last = u - 1 PROVE FALSE
            OBVIOUS
          <6>2. last < Len(c) /\ last + 1 = u
            BY <1>2, <3>1, <5>1, <6>1
          <6> QED
            BY <4>3, <5>2, <6>1, <6>2
        <5>4. u \in r .. last
          BY <1>2, <3>1, <5>1, <5>3
        <5> QED
          BY <4>3, <5>4, PartChained
      <4>5. CASE ~loc.right.contains
        BY <1>3, <4>3, <4>5
      <4> QED
        BY <4>4, <4>5
    <3>4. toR = ReplaceRight(toL, c[last].key) /\ past = last + 1
      BY <2>1 DEF Key
    <3>5. last \in 1 .. Len(c)
      BY <1>2, <3>1, <3>3 DEF Chained
    <3> HIDE DEF toR, last, past
    <3>6. /\ JoinedAs(toR, k, first, past)
          /\ (HasLeft(toR) <=> HasLeft(toL)) /\ Lo(toR) = Lo(toL)
          /\ (HasRight(toR) <=> HasRight(c[last].key)) /\ Hi(toR) = Hi(c[last].key)
      BY <1>10, <3>1, <3>2, <3>3, <3>4, JoinRight
    <3>7. past =< Len(c) => last < Len(c)
      BY <1>2, <3>4, <3>5
    <3>8. past =< Len(c) => ~Touch(toR, c[past].key)
      BY <3>3, <3>4, <3>6, <3>7 DEF Touch
    <3> QED
      BY <3>6, <3>8
  <2>2. CASE ~conR
    <3>1. toR = toL /\ past = u
      BY <1>3, <2>2
    <3>2. u =< Len(c) => ~Touch(s0, c[u].key)
      BY <1>9, <2>2
    <3>3. u =< Len(c) => ~Touch(toL, c[u].key)
      BY <1>10, <3>2 DEF Touch
    <3> HIDE DEF toR, past
    <3> QED
      BY <1>10, <3>1, <3>3
  <2> QED
    BY <2>1, <2>2
<1>12. Alone(toR, first, past)
  <2> HIDE DEF toR, past
  <2>1. first > 1 => ~Touch(c[first - 1].key, toR)
    BY <1>10, <1>11 DEF Touch
  <2> QED
    BY <1>11, <2>1 DEF Alone
<1>13. Opened(change, first, past) /\ change.new = <<Entry(toR, v)>>
  <2>0. \A left, at, new : Change(left, at, new).new = new
    BY DEF Change
  <2>1. ASSUME ~conL, ~conR, ~loc.left.contains, ~loc.right.contains PROVE first = l /\ past = u /\ toR = k
    <3>1. s0 = k
      BY <2>1 DEF Stretched, s0
    <3> QED
      BY <1>3, <2>1, <3>1 DEF first, toL
  <2>2. CASE IsInfinite(k)
    <3>1. l = 1 /\ u = Len(cont_) + 1 /\ ~loc.left.contains /\ ~loc.right.contains
      BY <2>2, InfiniteTakesAll
    <3>2. ~conL /\ ~conR
      BY <1>2, <1>8, <1>9, <3>1
    <3>3. first = 1 /\ past = Len(cont_) + 1 /\ toR = k
      BY <2>1, <3>1, <3>2
    <3> HIDE DEF first, past, toR
    <3>4. change = Change(<<>>, 1, <<Entry(k, v)>>)
      BY <1>6, <2>2
    <3> QED
      BY <2>0, <3>3, <3>4, OpensAll
  <2>3. CASE ~IsInfinite(k) /\ l = End /\ ~loc.left.connected
    <3>1. l = Len(cont_) + 1 /\ u = Len(cont_) + 1
      BY <1>2, <1>3, <2>3 DEF End
    <3>2. ~loc.left.contains /\ ~loc.right.contains /\ ~conR
      BY <1>2, <1>3, <1>9, <3>1
    <3>3. ~conL
      BY <2>3, <3>2 DEF conL
    <3>4. first = Len(cont_) + 1 /\ past = Len(cont_) + 1 /\ toR = k
      BY <2>1, <3>1, <3>2, <3>3
    <3> HIDE DEF first, past, toR
    <3>5. change = Change(cont_, End, <<Entry(k, v)>>)
      BY <1>6, <2>3
    <3> QED
      BY <2>0, <3>4, <3>5, OpensAtEnd
  <2>4. CASE ~IsInfinite(k) /\ ~(l = End /\ ~loc.left.connected)
    <3> HIDE DEF first, past, toR
    <3>1. change = Change(Erased(first, past), first, <<Entry(toR, v)>>)
      BY <1>6, <2>4
    <3>2. first \in 1 .. Len(cont_) + 1 /\ past \in first .. Len(cont_) + 1
      BY <1>11 DEF JoinedAs
    <3> QED
      BY <2>0, <3>1, <3>2, ErasedOpens
  <2> QED
    BY <2>2, <2>3, <2>4
<1> HIDE DEF toR, past
<1>14. AbsorbsAs(change, toR, k, v, first, past)
  BY <1>11, <1>12, <1>13 DEF AbsorbsAs
<1> QED
  BY <1>14 DEF change

\* What absorb() makes.
LEMMA AbsorbGives ==
    ASSUME InOrder(cont_), NEW k \in Proper, NEW l, NEW u, NEW loc, LocatedAs(loc, k, l, u), NEW v \in Values
    PROVE  LET change == AbsorbChange(k, v, loc)
           IN  /\ InOrder(Changed("std", change)) /\ Changed("array", change) = Changed("std", change)
               /\ \E s, from, to : /\ JoinedAs(s, k, from, to) /\ Alone(s, from, to)
                                   /\ Elements(Changed("std", change)) = Others(cont_, from, to) \cup {Entry(s, v)}
<1> DEFINE change == AbsorbChange(k, v, loc)
<1>1. PICK s, from, to : AbsorbsAs(change, s, k, v, from, to)
  BY AbsorbChanges
<1> HIDE DEF change
<1>2. /\ JoinedAs(s, k, from, to) /\ Alone(s, from, to)
      /\ Opened(change, from, to) /\ change.new = <<Entry(s, v)>>
  BY <1>1 DEF AbsorbsAs
<1>3. /\ InOrder(Changed("std", change)) /\ Changed("array", change) = Changed("std", change)
      /\ Elements(Changed("std", change)) = Others(cont_, from, to) \cup {Entry(s, v)}
  BY <1>2, JoinGives
<1>4. \E s1, from1, to1 : /\ JoinedAs(s1, k, from1, to1) /\ Alone(s1, from1, to1)
                          /\ Elements(Changed("std", change)) = Others(cont_, from1, to1) \cup {Entry(s1, v)}
  BY <1>2, <1>3
<1> QED
  BY <1>3, <1>4 DEF change

\* Between an interval that is joined and alone and what lies beside it there are points.
LEMMA GapsBeside ==
    ASSUME InOrder(cont_), NEW k \in Proper, NEW s, NEW from, NEW to, JoinedAs(s, k, from, to), Alone(s, from, to)
    PROVE  /\ \A j \in 1 .. Len(cont_) :
                  j < from => \E z \in Points : /\ z \in Int /\ HasLeft(s) /\ 2 * z < Lo(s)
                                                /\ \A i \in 1 .. Len(cont_) : ~Between(z, cont_[i].key)
                                                /\ HasRight(cont_[j].key) /\ Hi(cont_[j].key) =< 2 * z
           /\ \A j \in 1 .. Len(cont_) :
                  j >= to => \E z \in Points : /\ z \in Int /\ HasRight(s) /\ Hi(s) =< 2 * z
                                               /\ \A i \in 1 .. Len(cont_) : ~Between(z, cont_[i].key)
                                               /\ HasLeft(cont_[j].key) /\ 2 * z < Lo(cont_[j].key)
<1> DEFINE c == cont_
<1>1. CutsInOrder(c)
  BY OrderedCuts
<1>2. /\ s \in Proper /\ from \in 1 .. Len(c) + 1 /\ to \in from .. Len(c) + 1 /\ Len(c) \in Nat
      /\ \A j \in 1 .. Len(c) : (j < from => Less(c[j].key, s)) /\ (j >= to => Less(s, c[j].key))
      /\ \A x \in Int : Between(x, s) <=> Between(x, k) \/ \E j \in from .. to - 1 : Between(x, c[j].key)
  BY <1>1 DEF JoinedAs, CutsInOrder
<1>3. /\ \A j \in 1 .. Len(c) : /\ j < from => HasRight(c[j].key) /\ HasLeft(s) /\ Hi(c[j].key) =< Lo(s)
                                /\ j >= to => HasRight(s) /\ HasLeft(c[j].key) /\ Hi(s) =< Lo(c[j].key)
      /\ Lo(s) \in Int /\ Hi(s) \in Int /\ (HasLeft(s) /\ HasRight(s) => Lo(s) < Hi(s))
  BY <1>1, <1>2, LessMeans, ProperMeans DEF CutsInOrder
<1>4. \A j \in 1 .. Len(c) : j < from \/ j >= to \/ j \in from .. to - 1
  BY <1>2
<1>5. ASSUME NEW j \in 1 .. Len(c), j < from
      PROVE  \E z \in Points : /\ z \in Int /\ HasLeft(s) /\ 2 * z < Lo(s)
                               /\ \A i \in 1 .. Len(c) : ~Between(z, c[i].key)
                               /\ HasRight(c[j].key) /\ Hi(c[j].key) =< 2 * z
  <2> DEFINE p == from - 1
  <2>1. p \in 1 .. Len(c) /\ p < from /\ from > 1
    BY <1>2, <1>5
  <2>2. HasRight(c[p].key) /\ HasLeft(s) /\ Hi(c[p].key) =< Lo(s) /\ ~Touch(c[p].key, s)
    BY <1>3, <2>1 DEF Alone
  <2>3. Hi(c[p].key) \in Cuts /\ Lo(s) \in Cuts /\ Hi(c[p].key) \in Int
    BY <1>1, <1>2, <2>1, <2>2, CutsAre DEF CutsInOrder
  <2>4. Hi(c[p].key) < Lo(s)
    BY <1>3, <2>2, <2>3 DEF Touch
  <2>5. PICK z \in Points : z \in Int /\ Hi(c[p].key) =< 2 * z /\ 2 * z < Lo(s)
    BY <2>3, <2>4, CutsApart
  <2>6. ASSUME NEW i \in 1 .. Len(c), i < from PROVE HasRight(c[i].key) /\ Hi(c[i].key) =< 2 * z
    <3>1. i = p \/ i < p
      BY <1>2, <2>6
    <3>2. CASE i = p
      BY <2>2, <2>5, <3>2
    <3>3. CASE i < p
      <4>1. HasRight(c[i].key) /\ HasLeft(c[p].key) /\ Hi(c[i].key) =< Lo(c[p].key)
        BY <1>1, <2>1, <3>3 DEF CutsInOrder
      <4>2. Hi(c[i].key) \in Int /\ Lo(c[p].key) \in Int /\ Lo(c[p].key) < Hi(c[p].key)
        BY <1>1, <2>1, <2>2, <4>1 DEF CutsInOrder
      <4> QED
        BY <2>3, <2>5, <4>1, <4>2
    <3> QED
      BY <3>1, <3>2, <3>3
  <2> HIDE DEF p
  <2>7. ASSUME NEW i \in 1 .. Len(c) PROVE ~Between(z, c[i].key)
    <3>0. Lo(c[i].key) \in Int /\ Hi(c[i].key) \in Int
      BY <1>1 DEF CutsInOrder
    <3>1. CASE i < from
      BY <2>5, <2>6, <3>0, <3>1 DEF Between
    <3>2. CASE i \in from .. to - 1
      <4>1. Between(z, c[i].key) => Between(z, s)
        BY <1>2, <2>5, <3>2
      <4> QED
        BY <1>3, <2>2, <2>5, <4>1 DEF Between
    <3>3. CASE i >= to
      <4>1. HasRight(s) /\ HasLeft(c[i].key) /\ Hi(s) =< Lo(c[i].key)
        BY <1>3, <3>3
      <4> QED
        BY <1>3, <2>2, <2>5, <3>0, <4>1 DEF Between
    <3> QED
      BY <1>4, <3>1, <3>2, <3>3
  <2> QED
    BY <1>5, <2>2, <2>5, <2>6, <2>7
<1>6. ASSUME NEW j \in 1 .. Len(c), j >= to
      PROVE  \E z \in Points : /\ z \in Int /\ HasRight(s) /\ Hi(s) =< 2 * z
                               /\ \A i \in 1 .. Len(c) : ~Between(z, c[i].key)
                               /\ HasLeft(c[j].key) /\ 2 * z < Lo(c[j].key)
  <2>1. to \in 1 .. Len(c) /\ to >= to /\ to =< Len(c)
    BY <1>2, <1>6
  <2>2. HasRight(s) /\ HasLeft(c[to].key) /\ Hi(s) =< Lo(c[to].key) /\ ~Touch(s, c[to].key)
    BY <1>3, <2>1 DEF Alone
  <2>3. Lo(c[to].key) \in Cuts /\ Hi(s) \in Cuts /\ Lo(c[to].key) \in Int
    BY <1>1, <1>2, <2>1, <2>2, CutsAre DEF CutsInOrder
  <2>4. Hi(s) < Lo(c[to].key)
    BY <1>3, <2>2, <2>3 DEF Touch
  <2>5. PICK z \in Points : z \in Int /\ Hi(s) =< 2 * z /\ 2 * z < Lo(c[to].key)
    BY <2>3, <2>4, CutsApart
  <2>6. ASSUME NEW i \in 1 .. Len(c), i >= to PROVE HasLeft(c[i].key) /\ 2 * z < Lo(c[i].key)
    <3>1. i = to \/ to < i
      BY <1>2, <2>6
    <3>2. CASE i = to
      BY <2>2, <2>5, <3>2
    <3>3. CASE to < i
      <4>1. HasRight(c[to].key) /\ HasLeft(c[i].key) /\ Hi(c[to].key) =< Lo(c[i].key)
        BY <1>1, <2>1, <3>3 DEF CutsInOrder
      <4>2. Hi(c[to].key) \in Int /\ Lo(c[i].key) \in Int /\ Lo(c[to].key) < Hi(c[to].key)
        BY <1>1, <2>1, <2>2, <4>1 DEF CutsInOrder
      <4> QED
        BY <2>3, <2>5, <4>1, <4>2
    <3> QED
      BY <3>1, <3>2, <3>3
  <2>7. ASSUME NEW i \in 1 .. Len(c) PROVE ~Between(z, c[i].key)
    <3>0. Lo(c[i].key) \in Int /\ Hi(c[i].key) \in Int
      BY <1>1 DEF CutsInOrder
    <3>1. CASE i >= to
      BY <2>5, <2>6, <3>0, <3>1 DEF Between
    <3>2. CASE i \in from .. to - 1
      <4>1. Between(z, c[i].key) => Between(z, s)
        BY <1>2, <2>5, <3>2
      <4> QED
        BY <1>3, <2>2, <2>5, <4>1 DEF Between
    <3>3. CASE i < from
      <4>1. HasRight(c[i].key) /\ HasLeft(s) /\ Hi(c[i].key) =< Lo(s)
        BY <1>3, <3>3
      <4> QED
        BY <1>3, <2>2, <2>5, <3>0, <4>1 DEF Between
    <3> QED
      BY <1>4, <3>1, <3>2, <3>3
  <2> QED
    BY <1>6, <2>2, <2>5, <2>6, <2>7
<1> QED
  BY <1>5, <1>6

\* Its points are those that can be reached from the interval without a gap.
LEMMA JoinReaches ==
    ASSUME InOrder(cont_), NEW k \in Proper, NEW s, NEW from, NEW to, JoinedAs(s, k, from, to), Alone(s, from, to)
    PROVE  PointsOf[s] = Reached(k)
<1> DEFINE c == cont_
           S == PointsIn(c) \cup PointsOf[k]
<1>1. CutsInOrder(c) /\ DOMAIN c = 1 .. Len(c)
  BY OrderedCuts, ElementsAre DEF InOrder
<1>2. /\ s \in Proper /\ from \in 1 .. Len(c) + 1 /\ to \in from .. Len(c) + 1 /\ Len(c) \in Nat
      /\ \A x \in Int : Between(x, s) <=> Between(x, k) \/ \E j \in from .. to - 1 : Between(x, c[j].key)
      /\ \A j \in from .. to - 1 : j \in 1 .. Len(c)
  BY <1>1 DEF JoinedAs, CutsInOrder
<1>3. /\ \A x : x \in PointsOf[s] <=> x \in Points /\ x \in Int /\ Between(x, s)
      /\ \A x : x \in PointsOf[k] <=> x \in Points /\ x \in Int /\ Between(x, k)
      /\ \A j \in 1 .. Len(c) : \A x : x \in PointsOf[c[j].key] <=> x \in Points /\ x \in Int /\ Between(x, c[j].key)
  BY <1>1, <1>2, PointsAre DEF CutsInOrder
<1>4. \A x : x \in S <=> x \in Points /\ x \in Int /\ (Between(x, k) \/ \E j \in 1 .. Len(c) : Between(x, c[j].key))
  <2>1. \A x : x \in PointsIn(c) <=> \E j \in 1 .. Len(c) : x \in PointsOf[c[j].key]
    BY <1>1 DEF PointsIn
  <2> QED
    BY <1>3, <2>1
<1>5. \A x : x \in Reached(k) <=> x \in S /\ \E y \in PointsOf[k] : NoGap(x, y, S)
  BY DEF Reached
<1> HIDE DEF S, c
<1>6. \A x : x \in PointsOf[s] => x \in S
  BY <1>2, <1>3, <1>4
<1>7. /\ \A x : x \in PointsOf[k] => x \in PointsOf[s]
      /\ \A z \in Int : \A j \in from .. to - 1 : Between(z, c[j].key) => Between(z, s)
      /\ \A z \in Int : Between(z, k) => Between(z, s)
  BY <1>2, <1>3
<1>8. Lo(s) \in Int /\ Hi(s) \in Int
  BY <1>2, ProperMeans
<1>9. ASSUME NEW x \in PointsOf[s] PROVE x \in Reached(k)
  <2>1. PICK y \in PointsOf[k] : TRUE
    BY HasPoint
  <2>2. NoGap(x, y, S)
    <3>1. SUFFICES ASSUME NEW z \in Points, z \in x .. y \cup y .. x PROVE z \in S
      BY DEF NoGap
    <3>2. x \in Int /\ y \in Int /\ Between(x, s) /\ Between(y, s)
      BY <1>3, <1>7, <2>1
    <3>3. z \in Int /\ ((x =< z /\ z =< y) \/ (y =< z /\ z =< x))
      BY <3>1, <3>2
    <3>4. Between(z, s)
      BY <1>8, <3>2, <3>3 DEF Between
    <3> QED
      BY <1>3, <1>6, <3>3, <3>4
  <2> QED
    BY <1>5, <1>6, <2>1, <2>2
<1>10. ASSUME NEW x \in Reached(k) PROVE x \in PointsOf[s]
  <2>1. SUFFICES ASSUME x \notin PointsOf[s] PROVE FALSE
    OBVIOUS
  <2>2. PICK y \in PointsOf[k] : NoGap(x, y, S)
    BY <1>5
  <2>3. x \in Points /\ x \in Int /\ ~Between(x, s) /\ ~Between(x, k)
    BY <1>3, <1>4, <1>5, <1>7, <2>1
  <2>4. PICK j \in 1 .. Len(c) : Between(x, c[j].key)
    BY <1>4, <1>5, <2>3
  <2>5. y \in Int /\ Between(y, s)
    BY <1>3, <1>7, <2>2
  <2>6. j < from \/ j >= to
    <3>1. j \notin from .. to - 1
      BY <1>7, <2>3, <2>4
    <3> QED
      BY <1>2, <3>1
  <2>7. CASE j < from
    <3>1. PICK z \in Points : /\ z \in Int /\ HasLeft(s) /\ 2 * z < Lo(s)
                              /\ \A i \in 1 .. Len(c) : ~Between(z, c[i].key)
                              /\ HasRight(c[j].key) /\ Hi(c[j].key) =< 2 * z
      BY <2>7, GapsBeside DEF c
    <3>2. ~Between(z, s)
      BY <1>8, <3>1 DEF Between
    <3>3. z \notin S
      BY <1>4, <1>7, <3>1, <3>2
    <3>4. x =< z /\ z =< y
      <4>1. Hi(c[j].key) \in Int /\ 2 * x < Hi(c[j].key) /\ Lo(s) =< 2 * y
        BY <1>1, <2>4, <2>5, <3>1 DEF Between, CutsInOrder
      <4> QED
        BY <1>8, <2>3, <2>5, <3>1, <4>1
    <3>5. z \in x .. y
      BY <2>3, <2>5, <3>1, <3>4
    <3> QED
      BY <2>2, <3>3, <3>5 DEF NoGap
  <2>8. CASE j >= to
    <3>1. PICK z \in Points : /\ z \in Int /\ HasRight(s) /\ Hi(s) =< 2 * z
                              /\ \A i \in 1 .. Len(c) : ~Between(z, c[i].key)
                              /\ HasLeft(c[j].key) /\ 2 * z < Lo(c[j].key)
      BY <2>8, GapsBeside DEF c
    <3>2. ~Between(z, s)
      BY <1>8, <3>1 DEF Between
    <3>3. z \notin S
      BY <1>4, <1>7, <3>1, <3>2
    <3>4. y =< z /\ z =< x
      <4>1. Lo(c[j].key) \in Int /\ Lo(c[j].key) =< 2 * x /\ 2 * y < Hi(s)
        BY <1>1, <2>4, <2>5, <3>1 DEF Between, CutsInOrder
      <4> QED
        BY <1>8, <2>3, <2>5, <3>1, <4>1
    <3>5. z \in y .. x
      BY <2>3, <2>5, <3>1, <3>4
    <3> QED
      BY <2>2, <3>3, <3>5 DEF NoGap
  <2> QED
    BY <2>6, <2>7, <2>8
<1> QED
  BY <1>9, <1>10

\* absorb() unites the interval with all that is connected with it.
LEMMA AbsorbsRight == ASSUME InOrder(cont_) PROVE AbsorbUnites
<1>1. SUFFICES ASSUME NEW k \in Keys, NEW v \in Values, NEW loc \in Locate(k)
               PROVE  Unites(AbsorbImpl(k, v, loc), Reached(k), v)
  BY DEF AbsorbUnites
<1>2. k \in Proper /\ k \in Made
  BY KeysAreProper DEF Proper
<1> DEFINE l == LowerBound(cont_, k)
           u == UpperBound(cont_, k)
           d == AbsorbImpl(k, v, loc)
<1>3. LocatedAs(loc, k, l, u)
  BY <1>2, Locates
<1> HIDE DEF l, u
<1>4. /\ InOrder(d)
      /\ \E s, from, to : /\ JoinedAs(s, k, from, to) /\ Alone(s, from, to)
                          /\ Elements(d) = Others(cont_, from, to) \cup {Entry(s, v)}
  BY <1>2, <1>3, AbsorbGives DEF AbsorbImpl
<1> HIDE DEF d
<1>5. PICK s, from, to : /\ JoinedAs(s, k, from, to) /\ Alone(s, from, to)
                         /\ Elements(d) = Others(cont_, from, to) \cup {Entry(s, v)}
  BY <1>4
<1>6. Unites(d, PointsOf[s], v)
  BY <1>2, <1>4, <1>5, JoinUnites
<1>7. PointsOf[s] = Reached(k)
  BY <1>2, <1>5, JoinReaches
<1> QED
  BY <1>6, <1>7 DEF d

-----------------------------------------------------------------------------
(***************************************************************************)
(* merge_left, merge_right, absorb_left and absorb_right: one element in   *)
(* the place of "gap" more than one.                                       *)
(***************************************************************************)
OneFor(d, f, gap, e) ==
    /\ d \in Seq(Held) /\ Len(d) + gap = Len(cont_) /\ d[f] = e
    /\ \A j \in 1 .. Len(d) : (j < f => d[j] = cont_[j]) /\ (f < j => d[j] = cont_[j + gap])

\* An element with another key.
LEMMA SetKeyIs ==
    ASSUME NEW c \in Seq(Held), NEW i \in 1 .. Len(c), NEW s \in Proper
    PROVE  /\ SetKey(c, i, s) \in Seq(Held) /\ Len(SetKey(c, i, s)) = Len(c)
           /\ SetKey(c, i, s)[i] = Entry(s, c[i].val)
           /\ \A j \in 1 .. Len(c) : j # i => SetKey(c, i, s)[j] = c[j]
<1>1. /\ Len(c) \in Nat /\ DOMAIN c = 1 .. Len(c) /\ c \in [1 .. Len(c) -> Held]
      /\ \A j \in 1 .. Len(c) : c[j] \in Held
  BY ElementsAre
<1> DEFINE e == [c[i] EXCEPT !.key = s]
           n == Len(c)
           d == SetKey(c, i, s)
<1>2. e = Entry(s, c[i].val) /\ e \in Held
  BY <1>1 DEF Held, Entry
<1>3. d = [c EXCEPT ![i] = e]
  BY DEF SetKey
<1> HIDE DEF e, n, d
<1>4. /\ d \in [1 .. n -> Held] /\ d[i] = e
      /\ \A j \in 1 .. n : j # i => d[j] = c[j]
  BY <1>1, <1>2, <1>3 DEF n
<1>5. d \in Seq(Held) /\ Len(d) = n
  BY <1>1, <1>4 DEF n
<1> QED
  BY <1>2, <1>4, <1>5 DEF n, d

\* An element takes the place of those before it from f on.
LEMMA LeftJoined ==
    ASSUME InOrder(cont_), NEW i \in 1 .. Len(cont_), NEW f \in 1 .. i, NEW gap \in Nat, f + gap = i, NEW s \in Proper
    PROVE  OneFor(EraseIn(SetKey(cont_, i, s), f, i - 1), f, gap, Entry(s, cont_[i].val))
<1> DEFINE c == SetKey(cont_, i, s)
           d == EraseIn(SetKey(cont_, i, s), f, i - 1)
<1>1. cont_ \in Seq(Held) /\ Len(cont_) \in Nat
  BY ElementsAre DEF InOrder
<1>2. /\ c \in Seq(Held) /\ Len(c) = Len(cont_) /\ c[i] = Entry(s, cont_[i].val)
      /\ \A j \in 1 .. Len(cont_) : j # i => c[j] = cont_[j]
  BY <1>1, SetKeyIs
<1> HIDE DEF c
<1>3. d = SubSeq(c, 1, f - 1) \o SubSeq(c, i, Len(c))
  <2>1. (i - 1) + 1 = i
    BY <1>1
  <2> QED
    BY <2>1 DEF EraseIn, c
<1>4. f \in 1 .. Len(c) + 1 /\ f + gap =< Len(c) + 1
  BY <1>1, <1>2
<1> HIDE DEF d
<1>5. Gapped(d, c, f, gap)
  BY <1>2, <1>3, <1>4, ErasedIsGapped
<1>6. d \in Seq(Held) /\ Len(d) + gap = Len(c) /\ \A j \in 1 .. Len(d) : d[j] = c[IF j < f THEN j ELSE j + gap]
  BY <1>5 DEF Gapped
<1>7. Len(d) \in Nat
  BY <1>6, ElementsAre
<1>8. f \in 1 .. Len(d) /\ ~(f < f)
  BY <1>1, <1>2, <1>6, <1>7
<1>9. d[f] = Entry(s, cont_[i].val)
  BY <1>2, <1>6, <1>8
<1>10. ASSUME NEW j \in 1 .. Len(d) PROVE (j < f => d[j] = cont_[j]) /\ (f < j => d[j] = cont_[j + gap])
  <2>1. j < f => j \in 1 .. Len(cont_) /\ j # i
    BY <1>1, <1>8
  <2>2. f < j => j + gap \in 1 .. Len(cont_) /\ j + gap # i /\ ~(j < f)
    BY <1>1, <1>2, <1>6, <1>7
  <2> QED
    BY <1>2, <1>6, <2>1, <2>2
<1> QED
  BY <1>2, <1>6, <1>9, <1>10 DEF OneFor, d

\* An element takes the place of the "gap" behind it.
LEMMA RightJoined ==
    ASSUME InOrder(cont_), NEW i \in 1 .. Len(cont_), NEW t \in i .. Len(cont_), NEW gap \in Nat, i + gap = t, NEW s \in Proper
    PROVE  OneFor(EraseIn(SetKey(cont_, i, s), i + 1, t), i, gap, Entry(s, cont_[i].val))
<1> DEFINE c == SetKey(cont_, i, s)
           d == EraseIn(SetKey(cont_, i, s), i + 1, t)
           from == i + 1
           to == t + 1
<1>1. cont_ \in Seq(Held) /\ Len(cont_) \in Nat
  BY ElementsAre DEF InOrder
<1>2. /\ c \in Seq(Held) /\ Len(c) = Len(cont_) /\ c[i] = Entry(s, cont_[i].val)
      /\ \A j \in 1 .. Len(cont_) : j # i => c[j] = cont_[j]
  BY <1>1, SetKeyIs
<1> HIDE DEF c
<1>3. d = SubSeq(c, 1, from - 1) \o SubSeq(c, to, Len(c))
  BY DEF EraseIn, c
<1>4. from \in 1 .. Len(c) + 1 /\ from + gap =< Len(c) + 1 /\ to = from + gap
  BY <1>1, <1>2
<1>0. from = i + 1
  OBVIOUS
<1> HIDE DEF d, from, to
<1>5. Gapped(d, c, from, gap)
  BY <1>2, <1>3, <1>4, ErasedIsGapped
<1>6. d \in Seq(Held) /\ Len(d) + gap = Len(c) /\ \A j \in 1 .. Len(d) : d[j] = c[IF j < from THEN j ELSE j + gap]
  BY <1>5 DEF Gapped
<1>7. Len(d) \in Nat
  BY <1>6, ElementsAre
<1>8. i \in 1 .. Len(d) /\ i < from
  BY <1>0, <1>1, <1>2, <1>6, <1>7
<1>9. d[i] = Entry(s, cont_[i].val)
  BY <1>2, <1>6, <1>8
<1>10. ASSUME NEW j \in 1 .. Len(d) PROVE (j < i => d[j] = cont_[j]) /\ (i < j => d[j] = cont_[j + gap])
  <2>1. j < i => j \in 1 .. Len(cont_) /\ j # i /\ j < from
    BY <1>0, <1>1, <1>8
  <2>2. i < j => j + gap \in 1 .. Len(cont_) /\ j + gap # i /\ ~(j < from)
    BY <1>0, <1>1, <1>2, <1>6, <1>7
  <2> QED
    BY <1>2, <1>6, <2>1, <2>2
<1> QED
  BY <1>2, <1>6, <1>9, <1>10 DEF OneFor, d

\* If it fits there, the container stays in order.
LEMMA OneForHas ==
    ASSUME InOrder(cont_), NEW f \in 1 .. Len(cont_), NEW gap \in Nat, NEW to, to = f + gap + 1, to =< Len(cont_) + 1,
           NEW e \in Held, FitsBetween(f, to, e), NEW d, OneFor(d, f, gap, e)
    PROVE  InOrder(d) /\ Elements(d) = Others(cont_, f, to) \cup {e} /\ f \in 1 .. Len(d)
<1>1. Len(cont_) \in Nat /\ \A i, j \in 1 .. Len(cont_) : i < j => Less(cont_[i].key, cont_[j].key)
  BY ElementsAre DEF InOrder, Ordered
<1>2. /\ d \in Seq(Held) /\ Len(d) + gap = Len(cont_) /\ d[f] = e
      /\ \A j \in 1 .. Len(d) : (j < f => d[j] = cont_[j]) /\ (f < j => d[j] = cont_[j + gap])
  BY DEF OneFor
<1>3. Len(d) \in Nat
  BY <1>2, ElementsAre
<1>4. f \in 1 .. Len(d)
  BY <1>1, <1>2, <1>3
<1>5. \A j \in 1 .. Len(d) : /\ j < f \/ j = f \/ f < j
                             /\ j < f => j \in 1 .. Len(cont_)
                             /\ f < j => j + gap \in 1 .. Len(cont_) /\ j + gap >= to
  BY <1>1, <1>2, <1>3
<1>6. ASSUME NEW i \in 1 .. Len(d), NEW j \in 1 .. Len(d), i < j PROVE Less(d[i].key, d[j].key)
  <2>1. CASE j < f
    <3>1. i < f
      BY <1>4, <1>6, <2>1
    <3> QED
      BY <1>1, <1>2, <1>5, <1>6, <2>1, <3>1
  <2>2. CASE j = f
    BY <1>2, <1>5, <1>6, <2>2 DEF FitsBetween
  <2>3. CASE f < j /\ i = f
    BY <1>2, <1>5, <2>3 DEF FitsBetween
  <2>4. CASE f < j /\ i < f
    <3>1. i < j + gap
      BY <1>6
    <3> QED
      BY <1>1, <1>2, <1>5, <2>4, <3>1
  <2>5. CASE f < i
    <3>1. f < j /\ i + gap < j + gap
      BY <1>4, <1>6, <2>5
    <3> QED
      BY <1>1, <1>2, <1>5, <2>5, <3>1
  <2> QED
    BY <1>5, <2>1, <2>2, <2>3, <2>4, <2>5
<1>7. \A j \in 1 .. Len(d) : d[j] \in Others(cont_, f, to) \cup {e}
  <2>1. TAKE j \in 1 .. Len(d)
  <2>2. CASE j < f
    BY <1>2, <1>5, <2>2 DEF Others
  <2>3. CASE j = f
    BY <1>2, <2>3
  <2>4. CASE f < j
    BY <1>2, <1>5, <2>4 DEF Others
  <2> QED
    BY <1>5, <2>2, <2>3, <2>4
<1>8. \A n \in 1 .. Len(cont_) : n < f \/ n >= to => \E j \in 1 .. Len(d) : d[j] = cont_[n]
  <2>1. TAKE n \in 1 .. Len(cont_)
  <2>2. n < f => n \in 1 .. Len(d)
    BY <1>3, <1>4
  <2>3. n >= to => n - gap \in 1 .. Len(d) /\ f < n - gap /\ (n - gap) + gap = n
    BY <1>1, <1>2, <1>3
  <2> QED
    BY <1>2, <2>2, <2>3
<1>9. Elements(d) = Others(cont_, f, to) \cup {e}
  <2> DEFINE O == Others(cont_, f, to)
  <2>1. \A g : g \in O <=> \E n \in 1 .. Len(cont_) : (n < f \/ n >= to) /\ g = cont_[n]
    BY DEF Others
  <2>2. \A g : g \in Elements(d) <=> \E j \in 1 .. Len(d) : g = d[j]
    BY DEF Elements
  <2>3. \A j \in 1 .. Len(d) : d[j] \in O \cup {e}
    BY <1>7
  <2> HIDE DEF O
  <2>4. \A g \in Elements(d) : g \in O \cup {e}
    BY <2>2, <2>3
  <2>5. \A g \in O : g \in Elements(d)
    BY <1>8, <2>1, <2>2
  <2>6. e \in Elements(d)
    BY <1>2, <1>4, <2>2
  <2>7. Elements(d) = O \cup {e}
    BY <2>4, <2>5, <2>6
  <2> QED
    BY <2>7 DEF O
<1> QED
  BY <1>2, <1>4, <1>6, <1>9 DEF InOrder, Ordered

\* An element by itself is joined.
LEMMA JoinedAlone ==
    ASSUME InOrder(cont_), NEW i \in 1 .. Len(cont_)
    PROVE  JoinedAs(cont_[i].key, cont_[i].key, i, i + 1)
<1>1. /\ Len(cont_) \in Nat /\ cont_[i].key \in Proper
      /\ \A j, m \in 1 .. Len(cont_) : j < m => Less(cont_[j].key, cont_[m].key)
  BY ElementsAre DEF InOrder, Ordered
<1>2. i \in 1 .. Len(cont_) + 1 /\ i + 1 \in i .. Len(cont_) + 1 /\ i .. (i + 1) - 1 = {i}
  BY <1>1
<1>3. \A j \in 1 .. Len(cont_) : j >= i + 1 => i < j
  BY <1>1
<1> QED
  BY <1>1, <1>2, <1>3 DEF JoinedAs

\* What absorb_left makes of an element.
LEMMA LeftAbsorbs ==
    ASSUME InOrder(cont_), NEW i \in 1 .. Len(cont_)
    PROVE  LET f == FirstConnected(i)
               s == ReplaceLeft(Key(i), Key(f))
           IN  /\ f \in 1 .. i /\ JoinedAs(s, cont_[i].key, f, i + 1)
               /\ f > 1 => ~Touch(cont_[f - 1].key, s)
<1> DEFINE f == FirstConnected(i)
           k == cont_[i].key
           s == ReplaceLeft(Key(i), Key(f))
<1>1. Chained(f, i) /\ (f > 1 => ~Touch(cont_[f - 1].key, cont_[f].key))
  BY FirstConnectedIs
<1> HIDE DEF f
<1>2. /\ Len(cont_) \in Nat /\ k \in Proper /\ k \in Made
      /\ \A j \in 1 .. Len(cont_) : cont_[j].key \in Proper
  BY ElementsAre DEF InOrder
<1>3. JoinedAs(k, k, i, i + 1)
  BY JoinedAlone
<1>4. f \in 1 .. i /\ f \in 1 .. Len(cont_) /\ \A j \in f .. i - 1 : Touch(cont_[j].key, cont_[j + 1].key)
  BY <1>2, <1>1 DEF Chained
<1>5. s = ReplaceLeft(k, cont_[f].key)
  BY DEF Key
<1> HIDE DEF s
<1>6. CASE f = i
  <2>1. s = k
    <3>1. k = Interval(k.left, k.right, k.lattr, k.rattr)
      BY <1>2, MadeIs
    <3> QED
      BY <1>5, <1>6, <3>1 DEF ReplaceLeft
  <2>2. f > 1 => ~Touch(cont_[f - 1].key, s)
    BY <1>1, <1>6, <2>1
  <2> QED
    BY <1>3, <1>4, <1>6, <2>1, <2>2 DEF f, s
<1>7. CASE f # i
  <2>1. i > 1 /\ f \in 1 .. i - 1 /\ i - 1 \in f .. i - 1 /\ (i - 1) + 1 = i
    BY <1>2, <1>4, <1>7
  <2>2. Touch(cont_[i - 1].key, k)
    BY <1>4, <2>1
  <2>3. Chained(f, i - 1)
    <3>1. i - 1 \in f .. Len(cont_) /\ \A j \in f .. (i - 1) - 1 : j \in f .. i - 1
      BY <1>2, <1>4, <2>1
    <3> QED
      BY <1>4, <3>1 DEF Chained
  <2> HIDE DEF k
  <2>4. /\ JoinedAs(s, k, f, i + 1)
        /\ HasLeft(s) <=> HasLeft(cont_[f].key)
        /\ Lo(s) = Lo(cont_[f].key)
    BY <1>2, <1>3, <1>5, <2>1, <2>2, <2>3, JoinLeft
  <2>5. f > 1 => ~Touch(cont_[f - 1].key, s)
    BY <1>1, <2>4 DEF Touch
  <2> QED
    BY <1>4, <2>4, <2>5 DEF f, s, k
<1> QED
  BY <1>6, <1>7

\* What absorb_right makes of an element.
LEMMA RightAbsorbs ==
    ASSUME InOrder(cont_), NEW i \in 1 .. Len(cont_)
    PROVE  LET t == LastConnected(i)
               s == ReplaceRight(Key(i), Key(t))
           IN  /\ t \in i .. Len(cont_) /\ JoinedAs(s, cont_[i].key, i, t + 1)
               /\ t < Len(cont_) => ~Touch(s, cont_[t + 1].key)
<1> DEFINE t == LastConnected(i)
           k == cont_[i].key
           s == ReplaceRight(Key(i), Key(t))
<1>1. Chained(i, t) /\ (t < Len(cont_) => ~Touch(cont_[t].key, cont_[t + 1].key))
  BY LastConnectedIs
<1> HIDE DEF t
<1>2. /\ Len(cont_) \in Nat /\ k \in Proper /\ k \in Made
      /\ \A j \in 1 .. Len(cont_) : cont_[j].key \in Proper
  BY ElementsAre DEF InOrder
<1>3. JoinedAs(k, k, i, i + 1)
  BY JoinedAlone
<1>4. t \in i .. Len(cont_) /\ t \in 1 .. Len(cont_) /\ \A j \in i .. t - 1 : Touch(cont_[j].key, cont_[j + 1].key)
  BY <1>2, <1>1 DEF Chained
<1>5. s = ReplaceRight(k, cont_[t].key)
  BY DEF Key
<1> HIDE DEF s
<1>6. CASE t = i
  <2>1. s = k
    <3>1. k = Interval(k.left, k.right, k.lattr, k.rattr)
      BY <1>2, MadeIs
    <3> QED
      BY <1>5, <1>6, <3>1 DEF ReplaceRight
  <2>2. t < Len(cont_) => ~Touch(s, cont_[t + 1].key)
    BY <1>1, <1>6, <2>1
  <2> QED
    BY <1>3, <1>4, <1>6, <2>1, <2>2 DEF t, s
<1>7. CASE t # i
  <2>1. i \in i .. t - 1 /\ i + 1 \in i .. t /\ i + 1 =< Len(cont_)
    BY <1>2, <1>4, <1>7
  <2>2. Touch(k, cont_[i + 1].key)
    BY <1>4, <2>1
  <2>3. Chained(i + 1, t)
    BY <1>1, <2>1, PartChained
  <2> HIDE DEF k
  <2>4. /\ JoinedAs(s, k, i, t + 1)
        /\ HasRight(s) <=> HasRight(cont_[t].key)
        /\ Hi(s) = Hi(cont_[t].key)
    BY <1>2, <1>3, <1>5, <2>1, <2>2, <2>3, JoinRight
  <2>5. t < Len(cont_) => ~Touch(s, cont_[t + 1].key)
    BY <1>1, <2>4 DEF Touch
  <2> QED
    BY <1>4, <2>4, <2>5 DEF t, s, k
<1> QED
  BY <1>6, <1>7

\* A container with the joined interval covers the same points.
LEMMA JoinCovers ==
    ASSUME InOrder(cont_), NEW i \in 1 .. Len(cont_), NEW s, NEW f, NEW to, JoinedAs(s, cont_[i].key, f, to),
           i \in f .. to - 1, NEW v, NEW d, InOrder(d), Elements(d) = Others(cont_, f, to) \cup {Entry(s, v)}
    PROVE  PointsIn(d) = PointsIn(cont_)
<1> DEFINE c == cont_
           k == cont_[i].key
           O == Others(cont_, f, to)
<1>1. /\ CutsInOrder(c) /\ DOMAIN c = 1 .. Len(c) /\ DOMAIN d = 1 .. Len(d) /\ c \in Seq(Held)
  BY OrderedCuts, ElementsAre DEF InOrder
<1>2. /\ s \in Proper /\ f \in 1 .. Len(c) + 1 /\ to \in f .. Len(c) + 1
      /\ \A x \in Int : Between(x, s) <=> Between(x, k) \/ \E j \in f .. to - 1 : Between(x, c[j].key)
  BY DEF JoinedAs
<1>3. /\ \A x : x \in PointsOf[s] <=> x \in Points /\ x \in Int /\ Between(x, s)
      /\ \A j \in 1 .. Len(c) : \A x : x \in PointsOf[c[j].key] <=> x \in Points /\ x \in Int /\ Between(x, c[j].key)
  BY <1>1, <1>2, PointsAre DEF CutsInOrder
<1>4. \A x : x \in PointsOf[s] <=> \E j \in f .. to - 1 : x \in PointsOf[c[j].key]
  <2>1. TAKE x
  <2>2. \A j \in f .. to - 1 : j \in 1 .. Len(c)
    BY <1>1, <1>2 DEF CutsInOrder
  <2>3. x \in Int => (Between(x, s) <=> \E j \in f .. to - 1 : Between(x, c[j].key))
    BY <1>2
  <2> QED
    BY <1>3, <2>2, <2>3
<1>5. \A g : g \in Elements(c) <=> g \in O \/ \E j \in f .. to - 1 : g = c[j]
  BY <1>1, <1>2, AllElements
<1>6. /\ \A x : x \in PointsIn(c) <=> \E g \in Elements(c) : x \in PointsOf[g.key]
      /\ \A x : x \in PointsIn(d) <=> \E g \in Elements(d) : x \in PointsOf[g.key]
  BY <1>1 DEF PointsIn, Elements
<1>7. Entry(s, v).key = s
  BY DEF Entry
<1>8. \A g : g \in Elements(d) <=> g \in O \/ g = Entry(s, v)
  OBVIOUS
<1> HIDE DEF O, c
<1>9. \A x : x \in PointsIn(d) <=> x \in PointsIn(c)
  BY <1>4, <1>5, <1>6, <1>7, <1>8
<1>10. PointsIn(d) = PointsIn(c)
  BY <1>9 DEF PointsIn
<1> QED
  BY <1>10 DEF c

\* absorb_left and absorb_right: in order, with the same points, and nothing touches the
\* element on that side.
LEMMA LeftAbsorbed ==
    ASSUME InOrder(cont_), NEW i \in 1 .. Len(cont_)
    PROVE  /\ InOrder(AbsorbLeftImpl(i)) /\ PointsIn(AbsorbLeftImpl(i)) = PointsIn(cont_)
           /\ Disconnected(AbsorbLeftImpl(i), FirstConnected(i))
<1> DEFINE f == FirstConnected(i)
           s == ReplaceLeft(Key(i), Key(f))
           d == AbsorbLeftImpl(i)
           gap == i - f
           e == Entry(s, cont_[i].val)
<1>1. /\ f \in 1 .. i /\ JoinedAs(s, cont_[i].key, f, i + 1)
      /\ f > 1 => ~Touch(cont_[f - 1].key, s)
  BY LeftAbsorbs
<1>2. d = EraseIn(SetKey(cont_, i, s), f, i - 1)
  BY DEF AbsorbLeftImpl
<1> HIDE DEF f, s, d
<1>3. Len(cont_) \in Nat /\ \A j \in 1 .. Len(cont_) : cont_[j].key \in Proper /\ cont_[j].val \in Values
  BY ElementsAre DEF InOrder
<1>4. gap \in Nat /\ f + gap = i /\ f \in 1 .. Len(cont_) /\ i + 1 = f + gap + 1 /\ i + 1 =< Len(cont_) + 1 /\ i \in f .. (i + 1) - 1
  BY <1>1, <1>3
<1> HIDE DEF gap
<1>5. s \in Proper
  BY <1>1 DEF JoinedAs
<1>6. e.key = s /\ e \in Held
  BY <1>3, <1>5 DEF Entry, Held
<1>7. FitsBetween(f, i + 1, e)
  BY <1>1, <1>6 DEF FitsBetween, JoinedAs
<1> HIDE DEF e
<1>8. OneFor(d, f, gap, e)
  BY <1>1, <1>2, <1>4, <1>5, LeftJoined DEF e
<1>9. InOrder(d) /\ Elements(d) = Others(cont_, f, i + 1) \cup {e} /\ f \in 1 .. Len(d)
  BY <1>4, <1>6, <1>7, <1>8, OneForHas
<1>10. PointsIn(d) = PointsIn(cont_)
  BY <1>1, <1>4, <1>9, JoinCovers DEF e
<1>11. Disconnected(d, f)
  <2>1. SUFFICES ASSUME f > 1 PROVE ~LeftConnected(d[f].key, d[f - 1].key)
    BY <1>1 DEF Disconnected
  <2>2. Len(d) \in Nat
    BY <1>9, ElementsAre DEF InOrder
  <2>3. f - 1 \in 1 .. Len(d) /\ f - 1 < f /\ f - 1 \in 1 .. Len(cont_)
    BY <1>3, <1>4, <1>9, <2>1, <2>2
  <2>4. d[f].key = s /\ d[f - 1].key = cont_[f - 1].key /\ cont_[f - 1].key \in Proper
    BY <1>3, <1>6, <1>8, <2>3 DEF OneFor
  <2> QED
    BY <1>1, <1>5, <2>1, <2>4, ConnectedMeans
<1> QED
  BY <1>9, <1>10, <1>11 DEF d, f

\* The same on the right.
LEMMA RightAbsorbed ==
    ASSUME InOrder(cont_), NEW i \in 1 .. Len(cont_)
    PROVE  /\ InOrder(AbsorbRightImpl(i)) /\ PointsIn(AbsorbRightImpl(i)) = PointsIn(cont_)
           /\ i < Len(AbsorbRightImpl(i)) => Disconnected(AbsorbRightImpl(i), i + 1)
<1> DEFINE t == LastConnected(i)
           s == ReplaceRight(Key(i), Key(t))
           d == AbsorbRightImpl(i)
           gap == t - i
           e == Entry(s, cont_[i].val)
<1>1. /\ t \in i .. Len(cont_) /\ JoinedAs(s, cont_[i].key, i, t + 1)
      /\ t < Len(cont_) => ~Touch(s, cont_[t + 1].key)
  BY RightAbsorbs
<1>2. d = EraseIn(SetKey(cont_, i, s), i + 1, t)
  BY DEF AbsorbRightImpl
<1> HIDE DEF t, s, d
<1>3. Len(cont_) \in Nat /\ \A j \in 1 .. Len(cont_) : cont_[j].key \in Proper /\ cont_[j].val \in Values
  BY ElementsAre DEF InOrder
<1>4. gap \in Nat /\ i + gap = t /\ t + 1 = i + gap + 1 /\ t + 1 =< Len(cont_) + 1 /\ i \in i .. (t + 1) - 1
  BY <1>1, <1>3
<1> HIDE DEF gap
<1>5. s \in Proper
  BY <1>1 DEF JoinedAs
<1>6. e.key = s /\ e \in Held
  BY <1>3, <1>5 DEF Entry, Held
<1>7. FitsBetween(i, t + 1, e)
  BY <1>1, <1>6 DEF FitsBetween, JoinedAs
<1> HIDE DEF e
<1>8. OneFor(d, i, gap, e)
  BY <1>1, <1>2, <1>4, <1>5, RightJoined DEF e
<1>9. InOrder(d) /\ Elements(d) = Others(cont_, i, t + 1) \cup {e} /\ i \in 1 .. Len(d)
  BY <1>4, <1>6, <1>7, <1>8, OneForHas
<1>10. PointsIn(d) = PointsIn(cont_)
  BY <1>1, <1>4, <1>9, JoinCovers DEF e
<1>11. ASSUME i < Len(d) PROVE Disconnected(d, i + 1)
  <2>2. Len(d) \in Nat /\ Len(d) + gap = Len(cont_)
    BY <1>8, <1>9, ElementsAre DEF InOrder, OneFor
  <2>3. i + 1 \in 1 .. Len(d) /\ i < i + 1 /\ (i + 1) + gap = t + 1 /\ t + 1 \in 1 .. Len(cont_) /\ t < Len(cont_) /\ (i + 1) - 1 = i
    BY <1>3, <1>4, <1>9, <1>11, <2>2
  <2>4. d[i].key = s /\ d[i + 1] = cont_[(i + 1) + gap]
    BY <1>6, <1>8, <2>3 DEF OneFor
  <2>5. d[i + 1].key = cont_[t + 1].key /\ cont_[t + 1].key \in Proper
    BY <1>3, <2>3, <2>4
  <2>6. ~LeftConnected(d[i + 1].key, d[i].key)
    BY <1>1, <1>5, <2>3, <2>4, <2>5, ConnectedMeans
  <2> QED
    BY <2>3, <2>6 DEF Disconnected
<1> QED
  BY <1>9, <1>10, <1>11 DEF d

\* What JoinsExact says, of a container in order.
LEMMA JoinsRight == ASSUME InOrder(cont_) PROVE JoinsExact
<1>1. DOMAIN cont_ = 1 .. Len(cont_)
  BY ElementsAre DEF InOrder
<1>2. SidesUnite
  BY <1>1, LeftAbsorbed, RightAbsorbed DEF SidesUnite
<1> QED
  BY <1>2, MergesRight, AbsorbsRight DEF JoinsExact

-----------------------------------------------------------------------------
(***************************************************************************)
(* Every operation keeps the container in order.                           *)
(***************************************************************************)
LEMMA InitInOrder == Init => InOrder(cont_)
BY OneOrNone DEF Init

\* Whatever is cut, also an interval that is empty or lies at an infinite end.
LEMMA CutInOrder ==
    ASSUME InOrder(cont_), NEW k \in CutKeys, Cut(k)
    PROVE  InOrder(cont_')
<1>1. k \in Made
  BY KeysAssumption
<1>2. PICK loc \in Locate(k) : cont_' = CutImpl(k, loc)
  BY DEF Cut
<1> DEFINE l == LowerBound(cont_, k)
           u == UpperBound(cont_, k)
           first == FirstRest(loc, k)
           last == LastRest(loc, k)
           change == CutChange(k, loc)
<1>3. LocatedAs(loc, k, l, u)
  BY <1>1, Locates
<1> HIDE DEF l, u
<1>4. first \in Seq(Held) /\ last \in Seq(Held)
  BY <1>1, <1>3, RestsAre
<1>5. Opened(change, l, u) /\ change.new = first \o last
  BY <1>1, <1>3, Changes
<1> HIDE DEF first, last, change
<1>6. first \o last \in Seq(Held)
  BY <1>4, ConcatHas
<1>7. InOrder(Changed("std", change))
  BY <1>5, <1>6, ChangeInOrder
<1> QED
  BY <1>2, <1>7 DEF CutImpl, change

\* What insert, merge and absorb leave, over a std::map and over a sorted vector.
LEMMA PutsInOrder ==
    ASSUME InOrder(cont_), NEW k \in Keys, NEW v \in Values, NEW loc \in Locate(k)
    PROVE  /\ InOrder(InsertImpl(k, v, loc)) /\ InOrder(MergeImpl(k, v, loc)) /\ InOrder(AbsorbImpl(k, v, loc))
           /\ Changed("array", InsertChange(k, v, loc)) = InsertImpl(k, v, loc)
           /\ Changed("array", MergeChange(k, v, loc)) = MergeImpl(k, v, loc)
           /\ Changed("array", AbsorbChange(k, v, loc)) = AbsorbImpl(k, v, loc)
           /\ Changed("array", CutChange(k, loc)) = CutImpl(k, loc)
<1>1. k \in Proper /\ k \in Made
  BY KeysAreProper DEF Proper
<1> DEFINE l == LowerBound(cont_, k)
           u == UpperBound(cont_, k)
<1>2. LocatedAs(loc, k, l, u)
  BY <1>1, Locates
<1> HIDE DEF l, u
<1>3. InOrder(InsertImpl(k, v, loc)) /\ Changed("array", InsertChange(k, v, loc)) = InsertImpl(k, v, loc)
  BY <1>1, <1>2, InsertGives DEF InsertImpl
<1>4. InOrder(MergeImpl(k, v, loc)) /\ Changed("array", MergeChange(k, v, loc)) = MergeImpl(k, v, loc)
  BY <1>1, <1>2, MergeGives DEF MergeImpl
<1>5. InOrder(AbsorbImpl(k, v, loc)) /\ Changed("array", AbsorbChange(k, v, loc)) = AbsorbImpl(k, v, loc)
  BY <1>1, <1>2, AbsorbGives DEF AbsorbImpl
<1>6. Changed("array", CutChange(k, loc)) = CutImpl(k, loc)
  BY <1>1, <1>2, CutGives DEF CutImpl
<1> QED
  BY <1>3, <1>4, <1>5, <1>6

\* map::operator[] and an assignment.
LEMMA AssignInOrder ==
    ASSUME InOrder(cont_), NEW k \in Keys, NEW v \in Values, Assign(k, v)
    PROVE  InOrder(cont_')
<1> DEFINE i == FindKey(k)
<1>1. /\ cont_ \in Seq(Held) /\ Len(cont_) \in Nat /\ DOMAIN cont_ = 1 .. Len(cont_)
      /\ \A j \in 1 .. Len(cont_) : cont_[j] \in Held
      /\ \A j, n \in 1 .. Len(cont_) : j < n => Less(cont_[j].key, cont_[n].key)
  BY ElementsAre DEF InOrder, Ordered
<1>2. CASE Insert(k, v)
  BY <1>2, PutsInOrder DEF Insert
<1>3. CASE ~IsEnd(i) /\ cont_' = [cont_ EXCEPT ![i].val = v]
  <2>1. i \in 1 .. Len(cont_)
    <3>1. k \in Made
      BY KeysAssumption
    <3>2. LocatedAs(Located(k), k, LowerBound(cont_, k), UpperBound(cont_, k))
      BY <3>1, Locates DEF Locate
    <3>3. Located(k).left.itr \in 1 .. Len(cont_) + 1
      BY <3>2 DEF LocatedAs
    <3>4. i = Located(k).left.itr \/ i = End
      BY DEF FindKey
    <3> HIDE DEF i
    <3> QED
      BY <1>1, <1>3, <3>3, <3>4 DEF IsEnd, End
  <2> DEFINE e == [cont_[i] EXCEPT !.val = v]
             n == Len(cont_)
  <2>2. e \in Held /\ e.key = cont_[i].key
    BY <1>1, <2>1 DEF Held
  <2>3. cont_' = [cont_ EXCEPT ![i] = e]
    BY <1>3
  <2> HIDE DEF e, i, n
  <2>4. /\ cont_' \in [1 .. n -> Held]
        /\ \A j \in 1 .. n : cont_'[j].key = cont_[j].key
    BY <1>1, <2>1, <2>2, <2>3 DEF n
  <2>5. cont_' \in Seq(Held) /\ Len(cont_') = n
    BY <1>1, <2>4 DEF n
  <2> QED
    BY <1>1, <2>4, <2>5 DEF InOrder, Ordered, n
<1> QED
  BY <1>2, <1>3 DEF Assign

\* An element takes its neighbour's place with its own.
LEMMA MergeLeftInOrder ==
    ASSUME InOrder(cont_), NEW i \in 1 .. Len(cont_), MergeLeft(i)
    PROVE  InOrder(cont_')
<1> DEFINE f == i - 1
           s == ReplaceLeft(Key(i), Key(i - 1))
           e == Entry(s, cont_[i].val)
           d == MergeLeftImpl(i)
           one == 1
           to == i + 1
<1>1. CutsInOrder(cont_) /\ i > 1 /\ cont_' = d
  BY OrderedCuts DEF MergeLeft
<1>2. Len(cont_) \in Nat /\ f \in 1 .. Len(cont_) /\ f \in 1 .. i /\ f < i /\ f + one = i /\ one \in Nat
      /\ to = f + one + 1 /\ to =< Len(cont_) + 1
  BY <1>1 DEF CutsInOrder
<1>3. d = EraseIn(SetKey(cont_, i, s), f, i - 1)
  BY DEF MergeLeftImpl
<1>4. \A j \in 1 .. Len(cont_) : cont_[j].val \in Values
  BY ElementsAre DEF InOrder
<1>5. s = ReplaceLeft(cont_[i].key, cont_[f].key)
  BY DEF Key
<1>0. \A j \in 1 .. Len(cont_) : j >= to => i < j
  BY <1>2
<1> HIDE DEF f, s, d, one, to
<1>6. /\ cont_[i].key \in Proper /\ cont_[f].key \in Proper /\ HasRight(cont_[f].key) /\ HasLeft(cont_[i].key)
      /\ Hi(cont_[f].key) =< Lo(cont_[i].key)
      /\ Lo(cont_[f].key) \in Int /\ Hi(cont_[f].key) \in Int /\ Lo(cont_[i].key) \in Int /\ Hi(cont_[i].key) \in Int
      /\ HasLeft(cont_[f].key) => Lo(cont_[f].key) < Hi(cont_[f].key)
      /\ HasRight(cont_[i].key) => Lo(cont_[i].key) < Hi(cont_[i].key)
  BY <1>1, <1>2 DEF CutsInOrder
<1>7. /\ HasLeft(s) <=> HasLeft(cont_[f].key)
      /\ HasRight(s) <=> HasRight(cont_[i].key)
      /\ Lo(s) = Lo(cont_[f].key) /\ Hi(s) = Hi(cont_[i].key) /\ s \in Proper
  <2>1. HasLeft(cont_[f].key) /\ HasRight(cont_[i].key) => Lo(cont_[f].key) < Hi(cont_[i].key)
    BY <1>6
  <2> QED
    BY <1>5, <1>6, <2>1, ReplacedMeans
<1>8. e.key = s /\ e \in Held
  BY <1>4, <1>7 DEF Entry, Held
<1>9. FitsBetween(f, to, e)
  <2>1. ASSUME NEW j \in 1 .. Len(cont_), j < f PROVE Less(cont_[j].key, s)
    <3>1. cont_[j].key \in Proper /\ HasRight(cont_[j].key) /\ HasLeft(cont_[f].key) /\ Hi(cont_[j].key) =< Lo(cont_[f].key)
      BY <1>1, <1>2, <2>1 DEF CutsInOrder
    <3> QED
      BY <1>7, <3>1, LessMeans
  <2>2. ASSUME NEW j \in 1 .. Len(cont_), j >= to PROVE Less(s, cont_[j].key)
    <3>1. cont_[j].key \in Proper /\ HasRight(cont_[i].key) /\ HasLeft(cont_[j].key) /\ Hi(cont_[i].key) =< Lo(cont_[j].key)
      BY <1>0, <1>1, <2>2 DEF CutsInOrder
    <3> QED
      BY <1>7, <3>1, LessMeans
  <2> QED
    BY <1>8, <2>1, <2>2 DEF FitsBetween
<1>10. OneFor(d, f, one, e)
  BY <1>2, <1>3, <1>7, LeftJoined
<1> HIDE DEF e
<1>11. InOrder(d)
  BY <1>2, <1>8, <1>9, <1>10, OneForHas
<1> QED
  BY <1>1, <1>11

\* The same on the right.
LEMMA MergeRightInOrder ==
    ASSUME InOrder(cont_), NEW i \in 1 .. Len(cont_), MergeRight(i)
    PROVE  InOrder(cont_')
<1> DEFINE t == i + 1
           s == ReplaceRight(Key(i), Key(i + 1))
           e == Entry(s, cont_[i].val)
           d == MergeRightImpl(i)
           one == 1
           to == t + 1
<1>1. CutsInOrder(cont_) /\ i < Len(cont_) /\ cont_' = d
  BY OrderedCuts DEF MergeRight
<1>2. Len(cont_) \in Nat /\ t \in 1 .. Len(cont_) /\ t \in i .. Len(cont_) /\ i < t /\ i + one = t /\ one \in Nat
      /\ to = i + one + 1 /\ to =< Len(cont_) + 1
  BY <1>1 DEF CutsInOrder
<1>3. d = EraseIn(SetKey(cont_, i, s), i + 1, t)
  BY DEF MergeRightImpl
<1>4. \A j \in 1 .. Len(cont_) : cont_[j].val \in Values
  BY ElementsAre DEF InOrder
<1>5. s = ReplaceRight(cont_[i].key, cont_[t].key)
  BY DEF Key
<1>0. \A j \in 1 .. Len(cont_) : j >= to => t < j
  BY <1>2
<1> HIDE DEF t, s, d, one, to
<1>6. /\ cont_[i].key \in Proper /\ cont_[t].key \in Proper /\ HasRight(cont_[i].key) /\ HasLeft(cont_[t].key)
      /\ Hi(cont_[i].key) =< Lo(cont_[t].key)
      /\ Lo(cont_[t].key) \in Int /\ Hi(cont_[t].key) \in Int /\ Lo(cont_[i].key) \in Int /\ Hi(cont_[i].key) \in Int
      /\ HasRight(cont_[t].key) => Lo(cont_[t].key) < Hi(cont_[t].key)
      /\ HasLeft(cont_[i].key) => Lo(cont_[i].key) < Hi(cont_[i].key)
  BY <1>1, <1>2 DEF CutsInOrder
<1>7. /\ HasLeft(s) <=> HasLeft(cont_[i].key)
      /\ HasRight(s) <=> HasRight(cont_[t].key)
      /\ Lo(s) = Lo(cont_[i].key) /\ Hi(s) = Hi(cont_[t].key) /\ s \in Proper
  <2>1. HasLeft(cont_[i].key) /\ HasRight(cont_[t].key) => Lo(cont_[i].key) < Hi(cont_[t].key)
    BY <1>6
  <2> QED
    BY <1>5, <1>6, <2>1, ReplacedMeans
<1>8. e.key = s /\ e \in Held
  BY <1>4, <1>7 DEF Entry, Held
<1>9. FitsBetween(i, to, e)
  <2>1. ASSUME NEW j \in 1 .. Len(cont_), j < i PROVE Less(cont_[j].key, s)
    <3>1. cont_[j].key \in Proper /\ HasRight(cont_[j].key) /\ HasLeft(cont_[i].key) /\ Hi(cont_[j].key) =< Lo(cont_[i].key)
      BY <1>1, <2>1 DEF CutsInOrder
    <3> QED
      BY <1>7, <3>1, LessMeans
  <2>2. ASSUME NEW j \in 1 .. Len(cont_), j >= to PROVE Less(s, cont_[j].key)
    <3>1. cont_[j].key \in Proper /\ HasRight(cont_[t].key) /\ HasLeft(cont_[j].key) /\ Hi(cont_[t].key) =< Lo(cont_[j].key)
      BY <1>0, <1>1, <1>2, <2>2 DEF CutsInOrder
    <3> QED
      BY <1>7, <3>1, LessMeans
  <2> QED
    BY <1>8, <2>1, <2>2 DEF FitsBetween
<1>10. OneFor(d, i, one, e)
  BY <1>2, <1>3, <1>7, RightJoined
<1> HIDE DEF e
<1>11. InOrder(d)
  BY <1>2, <1>8, <1>9, <1>10, OneForHas
<1> QED
  BY <1>1, <1>11

\* One step.
LEMMA NextInOrder == InOrder(cont_) /\ [Next]_cont_ => InOrder(cont_')
<1>1. SUFFICES ASSUME InOrder(cont_), [Next]_cont_ PROVE InOrder(cont_')
  OBVIOUS
<1>2. DOMAIN cont_ = 1 .. Len(cont_)
  BY <1>1, ElementsAre DEF InOrder
<1>3. ASSUME NEW k \in CutKeys, Cut(k) PROVE InOrder(cont_')
  BY <1>1, <1>3, CutInOrder
<1>4. ASSUME NEW k \in Keys, NEW v \in Values, Insert(k, v) \/ Merge(k, v) \/ Absorb(k, v) PROVE InOrder(cont_')
  BY <1>1, <1>4, PutsInOrder DEF Insert, Merge, Absorb
<1>5. ASSUME NEW k \in Keys, NEW v \in Values, Assign(k, v) PROVE InOrder(cont_')
  BY <1>1, <1>5, AssignInOrder
<1>6. ASSUME NEW i \in 1 .. Len(cont_), MergeLeft(i) \/ MergeRight(i) PROVE InOrder(cont_')
  BY <1>1, <1>6, MergeLeftInOrder, MergeRightInOrder
<1>7. ASSUME NEW i \in 1 .. Len(cont_), AbsorbLeft(i) \/ AbsorbRight(i) PROVE InOrder(cont_')
  BY <1>1, <1>7, LeftAbsorbed, RightAbsorbed DEF AbsorbLeft, AbsorbRight
<1>8. CASE UNCHANGED cont_
  BY <1>1, <1>8
<1> QED
  BY <1>1, <1>2, <1>3, <1>4, <1>5, <1>6, <1>7, <1>8 DEF Next

\* The inductive invariant.
IInv == InOrder(cont_)

\* The container is always in order: its elements are intervals with points that do not
\* overlap, each one before the next.
THEOREM AlwaysInOrder == Spec => []IInv
<1>1. Init => IInv
  BY InitInOrder DEF IInv
<1>2. IInv /\ [Next]_cont_ => IInv'
  BY NextInOrder DEF IInv
<1> QED
  BY <1>1, <1>2, PTL DEF Spec

-----------------------------------------------------------------------------
(***************************************************************************)
(* What the runs check, of every container in order.                       *)
(***************************************************************************)
\* Every key divides the elements.
LEMMA InOrderForms == ASSUME InOrder(cont_) PROVE WellFormed
<1>1. /\ cont_ \in Seq(Held) /\ Len(cont_) \in Nat /\ DOMAIN cont_ = 1 .. Len(cont_)
      /\ \A i \in 1 .. Len(cont_) : cont_[i].key \in Proper /\ cont_[i].key \in Made
      /\ \A i, j \in 1 .. Len(cont_) : i < j => Less(cont_[i].key, cont_[j].key)
  BY ElementsAre DEF InOrder, Ordered
<1>2. TypeOK
  <2> DEFINE E == [key : Made, val : Values]
  <2>1. Held \subseteq E
    BY DEF Held, Proper
  <2> HIDE DEF E
  <2>2. \A i \in 1 .. Len(cont_) : cont_[i] \in E
    BY <1>1, <2>1, ElementsAre
  <2>3. cont_ \in [1 .. Len(cont_) -> E]
    <3>1. cont_ = [i \in 1 .. Len(cont_) |-> cont_[i]]
      BY <1>1
    <3> QED
      BY <2>2, <3>1
  <2>4. cont_ \in Seq(E)
    BY <1>1, <2>3
  <2> QED
    BY <2>4 DEF TypeOK, E
<1>3. ASSUME NEW i \in 1 .. Len(cont_), NEW j \in 1 .. Len(cont_), i < j
      PROVE  /\ Less(Key(i), Key(j)) /\ ~Less(Key(j), Key(i))
             /\ \A k \in Keys \cup CutKeys : /\ Less(Key(j), k) => Less(Key(i), k)
                                             /\ Less(k, Key(i)) => Less(k, Key(j))
  <2> DEFINE e == cont_[i].key
             f == cont_[j].key
  <2>1. Less(e, f) /\ e \in Proper /\ f \in Proper /\ f \in Made
    BY <1>1, <1>3
  <2>2. Key(i) = e /\ Key(j) = f
    BY DEF Key
  <2> HIDE DEF e, f
  <2>3. ~Less(f, e)
    BY <2>1, KeysDivide
  <2>4. ASSUME NEW k \in Keys \cup CutKeys
        PROVE  (Less(f, k) => Less(e, k)) /\ (Less(k, e) => Less(k, f))
    <3>1. k \in Made
      BY KeysAssumption
    <3> QED
      BY <2>1, <3>1, KeysDivide
  <2> QED
    BY <2>1, <2>2, <2>3, <2>4
<1> QED
  BY <1>1, <1>2, <1>3 DEF WellFormed

\* Over a sorted vector the same.
LEMMA ArraysRight == ASSUME InOrder(cont_) PROVE ArraysAgree
<1>1. SUFFICES ASSUME NEW k \in Keys, NEW v \in Values, NEW loc \in Locate(k),
                      NEW change \in {CutChange(k, loc), InsertChange(k, v, loc),
                                      MergeChange(k, v, loc), AbsorbChange(k, v, loc)}
               PROVE  Changed("array", change) = Changed("std", change)
  BY DEF ArraysAgree
<1>2. /\ Changed("array", InsertChange(k, v, loc)) = Changed("std", InsertChange(k, v, loc))
      /\ Changed("array", MergeChange(k, v, loc)) = Changed("std", MergeChange(k, v, loc))
      /\ Changed("array", AbsorbChange(k, v, loc)) = Changed("std", AbsorbChange(k, v, loc))
      /\ Changed("array", CutChange(k, loc)) = Changed("std", CutChange(k, loc))
  BY PutsInOrder DEF InsertImpl, MergeImpl, AbsorbImpl, CutImpl
<1> QED
  BY <1>2

\* The key that find() of a value looks for.
PointKey(x) == Interval(x, x, "CLOSE", "CLOSE")

\* The interval of one value divides the elements too, whatever the value.
LEMMA PointDivides ==
    ASSUME NEW x \in Int
    PROVE  /\ Divides(PointKey(x))
           /\ \A e \in Proper : /\ Less(e, PointKey(x)) <=> HasRight(e) /\ Hi(e) =< 2 * x
                                /\ Less(PointKey(x), e) <=> HasLeft(e) /\ 2 * x < Lo(e)
<1> DEFINE k == PointKey(x)
<1>1. k.left = x /\ k.right = x /\ k.lattr = "CLOSE" /\ k.rattr = "CLOSE"
  BY DEF PointKey, Interval
<1> HIDE DEF k
<1>2. ASSUME NEW e \in Proper
      PROVE  /\ Less(e, k) <=> HasRight(e) /\ Hi(e) =< 2 * x
             /\ Less(k, e) <=> HasLeft(e) /\ 2 * x < Lo(e)
             /\ Lo(e) \in Int /\ Hi(e) \in Int /\ (HasLeft(e) /\ HasRight(e) => Lo(e) < Hi(e))
  <2>1. /\ e.left \in Int /\ e.right \in Int /\ ~Empty(e)
        /\ e.lattr \in Finite \cup {"MIN_INF"} /\ e.rattr \in Finite \cup {"MAX_INF"}
        /\ Lo(e) \in Int /\ Hi(e) \in Int /\ (HasLeft(e) /\ HasRight(e) => Lo(e) < Hi(e))
    BY ProperMeans, MadeIs DEF Proper
  <2>2. ~Empty(k)
    BY <1>1 DEF Empty, HasOpen
  <2>3. Less(e, k) <=> HasRight(e) /\ LessFinite(e, k)
    BY <1>1, <2>1 DEF Less, HasRight, Finite, Infinite
  <2>4. Less(k, e) <=> HasLeft(e) /\ LessFinite(k, e)
    BY <1>1, <2>1 DEF Less, HasLeft, Finite, Infinite
  <2>5. LessFinite(e, k) <=> IF e.rattr = "OPEN" THEN e.right =< x ELSE e.right < x
    BY <1>1, <2>1, <2>2 DEF LessFinite, EqualEmpty
  <2>6. LessFinite(k, e) <=> IF e.lattr = "OPEN" THEN x =< e.left ELSE x < e.left
    BY <1>1, <2>1, <2>2 DEF LessFinite, EqualEmpty
  <2>7. HasRight(e) => (LessFinite(e, k) <=> Hi(e) =< 2 * x)
    BY <2>1, <2>5 DEF Hi, HasRight, Finite
  <2>8. HasLeft(e) => (LessFinite(k, e) <=> 2 * x < Lo(e))
    BY <2>1, <2>6 DEF Lo, HasLeft, Finite
  <2> QED
    BY <2>1, <2>3, <2>4, <2>7, <2>8
<1>3. ASSUME NEW e \in Proper, NEW f \in Proper
      PROVE  /\ ~(Less(e, k) /\ Less(k, e))
             /\ Less(e, f) => (Less(f, k) => Less(e, k)) /\ (Less(k, e) => Less(k, f))
  <2>1. Less(e, f) <=> HasRight(e) /\ HasLeft(f) /\ Hi(e) =< Lo(f)
    BY LessMeans
  <2> QED
    BY <1>2, <2>1
<1> QED
  BY <1>2, <1>3 DEF Divides, k

\* find() and find_intersection() are exact.
LEMMA LooksUpRight == ASSUME InOrder(cont_) PROVE LookupsExact
<1> DEFINE c == cont_
<1>1. CutsInOrder(c) /\ DOMAIN c = 1 .. Len(c)
  BY OrderedCuts, ElementsAre DEF InOrder
<1>2. Len(c) \in Nat /\ \A i \in 1 .. Len(c) : c[i].key \in Proper
  BY <1>1 DEF CutsInOrder
<1>3. ASSUME NEW x \in Points, NEW i \in DOMAIN cont_ \cup {End}
      PROVE  FindPoint(x) = i <=> IF IsEnd(i) THEN x \notin PointsIn(cont_) ELSE x \in PointsOf[Key(i)]
  <2> DEFINE k == PointKey(x)
             l == LowerBound(c, k)
             p == FindPoint(x)
  <2>1. x \in Int
    BY DomainAssumption
  <2>2. LocatedAs(Located(k), k, l, UpperBound(c, k))
    BY <2>1, PointDivides, LocatedIs
  <2>3. p = IF ~IsEnd(l) /\ Contains(Key(l), x) THEN l ELSE End
    <3>1. Located(k).left.itr = l
      BY <2>2 DEF LocatedAs
    <3>2. p = LET n == Located(k).left.itr IN IF ~IsEnd(n) /\ Contains(Key(n), x) THEN n ELSE End
      BY DEF FindPoint, PointKey
    <3> HIDE DEF p, l, k
    <3> QED
      BY <3>1, <3>2
  <2>4. /\ l \in 1 .. Len(c) + 1 /\ \A n \in 1 .. Len(c) : Less(c[n].key, k) <=> n < l
    BY <2>2 DEF LocatedAs
  <2>5. \A e \in Proper : Less(e, k) <=> HasRight(e) /\ Hi(e) =< 2 * x
    BY <2>1, PointDivides
  <2> HIDE DEF k, l, p, c
  <2>6. \A n \in 1 .. Len(c) : /\ x \in PointsOf[c[n].key] <=> Contains(c[n].key, x)
                               /\ x \in PointsOf[c[n].key] <=> Between(x, c[n].key)
    BY <1>2, <2>1, PointsBetween DEF Between
  <2>7. ASSUME NEW n \in 1 .. Len(c), x \in PointsOf[c[n].key] PROVE n = l
    <3>1. Between(x, c[n].key) /\ Lo(c[n].key) \in Int /\ Hi(c[n].key) \in Int
      BY <1>1, <2>6, <2>7 DEF CutsInOrder
    <3>2. ~Less(c[n].key, k)
      BY <1>2, <2>1, <2>5, <3>1 DEF Between
    <3>3. l =< n /\ l \in 1 .. Len(c)
      BY <1>2, <2>4, <3>2
    <3>4. ~(l < n)
      <4>1. SUFFICES ASSUME l < n PROVE FALSE
        OBVIOUS
      <4>2. HasRight(c[l].key) /\ HasLeft(c[n].key) /\ Hi(c[l].key) =< Lo(c[n].key) /\ Hi(c[l].key) \in Int
        BY <1>1, <3>3, <4>1 DEF CutsInOrder
      <4>3. Hi(c[l].key) =< 2 * x
        BY <2>1, <3>1, <4>2 DEF Between
      <4>4. Less(c[l].key, k)
        BY <1>2, <2>5, <3>3, <4>2, <4>3
      <4>5. ~(l < l)
        BY <2>4
      <4> QED
        BY <2>4, <3>3, <4>4, <4>5
    <3> QED
      BY <2>4, <3>3, <3>4
  <2>8. ASSUME NEW n \in 1 .. Len(c) PROVE p = n <=> x \in PointsOf[c[n].key]
    <3>1. n # End /\ ~IsEnd(n)
      BY <1>2 DEF End, IsEnd, c
    <3>2. ASSUME x \in PointsOf[c[n].key] PROVE p = n
      BY <2>3, <2>6, <2>7, <3>1, <3>2 DEF Key, c
    <3>3. ASSUME p = n PROVE x \in PointsOf[c[n].key]
      <4>1. l = n /\ Contains(Key(l), x)
        BY <2>3, <3>1, <3>3
      <4> QED
        BY <2>6, <4>1 DEF Key, c
    <3> QED
      BY <3>2, <3>3
  <2>9. x \in PointsIn(c) <=> \E n \in 1 .. Len(c) : x \in PointsOf[c[n].key]
    BY <1>1 DEF PointsIn
  <2>10. \A n \in 1 .. Len(c) : n # End
    BY <1>2 DEF End, c
  <2>11. p \in 1 .. Len(c) \/ p = End
    BY <1>2, <2>3, <2>4 DEF IsEnd, End, c
  <2>12. CASE i = End
    <3>1. p = End <=> x \notin PointsIn(c)
      BY <2>8, <2>9, <2>10, <2>11
    <3> QED
      BY <2>12, <3>1 DEF IsEnd, p, c
  <2>13. CASE i \in 1 .. Len(c)
    <3>1. ~IsEnd(i) /\ Key(i) = c[i].key
      BY <2>10, <2>13 DEF IsEnd, Key, c
    <3> QED
      BY <2>8, <2>13, <3>1 DEF p
  <2> QED
    BY <1>1, <2>12, <2>13 DEF c
<1>4. ASSUME NEW k \in Keys PROVE FindIntersection(k) = {i \in DOMAIN cont_ : Meets(cont_[i], k)}
  <2> DEFINE l == LowerBound(cont_, k)
             u == UpperBound(cont_, k)
  <2>1. k \in Proper /\ k \in Made
    BY KeysAreProper DEF Proper
  <2>2. LocatedAs(Located(k), k, l, u)
    BY <2>1, Locates DEF Locate
  <2> HIDE DEF l, u
  <2>3. FindIntersection(k) = {i \in DOMAIN cont_ : l =< i /\ i < u}
    <3>1. Located(k).left.itr = l /\ Past(Located(k).right) = u
      BY <2>2 DEF LocatedAs
    <3> QED
      BY <3>1 DEF FindIntersection
  <2>4. \A i \in DOMAIN cont_ : Meets(cont_[i], k) <=> l =< i /\ i < u
    <3>1. TAKE i \in DOMAIN cont_
    <3>2. i \in 1 .. Len(cont_) /\ cont_[i].key \in Proper /\ l \in Int /\ u \in Int
      BY <1>1, <1>2, <2>2 DEF LocatedAs
    <3>3. Meets(cont_[i], k) <=> Overlap(cont_[i].key, k)
      BY <2>1, <3>2, CommonPoint DEF Meets
    <3>4. Overlap(cont_[i].key, k) <=> ~(i < l) /\ ~(i >= u)
      BY <2>2, <3>2 DEF LocatedAs, Overlap
    <3> QED
      BY <3>2, <3>3, <3>4
  <2> QED
    BY <2>3, <2>4
<1> QED
  BY <1>3, <1>4 DEF LookupsExact

-----------------------------------------------------------------------------
(***************************************************************************)
(* The orders of interval.h.                                               *)
(***************************************************************************)
\* The left endpoints are ordered by their attributes and, if finite, by their cuts;
\* the right ones in the same way.
LeftAlike(k, l) == EqualSide(k.lattr, k.left, l.lattr, l.left)
RightAlike(k, l) == EqualSide(k.rattr, k.right, l.rattr, l.right)
LeftFactor(k) == Factor(k.lattr)
RightFactor(k) == Factor(k.rattr)
Finites == 6

\* The factors of the attributes.
LEMMA FactorsAre ==
    ASSUME NEW a \in Attributes
    PROVE  /\ Factor(a) \in Int /\ (a \in Finite <=> Factor(a) = Finites)
           /\ \A b \in Attributes : a \notin Finite \/ b \notin Finite => (Factor(a) = Factor(b) <=> a = b)
<1>1. /\ a \in Finite => Factor(a) = 6
      /\ a = "MIN_INF" => Factor(a) = 1
      /\ a = "MAX_INF" => Factor(a) = 8
  BY DEF Factor, Finite
<1>2. ASSUME NEW b \in Attributes, a \notin Finite \/ b \notin Finite PROVE Factor(a) = Factor(b) <=> a = b
  <2>1. /\ b \in Finite => Factor(b) = 6
        /\ b = "MIN_INF" => Factor(b) = 1
        /\ b = "MAX_INF" => Factor(b) = 8
    BY DEF Factor, Finite
  <2>2. a \in Finite \cup {"MIN_INF", "MAX_INF"} /\ b \in Finite \cup {"MIN_INF", "MAX_INF"}
    BY DEF Attributes, Finite
  <2> QED
    BY <1>1, <1>2, <2>1, <2>2 DEF Finite
<1>3. a \in Finite \cup {"MIN_INF", "MAX_INF"}
  BY DEF Attributes, Finite
<1> QED
  BY <1>1, <1>2, <1>3 DEF Finites, Finite

\* The comparisons of endpoints in these terms.
LEMMA SidesCompare ==
    ASSUME NEW k \in Made, NEW l \in Made
    PROVE  /\ Lo(k) \in Int /\ Hi(k) \in Int /\ LeftFactor(k) \in Int /\ RightFactor(k) \in Int
           /\ HasLeft(k) <=> LeftFactor(k) = Finites
           /\ HasRight(k) <=> RightFactor(k) = Finites
           /\ LeftAlike(k, l) <=> LeftFactor(k) = LeftFactor(l) /\ (HasLeft(k) => Lo(k) = Lo(l))
           /\ RightAlike(k, l) <=> RightFactor(k) = RightFactor(l) /\ (HasRight(k) => Hi(k) = Hi(l))
           /\ LessLeft(k, l) <=> \/ LeftFactor(k) < LeftFactor(l)
                                 \/ HasLeft(k) /\ HasLeft(l) /\ Lo(k) < Lo(l)
           /\ LessRight(k, l) <=> \/ RightFactor(k) < RightFactor(l)
                                  \/ HasRight(k) /\ HasRight(l) /\ Hi(k) < Hi(l)
<1>1. /\ k.left \in Int /\ k.right \in Int /\ l.left \in Int /\ l.right \in Int
      /\ k.lattr \in Attributes /\ k.rattr \in Attributes /\ l.lattr \in Attributes /\ l.rattr \in Attributes
      /\ Lo(k) \in Int /\ Hi(k) \in Int
  BY MadeIs
<1>2. /\ LeftFactor(k) \in Int /\ LeftFactor(l) \in Int /\ RightFactor(k) \in Int /\ RightFactor(l) \in Int
      /\ HasLeft(k) <=> LeftFactor(k) = Finites
      /\ HasLeft(l) <=> LeftFactor(l) = Finites
      /\ HasRight(k) <=> RightFactor(k) = Finites
      /\ HasRight(l) <=> RightFactor(l) = Finites
      /\ ~HasLeft(k) \/ ~HasLeft(l) => (LeftFactor(k) = LeftFactor(l) <=> k.lattr = l.lattr)
      /\ ~HasRight(k) \/ ~HasRight(l) => (RightFactor(k) = RightFactor(l) <=> k.rattr = l.rattr)
  BY <1>1, FactorsAre DEF LeftFactor, RightFactor, HasLeft, HasRight
<1>3. ASSUME HasLeft(k) /\ HasLeft(l)
      PROVE  /\ LeftAlike(k, l) <=> LeftFactor(k) = LeftFactor(l) /\ (HasLeft(k) => Lo(k) = Lo(l))
             /\ LessLeft(k, l) <=> \/ LeftFactor(k) < LeftFactor(l)
                                   \/ HasLeft(k) /\ HasLeft(l) /\ Lo(k) < Lo(l)
  <2>1. LeftAlike(k, l) <=> k.lattr = l.lattr /\ k.left = l.left
    BY <1>3 DEF LeftAlike, EqualSide, HasLeft
  <2>2. LessLeft(k, l) <=> k.left < l.left \/ (k.left = l.left /\ k.lattr = "CLOSE" /\ l.lattr = "OPEN")
    BY <1>3 DEF LessLeft, HasLeft
  <2>3. k.lattr \in {"CLOSE", "OPEN"} /\ l.lattr \in {"CLOSE", "OPEN"}
    BY <1>3 DEF HasLeft, Finite
  <2>4. /\ LeftAlike(k, l) <=> Lo(k) = Lo(l)
        /\ LessLeft(k, l) <=> Lo(k) < Lo(l)
    BY <1>1, <2>1, <2>2, <2>3 DEF Lo
  <2>5. LeftFactor(k) = LeftFactor(l) /\ ~(LeftFactor(k) < LeftFactor(l))
    BY <1>2, <1>3
  <2>6. /\ LeftAlike(k, l) <=> LeftFactor(k) = LeftFactor(l) /\ (HasLeft(k) => Lo(k) = Lo(l))
        /\ LessLeft(k, l) <=> \/ LeftFactor(k) < LeftFactor(l)
                              \/ HasLeft(k) /\ HasLeft(l) /\ Lo(k) < Lo(l)
    BY <1>3, <2>4, <2>5
  <2> QED
    BY <2>6
<1>4. ASSUME ~(HasLeft(k) /\ HasLeft(l))
      PROVE  /\ LeftAlike(k, l) <=> LeftFactor(k) = LeftFactor(l) /\ (HasLeft(k) => Lo(k) = Lo(l))
             /\ LessLeft(k, l) <=> \/ LeftFactor(k) < LeftFactor(l)
                                   \/ HasLeft(k) /\ HasLeft(l) /\ Lo(k) < Lo(l)
  <2>1. LeftAlike(k, l) <=> k.lattr = l.lattr
    BY <1>4 DEF LeftAlike, EqualSide, HasLeft
  <2>2. LessLeft(k, l) <=> LeftFactor(k) < LeftFactor(l)
    BY <1>4 DEF LessLeft, LeftFactor, HasLeft
  <2>3. LeftAlike(k, l) <=> LeftFactor(k) = LeftFactor(l)
    BY <1>2, <1>4, <2>1
  <2>4. LeftFactor(k) = LeftFactor(l) => ~HasLeft(k)
    BY <1>2, <1>4
  <2> QED
    BY <1>4, <2>2, <2>3, <2>4
<1>5. ASSUME HasRight(k) /\ HasRight(l)
      PROVE  /\ RightAlike(k, l) <=> RightFactor(k) = RightFactor(l) /\ (HasRight(k) => Hi(k) = Hi(l))
             /\ LessRight(k, l) <=> \/ RightFactor(k) < RightFactor(l)
                                    \/ HasRight(k) /\ HasRight(l) /\ Hi(k) < Hi(l)
  <2>1. RightAlike(k, l) <=> k.rattr = l.rattr /\ k.right = l.right
    BY <1>5 DEF RightAlike, EqualSide, HasRight
  <2>2. LessRight(k, l) <=> k.right < l.right \/ (k.right = l.right /\ k.rattr = "OPEN" /\ l.rattr = "CLOSE")
    BY <1>5 DEF LessRight, HasRight
  <2>3. k.rattr \in {"CLOSE", "OPEN"} /\ l.rattr \in {"CLOSE", "OPEN"}
    BY <1>5 DEF HasRight, Finite
  <2>4. /\ RightAlike(k, l) <=> Hi(k) = Hi(l)
        /\ LessRight(k, l) <=> Hi(k) < Hi(l)
    BY <1>1, <2>1, <2>2, <2>3 DEF Hi
  <2>5. RightFactor(k) = RightFactor(l) /\ ~(RightFactor(k) < RightFactor(l))
    BY <1>2, <1>5
  <2>6. /\ RightAlike(k, l) <=> RightFactor(k) = RightFactor(l) /\ (HasRight(k) => Hi(k) = Hi(l))
        /\ LessRight(k, l) <=> \/ RightFactor(k) < RightFactor(l)
                               \/ HasRight(k) /\ HasRight(l) /\ Hi(k) < Hi(l)
    BY <1>5, <2>4, <2>5
  <2> QED
    BY <2>6
<1>6. ASSUME ~(HasRight(k) /\ HasRight(l))
      PROVE  /\ RightAlike(k, l) <=> RightFactor(k) = RightFactor(l) /\ (HasRight(k) => Hi(k) = Hi(l))
             /\ LessRight(k, l) <=> \/ RightFactor(k) < RightFactor(l)
                                    \/ HasRight(k) /\ HasRight(l) /\ Hi(k) < Hi(l)
  <2>1. RightAlike(k, l) <=> k.rattr = l.rattr
    BY <1>6 DEF RightAlike, EqualSide, HasRight
  <2>2. LessRight(k, l) <=> RightFactor(k) < RightFactor(l)
    BY <1>6 DEF LessRight, RightFactor, HasRight
  <2>3. RightAlike(k, l) <=> RightFactor(k) = RightFactor(l)
    BY <1>2, <1>6, <2>1
  <2>4. RightFactor(k) = RightFactor(l) => ~HasRight(k)
    BY <1>2, <1>6
  <2> QED
    BY <1>6, <2>2, <2>3, <2>4
<1> QED
  BY <1>1, <1>2, <1>3, <1>4, <1>5, <1>6

\* cmp orders the left endpoints and, of those alike, the right ones.
LEMMA CmpMeans ==
    ASSUME NEW k \in Made, NEW l \in Made
    PROVE  /\ CmpLess(k, l) <=> LessLeft(k, l) \/ (LeftAlike(k, l) /\ LessRight(k, l))
           /\ Equal(k, l) <=> LeftAlike(k, l) /\ RightAlike(k, l)
<1>1. CmpLess(k, l) <=> IF LeftAlike(k, l) THEN LessRight(k, l) ELSE LessLeft(k, l)
  BY DEF CmpLess, LeftAlike
<1>2. LeftAlike(k, l) => ~LessLeft(k, l)
  <2>1. SUFFICES ASSUME LeftAlike(k, l) PROVE ~LessLeft(k, l)
    OBVIOUS
  <2>2. LeftFactor(k) = LeftFactor(l) /\ (HasLeft(k) => Lo(k) = Lo(l))
    BY <2>1, SidesCompare
  <2>3. LessLeft(k, l) <=> LeftFactor(k) < LeftFactor(l) \/ (HasLeft(k) /\ HasLeft(l) /\ Lo(k) < Lo(l))
    BY SidesCompare
  <2>4. Lo(k) \in Int /\ LeftFactor(k) \in Int
    BY SidesCompare
  <2> QED
    BY <2>2, <2>3, <2>4
<1>3. Equal(k, l) <=> LeftAlike(k, l) /\ RightAlike(k, l)
  BY DEF Equal, LeftAlike, RightAlike
<1> QED
  BY <1>1, <1>2, <1>3

\* cmp is a total order that equal goes with.
LEMMA CmpOrders == CmpIsOrder
<1>1. ASSUME NEW k \in Made, NEW l \in Made, NEW m \in Made
      PROVE  /\ ~(CmpLess(k, l) /\ CmpLess(l, k))
             /\ Equal(k, l) <=> ~CmpLess(k, l) /\ ~CmpLess(l, k)
             /\ CmpLess(k, l) => (CmpLess(l, m) => CmpLess(k, m))
  <2>1. /\ Lo(k) \in Int /\ Hi(k) \in Int /\ LeftFactor(k) \in Int /\ RightFactor(k) \in Int
        /\ Lo(l) \in Int /\ Hi(l) \in Int /\ LeftFactor(l) \in Int /\ RightFactor(l) \in Int
        /\ Lo(m) \in Int /\ Hi(m) \in Int /\ LeftFactor(m) \in Int /\ RightFactor(m) \in Int
        /\ HasLeft(k) <=> LeftFactor(k) = Finites
        /\ HasLeft(l) <=> LeftFactor(l) = Finites
        /\ HasLeft(m) <=> LeftFactor(m) = Finites
        /\ HasRight(k) <=> RightFactor(k) = Finites
        /\ HasRight(l) <=> RightFactor(l) = Finites
        /\ HasRight(m) <=> RightFactor(m) = Finites
    BY SidesCompare
  <2> DEFINE A(x, y) == LeftFactor(x) = LeftFactor(y) /\ (HasLeft(x) => Lo(x) = Lo(y))
             B(x, y) == LeftFactor(x) < LeftFactor(y) \/ (HasLeft(x) /\ HasLeft(y) /\ Lo(x) < Lo(y))
             C(x, y) == RightFactor(x) = RightFactor(y) /\ (HasRight(x) => Hi(x) = Hi(y))
             D(x, y) == RightFactor(x) < RightFactor(y) \/ (HasRight(x) /\ HasRight(y) /\ Hi(x) < Hi(y))
             L(x, y) == B(x, y) \/ (A(x, y) /\ D(x, y))
  <2>2. \A x, y \in {k, l, m} : /\ CmpLess(x, y) <=> L(x, y)
                                /\ Equal(x, y) <=> A(x, y) /\ C(x, y)
    <3>1. TAKE x, y \in {k, l, m}
    <3>2. x \in Made /\ y \in Made
      OBVIOUS
    <3> QED
      BY <3>2, SidesCompare, CmpMeans
  <2>3. /\ ~(B(k, l) /\ B(l, k)) /\ ~(B(k, l) /\ A(k, l)) /\ ~(B(k, l) /\ A(l, k)) /\ (A(k, l) <=> A(l, k))
        /\ A(k, l) \/ B(k, l) \/ B(l, k)
        /\ ~(B(l, k) /\ A(k, l))
    BY <2>1
  <2>4. /\ ~(D(k, l) /\ D(l, k)) /\ ~(D(k, l) /\ C(k, l)) /\ ~(D(l, k) /\ C(k, l))
        /\ C(k, l) \/ D(k, l) \/ D(l, k)
    BY <2>1
  <2>5. /\ B(k, l) /\ B(l, m) => B(k, m)
        /\ A(k, l) /\ B(l, m) => B(k, m)
        /\ B(k, l) /\ A(l, m) => B(k, m)
        /\ A(k, l) /\ A(l, m) => A(k, m)
    BY <2>1
  <2>6. D(k, l) /\ D(l, m) => D(k, m)
    BY <2>1
  <2>7. /\ CmpLess(k, l) <=> L(k, l)
        /\ CmpLess(l, k) <=> L(l, k)
        /\ CmpLess(l, m) <=> L(l, m)
        /\ CmpLess(k, m) <=> L(k, m)
        /\ Equal(k, l) <=> A(k, l) /\ C(k, l)
    BY <2>2
  <2> HIDE DEF A, B, C, D
  <2> QED
    BY <2>3, <2>4, <2>5, <2>6, <2>7
<1> QED
  BY <1>1 DEF CmpIsOrder

\* One that lies before another is less.
LEMMA LessIsCmpLess ==
    ASSUME NEW k \in Proper, NEW l \in Proper, Less(k, l)
    PROVE  CmpLess(k, l)
<1>1. k \in Made /\ l \in Made
  BY DEF Proper
<1>2. HasLeft(l) /\ HasRight(k) /\ Hi(k) =< Lo(l) /\ Lo(k) \in Int /\ Hi(k) \in Int /\ Lo(l) \in Int
      /\ (HasLeft(k) => Lo(k) < Hi(k))
  BY LessMeans, ProperMeans
<1>3. LeftFactor(k) = 1 \/ HasLeft(k)
  <2>1. k.lattr \in Finite \cup {"MIN_INF"}
    BY ProperMeans
  <2> QED
    BY <2>1 DEF LeftFactor, Factor, HasLeft, Finite
<1>4. LeftFactor(l) = 6
  BY <1>1, <1>2, SidesCompare DEF Finites
<1>5. LessLeft(k, l) <=> LeftFactor(k) < LeftFactor(l) \/ (HasLeft(k) /\ HasLeft(l) /\ Lo(k) < Lo(l))
  BY <1>1, SidesCompare
<1>6. LessLeft(k, l)
  BY <1>2, <1>3, <1>4, <1>5
<1> QED
  BY <1>1, <1>6, CmpMeans

\* Equal intervals are the same one: infinite ends have the default value.
LEMMA AlikeIsSame ==
    ASSUME NEW k \in Made, NEW l \in Made, LeftAlike(k, l), RightAlike(k, l)
    PROVE  k = l
<1>1. /\ k.lattr \in Attributes /\ k.rattr \in Attributes
      /\ k = Interval(k.left, k.right, k.lattr, k.rattr)
      /\ l = Interval(l.left, l.right, l.lattr, l.rattr)
      /\ k.lattr \in Infinite => k.left = Default
      /\ k.rattr \in Infinite => k.right = Default
      /\ l.lattr \in Infinite => l.left = Default
      /\ l.rattr \in Infinite => l.right = Default
  BY MadeIs
<1>2. k.lattr = l.lattr /\ (k.lattr \in Finite => k.left = l.left)
  BY DEF LeftAlike, EqualSide
<1>3. k.rattr = l.rattr /\ (k.rattr \in Finite => k.right = l.right)
  BY DEF RightAlike, EqualSide
<1>4. \A a \in Attributes : a \in Finite \/ a \in Infinite
  BY DEF Attributes, Finite, Infinite
<1>5. k.left = l.left /\ k.right = l.right
  BY <1>1, <1>2, <1>3, <1>4
<1> QED
  BY <1>1, <1>2, <1>3, <1>5

\* Of two that begin alike the one whose end is less has no point that the other lacks,
\* and the other has one that it lacks.
LEMMA EndsContain ==
    ASSUME NEW k \in Proper, NEW l \in Proper, LeftAlike(k, l)
    PROVE  /\ LessRight(k, l) => PointsOf[k] \subseteq PointsOf[l] /\ ~(PointsOf[l] \subseteq PointsOf[k])
<1>1. SUFFICES ASSUME LessRight(k, l)
               PROVE  PointsOf[k] \subseteq PointsOf[l] /\ ~(PointsOf[l] \subseteq PointsOf[k])
  OBVIOUS
<1>2. k \in Made /\ l \in Made
  BY DEF Proper
<1>3. /\ Lo(k) \in Int /\ Hi(k) \in Int /\ Lo(l) \in Int /\ Hi(l) \in Int
      /\ HasLeft(k) /\ HasRight(k) => Lo(k) < Hi(k)
  BY ProperMeans
<1>4. (HasLeft(k) <=> HasLeft(l)) /\ (HasLeft(k) => Lo(k) = Lo(l))
  BY <1>2, SidesCompare
<1>5. HasRight(k) /\ (HasRight(l) => Hi(k) < Hi(l))
  <2>1. RightFactor(k) < RightFactor(l) \/ (HasRight(k) /\ HasRight(l) /\ Hi(k) < Hi(l))
    BY <1>1, <1>2, SidesCompare
  <2>2. \A m \in {k, l} : (HasRight(m) /\ RightFactor(m) = 6) \/ (~HasRight(m) /\ RightFactor(m) = 8)
    <3>1. TAKE m \in {k, l}
    <3>2. m.rattr \in Finite \cup {"MAX_INF"}
      BY ProperMeans
    <3> QED
      BY <3>2 DEF RightFactor, Factor, HasRight, Finite
  <2> QED
    BY <2>1, <2>2
<1>6. ASSUME NEW x \in PointsOf[k] PROVE x \in PointsOf[l]
  <2>1. x \in Points /\ x \in Int /\ Between(x, k)
    BY PointsAre
  <2>2. Between(x, l)
    BY <1>3, <1>4, <1>5, <2>1 DEF Between
  <2> QED
    BY <2>1, <2>2, PointsAre
<1>7. \E x \in PointsOf[l] : x \notin PointsOf[k]
  <2>1. Hi(k) \in Cuts /\ (HasRight(l) => Hi(l) \in Cuts)
    BY <1>5, CutsAre
  <2>2. PICK x \in Points : x \in Int /\ Hi(k) =< 2 * x /\ (HasRight(l) => 2 * x < Hi(l))
    <3>1. CASE HasRight(l)
      BY <1>5, <2>1, <3>1, CutsApart
    <3>2. CASE ~HasRight(l)
      BY <2>1, <3>2, CutsApart
    <3> QED
      BY <3>1, <3>2
  <2>3. Between(x, l) /\ ~Between(x, k)
    BY <1>3, <1>4, <1>5, <2>2 DEF Between
  <2> QED
    BY <2>2, <2>3, PointsAre
<1> QED
  BY <1>6, <1>7

\* Of two that end alike it is the other way round.
LEMMA BeginningsContain ==
    ASSUME NEW k \in Proper, NEW l \in Proper, RightAlike(k, l)
    PROVE  /\ LessLeft(k, l) => PointsOf[l] \subseteq PointsOf[k] /\ ~(PointsOf[k] \subseteq PointsOf[l])
<1>1. SUFFICES ASSUME LessLeft(k, l)
               PROVE  PointsOf[l] \subseteq PointsOf[k] /\ ~(PointsOf[k] \subseteq PointsOf[l])
  OBVIOUS
<1>2. k \in Made /\ l \in Made
  BY DEF Proper
<1>3. /\ Lo(k) \in Int /\ Hi(k) \in Int /\ Lo(l) \in Int /\ Hi(l) \in Int
      /\ HasLeft(l) /\ HasRight(l) => Lo(l) < Hi(l)
  BY ProperMeans
<1>4. (HasRight(k) <=> HasRight(l)) /\ (HasRight(k) => Hi(k) = Hi(l))
  BY <1>2, SidesCompare
<1>5. HasLeft(l) /\ (HasLeft(k) => Lo(k) < Lo(l))
  <2>1. LeftFactor(k) < LeftFactor(l) \/ (HasLeft(k) /\ HasLeft(l) /\ Lo(k) < Lo(l))
    BY <1>1, <1>2, SidesCompare
  <2>2. \A m \in {k, l} : (HasLeft(m) /\ LeftFactor(m) = 6) \/ (~HasLeft(m) /\ LeftFactor(m) = 1)
    <3>1. TAKE m \in {k, l}
    <3>2. m.lattr \in Finite \cup {"MIN_INF"}
      BY ProperMeans
    <3> QED
      BY <3>2 DEF LeftFactor, Factor, HasLeft, Finite
  <2> QED
    BY <2>1, <2>2
<1>6. ASSUME NEW x \in PointsOf[l] PROVE x \in PointsOf[k]
  <2>1. x \in Points /\ x \in Int /\ Between(x, l)
    BY PointsAre
  <2>2. Between(x, k)
    BY <1>3, <1>4, <1>5, <2>1 DEF Between
  <2> QED
    BY <2>1, <2>2, PointsAre
<1>7. \E x \in PointsOf[k] : x \notin PointsOf[l]
  <2>1. Lo(l) \in Cuts /\ (HasLeft(k) => Lo(k) \in Cuts)
    BY <1>5, CutsAre
  <2>2. PICK x \in Points : x \in Int /\ 2 * x < Lo(l) /\ (HasLeft(k) => Lo(k) =< 2 * x)
    <3>1. CASE HasLeft(k)
      BY <1>5, <2>1, <3>1, CutsApart
    <3>2. CASE ~HasLeft(k)
      BY <2>1, <3>2, CutsApart
    <3> QED
      BY <3>1, <3>2
  <2>3. Between(x, k) /\ ~Between(x, l)
    BY <1>3, <1>4, <1>5, <2>2 DEF Between
  <2> QED
    BY <2>2, <2>3, PointsAre
<1> QED
  BY <1>6, <1>7

\* The order of the containers and cmp.
LEMMA OrdersAlike == OrdersMatch
<1>1. ASSUME NEW k \in Keys, NEW l \in Keys
      PROVE  /\ Less(k, l) <=> CmpLess(k, l) /\ PointsOf[k] \cap PointsOf[l] = {}
             /\ k # l /\ LeftAlike(k, l) => (CmpLess(k, l) <=> PointsOf[k] \subseteq PointsOf[l])
             /\ k # l /\ RightAlike(k, l) => (CmpLess(k, l) <=> PointsOf[l] \subseteq PointsOf[k])
  <2>1. k \in Proper /\ l \in Proper /\ k \in Made /\ l \in Made
    BY KeysAreProper DEF Proper
  <2>2. /\ ~(CmpLess(k, l) /\ CmpLess(l, k))
        /\ Equal(k, l) <=> ~CmpLess(k, l) /\ ~CmpLess(l, k)
    BY <2>1, CmpOrders DEF CmpIsOrder
  <2>3. /\ CmpLess(k, l) <=> LessLeft(k, l) \/ (LeftAlike(k, l) /\ LessRight(k, l))
        /\ CmpLess(l, k) <=> LessLeft(l, k) \/ (LeftAlike(l, k) /\ LessRight(l, k))
        /\ Equal(k, l) <=> LeftAlike(k, l) /\ RightAlike(k, l)
    BY <2>1, CmpMeans
  <2>4. Equal(k, l) => k = l
    BY <2>1, <2>3, AlikeIsSame
  <2>5. Less(k, l) <=> CmpLess(k, l) /\ PointsOf[k] \cap PointsOf[l] = {}
    <3>1. (Less(k, l) => CmpLess(k, l)) /\ (Less(l, k) => CmpLess(l, k))
      BY <2>1, LessIsCmpLess
    <3>2. PointsOf[k] \cap PointsOf[l] = {} <=> Less(k, l) \/ Less(l, k)
      BY <2>1, CommonPoint DEF Overlap
    <3> QED
      BY <2>2, <3>1, <3>2
  <2>6. ASSUME k # l, LeftAlike(k, l) PROVE CmpLess(k, l) <=> PointsOf[k] \subseteq PointsOf[l]
    <3>1. LeftAlike(l, k) /\ ~LessLeft(k, l) /\ ~LessLeft(l, k)
      <4>1. /\ LeftFactor(k) = LeftFactor(l) /\ (HasLeft(k) => Lo(k) = Lo(l))
            /\ Lo(k) \in Int /\ LeftFactor(k) \in Int
            /\ HasLeft(k) <=> LeftFactor(k) = Finites
            /\ HasLeft(l) <=> LeftFactor(l) = Finites
        BY <2>1, <2>6, SidesCompare
      <4>2. /\ LeftAlike(l, k) <=> LeftFactor(l) = LeftFactor(k) /\ (HasLeft(l) => Lo(l) = Lo(k))
            /\ LessLeft(k, l) <=> LeftFactor(k) < LeftFactor(l) \/ (HasLeft(k) /\ HasLeft(l) /\ Lo(k) < Lo(l))
            /\ LessLeft(l, k) <=> LeftFactor(l) < LeftFactor(k) \/ (HasLeft(l) /\ HasLeft(k) /\ Lo(l) < Lo(k))
        BY <2>1, SidesCompare
      <4> QED
        BY <4>1, <4>2
    <3>2. LessRight(k, l) \/ LessRight(l, k)
      BY <2>2, <2>3, <2>4, <2>6, <3>1
    <3>3. LessRight(k, l) => PointsOf[k] \subseteq PointsOf[l]
      BY <2>1, <2>6, EndsContain
    <3>4. LessRight(l, k) => ~(PointsOf[k] \subseteq PointsOf[l])
      BY <2>1, <3>1, EndsContain
    <3> QED
      BY <2>3, <2>6, <3>1, <3>2, <3>3, <3>4
  <2>7. ASSUME k # l, RightAlike(k, l) PROVE CmpLess(k, l) <=> PointsOf[l] \subseteq PointsOf[k]
    <3>1. RightAlike(l, k) /\ ~LessRight(k, l) /\ ~LessRight(l, k)
      <4>1. /\ RightFactor(k) = RightFactor(l) /\ (HasRight(k) => Hi(k) = Hi(l))
            /\ Hi(k) \in Int /\ RightFactor(k) \in Int
            /\ HasRight(k) <=> RightFactor(k) = Finites
            /\ HasRight(l) <=> RightFactor(l) = Finites
        BY <2>1, <2>7, SidesCompare
      <4>2. /\ RightAlike(l, k) <=> RightFactor(l) = RightFactor(k) /\ (HasRight(l) => Hi(l) = Hi(k))
            /\ LessRight(k, l) <=> RightFactor(k) < RightFactor(l) \/ (HasRight(k) /\ HasRight(l) /\ Hi(k) < Hi(l))
            /\ LessRight(l, k) <=> RightFactor(l) < RightFactor(k) \/ (HasRight(l) /\ HasRight(k) /\ Hi(l) < Hi(k))
        BY <2>1, SidesCompare
      <4> QED
        BY <4>1, <4>2
    <3>2. (CmpLess(k, l) <=> LessLeft(k, l)) /\ (CmpLess(l, k) <=> LessLeft(l, k))
      BY <2>3, <3>1
    <3>3. LessLeft(k, l) \/ LessLeft(l, k)
      BY <2>2, <2>4, <2>7, <3>2
    <3>4. LessLeft(k, l) => PointsOf[l] \subseteq PointsOf[k]
      BY <2>1, <2>7, BeginningsContain
    <3>5. LessLeft(l, k) => ~(PointsOf[l] \subseteq PointsOf[k])
      BY <2>1, <3>1, BeginningsContain
    <3> QED
      BY <3>2, <3>3, <3>4, <3>5
  <2> QED
    BY <2>5, <2>6, <2>7
<1> QED
  BY <1>1 DEF OrdersMatch, LeftAlike, RightAlike

\* Every point is behind v or before w.
Apt(v, w) == \A x \in Points : LessThanPoint(v, x) \/ PointLessThan(x, w)

\* The order of single endpoints, which are compared with every point.
LEMMA EndpointsAlike == EndsMatch
<1>1. ASSUME NEW v \in EndValues, NEW w \in EndValues
      PROVE  IF ValueEqual(v, w) THEN ~ValueLess(v, w) ELSE ValueLess(v, w) <=> Apt(v, w)
  <2>1. /\ v.get \in Ends /\ v.get \in Int /\ v.get \in Points /\ v.attr \in Attributes
        /\ w.get \in Ends /\ w.get \in Int /\ w.get \in Points /\ w.attr \in Attributes
    BY DomainAssumption, PointsAssumption DEF EndValues
  <2>2. \A x \in Points : x \in Int
    BY DomainAssumption
  <2>3. CASE v.attr = "MIN_INF" \/ w.attr = "MAX_INF"
    <3>1. Apt(v, w)
      BY <2>3 DEF Apt, LessThanPoint, PointLessThan
    <3> QED
      BY <2>1, <2>3, <3>1 DEF ValueEqual, ValueLess, Attributes, Finite, Infinite
  <2>4. CASE v.attr = "MAX_INF" /\ w.attr # "MAX_INF"
    <3>1. \E x \in Points : ~PointLessThan(x, w)
      <4>1. PICK x \in Points : w.get < x
        BY <2>1, PointsAssumption
      <4>2. ~PointLessThan(x, w)
        BY <2>1, <2>2, <2>4, <4>1 DEF PointLessThan
      <4> QED
        BY <4>2
    <3>2. \A x \in Points : ~LessThanPoint(v, x)
      BY <2>4 DEF LessThanPoint
    <3>3. ~Apt(v, w)
      BY <3>1, <3>2 DEF Apt
    <3> QED
      BY <2>1, <2>4, <3>3 DEF ValueEqual, ValueLess, Attributes, Finite, Infinite
  <2>5. CASE w.attr = "MIN_INF" /\ v.attr # "MIN_INF"
    <3>1. \E x \in Points : ~LessThanPoint(v, x)
      <4>1. PICK x \in Points : x < v.get
        BY <2>1, PointsAssumption
      <4>2. ~LessThanPoint(v, x)
        BY <2>1, <2>2, <2>5, <4>1 DEF LessThanPoint
      <4> QED
        BY <4>2
    <3>2. \A x \in Points : ~PointLessThan(x, w)
      BY <2>5 DEF PointLessThan
    <3>3. ~Apt(v, w)
      BY <3>1, <3>2 DEF Apt
    <3> QED
      BY <2>1, <2>5, <3>3 DEF ValueEqual, ValueLess, Attributes, Finite, Infinite
  <2>6. CASE v.attr \in Finite /\ w.attr \in Finite
    <3> DEFINE a == v.get
               b == w.get
    <3>1. ValueLess(v, w) <=> IF v.attr = w.attr THEN a < b ELSE a =< b
      BY <2>6 DEF ValueLess, Finite, Infinite
    <3>2. ValueEqual(v, w) <=> v.attr = w.attr /\ a = b
      BY <2>6 DEF ValueEqual
    <3>3. \A x \in Points : LessThanPoint(v, x) <=> IF v.attr = "CLOSE" THEN a < x ELSE a =< x
      BY <2>6 DEF LessThanPoint, Finite
    <3>4. \A x \in Points : PointLessThan(x, w) <=> IF w.attr = "CLOSE" THEN x < b ELSE x =< b
      BY <2>6 DEF PointLessThan, Finite
    <3>5. v.attr \in {"CLOSE", "OPEN"} /\ w.attr \in {"CLOSE", "OPEN"}
      BY <2>6 DEF Finite
    <3>6. a \in Int /\ b \in Int /\ a \in Points /\ b \in Points /\ a \in Ends /\ b \in Ends
      BY <2>1
    <3> HIDE DEF a, b
    <3>7. ASSUME ValueLess(v, w), ~ValueEqual(v, w) PROVE Apt(v, w)
      BY <2>2, <3>1, <3>2, <3>3, <3>4, <3>5, <3>6, <3>7 DEF Apt
    <3>8. ASSUME ~ValueLess(v, w), ~ValueEqual(v, w) PROVE ~Apt(v, w)
      <4>1. b < a
        BY <3>1, <3>2, <3>6, <3>8
      <4>2. PICK x \in Points : b < x /\ x < a
        BY <3>6, <4>1, PointsAssumption
      <4>3. ~LessThanPoint(v, x) /\ ~PointLessThan(x, w)
        BY <2>2, <3>3, <3>4, <3>6, <4>2
      <4> QED
        BY <4>3 DEF Apt
    <3>9. ValueEqual(v, w) => ~ValueLess(v, w)
      BY <3>1, <3>2, <3>6
    <3> QED
      BY <3>7, <3>8, <3>9
  <2> QED
    BY <2>1, <2>3, <2>4, <2>5, <2>6 DEF Attributes, Finite
<1>2. ASSUME NEW v \in EndValues, NEW x \in Points
      PROVE  EqualsPoint(v, x) <=> ~LessThanPoint(v, x) /\ ~PointLessThan(x, v) /\ v.attr \in Finite
  <2>1. v.get \in Int /\ x \in Int
    BY DomainAssumption DEF EndValues
  <2> QED
    BY <2>1 DEF EqualsPoint, LessThanPoint, PointLessThan, Finite
<1> QED
  BY <1>1, <1>2 DEF EndsMatch, Apt

\* The elements are in both orders.
LEMMA OrdersRight == ASSUME InOrder(cont_) PROVE OrdersAgree
<1>1. DOMAIN cont_ = 1 .. Len(cont_) /\ Len(cont_) \in Nat
      /\ \A i \in 1 .. Len(cont_) : cont_[i].key \in Proper /\ cont_[i].key \in Made
  BY ElementsAre DEF InOrder
<1>2. ASSUME NEW i \in 1 .. Len(cont_), NEW j \in 1 .. Len(cont_)
      PROVE  i < j <=> CmpLess(Key(i), Key(j))
  <2> DEFINE k == cont_[i].key
             l == cont_[j].key
  <2>1. k \in Proper /\ l \in Proper /\ k \in Made /\ l \in Made
    BY <1>1
  <2>2. (i < j => Less(k, l)) /\ (j < i => Less(l, k))
    BY DEF InOrder, Ordered
  <2>3. i = j => k = l
    OBVIOUS
  <2>4. Key(i) = k /\ Key(j) = l
    BY DEF Key
  <2> HIDE DEF k, l
  <2>5. (i < j => CmpLess(k, l)) /\ (j < i => CmpLess(l, k))
    BY <2>1, <2>2, LessIsCmpLess
  <2>6. ~(CmpLess(k, l) /\ CmpLess(l, k))
    BY <2>1, CmpOrders DEF CmpIsOrder
  <2>7. i < j \/ j < i \/ i = j
    OBVIOUS
  <2>8. CmpLess(k, l) => i < j
    BY <2>3, <2>5, <2>6, <2>7
  <2> QED
    BY <2>4, <2>5, <2>8
<1> QED
  BY <1>1, <1>2, CmpOrders, OrdersAlike, EndpointsAlike DEF OrdersAgree

-----------------------------------------------------------------------------
(***************************************************************************)
(* The theorems.                                                           *)
(***************************************************************************)
\* The container has its type, its elements are in order and every key that is looked up
\* divides them, whatever was inserted, merged, absorbed, assigned and cut before.
THEOREM AlwaysWellFormed == Spec => []WellFormed
<1>1. IInv => WellFormed
  BY InOrderForms DEF IInv
<1> QED
  BY <1>1, AlwaysInOrder, PTL

\* find() and find_intersection() answer what has the value, and what meets the key.
THEOREM AlwaysLookupsExact == Spec => []LookupsExact
<1>1. IInv => LookupsExact
  BY LooksUpRight DEF IInv
<1> QED
  BY <1>1, AlwaysInOrder, PTL

\* insert() maps the points of its interval to its value and leaves all others as they are.
THEOREM AlwaysInsertAssigns == Spec => []InsertAssigns
<1>1. IInv => InsertAssigns
  BY InsertsRight DEF IInv
<1> QED
  BY <1>1, AlwaysInOrder, PTL

\* What is cut has points or is half open.
Cuttable == \A k \in CutKeys : k \in Proper \/ HalfOpen(k)

\* cut() takes the points of its interval and no others, if what is cut has points or is
\* an empty interval with one closed end. Of an open empty interval it is not so: it takes
\* the point between its ends.
THEOREM AlwaysCutErases == ASSUME Cuttable PROVE Spec => []CutErases
<1>1. IInv => CutErases
  BY CutsRight DEF IInv, Cuttable
<1> QED
  BY <1>1, AlwaysInOrder, PTL

\* What merge() and the functions that absorb join is exactly what they should.
THEOREM AlwaysJoinsExact == Spec => []JoinsExact
<1>1. IInv => JoinsExact
  BY JoinsRight DEF IInv
<1> QED
  BY <1>1, AlwaysInOrder, PTL

\* Over a sorted vector, which believes the hints, the operations leave what they leave
\* over a std::map.
THEOREM AlwaysArraysAgree == Spec => []ArraysAgree
<1>1. IInv => ArraysAgree
  BY ArraysRight DEF IInv
<1> QED
  BY <1>1, AlwaysInOrder, PTL

\* The orders of intervals and of endpoints are orders, and go together, and the elements
\* are in both orders of intervals.
THEOREM AlwaysOrdersAgree == Spec => []OrdersAgree
<1>1. IInv => OrdersAgree
  BY OrdersRight DEF IInv
<1> QED
  BY <1>1, AlwaysInOrder, PTL
===============================================================================
