---------------------------- MODULE IntervalTree ----------------------------
(***************************************************************************)
(* intervals::tree, the container behind intervals::set and intervals::map:*)
(* intervals that do not overlap, each with a value, in a std::map ordered *)
(* by cmp_not_overlap. An iterator is a position in cont_; the position    *)
(* after the last is end(). A set is a map with one value.                 *)
(***************************************************************************)
EXTENDS Intervals, FiniteSets

SE == INSTANCE SequencesExt

CONSTANTS
    Keys,       \* the intervals that are inserted, merged, absorbed, assigned
    CutKeys,    \* the intervals that are cut
    Values      \* mapped values

ASSUME KeysAssumption == Keys \subseteq Made /\ CutKeys \subseteq Made

\* What is put into a container is not empty and does not lie at an infinite end.
ASSUME KeysHavePoints ==
    \A k \in Keys : ~Empty(k) /\ k.lattr # "MAX_INF" /\ k.rattr # "MIN_INF"

VARIABLE cont_

Entry(k, v) == [key |-> k, val |-> v]
Init == cont_ = <<>>

End == Len(cont_) + 1
Key(i) == cont_[i].key
IsEnd(i) == i = End

-----------------------------------------------------------------------------
\* The searches of std::map, for a container in order.
FirstOr(i, s) == IF s = {} THEN i ELSE CHOOSE j \in s : \A l \in s : j =< l
LowerBound(c, k) == FirstOr(Len(c) + 1, {i \in DOMAIN c : ~Less(c[i].key, k)})
UpperBound(c, k) == FirstOr(Len(c) + 1, {i \in DOMAIN c : Less(k, c[i].key)})

\* emplace_hint of std::map: where the order puts the element, 0 if it has an
\* equivalent one; the hint makes no difference.
Refused == 0
StdPlace(c, where, e) ==
    LET i == UpperBound(c, e.key)
    IN  IF i > 1 /\ ~Less(c[i - 1].key, e.key) THEN Refused ELSE i

\* emplace_hint of array_set and array_map, which are sorted vectors: at the end if
\* that is the hint, else by lower_bound before or behind the hint.
LowerBoundFrom(c, from, to, k) == FirstOr(to, {i \in from .. to - 1 : ~Less(c[i].key, k)})
ArrayPlaceBefore(c, where, e) == LowerBoundFrom(c, 1, where, e.key)
ArrayPlace(c, where, e) ==
    CASE where > Len(c) -> where
      [] where =< Len(c) /\ Less(e.key, c[where].key) -> LowerBoundFrom(c, 1, where, e.key)
      [] OTHER -> LowerBoundFrom(c, where, Len(c) + 1, e.key)

\* The container is a std::map or a sorted vector.
Place(kind, c, where, e) ==
    IF kind = "std" THEN StdPlace(c, where, e) ELSE ArrayPlace(c, where, e)

\* What a container becomes, and the iterator that emplace_hint returns.
State(c, at) == [cont |-> c, at |-> at]
Emplace(kind, s, e) ==
    LET i == Place(kind, s.cont, s.at, e)
    IN  IF i = Refused THEN s ELSE State(SE!InsertAt(s.cont, i, e), i)

\* What an operation does to the container: it leaves some elements and emplaces
\* others, the first at a hint and each of the rest with the last one as the hint.
Change(left, at, new) == [left |-> left, at |-> at, new |-> new]
Changed(kind, change) ==
    LET state[n \in 0 .. Len(change.new)] ==
            IF n = 0 THEN State(change.left, change.at)
            ELSE Emplace(kind, state[n - 1], change.new[n])
    IN  state[Len(change.new)].cont

\* erase(from, to)
Erased(from, to) == SubSeq(cont_, 1, from - 1) \o SubSeq(cont_, to, Len(cont_))

\* locate(): the first element that is not left of k and the first that is right
\* of k (or the one before, if it contains k's right endpoint), whether they
\* contain k's endpoints, and whether k touches their neighbours.
Nowhere(border) == [itr |-> End, contains |-> FALSE, connected |-> border]
Located(k) ==
    LET left == LowerBound(cont_, k)
        right == UpperBound(cont_, k)
        leftBorder == left > 1 /\ LeftConnected(k, Key(left - 1))
        containsRight == right > 1 /\ ContainsRight(Key(right - 1), k)
    IN  IF IsEnd(left)
        THEN [left |-> Nowhere(leftBorder), right |-> Nowhere(FALSE)]
        ELSE [left |-> [itr |-> left, contains |-> ContainsLeft(Key(left), k),
                        connected |-> leftBorder],
              right |-> [itr |-> IF containsRight THEN right - 1 ELSE right,
                         contains |-> containsRight,
                         connected |-> ~IsEnd(right) /\ RightConnected(k, Key(right))]]

\* The same as the one element of a set: a quantifier that binds it has it worked
\* out once.
Locate(k) == {Located(k)}

\* The position after the elements the located ones delimit.
Past(side) == IF side.contains THEN side.itr + 1 ELSE side.itr

KeptAnyhow(e) == TRUE
Kept(e) == ~Empty(e.key)

-----------------------------------------------------------------------------
\* The rests of the elements that contain k's endpoints, unless they are empty.
Rest(e) == IF Kept(e) THEN <<e>> ELSE <<>>
FirstRest(loc, k) ==
    LET e == cont_[loc.left.itr]
    IN  IF loc.left.contains THEN Rest(Entry(ConnectRight(e.key, k), e.val)) ELSE <<>>
LastRest(loc, k) ==
    LET e == cont_[loc.right.itr]
    IN  IF loc.right.contains THEN Rest(Entry(ConnectLeft(e.key, k), e.val)) ELSE <<>>

\* insert_impl and cut_impl: k's place in the container is emptied, and the
\* elements that k only cuts into keep their rests.
Without(loc) == Erased(loc.left.itr, Past(loc.right))

InsertChange(k, v, loc) ==
    IF IsInfinite(k) THEN Change(<<>>, 1, <<Entry(k, v)>>)
    ELSE IF IsEnd(loc.left.itr) THEN Change(cont_, End, <<Entry(k, v)>>)
    ELSE Change(Without(loc), loc.left.itr,
                FirstRest(loc, k) \o <<Entry(k, v)>> \o LastRest(loc, k))

CutChange(k, loc) ==
    IF IsInfinite(k) THEN Change(<<>>, 1, <<>>)
    ELSE IF IsEnd(loc.left.itr) THEN Change(cont_, End, <<>>)
    ELSE Change(Without(loc), loc.left.itr, FirstRest(loc, k) \o LastRest(loc, k))

\* merge_impl: the elements that contain k's endpoints lend theirs to k.
Stretched(k, loc) ==
    LET l == IF loc.left.contains THEN ReplaceLeft(k, Key(loc.left.itr)) ELSE k
    IN  IF loc.right.contains THEN ReplaceRight(l, Key(loc.right.itr)) ELSE l

MergeChange(k, v, loc) ==
    IF IsInfinite(k) THEN Change(<<>>, 1, <<Entry(k, v)>>)
    ELSE IF IsEnd(loc.left.itr) /\ ~loc.left.connected
    THEN Change(cont_, End, <<Entry(k, v)>>)
    ELSE Change(Without(loc), loc.left.itr, <<Entry(Stretched(k, loc), v)>>)

\* The runs of connected elements that end before i, and that begin at i.
FirstConnectedOnce(i) == IF i > 1 /\ LeftConnected(Key(i), Key(i - 1)) THEN i - 1 ELSE i
FirstConnected(i) ==
    FirstOr(i, {j \in 1 .. i : \A l \in j + 1 .. i : LeftConnected(Key(l), Key(l - 1))})
LastConnected(i) ==
    LET chain == {j \in i .. Len(cont_) : \A l \in i .. j - 1 : RightConnected(Key(l), Key(l + 1))}
    IN  CHOOSE j \in chain : \A l \in chain : l =< j

\* absorb_impl: k takes in the elements connected with it too. When the element
\* that contains k's right endpoint is the last one, the code reads past the end
\* (tree.h:393); what it reads there makes no difference to the result.
AbsorbChange(k, v, loc) ==
    LET stretched == Stretched(k, loc)
        l == loc.left.itr
        connectedLeft == IF loc.left.contains /\ l > 1
                         THEN LeftConnected(stretched, Key(l - 1)) ELSE loc.left.connected
        r == loc.right.itr
        connectedRight == IF loc.right.contains
                          THEN r < Len(cont_) /\ RightConnected(stretched, Key(r + 1))
                          ELSE loc.right.connected
        first == IF connectedLeft THEN FirstConnected(l - 1) ELSE l
        last == IF connectedRight THEN LastConnected(r) ELSE r
        toLeft == IF connectedLeft THEN ReplaceLeft(stretched, Key(first)) ELSE stretched
        toRight == IF connectedRight THEN ReplaceRight(toLeft, Key(last)) ELSE toLeft
    IN  IF IsInfinite(k) THEN Change(<<>>, 1, <<Entry(k, v)>>)
        ELSE IF IsEnd(l) /\ ~loc.left.connected
        THEN Change(cont_, End, <<Entry(k, v)>>)
        ELSE Change(Erased(first, IF connectedRight THEN last + 1 ELSE Past(loc.right)),
                        first, <<Entry(toRight, v)>>)

InsertImpl(k, v, loc) == Changed("std", InsertChange(k, v, loc))
CutImpl(k, loc) == Changed("std", CutChange(k, loc))
MergeImpl(k, v, loc) == Changed("std", MergeChange(k, v, loc))
AbsorbImpl(k, v, loc) == Changed("std", AbsorbChange(k, v, loc))

\* find(value): what locate() finds if it contains the value. The code looks
\* into end() too, but answers end() then whatever it reads.
FindPoint(x) ==
    LET i == Located(Interval(x, x, "CLOSE", "CLOSE")).left.itr
    IN  IF ~IsEnd(i) /\ Contains(Key(i), x) THEN i ELSE End

\* find(key)
FindKey(k) ==
    LET loc == Located(k)
        i == loc.left.itr
    IN  IF /\ ~IsEnd(i)
           /\ \/ i = loc.right.itr /\ loc.left.contains /\ loc.right.contains
              \/ EqualEmpty(Key(i), k)
        THEN i ELSE End

\* find_intersection: the positions from the first to before the second.
FindIntersection(k) ==
    LET loc == Located(k) IN {i \in DOMAIN cont_ : loc.left.itr =< i /\ i < Past(loc.right)}

\* merge_left, merge_right, absorb_left, absorb_right of an element.
SetKey(c, i, k) == [c EXCEPT ![i].key = k]
EraseIn(c, from, to) == SubSeq(c, 1, from - 1) \o SubSeq(c, to + 1, Len(c))

MergeLeftImpl(i) ==
    EraseIn(SetKey(cont_, i, ReplaceLeft(Key(i), Key(i - 1))), i - 1, i - 1)
MergeRightImpl(i) ==
    EraseIn(SetKey(cont_, i, ReplaceRight(Key(i), Key(i + 1))), i + 1, i + 1)
AbsorbLeftImpl(i) ==
    LET from == FirstConnected(i)
    IN  EraseIn(SetKey(cont_, i, ReplaceLeft(Key(i), Key(from))), from, i - 1)
AbsorbRightImpl(i) ==
    LET from == LastConnected(i)
    IN  EraseIn(SetKey(cont_, i, ReplaceRight(Key(i), Key(from))), i + 1, from)

-----------------------------------------------------------------------------
Insert(k, v) == \E loc \in Locate(k) : cont_' = InsertImpl(k, v, loc)
Merge(k, v) == \E loc \in Locate(k) : cont_' = MergeImpl(k, v, loc)
Absorb(k, v) == \E loc \in Locate(k) : cont_' = AbsorbImpl(k, v, loc)
Cut(k) == \E loc \in Locate(k) : cont_' = CutImpl(k, loc)

\* map::operator[], and an assignment to what it refers to.
Assign(k, v) ==
    \E i \in {FindKey(k)} :
        IF ~IsEnd(i) /\ Equal(k, Key(i)) THEN cont_' = [cont_ EXCEPT ![i].val = v]
        ELSE Insert(k, v)

MergeLeft(i) == i > 1 /\ cont_' = MergeLeftImpl(i)
MergeRight(i) == i < Len(cont_) /\ cont_' = MergeRightImpl(i)
AbsorbLeft(i) == cont_' = AbsorbLeftImpl(i)
AbsorbRight(i) == cont_' = AbsorbRightImpl(i)

Next ==
    \/ \E k \in CutKeys : Cut(k)
    \/ \E k \in Keys, v \in Values : Insert(k, v) \/ Merge(k, v) \/ Absorb(k, v) \/ Assign(k, v)
    \/ \E i \in DOMAIN cont_ : MergeLeft(i) \/ MergeRight(i) \/ AbsorbLeft(i) \/ AbsorbRight(i)

Spec == Init /\ [][Next]_cont_

-----------------------------------------------------------------------------
\* The type of the container, of which every interval is valid, and its order:
\* every element lies before all that follow it, not only before the next, and every
\* key that is looked up, stored or not, divides the elements: what lower_bound and
\* upper_bound rest on.
TypeOK == cont_ \in Seq([key : Made, val : Values])
WellFormed ==
    /\ TypeOK
    /\ \A i, j \in DOMAIN cont_ : i < j =>
           /\ Less(Key(i), Key(j)) /\ ~Less(Key(j), Key(i))
           /\ \A k \in Keys \cup CutKeys : /\ Less(Key(j), k) => Less(Key(i), k)
                                           /\ Less(k, Key(i)) => Less(k, Key(j))

\* What a container means: the pairs of a point and the value it is mapped to.
Meets(e, k) == PointsOf[e.key] \cap PointsOf[k] # {}
Pairs(e) == PointsOf[e.key] \X {e.val}
Mapping(c) == UNION {Pairs(c[i]) : i \in DOMAIN c}
Outside(c, s) == {p \in Mapping(c) : p[1] \notin s}
PointsIn(c) == UNION {PointsOf[c[i].key] : i \in DOMAIN c}

\* Lookups are exact. find() of a value answers the element that has the value,
\* and end() if none has; find_intersection answers the elements that have a point
\* of the key, and no others.
LookupsExact ==
    /\ \A x \in Points : \A i \in DOMAIN cont_ \cup {End} :
         FindPoint(x) = i <=>
             IF IsEnd(i) THEN x \notin PointsIn(cont_) ELSE x \in PointsOf[Key(i)]
    /\ \A k \in Keys : FindIntersection(k) = {i \in DOMAIN cont_ : Meets(cont_[i], k)}

\* insert() maps the points of the interval to the value and changes no other.
InsertAssigns ==
    \A k \in Keys, v \in Values : \A loc \in Locate(k) :
        Mapping(InsertImpl(k, v, loc)) = Outside(cont_, PointsOf[k]) \cup PointsOf[k] \X {v}

\* cut() takes the points of the interval and no others, as the tests "empty
\* interval can be cut" and "it splis the map into 2 parts" want.
CutErases ==
    \A k \in CutKeys : \A loc \in Locate(k) :
        Mapping(CutImpl(k, loc)) = Outside(cont_, PointsOf[k])

\* The interval and the points s become one element with the value v, and the
\* elements that have none of these points stay as they are.
Unites(c, s, v) ==
    /\ \E i \in DOMAIN c : PointsOf[c[i].key] = s /\ c[i].val = v
    /\ Mapping(c) = Outside(cont_, s) \cup s \X {v}
    /\ \A i \in DOMAIN cont_ : PointsOf[Key(i)] \cap s = {} => \E j \in DOMAIN c : c[j] = cont_[i]

\* merge() unites the interval with the elements it has a point in common with.
Met(k) ==
    PointsOf[k] \cup UNION {PointsOf[Key(i)] : i \in {j \in DOMAIN cont_ : Meets(cont_[j], k)}}
MergeUnites ==
    \A k \in Keys, v \in Values : \A loc \in Locate(k) :
        \A c \in {MergeImpl(k, v, loc)} : Unites(c, Met(k), v)

\* absorb() unites it with everything that is connected with it, directly or
\* through other elements: the points that can be reached without a gap.
NoGap(x, y, s) == Points \cap (x .. y \cup y .. x) \subseteq s
Reached(k) ==
    LET s == PointsIn(cont_) \cup PointsOf[k]
    IN  {x \in s : \E y \in PointsOf[k] : NoGap(x, y, s)}
AbsorbUnites ==
    \A k \in Keys, v \in Values : \A loc \in Locate(k) :
        \A c \in {AbsorbImpl(k, v, loc)} : Unites(c, Reached(k), v)

\* absorb_left and absorb_right join elements without changing what is covered,
\* and after them nothing is connected with the element on that side.
Disconnected(c, j) == j = 1 \/ ~LeftConnected(c[j].key, c[j - 1].key)
SidesUnite ==
    \A i \in DOMAIN cont_ :
        \A l \in {AbsorbLeftImpl(i)}, r \in {AbsorbRightImpl(i)} :
            /\ PointsIn(l) = PointsIn(cont_) /\ Disconnected(l, FirstConnected(i))
            /\ PointsIn(r) = PointsIn(cont_)
            /\ i < Len(r) => Disconnected(r, i + 1)

\* What merge() and the functions that absorb join is exactly what they should:
\* chains of elements that touch are followed to both ends and no further
\* (tree.h:362, 395), and the elements beyond stay as they are.
JoinsExact == MergeUnites /\ AbsorbUnites /\ SidesUnite

(***************************************************************************)
(* Over a sorted vector (array_set, array_map) the operations leave the    *)
(* same elements in the same order as over a std::map, although the vector *)
(* believes the hint: at the end it appends whatever comes, elsewhere it   *)
(* looks on one side only (array_map.h:119). It refuses no equivalent      *)
(* either: cut() of (1, 1] leaves [1, 1] twice in it, so the cuts here are *)
(* those of intervals with points.                                         *)
(***************************************************************************)
ArraysAgree ==
    \A k \in Keys, v \in Values : \A loc \in Locate(k) :
        \A change \in {CutChange(k, loc), InsertChange(k, v, loc),
                       MergeChange(k, v, loc), AbsorbChange(k, v, loc)} :
            Changed("array", change) = Changed("std", change)

(***************************************************************************)
(* The orders of interval.h. cmp is a total order of intervals that equal  *)
(* goes with; of two that begin, or end, alike the one that ends, or       *)
(* begins, earlier is less. The order of the containers says of two        *)
(* intervals with points that one lies before the other exactly if it is   *)
(* less in cmp and they have no point in common. The order of single       *)
(* endpoints (value.h:94) says of one that ends an interval and another one*)
(* that begins one, unless they are equal, that the intervals have no point*)
(* in common; an open and a closed one at one point are each less than the *)
(* other. The elements of a container are in both orders of intervals.     *)
(***************************************************************************)
CmpIsOrder ==
    \A k, l \in Made :
        /\ ~(CmpLess(k, l) /\ CmpLess(l, k))
        /\ Equal(k, l) <=> ~CmpLess(k, l) /\ ~CmpLess(l, k)
        /\ CmpLess(k, l) => \A m \in Made : CmpLess(l, m) => CmpLess(k, m)
OrdersMatch ==
    \A k, l \in Keys :
        /\ Less(k, l) <=> CmpLess(k, l) /\ PointsOf[k] \cap PointsOf[l] = {}
        /\ k # l /\ EqualSide(k.lattr, k.left, l.lattr, l.left) =>
               (CmpLess(k, l) <=> PointsOf[k] \subseteq PointsOf[l])
        /\ k # l /\ EqualSide(k.rattr, k.right, l.rattr, l.right) =>
               (CmpLess(k, l) <=> PointsOf[l] \subseteq PointsOf[k])
EndsMatch ==
    /\ \A v, w \in EndValues :
           IF ValueEqual(v, w) THEN ~ValueLess(v, w)
           ELSE ValueLess(v, w) <=> \A x \in Points : LessThanPoint(v, x) \/ PointLessThan(x, w)
    /\ \A v \in EndValues, x \in Points :
           EqualsPoint(v, x) <=>
               ~LessThanPoint(v, x) /\ ~PointLessThan(x, v) /\ v.attr \in Finite
OrdersAgree ==
    /\ CmpIsOrder /\ OrdersMatch /\ EndsMatch
    /\ \A i, j \in DOMAIN cont_ : i < j <=> CmpLess(Key(i), Key(j))
=============================================================================
