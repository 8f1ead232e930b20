--------------------------- MODULE IntervalTreeMC ---------------------------
(***************************************************************************)
(* Small instances of IntervalTree. The default value is the least value   *)
(* of the domain, as in an unsigned type.                                  *)
(***************************************************************************)
EXTENDS IntervalTree, TLC

\* Endpoints, and lookups before, at, between and after them.
ThreeEnds == {1, 3, 5}
SevenPoints == 0 .. 6
Zero == 0

\* The intervals with points, and those without: they lie at an infinite end, or
\* are empty, half open or open.
AtInfinity(k) == k.lattr = k.rattr /\ k.lattr \in Infinite
OpenEmpty(k) == Empty(k) /\ k.lattr = "OPEN" /\ k.rattr = "OPEN"
WithPoints == {k \in Made : ~Empty(k) /\ ~AtInfinity(k)}
WithHalfOpenEmpty == {k \in Made : ~OpenEmpty(k) /\ ~AtInfinity(k)}
WithEmpty == {k \in Made : ~AtInfinity(k)}

\* The mapped values are alike.
Symmetry == Permutations(Values)
=============================================================================
