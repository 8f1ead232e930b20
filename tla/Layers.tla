------------------------------- MODULE Layers -------------------------------
(***************************************************************************)
(* layers::layer and layers::list over raw pointers. A list of layers is a *)
(* layer itself and may stand in another; its set_upper() and set_lower()  *)
(* pass on to the layer at that end. The other layers are pass_through:    *)
(* what comes from above goes to lower_, what comes from below to upper_.  *)
(* A layer that has nobody to send to keeps the message, as those of the   *)
(* tests do.                                                               *)
(* Beside some definitions stands a form of them with a mistake, which no  *)
(* action uses: a property has to tell the two apart.                      *)
(***************************************************************************)
EXTENDS Naturals, FiniteSets, SequencesExt

CONSTANTS
    Simple,      \* objects of type pass_through
    Lists,       \* objects of type list
    Nil          \* nullptr

Layers == Simple \cup Lists

VARIABLES
    upper_, lower_,      \* of every layer
    list_,               \* of every list, the layers it owns, top first
    late                 \* history: <<l, side>> if a layer was pushed at that end of l
                         \* when l was linked on that side, and l was not since;
                         \* <<l, "crossed">> if l was linked when it was empty, and
                         \* filled when its neighbour had another one

vars == <<upper_, lower_, list_, late>>

Init ==
    /\ upper_ = [x \in Layers |-> Nil] /\ lower_ = [x \in Layers |-> Nil]
    /\ list_ = [l \in Lists |-> <<>>]
    /\ late = {}

-----------------------------------------------------------------------------
\* The layers that a chain of calls passes, from x to the first of each list, or
\* to the last: what set_upper() sets, and what from_upper() goes through.
EndOf(l, side) == IF side = "upper" THEN Head(list_[l]) ELSE Last(list_[l])
Chain(x, side) ==
    LET chain[k \in 0 .. Cardinality(Lists)] ==
            IF k = 0 THEN {x}
            ELSE chain[k - 1] \cup {EndOf(y, side) : y \in {z \in chain[k - 1] \cap Lists : list_[z] # <<>>}}
    IN  chain[Cardinality(Lists)]
TopsNotForwarded(x) == {x}
Tops(x) == Chain(x, "upper")
Bottoms(x) == Chain(x, "lower")

SetUpper(u, x, to) == [y \in Layers |-> IF x # Nil /\ y \in Tops(x) THEN to ELSE u[y]]
SetLower(d, x, to) == [y \in Layers |-> IF x # Nil /\ y \in Bottoms(x) THEN to ELSE d[y]]

\* The layers in x, all the way down, in the order in which they stand.
Flat(x) ==
    LET flat[k \in 0 .. Cardinality(Lists), y \in Layers] ==
            IF y \in Simple THEN <<y>>
            ELSE IF k = 0 THEN <<>>
            ELSE FlattenSeq([i \in DOMAIN list_[y] |-> flat[k - 1, list_[y][i]]])
    IN  flat[Cardinality(Lists), x]
Inside(x) ==
    LET inside[k \in 0 .. Cardinality(Lists)] ==
            IF k = 0 THEN {x} ELSE inside[k - 1] \cup UNION {ToSet(list_[y]) : y \in inside[k - 1] \cap Lists}
    IN  inside[Cardinality(Lists)]

Owned == UNION {ToSet(list_[l]) : l \in Lists}
Roots == Layers \ Owned
RootOf(x) == CHOOSE r \in Roots : x \in Inside(r)

\* What set_upper and set_lower make good.
Mended(sides, tops, bottoms) ==
    sides \ (((UNION {Tops(x) : x \in tops \ {Nil}}) \X {"upper"})
             \cup ((UNION {Bottoms(x) : x \in bottoms \ {Nil}}) \X {"lower"}))

-----------------------------------------------------------------------------
\* What a push leaves behind that the list or its neighbour does not know of.
Missed(l, side, link) == IF link[l] = Nil THEN {} ELSE {<<l, side>>}
Crossed(l, old, back) ==
    IF list_[l] = <<>> /\ old # Nil /\ back[old] # l THEN {<<l, "crossed">>} ELSE {}

\* A new layer, or a list that was filled before, becomes l's.
New(l, x) == x \in Roots /\ upper_[x] = Nil /\ lower_[x] = Nil /\ l \notin Inside(x)

OldFront(l) == IF list_[l] = <<>> THEN lower_[l] ELSE Head(list_[l])
OldBack(l) == IF list_[l] = <<>> THEN upper_[l] ELSE Last(list_[l])

PushFront(l, x) ==
    /\ New(l, x)
    /\ lower_' = SetLower(lower_, x, OldFront(l))
    /\ upper_' = SetUpper(upper_, OldFront(l), x)
    /\ list_' = [list_ EXCEPT ![l] = <<x>> \o @]
    /\ late' = Mended(late, {OldFront(l)}, {x})
               \cup Missed(l, "upper", upper_) \cup Crossed(l, OldFront(l), upper_)

PushBack(l, x) ==
    /\ New(l, x)
    /\ upper_' = SetUpper(upper_, x, OldBack(l))
    /\ lower_' = SetLower(lower_, OldBack(l), x)
    /\ list_' = [list_ EXCEPT ![l] = Append(@, x)]
    /\ late' = Mended(late, {x}, {OldBack(l)})
               \cup Missed(l, "lower", lower_) \cup Crossed(l, OldBack(l), lower_)

\* The layers on top of one another from r on.
Column(r) ==
    LET column[k \in 1 .. Cardinality(Layers)] ==
            IF k = 1 THEN <<r>>
            ELSE LET c == column[k - 1]
                 IN  IF lower_[Last(c)] = Nil THEN c ELSE Append(c, RootOf(lower_[Last(c)]))
    IN  column[Cardinality(Layers)]

\* A user puts a on b, or does so again: a.set_lower(&b) and b.set_upper(&a).
Link(a, b) ==
    /\ {a, b} \subseteq Roots /\ a \notin ToSet(Column(b))
    /\ lower_[a] # Nil => RootOf(lower_[a]) = b
    /\ upper_[b] # Nil => RootOf(upper_[b]) = a
    /\ lower_' = SetLower(lower_, a, b)
    /\ upper_' = SetUpper(upper_, b, a)
    /\ late' = Mended(late, {b}, {a})
    /\ UNCHANGED list_

Next ==
    \/ \E l \in Lists, x \in Layers : PushFront(l, x) \/ PushBack(l, x)
    \/ \E a, b \in Layers : Link(a, b)

Spec == Init /\ [][Next]_vars

-----------------------------------------------------------------------------
\* from_upper() and from_lower() of x: the simple layers a message passes, cut off
\* where it would pass more than there are. It enters a list at its end.
EntryOf(x, side) == Chain(x, side) \cap Simple
Enter(x, side) ==
    IF x = Nil \/ EntryOf(x, side) = {} THEN <<>> ELSE SetToSeq(EntryOf(x, side))
Way(x, side, link) ==
    LET way[k \in 1 .. Cardinality(Simple) + 1] ==
            IF k = 1 THEN Enter(x, side)
            ELSE LET w == way[k - 1] IN IF w = <<>> THEN w ELSE w \o Enter(link[Last(w)], side)
    IN  way[Cardinality(Simple) + 1]

(***************************************************************************)
(* A message goes through every layer of a column, however the lists in it *)
(* were filled, nested and linked, each layer once, in the order in which  *)
(* they stand, and the answer takes the same way back (list.h:40) - unless *)
(* a list in it is empty, or a layer was pushed at an end that was linked  *)
(* before (list.h:50): it does not learn of that link.                     *)
(***************************************************************************)
MessagesPass ==
    \A r \in Roots :
        LET column == Column(r)
            flat == FlattenSeq([i \in DOMAIN column |-> Flat(column[i])])
            lists == UNION {Inside(column[i]) : i \in DOMAIN column} \cap Lists
            sound == \A l \in lists : list_[l] # <<>> /\ {<<l, "upper">>, <<l, "lower">>} \cap late = {}
            straight == \A l \in Lists : <<l, "crossed">> \notin late
        IN  upper_[r] = Nil /\ sound /\ straight =>
                /\ Way(r, "upper", lower_) = flat
                /\ Way(Last(column), "lower", upper_) = Reverse(flat)
=============================================================================
