------------------------------- MODULE TrieMap -------------------------------
(***************************************************************************)
(* What trees::trie::base promises: a map from keys to values. The one     *)
(* thing a map does not do is erase() of a key that is not stored: it      *)
(* takes out the key that ends where the erased text leaves the prefixes   *)
(* of the stored keys, if there is one.                                    *)
(***************************************************************************)
EXTENDS Integers, Sequences, FiniteSets, FiniteSetsExt

CONSTANTS Letters, Class, Values, Default, MaxKey, MaxText

VARIABLE contents

Keys == DOMAIN contents
Texts(n) == UNION {[1 .. k -> Letters] : k \in 0 .. n}
Canonical(s) == [i \in DOMAIN s |-> Class[s[i]]]

Prefixes == UNION {{SubSeq(k, 1, n) : n \in 0 .. Len(k)} : k \in Keys}

\* The longest beginning of s that some stored key has too.
Shared(s) ==
    LET common == {n \in 0 .. Len(s) : SubSeq(Canonical(s), 1, n) \in Prefixes}
    IN  SubSeq(Canonical(s), 1, IF common = {} THEN 0 ELSE Max(common))

Init == contents = <<>>

With(s) == Keys \cup {Canonical(s)}

Insert(s, v) ==
    contents' = [k \in With(s) |-> IF k = Canonical(s) THEN v ELSE contents[k]]

Touch(s) ==
    contents' = [k \in With(s) |-> IF k \in Keys THEN contents[k] ELSE Default]

Erase(s) ==
    contents' = [k \in Keys \ ({Shared(s)} \ {<<>>}) |-> contents[k]]

Clear == contents' = <<>>

Next ==
    \/ \E s \in Texts(MaxKey), v \in Values : Insert(s, v)
    \/ \E s \in Texts(MaxKey) : Touch(s)
    \/ \E s \in Texts(MaxText) : Erase(s)
    \/ Clear

Spec == Init /\ [][Next]_contents
=============================================================================
