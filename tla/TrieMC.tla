------------------------------- MODULE TrieMC -------------------------------
EXTENDS Trie

\* Two letters and a capital one that a caseless comparator takes for "a".
MCLetters == {"a", "A", "b"}
MCClass == [l \in MCLetters |-> IF l = "A" THEN "a" ELSE l]
=============================================================================
