----------------------------- MODULE ObserversMC -----------------------------
(***************************************************************************)
(* Small instances of Observers.                                           *)
(***************************************************************************)
EXTENDS Observers, TLC

\* The threads are alike.
Symmetry == Permutations(Threads)
=============================================================================
