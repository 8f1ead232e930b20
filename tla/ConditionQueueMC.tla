-------------------------- MODULE ConditionQueueMC --------------------------
(***************************************************************************)
(* A small instance of ConditionQueue.                                     *)
(***************************************************************************)
EXTENDS ConditionQueue

BothTraits == {"simple", "priority"}
\* The third value is to overtake the first two, which are equal.
SomeRanks == <<1, 1, 2>>
=============================================================================
