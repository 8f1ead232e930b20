--------------------------- MODULE DelayedQueueMC ---------------------------
(***************************************************************************)
(* Small instances of DelayedQueue. The threads are model values.          *)
(***************************************************************************)
EXTENDS DelayedQueue
=============================================================================
