------------------------------ MODULE LoggerMC ------------------------------
(***************************************************************************)
(* A small instance of Logger. The threads are model values.               *)
(***************************************************************************)
EXTENDS Logger
=============================================================================
