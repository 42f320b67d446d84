--------------------------- MODULE MCSpscTaskQueue ---------------------------
(* Instance of SpscTaskQueue for TLC. *)
EXTENDS SpscTaskQueue
==============================================================================
