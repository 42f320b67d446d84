------------------------- MODULE MCThreadPoolNested -------------------------
(* Instance of ThreadPoolNested for TLC. *)
EXTENDS ThreadPoolNested
=============================================================================
