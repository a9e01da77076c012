--------------------------- MODULE MCWakeProtocol ---------------------------
(* TLC instance of the wake protocol. *)
EXTENDS WakeRefinement
=============================================================================
