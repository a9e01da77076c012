------------------------ MODULE MCMaintainerDelivery ------------------------
(* TLC instance of merge and finalize commands. *)
EXTENDS DeliveryRefinement
=============================================================================
