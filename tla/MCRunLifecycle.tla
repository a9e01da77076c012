--------------------------- MODULE MCRunLifecycle ---------------------------
(* TLC instance of the life of one run. *)
EXTENDS RunLifeRefinement
=============================================================================
