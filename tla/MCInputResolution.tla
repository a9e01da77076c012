------------------------- MODULE MCInputResolution --------------------------
(* TLC instance of the parties to one pending input request, with the      *)
(* abstract questions their steps implement.                               *)
EXTENDS InputResolution, SessionRefinement
=============================================================================
