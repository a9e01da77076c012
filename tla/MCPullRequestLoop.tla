------------------------- MODULE MCPullRequestLoop -------------------------
(* TLC instance of the review loop of one pull request. *)
EXTENDS ReviewLoopRefinement
=============================================================================
