------------------------ MODULE ReviewLoopRefinement ------------------------
(***************************************************************************)
(* The handlers of the review loop implement ReviewLoop: its state is the  *)
(* label on the implementer's run, a review's verdict is the end of the    *)
(* round's reviewer run, whoever is at a step that writes the label is     *)
(* deciding, and crossed with a copy older than the list of feedback.      *)
(***************************************************************************)
EXTENDS PullRequestLoop

Verdict  == [r \in Rounds |-> IF reviewer[r] \in Completed THEN reviewer[r] ELSE "none"]
Deciding == {a \in Actors : Writing(a)}
Crossed  == {a \in Actors : At(a, "patch") /\ copy[a].ids # seenIds}

Reviewed == INSTANCE ReviewLoop WITH
  state <- loopState, verdict <- Verdict, approving <- approvals,
  heard <- acted, record <- seenIds, forgone <- orphaned,
  deciding <- Deciding, crossed <- Crossed

(* However deliveries overlap, repeat, break off and act on what they read *)
(* a while ago, the loop only takes the steps of ReviewLoop: nobody starts *)
(* to write a loop that is over, no approval without somebody's approval,  *)
(* no block below the cap for a review that asked for work, no work twice  *)
(* for one piece of feedback but for deliveries that cross, no round       *)
(* skipped or beyond what the cap and feedback allow.                      *)
ImplementsReviewLoop == Reviewed!Spec
=============================================================================
