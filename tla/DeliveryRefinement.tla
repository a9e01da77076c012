------------------------- MODULE DeliveryRefinement -------------------------
(***************************************************************************)
(* Merge and finalize commands implement Delivery: a command is open until *)
(* its phase is terminal, and what GitHub merged at which head is read off *)
(* the pull requests.                                                      *)
(***************************************************************************)
EXTENDS MaintainerDelivery

Wish    == [c \in Commands |-> <<on[c], expects[c]>>]
Outcome == [c \in Commands |-> IF phase[c] \in Waiting THEN "open" ELSE phase[c]]
Merged  == {<<p, pull[p].head>> : p \in {q \in Pulls : pull[q].state = "merged"}}
Made    == {c \in Commands : \E p \in Pulls : mergedBy[p] = c}
Assured == promoted \/ run = "succeeded"

Commanded == INSTANCE Delivery WITH
  wish <- Wish, outcome <- Outcome, withdrawn <- barred, merged <- Merged, made <- Made,
  recorded <- verified, owner <- attested, assured <- Assured

(* Wherever commands break off and whatever people do meanwhile, merge and *)
(* finalize commands only take the steps of Delivery: no stage before the  *)
(* last, no merge on record that did not happen, no second outcome, and no *)
(* command rejected that merged, unless its issuer's authority is gone.    *)
ImplementsDelivery == Commanded!Spec
=============================================================================
