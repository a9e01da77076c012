------------------------- MODULE SessionRefinement --------------------------
(***************************************************************************)
(* The session store implements InputRequest: the fate of a question read  *)
(* off the rows that answer it, the pending request and the history.       *)
(***************************************************************************)
EXTENDS SessionStore

HeldFor(q)   == \E m \in Msgs : answers[m] = q /\ held[m]
StandsFor(q) == \E m \in Msgs : answers[m] = q /\ Live(m)

Fate(q) ==
  IF q > nask THEN "unasked"
  ELSE IF q = asks THEN "open"
  ELSE IF q \in retired THEN "dropped"
  ELSE IF HeldFor(q) THEN "held"
  ELSE IF StandsFor(q) THEN "answered"
  ELSE "withdrawn"

fates == [q \in Reqs |-> Fate(q)]

Request == INSTANCE InputRequest WITH MaxQuestions <- MaxReqs, status <- fates

(* Whatever runners, users, controllers and timeouts do to rows and ids in *)
(* any order, a question only takes the steps of InputRequest: of the      *)
(* transactions of store.go, only the recovery of an expired hold puts a   *)
(* decided question back to the user, and only a held one.                 *)
ImplementsInputRequest == Request!Spec
=============================================================================
