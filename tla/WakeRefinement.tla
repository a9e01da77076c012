--------------------------- MODULE WakeRefinement ---------------------------
(***************************************************************************)
(* The wake protocol implements Wake: what is owed is read off the two     *)
(* counters, who was told off the calls, the fate of a message off the     *)
(* history.  A key that an unkeyed wake has outdated is told what does not *)
(* hold (raced) and is no sender that counts as told; an unlocked patch    *)
(* that lowers the counter ends the promise.                               *)
(***************************************************************************)
EXTENDS WakeProtocol

ToldOf  == {c \in Callers : In(c, "done")} \ raced
StateOf == IF phase \in {"succeeded", "failed"} THEN "ended" ELSE phase

Promised == INSTANCE Wake WITH
  Senders <- Callers, sent <- stored, read <- settled, owed <- Outstanding,
  told <- ToldOf, state <- StateOf, void <- lowered

(* Whatever callers, users, the run and its controller do in any order,    *)
(* break off and try again, it only takes the steps of Wake.               *)
ImplementsWake == Promised!Spec
=============================================================================
