---------------------------- MODULE InputRequest ----------------------------
(***************************************************************************)
(* What the session promises of the questions an agent asks, free of rows, *)
(* ids, triggers and timeouts.  At most one question is open.  An open     *)
(* question is answered, or taken into custody by an overseer (held), or   *)
(* dropped.  A held one is answered when it is released, withdrawn, or put *)
(* back after a timeout.  Nothing else ever happens to a question: it      *)
(* never goes from answered, dropped or withdrawn back to the user.        *)
(***************************************************************************)
EXTENDS Naturals

CONSTANT MaxQuestions   (* bound: questions ever asked                     *)

VARIABLE status         (* the fate of each question                       *)

Questions == 1..MaxQuestions
Fates     == {"unasked", "open", "held", "answered", "dropped", "withdrawn"}

Are(fate) == {q \in Questions : status[q] = fate}

(* The questions of Q meet one fate, the others keep theirs.               *)
Become(Q, fate) == status' = [q \in Questions |-> IF q \in Q THEN fate ELSE status[q]]

Init == status = [q \in Questions |-> "unasked"]

(* A new question replaces the open one.                                   *)
Ask(q) ==
  /\ q \in Are("unasked")
  /\ \A p \in Are("unasked") : q <= p
  /\ status' = [p \in Questions |-> IF p = q THEN "open"
                                    ELSE IF p \in Are("open") THEN "dropped"
                                    ELSE status[p]]

Drop(q)    == q \in Are("open") /\ Become({q}, "dropped")
Answer(q)  == q \in Are("open") /\ Become({q}, "answered")
Hold(q)    == q \in Are("open") /\ Become({q}, "held")
Release(q) == q \in Are("held") /\ Become({q}, "answered")

(* A response is withdrawn, by its author or by a timeout.                 *)
Withdraw(Q) == Q \subseteq Are("held") \cup Are("answered") /\ Become(Q, "withdrawn")

(* A timeout withdraws the held responses Q and puts question q, one of    *)
(* theirs, back to the user.                                               *)
PutBack(Q, q) ==
  /\ Q \subseteq Are("held")
  /\ q \in Q
  /\ Are("open") = {}
  /\ status' = [p \in Questions |-> IF p = q THEN "open"
                                    ELSE IF p \in Q THEN "withdrawn"
                                    ELSE status[p]]

Next ==
  \/ \E q \in Questions : Ask(q) \/ Drop(q) \/ Answer(q) \/ Hold(q) \/ Release(q)
  \/ \E Q \in SUBSET Questions : Withdraw(Q) \/ \E q \in Q : PutBack(Q, q)

Spec == Init /\ [][Next]_status
=============================================================================
