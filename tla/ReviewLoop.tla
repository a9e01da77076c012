----------------------------- MODULE ReviewLoop -----------------------------
(***************************************************************************)
(* What the review loop promises of a pull request, free of runs, wakes,   *)
(* deliveries, cursors, verdict markers and broken-off handlers.  Nobody   *)
(* writes without having found the loop open first, but whoever has, may   *)
(* write late, over whatever was written since.  A loop is approved by an  *)
(* approval, blocked by a failed review or at the cap, resumed for a       *)
(* verdict below the cap or for a piece of feedback not on record.  Rounds *)
(* follow one another and stay within the cap and what feedback added.     *)
(*                                                                         *)
(* Two things are beyond it.  Whoever is crossed, by feedback recorded     *)
(* between reading the record and writing, may resume the loop once more   *)
(* for the same feedback and write an old record over the newer one, or    *)
(* leave the loop as it has become.  And an opening that is late starts    *)
(* over from the first round.  All reviews may be forgone then.            *)
(***************************************************************************)
EXTENDS Naturals, FiniteSets

CONSTANTS Actors, Rounds, MaxRounds, Events

VARIABLES
  state, round,
  verdict,            (* of each round's review, once there is one         *)
  approving, heard,   (* the feedback that approves; feedback acted on     *)
  record,             (* the feedback on record as acted on                *)
  resumed,            (* how often feedback has asked for work             *)
  forgone,            (* rounds that may do without a review               *)
  deciding, crossed   (* who found the loop open and is to write; of these *)
                      (* who missed what was recorded since                *)

loop    == <<state, round>>
reviews == <<verdict, approving, heard, record, resumed, forgone>>
deciders == <<deciding, crossed>>
vars    == <<loop, reviews, deciders>>

Over      == state \in {"approved", "blocked"}
Room      == MaxRounds + resumed
Restarted == forgone = Rounds

Feedback  == <<heard, record, resumed>>

Init ==
  /\ state = "none" /\ round = 0
  /\ verdict = [r \in Rounds |-> "none"]
  /\ approving \in SUBSET Events /\ heard = {} /\ record = {} /\ resumed = 0
  /\ forgone = {} /\ deciding = {} /\ crossed = {}

Decide(a) ==
  /\ ~Over /\ deciding' = deciding \cup {a}
  /\ UNCHANGED <<loop, reviews, crossed>>

Leaves(a) == deciding' = deciding \ {a} /\ crossed' = crossed \ {a}

(* Whoever gives up may leave a round without its review.                  *)
GiveUp(a) ==
  /\ Leaves(a)
  /\ forgone \subseteq forgone' /\ forgone' \subseteq Rounds
  /\ UNCHANGED <<loop, verdict, approving, Feedback>>

Judge(r) ==
  /\ state # "none" /\ verdict[r] = "none"
  /\ \E v \in {"approve", "changes", "failed"} : verdict' = [verdict EXCEPT ![r] = v]
  /\ UNCHANGED <<loop, approving, Feedback, forgone, deciders>>

Writes(a, next) ==
  /\ a \in deciding /\ Leaves(a)
  /\ state' = next
  /\ UNCHANGED <<verdict, approving, Feedback>>

Open(a) ==
  /\ Writes(a, "in_review") /\ round' = 1
  /\ forgone' = IF state = "none" THEN forgone ELSE Rounds

Accept(a) ==
  /\ Writes(a, "approved")
  /\ \E r \in Rounds : verdict[r] = "approve"
  /\ UNCHANGED <<round, forgone>>

AtCap == round >= MaxRounds \/ Restarted

Block(a) ==
  /\ Writes(a, "blocked")
  /\ \E r \in Rounds : verdict[r] = "failed" \/ (verdict[r] = "changes" /\ AtCap)
  /\ UNCHANGED <<round, forgone>>

Rework(a) ==
  /\ Writes(a, "resolving")
  /\ round < MaxRounds /\ \E r \in Rounds : verdict[r] = "changes"
  /\ UNCHANGED <<round, forgone>>

NextRound(a) ==
  /\ Writes(a, "in_review")
  /\ round' \in 1..Room /\ (round' = round + 1 \/ Restarted)
  /\ UNCHANGED forgone

(* Feedback takes its effect on the loop, unless it had it already when    *)
(* the record was read, and crosses whoever has read the record as well.   *)
Hears(a, e, next) ==
  /\ a \in deciding /\ deciding' = deciding \ {a}
  /\ state' \in {next, state}
  /\ heard' = heard \cup {e}
  /\ record' = record \cup {e} \/ (a \in crossed /\ record' \subseteq heard')
  /\ crossed' \subseteq deciding'
  /\ UNCHANGED <<round, verdict, approving, forgone>>

Approve(a) == \E e \in approving : Hears(a, e, "approved") /\ UNCHANGED resumed

Resolve(a) ==
  \E e \in Events \ approving :
    /\ e \notin record \/ a \in crossed
    /\ Hears(a, e, "resolving")
    /\ resumed' = resumed + 1

Next ==
  \/ \E a \in Actors :
       \/ Decide(a) \/ GiveUp(a) \/ Open(a) \/ Accept(a) \/ Block(a) \/ Rework(a)
       \/ NextRound(a) \/ Approve(a) \/ Resolve(a)
  \/ \E r \in Rounds : Judge(r)

Spec == Init /\ [][Next]_vars

(* A loop ends for a reason, and within its rounds: approved, there is an  *)
(* approval; blocked, there is a failed review, or one that asked for more *)
(* work than the cap allows.                                               *)
EndsAreEarned ==
  /\ state = "approved" =>
       (\E r \in Rounds : verdict[r] = "approve") \/ heard \cap approving # {}
  /\ state = "blocked" =>
       \E r \in Rounds : verdict[r] = "failed" \/ (verdict[r] = "changes" /\ AtCap)
  /\ round <= Room
=============================================================================
