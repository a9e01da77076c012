------------------------------ MODULE RunLife ------------------------------
(***************************************************************************)
(* What the controller promises of a run, free of reconciles, copies,      *)
(* drains, admission, claims and retries.  A run is open, ended or gone.   *)
(* It is worked on by one worker at a time, who belongs to the current     *)
(* attempt and is on record.  An attempt begins, a record is given up and  *)
(* a run is deleted only when nobody is at work.  An ended run goes on for *)
(* a wake, which is used up; a run is gone because that was asked for.  A  *)
(* request is forgotten once the run has ended, or by somebody who noted   *)
(* it while the run had ended, and is behind the times if it was woken.    *)
(*                                                                         *)
(* Two things are beyond the controller: others may revive an ended run    *)
(* (overruled, for good), and a worker may have slipped off the record     *)
(* (leaky, until nobody is found at work).                                 *)
(***************************************************************************)
EXTENDS Naturals

CONSTANT Requests     (* among them "gone"                                 *)

VARIABLES
  life,               (* "open", "ended" or "gone"                         *)
  asked, woken,       (* requests to end or delete the run, and to go on   *)
  noted,              (* requests of an ended run, by an old account of it *)
  attempt,
  record,             (* "held" by a worker, now or very soon, or "free"   *)
  working,            (* the attempts somebody works on                    *)
  flaws               (* history: "overruled", "leaky"                     *)

wishes == <<asked, woken>>
work   == <<attempt, record, working>>
vars   == <<life, wishes, noted, work, flaws>>

Init ==
  /\ life = "open" /\ asked = {} /\ woken \in BOOLEAN /\ noted = {}
  /\ attempt = 0 /\ record = "free" /\ working = {}
  /\ flaws = {}

(* Whoever frees the record has seen the worker go, or missed it.          *)
Nobody == working = {} \/ "leaky" \in flaws'
Frees  == Nobody /\ record' = "free"
Worsen == flaws \subseteq flaws'
Unwake == woken' \in {woken, FALSE}

(* An account of the run may be lost, and only an ended run gives a new    *)
(* reason to forget.                                                       *)
Noted == noted' \subseteq noted \cup (IF life = "ended" THEN asked ELSE {})

Request ==
  /\ life # "gone"
  /\ asked \subseteq asked' /\ asked' \subseteq Requests
  /\ woken' \in {woken, TRUE}
  /\ UNCHANGED <<life, work, flaws>>

(* The wake is used up if the run had ended, and may be otherwise.         *)
Begin ==
  /\ life # "gone" /\ Frees
  /\ life = "ended" => woken = TRUE /\ woken' = FALSE
  /\ Unwake
  /\ life' = "open" /\ attempt' = attempt + 1
  /\ Worsen
  /\ UNCHANGED <<asked, working>>

(* A stop supersedes the wakes before it.                                  *)
End ==
  /\ life = "open" /\ life' = "ended"
  /\ Unwake
  /\ UNCHANGED record \/ Frees
  /\ UNCHANGED <<asked, attempt, working, flaws>>

Settle ==
  /\ life = "ended" \/ "overruled" \in flaws \/ asked \subseteq asked' \cup noted
  /\ asked' \subseteq asked /\ Unwake
  /\ UNCHANGED <<life, work, flaws>>

Delete ==
  /\ "gone" \in asked /\ Nobody
  /\ life' = "gone" /\ asked' = {}
  /\ UNCHANGED <<woken, work, flaws>>

(* A worker that has slipped off the record may be taken for another one.  *)
Keep ==
  /\ life # "gone" /\ record' = "held"
  /\ UNCHANGED working \/ ("leaky" \in flaws' /\ \E a \in 0..attempt : working' = {a})
  /\ Worsen
  /\ UNCHANGED <<life, wishes, attempt>>

GiveUp ==
  /\ Frees /\ Worsen
  /\ UNCHANGED <<life, wishes, attempt, working>>

Work ==
  /\ working = {}
  /\ \/ record = "held" /\ life # "gone" /\ working' = {attempt}
     \/ "leaky" \in flaws /\ \E a \in 0..attempt : working' = {a}
  /\ UNCHANGED <<life, wishes, attempt, record, flaws>>

Leave ==
  /\ working' = {}
  /\ UNCHANGED <<life, wishes, attempt, record, flaws>>

Revive ==
  /\ life = "ended" /\ life' = "open" /\ "overruled" \in flaws' /\ Worsen
  /\ UNCHANGED record \/ Frees
  /\ UNCHANGED <<wishes, attempt, working>>

Slip == Worsen /\ UNCHANGED <<life, wishes, work>>
Mend == working = {} /\ flaws' = flaws \ {"leaky"} /\ UNCHANGED <<life, wishes, work>>

Act ==
  \/ Request \/ Begin \/ End \/ Settle \/ Delete
  \/ Keep \/ GiveUp \/ Work \/ Leave
  \/ Revive \/ Slip \/ Mend

Next == Noted /\ Act

Spec == Init /\ [][Next]_vars

(* Nobody works on an attempt that is over, off the record or on a run     *)
(* that is gone.                                                           *)
OneWorker ==
  "leaky" \in flaws \/ \A a \in working : a = attempt /\ record = "held" /\ life # "gone"

(* An ended run goes on for a wake, which is used up, or is revived; and a *)
(* request is forgotten by a run that is over, or was when it was noted.   *)
EndsHold ==
  [][/\ life = "ended" /\ life' = "open" =>
          (woken = TRUE /\ woken' = FALSE) \/ "overruled" \in flaws'
     /\ \/ asked \subseteq asked' \cup noted
        \/ life = "ended" \/ life' = "gone" \/ "overruled" \in flaws]_vars
=============================================================================
