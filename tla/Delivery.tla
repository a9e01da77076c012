------------------------------ MODULE Delivery ------------------------------
(***************************************************************************)
(* What the maintainer's commands promise of a work item, free of phases,  *)
(* retries, failure budgets, projections and GitHub's errors.  A merge     *)
(* happens once per pull request and is recorded after it happened.  An    *)
(* item is delivered in four stages, each after the one before: all of it  *)
(* was merged and one command attests that, the run's success is assured,  *)
(* the request is on record, the delivery is.  Every command ends at most  *)
(* once, in success only for what it has seen done itself; a command that  *)
(* merged is not rejected as long as its issuer's authority stands.        *)
(***************************************************************************)

CONSTANTS Commands, Pulls, Heads, None

VARIABLES
  finalizes,    (* the commands that deliver; the others merge             *)
  wish,         (* the pull request and head that a command is to merge    *)
  outcome,      (* of each command                                         *)
  withdrawn,    (* commands whose issuer lost the authority                *)
  merged, made, (* what was merged, and the commands that merged           *)
  recorded,     (* merges on record                                        *)
  owner,        (* the command that attests the delivery                   *)
  assured, asked, delivered   (* the stages after that                     *)

commands == <<finalizes, wish, outcome, withdrawn>>
merges   == <<merged, made, recorded>>
stages   == <<owner, assured, asked, delivered>>
vars     == <<commands, merges, stages>>

Open(c) == outcome[c] = "open"
Ends(c, how) ==
  /\ Open(c) /\ outcome' = [outcome EXCEPT ![c] = how]
  /\ UNCHANGED <<finalizes, wish, withdrawn, merges, stages>>

Init ==
  /\ finalizes = {} /\ wish \in [Commands -> Pulls \X Heads]
  /\ outcome = [c \in Commands |-> "unissued"] /\ withdrawn = {}
  /\ merged = {} /\ made = {} /\ recorded = {}
  /\ owner = None /\ assured = FALSE /\ asked = FALSE /\ delivered = FALSE

Issue(c) ==
  /\ outcome[c] = "unissued" /\ outcome' = [outcome EXCEPT ![c] = "open"]
  /\ finalizes' \in {finalizes, finalizes \cup {c}}
  /\ \E w \in Pulls \X Heads : wish' = [wish EXCEPT ![c] = w]
  /\ UNCHANGED <<withdrawn, merges, stages>>

Withdraw(c) ==
  /\ withdrawn' = withdrawn \cup {c}
  /\ UNCHANGED <<finalizes, wish, outcome, merges, stages>>

(* People merge what they like, a command what it was issued for.          *)
Merge(p, h) ==
  /\ \A g \in Heads : <<p, g>> \notin merged
  /\ merged' = merged \cup {<<p, h>>}
  /\ \/ UNCHANGED made
     \/ \E c \in Commands \ finalizes :
          Open(c) /\ wish[c] = <<p, h>> /\ made' = made \cup {c}
  /\ UNCHANGED <<commands, recorded, stages>>

Note(w) ==
  /\ w \in merged /\ recorded' = recorded \cup {w}
  /\ UNCHANGED <<commands, merged, made, stages>>

Attest(c) ==
  /\ c \in finalizes /\ Open(c) /\ owner = None
  /\ \A p \in Pulls : \E h \in Heads : <<p, h>> \in merged
  /\ owner' = c
  /\ UNCHANGED <<commands, merges, assured, asked, delivered>>

Assure == assured' = TRUE /\ UNCHANGED <<commands, merges, owner, asked, delivered>>

Ask ==
  /\ owner # None /\ Open(owner) /\ assured /\ asked' = TRUE
  /\ UNCHANGED <<commands, merges, owner, assured, delivered>>

Deliver ==
  /\ owner # None /\ Open(owner) /\ asked /\ delivered' = TRUE
  /\ UNCHANGED <<commands, merges, owner, assured, asked>>

Succeed(c) ==
  /\ IF c \in finalizes THEN delivered /\ owner = c ELSE wish[c] \in recorded
  /\ Ends(c, "succeeded")

Reject(c) == (c \in made => c \in withdrawn) /\ Ends(c, "rejected")

Next ==
  \/ \E c \in Commands :
       Issue(c) \/ Withdraw(c) \/ Attest(c) \/ Succeed(c) \/ Reject(c)
  \/ \E p \in Pulls, h \in Heads : Merge(p, h) \/ Note(<<p, h>>)
  \/ Assure \/ Ask \/ Deliver

Spec == Init /\ [][Next]_vars

(* An item is delivered once: no two commands report its delivery, and     *)
(* what any command reports as done was done.                              *)
Reported == {c \in Commands : outcome[c] = "succeeded"}

ReportsAreTrue ==
  /\ \A c, d \in Reported \cap finalizes : c = d
  /\ \A c \in Reported \ finalizes : wish[c] \in merged
  /\ Reported \cap finalizes # {} =>
       assured /\ \A p \in Pulls : \E h \in Heads : <<p, h>> \in merged
=============================================================================
