------------------------- MODULE MaintainerDelivery -------------------------
(***************************************************************************)
(* How the repository maintainer's RequestMerge and FinalizeWorkItem       *)
(* commands deliver one work item (maintainerworkitem_delivery.go).  A     *)
(* merge cannot be taken back, so that its attempt is recorded before it   *)
(* is submitted, and a command that attempted one only reads GitHub from   *)
(* then on.  Finalizing attests the delivery, asks the implementer's run   *)
(* to succeed, closes the issue and completes the attestation, one write   *)
(* each.                                                                   *)
(*                                                                         *)
(* One worker processes the commands, any of which breaks off at any write *)
(* and is taken up again from its phase.  People push, merge, close and    *)
(* reopen meanwhile, and the item shows pull requests and run as they were *)
(* when last projected.                                                    *)
(*                                                                         *)
(* The item has no children or dependencies and a single implementer.      *)
(* Policy, reviews and checks of a merge are a choice, an issuer's         *)
(* authority and the repository's permissions are one condition (barred),  *)
(* as are a pending command's preconditions.                               *)
(***************************************************************************)
EXTENDS Naturals, FiniteSets

CONSTANTS
  Pulls,          (* the pull requests of the item                         *)
  FailureBudget,  (* maintainerCommandFailureBudget                        *)
  MaxCommands,    (* bound: commands issued                                *)
  MaxPushes,      (* bound: pushes to a pull request                       *)
  MaxErrors       (* bound: API errors, crashes, and people's reversals    *)

Commands == 1..MaxCommands
None     == 0
Heads    == 0..MaxPushes

ASSUME DeliveryAssumption ==
  /\ IsFiniteSet(Pulls) /\ Pulls # {}
  /\ FailureBudget \in Nat \ {0}
  /\ MaxCommands \in Nat /\ MaxPushes \in Nat /\ MaxErrors \in Nat

VARIABLES
  pull,              (* each pull request at GitHub: its state and head    *)
  run, promoted,     (* the implementer's run, and whether it was asked to succeed *)
  issue,             (* the issue: open, closed as completed, or otherwise *)
  seenPull, seenRun, (* the item's projection of pull requests and run     *)
  decision,          (* the item has a pending decision                    *)
  verified,          (* status.verifiedMerges, as pairs of pull and head   *)
  attested, asked, delivered,  (* the attestation: its command, RunSuccessRequestedAt *)
                     (* and CompletedAt                                    *)
  finalizes, on, expects,  (* each command: whether it finalizes, or its pull *)
                     (* request and expected head                          *)
  phase, fails, attempted,  (* its phase, failures, and MergeAttemptedAt   *)
  barred,            (* commands whose issuer or permission is gone        *)
  call,              (* the worker: its step and command                   *)
  errors,            (* counter of the bound                               *)
  submits, mergedBy  (* history: merges submitted, and the command whose   *)
                     (* submission merged a pull request                   *)

github    == <<pull, run, promoted, issue>>
shown     == <<seenPull, seenRun, decision>>
record    == <<verified, attested, asked, delivered>>
payload   == <<finalizes, on, expects>>
status    == <<phase, fails, attempted>>
history   == <<submits, mergedBy>>
deliveryVars == <<github, shown, record, payload, status, barred, call, errors, history>>

Waiting  == {"pending", "accepted", "failed"}
Terminal == {"succeeded", "rejected"}
PullRequest == [state : {"open", "merged", "closed"}, head : Heads]
Steps == {"idle", "reread", "accept", "gates", "reserve", "submit", "confirmMerge", "record",
          "verify", "attest", "ask", "recordAsk", "close", "confirmClose", "deliver",
          "complete", "count", "fail"}

DeliveryTypeOK ==
  /\ pull \in [Pulls -> PullRequest] /\ seenPull \in [Pulls -> PullRequest]
  /\ run \in {"running", "succeeded", "failed"} /\ seenRun \in {"running", "succeeded", "failed"}
  /\ promoted \in BOOLEAN /\ issue \in {"open", "completed", "notPlanned"} /\ decision \in BOOLEAN
  /\ verified \subseteq Pulls \X Heads
  /\ attested \in {None} \cup finalizes /\ asked \in BOOLEAN /\ delivered \in BOOLEAN
  /\ finalizes \subseteq Commands /\ on \in [Commands -> Pulls] /\ expects \in [Commands -> Heads]
  /\ phase \in [Commands -> {"unissued"} \cup Waiting \cup Terminal]
  /\ fails \in [Commands -> 0..FailureBudget]
  /\ attempted \subseteq Commands \ finalizes /\ barred \subseteq Commands
  /\ call \in [step : Steps, cmd : {None} \cup Commands]
  /\ errors \in 0..MaxErrors
  /\ submits \in [Commands -> Nat] /\ mergedBy \in [Pulls -> {None} \cup Commands]

DeliveryInit ==
  /\ pull = [p \in Pulls |-> [state |-> "open", head |-> 0]] /\ seenPull = pull
  /\ run = "running" /\ seenRun = "running" /\ promoted = FALSE
  /\ issue = "open" /\ decision = FALSE
  /\ verified = {} /\ attested = None /\ asked = FALSE /\ delivered = FALSE
  /\ finalizes = {} /\ on = [c \in Commands |-> CHOOSE p \in Pulls : TRUE] /\ expects = [c \in Commands |-> 0]
  /\ phase = [c \in Commands |-> "unissued"]
  /\ fails = [c \in Commands |-> 0] /\ attempted = {} /\ barred = {}
  /\ call = [step |-> "idle", cmd |-> None] /\ errors = 0
  /\ submits = [c \in Commands |-> 0] /\ mergedBy = [p \in Pulls |-> None]

-----------------------------------------------------------------------------
(* The worker's steps.                                                     *)
Idle          == call.step = "idle"
At(c, step)   == call = [step |-> step, cmd |-> c]
Goto(c, step) == call' = [step |-> step, cmd |-> c] /\ UNCHANGED status
Leave         == call' = [step |-> "idle", cmd |-> None]
Err           == errors < MaxErrors /\ errors' = errors + 1
NoErr         == UNCHANGED errors

(* A terminal rejection replaces the result, MergeAttemptedAt with it.     *)
Settle(c, p) ==
  /\ phase' = [phase EXCEPT ![c] = p]
  /\ UNCHANGED fails
  /\ Leave

Reject(c) == Settle(c, "rejected") /\ attempted' = attempted \ {c}

(* maintainerCommandHasDurableSideEffects, and the retry budget.           *)
(* (Mutant: an attempted merge does not count.)                            *)
DurableAttestation(c) == c \in finalizes /\ attested = c /\ ~delivered

Durable(c)   == c \in attempted \/ (c \in finalizes /\ attested = c /\ ~delivered)
Exhausted(c) == phase[c] = "failed" /\ fails[c] >= FailureBudget /\ ~Durable(c)

Recorded(p)  == {h \in Heads : <<p, h>> \in verified}
Candidate(c) == seenPull[on[c]] = [state |-> "open", head |-> expects[c]]

(* maintainerFinalizationUnmet, on the item as projected.                  *)
Unmet ==
  \/ decision
  \/ \E p \in Pulls : seenPull[p].state = "open"
  \/ \A p \in Pulls : seenPull[p].state # "merged"
  \/ seenRun = "failed"

(* The start of a pass over command c.                                     *)
BeginMerge(c) ==
  /\ c \notin finalizes
  /\ \/ Recorded(on[c]) = {expects[c]} /\ Goto(c, "complete")
     \/ Recorded(on[c]) = {} /\ c \in attempted /\ Goto(c, "reread")
     \/ /\ Recorded(on[c]) = {} /\ c \notin attempted /\ Candidate(c)
        /\ Goto(c, IF phase[c] = "pending" THEN "accept" ELSE "gates")
     \/ Recorded(on[c]) \notin {{}, {expects[c]}} /\ Reject(c)
     \/ Recorded(on[c]) = {} /\ c \notin attempted /\ Reject(c)

BeginFinalize(c) ==
  /\ c \in finalizes
  /\ \/ delivered /\ attested = c /\ Goto(c, "complete")
     \/ delivered /\ attested # c /\ Reject(c)
     \/ ~delivered /\ Unmet /\ Reject(c)
     \/ ~delivered /\ ~Unmet /\ Goto(c, "verify")

Begin(c) ==
  /\ Idle /\ phase[c] \in Waiting
  /\ IF c \in barred \/ Exhausted(c) THEN Reject(c)
     ELSE BeginMerge(c) \/ BeginFinalize(c) \/ (phase[c] = "pending" /\ Reject(c))
  /\ NoErr /\ UNCHANGED <<github, shown, record, payload, barred, history>>

(* setMaintainerWorkItemCommandAccepted.                                   *)
Accept(c) ==
  /\ At(c, "accept")
  /\ phase' = [phase EXCEPT ![c] = "accepted"] /\ attempted' = attempted \ {c}
  /\ call' = [step |-> IF c \in finalizes THEN "attest" ELSE "gates", cmd |-> c]
  /\ UNCHANGED <<github, shown, record, payload, fails, barred, errors, history>>

-----------------------------------------------------------------------------
(* processMaintainerRequestMerge.  The reads of GitHub before the merge.   *)
Gates(c) == LET pr == pull[on[c]] IN
  /\ At(c, "gates")
  /\ \/ Err /\ Goto(c, "count")
     \/ NoErr /\ pr.state = "merged" /\ Goto(c, "record")
     \/ NoErr /\ pr = [state |-> "open", head |-> expects[c]] /\ Goto(c, "reserve")
     \/ NoErr /\ pr.state # "merged" /\ Reject(c)
  /\ UNCHANGED <<github, shown, record, payload, barred, history>>

(* Mutant: the attempt is only remembered, not written.                    *)
ReserveInMemory(c) ==
  /\ At(c, "reserve")
  /\ Goto(c, "submit")
  /\ UNCHANGED <<github, shown, record, payload, barred, errors, history>>

(* reserveMaintainerMergeAttempt.                                          *)
ReserveAttempt(c) ==
  /\ At(c, "reserve")
  /\ attempted' = attempted \cup {c}
  /\ call' = [step |-> "submit", cmd |-> c]
  /\ UNCHANGED <<github, shown, record, payload, phase, fails, barred, errors, history>>

(* GitHub merges only the head it is given.                                *)
Merges(c) == LET p == on[c] IN
  /\ pull[p] = [state |-> "open", head |-> expects[c]]
  /\ pull' = [pull EXCEPT ![p].state = "merged"]
  /\ mergedBy' = [mergedBy EXCEPT ![p] = c]

(* MergePullRequest: done, refused, or an error that says nothing.         *)
Submit(c) ==
  /\ At(c, "submit")
  /\ submits' = [submits EXCEPT ![c] = @ + 1]
  /\ \/ NoErr /\ Merges(c) /\ Goto(c, "confirmMerge")
     \/ NoErr /\ UNCHANGED <<pull, mergedBy>> /\ Goto(c, "count")
     \/ Err /\ Merges(c) /\ Goto(c, "count")
  /\ UNCHANGED <<run, promoted, issue, shown, record, payload, barred>>

(* The read after the merge.  GitHub may not have caught up.               *)
ConfirmMerge(c) ==
  /\ At(c, "confirmMerge")
  /\ \/ Err /\ Goto(c, "count")
     \/ NoErr /\ pull[on[c]].state = "merged" /\ Goto(c, "record")
  /\ UNCHANGED <<github, shown, record, payload, barred, history>>

(* A merge attempted before is only looked for.                            *)
Reread(c) == LET pr == pull[on[c]] IN
  /\ At(c, "reread")
  /\ \/ Err /\ Goto(c, "count")
     \/ NoErr /\ pr.state = "merged" /\ Goto(c, "record")
     \/ /\ NoErr /\ pr.state # "merged"
        /\ IF pr = [state |-> "open", head |-> expects[c]] THEN Goto(c, "count") ELSE Reject(c)
  /\ UNCHANGED <<github, shown, record, payload, barred, history>>

(* verifyAndRecordMaintainerMerge, after a read that found the merge.      *)
Record(c) == LET p == on[c] IN
  /\ At(c, "record")
  /\ IF pull[p].head # expects[c] THEN Goto(c, "count") /\ UNCHANGED verified
     ELSE /\ verified' = IF Recorded(p) = {} THEN verified \cup {<<p, expects[c]>>} ELSE verified
          /\ Goto(c, "complete")
  /\ UNCHANGED <<github, shown, attested, asked, delivered, payload, barred, errors, history>>

-----------------------------------------------------------------------------
(* processMaintainerFinalizeWorkItem.  Every projected pull request is     *)
(* read again, those closed without a merge too.                           *)
Verify(c) ==
  /\ At(c, "verify")
  /\ \/ Err /\ Goto(c, "count")
     \/ /\ NoErr
        /\ IF \A p \in Pulls : pull[p].state = "merged" /\ pull[p].head = seenPull[p].head
           THEN Goto(c, IF phase[c] = "pending" THEN "accept" ELSE "attest")
           ELSE Reject(c)
  /\ UNCHANGED <<github, shown, record, payload, barred, history>>

(* Mutant: any attestation will do.                                        *)
AttestAny(c) ==
  /\ At(c, "attest")
  /\ attested' = (IF attested = None THEN c ELSE attested) /\ Goto(c, "ask")
  /\ UNCHANGED <<github, shown, verified, asked, delivered, payload, barred, errors, history>>

(* ensureMaintainerDeliveryAttestation: another command's is an error that *)
(* nobody handles.                                                         *)
Attest(c) ==
  /\ At(c, "attest")
  /\ \/ attested \in {None, c} /\ attested' = c /\ Goto(c, "ask")
     \/ attested \notin {None, c} /\ UNCHANGED <<attested, status>> /\ Leave
  /\ UNCHANGED <<github, shown, verified, asked, delivered, payload, barred, errors, history>>

(* requestMaintainerRunSuccess.                                            *)
Ask(c) ==
  /\ At(c, "ask")
  /\ Goto(c, IF run = "failed" THEN "count" ELSE "recordAsk")
  /\ promoted' = (promoted \/ run = "running")
  /\ UNCHANGED <<pull, run, issue, shown, record, payload, barred, errors, history>>

(* recordMaintainerRunSuccessRequested.                                    *)
RecordAsk(c) ==
  /\ At(c, "recordAsk")
  /\ asked' = TRUE /\ Goto(c, "close")
  /\ UNCHANGED <<github, shown, verified, attested, delivered, payload, barred, errors, history>>

CloseIssue(c) ==
  /\ At(c, "close")
  /\ \/ NoErr /\ issue' = "completed" /\ Goto(c, "confirmClose")
     \/ Err /\ issue' \in {issue, "completed"} /\ Goto(c, "count")
  /\ UNCHANGED <<pull, run, promoted, shown, record, payload, barred, history>>

ConfirmClose(c) ==
  /\ At(c, "confirmClose")
  /\ \/ Err /\ Goto(c, "count")
     \/ NoErr /\ Goto(c, IF issue = "completed" THEN "deliver" ELSE "count")
  /\ UNCHANGED <<github, shown, record, payload, barred, history>>

(* completeMaintainerDeliveryAttestation.                                  *)
Deliver(c) ==
  /\ At(c, "deliver")
  /\ delivered' = TRUE /\ Goto(c, "complete")
  /\ UNCHANGED <<github, shown, verified, attested, asked, payload, barred, errors, history>>

-----------------------------------------------------------------------------
(* completeMaintainerWorkItemCommand.                                      *)
Complete(c) ==
  /\ At(c, "complete")
  /\ Settle(c, "succeeded") /\ UNCHANGED attempted
  /\ UNCHANGED <<github, shown, record, payload, barred, errors, history>>

(* failMaintainerWorkItemCommand: the count, then the phase.  Failures     *)
(* past the budget are not told apart.                                     *)
Count(c) ==
  /\ At(c, "count")
  /\ fails' = [fails EXCEPT ![c] = IF @ < FailureBudget THEN @ + 1 ELSE @]
  /\ call' = [step |-> "fail", cmd |-> c]
  /\ UNCHANGED <<github, shown, record, payload, phase, attempted, barred, errors, history>>

Fail(c) ==
  /\ At(c, "fail")
  /\ Settle(c, "failed") /\ UNCHANGED attempted
  /\ UNCHANGED <<github, shown, record, payload, barred, errors, history>>

(* A crash, or an error of the Kubernetes API: what GitHub was asked for   *)
(* may have been done.                                                     *)
Breaks(c) ==
  /\ ~Idle /\ call.cmd = c /\ Err /\ Leave
  /\ \/ UNCHANGED <<pull, mergedBy, submits, issue>>
     \/ At(c, "submit") /\ Merges(c) /\ submits' = [submits EXCEPT ![c] = @ + 1] /\ UNCHANGED issue
     \/ At(c, "close") /\ issue' = "completed" /\ UNCHANGED <<pull, mergedBy, submits>>
  /\ UNCHANGED <<run, promoted, shown, record, payload, status, barred>>

(* reconcileMaintainerExecutionProjection.                                 *)
Project ==
  /\ Idle
  /\ <<seenPull, seenRun>> # <<pull, run>>
  /\ seenPull' = pull /\ seenRun' = run
  /\ UNCHANGED <<github, decision, record, payload, status, barred, call, errors, history>>

-----------------------------------------------------------------------------
(* Everything the maintainer, people, GitHub and the run do.               *)
world == <<shown, record, status, call, history>>

IssueCommand(c) ==
  /\ phase[c] = "unissued" /\ \A d \in Commands : d < c => phase[d] # "unissued"
  /\ phase' = [phase EXCEPT ![c] = "pending"]
  /\ \/ finalizes' = finalizes \cup {c} /\ UNCHANGED <<on, expects>>
     \/ \E p \in Pulls :
          /\ on' = [on EXCEPT ![c] = p]
          /\ expects' = [expects EXCEPT ![c] = seenPull[p].head]
          /\ UNCHANGED finalizes
  /\ UNCHANGED <<github, shown, record, fails, attempted, barred, call, errors, history>>

Bar(c) ==
  /\ phase[c] # "unissued" /\ c \notin barred
  /\ barred' = barred \cup {c}
  /\ UNCHANGED <<github, world, payload, errors>>

Push(p) ==
  /\ pull[p].state = "open" /\ pull[p].head < MaxPushes
  /\ pull' = [pull EXCEPT ![p].head = @ + 1]
  /\ UNCHANGED <<run, promoted, issue, world, payload, barred, errors>>

PersonMerges(p) ==
  /\ pull[p].state = "open"
  /\ pull' = [pull EXCEPT ![p].state = "merged"]
  /\ UNCHANGED <<run, promoted, issue, world, payload, barred, errors>>

PersonCloses(p) ==
  /\ pull[p].state = "open"
  /\ pull' = [pull EXCEPT ![p].state = "closed"]
  /\ UNCHANGED <<run, promoted, issue, world, payload, barred, errors>>

PersonReopens(p) ==
  /\ pull[p].state = "closed" /\ Err
  /\ pull' = [pull EXCEPT ![p].state = "open"]
  /\ UNCHANGED <<run, promoted, issue, world, payload, barred>>

IssueChanges ==
  /\ Err /\ issue' \in {"open", "notPlanned"} \ {issue}
  /\ UNCHANGED <<pull, run, promoted, world, payload, barred>>

DecisionArises ==
  /\ Idle /\ ~decision /\ Err /\ decision' = TRUE
  /\ UNCHANGED <<github, seenPull, seenRun, record, payload, status, barred, call, history>>

DecisionResolved ==
  /\ Idle /\ decision /\ decision' = FALSE
  /\ UNCHANGED <<github, seenPull, seenRun, record, payload, status, barred, call, errors, history>>

RunEnds ==
  /\ run = "running" /\ run' \in {"succeeded", "failed"}
  /\ UNCHANGED <<pull, promoted, issue, world, payload, barred, errors>>

Process(c) ==
  \/ Accept(c) \/ Gates(c) \/ ReserveAttempt(c) \/ Submit(c) \/ ConfirmMerge(c) \/ Reread(c) \/ Record(c)
  \/ Verify(c) \/ Attest(c) \/ Ask(c) \/ RecordAsk(c) \/ CloseIssue(c) \/ ConfirmClose(c) \/ Deliver(c)
  \/ Complete(c) \/ Count(c) \/ Fail(c)

DeliveryNext ==
  \/ \E c \in Commands :
       Begin(c) \/ Process(c) \/ Breaks(c) \/ Bar(c) \/ IssueCommand(c)
  \/ \E p \in Pulls : Push(p) \/ PersonMerges(p) \/ PersonCloses(p) \/ PersonReopens(p)
  \/ Project \/ IssueChanges \/ DecisionArises \/ DecisionResolved \/ RunEnds

DeliverySpec ==
  /\ DeliveryInit /\ [][DeliveryNext]_deliveryVars
  /\ \A c \in Commands : SF_deliveryVars(Begin(c)) /\ WF_deliveryVars(Process(c))
  /\ SF_deliveryVars(Project)

-----------------------------------------------------------------------------
(* Properties.                                                             *)

(* However often a merge command fails, breaks off and is tried again, it  *)
(* submits one merge at most; what it merged is the head it was issued for, *)
(* although people push at any time; and a merge is on record only if it   *)
(* happened.                                                               *)
MergesAreSafe ==
  /\ \A c \in Commands : submits[c] <= 1
  /\ \A p \in Pulls : LET c == mergedBy[p] IN
       c # None => on[c] = p /\ pull[p] = [state |-> "merged", head |-> expects[c]]
  /\ \A p \in Pulls : \A h \in Recorded(p) : pull[p] = [state |-> "merged", head |-> h]

(* A finalize command succeeds only for the delivery it attested itself,   *)
(* and an item is delivered only when its pull requests were merged and    *)
(* its run had succeeded or been asked to, wherever commands broke off.    *)
DeliveryIsEarned ==
  /\ delivered => /\ attested # None /\ asked /\ (promoted \/ run = "succeeded")
                  /\ \A p \in Pulls : pull[p].state = "merged"
  /\ \A c \in finalizes : phase[c] = "succeeded" => delivered /\ attested = c

(* A merge that a command made is recorded, however late the worker learns *)
(* of it and however often it fails first, unless the command's issuer     *)
(* loses the authority.  An accepted finalize command comes to an end,     *)
(* although every one of its writes may break off, unless the item carries *)
(* the attestation of another command.                                     *)
CommandsConclude ==
  /\ []<>(\A p \in Pulls : mergedBy[p] \notin barred \cup {None} => Recorded(p) # {})
  /\ []<>(\A c \in finalizes : phase[c] \in {"accepted", "failed"} => attested \notin {None, c})

(* The failure budget's comment says that no command is reprocessed on     *)
(* every reconcile forever: a finalize command comes to an end.            *)
FinalizeSettles ==
  \A c \in Commands : (c \in finalizes /\ phase[c] = "accepted") ~> phase[c] \in Terminal

(* What the projection says of a pull request closed without a merge: it   *)
(* was superseded, and must not permanently block delivery.  Finalizing is *)
(* refused at the last read only for one that is open or at another head.  *)
SupersededDoesNotBlock ==
  [][\A c \in Commands : At(c, "verify") /\ phase[c] # "rejected" /\ phase'[c] = "rejected"
       => \E p \in Pulls : pull[p].state = "open" \/ pull[p].head # seenPull[p].head]_deliveryVars
=============================================================================
