---------------------- MODULE MaintainerDeliveryProofs ----------------------
(***************************************************************************)
(* Proofs about the delivery of a work item for every set of pull requests *)
(* and every number of commands, pushes and errors.                        *)
(*                                                                         *)
(* None of the safety properties is inductive.  What makes them so is what *)
(* is known at each of the worker's steps: a command on the way to         *)
(* submitting has not attempted a merge yet (AttemptInv), a merge is       *)
(* recorded only after a read that found it (MergeInv), and each step of   *)
(* finalizing knows what the steps before it did (EarnedInv).  Merged pull *)
(* requests stay merged, and a rejected command is never taken up again.   *)
(***************************************************************************)
EXTENDS DeliveryRefinement, TLAPS

USE DEF github, shown, record, payload, status, history, world

-----------------------------------------------------------------------------
(* What is known of the command at each step.                              *)
MergeSteps    == {"gates", "reserve", "submit", "confirmMerge", "reread", "record"}
FinalizeSteps == {"verify", "attest", "ask", "recordAsk", "close", "confirmClose", "deliver"}

StepInv ==
  /\ call.cmd = None <=> Idle
  /\ ~Idle => phase[call.cmd] \in Waiting
  /\ call.step \in MergeSteps => call.cmd \notin finalizes
  /\ call.step \in FinalizeSteps => call.cmd \in finalizes
  /\ \A c \in Commands : phase[c] = "unissued" => c \notin finalizes \cup attempted

(* Everything the worker, people and GitHub write is well typed. *)
LEMMA TypeInit == DeliveryInit => DeliveryTypeOK
<1> SUFFICES ASSUME DeliveryInit PROVE DeliveryTypeOK
  OBVIOUS
<1>1. (CHOOSE p \in Pulls : TRUE) \in Pulls
  BY DeliveryAssumption
<1>2. 0 \in Heads /\ 0 \in 0..FailureBudget /\ 0 \in 0..MaxErrors /\ 0 \in Nat /\ "idle" \in Steps
  BY DeliveryAssumption DEF Heads, Steps
<1>3. [state |-> "open", head |-> 0] \in PullRequest
  BY <1>2 DEF PullRequest
<1>4. pull \in [Pulls -> PullRequest] /\ seenPull \in [Pulls -> PullRequest]
  BY <1>3 DEF DeliveryInit
<1>5. on \in [Commands -> Pulls] /\ expects \in [Commands -> Heads] /\ fails \in [Commands -> 0..FailureBudget]
  BY <1>1, <1>2 DEF DeliveryInit
<1> QED
  BY <1>2, <1>4, <1>5 DEF DeliveryInit, DeliveryTypeOK, None

(* A pull request that changes its state or its head is still one. *)
LEMMA PullChanges ==
  ASSUME DeliveryTypeOK, NEW p \in Pulls,
         \/ \E s \in {"open", "merged", "closed"} : pull' = [pull EXCEPT ![p].state = s]
         \/ pull[p].head < MaxPushes /\ pull' = [pull EXCEPT ![p].head = @ + 1]
  PROVE  pull' \in [Pulls -> PullRequest]
<1>1. pull[p] \in PullRequest
  BY DEF DeliveryTypeOK
<1>2. ASSUME NEW s \in {"open", "merged", "closed"} PROVE [pull[p] EXCEPT !.state = s] \in PullRequest
  BY <1>1 DEF PullRequest
<1>3. ASSUME pull[p].head < MaxPushes PROVE [pull[p] EXCEPT !.head = @ + 1] \in PullRequest
  <2>1. pull[p].head \in 0..MaxPushes /\ MaxPushes \in Nat
    BY <1>1, DeliveryAssumption DEF PullRequest, Heads
  <2>2. pull[p].head + 1 \in 0..MaxPushes
    BY <1>3, <2>1
  <2> QED
    BY <1>1, <2>2 DEF PullRequest, Heads
<1> QED
  BY <1>2, <1>3 DEF DeliveryTypeOK

LEMMA SettleType ==
  ASSUME DeliveryTypeOK, NEW c \in Commands, NEW p \in Waiting \cup Terminal, Settle(c, p)
  PROVE  /\ phase' \in [Commands -> {"unissued"} \cup Waiting \cup Terminal]
         /\ fails' = fails /\ call' = [step |-> "idle", cmd |-> None]
BY DEF DeliveryTypeOK, Settle, Leave

LEMMA RejectType ==
  ASSUME DeliveryTypeOK, NEW c \in Commands, Reject(c)
  PROVE  /\ phase' \in [Commands -> {"unissued"} \cup Waiting \cup Terminal]
         /\ fails' = fails /\ call' = [step |-> "idle", cmd |-> None]
         /\ attempted' = attempted \ {c}
BY SettleType DEF Reject, Terminal

(* A step of the worker that decides nothing but where it goes. *)
LEMMA MoveType ==
  ASSUME DeliveryTypeOK, NEW c \in Commands, NEW s \in Steps, Goto(c, s) \/ Reject(c)
  PROVE  /\ phase' \in [Commands -> {"unissued"} \cup Waiting \cup Terminal]
         /\ fails' \in [Commands -> 0..FailureBudget]
         /\ attempted' \subseteq Commands \ finalizes
         /\ call' \in [step : Steps, cmd : {None} \cup Commands]
<1>1. CASE Goto(c, s)
  BY <1>1 DEF Goto, DeliveryTypeOK
<1>2. CASE Reject(c)
  BY <1>2, RejectType DEF DeliveryTypeOK, Steps
<1> QED
  BY <1>1, <1>2

LEMMA TypeStep == DeliveryTypeOK /\ StepInv /\ [DeliveryNext]_deliveryVars => DeliveryTypeOK'
<1> SUFFICES ASSUME DeliveryTypeOK, StepInv, [DeliveryNext]_deliveryVars PROVE DeliveryTypeOK'
  OBVIOUS
<1> USE DeliveryAssumption
<1> DEFINE Moves ==
      /\ phase' \in [Commands -> {"unissued"} \cup Waiting \cup Terminal]
      /\ fails' \in [Commands -> 0..FailureBudget]
      /\ attempted' \subseteq Commands \ finalizes
      /\ call' \in [step : Steps, cmd : {None} \cup Commands]
<1>e. ASSUME Err \/ NoErr PROVE errors' \in 0..MaxErrors
  BY <1>e DEF Err, NoErr, DeliveryTypeOK
<1>1. ASSUME NEW c \in Commands, Begin(c) PROVE DeliveryTypeOK'
  <2>1. Reject(c) \/ \E s \in Steps : Goto(c, s)
    BY <1>1 DEF Begin, BeginMerge, BeginFinalize, Steps
  <2>2. Moves
    BY <2>1, MoveType, "idle" \in Steps DEF Steps
  <2> QED
    BY <1>1, <2>2 DEF Begin, NoErr, DeliveryTypeOK
<1>2. ASSUME NEW c \in Commands, Accept(c) PROVE DeliveryTypeOK'
  BY <1>2 DEF Accept, DeliveryTypeOK, Waiting, Steps
<1>3. ASSUME NEW c \in Commands, Gates(c) \/ ConfirmMerge(c) \/ Reread(c) \/ Verify(c) \/ ConfirmClose(c)
      PROVE DeliveryTypeOK'
  <2>1. Reject(c) \/ \E s \in Steps : Goto(c, s)
    BY <1>3 DEF Gates, ConfirmMerge, Reread, Verify, ConfirmClose, Steps
  <2>2. Moves
    BY <2>1, MoveType DEF Steps
  <2>3. errors' \in 0..MaxErrors
    BY <1>3, <1>e DEF Gates, ConfirmMerge, Reread, Verify, ConfirmClose
  <2>4. UNCHANGED <<github, shown, record, payload, barred, history>>
    BY <1>3 DEF Gates, ConfirmMerge, Reread, Verify, ConfirmClose
  <2> QED
    BY <2>2, <2>3, <2>4 DEF DeliveryTypeOK
<1>4. ASSUME NEW c \in Commands, ReserveAttempt(c) PROVE DeliveryTypeOK'
  <2>1. c \notin finalizes
    BY <1>4 DEF ReserveAttempt, At, StepInv, MergeSteps
  <2> QED
    BY <1>4, <2>1 DEF ReserveAttempt, DeliveryTypeOK, Steps
<1>5. ASSUME NEW c \in Commands, Submit(c) PROVE DeliveryTypeOK'
  <2>1. on[c] \in Pulls /\ submits' \in [Commands -> Nat]
    BY <1>5 DEF Submit, DeliveryTypeOK
  <2>2. pull' \in [Pulls -> PullRequest] /\ mergedBy' \in [Pulls -> {None} \cup Commands]
    BY <1>5, <2>1, PullChanges DEF Submit, Merges, DeliveryTypeOK
  <2>3. errors' \in 0..MaxErrors
    BY <1>5, <1>e DEF Submit
  <2>4. Moves
    BY <1>5, MoveType DEF Submit, Steps
  <2> QED
    BY <1>5, <2>1, <2>2, <2>3, <2>4 DEF Submit, DeliveryTypeOK
<1>6. ASSUME NEW c \in Commands, Record(c) PROVE DeliveryTypeOK'
  BY <1>6 DEF Record, Goto, DeliveryTypeOK, Steps
<1>7. ASSUME NEW c \in Commands, Attest(c) PROVE DeliveryTypeOK'
  <2>1. c \in finalizes
    BY <1>7 DEF Attest, At, StepInv, FinalizeSteps
  <2> QED
    BY <1>7, <2>1 DEF Attest, Goto, Leave, DeliveryTypeOK, Steps
<1>8. ASSUME NEW c \in Commands, Ask(c) \/ RecordAsk(c) \/ Deliver(c) PROVE DeliveryTypeOK'
  <2>1. Moves
    BY <1>8, MoveType DEF Ask, RecordAsk, Deliver, Steps
  <2>2. promoted' \in BOOLEAN /\ asked' \in BOOLEAN /\ delivered' \in BOOLEAN
    BY <1>8 DEF Ask, RecordAsk, Deliver, DeliveryTypeOK
  <2>3. UNCHANGED <<pull, run, issue, shown, verified, attested, payload, barred, errors, history>>
    BY <1>8 DEF Ask, RecordAsk, Deliver
  <2> QED
    BY <2>1, <2>2, <2>3 DEF DeliveryTypeOK
<1>9. ASSUME NEW c \in Commands, CloseIssue(c) PROVE DeliveryTypeOK'
  BY <1>9, <1>e DEF CloseIssue, Goto, DeliveryTypeOK, Steps
<1>10. ASSUME NEW c \in Commands, Complete(c) \/ Fail(c) PROVE DeliveryTypeOK'
  <2>1. Settle(c, "succeeded") \/ Settle(c, "failed")
    BY <1>10 DEF Complete, Fail
  <2>2. /\ phase' \in [Commands -> {"unissued"} \cup Waiting \cup Terminal]
        /\ fails' = fails /\ call' = [step |-> "idle", cmd |-> None]
    BY <2>1, SettleType DEF Waiting, Terminal
  <2> QED
    BY <1>10, <2>2 DEF Complete, Fail, DeliveryTypeOK, Steps
<1>11. ASSUME NEW c \in Commands, Count(c) PROVE DeliveryTypeOK'
  BY <1>11 DEF Count, DeliveryTypeOK, Steps
<1>12. ASSUME NEW c \in Commands, Breaks(c) PROVE DeliveryTypeOK'
  <2>1. on[c] \in Pulls /\ submits' \in [Commands -> Nat]
    BY <1>12 DEF Breaks, DeliveryTypeOK
  <2>2. pull' \in [Pulls -> PullRequest] /\ mergedBy' \in [Pulls -> {None} \cup Commands]
    BY <1>12, <2>1, PullChanges DEF Breaks, Merges, DeliveryTypeOK
  <2>3. errors' \in 0..MaxErrors /\ issue' \in {"open", "completed", "notPlanned"}
    BY <1>12, <1>e DEF Breaks, DeliveryTypeOK
  <2>4. call' = [step |-> "idle", cmd |-> None]
        /\ UNCHANGED <<run, promoted, shown, record, payload, status, barred>>
    BY <1>12 DEF Breaks, Leave
  <2> QED
    BY <2>1, <2>2, <2>3, <2>4 DEF DeliveryTypeOK, Steps
<1>13. CASE Project
  BY <1>13 DEF Project, DeliveryTypeOK
<1>14. ASSUME NEW c \in Commands, IssueCommand(c) PROVE DeliveryTypeOK'
  <2>1. c \notin attempted
    BY <1>14 DEF IssueCommand, StepInv
  <2>2. \A p \in Pulls : seenPull[p].head \in Heads
    BY DEF DeliveryTypeOK, PullRequest
  <2>3. phase' \in [Commands -> {"unissued"} \cup Waiting \cup Terminal]
    BY <1>14 DEF IssueCommand, DeliveryTypeOK, Waiting
  <2>4. CASE finalizes' = finalizes \cup {c} /\ UNCHANGED <<on, expects>>
    BY <1>14, <2>1, <2>3, <2>4 DEF IssueCommand, DeliveryTypeOK
  <2>5. CASE \E p \in Pulls :
               /\ on' = [on EXCEPT ![c] = p]
               /\ expects' = [expects EXCEPT ![c] = seenPull[p].head]
               /\ UNCHANGED finalizes
    BY <1>14, <2>2, <2>3, <2>5 DEF IssueCommand, DeliveryTypeOK
  <2> QED
    BY <1>14, <2>4, <2>5 DEF IssueCommand
<1>18. ASSUME NEW c \in Commands, Bar(c) PROVE DeliveryTypeOK'
  BY <1>18 DEF Bar, DeliveryTypeOK
<1>15. ASSUME NEW p \in Pulls, Push(p) \/ PersonMerges(p) \/ PersonCloses(p) \/ PersonReopens(p)
       PROVE DeliveryTypeOK'
  <2>1. pull' \in [Pulls -> PullRequest]
    BY <1>15, PullChanges DEF Push, PersonMerges, PersonCloses, PersonReopens
  <2>2. errors' \in 0..MaxErrors
    <3>1. CASE Push(p) \/ PersonMerges(p) \/ PersonCloses(p)
      BY <3>1 DEF Push, PersonMerges, PersonCloses, DeliveryTypeOK
    <3>2. CASE PersonReopens(p)
      BY <3>2, <1>e DEF PersonReopens
    <3> QED
      BY <1>15, <3>1, <3>2
  <2>3. UNCHANGED <<run, promoted, issue, shown, record, payload, status, barred, call, history>>
    BY <1>15 DEF Push, PersonMerges, PersonCloses, PersonReopens
  <2> QED
    BY <2>1, <2>2, <2>3 DEF DeliveryTypeOK
<1>16. CASE IssueChanges \/ DecisionArises \/ DecisionResolved \/ RunEnds
  <2>1. CASE IssueChanges
    BY <2>1, <1>e DEF IssueChanges, DeliveryTypeOK
  <2>2. CASE DecisionArises
    BY <2>2, <1>e DEF DecisionArises, DeliveryTypeOK
  <2>3. CASE DecisionResolved
    BY <2>3 DEF DecisionResolved, DeliveryTypeOK
  <2>4. CASE RunEnds
    BY <2>4 DEF RunEnds, DeliveryTypeOK
  <2> QED
    BY <1>16, <2>1, <2>2, <2>3, <2>4
<1>17. CASE UNCHANGED deliveryVars
  BY <1>17 DEF deliveryVars, DeliveryTypeOK
<1> QED
  BY <1>1, <1>2, <1>3, <1>4, <1>5, <1>6, <1>7, <1>8, <1>9, <1>10, <1>11, <1>12, <1>13, <1>14,
     <1>15, <1>16, <1>17, <1>18 DEF DeliveryNext, Process


(* The step and the command go together. *)
LEMMA StepInit == DeliveryInit => StepInv
BY DEF DeliveryInit, StepInv, Idle, MergeSteps, FinalizeSteps, None

LEMMA GotoStep ==
  ASSUME DeliveryTypeOK, StepInv, NEW c \in Commands, NEW s \in Steps \ {"idle"}, Goto(c, s),
         phase[c] \in Waiting, finalizes' = finalizes,
         s \in MergeSteps => c \notin finalizes, s \in FinalizeSteps => c \in finalizes
  PROVE  StepInv'
<1>1. c # None
  BY DEF Commands, None
<1> QED
  BY <1>1 DEF Goto, StepInv, Idle

LEMMA LeaveStep ==
  ASSUME DeliveryTypeOK, StepInv, NEW c \in Commands, Leave, phase[c] \in Waiting, finalizes' = finalizes,
         attempted' \subseteq attempted,
         phase' = phase \/ \E p \in Waiting \cup Terminal : phase' = [phase EXCEPT ![c] = p]
  PROVE  StepInv'
<1>1. \A d \in Commands : phase'[d] = "unissued" => phase[d] = "unissued"
  BY DEF DeliveryTypeOK, Waiting, Terminal
<1> QED
  BY <1>1 DEF Leave, StepInv, Idle, MergeSteps, FinalizeSteps

LEMMA RejectStep ==
  ASSUME DeliveryTypeOK, StepInv, NEW c \in Commands, Reject(c), phase[c] \in Waiting, finalizes' = finalizes
  PROVE  StepInv'
<1>1. Leave /\ attempted' \subseteq attempted /\ phase' = [phase EXCEPT ![c] = "rejected"]
  BY DEF Reject, Settle
<1>2. "rejected" \in Waiting \cup Terminal
  BY DEF Terminal
<1> QED
  BY <1>1, <1>2, LeaveStep

(* A command at a step is waiting, and of the step's kind. *)
LEMMA AtStep ==
  ASSUME DeliveryTypeOK, StepInv, NEW c \in Commands, NEW s \in Steps \ {"idle"}, At(c, s)
  PROVE  /\ phase[c] \in Waiting
         /\ s \in MergeSteps => c \notin finalizes
         /\ s \in FinalizeSteps => c \in finalizes
BY DEF At, StepInv, Idle

LEMMA StepStep == DeliveryTypeOK /\ StepInv /\ [DeliveryNext]_deliveryVars => StepInv'
<1> SUFFICES ASSUME DeliveryTypeOK, StepInv, [DeliveryNext]_deliveryVars PROVE StepInv'
  OBVIOUS
<1>1. ASSUME NEW c \in Commands, Begin(c) PROVE StepInv'
  <2>1. phase[c] \in Waiting /\ finalizes' = finalizes
    BY <1>1 DEF Begin
  <2>2. \/ Reject(c)
        \/ c \notin finalizes /\ (Goto(c, "complete") \/ Goto(c, "reread") \/ Goto(c, "accept") \/ Goto(c, "gates"))
        \/ c \in finalizes /\ (Goto(c, "complete") \/ Goto(c, "verify"))
    BY <1>1 DEF Begin, BeginMerge, BeginFinalize
  <2>3. CASE Reject(c)
    BY <2>1, <2>3, RejectStep
  <2>4. CASE c \notin finalizes /\ (Goto(c, "complete") \/ Goto(c, "reread") \/ Goto(c, "accept") \/ Goto(c, "gates"))
    BY <2>1, <2>4, GotoStep DEF Steps, FinalizeSteps
  <2>5. CASE c \in finalizes /\ (Goto(c, "complete") \/ Goto(c, "verify"))
    BY <2>1, <2>5, GotoStep DEF Steps, MergeSteps
  <2> QED
    BY <2>2, <2>3, <2>4, <2>5
<1>2. ASSUME NEW c \in Commands, Accept(c) PROVE StepInv'
  <2>1. c # None
    BY DEF Commands, None
  <2>2. phase' = [phase EXCEPT ![c] = "accepted"] /\ attempted' \subseteq attempted /\ finalizes' = finalizes
    BY <1>2 DEF Accept
  <2>3. call'.cmd = c /\ call'.step = (IF c \in finalizes THEN "attest" ELSE "gates")
    BY <1>2 DEF Accept
  <2>4. phase'[c] \in Waiting /\ \A d \in Commands : phase'[d] = "unissued" => phase[d] = "unissued"
    BY <2>2 DEF DeliveryTypeOK, Waiting
  <2> QED
    BY <2>1, <2>2, <2>3, <2>4 DEF StepInv, Idle, MergeSteps, FinalizeSteps
<1>3. ASSUME NEW c \in Commands, Gates(c) \/ ConfirmMerge(c) \/ Reread(c) PROVE StepInv'
  <2>1. phase[c] \in Waiting /\ c \notin finalizes /\ finalizes' = finalizes
    BY <1>3, AtStep DEF Gates, ConfirmMerge, Reread, Steps, MergeSteps
  <2>2. Reject(c) \/ Goto(c, "count") \/ Goto(c, "record") \/ Goto(c, "reserve")
    BY <1>3 DEF Gates, ConfirmMerge, Reread
  <2>3. CASE Goto(c, "count") \/ Goto(c, "record") \/ Goto(c, "reserve")
    BY <2>1, <2>3, GotoStep DEF Steps, FinalizeSteps
  <2> QED
    BY <2>1, <2>2, <2>3, RejectStep
<1>4. ASSUME NEW c \in Commands, ReserveAttempt(c) PROVE StepInv'
  <2>1. phase[c] \in Waiting /\ c \notin finalizes /\ finalizes' = finalizes
    BY <1>4, AtStep DEF ReserveAttempt, Steps, MergeSteps
  <2>2. c # None /\ phase[c] # "unissued"
    BY <2>1 DEF Commands, None, Waiting
  <2>3. call' = [step |-> "submit", cmd |-> c] /\ attempted' = attempted \cup {c} /\ phase' = phase
    BY <1>4 DEF ReserveAttempt
  <2> QED
    BY <2>1, <2>2, <2>3 DEF StepInv, Idle, MergeSteps, FinalizeSteps
<1>5. ASSUME NEW c \in Commands, Submit(c) \/ Record(c) PROVE StepInv'
  <2>1. phase[c] \in Waiting /\ c \notin finalizes /\ finalizes' = finalizes
    BY <1>5, AtStep DEF Submit, Record, Steps, MergeSteps
  <2>2. Goto(c, "count") \/ Goto(c, "confirmMerge") \/ Goto(c, "complete")
    BY <1>5 DEF Submit, Record
  <2> QED
    BY <2>1, <2>2, GotoStep DEF Steps, FinalizeSteps
<1>6. ASSUME NEW c \in Commands, Verify(c) \/ Attest(c) PROVE StepInv'
  <2>1. phase[c] \in Waiting /\ c \in finalizes /\ finalizes' = finalizes
    BY <1>6, AtStep DEF Verify, Attest, Steps, FinalizeSteps
  <2>2. \/ Reject(c)
        \/ Leave /\ UNCHANGED status
        \/ Goto(c, "count") \/ Goto(c, "accept") \/ Goto(c, "attest") \/ Goto(c, "ask")
    <3>1. CASE Verify(c)
      BY <3>1 DEF Verify, Goto
    <3>2. CASE Attest(c)
      BY <3>2 DEF Attest
    <3> QED
      BY <1>6, <3>1, <3>2
  <2>3. CASE Goto(c, "count") \/ Goto(c, "accept") \/ Goto(c, "attest") \/ Goto(c, "ask")
    BY <2>1, <2>3, GotoStep DEF Steps, MergeSteps
  <2> QED
    BY <2>1, <2>2, <2>3, RejectStep, LeaveStep
<1>7. ASSUME NEW c \in Commands, Ask(c) \/ RecordAsk(c) \/ CloseIssue(c) \/ ConfirmClose(c) \/ Deliver(c)
      PROVE StepInv'
  <2>1. phase[c] \in Waiting /\ c \in finalizes /\ finalizes' = finalizes
    BY <1>7, AtStep DEF Ask, RecordAsk, CloseIssue, ConfirmClose, Deliver, Steps, FinalizeSteps
  <2>2. \E s \in {"count", "recordAsk", "close", "confirmClose", "deliver", "complete"} : Goto(c, s)
    BY <1>7 DEF Ask, RecordAsk, CloseIssue, ConfirmClose, Deliver
  <2> QED
    BY <2>1, <2>2, GotoStep DEF Steps, MergeSteps
<1>8. ASSUME NEW c \in Commands, Complete(c) \/ Fail(c) PROVE StepInv'
  <2>1. phase[c] \in Waiting /\ finalizes' = finalizes
    BY <1>8, AtStep DEF Complete, Fail, Steps
  <2>2. Leave /\ attempted' = attempted /\ \E p \in {"succeeded", "failed"} : phase' = [phase EXCEPT ![c] = p]
    BY <1>8 DEF Complete, Fail, Settle
  <2> QED
    BY <2>1, <2>2, LeaveStep DEF Waiting, Terminal
<1>9. ASSUME NEW c \in Commands, Count(c) PROVE StepInv'
  <2>1. phase[c] \in Waiting /\ finalizes' = finalizes /\ c # None
    BY <1>9, AtStep DEF Count, Steps, Commands, None
  <2> QED
    BY <1>9, <2>1 DEF Count, StepInv, Idle, MergeSteps, FinalizeSteps
<1>10. ASSUME NEW c \in Commands, Breaks(c) PROVE StepInv'
  <2>1. phase[c] \in Waiting
    BY <1>10 DEF Breaks, StepInv
  <2> QED
    BY <1>10, <2>1, LeaveStep DEF Breaks
<1>11. CASE Project
  BY <1>11 DEF Project, StepInv, Idle
<1>12. ASSUME NEW c \in Commands, IssueCommand(c) PROVE StepInv'
  <2>1. ~Idle => call.cmd # c
    BY <1>12 DEF IssueCommand, StepInv, Waiting
  <2>2. call' = call /\ attempted' = attempted /\ finalizes \subseteq finalizes' /\ finalizes' \subseteq finalizes \cup {c}
    BY <1>12 DEF IssueCommand
  <2>3. phase' = [phase EXCEPT ![c] = "pending"]
    BY <1>12 DEF IssueCommand
  <2>4. \A d \in Commands : phase'[d] = "unissued" => d # c /\ phase[d] = "unissued"
    BY <2>3 DEF DeliveryTypeOK
  <2>5. ~Idle => phase'[call.cmd] = phase[call.cmd]
    BY <2>1, <2>3
  <2> QED
    BY <2>1, <2>2, <2>4, <2>5 DEF StepInv, Idle, MergeSteps, FinalizeSteps
<1>13. ASSUME NEW c \in Commands, Bar(c) PROVE StepInv'
  BY <1>13 DEF Bar, StepInv, Idle
<1>14. ASSUME NEW p \in Pulls, Push(p) \/ PersonMerges(p) \/ PersonCloses(p) \/ PersonReopens(p) PROVE StepInv'
  BY <1>14 DEF Push, PersonMerges, PersonCloses, PersonReopens, StepInv, Idle
<1>15. CASE IssueChanges \/ DecisionArises \/ DecisionResolved \/ RunEnds
  BY <1>15 DEF IssueChanges, DecisionArises, DecisionResolved, RunEnds, StepInv, Idle
<1>16. CASE UNCHANGED deliveryVars
  BY <1>16 DEF deliveryVars, StepInv, Idle
<1> QED
  BY <1>1, <1>2, <1>3, <1>4, <1>5, <1>6, <1>7, <1>8, <1>9, <1>10, <1>11, <1>12, <1>13, <1>14,
     <1>15, <1>16 DEF DeliveryNext, Process

-----------------------------------------------------------------------------
(* A command that may still submit has not submitted, and one that has is  *)
(* marked for it, or was rejected.                                         *)
AttemptInv == \A c \in Commands :
  /\ submits[c] # 0 => submits[c] = 1 /\ (c \in attempted \/ phase[c] = "rejected")
  /\ call.cmd = c /\ call.step \in {"accept", "gates", "reserve"} => c \notin attempted
  /\ At(c, "submit") => c \in attempted /\ submits[c] = 0
  /\ phase[c] = "unissued" => submits[c] = 0

LEMMA AttemptInit == DeliveryInit => AttemptInv
BY DEF DeliveryInit, AttemptInv, At, None

(* A waiting command stays marked until it is rejected, so that a step that
   submits nothing and takes no other command on keeps the invariant. *)
LEMMA RejectAttempt ==
  ASSUME DeliveryTypeOK, AttemptInv, NEW c \in Commands, Reject(c), submits' = submits
  PROVE  AttemptInv'
<1>1. /\ phase' = [phase EXCEPT ![c] = "rejected"] /\ attempted' = attempted \ {c}
      /\ call' = [step |-> "idle", cmd |-> None]
  BY DEF Reject, Settle, Leave
<1> QED
  BY <1>1 DEF AttemptInv, DeliveryTypeOK, At

LEMMA GotoAttempt ==
  ASSUME DeliveryTypeOK, AttemptInv, NEW c \in Commands, NEW s \in Steps, Goto(c, s), submits' = submits,
         s # "submit", s \in {"accept", "gates", "reserve"} => c \notin attempted
  PROVE  AttemptInv'
BY DEF Goto, AttemptInv, At

LEMMA AttemptStep ==
  DeliveryTypeOK /\ StepInv /\ AttemptInv /\ [DeliveryNext]_deliveryVars => AttemptInv'
<1> SUFFICES ASSUME DeliveryTypeOK, StepInv, AttemptInv, [DeliveryNext]_deliveryVars PROVE AttemptInv'
  OBVIOUS
<1>1. ASSUME NEW c \in Commands, Begin(c) PROVE AttemptInv'
  <2>1. submits' = submits
    BY <1>1 DEF Begin
  <2>2. \/ Reject(c)
        \/ Goto(c, "complete") \/ Goto(c, "reread") \/ Goto(c, "verify")
        \/ c \notin attempted /\ (Goto(c, "accept") \/ Goto(c, "gates"))
    BY <1>1 DEF Begin, BeginMerge, BeginFinalize
  <2> QED
    BY <2>1, <2>2, RejectAttempt, GotoAttempt DEF Steps
<1>2. ASSUME NEW c \in Commands, Accept(c) PROVE AttemptInv'
  <2>1. c \notin attempted /\ phase[c] \in Waiting
    BY <1>2, AtStep DEF Accept, At, AttemptInv, Steps
  <2>2. submits[c] = 0
    BY <2>1 DEF AttemptInv, Waiting
  <2>3. phase' = [phase EXCEPT ![c] = "accepted"] /\ attempted' = attempted /\ submits' = submits
    BY <1>2, <2>1 DEF Accept
  <2>4. call'.cmd = c /\ call'.step # "submit" /\ c \notin attempted'
    BY <1>2, <2>1 DEF Accept
  <2> QED
    BY <2>2, <2>3, <2>4 DEF AttemptInv, DeliveryTypeOK, At
<1>3. ASSUME NEW c \in Commands, Gates(c) \/ ConfirmMerge(c) \/ Reread(c) \/ Verify(c) \/ ConfirmClose(c)
      PROVE AttemptInv'
  <2>1. submits' = submits
    BY <1>3 DEF Gates, ConfirmMerge, Reread, Verify, ConfirmClose
  <2>2. CASE Gates(c)
    <3>1. c \notin attempted
      BY <2>2 DEF Gates, At, AttemptInv
    <3>2. Reject(c) \/ Goto(c, "count") \/ Goto(c, "record") \/ Goto(c, "reserve")
      BY <2>2 DEF Gates
    <3> QED
      BY <2>1, <3>1, <3>2, RejectAttempt, GotoAttempt DEF Steps
  <2>3. CASE ConfirmMerge(c) \/ Reread(c) \/ ConfirmClose(c)
    <3>1. Reject(c) \/ Goto(c, "count") \/ Goto(c, "record") \/ Goto(c, "deliver")
      BY <2>3 DEF ConfirmMerge, Reread, ConfirmClose
    <3> QED
      BY <2>1, <3>1, RejectAttempt, GotoAttempt DEF Steps
  <2>4. CASE Verify(c)
    <3>1. c \notin attempted
      BY <2>4, AtStep DEF Verify, Steps, FinalizeSteps, DeliveryTypeOK
    <3>2. Reject(c) \/ Goto(c, "count") \/ Goto(c, "accept") \/ Goto(c, "attest")
      BY <2>4 DEF Verify, Goto
    <3> QED
      BY <2>1, <3>1, <3>2, RejectAttempt, GotoAttempt DEF Steps
  <2> QED
    BY <1>3, <2>2, <2>3, <2>4
<1>4. ASSUME NEW c \in Commands, ReserveAttempt(c) PROVE AttemptInv'
  <2>1. c \notin attempted /\ phase[c] \in Waiting
    BY <1>4, AtStep DEF ReserveAttempt, At, AttemptInv, Steps
  <2>2. submits[c] = 0
    BY <2>1 DEF AttemptInv, Waiting
  <2> QED
    BY <1>4, <2>2 DEF ReserveAttempt, AttemptInv, At
<1>5. ASSUME NEW c \in Commands, Submit(c) PROVE AttemptInv'
  <2>1. c \in attempted /\ submits[c] = 0 /\ phase[c] \in Waiting
    BY <1>5, AtStep DEF Submit, AttemptInv, Steps
  <2>2. submits' = [submits EXCEPT ![c] = @ + 1]
        /\ (Goto(c, "confirmMerge") \/ Goto(c, "count"))
    BY <1>5 DEF Submit
  <2>3. call'.step \notin {"accept", "gates", "reserve", "submit"} /\ phase' = phase /\ attempted' = attempted
    BY <2>2 DEF Goto
  <2> QED
    BY <2>1, <2>2, <2>3 DEF AttemptInv, DeliveryTypeOK, At, Waiting
<1>6. ASSUME NEW c \in Commands,
             Record(c) \/ Ask(c) \/ RecordAsk(c) \/ CloseIssue(c) \/ Deliver(c)
      PROVE AttemptInv'
  <2>1. submits' = submits
        /\ \E s \in {"count", "complete", "recordAsk", "close", "confirmClose"} : Goto(c, s)
    BY <1>6 DEF Record, Ask, RecordAsk, CloseIssue, Deliver
  <2> QED
    BY <2>1, GotoAttempt DEF Steps
<1>7. ASSUME NEW c \in Commands, Attest(c) PROVE AttemptInv'
  <2>1. submits' = submits /\ (Goto(c, "ask") \/ (Leave /\ UNCHANGED status))
    BY <1>7 DEF Attest
  <2>2. CASE Leave /\ UNCHANGED status
    BY <2>1, <2>2 DEF Leave, AttemptInv, At
  <2> QED
    BY <2>1, <2>2, GotoAttempt DEF Steps
<1>8. ASSUME NEW c \in Commands, Complete(c) \/ Fail(c) PROVE AttemptInv'
  <2>1. phase[c] \in Waiting
    BY <1>8, AtStep DEF Complete, Fail, Steps
  <2>2. /\ call' = [step |-> "idle", cmd |-> None] /\ UNCHANGED <<attempted, submits>>
        /\ \E p \in {"succeeded", "failed"} : phase' = [phase EXCEPT ![c] = p]
    BY <1>8 DEF Complete, Fail, Settle, Leave
  <2> QED
    BY <2>1, <2>2 DEF AttemptInv, DeliveryTypeOK, At, Waiting
<1>9. ASSUME NEW c \in Commands, Count(c) PROVE AttemptInv'
  BY <1>9 DEF Count, AttemptInv, At
<1>10. ASSUME NEW c \in Commands, Breaks(c) PROVE AttemptInv'
  <2>1. call' = [step |-> "idle", cmd |-> None] /\ UNCHANGED status
    BY <1>10 DEF Breaks, Leave
  <2>2. CASE submits' = submits
    BY <2>1, <2>2 DEF AttemptInv, At
  <2>3. CASE At(c, "submit") /\ submits' = [submits EXCEPT ![c] = @ + 1]
    <3>1. c \in attempted /\ submits[c] = 0 /\ phase[c] \in Waiting
      BY <2>3, AtStep DEF AttemptInv, Steps
    <3>2. submits'[c] = 1 /\ \A d \in Commands \ {c} : submits'[d] = submits[d]
      BY <2>3, <3>1 DEF DeliveryTypeOK
    <3> QED
      BY <2>1, <3>1, <3>2 DEF AttemptInv, At, Waiting
  <2> QED
    BY <1>10, <2>2, <2>3 DEF Breaks
<1>11. ASSUME NEW c \in Commands, IssueCommand(c) PROVE AttemptInv'
  BY <1>11 DEF IssueCommand, AttemptInv, DeliveryTypeOK, At
<1>12. ASSUME NEW c \in Commands, Bar(c) PROVE AttemptInv'
  BY <1>12 DEF Bar, AttemptInv, At
<1>13. ASSUME NEW p \in Pulls, Push(p) \/ PersonMerges(p) \/ PersonCloses(p) \/ PersonReopens(p) PROVE AttemptInv'
  BY <1>13 DEF Push, PersonMerges, PersonCloses, PersonReopens, AttemptInv, At
<1>14. CASE Project \/ IssueChanges \/ DecisionArises \/ DecisionResolved \/ RunEnds
  BY <1>14 DEF Project, IssueChanges, DecisionArises, DecisionResolved, RunEnds, AttemptInv, At
<1>15. CASE UNCHANGED deliveryVars
  BY <1>15 DEF deliveryVars, AttemptInv, At
<1> QED
  BY <1>1, <1>2, <1>3, <1>4, <1>5, <1>6, <1>7, <1>8, <1>9, <1>10, <1>11, <1>12, <1>13, <1>14, <1>15
     DEF DeliveryNext, Process

-----------------------------------------------------------------------------
(* What no step takes back. *)
Kept ==
  /\ \A p \in Pulls : pull[p].state = "merged" => pull'[p] = pull[p]
  /\ \A c \in Commands : phase[c] # "unissued" =>
       /\ phase'[c] # "unissued" /\ on'[c] = on[c] /\ expects'[c] = expects[c]
       /\ (c \in finalizes') = (c \in finalizes)
  /\ attested # None => attested' = attested
  /\ (asked => asked') /\ (delivered => delivered') /\ (promoted => promoted')
  /\ run = "succeeded" => run' = "succeeded"

LEMMA PhaseKept ==
  ASSUME DeliveryTypeOK, NEW c \in Commands,
         \/ \E p \in Waiting \cup Terminal : Settle(c, p) \/ phase' = [phase EXCEPT ![c] = p]
         \/ Reject(c)
         \/ \E s \in Steps : Goto(c, s)
         \/ phase' = phase
  PROVE  \A d \in Commands : phase[d] # "unissued" => phase'[d] # "unissued"
BY DEF DeliveryTypeOK, Settle, Reject, Goto, Waiting, Terminal

LEMMA KeptStep == ASSUME DeliveryTypeOK, StepInv, [DeliveryNext]_deliveryVars PROVE Kept
<1> DEFINE Phases == \A d \in Commands : phase[d] # "unissued" => phase'[d] # "unissued"
<1>1. ASSUME NEW c \in Commands, Begin(c) PROVE Kept
  <2>1. Reject(c) \/ \E s \in Steps : Goto(c, s)
    BY <1>1 DEF Begin, BeginMerge, BeginFinalize, Steps
  <2>2. Phases
    BY <2>1, PhaseKept
  <2> QED
    BY <1>1, <2>2 DEF Begin, Kept
<1>2. ASSUME NEW c \in Commands, Accept(c) PROVE Kept
  <2>1. phase' = [phase EXCEPT ![c] = "accepted"] /\ UNCHANGED <<github, record, payload>>
    BY <1>2 DEF Accept
  <2>2. Phases
    BY <2>1, PhaseKept DEF Waiting
  <2> QED
    BY <2>1, <2>2 DEF Kept
<1>3. ASSUME NEW c \in Commands, Gates(c) \/ ConfirmMerge(c) \/ Reread(c) \/ Verify(c) \/ ConfirmClose(c)
      PROVE Kept
  <2>1. Reject(c) \/ \E s \in Steps : Goto(c, s)
    BY <1>3 DEF Gates, ConfirmMerge, Reread, Verify, ConfirmClose, Steps
  <2>2. Phases
    BY <2>1, PhaseKept
  <2>3. UNCHANGED <<github, record, payload>>
    BY <1>3 DEF Gates, ConfirmMerge, Reread, Verify, ConfirmClose
  <2> QED
    BY <2>2, <2>3 DEF Kept
<1>4. ASSUME NEW c \in Commands, ReserveAttempt(c) \/ Count(c) PROVE Kept
  BY <1>4 DEF ReserveAttempt, Count, Kept
<1>5. ASSUME NEW c \in Commands, Submit(c) PROVE Kept
  <2>1. phase' = phase /\ UNCHANGED <<run, promoted, record, payload>> /\ (pull' = pull \/ Merges(c))
    BY <1>5 DEF Submit, Goto
  <2>2. on[c] \in Pulls
    BY DEF DeliveryTypeOK
  <2> QED
    BY <2>1, <2>2 DEF Merges, Kept, DeliveryTypeOK
<1>6. ASSUME NEW c \in Commands, Record(c) \/ Ask(c) \/ RecordAsk(c) \/ CloseIssue(c) \/ Deliver(c) PROVE Kept
  <2>1. phase' = phase /\ UNCHANGED <<pull, run, payload, attested>>
    BY <1>6 DEF Record, Ask, RecordAsk, CloseIssue, Deliver, Goto
  <2>2. (asked => asked') /\ (delivered => delivered') /\ (promoted => promoted')
    <3>1. CASE Ask(c)
      BY <3>1, Zenon DEF Ask
    <3>2. CASE Record(c) \/ RecordAsk(c) \/ CloseIssue(c) \/ Deliver(c)
      BY <3>2 DEF Record, RecordAsk, CloseIssue, Deliver
    <3> QED
      BY <1>6, <3>1, <3>2
  <2> QED
    BY <2>1, <2>2 DEF Kept
<1>7. ASSUME NEW c \in Commands, Attest(c) PROVE Kept
  <2>1. phase' = phase /\ UNCHANGED <<github, payload, asked, delivered>>
    BY <1>7 DEF Attest, Goto
  <2>2. attested # None => attested' = attested
    BY <1>7 DEF Attest
  <2> QED
    BY <2>1, <2>2 DEF Kept
<1>8. ASSUME NEW c \in Commands, Complete(c) \/ Fail(c) PROVE Kept
  <2>1. Settle(c, "succeeded") \/ Settle(c, "failed")
    BY <1>8 DEF Complete, Fail
  <2>2. Phases
    BY <2>1, PhaseKept DEF Waiting, Terminal
  <2> QED
    BY <1>8, <2>2 DEF Complete, Fail, Kept
<1>9. ASSUME NEW c \in Commands, Breaks(c) PROVE Kept
  <2>1. phase' = phase /\ UNCHANGED <<run, promoted, record, payload>> /\ (pull' = pull \/ Merges(c))
    BY <1>9 DEF Breaks
  <2>2. on[c] \in Pulls
    BY DEF DeliveryTypeOK
  <2> QED
    BY <2>1, <2>2 DEF Merges, Kept, DeliveryTypeOK
<1>10. ASSUME NEW c \in Commands, IssueCommand(c) PROVE Kept
  <2>1. phase[c] = "unissued" /\ phase' = [phase EXCEPT ![c] = "pending"] /\ UNCHANGED <<github, record>>
    BY <1>10 DEF IssueCommand
  <2>2. \A d \in Commands \ {c} : on'[d] = on[d] /\ expects'[d] = expects[d] /\ (d \in finalizes') = (d \in finalizes)
    BY <1>10 DEF IssueCommand, DeliveryTypeOK
  <2> QED
    BY <2>1, <2>2 DEF Kept, DeliveryTypeOK
<1>11. ASSUME NEW c \in Commands, Bar(c) PROVE Kept
  BY <1>11 DEF Bar, Kept
<1>12. ASSUME NEW p \in Pulls, Push(p) \/ PersonMerges(p) \/ PersonCloses(p) \/ PersonReopens(p) PROVE Kept
  <2>1. pull[p].state # "merged" /\ \A q \in Pulls \ {p} : pull'[q] = pull[q]
    BY <1>12 DEF Push, PersonMerges, PersonCloses, PersonReopens, DeliveryTypeOK
  <2>2. UNCHANGED <<run, promoted, record, payload, phase>>
    BY <1>12 DEF Push, PersonMerges, PersonCloses, PersonReopens
  <2> QED
    BY <2>1, <2>2 DEF Kept
<1>13. CASE Project \/ IssueChanges \/ DecisionArises \/ DecisionResolved \/ RunEnds
  BY <1>13 DEF Project, IssueChanges, DecisionArises, DecisionResolved, RunEnds, Kept
<1>14. CASE UNCHANGED deliveryVars
  BY <1>14 DEF deliveryVars, Kept
<1> QED
  BY <1>1, <1>2, <1>3, <1>4, <1>5, <1>6, <1>7, <1>8, <1>9, <1>10, <1>11, <1>12, <1>13, <1>14
     DEF DeliveryNext, Process

-----------------------------------------------------------------------------
(* What commands merged, and what is on record, is merged at GitHub; the   *)
(* worker is about to record only what it has seen merged.                 *)
SeenMerged == call.step = "record" => pull[on[call.cmd]].state = "merged"

MergeInv ==
  /\ \A p \in Pulls : LET c == mergedBy[p] IN
       c # None => phase[c] # "unissued" /\ on[c] = p /\ pull[p] = [state |-> "merged", head |-> expects[c]]
  /\ \A p \in Pulls : \A h \in Recorded(p) : pull[p] = [state |-> "merged", head |-> h]
  /\ SeenMerged

LEMMA MergeInit == DeliveryInit => MergeInv
BY DEF DeliveryInit, MergeInv, SeenMerged, Recorded, None

LEMMA SeenKept ==
  ASSUME DeliveryTypeOK, StepInv, SeenMerged, Kept, call' = call
  PROVE  SeenMerged'
<1> SUFFICES ASSUME call.step = "record" PROVE pull'[on'[call.cmd]].state = "merged"
  BY DEF SeenMerged
<1>1. call.cmd \in Commands /\ phase[call.cmd] # "unissued"
  BY DEF StepInv, Idle, DeliveryTypeOK, Waiting
<1>2. on[call.cmd] \in Pulls /\ on'[call.cmd] = on[call.cmd]
  BY <1>1 DEF DeliveryTypeOK, Kept
<1> QED
  BY <1>2 DEF Kept, SeenMerged

LEMMA MergeKept ==
  ASSUME DeliveryTypeOK, MergeInv, Kept, verified' = verified, mergedBy' = mergedBy, SeenMerged'
  PROVE  MergeInv'
<1>1. ASSUME NEW p \in Pulls, mergedBy'[p] # None
      PROVE  LET c == mergedBy'[p] IN
               phase'[c] # "unissued" /\ on'[c] = p /\ pull'[p] = [state |-> "merged", head |-> expects'[c]]
  <2> DEFINE c == mergedBy[p]
  <2>1. c \in Commands /\ phase[c] # "unissued" /\ on[c] = p /\ pull[p] = [state |-> "merged", head |-> expects[c]]
    BY <1>1 DEF MergeInv, DeliveryTypeOK
  <2> QED
    BY <2>1 DEF Kept
<1>2. ASSUME NEW p \in Pulls, NEW h \in Recorded(p)' PROVE pull'[p] = [state |-> "merged", head |-> h]
  <2>1. h \in Recorded(p)
    BY <1>2 DEF Recorded
  <2> QED
    BY <2>1 DEF MergeInv, Kept
<1> QED
  BY <1>1, <1>2 DEF MergeInv

(* GitHub merges the head the command expects. *)
LEMMA MergesKept ==
  ASSUME DeliveryTypeOK, MergeInv, Kept, NEW c \in Commands, Merges(c), phase[c] \in Waiting,
         phase' = phase, UNCHANGED payload, verified' = verified, SeenMerged'
  PROVE  MergeInv'
<1> DEFINE p == on[c]
<1>1. p \in Pulls /\ pull[p] = [state |-> "open", head |-> expects[c]]
  BY DEF Merges, DeliveryTypeOK
<1>2. pull'[p] = [state |-> "merged", head |-> expects[c]] /\ mergedBy'[p] = c
  BY <1>1 DEF Merges, DeliveryTypeOK
<1>3. \A q \in Pulls \ {p} : pull'[q] = pull[q] /\ mergedBy'[q] = mergedBy[q]
  BY DEF Merges, DeliveryTypeOK
<1>4. \A h \in Recorded(p) : FALSE
  <2> SUFFICES ASSUME NEW h \in Recorded(p) PROVE FALSE
    OBVIOUS
  <2>1. pull[p] = [state |-> "merged", head |-> h]
    BY <1>1, Zenon DEF MergeInv
  <2> QED
    BY <1>1, <2>1
<1>5. phase[c] # "unissued"
  BY DEF Waiting
<1>6. ASSUME NEW q \in Pulls, mergedBy'[q] # None
      PROVE  LET d == mergedBy'[q] IN
               phase'[d] # "unissued" /\ on'[d] = q /\ pull'[q] = [state |-> "merged", head |-> expects'[d]]
  <2>1. CASE q = p
    BY <1>2, <1>5, <2>1
  <2>2. CASE q # p
    BY <1>3, <1>6, <2>2 DEF MergeInv
  <2> QED
    BY <2>1, <2>2
<1>7. ASSUME NEW q \in Pulls, NEW h \in Recorded(q)' PROVE pull'[q] = [state |-> "merged", head |-> h]
  <2>1. h \in Recorded(q)
    BY <1>7 DEF Recorded
  <2>2. q # p
    BY <1>4, <2>1
  <2> QED
    BY <1>3, <2>1, <2>2 DEF MergeInv
<1> QED
  BY <1>6, <1>7 DEF MergeInv

LEMMA MergeStep ==
  DeliveryTypeOK /\ StepInv /\ MergeInv /\ [DeliveryNext]_deliveryVars => MergeInv'
<1> SUFFICES ASSUME DeliveryTypeOK, StepInv, MergeInv, [DeliveryNext]_deliveryVars PROVE MergeInv'
  OBVIOUS
<1>k. Kept
  BY KeptStep
<1>s. SeenMerged
  BY DEF MergeInv
<1>1. ASSUME NEW c \in Commands, Gates(c) \/ ConfirmMerge(c) \/ Reread(c) PROVE MergeInv'
  <2>1. UNCHANGED <<pull, payload, verified, mergedBy>>
    BY <1>1 DEF Gates, ConfirmMerge, Reread
  <2>2. \/ Reject(c) \/ Goto(c, "count") \/ Goto(c, "reserve")
        \/ Goto(c, "record") /\ pull[on[c]].state = "merged"
    BY <1>1 DEF Gates, ConfirmMerge, Reread
  <2>3. SeenMerged'
    BY <2>1, <2>2 DEF Reject, Settle, Leave, Goto, SeenMerged
  <2> QED
    BY <1>k, <2>1, <2>3, MergeKept
<1>2. ASSUME NEW c \in Commands, Record(c) PROVE MergeInv'
  <2> DEFINE p == on[c]
  <2>1. UNCHANGED <<pull, on, expects, mergedBy, phase>> /\ call'.step \in {"count", "complete"}
    BY <1>2 DEF Record, Goto
  <2>2. SeenMerged'
    BY <2>1 DEF SeenMerged
  <2>3. CASE verified' = verified
    BY <1>k, <2>1, <2>2, <2>3, MergeKept
  <2>4. CASE verified' = verified \cup {<<p, expects[c]>>} /\ pull[p].head = expects[c]
    <3>1. p \in Pulls /\ pull[p] \in PullRequest
      BY DEF DeliveryTypeOK
    <3>2. pull[p].state = "merged"
      BY <1>2 DEF Record, At, MergeInv, SeenMerged
    <3>3. pull[p] = [state |-> "merged", head |-> expects[c]]
      BY <2>4, <3>1, <3>2 DEF PullRequest
    <3>4. ASSUME NEW q \in Pulls, NEW h \in Recorded(q)' PROVE pull'[q] = [state |-> "merged", head |-> h]
      <4>1. h \in Recorded(q) \/ (q = p /\ h = expects[c])
        BY <2>4, <3>4 DEF Recorded
      <4> QED
        BY <2>1, <3>3, <4>1 DEF MergeInv
    <3> QED
      BY <2>1, <2>2, <3>4 DEF MergeInv
  <2> QED
    BY <1>2, <2>3, <2>4 DEF Record
<1>3. ASSUME NEW c \in Commands, Submit(c) PROVE MergeInv'
  <2>1. phase[c] \in Waiting
    BY <1>3, AtStep DEF Submit, Steps
  <2>2. phase' = phase /\ UNCHANGED payload /\ verified' = verified /\ call'.step # "record"
    BY <1>3 DEF Submit, Goto
  <2>3. SeenMerged'
    BY <2>2 DEF SeenMerged
  <2>4. Merges(c) \/ mergedBy' = mergedBy
    BY <1>3 DEF Submit
  <2> QED
    BY <1>k, <2>1, <2>2, <2>3, <2>4, MergeKept, MergesKept
<1>4. ASSUME NEW c \in Commands, Breaks(c) PROVE MergeInv'
  <2>1. phase[c] \in Waiting
    BY <1>4 DEF Breaks, StepInv
  <2>2. phase' = phase /\ UNCHANGED payload /\ verified' = verified /\ call'.step # "record"
    BY <1>4 DEF Breaks, Leave
  <2>3. SeenMerged'
    BY <2>2 DEF SeenMerged
  <2>4. Merges(c) \/ mergedBy' = mergedBy
    BY <1>4 DEF Breaks
  <2> QED
    BY <1>k, <2>1, <2>2, <2>3, <2>4, MergeKept, MergesKept
<1>5. ASSUME NEW c \in Commands, Begin(c) \/ Accept(c) \/ ReserveAttempt(c) PROVE MergeInv'
  <2>1. verified' = verified /\ mergedBy' = mergedBy
    BY <1>5 DEF Begin, Accept, ReserveAttempt
  <2>2. call'.step # "record"
    BY <1>5 DEF Begin, BeginMerge, BeginFinalize, Accept, ReserveAttempt, Reject, Settle, Leave, Goto
  <2> QED
    BY <1>k, <2>1, <2>2, MergeKept DEF SeenMerged
<1>6. ASSUME NEW c \in Commands,
             \/ Verify(c) \/ Attest(c) \/ Ask(c) \/ RecordAsk(c) \/ CloseIssue(c) \/ ConfirmClose(c)
             \/ Deliver(c) \/ Complete(c) \/ Count(c) \/ Fail(c)
      PROVE MergeInv'
  <2>1. verified' = verified /\ mergedBy' = mergedBy
    BY <1>6 DEF Verify, Attest, Ask, RecordAsk, CloseIssue, ConfirmClose, Deliver, Complete, Count, Fail
  <2>2. call'.step # "record"
    <3>1. CASE Verify(c)
      BY <3>1 DEF Verify, Reject, Settle, Leave, Goto
    <3>2. CASE Attest(c) \/ Ask(c) \/ RecordAsk(c) \/ CloseIssue(c) \/ ConfirmClose(c) \/ Deliver(c)
      BY <3>2 DEF Attest, Ask, RecordAsk, CloseIssue, ConfirmClose, Deliver, Leave, Goto
    <3>3. CASE Complete(c) \/ Count(c) \/ Fail(c)
      BY <3>3 DEF Complete, Count, Fail, Settle, Leave
    <3> QED
      BY <1>6, <3>1, <3>2, <3>3
  <2> QED
    BY <1>k, <2>1, <2>2, MergeKept DEF SeenMerged
<1>7. ASSUME NEW c \in Commands, IssueCommand(c) \/ Bar(c) PROVE MergeInv'
  BY <1>7, <1>k, <1>s, SeenKept, MergeKept DEF IssueCommand, Bar
<1>8. ASSUME NEW p \in Pulls, Push(p) \/ PersonMerges(p) \/ PersonCloses(p) \/ PersonReopens(p) PROVE MergeInv'
  BY <1>8, <1>k, <1>s, SeenKept, MergeKept DEF Push, PersonMerges, PersonCloses, PersonReopens
<1>9. CASE Project \/ IssueChanges \/ DecisionArises \/ DecisionResolved \/ RunEnds
  BY <1>9, <1>k, <1>s, SeenKept, MergeKept DEF Project, IssueChanges, DecisionArises, DecisionResolved, RunEnds
<1>10. CASE UNCHANGED deliveryVars
  BY <1>10, <1>k, <1>s, SeenKept, MergeKept DEF deliveryVars
<1> QED
  BY <1>1, <1>2, <1>3, <1>4, <1>5, <1>6, <1>7, <1>8, <1>9, <1>10 DEF DeliveryNext, Process

-----------------------------------------------------------------------------
(* What each step of finalizing knows of the steps before it.              *)
AllMerged == \A p \in Pulls : pull[p].state = "merged"

Done == FinalizeSteps \ {"verify"}

StepKnows ==
  /\ call.step = "accept" /\ call.cmd \in finalizes => AllMerged
  /\ call.step \in Done => AllMerged
  /\ call.step \in Done \ {"attest"} => attested = call.cmd
  /\ call.step \in {"recordAsk", "close", "confirmClose", "deliver"} => promoted \/ run = "succeeded"
  /\ call.step \in {"close", "confirmClose", "deliver"} => asked
  /\ call.step = "complete" /\ call.cmd \in finalizes => delivered /\ attested = call.cmd

EarnedInv == StepKnows /\ DeliveryIsEarned

LEMMA EarnedInit == DeliveryInit => EarnedInv
BY DEF DeliveryInit, EarnedInv, StepKnows, DeliveryIsEarned, FinalizeSteps, Done

LEMMA MergedKept == ASSUME Kept, AllMerged PROVE AllMerged'
BY DEF Kept, AllMerged

LEMMA KnowsKept ==
  ASSUME DeliveryTypeOK, StepInv, StepKnows, Kept, call' = call
  PROVE  StepKnows'
<1>1. ~Idle => call.cmd \in Commands /\ phase[call.cmd] # "unissued"
  BY DEF StepInv, Idle, DeliveryTypeOK, Waiting
<1>2. ~Idle => (call.cmd \in finalizes') = (call.cmd \in finalizes)
  BY <1>1 DEF Kept
<1>3. ~Idle => (attested = call.cmd => attested' = call.cmd)
  BY <1>1 DEF Kept, None, Commands
<1>4. AllMerged => AllMerged'
  BY MergedKept
<1>5. /\ promoted \/ run = "succeeded" => promoted' \/ run' = "succeeded"
      /\ (asked => asked') /\ (delivered => delivered')
  BY DEF Kept
<1> QED
  BY <1>2, <1>3, <1>4, <1>5 DEF StepKnows, FinalizeSteps, Done, Idle

LEMMA IdleKnows == ASSUME call'.step \in {"idle", "count", "fail", "verify"} \cup MergeSteps PROVE StepKnows'
BY DEF StepKnows, FinalizeSteps, Done, MergeSteps

LEMMA EarnedKept ==
  ASSUME DeliveryTypeOK, DeliveryTypeOK', EarnedInv, Kept, delivered' = delivered, StepKnows',
         \A c \in Commands : phase'[c] = "succeeded" => phase[c] = "succeeded"
  PROVE  EarnedInv'
<1>1. ASSUME delivered
      PROVE  attested' # None /\ asked' /\ (promoted' \/ run' = "succeeded") /\ AllMerged'
  BY <1>1, MergedKept DEF EarnedInv, DeliveryIsEarned, Kept, AllMerged
<1>2. ASSUME NEW c \in finalizes', phase'[c] = "succeeded" PROVE delivered' /\ attested' = c
  <2>1. c \in Commands
    BY <1>2 DEF DeliveryTypeOK
  <2> QED
    BY <1>2, <2>1 DEF EarnedInv, DeliveryIsEarned, Kept
<1> QED
  BY <1>1, <1>2 DEF EarnedInv, DeliveryIsEarned, AllMerged

(* A step that ends no command successfully. *)
LEMMA NoSuccess ==
  ASSUME DeliveryTypeOK, NEW c \in Commands,
         \/ phase' = phase
         \/ \E p \in (Waiting \cup Terminal) \ {"succeeded"} : phase' = [phase EXCEPT ![c] = p]
  PROVE  \A d \in Commands : phase'[d] = "succeeded" => phase[d] = "succeeded"
BY DEF DeliveryTypeOK

LEMMA EarnedStep ==
  DeliveryTypeOK /\ StepInv /\ EarnedInv /\ [DeliveryNext]_deliveryVars => EarnedInv'
<1> SUFFICES ASSUME DeliveryTypeOK, StepInv, EarnedInv, [DeliveryNext]_deliveryVars PROVE EarnedInv'
  OBVIOUS
<1>k. Kept /\ DeliveryTypeOK'
  BY KeptStep, TypeStep
<1>s. StepKnows /\ DeliveryIsEarned
  BY DEF EarnedInv
<1> DEFINE NoneSucceeds == \A d \in Commands : phase'[d] = "succeeded" => phase[d] = "succeeded"
<1>1. ASSUME NEW c \in Commands, Begin(c) PROVE EarnedInv'
  <2>1. delivered' = delivered /\ attested' = attested /\ finalizes' = finalizes
    BY <1>1 DEF Begin
  <2>2. \/ Reject(c)
        \/ c \notin finalizes /\ (Goto(c, "complete") \/ Goto(c, "reread") \/ Goto(c, "accept") \/ Goto(c, "gates"))
        \/ c \in finalizes /\ Goto(c, "complete") /\ delivered /\ attested = c
        \/ Goto(c, "verify")
    BY <1>1 DEF Begin, BeginMerge, BeginFinalize
  <2>3. NoneSucceeds
    BY <2>2, NoSuccess DEF Reject, Settle, Goto, Waiting, Terminal
  <2>4. StepKnows'
    BY <2>1, <2>2 DEF Reject, Settle, Leave, Goto, StepKnows, FinalizeSteps, Done
  <2> QED
    BY <1>k, <2>1, <2>3, <2>4, EarnedKept
<1>2. ASSUME NEW c \in Commands, Accept(c) PROVE EarnedInv'
  <2>1. delivered' = delivered /\ pull' = pull /\ finalizes' = finalizes
    BY <1>2 DEF Accept
  <2>2. call' = [step |-> IF c \in finalizes THEN "attest" ELSE "gates", cmd |-> c]
        /\ call = [step |-> "accept", cmd |-> c]
    BY <1>2 DEF Accept, At
  <2>3. c \in finalizes => AllMerged'
    BY <1>s, <2>1, <2>2 DEF StepKnows, AllMerged
  <2>4. StepKnows'
    BY <2>2, <2>3 DEF StepKnows, FinalizeSteps, Done
  <2>5. NoneSucceeds
    BY <1>2, NoSuccess DEF Accept, Waiting
  <2> QED
    BY <1>k, <2>1, <2>4, <2>5, EarnedKept
<1>3. ASSUME NEW c \in Commands, Gates(c) \/ ConfirmMerge(c) \/ Reread(c) \/ Submit(c) PROVE EarnedInv'
  <2>1. delivered' = delivered
    BY <1>3 DEF Gates, ConfirmMerge, Reread, Submit
  <2>2. Reject(c) \/ \E s \in {"count", "record", "reserve", "confirmMerge"} : Goto(c, s)
    BY <1>3 DEF Gates, ConfirmMerge, Reread, Submit
  <2>3. NoneSucceeds
    BY <2>2, NoSuccess DEF Reject, Settle, Goto, Waiting, Terminal
  <2>4. StepKnows'
    BY <2>2, IdleKnows DEF Reject, Settle, Leave, Goto, MergeSteps
  <2> QED
    BY <1>k, <2>1, <2>3, <2>4, EarnedKept
<1>4. ASSUME NEW c \in Commands, ReserveAttempt(c) \/ Count(c) \/ Fail(c) \/ Breaks(c) PROVE EarnedInv'
  <2>1. delivered' = delivered
    BY <1>4 DEF ReserveAttempt, Count, Fail, Breaks
  <2>2. call'.step \in {"submit", "fail", "idle"}
    BY <1>4 DEF ReserveAttempt, Count, Fail, Breaks, Settle, Leave
  <2>3. NoneSucceeds
    BY <1>4, NoSuccess DEF ReserveAttempt, Count, Fail, Breaks, Settle, Waiting
  <2>4. StepKnows'
    BY <2>2, IdleKnows DEF MergeSteps
  <2> QED
    BY <1>k, <2>1, <2>3, <2>4, EarnedKept
<1>5. ASSUME NEW c \in Commands, Record(c) PROVE EarnedInv'
  <2>1. delivered' = delivered /\ finalizes' = finalizes /\ phase' = phase
    BY <1>5 DEF Record, Goto
  <2>2. c \notin finalizes
    BY <1>5, AtStep DEF Record, Steps, MergeSteps
  <2>3. Goto(c, "count") \/ Goto(c, "complete")
    BY <1>5 DEF Record
  <2>4. StepKnows'
    BY <2>1, <2>2, <2>3 DEF Goto, StepKnows, FinalizeSteps, Done
  <2> QED
    BY <1>k, <2>1, <2>4, EarnedKept
<1>6. ASSUME NEW c \in Commands, Verify(c) PROVE EarnedInv'
  <2>1. delivered' = delivered /\ pull' = pull
    BY <1>6 DEF Verify
  <2>2. \/ Reject(c) \/ Goto(c, "count")
        \/ AllMerged /\ (Goto(c, "accept") \/ Goto(c, "attest"))
    BY <1>6 DEF Verify, AllMerged
  <2>3. NoneSucceeds
    BY <2>2, NoSuccess DEF Reject, Settle, Goto, Waiting, Terminal
  <2>4. AllMerged => AllMerged'
    BY <2>1 DEF AllMerged
  <2>5. StepKnows'
    BY <2>2, <2>4 DEF Reject, Settle, Leave, Goto, StepKnows, FinalizeSteps, Done
  <2> QED
    BY <1>k, <2>1, <2>3, <2>5, EarnedKept
<1>7. ASSUME NEW c \in Commands, Attest(c) PROVE EarnedInv'
  <2>1. delivered' = delivered /\ phase' = phase /\ pull' = pull
    BY <1>7 DEF Attest, Goto
  <2>2. AllMerged /\ AllMerged'
    BY <1>7, <1>s, <2>1 DEF Attest, At, StepKnows, AllMerged, FinalizeSteps, Done
  <2>3. \/ attested' = c /\ call' = [step |-> "ask", cmd |-> c]
        \/ call'.step = "idle"
    BY <1>7 DEF Attest, Goto, Leave
  <2>4. StepKnows'
    BY <2>2, <2>3 DEF StepKnows, FinalizeSteps, Done
  <2> QED
    BY <1>k, <2>1, <2>4, EarnedKept
<1>8. ASSUME NEW c \in Commands, Ask(c) PROVE EarnedInv'
  <2>1. delivered' = delivered /\ attested' = attested /\ phase' = phase /\ pull' = pull /\ run' = run
    BY <1>8 DEF Ask, Goto
  <2>2. AllMerged' /\ attested = c
    BY <1>8, <1>s, <2>1 DEF Ask, At, StepKnows, AllMerged, FinalizeSteps, Done
  <2>3. \/ call'.step = "count"
        \/ call' = [step |-> "recordAsk", cmd |-> c] /\ run # "failed"
    BY <1>8 DEF Ask, Goto
  <2>4. run # "failed" => promoted' \/ run' = "succeeded"
    <3>1. promoted' = (promoted \/ run = "running")
      BY <1>8 DEF Ask
    <3>2. run \in {"running", "succeeded", "failed"}
      BY DEF DeliveryTypeOK
    <3> QED
      BY <2>1, <3>1, <3>2, Zenon
  <2>5. StepKnows'
    BY <2>1, <2>2, <2>3, <2>4 DEF StepKnows, FinalizeSteps, Done
  <2> QED
    BY <1>k, <2>1, <2>5, EarnedKept
<1>9. ASSUME NEW c \in Commands, RecordAsk(c) \/ CloseIssue(c) \/ ConfirmClose(c) PROVE EarnedInv'
  <2>1. /\ phase' = phase /\ UNCHANGED <<delivered, attested, pull, run, promoted>>
        /\ asked' = asked \/ (RecordAsk(c) /\ asked' = TRUE)
    BY <1>9 DEF RecordAsk, CloseIssue, ConfirmClose, Goto
  <2>2. AllMerged' /\ attested' = c /\ (promoted' \/ run' = "succeeded")
    BY <1>9, <1>s, <2>1
       DEF RecordAsk, CloseIssue, ConfirmClose, At, StepKnows, AllMerged, FinalizeSteps, Done
  <2>3. \/ call'.step = "count"
        \/ call'.step \in {"close", "confirmClose", "deliver"} /\ call'.cmd = c /\ asked'
    <3>1. CASE RecordAsk(c)
      BY <3>1 DEF RecordAsk, Goto
    <3>2. CASE CloseIssue(c) \/ ConfirmClose(c)
      BY <3>2, <1>s DEF CloseIssue, ConfirmClose, At, Goto, StepKnows
    <3> QED
      BY <1>9, <3>1, <3>2
  <2>4. StepKnows'
    BY <2>2, <2>3 DEF StepKnows, FinalizeSteps, Done
  <2> QED
    BY <1>k, <2>1, <2>4, EarnedKept
<1>10. ASSUME NEW c \in Commands, Deliver(c) PROVE EarnedInv'
  <2>1. /\ phase' = phase /\ UNCHANGED <<attested, asked, pull, run, promoted, finalizes>>
        /\ delivered' = TRUE /\ call' = [step |-> "complete", cmd |-> c]
    BY <1>10 DEF Deliver, Goto
  <2>2. AllMerged /\ attested = c /\ asked /\ (promoted \/ run = "succeeded")
    BY <1>10, <1>s DEF Deliver, At, StepKnows, FinalizeSteps, Done
  <2>3. c # None
    BY DEF Commands, None
  <2>4. \A d \in finalizes : phase[d] = "succeeded" => attested = d
    BY <1>s DEF DeliveryIsEarned
  <2>5. StepKnows'
    BY <2>1, <2>2 DEF StepKnows, FinalizeSteps, Done
  <2> QED
    BY <2>1, <2>2, <2>3, <2>4, <2>5 DEF EarnedInv, DeliveryIsEarned, AllMerged
<1>11. ASSUME NEW c \in Commands, Complete(c) PROVE EarnedInv'
  <2>1. /\ UNCHANGED <<delivered, attested, asked, pull, run, promoted, finalizes>>
        /\ phase' = [phase EXCEPT ![c] = "succeeded"] /\ call'.step = "idle"
    BY <1>11 DEF Complete, Settle, Leave
  <2>2. c \in finalizes => delivered /\ attested = c
    BY <1>11, <1>s DEF Complete, At, StepKnows
  <2>3. \A d \in finalizes : phase'[d] = "succeeded" => delivered /\ attested = d
    BY <1>s, <2>1, <2>2 DEF DeliveryIsEarned, DeliveryTypeOK
  <2>4. StepKnows'
    BY <2>1, IdleKnows
  <2> QED
    BY <1>s, <2>1, <2>3, <2>4 DEF EarnedInv, DeliveryIsEarned
<1>12. ASSUME NEW c \in Commands, IssueCommand(c) \/ Bar(c) PROVE EarnedInv'
  <2>1. call' = call /\ delivered' = delivered
    BY <1>12 DEF IssueCommand, Bar
  <2>2. NoneSucceeds
    BY <1>12, NoSuccess DEF IssueCommand, Bar, Waiting
  <2> QED
    BY <1>k, <1>s, <2>1, <2>2, KnowsKept, EarnedKept
<1>13. ASSUME NEW p \in Pulls, Push(p) \/ PersonMerges(p) \/ PersonCloses(p) \/ PersonReopens(p)
       PROVE EarnedInv'
  BY <1>13, <1>k, <1>s, KnowsKept, EarnedKept DEF Push, PersonMerges, PersonCloses, PersonReopens
<1>14. CASE Project \/ IssueChanges \/ DecisionArises \/ DecisionResolved \/ RunEnds
  BY <1>14, <1>k, <1>s, KnowsKept, EarnedKept DEF Project, IssueChanges, DecisionArises, DecisionResolved, RunEnds
<1>15. CASE UNCHANGED deliveryVars
  BY <1>15, <1>k, <1>s, KnowsKept, EarnedKept DEF deliveryVars
<1> QED
  BY <1>1, <1>2, <1>3, <1>4, <1>5, <1>6, <1>7, <1>8, <1>9, <1>10, <1>11, <1>12, <1>13, <1>14, <1>15
     DEF DeliveryNext, Process

-----------------------------------------------------------------------------
(* A merge command submits one merge at most, what it merged is the head   *)
(* it was issued for, and what is on record happened, for every number of  *)
(* commands, pull requests, pushes and broken writes                       *)
(* (processMaintainerRequestMerge).                                        *)
THEOREM MergesSafe == DeliverySpec => []MergesAreSafe
<1> DEFINE Inv == DeliveryTypeOK /\ StepInv /\ AttemptInv /\ MergeInv
<1>1. DeliveryInit => Inv
  BY TypeInit, StepInit, AttemptInit, MergeInit
<1>2. Inv /\ [DeliveryNext]_deliveryVars => Inv'
  BY TypeStep, StepStep, AttemptStep, MergeStep
<1>3. Inv => MergesAreSafe
  BY DEF AttemptInv, MergeInv, MergesAreSafe
<1> QED
  BY <1>1, <1>2, <1>3, PTL DEF DeliverySpec

(* A finalize command succeeds only for the delivery it attested, and an   *)
(* item is delivered only when all of it was merged and its run succeeded  *)
(* or was asked to (processMaintainerFinalizeWorkItem).                    *)
THEOREM DeliveryEarned == DeliverySpec => []DeliveryIsEarned
<1> DEFINE Inv == DeliveryTypeOK /\ StepInv /\ EarnedInv
<1>1. DeliveryInit => Inv
  BY TypeInit, StepInit, EarnedInit
<1>2. Inv /\ [DeliveryNext]_deliveryVars => Inv'
  BY TypeStep, StepStep, EarnedStep
<1>3. Inv => DeliveryIsEarned
  BY DEF EarnedInv
<1> QED
  BY <1>1, <1>2, <1>3, PTL DEF DeliverySpec

(* The item, its commands and the worker stay well typed, whatever people  *)
(* and GitHub do.                                                          *)
THEOREM DeliveryTypes == DeliverySpec => []DeliveryTypeOK
<1>1. DeliveryInit => DeliveryTypeOK /\ StepInv
  BY TypeInit, StepInit
<1>2. (DeliveryTypeOK /\ StepInv) /\ [DeliveryNext]_deliveryVars => (DeliveryTypeOK /\ StepInv)'
  BY TypeStep, StepStep
<1> QED
  BY <1>1, <1>2, PTL DEF DeliverySpec

-----------------------------------------------------------------------------
(* Merge and finalize commands implement Delivery.                         *)

(* What a command that merged is sure of, and one about to succeed. *)
MadeInv ==
  /\ \A p \in Pulls : mergedBy[p] # None => submits[mergedBy[p]] # 0
  /\ \A c \in attempted : phase[c] # "pending"
  /\ call.step \in MergeSteps => phase[call.cmd] # "pending"
  /\ call.step = "complete" /\ call.cmd \notin finalizes =>
       <<on[call.cmd], expects[call.cmd]>> \in verified

LEMMA MadeInit == DeliveryInit => MadeInv
BY DEF DeliveryInit, MadeInv, MergeSteps, None

(* A step that leaves the histories alone and takes no command on. *)
LEMMA MadeRejects ==
  ASSUME DeliveryTypeOK, MadeInv, NEW c \in Commands, Reject(c), UNCHANGED <<mergedBy, submits>>
  PROVE  MadeInv'
BY DEF MadeInv, DeliveryTypeOK, Reject, Settle, Leave, MergeSteps

LEMMA MadeGoes ==
  ASSUME DeliveryTypeOK, MadeInv, NEW c \in Commands, NEW s \in Steps, Goto(c, s),
         UNCHANGED <<mergedBy, submits, payload>>,
         s \in MergeSteps => phase[c] # "pending",
         s = "complete" /\ c \notin finalizes => <<on[c], expects[c]>> \in verified'
  PROVE  MadeInv'
BY DEF MadeInv, DeliveryTypeOK, Goto

LEMMA MadeStep ==
  DeliveryTypeOK /\ StepInv /\ AttemptInv /\ MergeInv /\ MadeInv /\ [DeliveryNext]_deliveryVars => MadeInv'
<1> SUFFICES ASSUME DeliveryTypeOK, StepInv, AttemptInv, MergeInv, MadeInv, [DeliveryNext]_deliveryVars
             PROVE  MadeInv'
  OBVIOUS
<1>1. ASSUME NEW c \in Commands, Begin(c) PROVE MadeInv'
  <2>1. UNCHANGED <<mergedBy, submits, payload, verified>>
    BY <1>1 DEF Begin
  <2>2. CASE Reject(c)
    BY <2>1, <2>2, MadeRejects
  <2>3. CASE BeginMerge(c) /\ ~Reject(c)
    <3>1. CASE Recorded(on[c]) = {expects[c]} /\ Goto(c, "complete")
      <4>1. <<on[c], expects[c]>> \in verified
        BY <3>1 DEF Recorded
      <4> QED
        BY <2>1, <3>1, <4>1, MadeGoes DEF Steps, MergeSteps
    <3>2. CASE c \in attempted /\ Goto(c, "reread")
      BY <2>1, <3>2, MadeGoes DEF Steps, MadeInv
    <3>3. CASE Goto(c, IF phase[c] = "pending" THEN "accept" ELSE "gates")
      <4>1. CASE phase[c] = "pending"
        BY <2>1, <3>3, <4>1, MadeGoes DEF Steps, MergeSteps
      <4>2. CASE phase[c] # "pending"
        BY <2>1, <3>3, <4>2, MadeGoes DEF Steps, MergeSteps
      <4> QED
        BY <4>1, <4>2
    <3> QED
      BY <2>3, <3>1, <3>2, <3>3 DEF BeginMerge
  <2>4. CASE BeginFinalize(c) /\ ~Reject(c)
    <3>1. c \in finalizes
      BY <2>4 DEF BeginFinalize
    <3>2. Goto(c, "complete") \/ Goto(c, "verify")
      BY <2>4 DEF BeginFinalize
    <3> QED
      BY <2>1, <3>1, <3>2, MadeGoes DEF Steps, MergeSteps
  <2> QED
    BY <1>1, <2>2, <2>3, <2>4 DEF Begin
<1>2. ASSUME NEW c \in Commands, Accept(c) PROVE MadeInv'
  <2>1. phase' = [phase EXCEPT ![c] = "accepted"] /\ attempted' = attempted \ {c}
    BY <1>2 DEF Accept
  <2>2. call'.step \notin {"complete"} /\ call'.cmd = c /\ UNCHANGED <<mergedBy, submits>>
    BY <1>2 DEF Accept
  <2>3. phase'[c] # "pending" /\ \A d \in attempted' : phase'[d] # "pending"
    BY <2>1 DEF DeliveryTypeOK, MadeInv
  <2> QED
    BY <2>2, <2>3 DEF MadeInv
<1>3. ASSUME NEW c \in Commands, Gates(c) \/ ConfirmMerge(c) \/ Reread(c) PROVE MadeInv'
  <2>1. UNCHANGED <<mergedBy, submits, payload>> /\ phase[c] # "pending"
    BY <1>3 DEF Gates, ConfirmMerge, Reread, At, MadeInv, MergeSteps
  <2>2. Reject(c) \/ \E s \in {"count", "record", "reserve"} : Goto(c, s)
    BY <1>3 DEF Gates, ConfirmMerge, Reread
  <2> QED
    BY <2>1, <2>2, MadeRejects, MadeGoes DEF Steps
<1>4. ASSUME NEW c \in Commands, ReserveAttempt(c) PROVE MadeInv'
  <2>1. phase[c] # "pending" /\ UNCHANGED <<mergedBy, submits, phase>>
    BY <1>4 DEF ReserveAttempt, At, MadeInv, MergeSteps
  <2>2. attempted' = attempted \cup {c} /\ call' = [step |-> "submit", cmd |-> c]
    BY <1>4 DEF ReserveAttempt
  <2> QED
    BY <2>1, <2>2 DEF MadeInv
<1>5. ASSUME NEW c \in Commands, phase' = phase, attempted' = attempted,
             \/ Merges(c) /\ submits' = [submits EXCEPT ![c] = @ + 1]
             \/ mergedBy' = mergedBy /\ (submits' = submits \/ submits' = [submits EXCEPT ![c] = @ + 1])
      PROVE  \A p \in Pulls : mergedBy'[p] # None => submits'[mergedBy'[p]] # 0
  <2>1. \A d \in Commands : submits[d] # 0 \/ (d = c /\ submits' # submits) => submits'[d] # 0
    BY <1>5 DEF DeliveryTypeOK
  <2>2. CASE Merges(c) /\ submits' = [submits EXCEPT ![c] = @ + 1]
    <3>1. submits'[c] # 0
      BY <2>2 DEF DeliveryTypeOK
    <3>2. \A p \in Pulls : mergedBy'[p] = c \/ mergedBy'[p] = mergedBy[p]
      BY <2>2 DEF Merges, DeliveryTypeOK
    <3> QED
      BY <2>1, <3>1, <3>2 DEF MadeInv, DeliveryTypeOK
  <2> QED
    BY <1>5, <2>1, <2>2 DEF MadeInv, DeliveryTypeOK
<1>6. ASSUME NEW c \in Commands, Submit(c) PROVE MadeInv'
  <2>1. phase[c] # "pending" /\ UNCHANGED <<phase, attempted>>
    BY <1>6 DEF Submit, At, MadeInv, MergeSteps, Goto
  <2>2. call'.cmd = c /\ call'.step \in {"confirmMerge", "count"}
    BY <1>6 DEF Submit, Goto
  <2>3. \A p \in Pulls : mergedBy'[p] # None => submits'[mergedBy'[p]] # 0
    BY <1>5, <1>6, <2>1 DEF Submit
  <2> QED
    BY <2>1, <2>2, <2>3 DEF MadeInv
<1>7. ASSUME NEW c \in Commands, Breaks(c) PROVE MadeInv'
  <2>1. UNCHANGED <<phase, attempted>> /\ call'.step = "idle"
    BY <1>7 DEF Breaks, Leave
  <2>2. \A p \in Pulls : mergedBy'[p] # None => submits'[mergedBy'[p]] # 0
    BY <1>5, <1>7, <2>1 DEF Breaks
  <2> QED
    BY <2>1, <2>2 DEF MadeInv, MergeSteps
<1>8. ASSUME NEW c \in Commands, Record(c) PROVE MadeInv'
  <2>1. UNCHANGED <<mergedBy, submits, payload, pull>> /\ (Goto(c, "count") \/ Goto(c, "complete"))
    BY <1>8 DEF Record
  <2>2. Goto(c, "complete") => <<on[c], expects[c]>> \in verified'
    <3>1. CASE Recorded(on[c]) = {}
      BY <1>8, <3>1 DEF Record, Goto
    <3>2. CASE Recorded(on[c]) # {}
      <4>1. PICK h \in Recorded(on[c]) : TRUE
        BY <3>2
      <4>2. pull[on[c]] = [state |-> "merged", head |-> h]
        BY <4>1 DEF MergeInv, DeliveryTypeOK
      <4>3. Goto(c, "complete") => h = expects[c]
        BY <1>8, <4>2 DEF Record, Goto
      <4> QED
        BY <1>8, <4>1, <4>3, <3>2 DEF Record, Recorded
    <3> QED
      BY <3>1, <3>2
  <2> QED
    BY <2>1, <2>2, MadeGoes DEF Steps, MergeSteps
<1>9. ASSUME NEW c \in Commands, Verify(c) PROVE MadeInv'
  <2>1. UNCHANGED <<mergedBy, submits, payload>>
    BY <1>9 DEF Verify
  <2>2. Reject(c) \/ \E s \in {"count", "accept", "attest"} : Goto(c, s)
    BY <1>9 DEF Verify
  <2> QED
    BY <2>1, <2>2, MadeRejects, MadeGoes DEF Steps, MergeSteps
<1>10. ASSUME NEW c \in Commands, Attest(c) \/ Ask(c) \/ RecordAsk(c) \/ CloseIssue(c) \/ ConfirmClose(c)
       PROVE MadeInv'
  <2>1. UNCHANGED <<mergedBy, submits, phase, attempted>>
    BY <1>10 DEF Attest, Ask, RecordAsk, CloseIssue, ConfirmClose, Goto
  <2>2. call'.step \in {"idle", "ask", "count", "recordAsk", "close", "confirmClose", "deliver"}
    BY <1>10 DEF Attest, Ask, RecordAsk, CloseIssue, ConfirmClose, Goto, Leave
  <2> QED
    BY <2>1, <2>2 DEF MadeInv, MergeSteps
<1>11. ASSUME NEW c \in Commands, Deliver(c) PROVE MadeInv'
  <2>1. c \in finalizes
    BY <1>11 DEF Deliver, At, StepInv, FinalizeSteps
  <2> QED
    BY <1>11, <2>1, MadeGoes DEF Deliver, Steps, MergeSteps
<1>12. ASSUME NEW c \in Commands, Complete(c) \/ Count(c) \/ Fail(c) PROVE MadeInv'
  <2>1. UNCHANGED <<mergedBy, submits, attempted>> /\ call'.step \in {"idle", "fail"}
    BY <1>12 DEF Complete, Count, Fail, Settle, Leave
  <2>2. phase' = phase \/ \E p \in {"succeeded", "failed"} : phase' = [phase EXCEPT ![c] = p]
    BY <1>12 DEF Complete, Count, Fail, Settle
  <2> QED
    BY <2>1, <2>2 DEF MadeInv, MergeSteps, DeliveryTypeOK
<1>13. ASSUME NEW c \in Commands, IssueCommand(c) PROVE MadeInv'
  <2>1. phase[c] = "unissued" /\ phase' = [phase EXCEPT ![c] = "pending"] /\ c \notin attempted
    BY <1>13 DEF IssueCommand, StepInv
  <2>2. UNCHANGED <<mergedBy, submits, attempted, call, verified>>
    BY <1>13 DEF IssueCommand
  <2>3. call.step # "idle" => call.cmd \in Commands \ {c}
    BY <2>1 DEF StepInv, Idle, Waiting, DeliveryTypeOK
  <2>4. \A d \in Commands \ {c} : /\ phase'[d] = phase[d] /\ on'[d] = on[d] /\ expects'[d] = expects[d]
                                 /\ (d \in finalizes') = (d \in finalizes)
    BY <1>13 DEF IssueCommand, DeliveryTypeOK
  <2>5. \A d \in attempted : phase'[d] # "pending"
    BY <2>1, <2>4 DEF MadeInv, DeliveryTypeOK
  <2> QED
    BY <2>2, <2>3, <2>4, <2>5 DEF MadeInv, MergeSteps
<1>14. CASE UNCHANGED <<mergedBy, submits, status, call, payload, verified>>
  BY <1>14 DEF MadeInv
<1>15. ASSUME NEW c \in Commands, Bar(c) PROVE MadeInv'
  BY <1>14, <1>15 DEF Bar
<1>16. ASSUME NEW p \in Pulls, Push(p) \/ PersonMerges(p) \/ PersonCloses(p) \/ PersonReopens(p) PROVE MadeInv'
  BY <1>14, <1>16 DEF Push, PersonMerges, PersonCloses, PersonReopens
<1>17. CASE Project \/ IssueChanges \/ DecisionArises \/ DecisionResolved \/ RunEnds
  BY <1>14, <1>17 DEF Project, IssueChanges, DecisionArises, DecisionResolved, RunEnds
<1>18. CASE UNCHANGED deliveryVars
  BY <1>14, <1>18 DEF deliveryVars
<1> QED
  BY <1>1, <1>2, <1>3, <1>4, <1>6, <1>7, <1>8, <1>9, <1>10, <1>11, <1>12, <1>13, <1>15, <1>16, <1>17, <1>18
     DEF DeliveryNext, Process

ImplInv == DeliveryTypeOK /\ StepInv /\ AttemptInv /\ MergeInv /\ EarnedInv /\ MadeInv

LEMMA ImplStep == ImplInv /\ [DeliveryNext]_deliveryVars => ImplInv'
BY TypeStep, StepStep, AttemptStep, MergeStep, EarnedStep, MadeStep DEF ImplInv

(* What Delivery sees of the work item. *)
Issued   == <<finalizes, Wish, Outcome, barred>>
Happened == <<Merged, Made, verified>>
Staged   == <<attested, Assured, asked, delivered>>
Seen     == <<Issued, Happened, Staged>>

LEMMA UnseenPayload == ASSUME UNCHANGED payload PROVE UNCHANGED <<finalizes, Wish>>
BY DEF Wish

LEMMA UnseenGithub == ASSUME UNCHANGED <<pull, mergedBy>> PROVE UNCHANGED <<Merged, Made>>
BY DEF Merged, Made

LEMMA UnseenRun == ASSUME UNCHANGED <<promoted, run>> PROVE UNCHANGED Assured
BY DEF Assured

LEMMA UnseenOutcome ==
  ASSUME DeliveryTypeOK, NEW c \in Commands, phase[c] \in Waiting,
         phase' = phase \/ \E p \in Waiting : phase' = [phase EXCEPT ![c] = p]
  PROVE  Outcome' = Outcome
<1>1. \A d \in Commands : phase'[d] = phase[d] \/ (phase'[d] \in Waiting /\ phase[d] \in Waiting)
  BY DEF DeliveryTypeOK
<1> QED
  BY <1>1 DEF Outcome

(* A command reports what it did, or a rejection. *)
LEMMA Settles ==
  ASSUME DeliveryTypeOK, NEW c \in Commands, phase[c] \in Waiting, NEW t \in Terminal,
         phase' = [phase EXCEPT ![c] = t], UNCHANGED <<finalizes, Wish, barred, Happened, Staged>>
  PROVE  Commanded!Ends(c, t)
<1>1. Outcome[c] = "open"
  BY DEF Outcome
<1>2. \A d \in Commands : phase'[d] = IF d = c THEN t ELSE phase[d]
  BY DEF DeliveryTypeOK
<1>3. t \notin Waiting
  BY DEF Terminal, Waiting
<1>4. Outcome' = [Outcome EXCEPT ![c] = t]
  BY <1>2, <1>3 DEF Outcome
<1> QED
  BY <1>1, <1>4 DEF Commanded!Ends, Commanded!Open, Commanded!merges, Commanded!stages, Happened, Staged

(* A command that merged is marked, and its merge is what it was issued    *)
(* for: none of the reasons to reject it remains.                          *)
LEMMA MadeKnows ==
  ASSUME ImplInv, NEW c \in Made, phase[c] \in Waiting
  PROVE  /\ c \in attempted /\ c \notin finalizes /\ phase[c] # "pending"
         /\ pull[on[c]].state = "merged" /\ Recorded(on[c]) \in {{}, {expects[c]}}
<1>0. DeliveryTypeOK /\ AttemptInv /\ MergeInv /\ MadeInv
  BY DEF ImplInv
<1>1. PICK p \in Pulls : mergedBy[p] = c
  BY DEF Made
<1>2. c \in Commands /\ c # None
  BY DEF Made, Commands, None
<1>3. c \in attempted /\ c \notin finalizes /\ phase[c] # "pending"
  BY <1>0, <1>1, <1>2 DEF MadeInv, AttemptInv, DeliveryTypeOK, Waiting
<1>4. on[c] = p /\ pull[p] = [state |-> "merged", head |-> expects[c]]
  BY <1>0, <1>1, <1>2 DEF MergeInv
<1>5. \A h \in Recorded(p) : h = expects[c]
  <2> SUFFICES ASSUME NEW h \in Recorded(p) PROVE h = expects[c]
    OBVIOUS
  <2>1. pull[p] = [state |-> "merged", head |-> h]
    BY <1>0, Zenon DEF MergeInv
  <2> QED
    BY <1>4, <2>1
<1>6. Recorded(p) \in {{}, {expects[c]}}
  BY <1>5
<1> QED
  BY <1>3, <1>4, <1>6

LEMMA RejectImplements ==
  ASSUME ImplInv, NEW c \in Commands, phase[c] \in Waiting, Reject(c), c \in Made => c \in barred,
         UNCHANGED <<github, record, payload, barred, mergedBy>>
  PROVE  Commanded!Next
<1>1. UNCHANGED <<finalizes, Wish, barred, Happened, Staged>>
  BY UnseenPayload, UnseenGithub, UnseenRun DEF Happened, Staged
<1>2. Commanded!Ends(c, "rejected")
  BY <1>1, Settles DEF Reject, Settle, Terminal, ImplInv
<1> QED
  BY <1>2 DEF Commanded!Next, Commanded!Reject

(* A step that leaves alone all that Delivery sees. *)
LEMMA StepImplements ==
  ASSUME DeliveryTypeOK, NEW c \in Commands, phase[c] \in Waiting,
         phase' = phase \/ \E p \in Waiting : phase' = [phase EXCEPT ![c] = p],
         UNCHANGED <<pull, promoted, run, record, payload, barred, mergedBy>>
  PROVE  UNCHANGED Seen
BY UnseenPayload, UnseenGithub, UnseenRun, UnseenOutcome DEF Seen, Issued, Happened, Staged

LEMMA MergesImplement ==
  ASSUME ImplInv, NEW c \in Commands, phase[c] \in Waiting, c \notin finalizes, Merges(c),
         UNCHANGED <<phase, payload, barred, record, promoted, run>>
  PROVE  Commanded!Next
<1> DEFINE p == on[c]
<1>0. DeliveryTypeOK /\ MergeInv
  BY DEF ImplInv
<1>1. p \in Pulls /\ expects[c] \in Heads /\ pull[p] = [state |-> "open", head |-> expects[c]]
  BY <1>0 DEF Merges, DeliveryTypeOK
<1>2. pull' = [pull EXCEPT ![p].state = "merged"] /\ mergedBy' = [mergedBy EXCEPT ![p] = c]
  BY DEF Merges
<1>3. pull'[p] = [state |-> "merged", head |-> expects[c]] /\ \A q \in Pulls \ {p} : pull'[q] = pull[q]
  BY <1>0, <1>1, <1>2 DEF DeliveryTypeOK
<1>4. \A g \in Heads : <<p, g>> \notin Merged
  BY <1>1 DEF Merged
<1>5. Merged' = Merged \cup {<<p, expects[c]>>}
  BY <1>1, <1>3 DEF Merged
<1>6. mergedBy[p] = None
  <2>1. mergedBy[p] # None => pull[p] = [state |-> "merged", head |-> expects[mergedBy[p]]]
    BY <1>0, <1>1, Zenon DEF MergeInv
  <2> QED
    BY <1>1, <2>1
<1>7. Made' = Made \cup {c}
  <2>1. \A q \in Pulls : mergedBy'[q] = IF q = p THEN c ELSE mergedBy[q]
    BY <1>0, <1>2 DEF DeliveryTypeOK
  <2>2. \A d \in Commands : d # None
    BY DEF Commands, None
  <2> QED
    BY <1>1, <1>6, <2>1, <2>2 DEF Made
<1>8. UNCHANGED <<Issued, verified, Staged>>
  BY <1>0, UnseenPayload, UnseenRun, UnseenOutcome DEF Issued, Staged
<1>9. Outcome[c] = "open" /\ Wish[c] = <<p, expects[c]>>
  BY DEF Outcome, Wish
<1>10. Commanded!Merge(p, expects[c])
  BY <1>4, <1>5, <1>7, <1>8, <1>9
     DEF Commanded!Merge, Commanded!Open, Commanded!commands, Commanded!stages, Issued, Staged
<1> QED
  BY <1>1, <1>10 DEF Commanded!Next

(* The worker's passes, one action after the other. *)
LEMMA BeginImplements ==
  ASSUME ImplInv, NEW c \in Commands, Begin(c)
  PROVE  Commanded!Next \/ UNCHANGED Seen
<1>1. phase[c] \in Waiting /\ UNCHANGED <<github, record, payload, barred, mergedBy>> /\ DeliveryTypeOK
  BY DEF Begin, ImplInv
<1>2. CASE Reject(c) /\ ~\E s \in Steps : Goto(c, s)
  <2>1. ASSUME c \in Made, c \notin barred PROVE FALSE
    <3>1. /\ c \in attempted /\ c \notin finalizes /\ phase[c] # "pending"
          /\ Recorded(on[c]) \in {{}, {expects[c]}}
      BY <1>1, <2>1, MadeKnows
    <3>2. ~Exhausted(c)
      BY <3>1 DEF Exhausted, Durable
    <3>3. BeginMerge(c)
      BY <2>1, <3>1, <3>2 DEF Begin, BeginFinalize
    <3>4. \E s \in Steps : Goto(c, s)
      BY <3>1, <3>3 DEF BeginMerge, Steps
    <3> QED
      BY <1>2, <3>4
  <2> QED
    BY <1>1, <1>2, <2>1, RejectImplements
<1>3. CASE \E s \in Steps : Goto(c, s)
  BY <1>1, <1>3, StepImplements DEF Goto
<1> QED
  BY <1>2, <1>3 DEF Begin, BeginMerge, BeginFinalize, Steps

LEMMA MergeCommandsImplement ==
  ASSUME ImplInv, NEW c \in Commands,
         \/ Gates(c) \/ ReserveAttempt(c) \/ Submit(c) \/ ConfirmMerge(c) \/ Reread(c) \/ Record(c)
  PROVE  Commanded!Next \/ UNCHANGED Seen
<1>0. DeliveryTypeOK /\ StepInv /\ AttemptInv /\ MergeInv /\ MadeInv
  BY DEF ImplInv
<1>1. phase[c] \in Waiting /\ c \notin finalizes
  BY <1>0 DEF Gates, ReserveAttempt, Submit, ConfirmMerge, Reread, Record, At, StepInv, Idle, MergeSteps
<1>2. CASE Gates(c) \/ ConfirmMerge(c) \/ Reread(c)
  <2>1. UNCHANGED <<github, record, payload, barred, mergedBy>>
    BY <1>2 DEF Gates, ConfirmMerge, Reread
  <2>2. CASE phase' = phase
    BY <1>0, <1>1, <2>1, <2>2, StepImplements
  <2>3. CASE Reject(c)
    <3>1. CASE pull[on[c]].state = "merged"
      BY <1>2, <2>3, <3>1, <1>0, <1>1, <2>1, <2>2, StepImplements, RejectImplements
         DEF Gates, ConfirmMerge, Reread, Goto
    <3>2. CASE pull[on[c]].state # "merged"
      BY <1>1, <2>1, <2>3, <3>2, MadeKnows, RejectImplements
    <3> QED
      BY <3>1, <3>2
  <2> QED
    BY <1>2, <2>2, <2>3 DEF Gates, ConfirmMerge, Reread, Goto
<1>3. CASE ReserveAttempt(c)
  BY <1>0, <1>1, <1>3, StepImplements DEF ReserveAttempt
<1>4. CASE Submit(c)
  <2>1. UNCHANGED <<promoted, run, record, payload, barred, phase>>
    BY <1>4 DEF Submit, Goto
  <2>2. CASE Merges(c)
    BY <1>1, <2>1, <2>2, MergesImplement
  <2>3. CASE UNCHANGED <<pull, mergedBy>>
    BY <1>0, <1>1, <2>1, <2>3, StepImplements
  <2> QED
    BY <1>4, <2>2, <2>3 DEF Submit
<1>5. CASE Record(c)
  <2> DEFINE p == on[c]
  <2>1. UNCHANGED <<github, attested, asked, delivered, payload, barred, mergedBy, phase>>
    BY <1>5 DEF Record, Goto
  <2>2. CASE verified' = verified
    BY <1>0, <1>1, <2>1, <2>2, StepImplements
  <2>3. CASE verified' = verified \cup {<<p, expects[c]>>} /\ pull[p].head = expects[c]
    <3>1. p \in Pulls /\ expects[c] \in Heads
      BY <1>0 DEF DeliveryTypeOK
    <3>2. pull[p].state = "merged"
      BY <1>0, <1>5 DEF Record, At, MergeInv, SeenMerged
    <3>3. <<p, expects[c]>> \in Merged
      BY <2>3, <3>1, <3>2 DEF Merged
    <3>4. UNCHANGED <<Issued, Merged, Made, Staged>>
      BY <1>0, <1>1, <2>1, UnseenPayload, UnseenGithub, UnseenRun, UnseenOutcome DEF Issued, Staged
    <3>5. Commanded!Note(<<p, expects[c]>>)
      BY <2>3, <3>3, <3>4 DEF Commanded!Note, Commanded!commands, Commanded!stages, Issued, Staged
    <3> QED
      BY <3>1, <3>5 DEF Commanded!Next
  <2> QED
    BY <1>5, <2>2, <2>3 DEF Record
<1> QED
  BY <1>2, <1>3, <1>4, <1>5

LEMMA FinalizeImplements ==
  ASSUME ImplInv, NEW c \in Commands,
         \/ Verify(c) \/ Attest(c) \/ Ask(c) \/ RecordAsk(c) \/ CloseIssue(c) \/ ConfirmClose(c)
         \/ Deliver(c)
  PROVE  Commanded!Next \/ UNCHANGED Seen
<1> USE DEF Commanded!commands, Commanded!merges, Commanded!stages, Issued, Happened, Staged
<1>0. DeliveryTypeOK /\ StepInv /\ StepKnows
  BY DEF ImplInv, EarnedInv
<1>1. phase[c] \in Waiting /\ c \in finalizes /\ Outcome[c] = "open" /\ c # None
  BY <1>0 DEF Verify, Attest, Ask, RecordAsk, CloseIssue, ConfirmClose, Deliver, At, StepInv, Idle,
     FinalizeSteps, Outcome, Commands, None
<1>2. UNCHANGED <<finalizes, Wish, barred, Happened>>
  BY UnseenPayload, UnseenGithub DEF Verify, Attest, Ask, RecordAsk, CloseIssue, ConfirmClose, Deliver
<1>3. CASE Verify(c)
  <2>1. UNCHANGED <<github, record, payload, barred, mergedBy>>
    BY <1>3 DEF Verify
  <2>2. CASE Reject(c)
    BY <1>1, <2>1, <2>2, MadeKnows, RejectImplements
  <2>3. CASE phase' = phase
    BY <1>0, <1>1, <2>1, <2>3, StepImplements
  <2> QED
    BY <1>3, <2>2, <2>3 DEF Verify, Goto
<1>4. phase' = phase => UNCHANGED Outcome
  BY <1>0, <1>1, UnseenOutcome
<1>5. CASE Attest(c)
  <2>1. phase' = phase /\ UNCHANGED <<promoted, run, asked, delivered>>
    BY <1>5 DEF Attest, Goto
  <2>2. CASE attested' = attested
    BY <1>2, <1>4, <2>1, <2>2, UnseenRun DEF Seen
  <2>3. CASE attested = None /\ attested' = c
    <3>1. \A p \in Pulls : \E h \in Heads : <<p, h>> \in Merged
      <4>1. AllMerged
        BY <1>0, <1>5 DEF Attest, At, StepKnows, Done, FinalizeSteps
      <4> QED
        BY <1>0, <4>1 DEF AllMerged, Merged, DeliveryTypeOK, PullRequest
    <3>2. Commanded!Attest(c)
      BY <1>1, <1>2, <1>4, <2>1, <2>3, <3>1, UnseenRun DEF Commanded!Attest, Commanded!Open
    <3> QED
      BY <3>2 DEF Commanded!Next
  <2> QED
    BY <1>5, <2>2, <2>3 DEF Attest
<1>6. CASE Ask(c)
  <2>1. phase' = phase /\ UNCHANGED <<run, attested, asked, delivered>> /\ promoted' = (promoted \/ run = "running")
    BY <1>6 DEF Ask, Goto
  <2>2. Assured \in BOOLEAN /\ Assured' \in BOOLEAN
    BY DEF Assured
  <2>3. Assured => Assured'
    BY <2>1 DEF Assured
  <2>4. Assured' = TRUE \/ Assured' = Assured
    BY <2>2, <2>3
  <2>5. CASE Assured' = TRUE
    <3>1. Commanded!Assure
      BY <1>2, <1>4, <2>1, <2>5 DEF Commanded!Assure
    <3> QED
      BY <3>1 DEF Commanded!Next
  <2>6. CASE Assured' = Assured
    BY <1>2, <1>4, <2>1, <2>6 DEF Seen
  <2> QED
    BY <2>4, <2>5, <2>6
<1>7. CASE RecordAsk(c)
  <2>1. phase' = phase /\ UNCHANGED <<promoted, run, attested, delivered>> /\ asked' = TRUE
    BY <1>7 DEF RecordAsk, Goto
  <2>2. attested = c /\ Assured
    BY <1>0, <1>7 DEF RecordAsk, At, StepKnows, Done, FinalizeSteps, Assured
  <2>3. Commanded!Ask
    BY <1>1, <1>2, <1>4, <2>1, <2>2, UnseenRun DEF Commanded!Ask, Commanded!Open
  <2> QED
    BY <2>3 DEF Commanded!Next
<1>8. CASE CloseIssue(c) \/ ConfirmClose(c)
  <2>1. phase' = phase /\ UNCHANGED <<pull, promoted, run, record, payload, barred, mergedBy>>
    BY <1>8 DEF CloseIssue, ConfirmClose, Goto
  <2> QED
    BY <1>0, <1>1, <2>1, StepImplements
<1>9. CASE Deliver(c)
  <2>1. phase' = phase /\ UNCHANGED <<promoted, run, attested, asked>> /\ delivered' = TRUE
    BY <1>9 DEF Deliver, Goto
  <2>2. attested = c /\ asked
    BY <1>0, <1>9 DEF Deliver, At, StepKnows, Done, FinalizeSteps
  <2>3. Commanded!Deliver
    BY <1>1, <1>2, <1>4, <2>1, <2>2, UnseenRun DEF Commanded!Deliver, Commanded!Open
  <2> QED
    BY <2>3 DEF Commanded!Next
<1> QED
  BY <1>3, <1>5, <1>6, <1>7, <1>8, <1>9

LEMMA OutcomesImplement ==
  ASSUME ImplInv, NEW c \in Commands, Accept(c) \/ Complete(c) \/ Count(c) \/ Fail(c) \/ Breaks(c)
  PROVE  Commanded!Next \/ UNCHANGED Seen
<1>0. DeliveryTypeOK /\ StepInv /\ StepKnows /\ MadeInv
  BY DEF ImplInv, EarnedInv
<1>1. phase[c] \in Waiting
  BY <1>0 DEF Accept, Complete, Count, Fail, Breaks, At, StepInv, Idle
<1>2. CASE Accept(c) \/ Count(c) \/ Fail(c)
  <2>1. UNCHANGED <<pull, promoted, run, record, payload, barred, mergedBy>>
    BY <1>2 DEF Accept, Count, Fail
  <2>2. phase' = phase \/ \E p \in Waiting : phase' = [phase EXCEPT ![c] = p]
    BY <1>2 DEF Accept, Count, Fail, Settle, Waiting
  <2> QED
    BY <1>0, <1>1, <2>1, <2>2, StepImplements
<1>3. CASE Complete(c)
  <2>1. UNCHANGED <<github, record, payload, barred, mergedBy>> /\ phase' = [phase EXCEPT ![c] = "succeeded"]
    BY <1>3 DEF Complete, Settle
  <2>2. UNCHANGED <<finalizes, Wish, barred, Happened, Staged>>
    BY <2>1, UnseenPayload, UnseenGithub, UnseenRun DEF Happened, Staged
  <2>3. Commanded!Ends(c, "succeeded")
    BY <1>0, <1>1, <2>1, <2>2, Settles DEF Terminal
  <2>4. IF c \in finalizes THEN delivered /\ attested = c ELSE Wish[c] \in verified
    BY <1>0, <1>3 DEF Complete, At, StepKnows, MadeInv, Wish
  <2>5. Commanded!Succeed(c)
    BY <2>3, <2>4 DEF Commanded!Succeed
  <2> QED
    BY <2>5 DEF Commanded!Next
<1>4. CASE Breaks(c)
  <2>1. UNCHANGED <<run, promoted, record, payload, status, barred>>
    BY <1>4 DEF Breaks
  <2>2. CASE UNCHANGED <<pull, mergedBy>>
    BY <1>0, <1>1, <2>1, <2>2, StepImplements
  <2>3. CASE At(c, "submit") /\ Merges(c)
    <3>1. c \notin finalizes
      BY <1>0, <2>3 DEF At, StepInv, MergeSteps
    <3> QED
      BY <1>1, <2>1, <2>3, <3>1, MergesImplement
  <2> QED
    BY <1>4, <2>2, <2>3 DEF Breaks
<1> QED
  BY <1>2, <1>3, <1>4

(* The maintainer, people, GitHub and the run. *)
LEMMA IssueImplements ==
  ASSUME ImplInv, NEW c \in Commands, IssueCommand(c) PROVE Commanded!Next
<1>0. DeliveryTypeOK
  BY DEF ImplInv
<1>1. phase[c] = "unissued" /\ phase' = [phase EXCEPT ![c] = "pending"]
  BY DEF IssueCommand
<1>2. Outcome[c] = "unissued" /\ Outcome' = [Outcome EXCEPT ![c] = "open"]
  <2>1. \A d \in Commands : phase'[d] = IF d = c THEN "pending" ELSE phase[d]
    BY <1>0, <1>1 DEF DeliveryTypeOK
  <2> QED
    BY <1>1, <2>1 DEF Outcome, Waiting
<1>3. \E w \in Pulls \X Heads : Wish' = [Wish EXCEPT ![c] = w]
  <2>1. CASE UNCHANGED <<on, expects>>
    <3>1. Wish' = [Wish EXCEPT ![c] = <<on[c], expects[c]>>]
      BY <2>1 DEF Wish
    <3>2. <<on[c], expects[c]>> \in Pulls \X Heads
      BY <1>0 DEF DeliveryTypeOK
    <3> QED
      BY <3>1, <3>2
  <2>2. ASSUME NEW p \in Pulls, on' = [on EXCEPT ![c] = p], expects' = [expects EXCEPT ![c] = seenPull[p].head]
        PROVE  \E w \in Pulls \X Heads : Wish' = [Wish EXCEPT ![c] = w]
    <3>1. <<p, seenPull[p].head>> \in Pulls \X Heads
      BY <1>0 DEF DeliveryTypeOK, PullRequest
    <3>2. \A d \in Commands : <<on'[d], expects'[d]>> = IF d = c THEN <<p, seenPull[p].head>> ELSE <<on[d], expects[d]>>
      BY <1>0, <2>2 DEF DeliveryTypeOK
    <3>3. Wish' = [Wish EXCEPT ![c] = <<p, seenPull[p].head>>]
      BY <3>2 DEF Wish
    <3> QED
      BY <3>1, <3>3
  <2> QED
    BY <2>1, <2>2 DEF IssueCommand
<1>4. finalizes' \in {finalizes, finalizes \cup {c}} /\ UNCHANGED <<barred, Happened, Staged>>
  BY UnseenGithub, UnseenRun DEF IssueCommand, Happened, Staged
<1>5. Commanded!Issue(c)
  BY <1>2, <1>3, <1>4 DEF Commanded!Issue, Commanded!merges, Commanded!stages, Happened, Staged
<1> QED
  BY <1>5 DEF Commanded!Next

LEMMA PeopleImplement ==
  ASSUME ImplInv, NEW p \in Pulls, Push(p) \/ PersonMerges(p) \/ PersonCloses(p) \/ PersonReopens(p)
  PROVE  Commanded!Next \/ UNCHANGED Seen
<1>0. DeliveryTypeOK
  BY DEF ImplInv
<1>1. UNCHANGED <<promoted, run, record, payload, status, barred, mergedBy>>
  BY DEF Push, PersonMerges, PersonCloses, PersonReopens
<1>2. UNCHANGED <<Issued, Made, verified, Staged>>
  BY <1>1, UnseenPayload, UnseenRun DEF Issued, Staged, Outcome, Made
<1>3. CASE PersonMerges(p)
  <2>1. pull[p].state = "open" /\ pull[p] \in PullRequest
    BY <1>0, <1>3 DEF PersonMerges, DeliveryTypeOK
  <2>2. \A q \in Pulls : pull'[q] = IF q = p THEN [pull[p] EXCEPT !.state = "merged"] ELSE pull[q]
    BY <1>0, <1>3 DEF PersonMerges, DeliveryTypeOK
  <2>3. pull'[p].state = "merged" /\ pull'[p].head = pull[p].head /\ \A q \in Pulls \ {p} : pull'[q] = pull[q]
    BY <2>1, <2>2 DEF PullRequest
  <2>4. Merged' = Merged \cup {<<p, pull[p].head>>}
    BY <2>1, <2>3 DEF Merged
  <2>5. \A g \in Heads : <<p, g>> \notin Merged
    BY <2>1 DEF Merged
  <2>6. Commanded!Merge(p, pull[p].head)
    BY <1>2, <2>4, <2>5 DEF Commanded!Merge, Commanded!commands, Commanded!stages, Issued, Staged
  <2>7. pull[p].head \in Heads
    BY <2>1 DEF PullRequest
  <2> QED
    BY <2>6, <2>7 DEF Commanded!Next
<1>4. CASE Push(p) \/ PersonCloses(p) \/ PersonReopens(p)
  <2>1. pull[p].state # "merged" /\ pull'[p].state # "merged" /\ \A q \in Pulls \ {p} : pull'[q] = pull[q]
    BY <1>0, <1>4 DEF Push, PersonCloses, PersonReopens, DeliveryTypeOK, PullRequest
  <2>2. Merged' = Merged
    BY <2>1 DEF Merged
  <2> QED
    BY <1>2, <2>2 DEF Seen, Happened
<1> QED
  BY <1>3, <1>4

LEMMA WorldImplements ==
  ASSUME ImplInv,
         \/ \E c \in Commands : Bar(c)
         \/ Project \/ IssueChanges \/ DecisionArises \/ DecisionResolved \/ RunEnds
         \/ UNCHANGED deliveryVars
  PROVE  Commanded!Next \/ UNCHANGED Seen
<1>1. UNCHANGED <<pull, promoted, record, payload, status, mergedBy>>
  BY DEF Bar, Project, IssueChanges, DecisionArises, DecisionResolved, RunEnds, deliveryVars
<1>2. UNCHANGED <<finalizes, Wish, Outcome, Happened, record>>
  BY <1>1, UnseenPayload, UnseenGithub DEF Outcome, Happened
<1>3. ASSUME NEW c \in Commands, Bar(c) PROVE Commanded!Next
  <2>1. barred' = barred \cup {c} /\ UNCHANGED run
    BY <1>3 DEF Bar
  <2>2. Commanded!Withdraw(c)
    BY <1>1, <1>2, <2>1, UnseenRun
       DEF Commanded!Withdraw, Commanded!merges, Commanded!stages, Happened
  <2> QED
    BY <2>2 DEF Commanded!Next
<1>4. CASE Project \/ IssueChanges \/ DecisionArises \/ DecisionResolved \/ UNCHANGED deliveryVars
  <2>1. UNCHANGED <<run, barred>>
    BY <1>4 DEF Project, IssueChanges, DecisionArises, DecisionResolved, deliveryVars
  <2> QED
    BY <1>1, <1>2, <2>1, UnseenRun DEF Seen, Issued, Staged
<1>5. CASE RunEnds
  <2>1. run = "running" /\ UNCHANGED barred
    BY <1>5 DEF RunEnds
  <2>2. Assured \in BOOLEAN /\ Assured' \in BOOLEAN /\ (Assured => Assured')
    BY <1>1, <2>1 DEF Assured
  <2>3. CASE Assured' = TRUE
    <3>1. Commanded!Assure
      BY <1>2, <2>1, <2>3 DEF Commanded!Assure, Commanded!commands, Commanded!merges, Happened
    <3> QED
      BY <3>1 DEF Commanded!Next
  <2>4. CASE Assured' = Assured
    BY <1>2, <2>1, <2>4 DEF Seen, Issued, Staged
  <2> QED
    BY <2>2, <2>3, <2>4
<1> QED
  BY <1>3, <1>4, <1>5

LEMMA DeliveryStepImplements ==
  ASSUME ImplInv, [DeliveryNext]_deliveryVars
  PROVE  [Commanded!Next]_(Commanded!vars)
<1>1. Commanded!Next \/ UNCHANGED Seen
  BY BeginImplements, MergeCommandsImplement, FinalizeImplements, OutcomesImplement, IssueImplements,
     PeopleImplement, WorldImplements DEF DeliveryNext, Process
<1> QED
  BY <1>1 DEF Commanded!vars, Commanded!commands, Commanded!merges, Commanded!stages, Seen, Issued,
     Happened, Staged

(* Merge and finalize commands only take the steps of Delivery, wherever   *)
(* they break off and whatever people do meanwhile.                        *)
THEOREM DeliveryImplemented == DeliverySpec => ImplementsDelivery
<1>1. DeliveryInit => ImplInv
  BY TypeInit, StepInit, AttemptInit, MergeInit, EarnedInit, MadeInit DEF ImplInv
<1>2. DeliveryInit => Commanded!Init
  <2> SUFFICES ASSUME DeliveryInit PROVE Commanded!Init
    OBVIOUS
  <2>1. DeliveryTypeOK
    BY TypeInit
  <2>2. Wish \in [Commands -> Pulls \X Heads]
    BY <2>1 DEF Wish, DeliveryTypeOK
  <2>3. Outcome = [c \in Commands |-> "unissued"]
    BY DEF DeliveryInit, Outcome, Waiting
  <2>4. Merged = {} /\ Made = {} /\ Assured = FALSE
    BY DEF DeliveryInit, Merged, Made, Assured, Commands, None
  <2> QED
    BY <2>2, <2>3, <2>4 DEF DeliveryInit, Commanded!Init
<1>3. ImplInv /\ [DeliveryNext]_deliveryVars => ImplInv' /\ [Commanded!Next]_(Commanded!vars)
  BY ImplStep, DeliveryStepImplements
<1> QED
  BY <1>1, <1>2, <1>3, PTL DEF DeliverySpec, ImplementsDelivery, Commanded!Spec

(* What the stages and the outcomes of Delivery rest on. *)
Delivered ==
  /\ Merged \in SUBSET (Pulls \X Heads) /\ verified \subseteq Merged
  /\ finalizes \subseteq Commands
  /\ \A c \in finalizes : Outcome[c] # "unissued"
  /\ attested # None => \A p \in Pulls : \E h \in Heads : <<p, h>> \in Merged
  /\ asked => attested # None /\ Assured
  /\ delivered => asked
  /\ \A c \in Commanded!Reported : IF c \in finalizes THEN delivered /\ attested = c ELSE Wish[c] \in verified
  /\ Outcome \in [Commands -> {"unissued", "open", "succeeded", "rejected"}]
  /\ Wish \in [Commands -> Pulls \X Heads]

(* What the maintainer learns from the commands follows from Delivery      *)
(* alone: an item is delivered once, by a command that attested all of its *)
(* merges, and a merge reported as done was done.                          *)
THEOREM DeliveryReportsAreTrue == ImplementsDelivery => []Commanded!ReportsAreTrue
<1> USE DEF Commanded!commands, Commanded!merges, Commanded!stages, Commanded!Reported, Commanded!Open,
        Commanded!Ends
<1>1. Commanded!Init => Delivered
  BY DEF Commanded!Init, Delivered
<1>2. ASSUME Delivered, [Commanded!Next]_(Commanded!vars) PROVE Delivered'
  <2>1. CASE UNCHANGED Commanded!vars
    BY <1>2, <2>1 DEF Delivered, Commanded!vars
  <2>2. ASSUME NEW c \in Commands, Commanded!Issue(c) PROVE Delivered'
    <3>1. /\ Outcome[c] = "unissued" /\ Outcome' = [Outcome EXCEPT ![c] = "open"]
          /\ finalizes' \in {finalizes, finalizes \cup {c}}
          /\ \E w \in Pulls \X Heads : Wish' = [Wish EXCEPT ![c] = w]
          /\ UNCHANGED <<Merged, verified, attested, Assured, asked, delivered>>
      BY <2>2 DEF Commanded!Issue
    <3>2. /\ Outcome' \in [Commands -> {"unissued", "open", "succeeded", "rejected"}]
          /\ Wish' \in [Commands -> Pulls \X Heads]
          /\ finalizes' \subseteq Commands
      BY <1>2, <3>1 DEF Delivered
    <3>3. \A d \in finalizes' : Outcome'[d] # "unissued"
      BY <1>2, <3>1 DEF Delivered
    <3>4. \A d \in Commands \ {c} :
            /\ Outcome'[d] = Outcome[d] /\ Wish'[d] = Wish[d]
            /\ d \in finalizes' <=> d \in finalizes
      BY <1>2, <3>1 DEF Delivered
    <3>5. Outcome'[c] = "open"
      BY <1>2, <3>1 DEF Delivered
    <3>6. ASSUME NEW d \in Commands, Outcome'[d] = "succeeded"
          PROVE  IF d \in finalizes' THEN delivered' /\ attested' = d ELSE Wish'[d] \in verified'
      <4>1. d # c
        BY <3>5, <3>6
      <4> QED
        BY <1>2, <3>1, <3>4, <3>6, <4>1 DEF Delivered
    <3> QED
      BY <1>2, <3>1, <3>2, <3>3, <3>6 DEF Delivered
  <2>3. ASSUME NEW c \in Commands, Commanded!Withdraw(c) \/ Commanded!Attest(c) PROVE Delivered'
    <3>1. CASE Commanded!Withdraw(c)
      BY <1>2, <3>1 DEF Delivered, Commanded!Withdraw
    <3>2. CASE Commanded!Attest(c)
      <4>1. ~asked /\ ~delivered /\ ~asked' /\ ~delivered'
        BY <1>2, <3>2 DEF Delivered, Commanded!Attest
      <4>2. /\ \A p \in Pulls : \E h \in Heads : <<p, h>> \in Merged
            /\ UNCHANGED <<finalizes, Wish, Outcome, Merged, verified, Assured>>
        BY <3>2 DEF Commanded!Attest
      <4> QED
        BY <1>2, <4>1, <4>2 DEF Delivered
    <3> QED
      BY <2>3, <3>1, <3>2
  <2>4. ASSUME NEW c \in Commands, Commanded!Succeed(c) \/ Commanded!Reject(c) PROVE Delivered'
    <3>1. PICK how \in {"succeeded", "rejected"} :
            /\ Outcome[c] = "open" /\ Outcome' = [Outcome EXCEPT ![c] = how]
            /\ how = "succeeded" =>
                 IF c \in finalizes THEN delivered /\ attested = c ELSE Wish[c] \in verified
            /\ UNCHANGED <<finalizes, Wish, Merged, verified, attested, Assured, asked, delivered>>
      BY <2>4 DEF Commanded!Succeed, Commanded!Reject
    <3> QED
      BY <1>2, <3>1 DEF Delivered
  <2>5. ASSUME NEW p \in Pulls, NEW h \in Heads, Commanded!Merge(p, h) \/ Commanded!Note(<<p, h>>)
        PROVE  Delivered'
    <3>1. CASE Commanded!Merge(p, h)
      <4>1. /\ Merged' = Merged \cup {<<p, h>>} /\ <<p, h>> \in Pulls \X Heads
            /\ UNCHANGED <<finalizes, Wish, Outcome, barred, verified, attested, Assured, asked, delivered>>
        BY <3>1 DEF Commanded!Merge
      <4> QED
        BY <1>2, <4>1 DEF Delivered
    <3>2. CASE Commanded!Note(<<p, h>>)
      BY <1>2, <3>2 DEF Delivered, Commanded!Note
    <3> QED
      BY <2>5, <3>1, <3>2
  <2>6. CASE Commanded!Assure \/ Commanded!Ask \/ Commanded!Deliver
    BY <1>2, <2>6 DEF Delivered, Commanded!Assure, Commanded!Ask, Commanded!Deliver
  <2> QED
    BY <1>2, <2>1, <2>2, <2>3, <2>4, <2>5, <2>6 DEF Commanded!Next
<1>3. Delivered => Commanded!ReportsAreTrue
  BY DEF Delivered, Commanded!ReportsAreTrue
<1> QED
  BY <1>1, <1>2, <1>3, PTL DEF ImplementsDelivery, Commanded!Spec
=============================================================================
