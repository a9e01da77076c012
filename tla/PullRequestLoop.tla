-------------------------- MODULE PullRequestLoop --------------------------
(***************************************************************************)
(* The autonomous review loop of one pull request (prloop.go): a reviewer  *)
(* run per round, its verdict, the implementer woken to resolve it, the    *)
(* next round.  Three actors write the loop's markers, labels of the       *)
(* implementer's AgentRun: the reconciler of completed runs (one worker),  *)
(* the webhook handler, and the monitor that polls GitHub and goes through *)
(* the same two handlers (pullrequestmonitor_controller.go).               *)
(*                                                                         *)
(* A handler reads the implementer once, decides, and writes the markers   *)
(* with an unlocked merge patch, so the decision and each later write are  *)
(* steps of their own.  Where a write depends on the fresh copy it is made *)
(* from (the list of feedback handled, the wake counter), the reading of   *)
(* that copy is a step, too: nothing rejects a patch made from an old one. *)
(* A step may fail, or its process die: the handler is then broken off     *)
(* there, and the reconciler and the monitor, but not the webhook, start   *)
(* it again from its first read.                                           *)
(*                                                                         *)
(* Feedback has passed the sender, keyword and non-empty-body checks.  The *)
(* lists of reviews and of comments handled are one list here, and not so  *)
(* long that it is trimmed.  The wake counter is reduced to "a wake is     *)
(* outstanding" (see WakeProtocol).                                        *)
(***************************************************************************)
EXTENDS Naturals, FiniteSets

CONSTANTS
  MaxRounds,    (* reviewLoop.maxRounds                                    *)
  NumEvents,    (* bound: pieces of feedback on GitHub, in order           *)
  MaxMishaps    (* bound: handlers broken off, and copies read while       *)
                (* another delivery holds one                              *)

Events    == 1..NumEvents
Opened    == 0
LastRound == MaxRounds + NumEvents + MaxMishaps
Rounds    == 1..LastRound

ASSUME LoopAssumption ==
  MaxRounds \in Nat \ {0} /\ NumEvents \in Nat /\ MaxMishaps \in Nat

VARIABLES
  loopState,    (* the label pr-loop                                       *)
  round,        (* the annotation review-round                             *)
  seenIds,      (* github-review-ids and github-comment-ids                *)
  approvals,    (* the feedback that approves; the rest asks for work      *)
  enabled,      (* reviewLoopDisabledForRun, negated                       *)
  reviewer,     (* each round's reviewer run: absent, running, or its end  *)
  verdictHandled,  (* rounds whose reviewer carries verdict-handled        *)
  phase, wake,  (* the implementer run, and whether a wake is outstanding  *)
  surfaced,     (* the question a block puts to the user: due, asked, lost *)
  opened, active, cursor,   (* the monitor: OpenedDispatched, not inactive,*)
                            (* the last feedback recorded                  *)
  call,         (* each actor: its step and what it works on               *)
  copy,         (* the copy a delivery of feedback makes its patch from    *)
  overlaps, breaks,  (* counters of the bound                              *)
  acted, resumed,    (* history: feedback patched in, how often for work   *)
  orphaned,     (* history: rounds whose reviewer a break or a second link *)
                (* has forgone                                             *)
  settled       (* history: requests that took effect, or found the loop   *)
                (* over, disabled or not polled                            *)

markers == <<loopState, round, seenIds, approvals>>
runs    == <<reviewer, verdictHandled, phase, wake, surfaced>>
monitor == <<opened, active, cursor>>
patches == <<copy, overlaps, acted, resumed>>
prHist  == <<orphaned, settled>>
prVars  == <<markers, enabled, runs, monitor, call, patches, breaks, prHist>>

Actors    == {"loop", "hook", "poll"}
Terminal  == {"approved", "blocked"}
Completed == {"approve", "changes", "failed"}
Wakeable  == {"ended", "paused"}
Review(r) == <<"review", r>>
Event(e)  == <<"event", e>>
Requests  == {"review", "event"} \X (Rounds \cup Events)

HandlerSteps == {"idle", "link", "first", "accept", "block", "escalate", "rework", "tell",
                 "wake", "mark", "next", "spawn", "approve", "resolve", "patch", "open"}

(* A patch that counts a wake is due to write the count after that of its  *)
(* copy, which is old once another wake was counted.                       *)
NoCopy == [state |-> "none", ids |-> {}, wake |-> "none"]

MarkersTyped ==
  /\ loopState \in {"none", "in_review", "resolving"} \cup Terminal
  /\ round \in 0..LastRound
  /\ seenIds \subseteq Events
  /\ approvals \subseteq Events

RunsTyped ==
  /\ enabled \in BOOLEAN
  /\ reviewer \in [Rounds -> Completed \cup {"absent", "running", "cancelled"}]
  /\ verdictHandled \subseteq Rounds
  /\ phase \in Wakeable \cup {"running", "cancelled"}
  /\ wake \in BOOLEAN
  /\ surfaced \in {"due", "asked", "lost"}

MonitorTyped == opened \in BOOLEAN /\ active \in BOOLEAN /\ cursor \in 0..NumEvents

CallTyped == call \in [Actors -> [step : HandlerSteps, on : 0..LastRound]]

PatchesTyped ==
  /\ copy \in [Actors -> [state : {"none", "in_review", "resolving"} \cup Terminal,
                          ids : SUBSET Events, wake : {"none", "due", "old"}]]
  /\ acted \subseteq Events /\ resumed \in Nat
  /\ overlaps \in Nat /\ breaks \in Nat /\ overlaps + breaks <= MaxMishaps

PRLoopTypeOK ==
  /\ MarkersTyped /\ RunsTyped /\ MonitorTyped /\ CallTyped /\ PatchesTyped
  /\ orphaned \subseteq Rounds
  /\ settled \subseteq Requests

PRLoopInit ==
  /\ loopState = "none" /\ round = 0 /\ seenIds = {}
  /\ approvals \in SUBSET Events /\ enabled = TRUE
  /\ reviewer = [r \in Rounds |-> "absent"]
  /\ verdictHandled = {}
  /\ phase = "running" /\ wake = FALSE
  /\ surfaced = "due"
  /\ opened = FALSE /\ active = TRUE /\ cursor = 0
  /\ call = [a \in Actors |-> [step |-> "idle", on |-> 0]]
  /\ copy = [a \in Actors |-> NoCopy]
  /\ overlaps = 0 /\ breaks = 0
  /\ acted = {} /\ resumed = 0
  /\ orphaned = {} /\ settled = {}

-----------------------------------------------------------------------------
(* Steps of a handler.                                                     *)
At(a, step) == call[a].step = step
Goto(a, step, n) == call' = [call EXCEPT ![a] = [step |-> step, on |-> n]]
SetLoop(state)  == loopState' = state
Settle(request) == settled' = settled \cup {request}

(* A delivery of event n returns.  The monitor then records it: an opening *)
(* that was not handled makes it inactive for good, feedback moves the     *)
(* cursor, handled or not.                                                 *)
Return(a, handled, n) ==
  /\ Goto(a, "idle", 0)
  /\ IF a = "hook" THEN UNCHANGED monitor
     ELSE IF n = Opened THEN opened' = handled /\ active' = (active /\ handled) /\ cursor' = cursor
     ELSE cursor' = n /\ UNCHANGED <<opened, active>>

Continue(a, step, n) == Goto(a, step, n) /\ UNCHANGED monitor

-----------------------------------------------------------------------------
(* handlePROpened, for the webhook and for the monitor.                    *)
HandlePROpened(a) ==
  /\ IF enabled /\ loopState = "none" THEN Continue(a, "link", Opened)
     ELSE Return(a, enabled, Opened)
  /\ UNCHANGED <<markers, enabled, runs, patches, breaks, prHist>>

(* The markers of round 1.  They overwrite whatever another delivery of    *)
(* the same event has written in the meantime.                             *)
Link(a) ==
  /\ At(a, "link")
  /\ SetLoop("in_review") /\ round' = 1
  /\ orphaned' = IF loopState = "none" THEN orphaned ELSE Rounds
  /\ Continue(a, "first", Opened)
  /\ UNCHANGED <<seenIds, approvals, enabled, runs, patches, breaks, settled>>

(* createReviewerRun: the name is that of the round, a run that exists is  *)
(* kept.                                                                   *)
CreateReviewer(r) ==
  reviewer' = IF reviewer[r] = "absent" THEN [reviewer EXCEPT ![r] = "running"] ELSE reviewer

FirstReview(a) ==
  /\ At(a, "first")
  /\ CreateReviewer(1)
  /\ Return(a, TRUE, Opened)
  /\ UNCHANGED <<markers, enabled, verdictHandled, phase, wake, surfaced, patches, breaks, prHist>>

(* handleReviewSubmitted and handlePRComment up to their first write: a    *)
(* loop that is over and an event already handled end here.                *)
FeedbackOncePerCycle(a, e) ==
  /\ loopState # "none"
  /\ IF loopState \in Terminal THEN Return(a, TRUE, e) /\ Settle(Event(e))
     ELSE /\ settled' = settled
          /\ IF e \in seenIds \/ loopState = "resolving" THEN Return(a, TRUE, e)
             ELSE Continue(a, IF e \in approvals THEN "approve" ELSE "resolve", e)
  /\ UNCHANGED <<markers, enabled, runs, patches, breaks, orphaned>>

HandleFeedback(a, e) ==
  /\ loopState # "none"
  /\ IF loopState \in Terminal THEN Return(a, TRUE, e) /\ Settle(Event(e))
     ELSE /\ settled' = settled
          /\ IF e \in seenIds THEN Return(a, TRUE, e)
             ELSE Continue(a, IF e \in approvals THEN "approve" ELSE "resolve", e)
  /\ UNCHANGED <<markers, enabled, runs, patches, breaks, orphaned>>

(* The copy a patch is made from: for an approving review that of          *)
(* patchLoopMarkers, for the rest that of wakeImplementerForPREvent, after *)
(* the message, which the event's key lets in once and which alone moves   *)
(* nothing here.                                                           *)
ReadCopy(a) ==
  /\ \E crossing \in {Cardinality({b \in Actors \ {a} : At(b, "patch")})} :
       breaks + overlaps + crossing <= MaxMishaps /\ overlaps' = overlaps + crossing
  /\ copy' = [copy EXCEPT ![a] =
       [state |-> loopState, ids |-> seenIds,
        wake |-> IF At(a, "resolve") /\ phase \in Wakeable THEN "due" ELSE "none"]]
  /\ Continue(a, "patch", call[a].on)
  /\ UNCHANGED <<acted, resumed>>

(* Mutation: what the other path has handled meanwhile is not looked at.   *)
ReadFeedbackUnchecked(a) ==
  /\ At(a, "resolve") /\ ReadCopy(a)
  /\ UNCHANGED <<markers, enabled, runs, breaks, prHist>>

ReadFeedback(a) ==
  /\ At(a, "resolve")
  /\ \/ call[a].on \notin seenIds /\ ReadCopy(a)
     \/ call[a].on \in seenIds /\ Return(a, TRUE, call[a].on) /\ UNCHANGED patches
  /\ UNCHANGED <<markers, enabled, runs, breaks, prHist>>

ReadApproval(a) ==
  /\ At(a, "approve") /\ ReadCopy(a)
  /\ UNCHANGED <<markers, enabled, runs, breaks, prHist>>

(* A wake is counted: what is to write that count is old now.              *)
Outdated(c) == IF c.wake = "due" THEN [c EXCEPT !.wake = "old"] ELSE c

(* The patch: what differs from the copy, the list and the counter as a    *)
(* whole, over whatever was written since.  An old count is one that was   *)
(* reached or passed meanwhile: the wake, or another's, may be lost.       *)
PatchFeedback(a) ==
  LET e    == call[a].on
      asks == e \notin approvals
      to   == IF asks THEN "resolving" ELSE "approved"
  IN  /\ At(a, "patch")
      /\ SetLoop(IF copy[a].state = to THEN loopState ELSE to)
      /\ seenIds' = IF e \in copy[a].ids THEN seenIds ELSE copy[a].ids \cup {e}
      /\ \/ copy[a].wake = "none" /\ wake' = wake
         \/ copy[a].wake = "due" /\ wake' = TRUE
         \/ copy[a].wake = "old" /\ wake' \in BOOLEAN
      /\ copy' = [b \in Actors |-> IF b = a THEN NoCopy
                                   ELSE IF copy[a].wake = "none" THEN copy[b] ELSE Outdated(copy[b])]
      /\ acted' = acted \cup {e}
      /\ resumed' = IF asks THEN resumed + 1 ELSE resumed
      /\ Settle(Event(e))
      /\ Return(a, TRUE, e)
      /\ UNCHANGED <<round, approvals, enabled, reviewer, verdictHandled, phase, surfaced,
                     overlaps, breaks, orphaned>>

(* The webhook delivers an event at any time, never, or again; it finds no *)
(* implementer for feedback while the loop has no record.                  *)
HookOpened      == At("hook", "idle") /\ HandlePROpened("hook")
HookFeedback(e) == At("hook", "idle") /\ HandleFeedback("hook", e)

(* The monitor delivers the opening until it was handled, the handler      *)
(* reading the policy once more, and then feedback after its cursor,       *)
(* oldest first; without a loop record that fails and is tried again.      *)
PollOpened ==
  /\ At("poll", "idle")
  /\ ~opened /\ active /\ enabled
  /\ Continue("poll", "open", Opened)
  /\ UNCHANGED <<markers, enabled, runs, patches, breaks, prHist>>

PollDelivers == At("poll", "open") /\ HandlePROpened("poll")

PollFeedback ==
  /\ At("poll", "idle")
  /\ cursor < NumEvents
  /\ IF active /\ enabled
     THEN opened /\ HandleFeedback("poll", cursor + 1)
     ELSE /\ Return("poll", FALSE, cursor + 1)
          /\ Settle(Event(cursor + 1))
          /\ UNCHANGED <<markers, enabled, runs, patches, breaks, orphaned>>

-----------------------------------------------------------------------------
(* OnReviewerRunCompleted.                                                 *)
VerdictUncapped(r) ==
  IF loopState \in Terminal THEN "mark"
  ELSE IF reviewer[r] = "approve" THEN "accept"
  ELSE IF reviewer[r] = "failed" THEN "block" ELSE "rework"

VerdictReopens(r) ==
  IF reviewer[r] = "approve" THEN "accept"
  ELSE IF reviewer[r] = "failed" \/ round >= MaxRounds THEN "block" ELSE "rework"

VerdictBelowTheCap(r) ==
  IF loopState \in Terminal THEN "mark"
  ELSE IF reviewer[r] = "approve" THEN "accept"
  ELSE IF reviewer[r] = "failed" \/ round + 1 >= MaxRounds THEN "block" ELSE "rework"

AfterVerdict(r) ==
  IF loopState \in Terminal THEN "mark"
  ELSE IF reviewer[r] = "approve" THEN "accept"
  ELSE IF reviewer[r] = "failed" \/ round >= MaxRounds THEN "block" ELSE "rework"

OnReviewerRunCompleted(r) ==
  /\ At("loop", "idle")
  /\ reviewer[r] \in Completed /\ r \notin verdictHandled
  /\ Goto("loop", AfterVerdict(r), r)
  /\ settled' = IF loopState \in Terminal THEN settled \cup {Review(r)} ELSE settled
  /\ UNCHANGED <<markers, enabled, runs, monitor, patches, breaks, orphaned>>

Accept ==
  /\ At("loop", "accept")
  /\ SetLoop("approved")
  /\ Settle(Review(call["loop"].on))
  /\ Goto("loop", "mark", call["loop"].on)
  /\ UNCHANGED <<round, seenIds, approvals, enabled, runs, monitor, patches, breaks, orphaned>>

BlockQuietly ==
  /\ At("loop", "block")
  /\ SetLoop("blocked") /\ surfaced' = "due"
  /\ Settle(Review(call["loop"].on))
  /\ Goto("loop", "mark", call["loop"].on)
  /\ UNCHANGED <<round, seenIds, approvals, enabled, reviewer, verdictHandled, phase, wake,
                 monitor, patches, breaks, orphaned>>

Block ==
  /\ At("loop", "block")
  /\ SetLoop("blocked") /\ surfaced' = "due"
  /\ Settle(Review(call["loop"].on))
  /\ Goto("loop", "escalate", call["loop"].on)
  /\ UNCHANGED <<round, seenIds, approvals, enabled, reviewer, verdictHandled, phase, wake,
                 monitor, patches, breaks, orphaned>>

(* escalateBlocked asks the user; for a cancelled implementer it is all    *)
(* that wakeImplementer does.                                              *)
Escalate ==
  /\ At("loop", "escalate")
  /\ surfaced' = "asked"
  /\ Goto("loop", "mark", call["loop"].on)
  /\ UNCHANGED <<markers, enabled, reviewer, verdictHandled, phase, wake,
                 monitor, patches, breaks, prHist>>

(* wakeImplementer: the markers, and then what the phase read with them    *)
(* calls for, a wake, a message or a question to the user.                 *)
ReworkWithoutWake ==
  /\ At("loop", "rework")
  /\ SetLoop("resolving") /\ settled' = settled
  /\ Goto("loop", IF phase = "running" THEN "tell" ELSE "mark", call["loop"].on)
  /\ UNCHANGED <<round, seenIds, approvals, enabled, runs, monitor, patches, breaks, orphaned>>

Rework ==
  LET r == call["loop"].on
  IN  /\ At("loop", "rework")
      /\ SetLoop("resolving")
      /\ IF phase = "cancelled"
         THEN Goto("loop", "escalate", r) /\ Settle(Review(r))
         ELSE settled' = settled
              /\ Goto("loop", IF phase \in Wakeable THEN "wake" ELSE "tell", r)
      /\ UNCHANGED <<round, seenIds, approvals, enabled, runs, monitor, patches, breaks, orphaned>>

(* The message to an active run, or with it the wake of an ended one       *)
(* (WakeAgentRun; the message alone moves nothing here).                   *)
SendMessage ==
  /\ \/ At("loop", "tell") /\ UNCHANGED <<wake, copy>>
     \/ At("loop", "wake") /\ wake' = TRUE /\ copy' = [b \in Actors |-> Outdated(copy[b])]
  /\ Settle(Review(call["loop"].on))
  /\ Goto("loop", "mark", call["loop"].on)
  /\ UNCHANGED <<markers, enabled, reviewer, verdictHandled, phase, surfaced,
                 monitor, overlaps, acted, resumed, breaks, orphaned>>

MarkVerdictHandled ==
  /\ At("loop", "mark")
  /\ verdictHandled' = verdictHandled \cup {call["loop"].on}
  /\ Goto("loop", "idle", 0)
  /\ UNCHANGED <<markers, enabled, reviewer, phase, wake, surfaced,
                 monitor, patches, breaks, prHist>>

(* OnImplementerRunCompleted: the next round, then its reviewer.           *)
SkipARound ==
  /\ At("loop", "idle")
  /\ phase = "ended"
  /\ loopState = "resolving" /\ enabled
  /\ Goto("loop", "next", round + 2)
  /\ UNCHANGED <<markers, enabled, runs, monitor, patches, breaks, prHist>>

StopAtTheCap ==
  /\ At("loop", "idle")
  /\ phase = "ended"
  /\ loopState = "resolving" /\ enabled /\ round < MaxRounds
  /\ Goto("loop", "next", round + 1)
  /\ UNCHANGED <<markers, enabled, runs, monitor, patches, breaks, prHist>>

OnImplementerRunCompleted ==
  /\ At("loop", "idle")
  /\ phase = "ended"
  /\ loopState = "resolving" /\ enabled
  /\ Goto("loop", "next", round + 1)
  /\ UNCHANGED <<markers, enabled, runs, monitor, patches, breaks, prHist>>

StartRound ==
  /\ At("loop", "next")
  /\ SetLoop("in_review") /\ round' = call["loop"].on
  /\ Goto("loop", "spawn", call["loop"].on)
  /\ UNCHANGED <<seenIds, approvals, enabled, runs, monitor, patches, breaks, prHist>>

SpawnReviewer ==
  /\ At("loop", "spawn")
  /\ CreateReviewer(call["loop"].on)
  /\ Goto("loop", "idle", 0)
  /\ UNCHANGED <<markers, enabled, verdictHandled, phase, wake, surfaced,
                 monitor, patches, breaks, prHist>>

(* A step fails or its process dies.  A round whose markers are written is *)
(* left without its reviewer: the restarted handler finds the loop         *)
(* recorded, or in review, and returns.                                    *)
Breaks(a) ==
  /\ breaks + overlaps < MaxMishaps /\ breaks' = breaks + 1
  /\ ~At(a, "idle")
  /\ orphaned' = orphaned \cup (IF At(a, "first") /\ reviewer[1] = "absent" THEN {1}
                                ELSE IF At(a, "spawn") THEN {call[a].on} ELSE {})
  /\ surfaced' = IF At(a, "escalate") THEN "lost" ELSE surfaced
  /\ Goto(a, "idle", 0)
  /\ copy' = [copy EXCEPT ![a] = NoCopy]
  /\ UNCHANGED <<markers, enabled, reviewer, verdictHandled, phase, wake,
                 monitor, overlaps, acted, resumed, settled>>

-----------------------------------------------------------------------------
(* The runs and the people around the loop.                                *)
Around ==
  UNCHANGED <<markers, verdictHandled, surfaced, monitor, call, patches, breaks, prHist>>

(* A reviewer submits a verdict or none, fails, or is cancelled.           *)
ReviewerEnds(r) ==
  /\ reviewer[r] = "running"
  /\ reviewer' \in {[reviewer EXCEPT ![r] = end] : end \in Completed \cup {"cancelled"}}
  /\ UNCHANGED <<enabled, phase, wake>> /\ Around

(* The implementer's runner and the AgentRun controller.                   *)
ImplementerEnds ==
  /\ phase = "running" /\ phase' \in Wakeable
  /\ UNCHANGED <<enabled, reviewer, wake>> /\ Around

StartAttempt ==
  /\ wake /\ phase # "running"
  /\ wake' = FALSE /\ phase' = "running"
  /\ UNCHANGED <<enabled, reviewer>> /\ Around

(* A stop supersedes the wakes before it.                                  *)
CancelImplementer ==
  /\ phase # "cancelled" /\ phase' = "cancelled" /\ wake' = FALSE
  /\ UNCHANGED <<enabled, reviewer>> /\ Around

(* The review policy is switched off.                                      *)
DisablePolicy ==
  /\ enabled /\ enabled' = FALSE
  /\ UNCHANGED <<reviewer, phase, wake>> /\ Around

-----------------------------------------------------------------------------
Handle(a) ==
  Link(a) \/ FirstReview(a) \/ ReadApproval(a) \/ ReadFeedback(a) \/ PatchFeedback(a)

LoopWork ==
  Accept \/ Block \/ Escalate \/ Rework \/ SendMessage \/ MarkVerdictHandled
  \/ StartRound \/ SpawnReviewer

LoopReconciles == OnImplementerRunCompleted \/ \E r \in Rounds : OnReviewerRunCompleted(r)

Deliveries == HookOpened \/ (\E e \in Events : HookFeedback(e)) \/ PollOpened \/ PollFeedback

RunsMove == StartAttempt \/ ImplementerEnds \/ \E r \in Rounds : ReviewerEnds(r)

PRLoopNext ==
  \/ LoopReconciles \/ LoopWork
  \/ Deliveries \/ PollDelivers \/ \E a \in {"hook", "poll"} : Handle(a)
  \/ RunsMove \/ CancelImplementer \/ DisablePolicy
  \/ \E a \in Actors : Breaks(a)

(* The reconciler's and the monitor's queues retry, a handler runs to its  *)
(* end or breaks off, runs end within their budgets and the AgentRun       *)
(* controller answers wakes.  None of them can do so for ever, so that it  *)
(* is enough if one of them moves.  People and the webhook owe nothing.    *)
Moving ==
  LoopReconciles \/ LoopWork \/ (\E a \in {"hook", "poll"} : Handle(a)) \/ RunsMove

PRLoopSpec == PRLoopInit /\ [][PRLoopNext]_prVars /\ WF_prVars(Moving)

-----------------------------------------------------------------------------
(* Properties.                                                             *)

(* Loop-runaway protection (prloop.go): without feedback from outside no   *)
(* round goes past the cap, a piece of feedback on record buys at most one *)
(* more, and so does each overlap of two deliveries, where the code acts   *)
(* on one piece twice or loses another's record.  Nothing else does,       *)
(* however often handlers break off or are repeated.                       *)
Asked == seenIds \ approvals

RoundsBounded ==
  /\ round <= MaxRounds + resumed
  /\ resumed <= Cardinality(Asked) + overlaps

(* Once a loop is approved or blocked and no handler that had decided      *)
(* before is still to write, nothing reopens it: late verdicts, ended runs *)
(* and new feedback find it over.                                          *)
Writing(a) == call[a].step \in {"link", "accept", "block", "rework", "approve",
                                "resolve", "patch", "next"}
Finished == loopState \in Terminal /\ \A a \in Actors : ~Writing(a)

FinishedStays == [][Finished => Finished']_prVars

(* No round is skipped: each has had its reviewer, but for the named case  *)
(* of a break between the markers and the run.                             *)
RoundsHaveReviewers ==
  \A r \in 1..round :
    \/ reviewer[r] # "absent" \/ r \in orphaned
    \/ r = 1 /\ \E a \in {"hook", "poll"} : At(a, "first")
    \/ At("loop", "spawn") /\ call["loop"].on = r

(* A verdict marked as handled ended the loop, reached the implementer or  *)
(* found nothing left to do.                                               *)
VerdictsTookEffect == \A r \in verdictHandled : Review(r) \in settled

(* So did feedback behind the monitor's cursor, by the webhook or by       *)
(* itself.                                                                 *)
FeedbackTookEffect == \A e \in 1..cursor : Event(e) \in settled

(* Nothing is marked as handled before it took effect.                     *)
HandledTookEffect == VerdictsTookEffect /\ FeedbackTookEffect

(* A block is put to the user, unless that very step broke off.            *)
BlockIsSurfaced == loopState = "blocked" => surfaced # "due" \/ At("loop", "escalate")

(* While the policy stays on, every loop comes to its end, or to a point   *)
(* where it waits for a person: the implementer stopped or paused, or the  *)
(* reviewer of the round cancelled or, after a break, never created.       *)
WaitsForPerson ==
  \/ loopState = "resolving" /\ phase \in {"cancelled", "paused"}
  \/ loopState = "in_review" /\ (round \in orphaned \/ reviewer[round] = "cancelled")

LoopAdvances == <>[]enabled => <>[](loopState \in Terminal \cup {"none"} \/ WaitsForPerson)

(* prloop.go: OnImplementerRunCompleted "starts the next review round      *)
(* after the implementer finishes a resolve cycle", so the implementer is  *)
(* not still waiting to be woken for it.                                   *)
NextRoundAfterResolve == At("loop", "next") => ~wake

(* pullrequestmonitor_controller.go: "Opened delivery must be retryable":  *)
(* an opening that counts as delivered has started its review.             *)
OpenedIsRetryable == opened => reviewer[1] # "absent" \/ \E a \in Actors : At(a, "first")
=============================================================================
