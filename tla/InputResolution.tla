--------------------------- MODULE InputResolution ---------------------------
(***************************************************************************)
(* The parties to one pending input request: the agent that asks and then  *)
(* waits for the queue (cmd/agent/loop.go), dashboard users who answer     *)
(* from tabs they loaded earlier, through handlers that read the session   *)
(* again (internal/dashboard/server_messages.go), and the overseer's       *)
(* controller, which settles one checkpoint by reserving a held response,  *)
(* applying its effects and releasing it (agentrun_overseer_controller.go).*)
(* The controller may crash between any two steps; its retry carries the   *)
(* same delivery id.                                                       *)
(***************************************************************************)
EXTENDS SessionStore

CONSTANTS
  Users,        (* dashboard tabs                                          *)
  Runner,       (* claim token of the agent's client                       *)
  MaxAsks,      (* bound: questions the agent asks                         *)
  MaxCrashes    (* bound: crashes of the overseer's controller             *)

ASSUME ActorAssumption == Runner \in Tokens /\ MaxAsks < MaxReqs /\ MaxCrashes \in Nat

VARIABLES
  agent,        (* "working", "deciding", "waiting" or "starting"          *)
  idle,         (* the questions that are an idle or stopped boundary      *)
  bound,        (* rows whose metadata names the request they answered     *)
  view,         (* per user, the request the screen shows or the handler   *)
                (* read, and the question it asks as far as the sender knew*)
  call,         (* per user, the message in the handler's hands            *)
  ov,           (* the controller: its step, its request, that request's   *)
                (* question and the row                                    *)
  delivered,    (* row carrying the checkpoint's delivery_id; 0: none      *)
  runCancelled, (* the supervised run's CRD phase is Cancelled             *)
  withdrawn,    (* history: rows a user withdrew                           *)
  seen,         (* history: the question the sender of an answer acted on  *)
  crashes       (* crashes of the controller so far                        *)

actorVars == <<agent, idle, bound, view, call, ov, delivered,
               runCancelled, withdrawn, seen, crashes>>
inputVars == <<sessionVars, actorVars>>

NoView == [request |-> 0, asks |-> 0]
Calls  == {"none", "named", "plain", "switching", "approved"}
OvSteps == {"idle", "reserve", "check", "effect", "recheck", "release",
            "resolved", "stale", "discarded"}
Working == {"check", "effect", "recheck", "release"}

InputTypeOK ==
  /\ SessionTypeOK
  /\ agent \in {"working", "deciding", "waiting", "starting"}
  /\ idle \in SUBSET Reqs
  /\ bound \in SUBSET Msgs
  /\ view \in [Users -> [request : 0..MaxReqs, asks : 0..MaxReqs]]
  /\ call \in [Users -> Calls]
  /\ ov \in [step : OvSteps, request : 0..MaxReqs, asks : 0..MaxReqs, row : 0..MaxMsgs]
  /\ delivered \in 0..MaxMsgs
  /\ runCancelled \in BOOLEAN
  /\ withdrawn \in SUBSET Msgs
  /\ seen \in [Msgs -> 0..MaxReqs]
  /\ crashes \in 0..MaxCrashes

InputInit ==
  /\ SessionInit
  /\ agent = "deciding"
  /\ idle = {}
  /\ bound = {}
  /\ view = [u \in Users |-> NoView]
  /\ call = [u \in Users |-> "none"]
  /\ ov = [step |-> "idle", request |-> 0, asks |-> 0, row |-> 0]
  /\ delivered = 0
  /\ runCancelled = FALSE
  /\ withdrawn = {}
  /\ seen = [m \in Msgs |-> 0]
  /\ crashes = 0

-----------------------------------------------------------------------------
(* The agent.  A pass ends by committing its reply, which completes the    *)
(* claims; then the agent asks a question or publishes an idle boundary.   *)
AgentUnchanged == UNCHANGED <<bound, view, call, ov, delivered,
                              runCancelled, withdrawn, seen, crashes>>

AgentCommit ==
  /\ agent = "working"
  /\ agent' = "deciding"
  /\ CompleteClaims(Runner)
  /\ UNCHANGED idle
  /\ AgentUnchanged

AgentAsk ==
  /\ agent = "deciding"
  /\ nask < MaxAsks
  /\ agent' = "waiting"
  /\ SetPending
  /\ \/ UNCHANGED idle
     \/ idle' = idle \cup {nask + 1}
  /\ AgentUnchanged

(* A replacement that finds the queue non-empty publishes nothing.         *)
AgentWait ==
  /\ agent = "deciding"
  /\ agent' = "waiting"
  /\ UNCHANGED <<sessionVars, idle>>
  /\ AgentUnchanged

(* Mutation: a newer request makes the sweep leave the hold alone.         *)
SweepUnlessAsked ==
  /\ agent = "waiting"
  /\ request = 0
  /\ \E k \in Msgs : RecoverExpiredHeldInputResponses(k)
  /\ UNCHANGED <<agent, idle>>
  /\ AgentUnchanged

(* The sweep of the polling path.  Its three minutes are a step of its     *)
(* own: it may find the hold of a controller that is merely slow.          *)
AgentSweep ==
  /\ agent = "waiting"
  /\ \E k \in Msgs : RecoverExpiredHeldInputResponses(k)
  /\ UNCHANGED <<agent, idle>>
  /\ AgentUnchanged

(* The oldest visible message starts the next pass.                        *)
AgentClaim ==
  /\ agent = "waiting"
  /\ \E m \in Msgs :
       /\ Polled(m)
       /\ \A n \in 1..(m - 1) : ~Polled(n)
       /\ ClaimUserMessage(Runner, m)
  /\ agent' = "starting"
  /\ UNCHANGED idle
  /\ AgentUnchanged

(* The claimed message consumes the boundary it ends: a row that names its *)
(* request consumed it when it was sent (request ids are never reused), any*)
(* other row clears an idle boundary, and never a question.                *)
AgentStart ==
  /\ agent = "starting"
  /\ agent' = "working"
  /\ IF asks \in idle /\ Owned(Runner) \cap bound = {}
       THEN ClearPendingInputIfID(request)
       ELSE UNCHANGED sessionVars
  /\ UNCHANGED idle
  /\ AgentUnchanged

-----------------------------------------------------------------------------
(* The users.  A tab shows the session as it was when it was loaded.  The  *)
(* handler of a message reads the session again and binds the message to   *)
(* the request of its own read; it acts on that request in a step of its   *)
(* own, when the session may have moved on.                                *)
UserUnchanged == UNCHANGED <<agent, idle, ov, delivered, runCancelled, crashes>>

Now == [request |-> request, asks |-> asks]

Load(u) ==
  /\ call[u] = "none"
  /\ view' = [view EXCEPT ![u] = Now]
  /\ UNCHANGED <<sessionVars, bound, call, withdrawn, seen>>
  /\ UserUnchanged

(* Mutation: checkRequestedPendingID is gone, so that a message from a     *)
(* stale tab is bound to whatever the handler reads.                       *)
SubmitUnchecked(u) ==
  /\ call[u] = "none"
  /\ \/ /\ view[u].request # 0
        /\ view' = [view EXCEPT ![u].request = request]
        /\ call' = [call EXCEPT ![u] = "named"]
     \/ /\ view' = [view EXCEPT ![u] = Now]
        /\ call' = [call EXCEPT ![u] = "plain"]
  /\ UNCHANGED <<sessionVars, bound, withdrawn, seen>>
  /\ UserUnchanged

(* A message names the request on its screen, and is refused unless the    *)
(* handler still reads that one; or it names none, and the handler's read  *)
(* stands for a screen that may never have shown it.                       *)
Submit(u) ==
  /\ call[u] = "none"
  /\ \/ /\ view[u].request # 0
        /\ view[u].request = request
        /\ view' = [view EXCEPT ![u].request = request]
        /\ call' = [call EXCEPT ![u] = "named"]
     \/ /\ view' = [view EXCEPT ![u] = Now]
        /\ call' = [call EXCEPT ![u] = "plain"]
  /\ UNCHANGED <<sessionVars, bound, withdrawn, seen>>
  /\ UserUnchanged

Held(u)  == call[u] \in {"named", "plain"}
Done(u)  == view' = [view EXCEPT ![u] = NoView] /\ call' = [call EXCEPT ![u] = "none"]

UserAnswer(u) ==
  /\ Held(u)
  /\ AnswerPendingInput(view[u].request)
  /\ seen' = [seen EXCEPT ![last + 1] = view[u].asks]
  /\ bound' = bound \cup {last + 1}
  /\ Done(u)
  /\ UNCHANGED withdrawn
  /\ UserUnchanged

(* The handler read no request, or it is gone by now: a message that names *)
(* none is delivered as plain input.                                       *)
UserFallback(u) ==
  /\ call[u] = "plain"
  /\ view[u].request = 0 \/ view[u].request # request
  /\ AppendUserMessageIfActive
  /\ Done(u)
  /\ UNCHANGED <<bound, withdrawn, seen>>
  /\ UserUnchanged

(* A message that names a request which is gone by now is refused, and so  *)
(* is a button; a handler may also fail before it writes.                  *)
UserRefused(u) ==
  /\ Held(u)
  /\ Done(u)
  /\ UNCHANGED <<sessionVars, bound, withdrawn, seen>>
  /\ UserUnchanged

UserReject(u) ==
  /\ Held(u)
  /\ ClearPendingInputIfID(view[u].request)
  /\ Done(u)
  /\ UNCHANGED <<bound, withdrawn, seen>>
  /\ UserUnchanged

(* A button that switches the mode: the request is consumed first, then    *)
(* the switch is tried, then the continuation message is appended.         *)
ModeConsume(u) ==
  /\ Held(u)
  /\ ClearPendingInputIfID(view[u].request)
  /\ call' = [call EXCEPT ![u] = "switching"]
  /\ UNCHANGED <<bound, view, withdrawn, seen>>
  /\ UserUnchanged

ModeApplied(u) ==
  /\ call[u] = "switching"
  /\ AppendUserMessageIfActive
  /\ bound' = bound \cup {last + 1}
  /\ Done(u)
  /\ UNCHANGED <<withdrawn, seen>>
  /\ UserUnchanged

ModeDenied(u) ==
  /\ call[u] = "switching"
  /\ Done(u)
  /\ UNCHANGED <<sessionVars, bound, withdrawn, seen>>
  /\ UserUnchanged

(* The approval of a saved plan needs no request: its continuation is      *)
(* appended, and then whatever is pending by now is cleared.               *)
PlanApprove(u) ==
  /\ call[u] = "plain"
  /\ view[u].request = 0
  /\ AppendUserMessageIfActive
  /\ call' = [call EXCEPT ![u] = "approved"]
  /\ UNCHANGED <<bound, view, withdrawn, seen>>
  /\ UserUnchanged

PlanCleared(u) ==
  /\ call[u] = "approved"
  /\ ClearPending \/ UNCHANGED sessionVars
  /\ Done(u)
  /\ UNCHANGED <<bound, withdrawn, seen>>
  /\ UserUnchanged

Withdraw(m) ==
  /\ CancelUndeliveredUserMessage(m)
  /\ withdrawn' = withdrawn \cup {m}
  /\ UNCHANGED <<bound, view, call, seen>>
  /\ UserUnchanged

CancelRun ==
  /\ ~runCancelled
  /\ runCancelled' = TRUE
  /\ UNCHANGED <<sessionVars, agent, idle, bound, view, call, ov, delivered,
                 withdrawn, seen, crashes>>

-----------------------------------------------------------------------------
(* The overseer's controller, for one checkpoint.                          *)
OvUnchanged == UNCHANGED <<agent, idle, bound, view, call, withdrawn, runCancelled>>

Checkpoint ==
  /\ ov.step = "idle"
  /\ request # 0
  /\ ov' = [step |-> "reserve", request |-> request, asks |-> asks, row |-> 0]
  /\ UNCHANGED <<sessionVars, delivered, seen, crashes>>
  /\ OvUnchanged

(* Reserving again after a crash finds the row by its delivery_id.         *)
OvReserve ==
  /\ ov.step = "reserve"
  /\ \/ /\ ReservePendingInputResponse(ov.request)
        /\ delivered' = last + 1
        /\ seen' = [seen EXCEPT ![last + 1] = ov.asks]
        /\ ov' = [ov EXCEPT !.step = "check", !.row = last + 1]
     \/ /\ request # ov.request
        /\ delivered # 0
        /\ ov' = [ov EXCEPT !.step = "check", !.row = delivered]
        /\ UNCHANGED <<sessionVars, delivered, seen>>
     \/ /\ request # ov.request
        /\ delivered = 0
        /\ ov' = [ov EXCEPT !.step = "stale"]
        /\ UNCHANGED <<sessionVars, delivered, seen>>
  /\ UNCHANGED crashes
  /\ OvUnchanged

(* Both checks read the run afresh; between the second and the release the *)
(* run may still be cancelled.                                             *)
OvCheck(now, next) ==
  /\ ov.step = now
  /\ \/ /\ runCancelled
        /\ CancelPendingInputResponse(ov.row)
        /\ ov' = [ov EXCEPT !.step = "discarded"]
     \/ /\ ~runCancelled
        /\ ov' = [ov EXCEPT !.step = next]
        /\ UNCHANGED sessionVars
  /\ UNCHANGED <<delivered, seen, crashes>>
  /\ OvUnchanged

(* The mode switch or the policy's effects are applied to the run, whose   *)
(* own modules model them.                                                 *)
OvEffects ==
  /\ ov.step = "effect"
  /\ ov' = [ov EXCEPT !.step = "recheck"]
  /\ UNCHANGED <<sessionVars, delivered, seen, crashes>>
  /\ OvUnchanged

OvRelease ==
  /\ ov.step = "release"
  /\ ReleasePendingInputResponse(ov.row)
  /\ ov' = [ov EXCEPT !.step = "resolved"]
  /\ UNCHANGED <<delivered, seen, crashes>>
  /\ OvUnchanged

OvCrash ==
  /\ ov.step \in Working
  /\ crashes < MaxCrashes
  /\ crashes' = crashes + 1
  /\ ov' = [ov EXCEPT !.step = "reserve", !.row = 0]
  /\ UNCHANGED <<sessionVars, delivered, seen>>
  /\ OvUnchanged

AgentNext == AgentCommit \/ AgentAsk \/ AgentWait \/ AgentSweep \/ AgentClaim \/ AgentStart
UserNext(u) ==
  Load(u) \/ Submit(u) \/ UserAnswer(u) \/ UserFallback(u) \/ UserRefused(u)
    \/ UserReject(u) \/ ModeConsume(u) \/ ModeApplied(u) \/ ModeDenied(u)
    \/ PlanApprove(u) \/ PlanCleared(u)
OverseerNext ==
  Checkpoint \/ OvReserve \/ OvCheck("check", "effect") \/ OvEffects
    \/ OvCheck("recheck", "release") \/ OvRelease \/ OvCrash

InputNext ==
  \/ AgentNext
  \/ \E u \in Users : UserNext(u)
  \/ \E m \in Msgs : Withdraw(m)
  \/ CancelRun
  \/ OverseerNext

(* The agent's loop is the only party that must keep going: a pass ends    *)
(* (its turn has a time budget), and a waiting agent polls and sweeps for  *)
(* ever.  Users and the controller may stop at any point.                  *)
InputSpec ==
  /\ InputInit
  /\ [][InputNext]_inputVars
  /\ WF_inputVars(AgentCommit)
  /\ WF_inputVars(AgentAsk \/ AgentWait)
  /\ WF_inputVars(AgentSweep)
  /\ WF_inputVars(AgentClaim \/ AgentStart)

-----------------------------------------------------------------------------
(* Properties.                                                             *)

(* A stale tab never answers a question it was not showing: a message that *)
(* names the request on its screen answers that question, or nothing.  A   *)
(* message that names none may answer what its screen never showed, but    *)
(* only the question its handler read, never one asked after that read;    *)
(* and the overseer's response, however late it is reserved, answers the   *)
(* question it was checkpointed for.                                       *)
AnswersWhatWasSeen == \A m \in Msgs : answers[m] \in {0, seen[m]}

(* The question the agent asked last never just vanishes: it is open, or   *)
(* held, or decided by a standing answer, or cleared by a user, unless its *)
(* answer was withdrawn or the run cancelled.  A hold that expires after   *)
(* its controller died puts it back.  (The clear of a plan's approval is a *)
(* user's, although that user need not have seen what it clears.)          *)
NewestQuestionSurvives ==
  nask # 0 /\ ~runCancelled =>
    \/ asks = nask
    \/ nask \in retired
    \/ \E m \in Msgs : answers[m] = nask /\ (held[m] \/ Live(m) \/ m \in withdrawn)

(* Every queued message is eventually delivered or cancelled, although a   *)
(* held response blocks all that follow it and its controller may never    *)
(* come back: the agent's own sweep reopens the queue.                     *)
QueueDrains == \A m \in Msgs : delivery[m] = "pending" ~> delivery[m] # "pending"

(* What ReleasePendingInputResponse promises: a response the overseer      *)
(* reports as resolved was made visible to the agent, so it is waiting,    *)
(* delivered, or withdrawn by a user since.                                *)
ResolvedIsVisible ==
  ov.step = "resolved" /\ ov.row \notin withdrawn => delivery[ov.row] # "cancelled"
=============================================================================
