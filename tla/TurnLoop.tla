------------------------------ MODULE TurnLoop ------------------------------
(***************************************************************************)
(* The runner's turn loop (cmd/agent/loop.go): a pod restores the durable  *)
(* cursors, claims the oldest queued message, runs passes of the agent on  *)
(* it, commits each, and parks for the user.  A pod dies at any step       *)
(* (Crash) or is told to exit (Shutdown); its replacement has only the     *)
(* session's rows, the stop requests and the working state to go by.       *)
(*                                                                         *)
(* Every durable write is a step of its own, so a pod may die between any  *)
(* two.  Of the pending input request only its kind is kept here (boundary)*)
(* - who answers it is the subject of InputResolution - and the SDK's run  *)
(* store, which is not part of the repository, is what loop.go expects of  *)
(* it: a completed pass replays.  One pod runs at a time; a partitioned    *)
(* predecessor that still runs, and the lease that keeps it out, are not   *)
(* modelled.                                                               *)
(***************************************************************************)
EXTENDS SessionStore

CONSTANTS
  Pods,         (* successive pods of the run, which are their claim tokens*)
  MaxPasses,    (* bound: durable passes ever reserved                     *)
  MaxContinue,  (* bound: passes after which the agent no longer continues *)
  MaxSends,     (* bound: messages the user sends                          *)
  MaxStops,     (* bound: stop requests                                    *)
  MaxCrashes,   (* bound: pods that die without a word                     *)
  MaxFaults,    (* bound: best-effort writes that are lost                 *)
  MaxEvents     (* bound: all these, withdrawals and pods told to exit     *)

ASSUME PodAssumption ==
  /\ Cardinality(Pods) \in Nat /\ Pods = 1..Cardinality(Pods) /\ Pods \subseteq Tokens
  /\ MaxPasses \in Nat

VARIABLES
  pod,          (* each pod: its step and the turn it holds in memory      *)
  stopped,      (* WorkingState.LastStoppedUserMessageID                   *)
  marker,       (* WorkingState.AutonomousTurnActive                       *)
  durable,      (* WorkingState.DurableRunMessageID and DurableRunPass     *)
  npass,        (* WorkingState.DurableRunNextPass                         *)
  runs,         (* the SDK's stored run of each pass                       *)
  replies,      (* passes whose assistant message is in the conversation   *)
  boundary,     (* kind of the pending input request                       *)
  bound,        (* rows that name the request they answered                *)
  stop,         (* the pending stop request: newest message it can target  *)
  sends, stops, faults,   (* counters of the bounds                        *)
  conts,        (* rows that are continuation prompts of a replacement     *)
  told,         (* history: the pods that consumed a stop, of which message*)
  recorded      (* history: messages whose stop is on record               *)

loopVars  == <<pod, stopped, marker, durable, npass, runs, replies, boundary,
               bound, stop, sends, stops, faults, conts, told, recorded>>
turnVars  == <<sessionVars, loopVars>>
workState == <<stopped, marker, durable, npass>>
history   == <<conts, told, recorded>>
bounds    == <<sends, stops, faults>>

Passes == 1..MaxPasses
Steps == {"off", "recover", "resume", "quiet", "poll", "retire", "start", "drain",
          "steer", "mark", "reserve", "open", "run", "commit", "close",
          "decide", "floor", "release", "park", "settle",
          "crashed", "exited", "left", "failed"}
(* The steps from which a shutdown leaves through agentLoop.               *)
InTurn  == {"steer", "mark", "reserve", "open", "run", "decide"}
Gone    == {"crashed", "exited", "left", "failed"}
Up      == Steps \ (Gone \cup {"off"})

TurnTypeOK ==
  /\ SessionTypeOK
  /\ pod \in [Pods -> [pc : Steps, msg : 0..MaxMsgs, pass : 0..MaxPasses,
                       floor : 0..MaxMsgs, claimed : BOOLEAN, marked : BOOLEAN,
                       first : BOOLEAN, told : BOOLEAN, loop : BOOLEAN, banner : BOOLEAN,
                       mute : BOOLEAN]]
  /\ stopped \in 0..MaxMsgs
  /\ marker \in BOOLEAN
  /\ durable \in [msg : 0..MaxMsgs, pass : 0..MaxPasses]
  /\ npass \in 0..MaxPasses
  /\ runs \in [Passes -> [msg : 0..MaxMsgs, first : BOOLEAN, done : BOOLEAN]]
  /\ replies \subseteq Passes
  /\ boundary \in {"none", "idle", "stopped", "asked"}
  /\ bound \subseteq Msgs
  /\ stop \in 0..MaxMsgs
  /\ conts \subseteq Msgs /\ told \subseteq Pods \X Msgs /\ recorded \subseteq Msgs

Fresh == [pc |-> "off", msg |-> 0, pass |-> 0, floor |-> 0, claimed |-> FALSE,
          marked |-> FALSE, first |-> TRUE, told |-> FALSE, loop |-> FALSE, banner |-> FALSE,
          mute |-> FALSE]

TurnInit ==
  /\ SessionInit
  /\ pod = [p \in Pods |-> Fresh]
  /\ stopped = 0
  /\ marker = FALSE
  /\ durable = [msg |-> 0, pass |-> 0]
  /\ npass = 0
  /\ runs = [q \in Passes |-> [msg |-> 0, first |-> TRUE, done |-> FALSE]]
  /\ replies = {}
  /\ boundary = "none"
  /\ bound = {}
  /\ stop = 0
  /\ sends = 0 /\ stops = 0 /\ faults = 0
  /\ conts = {} /\ told = {} /\ recorded = {}

-----------------------------------------------------------------------------
(* Users, deaths and lost writes share one bound.                          *)
Eventful ==
  sends + stops + faults + Cardinality({p \in Pods : pod[p].pc \in Gone})
    + Cardinality({m \in Msgs : delivery[m] = "cancelled"}) < MaxEvents

(* A write whose failure is logged, after which the pod goes on: the two   *)
(* records of a stop, the marker and the continuation.                     *)
Lost == Eventful /\ faults < MaxFaults /\ faults' = faults + 1

At(p, step) == pod[p].pc = step
Goto(p, step) == pod' = [pod EXCEPT ![p].pc = step]
(* The same for a pod that loses the continuation it meant to queue.       *)
GotoMute(p, step) == pod' = [pod EXCEPT ![p] = [@ EXCEPT !.pc = step, !.mute = TRUE]]

(* The queue as a pod sees it: pending rows without the stopped prompt.    *)
Waiting(p) == {m \in Msgs : Polled(m) /\ m # pod[p].floor}

(* Mutation: the replacement starts without the stopped-prompt floor.      *)
StartForgetful(p) ==
  /\ At(p, "off")
  /\ phase # "ended"
  /\ \A o \in 1..(p - 1) : pod[o].pc \in Gone
  /\ pod' = [pod EXCEPT ![p] = [Fresh EXCEPT !.pc = "recover", !.marked = marker]]
  /\ UNCHANGED <<sessionVars, workState, runs, replies, boundary, bound, stop, bounds, history>>

(* The controller replaces a pod that is gone; the new pod reads the       *)
(* working state first.                                                    *)
StartPod(p) ==
  /\ At(p, "off")
  /\ phase # "ended"
  /\ \A o \in 1..(p - 1) : pod[o].pc \in Gone
  /\ pod' = [pod EXCEPT ![p] = [Fresh EXCEPT !.pc = "recover", !.floor = stopped, !.marked = marker]]
  /\ UNCHANGED <<sessionVars, workState, runs, replies, boundary, bound, stop, bounds, history>>

(* Mutation: a replacement leaves the claims of its predecessor alone.     *)
RestoreUnclaimed(p) ==
  /\ At(p, "recover")
  /\ Goto(p, "resume")
  /\ UNCHANGED <<sessionVars, workState, runs, replies, boundary, bound, stop, bounds, history>>

RestoreRecover(p) ==
  /\ At(p, "recover")
  /\ RecoverClaimedUserMessages(p)
  /\ Goto(p, "resume")
  /\ UNCHANGED <<workState, runs, replies, boundary, bound, stop, bounds, history>>

AppendContinuation == AppendMessage /\ conts' = conts \cup {last + 1}

(* What the queue a pod started with makes of the session.                 *)
IdleOrPoll == IF {m \in Msgs : Polled(m)} = {} /\ boundary = "none" THEN "quiet" ELSE "poll"

(* Mutation: the marker is read and not acted upon.                        *)
RestoreIgnoringMarker(p) ==
  /\ At(p, "resume")
  /\ Goto(p, IdleOrPoll)
  /\ UNCHANGED <<sessionVars, conts>>
  /\ UNCHANGED <<workState, runs, replies, boundary, bound, stop, bounds, told, recorded>>

(* An autonomous turn that a crash left with nothing queued is continued,  *)
(* unless that continuation is lost too; a session with nothing queued and *)
(* nothing pending is declared idle.                                       *)
RestoreContinue(p) ==
  /\ At(p, "resume")
  /\ \/ /\ pod[p].marked /\ Waiting(p) = {}
        /\ AppendContinuation
        /\ Goto(p, "poll")
        /\ UNCHANGED faults
     \/ /\ pod[p].marked /\ Waiting(p) = {}
        /\ Lost
        /\ GotoMute(p, IdleOrPoll)
        /\ UNCHANGED <<sessionVars, conts>>
     \/ /\ ~(pod[p].marked /\ Waiting(p) = {})
        /\ Goto(p, IdleOrPoll)
        /\ UNCHANGED <<sessionVars, conts, faults>>
  /\ UNCHANGED <<workState, runs, replies, boundary, bound, stop, sends, stops, told, recorded>>

StartupIdle(p) ==
  /\ At(p, "quiet")
  /\ boundary' = "idle"
  /\ Goto(p, "poll")
  /\ UNCHANGED <<sessionVars, workState, runs, replies, bound, stop, bounds, history>>

-----------------------------------------------------------------------------
(* nextUserTurn: wait for a message and own it.                            *)

(* A queue that still lists the stopped prompt is rid of it for good.      *)
ListsStopped(p) == pod[p].floor # 0 /\ Polled(pod[p].floor)

RetireStopped(p) ==
  /\ At(p, "poll")
  /\ ListsStopped(p)
  /\ ClaimUserMessage(p, pod[p].floor)
  /\ Goto(p, "retire")
  /\ UNCHANGED <<workState, runs, replies, boundary, bound, stop, bounds, history>>

CompleteRetired(p) ==
  /\ At(p, "retire")
  /\ CompleteClaims(p)
  /\ Goto(p, "poll")
  /\ UNCHANGED <<workState, runs, replies, boundary, bound, stop, bounds, history>>

ClaimNext(p) ==
  /\ At(p, "poll")
  /\ ~ListsStopped(p)
  /\ \E m \in Waiting(p) :
       /\ \A n \in Waiting(p) : m <= n
       /\ ClaimUserMessage(p, m)
       /\ pod' = [pod EXCEPT ![p] = [@ EXCEPT !.pc = "start", !.msg = m, !.claimed = TRUE,
                                              !.first = TRUE, !.loop = FALSE, !.banner = FALSE]]
  /\ UNCHANGED <<workState, runs, replies, boundary, bound, stop, bounds, history>>

(* The message seen when the user stopped is gone: now the session parks.  *)
DeferredBanner(p) ==
  /\ At(p, "poll")
  /\ pod[p].banner
  /\ ~ListsStopped(p)
  /\ Waiting(p) = {}
  /\ boundary' = "stopped"
  /\ pod' = [pod EXCEPT ![p].banner = FALSE]
  /\ UNCHANGED <<sessionVars, workState, runs, replies, bound, stop, bounds, history>>

(* A row that names its request consumed it when it was sent; any other    *)
(* ends an idle or stopped boundary.                                       *)
ClearBoundary(p) ==
  /\ At(p, "start")
  /\ boundary' = IF pod[p].msg \notin bound /\ boundary \in {"idle", "stopped"} THEN "none" ELSE boundary
  /\ Goto(p, "drain")
  /\ UNCHANGED <<sessionVars, workState, runs, replies, bound, stop, bounds, history>>

(* A stop requested since the message was sent targets it; an older one is *)
(* consumed and ignored.                                                   *)
DrainStops(p) ==
  /\ At(p, "drain")
  /\ stop' = 0
  /\ IF stop # 0 /\ pod[p].msg <= stop
       THEN Goto(p, "floor") /\ told' = told \cup {<<p, pod[p].msg>>}
       ELSE /\ pod' = [pod EXCEPT ![p] = [@ EXCEPT !.pc = "mark", !.loop = TRUE]]
            /\ UNCHANGED told
  /\ UNCHANGED <<sessionVars, workState, runs, replies, boundary, bound, bounds, conts, recorded>>

-----------------------------------------------------------------------------
(* runPass: the passes of one turn.                                        *)

(* Between passes a message sent meanwhile takes over the turn: the next   *)
(* one in line unless a later one was sent as immediate.  With none waiting*)
(* the pass cap may end the turn.                                          *)
Steer(p) ==
  /\ At(p, "steer")
  /\ \/ \E m \in Waiting(p) :
          /\ ClaimUserMessage(p, m)
          /\ pod' = [pod EXCEPT ![p] = [@ EXCEPT !.pc = "mark", !.msg = m, !.claimed = TRUE,
                                                 !.first = TRUE]]
          /\ UNCHANGED boundary
     \/ Waiting(p) = {} /\ Goto(p, "mark") /\ UNCHANGED <<sessionVars, boundary>>
     \/ Waiting(p) = {} /\ boundary' = "asked" /\ Goto(p, "settle") /\ UNCHANGED sessionVars
  /\ UNCHANGED <<workState, runs, replies, bound, stop, bounds, history>>

(* A turn whose message is completed is marked; a marker that is lost is   *)
(* tried again in the next pass.                                           *)
MarkAutonomous(p) ==
  /\ At(p, "mark")
  /\ \/ /\ pod[p].claimed \/ pod[p].marked
        /\ Goto(p, "reserve")
        /\ UNCHANGED <<marker, faults>>
     \/ /\ ~pod[p].claimed /\ ~pod[p].marked
        /\ marker' = TRUE
        /\ pod' = [pod EXCEPT ![p] = [@ EXCEPT !.pc = "reserve", !.marked = TRUE]]
        /\ UNCHANGED faults
     \/ /\ ~pod[p].claimed /\ ~pod[p].marked
        /\ Lost
        /\ Goto(p, "reserve")
        /\ UNCHANGED marker
  /\ UNCHANGED <<sessionVars, stopped, durable, npass, runs, replies, boundary, bound,
                 stop, sends, stops, history>>

(* A message that already has a pass reopens it.                           *)
ReservePass(p) ==
  /\ At(p, "reserve")
  /\ \/ /\ durable.msg = pod[p].msg
        /\ pod' = [pod EXCEPT ![p] = [@ EXCEPT !.pc = "open", !.pass = durable.pass]]
        /\ UNCHANGED <<durable, npass, runs>>
     \/ /\ durable.msg # pod[p].msg
        /\ npass < MaxPasses
        /\ npass' = npass + 1
        /\ durable' = [msg |-> pod[p].msg, pass |-> npass + 1]
        /\ runs' = [runs EXCEPT ![npass + 1] = [@ EXCEPT !.msg = pod[p].msg, !.first = pod[p].first]]
        /\ pod' = [pod EXCEPT ![p] = [@ EXCEPT !.pc = "open", !.pass = npass + 1]]
  /\ UNCHANGED <<sessionVars, stopped, marker, replies, boundary, bound, stop, bounds, history>>

Consumed(p) == stop' = 0 /\ told' = told \cup {<<p, pod[p].msg>>}

StopWhileWaiting(p) ==
  /\ At(p, "open")
  /\ stop # 0
  /\ Consumed(p)
  /\ Goto(p, "floor")
  /\ UNCHANGED <<sessionVars, workState, runs, replies, boundary, bound, bounds, conts, recorded>>

OpenRun(p) ==
  /\ At(p, "open")
  /\ Goto(p, "run")
  /\ UNCHANGED <<sessionVars, workState, runs, replies, boundary, bound, stop, bounds, history>>

(* An immediate message joins the pass that is running.                    *)
FoldImmediate(p) ==
  /\ At(p, "run")
  /\ ~pod[p].told
  /\ \E m \in Waiting(p) : ClaimUserMessage(p, m)
  /\ UNCHANGED pod
  /\ UNCHANGED <<workState, runs, replies, boundary, bound, stop, bounds, history>>

WatchStop(p) ==
  /\ At(p, "run")
  /\ stop # 0
  /\ ~pod[p].told
  /\ Consumed(p)
  /\ pod' = [pod EXCEPT ![p].told = TRUE]
  /\ UNCHANGED <<sessionVars, workState, runs, replies, boundary, bound, bounds, conts, recorded>>

(* The pass may complete although its stop was seen; stops that raced its  *)
(* end are drained with it.                                                *)
RunCompletes(p) ==
  /\ At(p, "run")
  /\ runs' = [runs EXCEPT ![pod[p].pass].done = TRUE]
  /\ IF stop # 0 THEN Consumed(p) ELSE UNCHANGED <<stop, told>>
  /\ pod' = [pod EXCEPT ![p] = [@ EXCEPT !.pc = "commit", !.told = pod[p].told \/ stop # 0]]
  /\ UNCHANGED <<sessionVars, workState, replies, boundary, bound, bounds, conts, recorded>>

RunIsStopped(p) ==
  /\ At(p, "run")
  /\ pod[p].told
  /\ Goto(p, "floor")
  /\ UNCHANGED <<sessionVars, workState, runs, replies, boundary, bound, stop, bounds, history>>

(* A model error or an exhausted budget: the claim stays with the pod.     *)
RunFails(p) ==
  /\ At(p, "run")
  /\ ~pod[p].told /\ stop = 0
  /\ boundary' = "asked"
  /\ Goto(p, "settle")
  /\ UNCHANGED <<sessionVars, workState, runs, replies, bound, stop, bounds, history>>

(* Mutation: the reply is stored without completing the claims.            *)
ReplyWithoutClaims(p) ==
  /\ At(p, "commit")
  /\ replies' = replies \cup {pod[p].pass}
  /\ pod' = [pod EXCEPT ![p] = [@ EXCEPT !.pc = "close", !.claimed = FALSE]]
  /\ UNCHANGED <<sessionVars, workState, runs, boundary, bound, stop, bounds, history>>

(* Mutation: the turn still counts its message as claimed.                 *)
CommitKeepingClaim(p) ==
  /\ At(p, "commit")
  /\ CompleteClaims(p)
  /\ replies' = replies \cup {pod[p].pass}
  /\ Goto(p, "close")
  /\ UNCHANGED <<workState, runs, boundary, bound, stop, bounds, history>>

(* The reply and the completion of the claims are one transaction, and one *)
(* reply is kept per pass.                                                 *)
CommitReply(p) ==
  /\ At(p, "commit")
  /\ CompleteClaims(p)
  /\ replies' = replies \cup {pod[p].pass}
  /\ pod' = [pod EXCEPT ![p] = [@ EXCEPT !.pc = "close", !.claimed = FALSE]]
  /\ UNCHANGED <<workState, runs, boundary, bound, stop, bounds, history>>

ClosePass(p) ==
  /\ At(p, "close")
  /\ IF durable = [msg |-> pod[p].msg, pass |-> pod[p].pass]
       THEN durable' = [msg |-> 0, pass |-> 0] /\ Goto(p, "decide") /\ UNCHANGED sessionVars
       ELSE UNCHANGED durable /\ UpdatePhase("ended") /\ Goto(p, "failed")
  /\ UNCHANGED <<stopped, marker, npass, runs, replies, boundary, bound, stop, bounds, history>>

(* Mutation: a stop that the completed pass had seen is not looked at.     *)
DecideIgnoringStop(p) ==
  /\ At(p, "decide")
  /\ \/ boundary' \in {"asked", "idle"} /\ Goto(p, "settle")
     \/ /\ npass < MaxContinue
        /\ pod' = [pod EXCEPT ![p] = [@ EXCEPT !.pc = "steer", !.first = FALSE]]
        /\ UNCHANGED boundary
  /\ UNCHANGED <<sessionVars, workState, runs, replies, bound, stop, bounds, history>>

(* decideNext: a stop, a question or the finish end the turn; otherwise    *)
(* the agent nudges itself into another pass.                              *)
Decide(p) ==
  /\ At(p, "decide")
  /\ \/ pod[p].told /\ Goto(p, "floor") /\ UNCHANGED boundary
     \/ ~pod[p].told /\ boundary' \in {"asked", "idle"} /\ Goto(p, "settle")
     \/ /\ ~pod[p].told
        /\ npass < MaxContinue
        /\ pod' = [pod EXCEPT ![p] = [@ EXCEPT !.pc = "steer", !.first = FALSE]]
        /\ UNCHANGED boundary
  /\ UNCHANGED <<sessionVars, workState, runs, replies, bound, stop, bounds, history>>

-----------------------------------------------------------------------------
(* parkAfterStop: the stop is recorded twice, and either record may fail.  *)
(* The working state has one slot: a stop that only this slot remembered   *)
(* is forgotten with it.                                                   *)
RecordFloor(p) ==
  /\ At(p, "floor")
  /\ pod' = [pod EXCEPT ![p] = [@ EXCEPT !.pc = "release", !.floor = pod[p].msg]]
  /\ \/ /\ stopped' = pod[p].msg
        /\ recorded' = {m \in recorded : delivery[m] = "completed"} \cup {pod[p].msg}
        /\ UNCHANGED faults
     \/ Lost /\ UNCHANGED <<stopped, recorded>>
  /\ UNCHANGED <<sessionVars, marker, durable, npass, runs, replies, boundary, bound,
                 stop, sends, stops, conts, told>>

RecordRelease(p) ==
  /\ At(p, "release")
  /\ Goto(p, "park")
  /\ \/ CompleteClaims(p) /\ recorded' = recorded \cup {pod[p].msg} /\ UNCHANGED faults
     \/ Lost /\ UNCHANGED <<sessionVars, recorded>>
  /\ UNCHANGED <<workState, runs, replies, boundary, bound, stop, sends, stops, conts, told>>

(* A message queued behind the stop goes on at once; otherwise the session *)
(* waits in the Stopped state.                                             *)
Park(p) ==
  /\ At(p, "park")
  /\ boundary' = IF Waiting(p) = {} THEN "stopped" ELSE boundary
  /\ pod' = [pod EXCEPT ![p] = [@ EXCEPT !.pc = IF pod[p].loop THEN "settle" ELSE "poll",
                                         !.banner = Waiting(p) # {}, !.told = FALSE]]
  /\ UNCHANGED <<sessionVars, workState, runs, replies, bound, stop, bounds, history>>

(* The turn is over: the marker goes, unless that write is lost, and then  *)
(* the pod still counts on it.                                             *)
Settle(p) ==
  /\ At(p, "settle")
  /\ \/ /\ marker' = (marker /\ ~pod[p].marked)
        /\ pod' = [pod EXCEPT ![p] = [@ EXCEPT !.pc = "poll", !.marked = FALSE]]
        /\ UNCHANGED faults
     \/ /\ pod[p].marked
        /\ Lost
        /\ Goto(p, "poll")
        /\ UNCHANGED marker
  /\ UNCHANGED <<sessionVars, stopped, durable, npass, runs, replies, boundary, bound,
                 stop, sends, stops, history>>

-----------------------------------------------------------------------------
(* Deaths, and the user.                                                   *)
LastPod == Cardinality(Pods)

Crash(p) ==
  /\ p < LastPod /\ Eventful
  /\ pod[p].pc \in Up
  /\ Cardinality({o \in Pods : At(o, "crashed")}) < MaxCrashes
  /\ Goto(p, "crashed")
  /\ UNCHANGED <<sessionVars, workState, runs, replies, boundary, bound, stop, bounds, history>>

(* Mutation: the exit leaves nothing for the replacement.                  *)
ExitSilently(p) ==
  /\ p < LastPod /\ Eventful
  /\ pod[p].pc \in InTurn
  /\ Goto(p, "exited")
  /\ UNCHANGED <<sessionVars, workState, runs, replies, boundary, bound, stop, bounds, history>>

(* exitOnShutdown and exitForReplacement: a turn whose message is already  *)
(* completed leaves a continuation in the queue; if that write is lost the *)
(* pod exits all the same.                                                 *)
ExitResumable(p) ==
  /\ p < LastPod /\ Eventful
  /\ pod[p].pc \in InTurn
  /\ \/ /\ IF pod[p].claimed THEN UNCHANGED <<sessionVars, conts>> ELSE AppendContinuation
        /\ Goto(p, "exited")
        /\ UNCHANGED faults
     \/ /\ ~pod[p].claimed
        /\ Lost
        /\ GotoMute(p, "exited")
        /\ UNCHANGED <<sessionVars, conts>>
  /\ UNCHANGED <<workState, runs, replies, boundary, bound, stop, sends, stops, told, recorded>>

(* A pod that waits for the user has no turn to hand over.                 *)
ExitParked(p) ==
  /\ p < LastPod /\ Eventful
  /\ At(p, "poll")
  /\ Goto(p, "left")
  /\ UNCHANGED <<sessionVars, workState, runs, replies, boundary, bound, stop, bounds, history>>

(* The bounds leave an id for each continuation that is still to come: of  *)
(* a pod that may have to hand over, and of a turn the marker speaks of.   *)
Reserve == Cardinality({p \in Pods : p < LastPod /\ pod[p].pc \notin Gone})
             + (IF marker THEN 1 ELSE 0)

UserSend ==
  /\ Eventful /\ sends < MaxSends
  /\ last + Reserve < MaxMsgs
  /\ sends' = sends + 1
  /\ AppendUserMessageIfActive
  /\ bound' = IF boundary = "none" THEN bound ELSE bound \cup {last + 1}
  /\ boundary' = "none"
  /\ UNCHANGED <<pod, workState, runs, replies, stop, stops, faults, history>>

UserStop ==
  /\ Eventful /\ stops < MaxStops
  /\ stop = 0
  /\ last # 0
  /\ stop' = last
  /\ stops' = stops + 1
  /\ UNCHANGED <<sessionVars, pod, workState, runs, replies, boundary, bound, sends, faults, history>>

UserWithdraws ==
  /\ Eventful
  /\ \E m \in Msgs \ conts : CancelUndeliveredUserMessage(m)
  /\ UNCHANGED loopVars

PodStep(p) ==
  \/ RestoreRecover(p) \/ RestoreContinue(p) \/ StartupIdle(p)
  \/ RetireStopped(p) \/ CompleteRetired(p) \/ ClaimNext(p) \/ DeferredBanner(p)
  \/ ClearBoundary(p) \/ DrainStops(p)
  \/ Steer(p) \/ MarkAutonomous(p) \/ ReservePass(p)
  \/ StopWhileWaiting(p) \/ OpenRun(p)
  \/ FoldImmediate(p) \/ WatchStop(p) \/ RunCompletes(p) \/ RunIsStopped(p) \/ RunFails(p)
  \/ CommitReply(p) \/ ClosePass(p) \/ Decide(p)
  \/ RecordFloor(p) \/ RecordRelease(p) \/ Park(p) \/ Settle(p)

TurnNext ==
  \/ \E p \in Pods : StartPod(p) \/ PodStep(p) \/ Crash(p) \/ ExitResumable(p) \/ ExitParked(p)
  \/ UserSend \/ UserStop \/ UserWithdraws

(* The controller replaces dead pods, and a live pod keeps taking steps:   *)
(* its turns have a time budget and its polls a ticker.  Nothing obliges a *)
(* user to act or a pod to die.                                            *)
TurnSpec ==
  /\ TurnInit
  /\ [][TurnNext]_turnVars
  /\ \A p \in Pods : WF_turnVars(StartPod(p)) /\ WF_turnVars(PodStep(p))

-----------------------------------------------------------------------------
(* Properties.                                                             *)

(* A prompt whose stop is on record - its claim completed, or its id in    *)
(* the slot of the working state, which the next stop takes over - never   *)
(* runs again, in this pod or in a replacement, whichever other write is   *)
(* lost and although the recovery sweep may hand the prompt back.          *)
StoppedStaysStopped == \A p \in Pods : At(p, "run") => pod[p].msg \notin recorded

(* The opening pass of a message is answered once: a pod that dies after   *)
(* committing the reply leaves nothing that makes its replacement answer   *)
(* the same message again under another pass.                              *)
FirstReplyOnce ==
  \A q, s \in replies :
    runs[q].msg = runs[s].msg /\ runs[q].first /\ runs[s].first => q = s

(* What a pod believes of its message is what the store says: while it     *)
(* counts on the claim to wake its replacement the row is claimed under    *)
(* its token, and while it does not, the row is completed.                 *)
ClaimMatchesTurn ==
  \A p \in Pods : pod[p].pc \in InTurn \cup {"commit", "close"} =>
    IF pod[p].claimed THEN pod[p].msg \in Owned(p) ELSE delivery[pod[p].msg] = "completed"

(* No message stays in the queue, or claimed by a pod that is gone, for    *)
(* ever: whatever dies meanwhile, each is handed to an agent, completed    *)
(* with a stop, or withdrawn by the user.                                  *)
QueueServed ==
  <>[](\A m \in Msgs :
         delivery[m] # "pending" /\ \A p \in Pods : pod[p].pc \in Gone => m \notin Owned(p))

(* Interrupted work: the pod was told to exit in the middle of a turn and  *)
(* did not lose its continuation, or the marker speaks of an autonomous    *)
(* turn and no pod is alive.  The two cover for each other: a pod that     *)
(* loses its continuation after its marker was written still counts.       *)
Interrupted ==
  \/ \E p \in Pods : At(p, "exited") /\ ~pod[p].mute /\ \A q \in Pods : q > p => At(q, "off")
  \/ marker /\ \A p \in Pods : pod[p].pc \in Gone \cup {"off"}

(* Interrupted work is taken up by a later pod, however the earlier one    *)
(* came to its end and whoever dies meanwhile, unless the user withdraws   *)
(* what is queued, or the pod that is up lost the continuation it meant to *)
(* queue for the marker: then the work lies until that pod is replaced.    *)
InterruptedWorkResumes ==
  Interrupted ~> \/ \E p \in Pods : At(p, "start")
                 \/ \E m \in Msgs : delivery[m] = "cancelled"
                 \/ \E p \in Pods : pod[p].mute /\ pod[p].pc \in Up

(* What session_messages.go says of a stop: re-running a stopped prompt is *)
(* exactly what the user asked not to happen.  Once a pod has consumed the *)
(* stop of a message, no pod starts a pass of it.                          *)
StopIsHonoured ==
  [][\A p \in Pods : ~At(p, "run") /\ pod'[p].pc = "run" =>
       \A o \in Pods : <<o, pod[p].msg>> \notin told]_turnVars

(* What holds of it: the pod that has consumed the stop of a message never *)
(* starts another pass of it, although both of its records may be lost,    *)
(* later stops take over the floor and the pass itself may still complete. *)
StopHoldsInItsPod ==
  [][\A p \in Pods : ~At(p, "run") /\ pod'[p].pc = "run" => <<p, pod[p].msg>> \notin told]_turnVars

(* What commitTurn says of a crashed commit: the replacement replays the   *)
(* completed pass without repeating its effects.  So a message has at most *)
(* one completed opening pass.                                             *)
EffectsRunOnce ==
  \A q, s \in Passes :
    /\ runs[q].done /\ runs[q].first /\ runs[s].done /\ runs[s].first
    /\ runs[q].msg = runs[s].msg
    => q = s

(* What handleTurnError says of a user stop: unlike pod termination it     *)
(* records no pending resume prompt, a replacement must wait for a         *)
(* genuinely newer user message.  So no replacement queues a continuation  *)
(* for a session that is parked as stopped.                                *)
ReplacementWaitsAfterStop ==
  [][\A p \in Pods : At(p, "resume") /\ pod'[p].pc = "poll" /\ last' # last =>
       boundary # "stopped"]_turnVars
=============================================================================
