--------------------------- MODULE TurnLoopProofs ---------------------------
(***************************************************************************)
(* Proofs about the runner's turn loop, for every number of pods, messages,*)
(* passes, stops, crashes and lost writes.                                 *)
(*                                                                         *)
(* Every step of a pod is a statement of the session store or none         *)
(* (StoreStep), so that the store's invariant holds of the loop.  On top   *)
(* of it: one pod is up at a time (OnePod), so that only the pod that      *)
(* moves can disturb what it knows; the message in its hands is claimed    *)
(* under its token or completed (HandAt); the pass in its hands is the     *)
(* one reserved in the working state, and an opening pass is never reopened*)
(* for a message whose claim is completed (PassAt); and a prompt in the    *)
(* slot of the stopped one that comes back to the queue is the floor of    *)
(* the pod that would claim it (StopAt).                                   *)
(***************************************************************************)
EXTENDS TurnLoop, SessionStoreProofs

USE BoundAssumption, TokenAssumption, PodAssumption
USE DEF Msgs, Reqs, States, Phases, Passes, At, Goto

(* The steps at which a pod has a message in its hands.                    *)
Hand   == InTurn \cup {"start", "drain", "commit", "close", "floor", "release"}
Opened == {"open", "run", "commit", "close"}
Before == {"decide", "steer", "mark", "reserve"}

NoHolds == \A m \in Msgs : ~held[m]

OnePod == \A p, q \in Pods : q < p /\ pod[p].pc # "off" => pod[q].pc \in Gone

HandAt(p) ==
  pod[p].pc \in Hand =>
    /\ pod[p].msg \in Msgs
    /\ pod[p].claimed => pod[p].msg \in Owned(p)
    /\ ~pod[p].claimed => delivery[pod[p].msg] = "completed"

PassAt(p) ==
  /\ pod[p].pc \in {"start", "drain"} => pod[p].claimed
  /\ pod[p].pc \in {"steer", "mark", "reserve"} /\ pod[p].first => pod[p].claimed
  /\ pod[p].pc \in Before /\ ~pod[p].claimed => durable.msg # pod[p].msg
  /\ pod[p].pc \in Opened => durable.msg = pod[p].msg /\ durable.pass = pod[p].pass
  /\ pod[p].pc \in Opened \ {"close"} /\ ~pod[p].claimed => ~runs[pod[p].pass].first

StopAt(p) ==
  /\ pod[p].pc = "recover" => pod[p].floor = stopped
  /\ pod[p].pc \in Up /\ stopped # 0 /\ delivery[stopped] = "pending" => pod[p].floor = stopped
  /\ pod[p].pc \in Hand /\ stopped # 0 => delivery[stopped] # "pending"
  /\ pod[p].pc \in Hand \ {"release"} => pod[p].msg \notin recorded

(* The reservation in the working state is that of a pass already drawn.   *)
DurableInv ==
  durable.msg # 0 => durable.pass \in 1..npass /\ runs[durable.pass].msg = durable.msg

(* The reply to an opening pass completed its message.                     *)
ReplyInv ==
  \A q \in replies :
    /\ q <= npass
    /\ runs[q].msg # 0
    /\ runs[q].first => delivery[runs[q].msg] = "completed"

(* A stop on record is in one of its two places, or its prompt withdrawn.  *)
RecordInv ==
  /\ stopped <= last
  /\ \A m \in recorded : m = stopped \/ delivery[m] \in {"completed", "cancelled"}

PodInv(p) == HandAt(p) /\ PassAt(p) /\ StopAt(p)

LoopInv == DurableInv /\ ReplyInv /\ FirstReplyOnce /\ RecordInv

PodRec == [pc : Steps, msg : 0..MaxMsgs, pass : 0..MaxPasses, floor : 0..MaxMsgs,
           claimed : BOOLEAN, marked : BOOLEAN, first : BOOLEAN, told : BOOLEAN,
           loop : BOOLEAN, banner : BOOLEAN, mute : BOOLEAN]

TurnInv ==
  /\ SessionInv /\ TurnTypeOK
  /\ NoHolds /\ OnePod /\ LoopInv
  /\ \A p \in Pods : PodInv(p)

LEMMA TurnInitInv == TurnInit => TurnInv
<1> SUFFICES ASSUME TurnInit PROVE TurnInv
  OBVIOUS
<1>1. SessionInv
  BY SessionInitInv DEF TurnInit
<1>2. TurnTypeOK
  <2>1. Fresh \in PodRec
    BY DEF Fresh, PodRec, Steps
  <2>2. pod \in [Pods -> PodRec]
    BY <2>1 DEF TurnInit
  <2>3. runs \in [Passes -> [msg : 0..MaxMsgs, first : BOOLEAN, done : BOOLEAN]]
    BY DEF TurnInit
  <2>4. durable \in [msg : 0..MaxMsgs, pass : 0..MaxPasses]
    BY DEF TurnInit
  <2> QED
    BY <1>1, <2>2, <2>3, <2>4 DEF TurnTypeOK, TurnInit, SessionInv, PodRec
<1>3. NoHolds
  BY DEF NoHolds, TurnInit, SessionInit
<1>4. OnePod
  BY DEF OnePod, TurnInit, Fresh
<1>5. LoopInv
  BY DEF LoopInv, DurableInv, ReplyInv, FirstReplyOnce, RecordInv, TurnInit, SessionInit
<1>6. \A p \in Pods : PodInv(p)
  BY DEF PodInv, HandAt, PassAt, StopAt, TurnInit, Fresh, Hand, InTurn, Opened, Before,
         Up, Gone
<1> QED
  BY <1>1, <1>2, <1>3, <1>4, <1>5, <1>6 DEF TurnInv

-----------------------------------------------------------------------------
(* Each step of a pod is a statement of the store, or leaves it alone.     *)
LEMMA PodStepsStore ==
  ASSUME TurnInv, NEW p \in Pods, PodStep(p)
  PROVE  [SessionNext]_sessionVars
<1>1. p \in Tokens /\ \A m \in Waiting(p) : m \in Msgs
  BY DEF Waiting
<1>2. CASE RestoreRecover(p)
  BY <1>1, <1>2 DEF RestoreRecover, SessionNext
<1>3. CASE RestoreContinue(p)
  BY <1>3 DEF RestoreContinue, AppendContinuation, SessionNext
<1>4. CASE RetireStopped(p)
  <2>1. pod[p].floor \in Msgs
    BY <1>4 DEF RetireStopped, ListsStopped, TurnInv, TurnTypeOK
  <2> QED
    BY <1>1, <1>4, <2>1 DEF RetireStopped, SessionNext
<1>5. CASE CompleteRetired(p) \/ CommitReply(p) \/ RecordRelease(p)
  BY <1>1, <1>5 DEF CompleteRetired, CommitReply, RecordRelease, SessionNext
<1>6. CASE ClaimNext(p) \/ Steer(p) \/ FoldImmediate(p)
  BY <1>1, <1>6 DEF ClaimNext, Steer, FoldImmediate, SessionNext
<1>7. CASE ClosePass(p)
  BY <1>7 DEF ClosePass, SessionNext
<1>8. CASE \/ StartupIdle(p) \/ DeferredBanner(p) \/ ClearBoundary(p) \/ DrainStops(p)
           \/ MarkAutonomous(p) \/ ReservePass(p) \/ StopWhileWaiting(p) \/ OpenRun(p)
           \/ WatchStop(p) \/ RunCompletes(p) \/ RunIsStopped(p) \/ RunFails(p)
           \/ Decide(p) \/ RecordFloor(p) \/ Park(p) \/ Settle(p)
  BY <1>8
     DEF StartupIdle, DeferredBanner, ClearBoundary, DrainStops, MarkAutonomous,
         ReservePass, StopWhileWaiting, OpenRun, WatchStop, RunCompletes, RunIsStopped,
         RunFails, Decide, RecordFloor, Park, Settle
<1> QED
  BY <1>2, <1>3, <1>4, <1>5, <1>6, <1>7, <1>8 DEF PodStep

LEMMA StoreStep == TurnInv /\ [TurnNext]_turnVars => [SessionNext]_sessionVars
<1> SUFFICES ASSUME TurnInv, [TurnNext]_turnVars PROVE [SessionNext]_sessionVars
  OBVIOUS
<1>1. CASE UNCHANGED turnVars
  BY <1>1 DEF turnVars
<1>2. ASSUME NEW p \in Pods, StartPod(p) \/ Crash(p) \/ ExitResumable(p) \/ ExitParked(p)
      PROVE  [SessionNext]_sessionVars
  BY <1>2 DEF StartPod, Crash, ExitResumable, ExitParked, AppendContinuation, SessionNext
<1>3. CASE UserSend \/ UserStop \/ UserWithdraws
  BY <1>3 DEF UserSend, UserStop, UserWithdraws, SessionNext
<1> QED
  BY <1>1, <1>2, <1>3, PodStepsStore DEF TurnNext

-----------------------------------------------------------------------------
(* The types. *)
LEMMA PodTyped ==
  ASSUME TurnTypeOK, NEW p \in Pods,
         \/ StartPod(p) \/ PodStep(p) \/ Crash(p) \/ ExitResumable(p) \/ ExitParked(p)
  PROVE  \E r \in PodRec : pod' = [pod EXCEPT ![p] = r]
<1>1. pod \in [Pods -> PodRec] /\ pod[p] \in PodRec
  BY DEF TurnTypeOK, PodRec
<1>2. stopped \in 0..MaxMsgs /\ marker \in BOOLEAN /\ npass \in 0..MaxPasses /\ npass + 1 \in Nat
  BY DEF TurnTypeOK
<1>3. durable.pass \in 0..MaxPasses /\ stop \in 0..MaxMsgs
  BY DEF TurnTypeOK
<1>4. pod = [pod EXCEPT ![p] = pod[p]]
  BY <1>1
<1>5. \A s \in Steps : [pod[p] EXCEPT !.pc = s] \in PodRec
  BY <1>1 DEF PodRec
<1>6. CASE StartPod(p)
  <2>1. [Fresh EXCEPT !.pc = "recover", !.floor = stopped, !.marked = marker] \in PodRec
    <3>1. 0 \in 0..MaxMsgs /\ 0 \in 0..MaxPasses
      OBVIOUS
    <3> QED
      BY <1>2, <3>1 DEF Fresh, PodRec, Steps
  <2> QED
    BY <1>6, <2>1 DEF StartPod
<1>7. CASE \/ Crash(p) \/ ExitResumable(p) \/ ExitParked(p) \/ RestoreRecover(p)
           \/ RestoreContinue(p) \/ StartupIdle(p) \/ RetireStopped(p) \/ CompleteRetired(p)
           \/ ClearBoundary(p) \/ StopWhileWaiting(p) \/ OpenRun(p) \/ RunIsStopped(p)
           \/ RunFails(p) \/ ClosePass(p) \/ RecordRelease(p)
  <2>1. \E s \in Steps : Goto(p, s) \/ GotoMute(p, s)
    BY <1>7
       DEF Crash, ExitResumable, ExitParked, RestoreRecover, RestoreContinue, IdleOrPoll,
           StartupIdle, RetireStopped, CompleteRetired, ClearBoundary, StopWhileWaiting,
           OpenRun, RunIsStopped, RunFails, ClosePass, RecordRelease, Steps
  <2>2. \A s \in Steps : [pod[p] EXCEPT !.pc = s, !.mute = TRUE] \in PodRec
    BY <1>1 DEF PodRec
  <2> QED
    BY <1>1, <1>5, <2>1, <2>2 DEF GotoMute
<1>8. CASE FoldImmediate(p)
  BY <1>1, <1>4, <1>8 DEF FoldImmediate
<1>9. CASE ClaimNext(p)
  <2>1. PICK m \in Msgs :
          pod' = [pod EXCEPT ![p] = [@ EXCEPT !.pc = "start", !.msg = m, !.claimed = TRUE,
                                              !.first = TRUE, !.loop = FALSE, !.banner = FALSE]]
    BY <1>9 DEF ClaimNext, Waiting
  <2>2. [pod[p] EXCEPT !.pc = "start", !.msg = m, !.claimed = TRUE,
                       !.first = TRUE, !.loop = FALSE, !.banner = FALSE] \in PodRec
    <3>1. m \in 0..MaxMsgs
      OBVIOUS
    <3> QED
      BY <1>1, <3>1 DEF PodRec, Steps
  <2> QED
    BY <1>1, <2>1, <2>2
<1>10. CASE DeferredBanner(p)
  <2>1. [pod[p] EXCEPT !.banner = FALSE] \in PodRec
    BY <1>1 DEF PodRec
  <2> QED
    BY <1>1, <1>10, <2>1 DEF DeferredBanner
<1>11. CASE DrainStops(p)
  <2>1. [pod[p] EXCEPT !.pc = "mark", !.loop = TRUE] \in PodRec
    BY <1>1 DEF PodRec, Steps
  <2> QED
    BY <1>1, <1>5, <1>11, <2>1 DEF DrainStops, Steps
<1>12. CASE Steer(p)
  <2>1. \A m \in Msgs : [pod[p] EXCEPT !.pc = "mark", !.msg = m, !.claimed = TRUE, !.first = TRUE]
                          \in PodRec
    <3>1. \A m \in Msgs : m \in 0..MaxMsgs
      OBVIOUS
    <3> QED
      BY <1>1, <3>1 DEF PodRec, Steps
  <2>2. "mark" \in Steps /\ "settle" \in Steps
    BY DEF Steps
  <2> QED
    BY <1>1, <1>5, <1>12, <2>1, <2>2 DEF Steer, Waiting
<1>13. CASE MarkAutonomous(p)
  <2>1. [pod[p] EXCEPT !.pc = "reserve", !.marked = TRUE] \in PodRec
    BY <1>1 DEF PodRec, Steps
  <2> QED
    BY <1>1, <1>5, <1>13, <2>1 DEF MarkAutonomous, Steps
<1>14. CASE ReservePass(p)
  <2>1. \A q \in 0..MaxPasses : [pod[p] EXCEPT !.pc = "open", !.pass = q] \in PodRec
    BY <1>1 DEF PodRec, Steps
  <2>2. npass < MaxPasses => npass + 1 \in 0..MaxPasses
    BY <1>2
  <2> QED
    BY <1>1, <1>3, <1>14, <2>1, <2>2 DEF ReservePass
<1>15. CASE WatchStop(p)
  <2>1. [pod[p] EXCEPT !.told = TRUE] \in PodRec
    BY <1>1 DEF PodRec
  <2> QED
    BY <1>1, <1>15, <2>1 DEF WatchStop
<1>16. CASE RunCompletes(p)
  <2>1. \A b \in BOOLEAN : [pod[p] EXCEPT !.pc = "commit", !.told = b] \in PodRec
    BY <1>1 DEF PodRec, Steps
  <2>2. (pod[p].told \/ stop # 0) \in BOOLEAN
    BY <1>1 DEF PodRec
  <2>3. pod' = [pod EXCEPT ![p] = [pod[p] EXCEPT !.pc = "commit", !.told = pod[p].told \/ stop # 0]]
    BY <1>16, Zenon DEF RunCompletes
  <2> QED
    BY <2>1, <2>2, <2>3
<1>17. CASE CommitReply(p)
  <2>1. [pod[p] EXCEPT !.pc = "close", !.claimed = FALSE] \in PodRec
    BY <1>1 DEF PodRec, Steps
  <2> QED
    BY <1>1, <1>17, <2>1 DEF CommitReply
<1>18. CASE Decide(p)
  <2>1. [pod[p] EXCEPT !.pc = "steer", !.first = FALSE] \in PodRec
    BY <1>1 DEF PodRec, Steps
  <2>2. "floor" \in Steps /\ "settle" \in Steps
    BY DEF Steps
  <2> QED
    BY <1>1, <1>5, <1>18, <2>1, <2>2 DEF Decide
<1>19. CASE RecordFloor(p)
  <2>1. [pod[p] EXCEPT !.pc = "release", !.floor = pod[p].msg] \in PodRec
    BY <1>1 DEF PodRec, Steps
  <2> QED
    BY <1>1, <1>19, <2>1 DEF RecordFloor
<1>20. CASE Park(p)
  <2>1. \A b \in BOOLEAN, s \in {"settle", "poll"} :
          [pod[p] EXCEPT !.pc = s, !.banner = b, !.told = FALSE] \in PodRec
    BY <1>1 DEF PodRec, Steps
  <2>2. (Waiting(p) # {}) \in BOOLEAN /\ (IF pod[p].loop THEN "settle" ELSE "poll") \in {"settle", "poll"}
    OBVIOUS
  <2> QED
    BY <1>1, <1>20, <2>1, <2>2 DEF Park
<1>21. CASE Settle(p)
  <2>1. [pod[p] EXCEPT !.pc = "poll", !.marked = FALSE] \in PodRec
    BY <1>1 DEF PodRec, Steps
  <2> QED
    BY <1>1, <1>5, <1>21, <2>1 DEF Settle, Steps
<1> QED
  BY <1>6, <1>7, <1>8, <1>9, <1>10, <1>11, <1>12, <1>13, <1>14, <1>15, <1>16, <1>17,
     <1>18, 
     <1>19, <1>20, <1>21 DEF PodStep

(* What a step of a pod does to the variables the store does not keep.     *)
PodKinds(p) ==
  \/ StartPod(p) \/ PodStep(p) \/ Crash(p) \/ ExitResumable(p) \/ ExitParked(p)

LEMMA WorkTyped ==
  ASSUME TurnInv, NEW p \in Pods, PodKinds(p), last' \in 0..MaxMsgs
  PROVE  /\ stopped' \in 0..MaxMsgs /\ marker' \in BOOLEAN /\ npass' \in 0..MaxPasses
         /\ durable' \in [msg : 0..MaxMsgs, pass : 0..MaxPasses]
         /\ runs' \in [Passes -> [msg : 0..MaxMsgs, first : BOOLEAN, done : BOOLEAN]]
         /\ boundary' \in {"none", "idle", "stopped", "asked"}
         /\ stop' \in 0..MaxMsgs
<1> USE DEF PodKinds
<1>1. pod \in [Pods -> PodRec] /\ pod[p] \in PodRec
  BY DEF TurnInv, TurnTypeOK, PodRec
<1>2. /\ pod[p].msg \in 0..MaxMsgs /\ pod[p].first \in BOOLEAN /\ pod[p].marked \in BOOLEAN
      /\ pod[p].pass \in 0..MaxPasses
  BY <1>1 DEF PodRec
<1>3. /\ stopped \in 0..MaxMsgs /\ marker \in BOOLEAN /\ npass \in 0..MaxPasses
      /\ durable \in [msg : 0..MaxMsgs, pass : 0..MaxPasses]
      /\ runs \in [Passes -> [msg : 0..MaxMsgs, first : BOOLEAN, done : BOOLEAN]]
      /\ boundary \in {"none", "idle", "stopped", "asked"}
      /\ stop \in 0..MaxMsgs
  BY DEF TurnInv, TurnTypeOK
<1>4. 0 \in 0..MaxMsgs /\ 0 \in 0..MaxPasses
  OBVIOUS
<1>5. stopped' = stopped \/ stopped' = pod[p].msg
  BY DEF StartPod, Crash, ExitResumable, ExitParked, PodStep, RestoreRecover,
         RestoreContinue, AppendContinuation, StartupIdle, RetireStopped, CompleteRetired,
         ClaimNext, DeferredBanner, ClearBoundary, DrainStops, Steer, MarkAutonomous,
         ReservePass, StopWhileWaiting, OpenRun, FoldImmediate, WatchStop, RunCompletes,
         RunIsStopped, RunFails, CommitReply, ClosePass, Decide, RecordFloor,
         RecordRelease, Park, Settle, Consumed, Lost, workState, bounds, history
<1>6. marker' \in BOOLEAN
  <2>1. marker' = marker \/ marker' = TRUE \/ marker' = (marker /\ ~pod[p].marked)
    BY DEF StartPod, Crash, ExitResumable, ExitParked, PodStep, RestoreRecover,
           RestoreContinue, AppendContinuation, StartupIdle, RetireStopped,
           CompleteRetired, ClaimNext, DeferredBanner, ClearBoundary, DrainStops, Steer,
           MarkAutonomous, ReservePass, StopWhileWaiting, OpenRun, FoldImmediate,
           WatchStop, RunCompletes, RunIsStopped, RunFails, CommitReply, ClosePass,
           Decide, RecordFloor, RecordRelease, Park, Settle, Consumed, Lost, workState,
           bounds, history
  <2> QED
    BY <1>2, <1>3, <2>1
<1>7. \/ npass' = npass /\ (durable' = durable \/ durable' = [msg |-> 0, pass |-> 0])
      \/ /\ npass < MaxPasses /\ npass' = npass + 1
         /\ durable' = [msg |-> pod[p].msg, pass |-> npass + 1]
  BY DEF StartPod, Crash, ExitResumable, ExitParked, PodStep, RestoreRecover,
         RestoreContinue, AppendContinuation, StartupIdle, RetireStopped, CompleteRetired,
         ClaimNext, DeferredBanner, ClearBoundary, DrainStops, Steer, MarkAutonomous,
         ReservePass, StopWhileWaiting, OpenRun, FoldImmediate, WatchStop, RunCompletes,
         RunIsStopped, RunFails, CommitReply, ClosePass, Decide, RecordFloor,
         RecordRelease, Park, Settle, Consumed, Lost, workState, bounds, history
<1>8. runs' \in [Passes -> [msg : 0..MaxMsgs, first : BOOLEAN, done : BOOLEAN]]
  <2>1. \/ runs' = runs
        \/ /\ npass < MaxPasses
           /\ runs' = [runs EXCEPT ![npass + 1] = [@ EXCEPT !.msg = pod[p].msg, !.first = pod[p].first]]
        \/ runs' = [runs EXCEPT ![pod[p].pass].done = TRUE]
    BY DEF StartPod, Crash, ExitResumable, ExitParked, PodStep, RestoreRecover,
           RestoreContinue, AppendContinuation, StartupIdle, RetireStopped,
           CompleteRetired, ClaimNext, DeferredBanner, ClearBoundary, DrainStops, Steer,
           MarkAutonomous, ReservePass, StopWhileWaiting, OpenRun, FoldImmediate,
           WatchStop, RunCompletes, RunIsStopped, RunFails, CommitReply, ClosePass,
           Decide, RecordFloor, RecordRelease, Park, Settle, Consumed, Lost, workState,
           bounds, history
  <2>2. CASE npass < MaxPasses /\ runs' = [runs EXCEPT ![npass + 1] = [@ EXCEPT !.msg = pod[p].msg, !.first = pod[p].first]]
    <3>1. npass + 1 \in Passes
      BY <1>3, <2>2
    <3>2. [runs[npass + 1] EXCEPT !.msg = pod[p].msg, !.first = pod[p].first]
            \in [msg : 0..MaxMsgs, first : BOOLEAN, done : BOOLEAN]
      BY <1>2, <1>3, <3>1
    <3> QED
      BY <1>3, <2>2, <3>1, <3>2
  <2>3. CASE runs' = [runs EXCEPT ![pod[p].pass].done = TRUE]
    <3>1. CASE pod[p].pass \in Passes
      <4>1. [runs[pod[p].pass] EXCEPT !.done = TRUE] \in [msg : 0..MaxMsgs, first : BOOLEAN, done : BOOLEAN]
        BY <1>3, <3>1
      <4> QED
        BY <1>3, <2>3, <3>1, <4>1
    <3>2. CASE pod[p].pass \notin Passes
      BY <1>3, <2>3, <3>2
    <3> QED
      BY <3>1, <3>2
  <2> QED
    BY <1>3, <2>1, <2>2, <2>3
<1>9. boundary' = boundary \/ boundary' \in {"none", "idle", "stopped", "asked"}
  BY DEF StartPod, Crash, ExitResumable, ExitParked, PodStep, RestoreRecover,
         RestoreContinue, AppendContinuation, StartupIdle, RetireStopped, CompleteRetired,
         ClaimNext, DeferredBanner, ClearBoundary, DrainStops, Steer, MarkAutonomous,
         ReservePass, StopWhileWaiting, OpenRun, FoldImmediate, WatchStop, RunCompletes,
         RunIsStopped, RunFails, CommitReply, ClosePass, Decide, RecordFloor,
         RecordRelease, Park, Settle, Consumed, Lost, workState, bounds, history
<1>10. stop' = stop \/ stop' = 0
  BY DEF StartPod, Crash, ExitResumable, ExitParked, PodStep, RestoreRecover,
         RestoreContinue, AppendContinuation, StartupIdle, RetireStopped, CompleteRetired,
         ClaimNext, DeferredBanner, ClearBoundary, DrainStops, Steer, MarkAutonomous,
         ReservePass, StopWhileWaiting, OpenRun, FoldImmediate, WatchStop, RunCompletes,
         RunIsStopped, RunFails, CommitReply, ClosePass, Decide, RecordFloor,
         RecordRelease, Park, Settle, Consumed, Lost, workState, bounds, history
<1>11. npass' \in 0..MaxPasses /\ durable' \in [msg : 0..MaxMsgs, pass : 0..MaxPasses]
  <2>1. CASE npass' = npass /\ (durable' = durable \/ durable' = [msg |-> 0, pass |-> 0])
    BY <1>3, <1>4, <2>1
  <2>2. CASE npass < MaxPasses /\ npass' = npass + 1 /\ durable' = [msg |-> pod[p].msg, pass |-> npass + 1]
    <3>1. npass + 1 \in 0..MaxPasses
      BY <1>3, <2>2
    <3> QED
      BY <1>2, <2>2, <3>1
  <2> QED
    BY <1>7, <2>1, <2>2
<1> QED
  BY <1>2, <1>3, <1>4, <1>5, <1>6, <1>8, <1>9, <1>10, <1>11

LEMMA SetsTyped ==
  ASSUME TurnInv, NEW p \in Pods, PodKinds(p), last' \in 0..MaxMsgs
  PROVE  /\ replies' \subseteq Passes /\ bound' \subseteq Msgs
         /\ conts' \subseteq Msgs /\ told' \subseteq Pods \X Msgs /\ recorded' \subseteq Msgs
<1> USE DEF PodKinds
<1>1. /\ replies \subseteq Passes /\ bound \subseteq Msgs
      /\ conts \subseteq Msgs /\ told \subseteq Pods \X Msgs /\ recorded \subseteq Msgs
  BY DEF TurnInv, TurnTypeOK
<1>2. pod[p].pc \in Hand => pod[p].msg \in Msgs
  BY DEF TurnInv, PodInv, HandAt
<1>3. bound' = bound
  BY DEF StartPod, Crash, ExitResumable, ExitParked, PodStep, RestoreRecover,
         RestoreContinue, AppendContinuation, StartupIdle, RetireStopped, CompleteRetired,
         ClaimNext, DeferredBanner, ClearBoundary, DrainStops, Steer, MarkAutonomous,
         ReservePass, StopWhileWaiting, OpenRun, FoldImmediate, WatchStop, RunCompletes,
         RunIsStopped, RunFails, CommitReply, ClosePass, Decide, RecordFloor,
         RecordRelease, Park, Settle, Consumed, Lost, workState, bounds, history
<1>4. replies' \subseteq Passes
  <2>1. replies' = replies \/ (pod[p].pc = "commit" /\ replies' = replies \cup {pod[p].pass})
    BY DEF StartPod, Crash, ExitResumable, ExitParked, PodStep, RestoreRecover,
           RestoreContinue, AppendContinuation, StartupIdle, RetireStopped,
           CompleteRetired, ClaimNext, DeferredBanner, ClearBoundary, DrainStops, Steer,
           MarkAutonomous, ReservePass, StopWhileWaiting, OpenRun, FoldImmediate,
           WatchStop, RunCompletes, RunIsStopped, RunFails, CommitReply, ClosePass,
           Decide, RecordFloor, RecordRelease, Park, Settle, Consumed, Lost, workState,
           bounds, history
  <2>2. pod[p].pc = "commit" => pod[p].pass \in Passes
    BY <1>2 DEF TurnInv, PodInv, PassAt, LoopInv, DurableInv, Opened, Hand, TurnTypeOK
  <2> QED
    BY <1>1, <2>1, <2>2
<1>5. conts' \subseteq Msgs
  <2>1. conts' = conts \/ (conts' = conts \cup {last + 1} /\ last' = last + 1)
    BY DEF StartPod, Crash, ExitResumable, ExitParked, PodStep, RestoreRecover,
           RestoreContinue, AppendContinuation, StartupIdle, RetireStopped,
           CompleteRetired, ClaimNext, DeferredBanner, ClearBoundary, DrainStops, Steer,
           MarkAutonomous, ReservePass, StopWhileWaiting, OpenRun, FoldImmediate,
           WatchStop, RunCompletes, RunIsStopped, RunFails, CommitReply, ClosePass,
           Decide, RecordFloor, RecordRelease, Park, Settle, Consumed, Lost, workState,
           bounds, history, AppendMessage, InsertRow
  <2>2. last' = last + 1 => last + 1 \in Msgs
    BY DEF TurnInv, TurnTypeOK, SessionTypeOK
  <2> QED
    BY <1>1, <2>1, <2>2
<1>6. told' \subseteq Pods \X Msgs
  <2>1. told' = told \/ (pod[p].pc \in Hand /\ told' = told \cup {<<p, pod[p].msg>>})
    BY DEF StartPod, Crash, ExitResumable, ExitParked, PodStep, RestoreRecover,
           RestoreContinue, AppendContinuation, StartupIdle, RetireStopped,
           CompleteRetired, ClaimNext, DeferredBanner, ClearBoundary, DrainStops, Steer,
           MarkAutonomous, ReservePass, StopWhileWaiting, OpenRun, FoldImmediate,
           WatchStop, RunCompletes, RunIsStopped, RunFails, CommitReply, ClosePass,
           Decide, RecordFloor, RecordRelease, Park, Settle, Consumed, Lost, workState,
           bounds, history, Hand, InTurn
  <2> QED
    BY <1>1, <1>2, <2>1
<1>7. recorded' \subseteq Msgs
  <2>1. recorded' \subseteq recorded \/ (pod[p].pc \in Hand /\ recorded' \subseteq recorded \cup {pod[p].msg})
    BY DEF StartPod, Crash, ExitResumable, ExitParked, PodStep, RestoreRecover,
           RestoreContinue, AppendContinuation, StartupIdle, RetireStopped,
           CompleteRetired, ClaimNext, DeferredBanner, ClearBoundary, DrainStops, Steer,
           MarkAutonomous, ReservePass, StopWhileWaiting, OpenRun, FoldImmediate,
           WatchStop, RunCompletes, RunIsStopped, RunFails, CommitReply, ClosePass,
           Decide, RecordFloor, RecordRelease, Park, Settle, Consumed, Lost, workState,
           bounds, history, Hand
  <2> QED
    BY <1>1, <1>2, <2>1
<1> QED
  BY <1>1, <1>3, <1>4, <1>5, <1>6, <1>7

LEMMA TurnTypes == TurnInv /\ [TurnNext]_turnVars => TurnTypeOK'
<1> SUFFICES ASSUME TurnInv, [TurnNext]_turnVars PROVE TurnTypeOK'
  OBVIOUS
<1>1. SessionTypeOK' /\ last' \in 0..MaxMsgs
  BY StoreStep, SessionNextInv DEF TurnInv, SessionInv, SessionTypeOK
<1>2. TurnTypeOK
  BY DEF TurnInv
<1>3. CASE UNCHANGED turnVars
  BY <1>1, <1>2, <1>3 DEF TurnTypeOK, turnVars, loopVars
<1>4. ASSUME NEW p \in Pods, PodKinds(p) PROVE TurnTypeOK'
  <2>1. pod' \in [Pods -> PodRec]
    <3>1. PICK r \in PodRec : pod' = [pod EXCEPT ![p] = r]
      BY <1>2, <1>4, PodTyped DEF PodKinds
    <3>2. pod \in [Pods -> PodRec]
      BY <1>2 DEF TurnTypeOK, PodRec
    <3> QED
      BY <3>1, <3>2
  <2> QED
    BY <1>1, <1>4, <2>1, WorkTyped, SetsTyped DEF TurnTypeOK, PodRec
<1>5. CASE UserSend
  <2>1. last + 1 \in Msgs
    BY <1>1, <1>2, <1>5
       DEF UserSend, AppendUserMessageIfActive, AppendMessage, InsertRow, TurnTypeOK,
           SessionTypeOK
  <2>2. bound' \subseteq Msgs /\ boundary' = "none"
    BY <1>2, <1>5, <2>1 DEF UserSend, TurnTypeOK
  <2> QED
    BY <1>1, <1>2, <1>5, <2>2 DEF UserSend, workState, history, TurnTypeOK
<1>6. CASE UserStop
  <2>1. stop' \in 0..MaxMsgs
    BY <1>2, <1>6 DEF UserStop, TurnTypeOK, SessionTypeOK
  <2> QED
    BY <1>1, <1>2, <1>6, <2>1 DEF UserStop, workState, history, TurnTypeOK
<1>7. CASE UserWithdraws
  BY <1>1, <1>2, <1>7 DEF UserWithdraws, loopVars, TurnTypeOK
<1> QED
  BY <1>3, <1>4, <1>5, <1>6, <1>7 DEF TurnNext, PodKinds

-----------------------------------------------------------------------------
(* One pod at a time. *)
LEMMA Alone ==
  ASSUME TurnInv, NEW p \in Pods, pod[p].pc \in Up, NEW q \in Pods, q # p
  PROVE  pod[q].pc \in Gone \cup {"off"}
BY DEF TurnInv, OnePod, Up

LEMMA IdlePods ==
  ASSUME NEW q \in Pods, pod'[q].pc \in Gone \cup {"off"}
  PROVE  PodInv(q)'
BY DEF PodInv, HandAt, PassAt, StopAt, Hand, InTurn, Opened, Before, Up, Gone

(* Only the pod that moves changes, and it was up or is started.           *)
LEMMA OnlyMover ==
  ASSUME TurnInv, NEW p \in Pods, PodKinds(p)
  PROVE  /\ \A q \in Pods \ {p} : pod'[q] = pod[q]
         /\ pod[p].pc \in Up \/ StartPod(p)
<1>1. pod \in [Pods -> PodRec]
  BY DEF TurnInv, TurnTypeOK, PodRec
<1>2. \A q \in Pods \ {p} : pod'[q] = pod[q]
  <2>1. PICK r \in PodRec : pod' = [pod EXCEPT ![p] = r]
    BY PodTyped DEF TurnInv, PodKinds
  <2> QED
    BY <1>1, <2>1
<1>3. pod[p].pc \in Up \/ StartPod(p)
  <2>1. CASE \/ Crash(p) \/ ExitResumable(p) \/ ExitParked(p)
    BY <2>1 DEF Crash, ExitResumable, ExitParked, Up, InTurn, Gone, Steps
  <2>2. CASE PodStep(p)
    BY <2>2
       DEF PodStep, RestoreRecover, RestoreContinue, StartupIdle, RetireStopped,
           CompleteRetired, ClaimNext, DeferredBanner, ClearBoundary, DrainStops, Steer,
           MarkAutonomous, ReservePass, StopWhileWaiting, OpenRun, FoldImmediate,
           WatchStop, RunCompletes, RunIsStopped, RunFails, CommitReply, ClosePass,
           Decide, RecordFloor, RecordRelease, Park, Settle, Up, Gone, Steps
  <2> QED
    BY <2>1, <2>2 DEF PodKinds
<1> QED
  BY <1>2, <1>3

LEMMA OnePodStep == TurnInv /\ [TurnNext]_turnVars => OnePod'
<1> SUFFICES ASSUME TurnInv, [TurnNext]_turnVars PROVE OnePod'
  OBVIOUS
<1>1. CASE UNCHANGED turnVars \/ UserSend \/ UserStop \/ UserWithdraws
  <2>1. pod' = pod
    BY <1>1 DEF turnVars, loopVars, UserSend, UserStop, UserWithdraws
  <2> QED
    BY <2>1 DEF TurnInv, OnePod
<1>2. ASSUME NEW p \in Pods, PodKinds(p) PROVE OnePod'
  <2>1. \A q \in Pods \ {p} : pod'[q] = pod[q]
    BY <1>2, OnlyMover
  <2>2. CASE pod[p].pc \in Up
    <3>1. \A q \in Pods : q < p => pod[q].pc \in Gone
      BY <2>2 DEF TurnInv, OnePod, Up
    <3>2. \A q \in Pods : p < q => pod[q].pc = "off"
      BY <2>2 DEF TurnInv, OnePod, Up
    <3> QED
      BY <2>1, <3>1, <3>2 DEF TurnInv, OnePod
  <2>3. CASE StartPod(p)
    <3>1. pod[p].pc = "off" /\ \A q \in 1..(p - 1) : pod[q].pc \in Gone
      BY <2>3 DEF StartPod
    <3>2. \A q \in Pods : p < q => pod[q].pc = "off"
      BY <3>1 DEF TurnInv, OnePod, Gone
    <3> QED
      BY <2>1, <3>1, <3>2 DEF TurnInv, OnePod
  <2> QED
    BY <1>2, <2>2, <2>3, OnlyMover
<1> QED
  BY <1>1, <1>2 DEF TurnNext, PodKinds

LEMMA NoHoldsStep == TurnInv /\ [TurnNext]_turnVars => NoHolds'
<1> SUFFICES ASSUME TurnInv, [TurnNext]_turnVars PROVE NoHolds'
  OBVIOUS
<1>1. held' = held \/ held' = [held EXCEPT ![last + 1] = FALSE]
  <2>1. CASE UNCHANGED turnVars \/ UserSend \/ UserStop \/ UserWithdraws
    BY <2>1
       DEF turnVars, sessionVars, UserSend, UserStop, UserWithdraws,
           AppendUserMessageIfActive, AppendMessage, InsertRow,
           CancelUndeliveredUserMessage
  <2>2. ASSUME NEW p \in Pods, PodKinds(p) PROVE held' = held \/ held' = [held EXCEPT ![last + 1] = FALSE]
    BY <2>2
       DEF StartPod, Crash, ExitResumable, ExitParked, PodStep, RestoreRecover,
           RestoreContinue, AppendContinuation, StartupIdle, RetireStopped,
           CompleteRetired, ClaimNext, DeferredBanner, ClearBoundary, DrainStops, Steer,
           MarkAutonomous, ReservePass, StopWhileWaiting, OpenRun, FoldImmediate,
           WatchStop, RunCompletes, RunIsStopped, RunFails, CommitReply, ClosePass,
           Decide, RecordFloor, RecordRelease, Park, Settle, Consumed, Lost, workState,
           bounds, history, PodKinds, sessionVars, AppendMessage, InsertRow,
           RecoverClaimedUserMessages, ClaimUserMessage, CompleteClaims, UpdatePhase,
           rowVars
  <2> QED
    BY <2>1, <2>2 DEF TurnNext, PodKinds
<1>2. held \in [Msgs -> BOOLEAN]
  BY DEF TurnInv, TurnTypeOK, SessionTypeOK
<1> QED
  BY <1>1, <1>2 DEF TurnInv, NoHolds

-----------------------------------------------------------------------------
(* Steps that leave what pods hold alone: rows are inserted or withdrawn   *)
(* from the queue, and a pod goes on to a step that asks no more of it.    *)
RowsKept ==
  /\ last' \in Nat /\ last <= last'
  /\ \A m \in Msgs : delivery[m] \in {"claimed", "completed", "cancelled"} =>
                       delivery'[m] = delivery[m] /\ token'[m] = token[m]
  /\ \A m \in Msgs : delivery[m] = "pending" => delivery'[m] \in {"pending", "cancelled"}

PassesKept ==
  /\ UNCHANGED <<stopped, durable, npass, replies, recorded>>
  /\ \A q \in Passes : runs'[q].msg = runs[q].msg /\ runs'[q].first = runs[q].first

Onward(p) ==
  /\ pod'[p].msg = pod[p].msg /\ pod'[p].pass = pod[p].pass /\ pod'[p].floor = pod[p].floor
  /\ pod'[p].claimed = pod[p].claimed /\ (pod'[p].first => pod[p].first)
  /\ pod'[p].pc = "recover" => pod[p].pc = "recover"
  /\ pod'[p].pc \in Hand => pod[p].pc \in Hand
  /\ pod'[p].pc \in Hand \ {"release"} => pod[p].pc \in Hand \ {"release"}
  /\ pod'[p].pc \in Opened => pod[p].pc \in Opened
  /\ pod'[p].pc \in Opened \ {"close"} => pod[p].pc \in Opened \ {"close"}
  /\ pod'[p].pc \in {"start", "drain"} => pod[p].pc \in {"start", "drain"}
  /\ pod'[p].pc \in Before => pod[p].pc \in Before \cup {"start", "drain"}
  /\ pod'[p].pc \in {"steer", "mark", "reserve"} /\ pod'[p].first =>
       pod[p].pc \in {"steer", "mark", "reserve", "start", "drain"}

LEMMA StoppedIsRow ==
  ASSUME TurnInv
  PROVE  stopped # 0 => stopped \in Msgs /\ delivery[stopped] # "absent"
BY DEF TurnInv, TurnTypeOK, SessionTypeOK, SessionInv, RowsAllocated, LoopInv, RecordInv

LEMMA LoopKept ==
  ASSUME TurnInv, RowsKept, PassesKept
  PROVE  LoopInv'
<1>1. /\ durable \in [msg : 0..MaxMsgs, pass : 0..MaxPasses] /\ npass \in 0..MaxPasses
      /\ replies \subseteq Passes /\ recorded \subseteq Msgs
      /\ \A q \in Passes : runs[q].msg \in 0..MaxMsgs
      /\ stopped \in Nat /\ last \in Nat
  BY DEF TurnInv, TurnTypeOK, SessionTypeOK
<1>2. DurableInv /\ ReplyInv /\ FirstReplyOnce /\ RecordInv
  BY DEF TurnInv, LoopInv
<1>3. DurableInv'
  BY <1>1, <1>2 DEF DurableInv, PassesKept
<1>4. ReplyInv'
  <2> SUFFICES ASSUME NEW q \in replies
               PROVE  /\ q <= npass /\ runs'[q].msg # 0
                      /\ runs'[q].first => delivery'[runs'[q].msg] = "completed"
    BY DEF ReplyInv, PassesKept
  <2>1. q \in Passes /\ runs[q].msg \in Msgs
    BY <1>1, <1>2 DEF ReplyInv
  <2> QED
    BY <1>2, <2>1 DEF ReplyInv, RowsKept, PassesKept
<1>5. FirstReplyOnce'
  BY <1>1, <1>2 DEF FirstReplyOnce, PassesKept
<1>6. RecordInv'
  BY <1>1, <1>2 DEF RecordInv, RowsKept, PassesKept
<1> QED
  BY <1>3, <1>4, <1>5, <1>6 DEF LoopInv

LEMMA PodKept ==
  ASSUME TurnInv, RowsKept, PassesKept, NEW p \in Pods, pod[p].pc \in Up, Onward(p)
  PROVE  PodInv(p)'
<1>1. PodInv(p)
  BY DEF TurnInv
<1>2. HandAt(p)'
  BY <1>1 DEF PodInv, HandAt, Onward, Owned, RowsKept
<1>3. PassAt(p)'
  <2>1. pod[p].pc \in Opened => pod[p].pass \in Passes
    BY <1>1
       DEF PodInv, PassAt, HandAt, Opened, Hand, InTurn, TurnInv, LoopInv, DurableInv,
           TurnTypeOK
  <2> QED
    BY <1>1, <2>1 DEF PodInv, PassAt, Onward, PassesKept, Opened, Before
<1>4. StopAt(p)'
  <2>1. stopped # 0 /\ delivery'[stopped] = "pending" => delivery[stopped] = "pending"
    BY StoppedIsRow DEF RowsKept, TurnInv, TurnTypeOK, SessionTypeOK
  <2> QED
    BY <1>1, <2>1 DEF PodInv, StopAt, Onward, PassesKept
<1> QED
  BY <1>2, <1>3, <1>4 DEF PodInv

(* The rows do not move, or one is inserted, or one is withdrawn.          *)
LEMMA RowsStay == ASSUME TurnInv, UNCHANGED sessionVars PROVE RowsKept
BY DEF RowsKept, sessionVars, TurnInv, TurnTypeOK, SessionTypeOK

LEMMA RowsGrow == ASSUME TurnInv, AppendMessage PROVE RowsKept
<1>1. last \in Nat /\ delivery \in [Msgs -> States] /\ delivery[last + 1] = "absent"
  BY DEF TurnInv, TurnTypeOK, SessionTypeOK, SessionInv, RowsAllocated, AppendMessage,
         InsertRow
<1> QED
  BY <1>1 DEF RowsKept, AppendMessage, InsertRow

LEMMA RowsLeave ==
  ASSUME TurnInv, NEW m \in Msgs, CancelUndeliveredUserMessage(m)
  PROVE  RowsKept
<1>1. last \in Nat /\ delivery \in [Msgs -> States]
  BY DEF TurnInv, TurnTypeOK, SessionTypeOK
<1> QED
  BY <1>1 DEF RowsKept, CancelUndeliveredUserMessage

LEMMA UserStep ==
  ASSUME TurnInv, UNCHANGED turnVars \/ UserSend \/ UserStop \/ UserWithdraws
  PROVE  LoopInv' /\ \A p \in Pods : PodInv(p)'
<1>1. RowsKept
  <2>1. CASE UNCHANGED turnVars \/ UserStop
    BY <2>1, RowsStay DEF turnVars, UserStop
  <2>2. CASE UserSend
    BY <2>2, RowsGrow DEF UserSend, AppendUserMessageIfActive
  <2>3. CASE UserWithdraws
    BY <2>3, RowsLeave DEF UserWithdraws
  <2> QED
    BY <2>1, <2>2, <2>3
<1>2. PassesKept /\ pod' = pod
  BY DEF PassesKept, turnVars, loopVars, workState, history, UserSend, UserStop,
         UserWithdraws
<1>3. ASSUME NEW p \in Pods PROVE PodInv(p)'
  <2>1. CASE pod[p].pc \in Up
    <3>1. Onward(p)
      BY <1>2 DEF Onward, Before, Opened
    <3> QED
      BY <1>1, <1>2, <2>1, <3>1, PodKept
  <2>2. CASE pod[p].pc \notin Up
    <3>1. pod'[p].pc \in Gone \cup {"off"}
      BY <1>2, <2>2 DEF Up, TurnInv, TurnTypeOK
    <3> QED
      BY <3>1, IdlePods
  <2> QED
    BY <2>1, <2>2
<1> QED
  BY <1>1, <1>2, <1>3, LoopKept

(* The steps of a pod that are of this kind. *)
Quiet(p) ==
  \/ RestoreContinue(p) \/ StartupIdle(p) \/ DeferredBanner(p) \/ ClearBoundary(p)
  \/ DrainStops(p) \/ MarkAutonomous(p) \/ StopWhileWaiting(p) \/ OpenRun(p) \/ WatchStop(p)
  \/ RunCompletes(p) \/ RunIsStopped(p) \/ RunFails(p) \/ Decide(p) \/ Park(p) \/ Settle(p)
  \/ Crash(p) \/ ExitResumable(p) \/ ExitParked(p)

SameHands(p) ==
  /\ pod'[p].msg = pod[p].msg /\ pod'[p].pass = pod[p].pass /\ pod'[p].floor = pod[p].floor
  /\ pod'[p].claimed = pod[p].claimed /\ (pod'[p].first => pod[p].first)

Moves(from, to, first) ==
  \/ from \in {"resume", "quiet"} /\ to \in {"quiet", "poll"}
  \/ from = "poll" /\ to = "poll"
  \/ from = "start" /\ to = "drain"
  \/ from = "drain" /\ to \in {"floor", "mark"}
  \/ from = "steer" /\ to \in {"mark", "settle"}
  \/ from = "mark" /\ to = "reserve"
  \/ from = "open" /\ to \in {"floor", "run"}
  \/ from = "run" /\ to \in {"run", "commit", "floor", "settle"}
  \/ from = "decide" /\ to \in {"floor", "settle"}
  \/ from = "decide" /\ to = "steer" /\ ~first
  \/ from = "release" /\ to = "park"
  \/ from \in {"park", "settle"} /\ to \in {"settle", "poll"}
  \/ from \in Up /\ to \in Gone

(* A pod that only goes on to another step. *)
LEMMA GotoMoves ==
  ASSUME TurnInv, NEW p \in Pods, NEW s \in Steps, Goto(p, s) \/ GotoMute(p, s),
         Moves(pod[p].pc, s, TRUE)
  PROVE  SameHands(p) /\ Moves(pod[p].pc, pod'[p].pc, pod'[p].first)
<1>1. pod \in [Pods -> PodRec] /\ pod[p] \in PodRec
  BY DEF TurnInv, TurnTypeOK, PodRec
<1>2. pod'[p] = [pod[p] EXCEPT !.pc = s] \/ pod'[p] = [pod[p] EXCEPT !.pc = s, !.mute = TRUE]
  BY <1>1 DEF GotoMute
<1>3. SameHands(p) /\ pod'[p].pc = s
  BY <1>1, <1>2 DEF SameHands, PodRec
<1> QED
  BY <1>3 DEF Moves

LEMMA QuietMoves ==
  ASSUME TurnInv, NEW p \in Pods, Quiet(p)
  PROVE  SameHands(p) /\ Moves(pod[p].pc, pod'[p].pc, pod'[p].first)
<1> HIDE DEF Goto
<1>1. pod \in [Pods -> PodRec] /\ pod[p] \in PodRec
  BY DEF TurnInv, TurnTypeOK, PodRec
<1>2. CASE \/ RestoreContinue(p) \/ StartupIdle(p) \/ ClearBoundary(p) \/ StopWhileWaiting(p)
           \/ OpenRun(p) \/ RunIsStopped(p) \/ RunFails(p)
  <2>1. \E s \in Steps : (Goto(p, s) \/ GotoMute(p, s)) /\ Moves(pod[p].pc, s, TRUE)
    BY <1>2 DEF RestoreContinue, IdleOrPoll, StartupIdle, ClearBoundary, StopWhileWaiting,
       OpenRun, RunIsStopped, RunFails, Moves, Steps
  <2> QED
    BY <2>1, GotoMoves
<1>3. CASE Crash(p) \/ ExitResumable(p) \/ ExitParked(p)
  <2>1. \E s \in Steps : (Goto(p, s) \/ GotoMute(p, s)) /\ Moves(pod[p].pc, s, TRUE)
    BY <1>3 DEF Crash, ExitResumable, ExitParked, Moves, InTurn, Up, Gone, Steps
  <2> QED
    BY <2>1, GotoMoves
<1>4. CASE DeferredBanner(p)
  <2>1. pod[p].pc = "poll" /\ pod'[p] = [pod[p] EXCEPT !.banner = FALSE]
    BY <1>1, <1>4 DEF DeferredBanner
  <2> QED
    BY <1>1, <2>1 DEF PodRec, SameHands, Moves
<1>5. CASE DrainStops(p)
  <2>1. pod[p].pc = "drain" /\ (Goto(p, "floor") \/ pod'[p] = [pod[p] EXCEPT !.pc = "mark", !.loop = TRUE])
    BY <1>1, <1>5 DEF DrainStops
  <2>2. CASE Goto(p, "floor")
    BY <2>1, <2>2, GotoMoves DEF Moves, Steps
  <2>3. CASE pod'[p] = [pod[p] EXCEPT !.pc = "mark", !.loop = TRUE]
    BY <1>1, <2>1, <2>3 DEF PodRec, SameHands, Moves
  <2> QED
    BY <2>1, <2>2, <2>3
<1>6. CASE MarkAutonomous(p)
  <2>1. pod[p].pc = "mark" /\ (Goto(p, "reserve") \/ pod'[p] = [pod[p] EXCEPT !.pc = "reserve", !.marked = TRUE])
    BY <1>1, <1>6 DEF MarkAutonomous
  <2>2. CASE Goto(p, "reserve")
    BY <2>1, <2>2, GotoMoves DEF Moves, Steps
  <2>3. CASE pod'[p] = [pod[p] EXCEPT !.pc = "reserve", !.marked = TRUE]
    BY <1>1, <2>1, <2>3 DEF PodRec, SameHands, Moves
  <2> QED
    BY <2>1, <2>2, <2>3
<1>7. CASE WatchStop(p)
  <2>1. pod[p].pc = "run" /\ pod'[p] = [pod[p] EXCEPT !.told = TRUE]
    BY <1>1, <1>7 DEF WatchStop
  <2> QED
    BY <1>1, <2>1 DEF PodRec, SameHands, Moves
<1>8. CASE RunCompletes(p)
  <2>1. pod[p].pc = "run" /\ pod'[p] = [pod[p] EXCEPT !.pc = "commit", !.told = pod[p].told \/ stop # 0]
    BY <1>1, <1>8 DEF RunCompletes
  <2> QED
    BY <1>1, <2>1 DEF PodRec, SameHands, Moves
<1>9. CASE Decide(p)
  <2>1. /\ pod[p].pc = "decide"
        /\ \/ Goto(p, "floor") \/ Goto(p, "settle")
           \/ pod'[p] = [pod[p] EXCEPT !.pc = "steer", !.first = FALSE]
    BY <1>1, <1>9 DEF Decide
  <2>2. CASE Goto(p, "floor") \/ Goto(p, "settle")
    BY <2>1, <2>2, GotoMoves DEF Moves, Steps
  <2>3. CASE pod'[p] = [pod[p] EXCEPT !.pc = "steer", !.first = FALSE]
    BY <1>1, <2>1, <2>3 DEF PodRec, SameHands, Moves
  <2> QED
    BY <2>1, <2>2, <2>3
<1>10. CASE Park(p)
  <2>1. /\ pod[p].pc = "park"
        /\ \E s \in {"settle", "poll"}, b \in BOOLEAN :
             pod'[p] = [pod[p] EXCEPT !.pc = s, !.banner = b, !.told = FALSE]
    BY <1>1, <1>10 DEF Park
  <2> QED
    BY <1>1, <2>1 DEF PodRec, SameHands, Moves
<1>11. CASE Settle(p)
  <2>1. /\ pod[p].pc = "settle"
        /\ Goto(p, "poll") \/ pod'[p] = [pod[p] EXCEPT !.pc = "poll", !.marked = FALSE]
    BY <1>1, <1>11 DEF Settle
  <2>2. CASE Goto(p, "poll")
    BY <2>1, <2>2, GotoMoves DEF Moves, Steps
  <2>3. CASE pod'[p] = [pod[p] EXCEPT !.pc = "poll", !.marked = FALSE]
    BY <1>1, <2>1, <2>3 DEF PodRec, SameHands, Moves
  <2> QED
    BY <2>1, <2>2, <2>3
<1> QED
  BY <1>2, <1>3, <1>4, <1>5, <1>6, <1>7, <1>8, <1>9, <1>10, <1>11 DEF Quiet

LEMMA QuietStep ==
  ASSUME TurnInv, NEW p \in Pods, Quiet(p)
  PROVE  LoopInv' /\ PodInv(p)'
<1>1. pod \in [Pods -> PodRec] /\ runs \in [Passes -> [msg : 0..MaxMsgs, first : BOOLEAN, done : BOOLEAN]]
  BY DEF TurnInv, TurnTypeOK, PodRec
<1>2. RowsKept
  <2>1. AppendMessage \/ UNCHANGED sessionVars
    BY DEF Quiet, RestoreContinue, AppendContinuation, StartupIdle, DeferredBanner,
           ClearBoundary, DrainStops, MarkAutonomous, StopWhileWaiting, OpenRun,
           WatchStop, RunCompletes, RunIsStopped, RunFails, Decide, Park, Settle, Crash,
           ExitResumable, ExitParked
  <2> QED
    BY <2>1, RowsStay, RowsGrow
<1>3. PassesKept
  <2>1. runs' = runs \/ runs' = [runs EXCEPT ![pod[p].pass].done = TRUE]
    BY DEF Quiet, RestoreContinue, StartupIdle, DeferredBanner, ClearBoundary, DrainStops,
           MarkAutonomous, StopWhileWaiting, OpenRun, WatchStop, RunCompletes,
           RunIsStopped, RunFails, Decide, Park, Settle, Crash, ExitResumable, ExitParked
  <2>2. ASSUME NEW q \in Passes PROVE runs'[q].msg = runs[q].msg /\ runs'[q].first = runs[q].first
    <3>1. runs[q] \in [msg : 0..MaxMsgs, first : BOOLEAN, done : BOOLEAN]
      BY <1>1
    <3>2. runs'[q] = runs[q] \/ runs'[q] = [runs[q] EXCEPT !.done = TRUE]
      BY <1>1, <2>1
    <3> QED
      BY <3>1, <3>2
  <2>3. UNCHANGED <<stopped, durable, npass, replies, recorded>>
    BY DEF Quiet, RestoreContinue, StartupIdle, DeferredBanner, ClearBoundary, DrainStops,
           MarkAutonomous, StopWhileWaiting, OpenRun, WatchStop, RunCompletes,
           RunIsStopped, RunFails, Decide, Park, Settle, Crash, ExitResumable, ExitParked,
           workState, history
  <2> QED
    BY <2>2, <2>3 DEF PassesKept
<1>4. Onward(p) /\ pod[p].pc \in Up
  <2>1. SameHands(p) /\ Moves(pod[p].pc, pod'[p].pc, pod'[p].first)
    BY QuietMoves
  <2>2. Onward(p)
    BY <2>1 DEF SameHands, Moves, Onward, Hand, InTurn, Opened, Before, Gone
  <2>3. pod[p].pc \in Up
    BY <2>1 DEF Moves, Up, Gone, Steps
  <2> QED
    BY <2>2, <2>3
<1> QED
  BY <1>2, <1>3, <1>4, LoopKept, PodKept

-----------------------------------------------------------------------------
(* Starting a pod, and the sweep that hands its predecessors' rows back.   *)
LEMMA StartStep ==
  ASSUME TurnInv, NEW p \in Pods, StartPod(p)
  PROVE  LoopInv' /\ PodInv(p)'
<1>1. pod \in [Pods -> PodRec]
  BY DEF TurnInv, TurnTypeOK, PodRec
<1>2. RowsKept /\ PassesKept
  BY RowsStay DEF StartPod, PassesKept, workState, history
<1>3. pod'[p].pc = "recover" /\ pod'[p].floor = stopped /\ stopped' = stopped
  BY <1>1 DEF StartPod, Fresh, workState
<1>4. PodInv(p)'
  BY <1>3 DEF PodInv, HandAt, PassAt, StopAt, Hand, InTurn, Opened, Before
<1> QED
  BY <1>2, <1>4, LoopKept

LEMMA RecoverLoop ==
  ASSUME TurnInv, NEW p \in Pods, RestoreRecover(p)
  PROVE  LoopInv' /\ PodInv(p)'
<1>1. pod \in [Pods -> PodRec] /\ pod[p] \in PodRec
  BY DEF TurnInv, TurnTypeOK, PodRec
<1>2. /\ pod[p].pc = "recover" /\ pod'[p] = [pod[p] EXCEPT !.pc = "resume"]
      /\ UNCHANGED <<stopped, durable, npass, runs, replies, recorded, last>>
  BY <1>1 DEF RestoreRecover, workState, history, RecoverClaimedUserMessages
<1>3. \A m \in Msgs : delivery[m] # "claimed" => delivery'[m] = delivery[m]
  BY DEF RestoreRecover, RecoverClaimedUserMessages, Stolen
<1>4. PodInv(p)'
  <2>1. pod'[p].pc = "resume" /\ pod'[p].floor = stopped
    BY <1>1, <1>2 DEF TurnInv, PodInv, StopAt, PodRec
  <2> QED
    BY <1>2, <2>1 DEF PodInv, HandAt, PassAt, StopAt, Hand, InTurn, Opened, Before
<1>5. LoopInv'
  <2>1. DurableInv' /\ FirstReplyOnce'
    BY <1>2 DEF TurnInv, LoopInv, DurableInv, FirstReplyOnce
  <2>2. ReplyInv'
    <3>1. \A q \in replies : runs[q].msg \in 0..MaxMsgs
      BY DEF TurnInv, TurnTypeOK
    <3> QED
      BY <1>2, <1>3, <3>1 DEF TurnInv, LoopInv, ReplyInv
  <2>3. RecordInv'
    BY <1>2, <1>3 DEF TurnInv, LoopInv, RecordInv, TurnTypeOK
  <2> QED
    BY <2>1, <2>2, <2>3 DEF LoopInv
<1> QED
  BY <1>4, <1>5

-----------------------------------------------------------------------------
(* Claims.  Only a waiting row is claimed, and nothing is held.            *)
LEMMA ClaimMoves ==
  ASSUME TurnInv, NEW p \in Pods, NEW m \in Msgs, delivery[m] = "pending", ClaimUserMessage(p, m)
  PROVE  /\ delivery'[m] = "claimed" /\ token'[m] = p /\ m \in Owned(p)' /\ last' = last
         /\ \A n \in Msgs \ {m} : delivery'[n] = delivery[n] /\ token'[n] = token[n]
BY DEF ClaimUserMessage, Owned, TurnInv, TurnTypeOK, SessionTypeOK

LEMMA ClaimLoop ==
  ASSUME TurnInv, NEW p \in Pods, NEW m \in Msgs, delivery[m] = "pending", ClaimUserMessage(p, m),
         UNCHANGED <<stopped, durable, npass, runs, replies, recorded>>
  PROVE  LoopInv'
<1>1. DurableInv' /\ FirstReplyOnce'
  BY DEF TurnInv, LoopInv, DurableInv, FirstReplyOnce
<1>2. ReplyInv'
  <2>1. \A q \in replies : runs[q].msg \in 0..MaxMsgs
    BY DEF TurnInv, TurnTypeOK
  <2> QED
    BY <2>1, ClaimMoves DEF TurnInv, LoopInv, ReplyInv
<1>3. RecordInv'
  <2>1. recorded \subseteq Msgs /\ RecordInv
    BY DEF TurnInv, TurnTypeOK, LoopInv
  <2>2. last' = last /\ \A n \in Msgs \ {m} : delivery'[n] = delivery[n]
    BY ClaimMoves
  <2> QED
    BY <2>1, <2>2 DEF RecordInv
<1> QED
  BY <1>1, <1>2, <1>3 DEF LoopInv

(* What waits for a pod was not stopped. *)
LEMMA WaitingIsNew ==
  ASSUME TurnInv, NEW p \in Pods, pod[p].pc \in Up, NEW m \in Waiting(p)
  PROVE  m \in Msgs /\ delivery[m] = "pending" /\ m \notin recorded
BY DEF Waiting, Polled, TurnInv, LoopInv, RecordInv, PodInv, StopAt

LEMMA RetireStep ==
  ASSUME TurnInv, NEW p \in Pods, RetireStopped(p)
  PROVE  LoopInv' /\ PodInv(p)'
<1>1. pod \in [Pods -> PodRec] /\ pod[p] \in PodRec
  BY DEF TurnInv, TurnTypeOK, PodRec
<1>2. pod[p].floor \in Msgs /\ delivery[pod[p].floor] = "pending"
  BY <1>1 DEF RetireStopped, ListsStopped, Polled, PodRec
<1>3. UNCHANGED <<stopped, durable, npass, runs, replies, recorded>>
  BY DEF RetireStopped, workState, history
<1>4. pod[p].pc = "poll" /\ pod'[p].pc = "retire" /\ pod'[p].floor = pod[p].floor
  BY <1>1 DEF RetireStopped, PodRec
<1>5. PodInv(p)'
  <2>1. stopped # 0 /\ delivery'[stopped] = "pending" => pod[p].floor = stopped
    BY <1>2, <1>4, ClaimMoves, StoppedIsRow
       DEF RetireStopped, TurnInv, PodInv, StopAt, Up, Gone, Steps
  <2> QED
    BY <1>3, <1>4, <2>1 DEF PodInv, HandAt, PassAt, StopAt, Hand, InTurn, Opened, Before
<1> QED
  BY <1>2, <1>3, <1>5, ClaimLoop DEF RetireStopped

LEMMA ClaimNextStep ==
  ASSUME TurnInv, NEW p \in Pods, ClaimNext(p)
  PROVE  LoopInv' /\ PodInv(p)'
<1>1. pod \in [Pods -> PodRec] /\ pod[p] \in PodRec
  BY DEF TurnInv, TurnTypeOK, PodRec
<1>2. PICK m \in Waiting(p) :
        /\ ClaimUserMessage(p, m)
        /\ pod' = [pod EXCEPT ![p] = [@ EXCEPT !.pc = "start", !.msg = m, !.claimed = TRUE,
                                               !.first = TRUE, !.loop = FALSE, !.banner = FALSE]]
  BY DEF ClaimNext
<1>3. pod[p].pc = "poll" /\ pod[p].pc \in Up /\ UNCHANGED <<stopped, durable, npass, runs, replies, recorded>>
  BY DEF ClaimNext, workState, history, Up, Gone, Steps
<1>4. m \in Msgs /\ delivery[m] = "pending" /\ m \notin recorded
  BY <1>2, <1>3, WaitingIsNew
<1>5. pod'[p].pc = "start" /\ pod'[p].msg = m /\ pod'[p].claimed /\ pod'[p].floor = pod[p].floor
  BY <1>1, <1>2 DEF PodRec
<1>6. stopped # 0 => delivery[stopped] # "pending"
  <2>1. stopped # 0 /\ delivery[stopped] = "pending" => Polled(stopped)
    BY StoppedIsRow DEF Polled, BeforeHolds, TurnInv, NoHolds
  <2> QED
    BY <1>3, <2>1 DEF ClaimNext, ListsStopped, TurnInv, PodInv, StopAt
<1>7. stopped # 0 => delivery'[stopped] # "pending"
  BY <1>2, <1>4, <1>6, ClaimMoves, StoppedIsRow
<1>8. PodInv(p)'
  <2>1. HandAt(p)' /\ PassAt(p)'
    BY <1>2, <1>4, <1>5, ClaimMoves DEF HandAt, PassAt, Opened, Before
  <2>2. StopAt(p)'
    BY <1>3, <1>4, <1>5, <1>7 DEF StopAt
  <2> QED
    BY <2>1, <2>2 DEF PodInv
<1> QED
  BY <1>2, <1>3, <1>4, <1>8, ClaimLoop

LEMMA SteerStep ==
  ASSUME TurnInv, NEW p \in Pods, Steer(p)
  PROVE  LoopInv' /\ PodInv(p)'
<1>1. pod \in [Pods -> PodRec] /\ pod[p] \in PodRec
  BY DEF TurnInv, TurnTypeOK, PodRec
<1>2. pod[p].pc = "steer" /\ pod[p].pc \in Up /\ UNCHANGED <<stopped, durable, npass, runs, replies, recorded>>
  BY DEF Steer, workState, history, Up, Gone, Steps
<1>3. ASSUME NEW m \in Waiting(p), ClaimUserMessage(p, m),
             pod' = [pod EXCEPT ![p] = [@ EXCEPT !.pc = "mark", !.msg = m, !.claimed = TRUE, !.first = TRUE]]
      PROVE  LoopInv' /\ PodInv(p)'
  <2>1. m \in Msgs /\ delivery[m] = "pending" /\ m \notin recorded
    BY <1>2, WaitingIsNew
  <2>2. pod'[p].pc = "mark" /\ pod'[p].msg = m /\ pod'[p].claimed /\ pod'[p].floor = pod[p].floor
    BY <1>1, <1>3 DEF PodRec
  <2>3. stopped # 0 => delivery'[stopped] # "pending"
    BY <1>2, <1>3, <2>1, ClaimMoves, StoppedIsRow
       DEF TurnInv, PodInv, StopAt, Hand, InTurn
  <2>4. HandAt(p)' /\ PassAt(p)'
    BY <1>3, <2>1, <2>2, ClaimMoves DEF HandAt, PassAt, Opened, Before
  <2>5. StopAt(p)'
    BY <1>2, <2>1, <2>2, <2>3 DEF StopAt
  <2> QED
    BY <1>2, <1>3, <2>1, <2>4, <2>5, ClaimLoop DEF PodInv
<1>4. ASSUME NEW s \in {"mark", "settle"}, Goto(p, s), UNCHANGED sessionVars
      PROVE  LoopInv' /\ PodInv(p)'
  <2>1. Moves(pod[p].pc, s, TRUE) /\ s \in Steps
    BY <1>2, <1>4 DEF Moves, Steps
  <2>2. SameHands(p) /\ pod'[p].pc = s
    BY <1>1, <1>4, <2>1, GotoMoves DEF PodRec
  <2>3. Onward(p)
    BY <1>2, <2>2 DEF SameHands, Onward, Hand, InTurn, Opened, Before
  <2>4. RowsKept /\ PassesKept
    BY <1>2, <1>4, RowsStay DEF PassesKept
  <2> QED
    BY <1>2, <2>3, <2>4, LoopKept, PodKept
<1> QED
  BY <1>3, <1>4 DEF Steer

LEMMA FoldStep ==
  ASSUME TurnInv, NEW p \in Pods, FoldImmediate(p)
  PROVE  LoopInv' /\ PodInv(p)'
<1>1. pod[p].pc = "run" /\ pod[p].pc \in Up /\ UNCHANGED <<pod, stopped, durable, npass, runs, replies, recorded>>
  BY DEF FoldImmediate, workState, history, Up, Gone, Steps
<1>2. PICK m \in Waiting(p) : ClaimUserMessage(p, m)
  BY DEF FoldImmediate
<1>3. m \in Msgs /\ delivery[m] = "pending"
  BY <1>1, WaitingIsNew
<1>4. PodInv(p)
  BY DEF TurnInv
<1>5. HandAt(p)'
  <2>1. pod[p].msg \in Msgs /\ pod[p].msg # m
    BY <1>1, <1>3, <1>4 DEF PodInv, HandAt, Hand, InTurn, Owned
  <2> QED
    BY <1>1, <1>2, <1>3, <1>4, <2>1, ClaimMoves DEF PodInv, HandAt, Owned
<1>6. PassAt(p)'
  BY <1>1, <1>4 DEF PodInv, PassAt, Opened, Before
<1>7. StopAt(p)'
  BY <1>1, <1>2, <1>3, <1>4, ClaimMoves, StoppedIsRow DEF PodInv, StopAt, Hand, InTurn
<1> QED
  BY <1>1, <1>2, <1>3, <1>5, <1>6, <1>7, ClaimLoop DEF PodInv

-----------------------------------------------------------------------------
(* Completions. *)
LEMMA CompleteMoves ==
  ASSUME TurnInv, NEW p \in Pods, CompleteClaims(p)
  PROVE  /\ last' = last
         /\ \A m \in Msgs : delivery'[m] = IF m \in Owned(p) THEN "completed" ELSE delivery[m]
         /\ \A m \in Msgs : delivery[m] # "claimed" => delivery'[m] = delivery[m]
BY DEF CompleteClaims, Owned

LEMMA CompleteLoop ==
  ASSUME TurnInv, NEW p \in Pods, CompleteClaims(p),
         UNCHANGED <<stopped, durable, npass, runs, replies, recorded>>
  PROVE  LoopInv'
<1>1. DurableInv' /\ FirstReplyOnce'
  BY DEF TurnInv, LoopInv, DurableInv, FirstReplyOnce
<1>2. ReplyInv'
  <2>1. \A q \in replies : runs[q].msg \in 0..MaxMsgs
    BY DEF TurnInv, TurnTypeOK
  <2> QED
    BY <2>1, CompleteMoves DEF TurnInv, LoopInv, ReplyInv
<1>3. RecordInv'
  <2>1. recorded \subseteq Msgs /\ RecordInv
    BY DEF TurnInv, TurnTypeOK, LoopInv
  <2> QED
    BY <2>1, CompleteMoves DEF RecordInv
<1> QED
  BY <1>1, <1>2, <1>3 DEF LoopInv

LEMMA CompleteRetiredStep ==
  ASSUME TurnInv, NEW p \in Pods, CompleteRetired(p)
  PROVE  LoopInv' /\ PodInv(p)'
<1>1. pod \in [Pods -> PodRec] /\ pod[p] \in PodRec
  BY DEF TurnInv, TurnTypeOK, PodRec
<1>2. UNCHANGED <<stopped, durable, npass, runs, replies, recorded>>
  BY DEF CompleteRetired, workState, history
<1>3. pod[p].pc = "retire" /\ pod'[p].pc = "poll" /\ pod'[p].floor = pod[p].floor
  BY <1>1 DEF CompleteRetired, PodRec
<1>4. PodInv(p)'
  <2>1. stopped # 0 /\ delivery'[stopped] = "pending" => pod[p].floor = stopped
    BY <1>3, CompleteMoves, StoppedIsRow
       DEF CompleteRetired, TurnInv, PodInv, StopAt, Up, Gone, Steps
  <2> QED
    BY <1>2, <1>3, <2>1 DEF PodInv, HandAt, PassAt, StopAt, Hand, InTurn, Opened, Before
<1> QED
  BY <1>2, <1>4, CompleteLoop DEF CompleteRetired

(* A reply to an opening pass is the first: its message was still claimed. *)
LEMMA CommitStep ==
  ASSUME TurnInv, NEW p \in Pods, CommitReply(p)
  PROVE  LoopInv' /\ PodInv(p)'
<1>1. pod \in [Pods -> PodRec] /\ pod[p] \in PodRec
  BY DEF TurnInv, TurnTypeOK, PodRec
<1>2. /\ pod[p].pc = "commit" /\ replies' = replies \cup {pod[p].pass}
      /\ UNCHANGED <<stopped, durable, npass, runs, recorded>>
  BY DEF CommitReply, workState, history
<1>3. /\ pod'[p].pc = "close" /\ ~pod'[p].claimed
      /\ pod'[p].msg = pod[p].msg /\ pod'[p].pass = pod[p].pass /\ pod'[p].floor = pod[p].floor
  BY <1>1 DEF CommitReply, PodRec
<1>4. PodInv(p) /\ DurableInv /\ ReplyInv /\ FirstReplyOnce /\ RecordInv
  BY DEF TurnInv, LoopInv
<1>5. pod[p].msg \in Msgs /\ delivery'[pod[p].msg] = "completed"
  BY <1>2, <1>4, CompleteMoves DEF CommitReply, PodInv, HandAt, Hand
<1>6. durable.msg = pod[p].msg /\ durable.pass = pod[p].pass
  BY <1>2, <1>4 DEF PodInv, PassAt, Opened
<1>7. pod[p].pass <= npass /\ runs[pod[p].pass].msg = pod[p].msg
  BY <1>4, <1>5, <1>6 DEF DurableInv, TurnInv, TurnTypeOK
<1>8. \A q \in replies : runs[q].msg \in 0..MaxMsgs
  BY DEF TurnInv, TurnTypeOK
<1>9. ReplyInv'
  BY <1>2, <1>4, <1>5, <1>7, <1>8, CompleteMoves DEF CommitReply, ReplyInv
<1>10. FirstReplyOnce'
  <2>1. ASSUME NEW q \in replies, runs[q].first, runs[q].msg = pod[p].msg, runs[pod[p].pass].first
        PROVE  FALSE
    <3>1. delivery[pod[p].msg] = "completed"
      BY <1>4, <2>1 DEF ReplyInv
    <3>2. pod[p].claimed
      BY <1>2, <1>4, <2>1 DEF PodInv, PassAt, Opened
    <3> QED
      BY <1>2, <1>4, <3>1, <3>2 DEF PodInv, HandAt, Hand, Owned
  <2> QED
    BY <1>2, <1>4, <1>7, <2>1 DEF FirstReplyOnce
<1>11. RecordInv'
  <2>1. recorded \subseteq Msgs
    BY DEF TurnInv, TurnTypeOK
  <2> QED
    BY <1>2, <1>4, <2>1, CompleteMoves DEF CommitReply, RecordInv
<1>12. DurableInv'
  BY <1>2, <1>4 DEF DurableInv
<1>13. PodInv(p)'
  <2>1. HandAt(p)' /\ PassAt(p)'
    BY <1>2, <1>3, <1>5, <1>6 DEF HandAt, PassAt, Opened, Before
  <2>2. stopped # 0 => delivery'[stopped] # "pending"
    BY <1>2, <1>4, CompleteMoves, StoppedIsRow DEF CommitReply, PodInv, StopAt, Hand
  <2>3. StopAt(p)'
    BY <1>2, <1>3, <1>4, <2>2 DEF PodInv, StopAt, Hand
  <2> QED
    BY <2>1, <2>3 DEF PodInv
<1> QED
  BY <1>9, <1>10, <1>11, <1>12, <1>13 DEF LoopInv

-----------------------------------------------------------------------------
(* Passes are reserved and closed in the working state. *)
LEMMA ReserveStep ==
  ASSUME TurnInv, NEW p \in Pods, ReservePass(p)
  PROVE  LoopInv' /\ PodInv(p)'
<1>1. pod \in [Pods -> PodRec] /\ pod[p] \in PodRec
  BY DEF TurnInv, TurnTypeOK, PodRec
<1>2. /\ npass \in 0..MaxPasses /\ durable \in [msg : 0..MaxMsgs, pass : 0..MaxPasses]
      /\ runs \in [Passes -> [msg : 0..MaxMsgs, first : BOOLEAN, done : BOOLEAN]]
      /\ replies \subseteq Passes
  BY DEF TurnInv, TurnTypeOK
<1>3. pod[p].pc = "reserve" /\ UNCHANGED <<sessionVars, stopped, replies, recorded>>
  BY DEF ReservePass, history
<1>4. PodInv(p) /\ DurableInv /\ ReplyInv /\ FirstReplyOnce /\ RecordInv
  BY DEF TurnInv, LoopInv
<1>5. pod[p].msg \in Msgs /\ (pod[p].first => pod[p].claimed)
  BY <1>3, <1>4 DEF PodInv, HandAt, PassAt, Hand, InTurn
<1>6. ASSUME NEW q \in 0..MaxPasses, pod' = [pod EXCEPT ![p] = [@ EXCEPT !.pc = "open", !.pass = q]]
      PROVE  /\ pod'[p].pc = "open" /\ pod'[p].pass = q /\ pod'[p].msg = pod[p].msg
             /\ pod'[p].claimed = pod[p].claimed /\ pod'[p].floor = pod[p].floor
  BY <1>1, <1>6 DEF PodRec
<1>7. ASSUME pod'[p].pc = "open", pod'[p].msg = pod[p].msg, pod'[p].claimed = pod[p].claimed,
             pod'[p].floor = pod[p].floor
      PROVE  HandAt(p)' /\ StopAt(p)'
  <2>1. HandAt(p)'
    BY <1>3, <1>4, <1>5, <1>7 DEF PodInv, HandAt, Hand, InTurn, Owned, sessionVars
  <2>2. StopAt(p)'
    BY <1>3, <1>4, <1>7 DEF PodInv, StopAt, Hand, InTurn, sessionVars
  <2> QED
    BY <2>1, <2>2
<1>8. CASE durable.msg = pod[p].msg /\ pod' = [pod EXCEPT ![p] = [@ EXCEPT !.pc = "open", !.pass = durable.pass]]
           /\ UNCHANGED <<durable, npass, runs>>
  <2>1. RowsKept /\ PassesKept
    BY <1>3, <1>8, RowsStay DEF PassesKept
  <2>2. /\ pod'[p].pc = "open" /\ pod'[p].pass = durable.pass /\ pod'[p].msg = pod[p].msg
        /\ pod'[p].claimed = pod[p].claimed /\ pod'[p].floor = pod[p].floor
    BY <1>2, <1>6, <1>8
  <2>3. pod[p].claimed
    BY <1>3, <1>4, <1>8 DEF PodInv, PassAt, Before
  <2>4. PassAt(p)'
    BY <1>1, <1>8, <2>2, <2>3 DEF PassAt, Opened, Before
  <2> QED
    BY <1>7, <2>1, <2>2, <2>4, LoopKept DEF PodInv
<1>9. CASE /\ npass < MaxPasses /\ npass' = npass + 1
           /\ durable' = [msg |-> pod[p].msg, pass |-> npass + 1]
           /\ runs' = [runs EXCEPT ![npass + 1] = [@ EXCEPT !.msg = pod[p].msg, !.first = pod[p].first]]
           /\ pod' = [pod EXCEPT ![p] = [@ EXCEPT !.pc = "open", !.pass = npass + 1]]
  <2>1. npass + 1 \in Passes /\ npass + 1 \in 0..MaxPasses
    BY <1>2, <1>9
  <2>2. /\ runs'[npass + 1].msg = pod[p].msg /\ runs'[npass + 1].first = pod[p].first
        /\ \A q \in Passes : q # npass + 1 => runs'[q] = runs[q]
    <3>1. runs[npass + 1] \in [msg : 0..MaxMsgs, first : BOOLEAN, done : BOOLEAN]
      BY <1>2, <2>1
    <3>2. runs'[npass + 1] = [runs[npass + 1] EXCEPT !.msg = pod[p].msg, !.first = pod[p].first]
      BY <1>2, <1>9, <2>1
    <3>3. runs'[npass + 1].msg = pod[p].msg /\ runs'[npass + 1].first = pod[p].first
      BY <3>1, <3>2
    <3> QED
      BY <1>2, <1>9, <3>3
  <2>3. /\ pod'[p].pc = "open" /\ pod'[p].pass = npass + 1 /\ pod'[p].msg = pod[p].msg
        /\ pod'[p].claimed = pod[p].claimed /\ pod'[p].floor = pod[p].floor
    BY <1>6, <1>9, <2>1
  <2>4. \A q \in replies : q \in Passes /\ q # npass + 1 /\ runs'[q] = runs[q]
    BY <1>2, <1>4, <2>2 DEF ReplyInv
  <2>5. DurableInv'
    BY <1>2, <1>9, <2>2 DEF DurableInv
  <2>6. ReplyInv'
    BY <1>2, <1>3, <1>4, <1>9, <2>4 DEF ReplyInv, sessionVars
  <2>7. FirstReplyOnce'
    BY <1>3, <1>4, <2>4 DEF FirstReplyOnce
  <2>8. RecordInv'
    BY <1>3, <1>4 DEF RecordInv, sessionVars
  <2>9. PassAt(p)'
    BY <1>1, <1>5, <1>9, <2>2, <2>3 DEF PassAt, Opened, Before
  <2> QED
    BY <1>7, <2>3, <2>5, <2>6, <2>7, <2>8, <2>9 DEF LoopInv, PodInv
<1> QED
  BY <1>8, <1>9 DEF ReservePass

LEMMA CloseStep ==
  ASSUME TurnInv, NEW p \in Pods, ClosePass(p)
  PROVE  LoopInv' /\ PodInv(p)'
<1>1. pod \in [Pods -> PodRec] /\ pod[p] \in PodRec
  BY DEF TurnInv, TurnTypeOK, PodRec
<1>2. pod[p].pc = "close" /\ UNCHANGED <<stopped, npass, runs, replies, recorded>>
  BY DEF ClosePass, history
<1>3. PodInv(p) /\ DurableInv /\ ReplyInv /\ FirstReplyOnce /\ RecordInv
  BY DEF TurnInv, LoopInv
<1>4. durable = [msg |-> pod[p].msg, pass |-> pod[p].pass]
  BY <1>2, <1>3 DEF PodInv, PassAt, Opened, TurnInv, TurnTypeOK
<1>5. durable' = [msg |-> 0, pass |-> 0] /\ Goto(p, "decide") /\ UNCHANGED sessionVars
  BY <1>4 DEF ClosePass
<1>6. pod'[p].pc = "decide" /\ pod'[p].msg = pod[p].msg /\ pod'[p].claimed = pod[p].claimed /\ pod'[p].floor = pod[p].floor
  BY <1>1, <1>5 DEF PodRec
<1>7. LoopInv'
  BY <1>2, <1>3, <1>5
     DEF LoopInv, DurableInv, ReplyInv, FirstReplyOnce, RecordInv, sessionVars
<1>8. HandAt(p)' /\ PassAt(p)'
  BY <1>2, <1>3, <1>5, <1>6
     DEF PodInv, HandAt, PassAt, Hand, InTurn, Opened, Before, Owned, sessionVars
<1>9. StopAt(p)'
  BY <1>2, <1>3, <1>5, <1>6 DEF PodInv, StopAt, Hand, InTurn, Up, Gone, Steps, sessionVars
<1> QED
  BY <1>7, <1>8, <1>9 DEF PodInv

-----------------------------------------------------------------------------
(* A stop is put on record, twice or once. *)
LEMMA FloorStep ==
  ASSUME TurnInv, NEW p \in Pods, RecordFloor(p)
  PROVE  LoopInv' /\ PodInv(p)'
<1>1. pod \in [Pods -> PodRec] /\ pod[p] \in PodRec
  BY DEF TurnInv, TurnTypeOK, PodRec
<1>2. pod[p].pc = "floor" /\ UNCHANGED <<sessionVars, durable, npass, runs, replies>>
  BY DEF RecordFloor
<1>3. PodInv(p) /\ DurableInv /\ ReplyInv /\ FirstReplyOnce /\ RecordInv
  BY DEF TurnInv, LoopInv
<1>4. /\ pod'[p].pc = "release" /\ pod'[p].floor = pod[p].msg
      /\ pod'[p].msg = pod[p].msg /\ pod'[p].claimed = pod[p].claimed
  BY <1>1 DEF RecordFloor, PodRec
<1>5. pod[p].msg \in Msgs /\ delivery[pod[p].msg] \in {"claimed", "completed"}
  BY <1>2, <1>3 DEF PodInv, HandAt, Hand, Owned
<1>6. HandAt(p)' /\ PassAt(p)'
  BY <1>2, <1>3, <1>4 DEF PodInv, HandAt, PassAt, Hand, Opened, Before, Owned, sessionVars
<1>7. \/ stopped' = pod[p].msg /\ recorded' = {m \in recorded : delivery[m] = "completed"} \cup {pod[p].msg}
      \/ stopped' = stopped /\ recorded' = recorded
  BY DEF RecordFloor
<1>8. StopAt(p)'
  <2>1. stopped' # 0 => delivery[stopped'] # "pending"
    BY <1>2, <1>3, <1>5, <1>7 DEF PodInv, StopAt, Hand
  <2> QED
    BY <1>2, <1>4, <2>1 DEF StopAt, sessionVars
<1>9. DurableInv' /\ ReplyInv' /\ FirstReplyOnce'
  BY <1>2, <1>3 DEF DurableInv, ReplyInv, FirstReplyOnce, sessionVars
<1>10. RecordInv'
  <2>1. last' = last /\ delivery' = delivery
    BY <1>2 DEF sessionVars
  <2>2. last \in 0..MaxMsgs /\ \A m \in Msgs : m > last <=> delivery[m] = "absent"
    BY DEF TurnInv, SessionInv, RowsAllocated, SessionTypeOK
  <2>3. pod[p].msg \in Nat /\ pod[p].msg <= last
    BY <1>5, <2>2 DEF Msgs
  <2>4. stopped' <= last'
    BY <1>3, <1>7, <2>1, <2>3 DEF RecordInv
  <2>5. ASSUME NEW m \in recorded' PROVE m = stopped' \/ delivery'[m] \in {"completed", "cancelled"}
    BY <1>3, <1>7, <2>1, <2>5 DEF RecordInv
  <2> QED
    BY <2>4, <2>5 DEF RecordInv
<1> QED
  BY <1>6, <1>8, <1>9, <1>10 DEF LoopInv, PodInv

LEMMA ReleaseRecord ==
  ASSUME TurnInv, NEW p \in Pods, RecordRelease(p)
  PROVE  LoopInv' /\ PodInv(p)'
<1>1. pod \in [Pods -> PodRec] /\ pod[p] \in PodRec
  BY DEF TurnInv, TurnTypeOK, PodRec
<1>2. pod[p].pc = "release" /\ Goto(p, "park") /\ UNCHANGED <<stopped, durable, npass, runs, replies>>
  BY DEF RecordRelease, workState
<1>3. pod[p].pc \in Up /\ Moves(pod[p].pc, "park", TRUE) /\ "park" \in Steps
  BY <1>2 DEF Up, Gone, Steps, Moves
<1>4. SameHands(p) /\ pod'[p].pc = "park"
  BY <1>1, <1>2, <1>3, GotoMoves DEF PodRec
<1>5. CASE UNCHANGED <<sessionVars, recorded>>
  <2>1. RowsKept /\ PassesKept
    BY <1>2, <1>5, RowsStay DEF PassesKept
  <2>2. Onward(p)
    BY <1>2, <1>4 DEF SameHands, Onward, Hand, InTurn, Opened, Before
  <2> QED
    BY <1>3, <2>1, <2>2, LoopKept, PodKept
<1>6. CASE CompleteClaims(p) /\ recorded' = recorded \cup {pod[p].msg}
  <2>1. PodInv(p) /\ DurableInv /\ ReplyInv /\ FirstReplyOnce /\ RecordInv
    BY DEF TurnInv, LoopInv
  <2>2. pod[p].msg \in Msgs /\ delivery'[pod[p].msg] = "completed"
    BY <1>2, <1>6, <2>1, CompleteMoves DEF PodInv, HandAt, Hand
  <2>3. DurableInv' /\ FirstReplyOnce'
    BY <1>2, <2>1 DEF DurableInv, FirstReplyOnce
  <2>4. ReplyInv'
    <3>1. \A q \in replies : runs[q].msg \in 0..MaxMsgs
      BY DEF TurnInv, TurnTypeOK
    <3> QED
      BY <1>2, <1>6, <2>1, <3>1, CompleteMoves DEF ReplyInv
  <2>5. RecordInv'
    <3>1. recorded \subseteq Msgs
      BY DEF TurnInv, TurnTypeOK
    <3> QED
      BY <1>2, <1>6, <2>1, <2>2, <3>1, CompleteMoves DEF RecordInv
  <2>6. stopped # 0 => delivery'[stopped] # "pending"
    BY <1>2, <1>6, <2>1, CompleteMoves, StoppedIsRow DEF PodInv, StopAt, Hand
  <2>7. PodInv(p)'
    BY <1>2, <1>4, <2>6 DEF PodInv, HandAt, PassAt, StopAt, Hand, InTurn, Opened, Before
  <2> QED
    BY <2>3, <2>4, <2>5, <2>7 DEF LoopInv
<1> QED
  BY <1>5, <1>6 DEF RecordRelease

-----------------------------------------------------------------------------
(* All together. *)
LEMMA MoverKeeps ==
  ASSUME TurnInv, NEW p \in Pods, PodKinds(p)
  PROVE  LoopInv' /\ PodInv(p)'
BY StartStep, RecoverLoop, RetireStep, CompleteRetiredStep, ClaimNextStep, SteerStep,
   FoldStep, CommitStep, ReserveStep, CloseStep, FloorStep, ReleaseRecord, QuietStep
   DEF PodKinds, PodStep, Quiet

LEMMA TurnNextInv == TurnInv /\ [TurnNext]_turnVars => TurnInv'
<1> SUFFICES ASSUME TurnInv, [TurnNext]_turnVars PROVE TurnInv'
  OBVIOUS
<1>1. SessionInv' /\ TurnTypeOK' /\ NoHolds' /\ OnePod'
  BY StoreStep, SessionNextInv, TurnTypes, NoHoldsStep, OnePodStep DEF TurnInv
<1>2. LoopInv' /\ \A p \in Pods : PodInv(p)'
  <2>1. CASE UNCHANGED turnVars \/ UserSend \/ UserStop \/ UserWithdraws
    BY <2>1, UserStep
  <2>2. ASSUME NEW p \in Pods, PodKinds(p)
        PROVE  LoopInv' /\ \A q \in Pods : PodInv(q)'
    <3>1. ASSUME NEW q \in Pods, q # p PROVE PodInv(q)'
      <4>1. pod'[q] = pod[q] /\ (pod[p].pc \in Up \/ StartPod(p))
        BY <2>2, <3>1, OnlyMover
      <4>2. CASE pod[p].pc \in Up
        BY <3>1, <4>1, <4>2, Alone, IdlePods
      <4>3. CASE StartPod(p)
        <5>1. pod[q].pc \in Gone \cup {"off"}
          BY <3>1, <4>3 DEF StartPod, TurnInv, OnePod, Gone
        <5> QED
          BY <4>1, <5>1, IdlePods
      <4> QED
        BY <4>1, <4>2, <4>3
    <3> QED
      BY <2>2, <3>1, MoverKeeps
  <2> QED
    BY <2>1, <2>2 DEF TurnNext, PodKinds
<1> QED
  BY <1>1, <1>2 DEF TurnInv

(* The turn loop keeps the invariant, however its pods die. *)
THEOREM TurnInvariance == TurnSpec => []TurnInv
BY TurnInitInv, TurnNextInv, PTL DEF TurnSpec

(* Rows, pods and the working state stay well typed (the fields of         *)
(* WorkingState and of a turn that loop.go uses).                          *)
THEOREM TurnTypesHold == TurnSpec => []TurnTypeOK
<1>1. TurnInv => TurnTypeOK
  BY DEF TurnInv
<1> QED
  BY <1>1, TurnInvariance, PTL

(* A prompt whose stop is on record is never run again, whatever write of  *)
(* parkAfterStop is lost and however many pods die (withoutStoppedMessage).*)
THEOREM StopsStay == TurnSpec => []StoppedStaysStopped
<1>1. TurnInv => StoppedStaysStopped
  BY DEF TurnInv, PodInv, StopAt, StoppedStaysStopped, Hand, InTurn
<1> QED
  BY <1>1, TurnInvariance, PTL

(* The opening pass of a message is answered once: a message is completed  *)
(* with its reply, and a completed one gets no opening pass (commitTurn).  *)
THEOREM RepliesOnce == TurnSpec => []FirstReplyOnce
<1>1. TurnInv => FirstReplyOnce
  BY DEF TurnInv, LoopInv
<1> QED
  BY <1>1, TurnInvariance, PTL

(* What a pod believes of its message when it decides whether to leave a   *)
(* continuation behind is what the store says (enqueueContinuation).       *)
THEOREM ClaimsMatchTurns == TurnSpec => []ClaimMatchesTurn
<1>1. TurnInv => ClaimMatchesTurn
  BY DEF TurnInv, PodInv, HandAt, ClaimMatchesTurn, Hand
<1> QED
  BY <1>1, TurnInvariance, PTL

(* The pods and their user are clients of the store, so that what is       *)
(* proved of SessionSpec holds of them.                                    *)
THEOREM TurnsUseTheStore == TurnSpec => SessionSpec
<1>1. TurnInit => SessionInit
  BY DEF TurnInit
<1>2. TurnInv /\ [TurnNext]_turnVars => [SessionNext]_sessionVars
  BY StoreStep
<1> QED
  BY <1>1, <1>2, TurnInvariance, PTL DEF TurnSpec, SessionSpec

-----------------------------------------------------------------------------
(* A stop holds in the pod that has consumed it: its message never comes   *)
(* back to the queue while the pod is up, and the pass that goes on to the *)
(* end after the stop was seen leads to the park and to nothing else.      *)
Handling == InTurn \cup {"start", "drain", "commit", "close"}
Ending   == {"run", "commit", "close", "decide"}
Taken    == {"claimed", "completed", "cancelled"}

ToldAt(p) ==
  /\ \A m \in Msgs : <<p, m>> \in told =>
       pod[p].pc \notin {"off", "recover"} /\ (pod[p].pc \in Up => delivery[m] \in Taken)
  /\ <<p, pod[p].msg>> \in told /\ pod[p].pc \in Handling => pod[p].told /\ pod[p].pc \in Ending

(* Rows that were taken stay so in every step but the sweep of a new pod. *)
RowsTaken == \A m \in Msgs : delivery[m] \in Taken => delivery'[m] \in Taken

LEMMA RowsStayTaken ==
  ASSUME TurnInv,
         \/ UNCHANGED sessionVars \/ AppendMessage \/ UpdatePhase("ended")
         \/ \E p \in Pods : CompleteClaims(p)
         \/ \E p \in Pods, m \in Msgs : delivery[m] = "pending" /\ ClaimUserMessage(p, m)
         \/ \E m \in Msgs : CancelUndeliveredUserMessage(m)
  PROVE  RowsTaken
<1> USE DEF RowsTaken, Taken
<1>1. CASE UNCHANGED sessionVars \/ AppendMessage
  BY <1>1, RowsStay, RowsGrow DEF RowsKept
<1>2. CASE UpdatePhase("ended")
  BY <1>2 DEF UpdatePhase, rowVars
<1>3. ASSUME NEW p \in Pods, CompleteClaims(p) PROVE RowsTaken
  BY <1>3, CompleteMoves
<1>4. ASSUME NEW p \in Pods, NEW m \in Msgs, delivery[m] = "pending", ClaimUserMessage(p, m) PROVE RowsTaken
  BY <1>4, ClaimMoves
<1>5. ASSUME NEW m \in Msgs, CancelUndeliveredUserMessage(m) PROVE RowsTaken
  BY <1>5, RowsLeave DEF RowsKept
<1> QED
  BY <1>1, <1>2, <1>3, <1>4, <1>5

LEMMA ToldMoves ==
  ASSUME NEW p \in Pods, ToldAt(p), pod[p].pc \in Up, RowsTaken, told' = told,
         pod'[p].msg = pod[p].msg, pod'[p].pc \notin {"off", "recover"},
         pod'[p].pc \in Handling =>
           pod[p].pc \in Handling /\ (pod[p].told /\ pod[p].pc \in Ending => pod'[p].told /\ pod'[p].pc \in Ending)
  PROVE  ToldAt(p)'
BY DEF ToldAt, RowsTaken

(* The steps that go on with the same message and consume no stop. *)
Plodding(p) ==
  \/ RestoreContinue(p) \/ StartupIdle(p) \/ RetireStopped(p) \/ CompleteRetired(p)
  \/ DeferredBanner(p) \/ ClearBoundary(p) \/ MarkAutonomous(p) \/ OpenRun(p) \/ ReservePass(p)
  \/ FoldImmediate(p) \/ RunIsStopped(p) \/ RunFails(p) \/ CommitReply(p) \/ ClosePass(p)
  \/ Decide(p) \/ RecordFloor(p) \/ RecordRelease(p) \/ Park(p) \/ Settle(p)
  \/ Crash(p) \/ ExitResumable(p) \/ ExitParked(p)

LEMMA PloddingRows ==
  ASSUME TurnInv, NEW p \in Pods, Plodding(p)
  PROVE  RowsTaken /\ told' = told
<1>1. told' = told
  BY DEF Plodding, RestoreContinue, StartupIdle, RetireStopped, CompleteRetired,
         DeferredBanner, ClearBoundary, MarkAutonomous, OpenRun, ReservePass, FoldImmediate,
         RunIsStopped, RunFails, CommitReply, ClosePass, Decide, RecordFloor, RecordRelease,
         Park, Settle, Crash, ExitResumable, ExitParked, history
<1>2. \/ UNCHANGED sessionVars \/ AppendMessage \/ UpdatePhase("ended") \/ CompleteClaims(p)
      \/ \E m \in Msgs : delivery[m] = "pending" /\ ClaimUserMessage(p, m)
  <2>1. CASE RetireStopped(p)
    BY <2>1 DEF RetireStopped, ListsStopped, Polled, TurnInv, TurnTypeOK
  <2>2. CASE FoldImmediate(p)
    BY <2>2 DEF FoldImmediate, Waiting, Polled
  <2> QED
    BY <2>1, <2>2
       DEF Plodding, RestoreContinue, AppendContinuation, StartupIdle, CompleteRetired,
           DeferredBanner, ClearBoundary, MarkAutonomous, OpenRun, ReservePass, RunIsStopped,
           RunFails, CommitReply, ClosePass, Decide, RecordFloor, RecordRelease, Park, Settle,
           Crash, ExitResumable, ExitParked
<1> QED
  BY <1>1, <1>2, RowsStayTaken

LEMMA PloddingTold ==
  ASSUME TurnInv, NEW p \in Pods, ToldAt(p), Plodding(p)
  PROVE  ToldAt(p)'
<1> USE DEF Handling, Ending, InTurn, Up, Gone, Steps
<1>0. pod \in [Pods -> PodRec] /\ pod[p] \in PodRec /\ RowsTaken /\ told' = told
  BY PloddingRows DEF TurnInv, TurnTypeOK, PodRec
<1>a. ASSUME pod'[p].msg = pod[p].msg, pod[p].pc \in Up,
             \/ pod'[p].pc \in {"quiet", "poll", "retire", "settle", "floor"}
             \/ pod[p].pc \in {"start", "mark", "reserve", "open"} /\ pod'[p].pc \in {"drain", "reserve", "open", "run"}
             \/ pod[p].pc \in Ending /\ pod'[p].pc \in Ending /\ pod'[p].told = pod[p].told
      PROVE  ToldAt(p)'
  BY <1>0, <1>a, ToldMoves
<1>1. CASE \/ RestoreContinue(p) \/ StartupIdle(p) \/ RetireStopped(p) \/ CompleteRetired(p)
           \/ DeferredBanner(p) \/ ClearBoundary(p)
  <2>1. /\ pod[p].pc \in Up /\ pod'[p].msg = pod[p].msg
        /\ \/ pod'[p].pc \in {"quiet", "poll", "retire"}
           \/ pod[p].pc = "start" /\ pod'[p].pc = "drain"
    <3>1. CASE RestoreContinue(p)
      <4>1. /\ pod[p].pc = "resume"
            /\ \E s \in {"quiet", "poll"} :
                 \/ pod'[p] = [pod[p] EXCEPT !.pc = s]
                 \/ pod'[p] = [pod[p] EXCEPT !.pc = s, !.mute = TRUE]
        BY <1>0, <3>1 DEF RestoreContinue, IdleOrPoll, GotoMute
      <4> QED
        BY <1>0, <4>1 DEF PodRec
    <3>2. CASE \/ StartupIdle(p) \/ RetireStopped(p) \/ CompleteRetired(p)
               \/ DeferredBanner(p) \/ ClearBoundary(p)
      BY <1>0, <3>2 DEF StartupIdle, RetireStopped, CompleteRetired, DeferredBanner,
         ClearBoundary, PodRec
    <3> QED
      BY <1>1, <3>1, <3>2
  <2> QED
    BY <1>a, <2>1
<1>2. CASE MarkAutonomous(p) \/ ReservePass(p) \/ OpenRun(p)
  <2>1. /\ pod[p].pc \in {"mark", "reserve", "open"} /\ pod'[p].pc \in {"reserve", "open", "run"}
        /\ pod'[p].msg = pod[p].msg
    <3>1. CASE MarkAutonomous(p)
      <4>1. /\ pod[p].pc = "mark"
            /\ \/ pod'[p] = [pod[p] EXCEPT !.pc = "reserve"]
               \/ pod'[p] = [pod[p] EXCEPT !.pc = "reserve", !.marked = TRUE]
        BY <1>0, <3>1 DEF MarkAutonomous
      <4> QED
        BY <1>0, <4>1 DEF PodRec
    <3>2. CASE ReservePass(p)
      <4>1. pod[p].pc = "reserve" /\ \E q : pod'[p] = [pod[p] EXCEPT !.pc = "open", !.pass = q]
        BY <1>0, <3>2 DEF ReservePass
      <4> QED
        BY <1>0, <4>1 DEF PodRec
    <3>3. CASE OpenRun(p)
      BY <1>0, <3>3 DEF OpenRun, PodRec
    <3> QED
      BY <1>2, <3>1, <3>2, <3>3
  <2> QED
    BY <1>a, <2>1
<1>3. CASE FoldImmediate(p) \/ RunIsStopped(p) \/ RunFails(p) \/ CommitReply(p)
  <2>1. /\ pod[p].pc \in {"run", "commit"} /\ pod'[p].msg = pod[p].msg
        /\ pod'[p].pc \in {"floor", "settle"} \/ (pod'[p].pc \in {"run", "close"} /\ pod'[p].told = pod[p].told)
    <3>1. CASE CommitReply(p)
      <4>1. pod[p].pc = "commit" /\ pod'[p] = [pod[p] EXCEPT !.pc = "close", !.claimed = FALSE]
        BY <1>0, <3>1 DEF CommitReply
      <4> QED
        BY <1>0, <4>1 DEF PodRec
    <3> QED
      BY <1>0, <1>3, <3>1 DEF FoldImmediate, RunIsStopped, RunFails, PodRec
  <2> QED
    BY <1>a, <2>1
<1>4. CASE ClosePass(p)
  <2>1. /\ pod[p].pc = "close" /\ pod'[p].msg = pod[p].msg /\ pod'[p].pc \in {"decide", "failed"}
        /\ pod'[p].told = pod[p].told
    BY <1>0, <1>4 DEF ClosePass, PodRec
  <2> QED
    BY <1>0, <2>1, ToldMoves
<1>5. CASE Decide(p)
  <2>1. /\ pod[p].pc = "decide" /\ pod'[p].msg = pod[p].msg
        /\ pod'[p].pc \in {"floor", "settle"} \/ (~pod[p].told /\ pod'[p].pc = "steer")
    <3>1. /\ pod[p].pc = "decide"
          /\ \/ \E c \in {"floor", "settle"} : pod'[p] = [pod[p] EXCEPT !.pc = c]
             \/ ~pod[p].told /\ pod'[p] = [pod[p] EXCEPT !.pc = "steer", !.first = FALSE]
      BY <1>0, <1>5 DEF Decide
    <3> QED
      BY <1>0, <3>1 DEF PodRec
  <2> QED
    BY <1>0, <2>1, ToldMoves
<1>6. CASE RecordFloor(p) \/ RecordRelease(p) \/ Settle(p)
  <2>1. /\ pod[p].pc \in {"floor", "release", "settle"}
        /\ \/ pod'[p] = [pod[p] EXCEPT !.pc = "release", !.floor = pod[p].msg]
           \/ pod'[p] = [pod[p] EXCEPT !.pc = "park"]
           \/ pod'[p] = [pod[p] EXCEPT !.pc = "poll", !.marked = FALSE]
           \/ pod'[p] = [pod[p] EXCEPT !.pc = "poll"]
    BY <1>0, <1>6 DEF RecordFloor, RecordRelease, Settle
  <2>2. pod'[p].msg = pod[p].msg /\ pod'[p].pc \in {"release", "park", "poll"}
    BY <1>0, <2>1 DEF PodRec
  <2> QED
    BY <1>0, <2>1, <2>2, ToldMoves
<1>7. CASE Park(p)
  <2>1. /\ pod[p].pc = "park"
        /\ \E s \in {"settle", "poll"}, b \in BOOLEAN :
             pod'[p] = [pod[p] EXCEPT !.pc = s, !.banner = b, !.told = FALSE]
    BY <1>0, <1>7 DEF Park
  <2> QED
    BY <1>0, <2>1, ToldMoves DEF PodRec
<1>8. CASE Crash(p) \/ ExitResumable(p) \/ ExitParked(p)
  <2>1. /\ pod[p].pc \in Up
        /\ \E s \in Gone :
             \/ pod'[p] = [pod[p] EXCEPT !.pc = s]
             \/ pod'[p] = [pod[p] EXCEPT !.pc = s, !.mute = TRUE]
    BY <1>0, <1>8 DEF Crash, ExitResumable, GotoMute, ExitParked
  <2>2. pod'[p].pc \in Gone /\ pod'[p].msg = pod[p].msg
    BY <1>0, <2>1 DEF PodRec
  <2> QED
    BY <1>0, <2>1, <2>2, ToldMoves
<1> QED
  BY <1>1, <1>2, <1>3, <1>4, <1>5, <1>6, <1>7, <1>8 DEF Plodding

(* A message that is claimed now was waiting, and was not told before. *)
LEMMA ClaimTold ==
  ASSUME TurnInv, NEW p \in Pods, ToldAt(p), ClaimNext(p) \/ Steer(p)
  PROVE  ToldAt(p)'
<1> USE DEF Handling, Ending, InTurn, Up, Gone, Steps
<1>0. pod \in [Pods -> PodRec] /\ pod[p] \in PodRec /\ pod[p].pc \in {"poll", "steer"} /\ told' = told
  BY DEF TurnInv, TurnTypeOK, PodRec, ClaimNext, Steer, history
<1>1. ASSUME NEW m \in Waiting(p), ClaimUserMessage(p, m), pod'[p].msg = m, pod'[p].pc \in {"start", "mark"}
      PROVE  ToldAt(p)'
  <2>1. m \in Msgs /\ delivery[m] = "pending"
    BY DEF Waiting, Polled
  <2>2. RowsTaken
    BY <1>1, <2>1, RowsStayTaken
  <2>3. <<p, m>> \notin told
    BY <1>0, <2>1 DEF ToldAt, Taken
  <2> QED
    BY <1>0, <1>1, <2>2, <2>3 DEF ToldAt, RowsTaken
<1>2. CASE ClaimNext(p)
  <2>1. PICK m \in Waiting(p) :
          /\ ClaimUserMessage(p, m)
          /\ pod' = [pod EXCEPT ![p] = [@ EXCEPT !.pc = "start", !.msg = m, !.claimed = TRUE,
                                                 !.first = TRUE, !.loop = FALSE, !.banner = FALSE]]
    BY <1>2 DEF ClaimNext
  <2>2. pod'[p].msg = m /\ pod'[p].pc = "start"
    BY <1>0, <2>1 DEF PodRec
  <2> QED
    BY <1>1, <2>1, <2>2
<1>3. ASSUME Steer(p), NEW m \in Waiting(p), ClaimUserMessage(p, m),
             pod' = [pod EXCEPT ![p] = [@ EXCEPT !.pc = "mark", !.msg = m, !.claimed = TRUE, !.first = TRUE]]
      PROVE  ToldAt(p)'
  <2>1. pod'[p].msg = m /\ pod'[p].pc = "mark"
    BY <1>0, <1>3 DEF PodRec
  <2> QED
    BY <1>1, <1>3, <2>1
<1>4. CASE Steer(p) /\ (Goto(p, "mark") \/ Goto(p, "settle")) /\ UNCHANGED sessionVars
  <2>1. RowsTaken /\ pod[p].pc = "steer"
    BY <1>4, RowsStayTaken DEF Steer
  <2>2. pod'[p].msg = pod[p].msg /\ pod'[p].pc \in {"mark", "settle"}
    BY <1>0, <1>4 DEF PodRec
  <2> QED
    BY <1>0, <2>1, <2>2, ToldMoves
<1> QED
  BY <1>2, <1>3, <1>4 DEF Steer

(* A stop that is consumed. *)
LEMMA ConsumedTold ==
  ASSUME TurnInv, NEW p \in Pods, ToldAt(p),
         DrainStops(p) \/ StopWhileWaiting(p) \/ WatchStop(p) \/ RunCompletes(p)
  PROVE  ToldAt(p)'
<1> USE DEF Handling, Ending, InTurn, Up, Gone, Steps
<1>0. /\ pod \in [Pods -> PodRec] /\ pod[p] \in PodRec /\ pod[p].pc \in {"drain", "open", "run"}
      /\ UNCHANGED sessionVars /\ RowsTaken
  <2>1. UNCHANGED sessionVars
    BY DEF DrainStops, StopWhileWaiting, WatchStop, RunCompletes
  <2> QED
    BY <2>1, RowsStayTaken DEF TurnInv, TurnTypeOK, PodRec, DrainStops, StopWhileWaiting, WatchStop, RunCompletes
<1>1. delivery[pod[p].msg] \in Taken /\ pod[p].msg \in Msgs
  BY <1>0 DEF TurnInv, PodInv, HandAt, Hand, Owned, Taken
<1>2. ASSUME told' = told \cup {<<p, pod[p].msg>>}, pod'[p].msg = pod[p].msg,
             pod'[p].pc = "floor" \/ (pod'[p].pc \in {"run", "commit"} /\ pod'[p].told)
      PROVE  ToldAt(p)'
  BY <1>0, <1>1, <1>2 DEF ToldAt, RowsTaken
<1>3. CASE DrainStops(p)
  <2>1. CASE stop # 0 /\ pod[p].msg <= stop
    BY <1>0, <1>2, <1>3, <2>1 DEF DrainStops, PodRec
  <2>2. CASE ~(stop # 0 /\ pod[p].msg <= stop)
    <3>1. /\ pod[p].pc = "drain" /\ told' = told
          /\ pod'[p] = [pod[p] EXCEPT !.pc = "mark", !.loop = TRUE]
      BY <1>0, <1>3, <2>2 DEF DrainStops
    <3>2. pod'[p].msg = pod[p].msg /\ pod'[p].pc = "mark"
      BY <1>0, <3>1 DEF PodRec
    <3> QED
      BY <1>0, <3>1, <3>2 DEF ToldAt, RowsTaken
  <2> QED
    BY <2>1, <2>2
<1>4. CASE StopWhileWaiting(p)
  BY <1>0, <1>2, <1>4 DEF StopWhileWaiting, Consumed, PodRec
<1>5. CASE WatchStop(p)
  <2>1. pod'[p] = [pod[p] EXCEPT !.told = TRUE] /\ pod[p].pc = "run"
    BY <1>0, <1>5 DEF WatchStop
  <2> QED
    BY <1>0, <1>2, <1>5, <2>1 DEF WatchStop, Consumed, PodRec
<1>6. CASE RunCompletes(p)
  <2>1. pod'[p] = [pod[p] EXCEPT !.pc = "commit", !.told = pod[p].told \/ stop # 0] /\ pod[p].pc = "run"
    BY <1>0, <1>6 DEF RunCompletes
  <2>2. pod'[p].pc = "commit" /\ pod'[p].msg = pod[p].msg /\ pod'[p].told = (pod[p].told \/ stop # 0)
    BY <1>0, <2>1 DEF PodRec
  <2>3. CASE stop # 0
    BY <1>2, <1>6, <2>2, <2>3 DEF RunCompletes, Consumed
  <2>4. CASE stop = 0
    BY <1>0, <1>6, <2>1, <2>2, <2>4, ToldMoves DEF RunCompletes
  <2> QED
    BY <2>3, <2>4
<1> QED
  BY <1>3, <1>4, <1>5, <1>6

LEMMA ToldStep ==
  ASSUME TurnInv, \A p \in Pods : ToldAt(p), [TurnNext]_turnVars
  PROVE  \A p \in Pods : ToldAt(p)'
<1>1. CASE UNCHANGED turnVars \/ UserSend \/ UserStop \/ UserWithdraws
  <2>1. pod' = pod /\ told' = told
    BY <1>1 DEF turnVars, loopVars, history, UserSend, UserStop, UserWithdraws
  <2>2. RowsTaken
    BY <1>1, RowsStayTaken DEF turnVars, UserSend, AppendUserMessageIfActive, UserStop, UserWithdraws
  <2> QED
    BY <2>1, <2>2 DEF ToldAt, RowsTaken
<1>2. ASSUME NEW p \in Pods, PodKinds(p) PROVE \A q \in Pods : ToldAt(q)'
  <2>1. \A q \in Pods \ {p} : pod'[q] = pod[q] /\ pod[q].pc \in Gone \cup {"off"}
    BY <1>2, OnlyMover, Alone DEF StartPod, TurnInv, OnePod, Gone
  <2>2. told' \in {told, told \cup {<<p, pod[p].msg>>}}
    BY <1>2
       DEF StartPod, Crash, ExitResumable, ExitParked, PodStep, RestoreRecover,
           RestoreContinue, AppendContinuation, StartupIdle, RetireStopped,
           CompleteRetired, ClaimNext, DeferredBanner, ClearBoundary, DrainStops, Steer,
           MarkAutonomous, ReservePass, StopWhileWaiting, OpenRun, FoldImmediate,
           WatchStop, RunCompletes, RunIsStopped, RunFails, CommitReply, ClosePass,
           Decide, RecordFloor, RecordRelease, Park, Settle, Consumed, Lost, workState,
           bounds, history, PodKinds
  <2>3. ASSUME NEW q \in Pods, q # p PROVE ToldAt(q)'
    <3>1. \A m : <<q, m>> \in told' => <<q, m>> \in told
      BY <2>2, <2>3
    <3> QED
      BY <2>1, <2>3, <3>1 DEF ToldAt, Up, Gone, Handling, InTurn
  <2>4. ToldAt(p)'
    <3>1. CASE StartPod(p)
      <4>1. pod[p].pc = "off" /\ pod'[p].pc = "recover" /\ told' = told
        BY <3>1 DEF StartPod, Fresh, history, TurnInv, TurnTypeOK
      <4>2. \A m \in Msgs : <<p, m>> \notin told
        BY <4>1 DEF ToldAt
      <4> QED
        BY <4>1, <4>2 DEF ToldAt, Handling, InTurn
    <3>2. CASE RestoreRecover(p)
      <4>1. pod[p].pc = "recover" /\ pod'[p].pc = "resume" /\ told' = told
        BY <3>2 DEF RestoreRecover, history, TurnInv, TurnTypeOK
      <4>2. \A m \in Msgs : <<p, m>> \notin told
        BY <4>1 DEF ToldAt
      <4> QED
        BY <4>1, <4>2 DEF ToldAt, Handling, InTurn
    <3> QED
      BY <1>2, <3>1, <3>2, PloddingTold, ClaimTold, ConsumedTold DEF PodKinds, PodStep, Plodding
  <2> QED
    BY <2>3, <2>4
<1> QED
  BY <1>1, <1>2 DEF TurnNext, PodKinds

(* The pod that has consumed the stop of a message runs it no more,        *)
(* although both records of the stop may be lost (watchForStop, runPass,   *)
(* parkAfterStop).                                                         *)
THEOREM StopsHoldInTheirPod == TurnSpec => StopHoldsInItsPod
<1>1. TurnInit => \A p \in Pods : ToldAt(p)
  BY DEF TurnInit, ToldAt
<1>2. TurnInv /\ (\A p \in Pods : ToldAt(p)) /\ [TurnNext]_turnVars => (\A p \in Pods : ToldAt(p))'
  BY ToldStep
<1>3. ASSUME TurnInv, \A p \in Pods : ToldAt(p), [TurnNext]_turnVars,
             NEW p \in Pods, ~At(p, "run"), pod'[p].pc = "run"
      PROVE  <<p, pod[p].msg>> \notin told
  <2>1. OpenRun(p)
    <3>1. PodKinds(p)
      <4>1. pod'[p] # pod[p]
        BY <1>3
      <4>2. PICK q \in Pods : PodKinds(q)
        BY <1>3, <4>1 DEF TurnNext, PodKinds, turnVars, loopVars, UserSend, UserStop, UserWithdraws
      <4>3. q = p
        BY <1>3, <4>1, <4>2, OnlyMover
      <4> QED
        BY <4>2, <4>3
    <3>2. pod \in [Pods -> PodRec] /\ pod[p] \in PodRec
      BY <1>3 DEF TurnInv, TurnTypeOK, PodRec
    <3>3. ASSUME NEW c \in Steps \ {"run"} PROVE ~Goto(p, c)
      BY <1>3, <3>2, <3>3 DEF PodRec
    <3>4. ASSUME NEW r, r.pc # "run" PROVE pod' # [pod EXCEPT ![p] = r]
      BY <1>3, <3>2, <3>4
    <3>4a. ASSUME NEW c \in Steps \ {"run"} PROVE ~GotoMute(p, c)
      BY <1>3, <3>2, <3>4a DEF PodRec, GotoMute
    <3>5. ~(StartPod(p) \/ Crash(p) \/ ExitResumable(p) \/ ExitParked(p))
      <4>1. [Fresh EXCEPT !.pc = "recover", !.floor = stopped, !.marked = marker].pc # "run"
        BY DEF Fresh
      <4> QED
        BY <3>3, <3>4a, <3>4, <4>1 DEF StartPod, Crash, ExitResumable, ExitParked, Steps
    <3>6. ~(\/ RestoreRecover(p) \/ RestoreContinue(p) \/ StartupIdle(p)
            \/ RetireStopped(p) \/ CompleteRetired(p) \/ ClearBoundary(p)
            \/ StopWhileWaiting(p) \/ RunIsStopped(p) \/ RunFails(p)
            \/ ClosePass(p) \/ RecordRelease(p))
      BY <3>3, <3>4a DEF RestoreRecover, RestoreContinue, IdleOrPoll, StartupIdle, RetireStopped,
         CompleteRetired, ClearBoundary, StopWhileWaiting, RunIsStopped, RunFails, ClosePass, RecordRelease, Steps
    <3>7. ~(ClaimNext(p) \/ DeferredBanner(p) \/ DrainStops(p) \/ Steer(p))
      <4>1. \A m : [pod[p] EXCEPT !.pc = "start", !.msg = m, !.claimed = TRUE,
                                  !.first = TRUE, !.loop = FALSE, !.banner = FALSE].pc # "run"
        BY <3>2 DEF PodRec
      <4>2. \A m : [pod[p] EXCEPT !.pc = "mark", !.msg = m, !.claimed = TRUE, !.first = TRUE].pc # "run"
        BY <3>2 DEF PodRec
      <4>3. [pod[p] EXCEPT !.pc = "mark", !.loop = TRUE].pc # "run"
        BY <3>2 DEF PodRec
      <4>4. CASE ClaimNext(p)
        BY <3>4, <4>1, <4>4 DEF ClaimNext
      <4>5. CASE DeferredBanner(p)
        <5>1. pod[p].pc = "poll" /\ pod'[p] = [pod[p] EXCEPT !.banner = FALSE]
          BY <3>2, <4>5 DEF DeferredBanner
        <5> QED
          BY <1>3, <3>2, <5>1 DEF PodRec
      <4>6. CASE DrainStops(p)
        BY <3>3, <3>4, <4>3, <4>6 DEF DrainStops, Steps
      <4>7. CASE Steer(p)
        BY <3>3, <3>4, <4>2, <4>7 DEF Steer, Steps
      <4> QED
        BY <4>4, <4>5, <4>6, <4>7
    <3>8. ~(MarkAutonomous(p) \/ ReservePass(p) \/ FoldImmediate(p) \/ WatchStop(p) \/ RunCompletes(p))
      <4>1. [pod[p] EXCEPT !.pc = "reserve", !.marked = TRUE].pc # "run"
        BY <3>2 DEF PodRec
      <4>2. \A q : [pod[p] EXCEPT !.pc = "open", !.pass = q].pc # "run"
        BY <3>2 DEF PodRec
      <4>3. CASE MarkAutonomous(p)
        BY <3>3, <3>4, <4>1, <4>3 DEF MarkAutonomous, Steps
      <4>4. CASE ReservePass(p)
        BY <3>4, <4>2, <4>4 DEF ReservePass
      <4> QED
        BY <1>3, <4>3, <4>4 DEF FoldImmediate, WatchStop, RunCompletes
    <3>9. ~(CommitReply(p) \/ Decide(p) \/ RecordFloor(p) \/ Park(p) \/ Settle(p))
      <4>1. /\ [pod[p] EXCEPT !.pc = "close", !.claimed = FALSE].pc # "run"
            /\ [pod[p] EXCEPT !.pc = "steer", !.first = FALSE].pc # "run"
            /\ [pod[p] EXCEPT !.pc = "release", !.floor = pod[p].msg].pc # "run"
            /\ [pod[p] EXCEPT !.pc = "poll", !.marked = FALSE].pc # "run"
        BY <3>2 DEF PodRec
      <4>2. \A b : [pod[p] EXCEPT !.pc = IF pod[p].loop THEN "settle" ELSE "poll",
                                  !.banner = b, !.told = FALSE].pc # "run"
        BY <3>2 DEF PodRec
      <4> QED
        BY <3>3, <3>4, <4>1, <4>2 DEF CommitReply, Decide, RecordFloor, Park, Settle, Steps
    <3> QED
      BY <3>1, <3>5, <3>6, <3>7, <3>8, <3>9 DEF PodKinds, PodStep
  <2> QED
    BY <1>3, <2>1 DEF OpenRun, ToldAt, Handling, InTurn, Ending
<1>4. TurnInv /\ (\A p \in Pods : ToldAt(p)) /\ [TurnNext]_turnVars =>
        [\A p \in Pods : ~At(p, "run") /\ pod'[p].pc = "run" => <<p, pod[p].msg>> \notin told]_turnVars
  BY <1>3
<1> QED
  BY <1>1, <1>2, <1>4, TurnInvariance, PTL DEF TurnSpec, StopHoldsInItsPod
=============================================================================
