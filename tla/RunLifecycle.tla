---------------------------- MODULE RunLifecycle ----------------------------
(***************************************************************************)
(* The AgentRun controller (agentrun_controller.go, sandbox_support.go,    *)
(* runtimeprofile_admission.go): admission to the profile's capacity, the  *)
(* sandbox claim and its pod, the drain before every stop, wake, restart   *)
(* and resume, and the phase that all of them share with the worker.       *)
(*                                                                         *)
(* One run in full; of the others only the slots they hold.  A reconcile   *)
(* works on the copy its cache had at the start (seen), and the cache may  *)
(* lag at any version, also at one from just before a write of the pass.   *)
(* Its own writes, retryAgentRunStatusPatch and retryAgentRunPatch, go to  *)
(* the object under a lock and are one step.                               *)
(* Time is a choice: a deadline may have passed whenever the code asks.    *)
(* "waiting" is Question, Blocked or WaitingApproval, "gone" a deleted run.*)
(* Of status.queue only the states that admission tells apart are kept.    *)
(***************************************************************************)
EXTENDS Naturals

CONSTANTS
  Cap,          (* admission.maxConcurrentRuns                             *)
  MaxEvents     (* bound: requests of people, writes of overseer, parent   *)
                (* and of a worker that was stopped, failed reconciles,    *)
                (* lost nodes and delays of the cache                      *)

ASSUME LifecycleAssumption == Cap \in Nat \ {0} /\ MaxEvents \in Nat

VARIABLES
  run,          (* the AgentRun object                                     *)
  lag,          (* the version that the cache shows if it lags, or none    *)
  seen,         (* the copy the reconcile works on                         *)
  step, job,    (* where the reconcile is, and what for                    *)
  rivals,       (* slots held by other runs of the profile                 *)
  claim, pod,   (* the SandboxClaim and its pod                            *)
  made,         (* attempt that created the claim                          *)
  hidden,       (* those of the two that this reconcile cannot see yet     *)
  strays,       (* workers whose pod was deleted by force                  *)
  overseer,     (* the phase an overseer is about to write                 *)
  asking,       (* calls of people that have found the run under way       *)
  events,       (* those spent of MaxEvents                                *)
  excused       (* history: what went wrong that the code does not prevent *)

kube == <<claim, pod, made, strays>>
call == <<seen, step, job, hidden>>
calls == <<overseer, asking>>
runVars == <<run, lag, call, rivals, kube, calls, events, excused>>

Ended   == {"succeeded", "failed", "cancelled"}
Startup == {"pending", "admitted", "provisioning"}
Stopped(r) == r.phase \in Ended \cup {"paused"}

Phases == Startup \cup Ended \cup {"running", "waiting", "paused", "gone"}
Asks   == {"gone", "cancelled", "succeeded"}
Runs   == [phase : Phases, queue : {"other", "resuming", "provisioning"}, sandbox : BOOLEAN,
           attempt : Nat, asked : SUBSET Asks, wake : BOOLEAN, restarts : Nat,
           restarted : Nat]
Jobs   == Asks \cup {"none", "wake", "exhausted", "restart", "refuse", "ended", "paused", "stale",
                     "run", "succeed", "fail", "pause"}

(* overruled: someone revived an ended or a drained run, or took or        *)
(* dropped its slot; slipped: an old copy showed a slot that was no longer *)
(* held; missed: a drain did not see the compute it left; unrecorded: a    *)
(* claim that exists was not, or is no longer, on the object.              *)
Flaws == {"overruled", "slipped", "missed", "unrecorded"}
Note(flaw, happened) == excused' = IF happened THEN excused \cup {flaw} ELSE excused

RunTypeOK ==
  /\ run \in Runs /\ seen \in Runs /\ lag \in SUBSET Runs
  /\ step \in {"watch", "drain", "write", "clear", "count", "create", "record", "refs"}
  /\ job \in Jobs
  /\ rivals \in 0..Cap
  /\ claim \in {"none", "new", "bound", "ending"}
  /\ pod \in {"none", "starting", "up", "over", "ending"}
  /\ made \in Nat
  /\ hidden \subseteq {"claim", "pod"}
  /\ strays \in Nat
  /\ overseer \in {"idle", "waiting", "running"}
  /\ asking \subseteq Asks
  /\ events \in Nat
  /\ excused \subseteq Flaws

NewRun == [phase |-> "pending", queue |-> "other", sandbox |-> FALSE, attempt |-> 0,
           asked |-> {}, wake |-> FALSE, restarts |-> 0, restarted |-> 0]

(* A wake may have been asked for before the first reconcile.              *)
RunInit ==
  /\ run \in {NewRun, [NewRun EXCEPT !.wake = TRUE]}
  /\ seen = NewRun /\ lag = {}
  /\ step = "watch" /\ job = "none"
  /\ rivals \in 0..Cap
  /\ claim = "none" /\ pod = "none" /\ made = 0 /\ hidden = {} /\ strays = 0
  /\ overseer = "idle" /\ asking = {}
  /\ events = 0
  /\ excused = {}

Spend == events < MaxEvents /\ events' = events + 1

(* runConsumesAdmissionSlot.                                               *)
Consumes(r) ==
  /\ r.phase \notin Ended \cup {"gone"}
  /\ r.sandbox \/ r.queue # "resuming"
  /\ \/ r.phase \in {"admitted", "provisioning", "running", "waiting"}
     \/ r.sandbox
     \/ r.queue = "provisioning"

SlotsUsed == rivals + (IF Consumes(run) THEN 1 ELSE 0)

(* resetForNewAttempt; the attempt is told by status.lastWakeTime.         *)
Reset(r) == [r EXCEPT !.phase = "pending", !.queue = "other", !.sandbox = FALSE,
                      !.attempt = @ + 1]

(* Whether the copy is of the attempt that the object has reached.         *)
Current == run.attempt = seen.attempt

Outstanding(r) == r.restarts > r.restarted
PodSeen   == pod # "none" /\ "pod" \notin hidden
ClaimSeen == claim # "none" /\ "claim" \notin hidden

-----------------------------------------------------------------------------
(* What the cache shows.                                                   *)
Cached == IF lag = {} THEN {run} ELSE lag

(* A reconcile, from its read to its last write.                           *)
Goto(s, j) == step' = s /\ job' = j /\ UNCHANGED <<seen, hidden, events>>
Stop == step' = "watch" /\ job' = "none" /\ seen' = NewRun /\ hidden' = {}
Return == Stop /\ UNCHANGED events

(* Deletion goes before cancellation, cancellation before promotion.       *)
First(r, ask) ==
  /\ ask \in r.asked
  /\ ask # "gone" => "gone" \notin r.asked
  /\ ask = "succeeded" => "cancelled" \notin r.asked

(* Mutation: a paused run counts as one that has already ended.            *)
SeeTerminationUnlessStopped(r) ==
  \E ask \in Asks :
    /\ First(r, ask)
    /\ job' = ask
    /\ step' = IF ask # "gone" /\ Stopped(r) THEN "clear" ELSE "drain"

(* handleTerminationRequest: a run that has already ended only loses the   *)
(* annotation.                                                             *)
SeeTermination(r) ==
  \E ask \in Asks :
    /\ First(r, ask)
    /\ job' = ask
    /\ step' = IF ask # "gone" /\ r.phase \in Ended THEN "clear" ELSE "drain"

ToWake(r) == r.wake /\ Stopped(r)

(* Mutation: the wake does not wait for the drain.                         *)
WakeUndrained(r) == r.asked = {} /\ ToWake(r) /\ step' = "write" /\ job' = "wake"

(* handleWakeRequest, handleRestartRequest.  A failed run may have used up *)
(* limits.maxRetries.                                                      *)
SeeWake(r) ==
  /\ r.asked = {} /\ ToWake(r)
  /\ \/ step' = "drain" /\ job' = "wake"
     \/ r.phase = "failed" /\ step' = "write" /\ job' = "exhausted"

SeeRestart(r) ==
  /\ r.asked = {} /\ ~ToWake(r)
  /\ Outstanding(r)
  /\ IF Stopped(r) THEN step' = "write" /\ job' = "refuse" ELSE step' = "drain" /\ job' = "restart"

Calm(r) == r.asked = {} /\ ~ToWake(r) /\ ~Outstanding(r)

(* Mutation: only paused runs are swept.                                   *)
SeePausedOnly(r) ==
  /\ Calm(r) /\ r.phase = "paused"
  /\ step' = "drain" /\ job' = "paused"

(* reconcileTerminalRun, once the time to live of the sandbox is over, and *)
(* reconcilePausedRun, which without a sandbox only looks at the limits.   *)
SeeStopped(r) ==
  /\ Calm(r) /\ Stopped(r)
  /\ \/ r.sandbox /\ step' = "drain"
     \/ ~r.sandbox /\ r.phase = "paused" /\ step' = "write"
  /\ job' = IF r.phase = "paused" THEN "paused" ELSE "ended"

(* monitorAgentSandbox: the claim is looked up past the cache, the pod is  *)
(* not.  A missing or starting one is waited for until its deadline.       *)
Observed(r) ==
  IF claim = "none" \/ pod = "none" \/ "pod" \in hidden' THEN {"fail"}
  ELSE IF pod = "starting" THEN {"none", "fail"}
  ELSE IF pod = "over" THEN {"succeed", "fail"}
  ELSE IF r.phase = "waiting" THEN {"none"} ELSE {"none", "run"}

Monitor(r) ==
  /\ Calm(r) /\ ~Stopped(r)
  /\ r.sandbox
  /\ \/ step' = "write" /\ job' = "pause"
     \/ step' = "write" /\ job' \in Observed(r) \ {"none"}
     \/ step' = "refs" /\ claim # "none" /\ job' \in Observed(r)

(* reconcileRun without a sandbox: the runtime window, the deadline of the *)
(* reservation, then the lock, held up to the recorded claim.              *)
Provision(r) ==
  /\ Calm(r) /\ ~Stopped(r)
  /\ ~r.sandbox
  /\ \/ step' = "write" /\ job' = "pause"
     \/ r.queue = "provisioning" /\ step' = "write" /\ job' = "fail"
     \/ step' = "count" /\ job' = "none"

(* The reads at the start; one pass may follow another before the cache    *)
(* has caught up.  A reconcile that finds nothing to do is no step.        *)
Unseen ==
  /\ hidden' \in SUBSET ((IF claim \in {"new", "bound"} THEN {"claim"} ELSE {}) \cup
                          (IF pod \in {"starting", "up"} THEN {"pod"} ELSE {}))
  /\ lag' \in {lag, {}}
  /\ IF hidden' = {} /\ lag' = {} THEN UNCHANGED events ELSE Spend

Dispatch ==
  /\ step = "watch"
  /\ run.phase # "gone"
  /\ \E r \in Cached :
       /\ seen' = r
       /\ Unseen
       /\ \/ SeeTermination(r) \/ SeeWake(r) \/ SeeRestart(r) \/ SeeStopped(r)
          \/ Monitor(r) \/ Provision(r)
  /\ UNCHANGED <<run, rivals, kube, calls, excused>>

(* Mutation: the capacity is compared off by one.                          *)
GrantedOneMore == Consumes(seen) \/ rivals <= Cap

(* enforceRuntimeProfileAdmission: the grant rests on a live list, unless  *)
(* the copy shows a slot already.                                          *)
Granted == Consumes(seen) \/ rivals < Cap

(* Admission and markProvisioningAttempt, which reserves the slot.         *)
Admit ==
  /\ step = "count"
  /\ Granted
  /\ run' = IF Stopped(run) \/ run.sandbox THEN run ELSE [run EXCEPT !.queue = "provisioning"]
  /\ Goto("create", "none")
  /\ Note("slipped", Consumes(seen) /\ ~Consumes(run) /\ run.phase \notin Ended)
  /\ UNCHANGED <<lag, rivals, kube, calls>>

(* queueRunForAdmission, or the end of staleRunTimeout.                    *)
Refuse ==
  /\ step = "count"
  /\ ~Consumes(seen)
  /\ \/ /\ ~Granted
        /\ run' = IF Stopped(run) \/ Consumes(run) THEN run
                  ELSE [run EXCEPT !.phase = "pending", !.queue = "other"]
        /\ Return
     \/ Goto("write", "fail") /\ UNCHANGED run
  /\ UNCHANGED <<lag, rivals, kube, calls, excused>>

(* createPlanSandbox: a claim that is there already is taken over if its   *)
(* worker may still run, drained if not, and waited for if it is ending.   *)
Create ==
  /\ step = "create"
  /\ \/ /\ claim = "none"
        /\ claim' = "new" /\ made' = seen.attempt
        /\ Goto("record", "none")
        /\ Note("unrecorded", ~Current)
     \/ /\ claim # "none"
        /\ UNCHANGED <<claim, made, excused>>
        /\ \/ /\ claim = "ending" \/ ~ClaimSeen
              /\ Return
           \/ /\ claim # "ending" /\ ClaimSeen
              /\ IF claim = "bound" /\ (~PodSeen \/ pod = "over")
                   THEN Goto("drain", "stale") ELSE Goto("record", "none")
     \/ Goto("write", "fail") /\ UNCHANGED <<claim, made, excused>>
  /\ UNCHANGED <<run, lag, rivals, pod, strays, calls>>

(* Mutation: a run that stopped meanwhile is left alone.                   *)
RecordUnlessStopped ==
  /\ step = "record"
  /\ run' = IF ~Current \/ run.sandbox \/ Stopped(run) THEN run
            ELSE [run EXCEPT !.phase = "admitted", !.queue = "other", !.sandbox = TRUE]
  /\ Return
  /\ UNCHANGED <<lag, rivals, kube, calls, excused>>

(* patchSandboxQueued.                                                     *)
Record ==
  /\ step = "record"
  /\ run' = IF ~Current \/ run.sandbox THEN run
            ELSE IF Stopped(run) \/ (run.phase = "waiting" /\ seen.phase # "waiting")
              THEN [run EXCEPT !.sandbox = TRUE]
            ELSE [run EXCEPT !.phase = "admitted", !.queue = "other", !.sandbox = TRUE]
  /\ Return
  /\ UNCHANGED <<lag, rivals, kube, calls, excused>>

(* releaseRunSandbox: the pods, then the claim, and only a pass that lists *)
(* neither goes on.  A pod past its deletion deadline is deleted by force, *)
(* a claim is gone at once, or terminates and in the end is given up.      *)
Drained == IF job = "stale" THEN Return ELSE Goto("write", job)

Drain ==
  /\ step = "drain"
  /\ \/ /\ PodSeen
        /\ \/ pod' = "ending" /\ UNCHANGED strays /\ Return
           \/ pod = "ending" /\ pod' = "none" /\ strays' = strays + 1 /\ Stop /\ Spend
        /\ UNCHANGED <<claim, excused>>
     \/ /\ ~PodSeen /\ ClaimSeen /\ claim # "ending"
        /\ \/ claim' = "ending" /\ Return /\ UNCHANGED excused
           \/ claim' = "none" /\ Drained /\ Note("missed", pod # "none")
        /\ UNCHANGED <<pod, strays>>
     \/ /\ ~PodSeen /\ ClaimSeen /\ claim = "ending"
        /\ \/ Return /\ UNCHANGED excused
           \/ Drained /\ Note("missed", pod # "none")
        /\ UNCHANGED <<claim, pod, strays>>
     \/ /\ ~PodSeen /\ ~ClaimSeen
        /\ Drained
        /\ IF pod = "none" /\ claim = "none" THEN excused' = excused \ {"missed", "unrecorded"}
             ELSE Note("missed", TRUE)
        /\ UNCHANGED <<claim, pod, strays>>
  /\ UNCHANGED <<run, lag, rivals, made, calls>>

(* What a reconcile writes once the drain is over, or after Monitor and    *)
(* Provision: each write looks at the current object again.                *)
Writes(j) ==
  /\ step = "write" /\ job = j
  /\ UNCHANGED <<lag, rivals, kube, calls, excused>>

Delete ==
  /\ Writes("gone")
  /\ run' = [run EXCEPT !.phase = "gone", !.asked = {}]
  /\ Return

(* A stop supersedes the wakes before it; a worker that finished while its *)
(* compute drained keeps its outcome.                                      *)
Terminate(ph) ==
  /\ Writes(ph)
  /\ run' = IF run.phase \in Ended THEN [run EXCEPT !.sandbox = FALSE]
            ELSE [run EXCEPT !.phase = ph, !.queue = "other", !.sandbox = FALSE,
                             !.wake = @ /\ ph # "cancelled"]
  /\ Goto("clear", ph)

ClearRequest ==
  /\ step = "clear"
  /\ run' = [run EXCEPT !.asked = @ \ {job}]
  /\ Return
  /\ UNCHANGED <<lag, rivals, kube, calls, excused>>

WakeUp ==
  /\ Writes("wake")
  /\ run' = IF run.wake /\ Stopped(run) THEN [Reset(run) EXCEPT !.wake = FALSE] ELSE run
  /\ Return

Exhaust ==
  /\ Writes("exhausted")
  /\ run' = IF run.phase = "failed" THEN [run EXCEPT !.wake = FALSE] ELSE run
  /\ Return

(* handleRestartRequest: a stopped run only consumes the counter.          *)
Restart ==
  /\ Writes("restart") \/ Writes("refuse")
  /\ run' = [(IF Stopped(run) \/ job = "refuse" THEN run ELSE Reset(run))
              EXCEPT !.restarted = seen.restarts]
  /\ Return

(* reconcilePausedRun: drained if the copy had a sandbox, and resumed in   *)
(* the same write if the limits allow it again.                            *)
Resume ==
  /\ step = "write" /\ job = "paused"
  /\ UNCHANGED <<lag, rivals, kube, calls>>
  /\ Note("unrecorded", run.phase = "paused" /\ run.sandbox /\ ~seen.sandbox)
  /\ \/ /\ run' = IF run.phase # "paused" THEN run ELSE [run EXCEPT !.sandbox = FALSE]
        /\ Return
     \/ /\ run.phase = "paused"
        /\ run' = [run EXCEPT !.sandbox = FALSE, !.attempt = @ + 1,
                              !.phase = "provisioning", !.queue = "resuming"]
        /\ Stop /\ Spend

(* clearRunSandboxStatus.                                                  *)
Sweep ==
  /\ Writes("ended")
  /\ run' = IF Current /\ run.sandbox = seen.sandbox THEN [run EXCEPT !.sandbox = FALSE] ELSE run
  /\ Return

(* syncAgentSandboxRefs, when the pod is not the recorded one.             *)
SyncRefs ==
  /\ step = "refs"
  /\ run' = IF Stopped(run) \/ ~Current THEN run ELSE [run EXCEPT !.sandbox = TRUE]
  /\ IF job = "none" THEN Return ELSE Goto("write", job)
  /\ UNCHANGED <<lag, rivals, kube, calls, excused>>

(* Mutation: whatever the phase is by now.                                 *)
PromoteAnyPhase ==
  /\ Writes("run")
  /\ run' = IF Current THEN [run EXCEPT !.phase = "running", !.queue = "other"] ELSE run
  /\ Return

(* patchRunning.                                                           *)
Promote ==
  /\ Writes("run")
  /\ run' = IF Current /\ run.phase \in Startup \cup {"running"}
            THEN [run EXCEPT !.phase = "running", !.queue = "other"] ELSE run
  /\ Return

(* patchSucceeded, markRunFailed, markRunPaused.                           *)
Conclude(j, ph) ==
  /\ Writes(j)
  /\ run' = IF Current /\ ~Stopped(run)
            THEN [run EXCEPT !.phase = ph, !.queue = "other"]
            ELSE run
  /\ Return

Finish ==
  \/ Delete \/ Terminate("cancelled") \/ Terminate("succeeded") \/ ClearRequest
  \/ WakeUp \/ Exhaust \/ Restart \/ Resume \/ Sweep \/ SyncRefs \/ Promote
  \/ Conclude("succeed", "succeeded") \/ Conclude("fail", "failed") \/ Conclude("pause", "paused")

Reconcile == Dispatch \/ Admit \/ Refuse \/ Create \/ Record \/ Drain \/ Finish

(* An API error or a crash ends the reconcile and releases the lock.  A    *)
(* claim that was created and is not recorded yet stays behind.            *)
Break ==
  /\ step # "watch"
  /\ Stop /\ Spend
  /\ Note("unrecorded", step = "record")
  /\ UNCHANGED <<run, lag, rivals, kube, calls>>

-----------------------------------------------------------------------------
(* The other runs of the profile are counted and reserved under the lock.  *)
Locked == step \in {"count", "create", "record"}

RivalAdmitted ==
  /\ ~Locked
  /\ SlotsUsed < Cap
  /\ rivals' = rivals + 1
  /\ UNCHANGED <<run, lag, call, kube, calls, events, excused>>

RivalEnds ==
  /\ rivals > 0
  /\ rivals' = rivals - 1
  /\ UNCHANGED <<run, lag, call, kube, calls, events, excused>>

(* The sandbox provider, the kubelet and the cache.                        *)
KubeQuiet == UNCHANGED <<run, lag, call, rivals, calls, events, excused, made, strays>>

PodStarts ==
  /\ claim = "new" /\ pod = "none"
  /\ claim' = "bound" /\ pod' = "starting"
  /\ KubeQuiet

PodMoves ==
  /\ \/ pod = "starting" /\ pod' \in {"up", "over"}
     \/ pod = "up" /\ pod' = "over"
  /\ UNCHANGED claim
  /\ KubeQuiet

(* A pod whose claim is going or gone is deleted with it, and every claim  *)
(* with its run.                                                           *)
Collect ==
  /\ \/ claim \in {"none", "ending"} /\ pod \notin {"none", "ending"}
        /\ pod' = "ending" /\ UNCHANGED claim
     \/ run.phase = "gone" /\ claim \in {"new", "bound"}
        /\ claim' = "ending" /\ UNCHANGED pod
  /\ KubeQuiet

PodGoes ==
  /\ pod = "ending"
  /\ pod' = "none"
  /\ UNCHANGED claim
  /\ KubeQuiet

ClaimGoes ==
  /\ claim = "ending"
  /\ claim' = "none"
  /\ UNCHANGED pod
  /\ KubeQuiet

(* The cache stops to follow the object, and follows it again.             *)
Delay ==
  /\ lag' = {run}
  /\ Spend
  /\ UNCHANGED <<run, call, rivals, kube, calls, excused>>

CatchUp ==
  /\ lag # {}
  /\ lag' = {}
  /\ UNCHANGED <<run, call, rivals, kube, calls, events, excused>>

Provide == PodStarts \/ PodMoves \/ Collect \/ PodGoes \/ ClaimGoes \/ Delay \/ CatchUp

-----------------------------------------------------------------------------
(* Everyone else who writes the object: none of them looks at the phase at *)
(* the moment of the write.                                                *)
Outsider == UNCHANGED <<lag, call, rivals, kube>>

Overruling ==
  \/ run.phase \in Ended /\ run'.phase \notin Ended
  \/ run.phase = "paused" /\ ~run.sandbox /\ ~Stopped(run')
  \/ ~Consumes(run) /\ Consumes(run')

WritePhase(ph) ==
  /\ run.phase # "gone"
  /\ \E q \in {run.queue, "other"} : run' = [run EXCEPT !.phase = ph, !.queue = q]
  /\ Note("overruled", Overruling)

(* The worker: UpdatePhase, SetUserInputRequest, pauseForCostCap and the   *)
(* final result, also while its pod is terminating or after it was deleted *)
(* by force.                                                               *)
WorkerWrites ==
  /\ \/ pod \in {"up", "ending"} /\ UNCHANGED strays
     \/ strays > 0 /\ strays' = strays - 1
  /\ \E ph \in {"running", "waiting", "succeeded", "failed", "paused"} : WritePhase(ph)
  /\ IF Overruling \/ run.phase \in Ended THEN Spend ELSE UNCHANGED events
  /\ UNCHANGED <<lag, call, rivals, claim, pod, made, calls>>

(* escalate and the managed input response of the overseer: the phase is   *)
(* judged on one read and written after many other calls.                  *)
OverseerReads ==
  /\ overseer = "idle"
  /\ ~Stopped(run) /\ run.phase # "gone"
  /\ overseer' \in {"waiting", "running"}
  /\ Spend
  /\ UNCHANGED <<run, asking, excused>> /\ Outsider

OverseerWrites ==
  /\ overseer # "idle"
  /\ WritePhase(overseer)
  /\ overseer' = "idle"
  /\ UNCHANGED <<asking, events>> /\ Outsider

(* CancelChildRun and RetryChildRun of the parent's team service: neither  *)
(* drains, and the retry drops the reference to the sandbox.               *)
ParentCancels ==
  /\ run.phase \notin Ended
  /\ WritePhase("cancelled")
  /\ Spend
  /\ UNCHANGED calls /\ Outsider

ParentRetries ==
  /\ run.phase # "gone"
  /\ run' = [run EXCEPT !.phase = "pending", !.queue = "other", !.sandbox = FALSE]
  /\ excused' = excused
       \cup (IF Stopped(run) \/ Consumes(run) THEN {"overruled"} ELSE {})
       \cup (IF claim # "none" \/ pod # "none" THEN {"unrecorded"} ELSE {})
  /\ Spend
  /\ UNCHANGED calls /\ Outsider

(* People: CancelAgentRun and PromoteAgentRun refuse a run that has ended, *)
(* but the read and the annotation, a patch without a lock, are two calls. *)
AskReads ==
  /\ run.phase # "gone"
  /\ \E ask \in Asks \ asking :
       /\ ask # "gone" => run.phase \notin Ended
       /\ asking' = asking \cup {ask}
  /\ Spend
  /\ UNCHANGED <<run, overseer, excused>> /\ Outsider

Ask ==
  /\ run.phase # "gone"
  /\ \E ask \in asking :
       /\ run' = [run EXCEPT !.asked = @ \cup {ask}]
       /\ asking' = asking \ {ask}
  /\ UNCHANGED <<overseer, events, excused>> /\ Outsider

AskMore ==
  /\ run.phase # "gone"
  /\ \/ run' = [run EXCEPT !.wake = TRUE]
     \/ run' = [run EXCEPT !.restarts = @ + 1]
  /\ Spend
  /\ UNCHANGED <<calls, excused>> /\ Outsider

Others ==
  \/ RivalAdmitted \/ RivalEnds \/ WorkerWrites
  \/ OverseerReads \/ OverseerWrites \/ ParentCancels \/ ParentRetries
  \/ AskReads \/ Ask \/ AskMore

RunNext == Reconcile \/ Break \/ Provide \/ Others

RunSpec ==
  /\ RunInit /\ [][RunNext]_runVars
  /\ WF_runVars(Reconcile) /\ WF_runVars(CatchUp)
  /\ WF_runVars(Collect) /\ WF_runVars(PodGoes) /\ WF_runVars(ClaimGoes)

-----------------------------------------------------------------------------
(* Properties.  Each names the flaws that it is excused from.              *)
Excused(flaw) == flaw \in excused

(* What the copy of a pass shows to be asked of a run that is over; by the *)
(* time the pass clears it the run may have been woken.                    *)
Settled == IF step = "clear" /\ seen.phase \in Ended THEN {job} \cap seen.asked ELSE {}

(* The profile's capacity is never granted twice: not by a failed or       *)
(* repeated reconcile, a restart, a resume, or a claim that was created    *)
(* while the run was paused.                                               *)
SlotsWithinCap == Excused("overruled") \/ Excused("slipped") \/ SlotsUsed <= Cap

(* No pod outlives its attempt: whatever starts a new one, or deletes the  *)
(* run, has first seen the compute of the last one end.                    *)
OneWorkerAtATime ==
  \/ Excused("missed") \/ Excused("unrecorded")
  \/ pod # "none" => made = run.attempt /\ run.phase # "gone"

(* A stopped run without a recorded sandbox has no compute: nobody would   *)
(* look for it any more (reconcileTerminalRun).                            *)
NothingLeftBehind ==
  \/ Excused("missed") \/ Excused("unrecorded")
  \/ ~Stopped(run) \/ run.sandbox \/ step = "record"
  \/ claim \in {"none", "ending"} /\ pod = "none"

(* An ended run goes on only for a wake that it consumes; late             *)
(* observations, restarts, resumes and recorded claims leave it ended.     *)
StoppedUntilWoken ==
  [][run.phase \in Ended /\ run'.phase \notin Ended \cup {"gone"} =>
       (run.wake /\ ~run'.wake) \/ Excused("overruled")']_runVars

(* A stop, promotion or deletion that was asked for is forgotten only by a *)
(* run that is over, or by a pass whose copy showed it on a run that was   *)
(* over then: not by a pass that fails, is repeated, or meets a run that   *)
(* was never over while the request stood.                                 *)
StopsAreNotDropped ==
  [][\/ run.asked \subseteq run'.asked \cup Settled
     \/ run.phase \in Ended \/ run'.phase = "gone" \/ Excused("overruled")]_runVars

(* No stop, promotion or deletion stays unanswered, and the sandbox of an  *)
(* ended run is released, whichever passes fail or read an old cache:      *)
(* again and again nothing of this is left to do.                          *)
StopsConclude == []<>(run.asked = {} /\ ~(run.phase \in Ended /\ run.sandbox))
=============================================================================
