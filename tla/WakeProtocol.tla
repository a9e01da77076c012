---------------------------- MODULE WakeProtocol ----------------------------
(***************************************************************************)
(* Waking a run that has ended (internal/orchestration/wake.go): a caller  *)
(* stores its message in the session and raises spec.wakeRequests; the     *)
(* controller (agentrun_controller.go) starts an attempt when the counter  *)
(* is above status.wakeRequestsHandled.  Session and counter live in two   *)
(* stores, so every caller works in steps and may stop after any of them.  *)
(*                                                                         *)
(* A write under MergeFromWithOptimisticLock inside RetryOnConflict is one *)
(* step: it lands on the object it read or is tried again.  A write under  *)
(* plain MergeFrom is two, the read and the patch of the changed fields.   *)
(* Every caller sends one message; "running" stands for every phase with a *)
(* runner, and a request to resume without a message is not modelled.      *)
(***************************************************************************)
EXTENDS Naturals, FiniteSets

CONSTANTS
  Resumes,      (* keyed callers that may wake any phase (Slack)           *)
  Retries,      (* keyed callers of the dashboard's retry                  *)
  Plain,        (* callers of WakeAgentRun, without a key                  *)
  Once,         (* delivery ids of WakeAgentRunOnce                        *)
  NoDelivery,   (* no annotation last-wake-delivery                        *)
  MaxRetries,   (* spec.limits.maxRetries                                  *)
  MaxCrashes,   (* bound: calls and reconciles that break off and restart  *)
  MaxRequests   (* bound: stop and promote requests                        *)

Keyed   == Resumes \cup Retries
Callers == Keyed \cup Plain \cup Once

ASSUME CallerAssumption ==
  /\ IsFiniteSet(Callers)
  /\ Resumes \cap Retries = {} /\ Keyed \cap (Plain \cup Once) = {} /\ Plain \cap Once = {}
  /\ NoDelivery \notin Once
ASSUME WakeBoundAssumption == MaxRetries \in Nat /\ MaxCrashes \in Nat /\ MaxRequests \in Nat

VARIABLES
  wakeRequests, (* spec.wakeRequests                                       *)
  handled,      (* status.wakeRequestsHandled                              *)
  phase,        (* status.phase                                            *)
  retryCount,   (* status.retryCount                                       *)
  slot,         (* the annotation last-wake-delivery                       *)
  asked,        (* annotations that ask for a terminal phase               *)
  target,       (* target_wake_requests of each key's intent; 0: no intent *)
  stored,       (* callers whose message is in the session                 *)
  call,         (* each caller: its step and the counter it has read       *)
  reconcile,    (* the controller's step                                   *)
  crashes, requests,   (* counters of the bounds                           *)
  settled,      (* history: messages stored before an attempt, stop, refusal*)
  raced,        (* history: keys reserved from an outdated counter         *)
  raises,       (* history: times a key has raised the counter             *)
  raised,       (* history: the counter grew since the run was cancelled   *)
  lowered       (* history: a write has lowered the counter                *)

object   == <<wakeRequests, handled, phase, retryCount, slot, asked>>
session  == <<target, stored>>
wakeHist == <<settled, raced, raises, raised, lowered>>
limits   == <<crashes, requests>>
wakeVars == <<object, session, call, reconcile, limits, wakeHist>>

Ended    == {"succeeded", "failed", "cancelled"}
Wakeable == Ended \cup {"paused"}
Callable(k) == IF k \in Retries THEN {"failed", "cancelled"} ELSE Wakeable \cup {"running"}
CallSteps == {"idle", "reserve", "patch", "bump", "fetch", "done", "refused"}
Reconciles == {"watch", "cancelled", "succeeded", "clear cancelled", "clear succeeded",
               "wake", "refuse"}

WakeTypeOK ==
  /\ wakeRequests \in Nat /\ handled \in Nat /\ retryCount \in Nat
  /\ phase \in Wakeable \cup {"running"}
  /\ slot \in Once \cup {NoDelivery}
  /\ asked \subseteq {"cancelled", "succeeded"}
  /\ target \in [Keyed -> Nat]
  /\ stored \subseteq Callers
  /\ call \in [Callers -> [step : CallSteps, seen : Nat, outdated : BOOLEAN]]
  /\ reconcile \in Reconciles
  /\ crashes \in Nat /\ requests \in Nat
  /\ settled \subseteq stored
  /\ raced \subseteq Keyed
  /\ raises \in [Keyed -> Nat]
  /\ raised \in BOOLEAN /\ lowered \in BOOLEAN

WakeInit ==
  /\ wakeRequests = 0 /\ handled = 0 /\ retryCount = 0
  /\ phase = "running"
  /\ slot = NoDelivery
  /\ asked = {}
  /\ target = [k \in Keyed |-> 0]
  /\ stored = {}
  /\ call = [c \in Callers |-> [step |-> "idle", seen |-> 0, outdated |-> FALSE]]
  /\ reconcile = "watch"
  /\ crashes = 0 /\ requests = 0
  /\ settled = {} /\ raced = {}
  /\ raises = [k \in Keyed |-> 0]
  /\ raised = FALSE /\ lowered = FALSE

-----------------------------------------------------------------------------
(* The callers.                                                            *)
In(c, step) == call[c].step = step
Rest(step) == [step |-> step, seen |-> 0, outdated |-> FALSE]
Turn(c, step) == call' = [call EXCEPT ![c] = Rest(step)]
Quiet == UNCHANGED <<handled, phase, retryCount, asked, reconcile, limits, settled>>

(* A write of spec.wakeRequests, and what the histories make of it.        *)
WriteCounter(n) ==
  /\ wakeRequests' = n
  /\ raised' = (raised \/ (phase = "cancelled" /\ n > wakeRequests))
  /\ lowered' = (lowered \/ n < wakeRequests)

(* A write without a key outdates what the keyed callers have read.        *)
Outdating(c, step) ==
  call' = [d \in Callers |-> IF d = c THEN Rest(step)
                             ELSE IF In(d, "reserve") THEN [call[d] EXCEPT !.outdated = TRUE]
                             ELSE call[d]]

(* wakeAgentRunIdempotent with a key: read the counter, reserve a target   *)
(* with the message, then bring the counter up to the target.              *)
KeyRead(k) ==
  /\ In(k, "idle")
  /\ call' = [call EXCEPT ![k] =
       IF phase \in Callable(k)
         THEN [step |-> "reserve", seen |-> wakeRequests, outdated |-> FALSE]
         ELSE Rest("refused")]
  /\ UNCHANGED <<wakeRequests, slot, session, raced, raises, raised, lowered>>
  /\ Quiet

(* Mutation: the target is taken from the counter alone.                   *)
AboveCounter(n, seen) == n = seen + 1

(* ReserveWakeIntent: the least number above the counter that was read and *)
(* above the target of every intent.                                       *)
LeastTarget(n, seen) ==
  /\ n > seen /\ \A k \in Keyed : n > target[k]
  /\ n = seen + 1 \/ \E k \in Keyed : n = target[k] + 1

KeyReserve(k) ==
  /\ In(k, "reserve")
  /\ \/ /\ target[k] = 0
        /\ \E n \in {call[k].seen + 1} \cup {target[j] + 1 : j \in Keyed} :
             LeastTarget(n, call[k].seen) /\ target' = [target EXCEPT ![k] = n]
        /\ stored' = stored \cup {k}
        /\ raced' = IF call[k].outdated THEN raced \cup {k} ELSE raced
     \/ target[k] # 0 /\ UNCHANGED <<session, raced>>
  /\ Turn(k, "patch")
  /\ UNCHANGED <<wakeRequests, slot, raises, raised, lowered>>
  /\ Quiet

(* Mutation: a keyed caller raises the counter like any other.             *)
KeyPatchIncrement(k) ==
  /\ In(k, "patch")
  /\ phase \in Callable(k)
  /\ WriteCounter(wakeRequests + 1)
  /\ raises' = [raises EXCEPT ![k] = @ + 1]
  /\ Turn(k, "done")
  /\ UNCHANGED <<slot, session, raced>>
  /\ Quiet

KeyPatch(k) ==
  /\ In(k, "patch")
  /\ \/ /\ phase \notin Callable(k)
        /\ Turn(k, "refused")
        /\ UNCHANGED <<wakeRequests, raises, raised, lowered>>
     \/ /\ phase \in Callable(k)
        /\ wakeRequests >= target[k]
        /\ Turn(k, "done")
        /\ UNCHANGED <<wakeRequests, raises, raised, lowered>>
     \/ /\ phase \in Callable(k)
        /\ wakeRequests < target[k]
        /\ WriteCounter(target[k])
        /\ raises' = [raises EXCEPT ![k] = @ + 1]
        /\ Turn(k, "done")
  /\ UNCHANGED <<slot, session, raced>>
  /\ Quiet

(* wakeAgentRun without a key: the message, then one increment.            *)
PlainAppend(c) ==
  /\ In(c, "idle")
  /\ stored' = stored \cup {c}
  /\ Turn(c, "bump")
  /\ UNCHANGED <<wakeRequests, slot, target, raced, raises, raised, lowered>>
  /\ Quiet

PlainBump(c) ==
  /\ In(c, "bump")
  /\ WriteCounter(wakeRequests + 1)
  /\ Outdating(c, "done")
  /\ UNCHANGED <<slot, session, raced, raises>>
  /\ Quiet

(* wakeAgentRunOnceWithOptions: the message at most once, then annotation  *)
(* and increment in a patch computed from an earlier read.                 *)
OnceDeliver(d) ==
  /\ In(d, "idle")
  /\ IF slot = d
       THEN Turn(d, "done") /\ UNCHANGED stored
       ELSE Turn(d, "fetch") /\ stored' = stored \cup {d}
  /\ UNCHANGED <<wakeRequests, slot, target, raced, raises, raised, lowered>>
  /\ Quiet

OnceFetch(d) ==
  /\ In(d, "fetch")
  /\ call' = [call EXCEPT ![d] =
       IF slot = d THEN Rest("done") ELSE [Rest("bump") EXCEPT !.seen = wakeRequests]]
  /\ UNCHANGED <<wakeRequests, slot, session, raced, raises, raised, lowered>>
  /\ Quiet

OncePatch(d) ==
  /\ In(d, "bump")
  /\ slot' = d
  /\ WriteCounter(call[d].seen + 1)
  /\ Outdating(d, "done")
  /\ UNCHANGED <<session, raced, raises>>
  /\ Quiet

(* A keyed caller or a reconcile that broke off is tried again from the    *)
(* start; a plain caller is not.                                           *)
Breaks == crashes < MaxCrashes /\ crashes' = crashes + 1

Restart(c) ==
  /\ c \notin Plain
  /\ call[c].step \notin {"idle", "refused"}
  /\ Breaks
  /\ Turn(c, "idle")
  /\ UNCHANGED <<object, session, reconcile, requests, wakeHist>>

CallerNext ==
  \/ \E k \in Keyed : KeyRead(k) \/ KeyReserve(k) \/ KeyPatch(k)
  \/ \E c \in Plain : PlainAppend(c) \/ PlainBump(c)
  \/ \E d \in Once  : OnceDeliver(d) \/ OnceFetch(d) \/ OncePatch(d)
  \/ \E c \in Callers : Restart(c)

-----------------------------------------------------------------------------
(* The run and its controller.  Reconciles of one run are sequential; what *)
(* a reconcile decides on its first read is checked again when it patches. *)
CallersQuiet == UNCHANGED <<wakeRequests, slot, session, call, raced, raises, lowered>>

Outstanding == wakeRequests > handled
Exhausted   == phase = "failed" /\ MaxRetries > 0 /\ retryCount >= MaxRetries

RunEnds ==
  /\ phase = "running"
  /\ phase' \in {"succeeded", "failed", "paused"}
  /\ UNCHANGED <<handled, retryCount, asked, reconcile, limits, settled, raised>>
  /\ CallersQuiet

(* reconcilePausedRun: raised limits resume a run that nobody wakes.       *)
ResumePaused ==
  /\ reconcile = "watch"
  /\ asked = {}
  /\ phase = "paused" /\ ~Outstanding
  /\ phase' = "running"
  /\ UNCHANGED <<handled, retryCount, asked, reconcile, limits, settled, raised>>
  /\ CallersQuiet

(* CancelAgentRun and PromoteAgentRun refuse a run that has ended.         *)
AskTermination ==
  /\ requests < MaxRequests
  /\ phase \notin Ended
  /\ requests' = requests + 1
  /\ \E ph \in {"cancelled", "succeeded"} : asked' = asked \cup {ph}
  /\ UNCHANGED <<handled, phase, retryCount, reconcile, crashes, settled, raised>>
  /\ CallersQuiet

Clear(ph) == IF ph = "cancelled" THEN "clear cancelled" ELSE "clear succeeded"

(* handleTerminationRequest: a run that has already ended only loses the   *)
(* annotation.  Cancellation is looked at first.                           *)
SeeTermination(ph) ==
  /\ reconcile = "watch"
  /\ ph \in asked
  /\ ph = "succeeded" => "cancelled" \notin asked
  /\ reconcile' = IF phase \in Ended THEN Clear(ph) ELSE ph
  /\ UNCHANGED <<handled, phase, retryCount, asked, limits, settled, raised>>
  /\ CallersQuiet

(* Mutation: a stop leaves the wakes requested before it outstanding.      *)
TerminateKeepingWakes(ph) ==
  /\ reconcile = ph
  /\ reconcile' = Clear(ph)
  /\ phase' = IF phase \in Ended THEN phase ELSE ph
  /\ raised' = (raised /\ ~(ph = "cancelled" /\ phase \notin Ended))
  /\ UNCHANGED <<handled, retryCount, asked, limits, settled>>
  /\ CallersQuiet

(* The sandbox is gone; a run that ended meanwhile keeps its outcome.  A   *)
(* stop supersedes every wake requested before it.                         *)
Terminate(ph) ==
  /\ reconcile = ph
  /\ reconcile' = Clear(ph)
  /\ \/ /\ phase \in Ended
        /\ UNCHANGED <<phase, handled, settled, raised>>
     \/ /\ phase \notin Ended
        /\ phase' = ph
        /\ IF ph = "cancelled"
             THEN handled' = wakeRequests /\ settled' = stored /\ raised' = FALSE
             ELSE UNCHANGED <<handled, settled, raised>>
  /\ UNCHANGED <<retryCount, asked, limits>>
  /\ CallersQuiet

ClearTermination(ph) ==
  /\ reconcile = Clear(ph)
  /\ reconcile' = "watch"
  /\ asked' = asked \ {ph}
  /\ UNCHANGED <<handled, phase, retryCount, limits, settled, raised>>
  /\ CallersQuiet

(* Mutation: a paused run is not woken.                                    *)
SeeWakeIfEnded ==
  /\ reconcile = "watch"
  /\ asked = {}
  /\ Outstanding
  /\ phase \in Ended
  /\ reconcile' = IF Exhausted THEN "refuse" ELSE "wake"
  /\ UNCHANGED <<handled, phase, retryCount, asked, limits, settled, raised>>
  /\ CallersQuiet

(* handleWakeRequest.                                                      *)
SeeWake ==
  /\ reconcile = "watch"
  /\ asked = {}
  /\ Outstanding
  /\ phase \in Wakeable
  /\ reconcile' = IF Exhausted THEN "refuse" ELSE "wake"
  /\ UNCHANGED <<handled, phase, retryCount, asked, limits, settled, raised>>
  /\ CallersQuiet

RefuseWake ==
  /\ reconcile = "refuse"
  /\ reconcile' = "watch"
  /\ IF phase = "failed" /\ Outstanding
       THEN handled' = wakeRequests /\ settled' = stored
       ELSE UNCHANGED <<handled, settled>>
  /\ UNCHANGED <<phase, retryCount, asked, limits, raised>>
  /\ CallersQuiet

StartAttempt ==
  /\ reconcile = "wake"
  /\ reconcile' = "watch"
  /\ IF Outstanding /\ phase \in Wakeable
       THEN /\ phase' = "running"
            /\ handled' = wakeRequests
            /\ retryCount' = IF phase = "failed" THEN retryCount + 1 ELSE retryCount
            /\ settled' = stored
            /\ raised' = FALSE
       ELSE UNCHANGED <<phase, handled, retryCount, settled, raised>>
  /\ UNCHANGED <<asked, limits>>
  /\ CallersQuiet

ReconcileBreaks ==
  /\ reconcile # "watch"
  /\ Breaks
  /\ reconcile' = "watch"
  /\ UNCHANGED <<handled, phase, retryCount, asked, requests, settled, raised>>
  /\ CallersQuiet

Reconcile ==
  \/ \E ph \in {"cancelled", "succeeded"} :
       SeeTermination(ph) \/ Terminate(ph) \/ ClearTermination(ph)
  \/ SeeWake \/ RefuseWake \/ StartAttempt

WakeNext ==
  CallerNext \/ RunEnds \/ ResumePaused \/ AskTermination \/ Reconcile \/ ReconcileBreaks

(* The controller reconciles whenever the object changes and requeues what *)
(* it could not finish; no caller, user or run is obliged to anything.     *)
WakeSpec == WakeInit /\ [][WakeNext]_wakeVars /\ WF_wakeVars(Reconcile)

-----------------------------------------------------------------------------
(* Properties.                                                             *)

(* A caller that was told of success is not forgotten: an attempt began    *)
(* after its message was stored, or a stop or an exhausted retry budget    *)
(* dismissed it, or a wake is still outstanding.  The code keeps this for  *)
(* all callers but two, which is why they are named: a key reserved after  *)
(* an unkeyed wake outdated the counter it had read, and everyone once an  *)
(* unlocked patch has lowered the counter.                                 *)
NoLostWake ==
  lowered \/ \A c \in Callers \ raced :
    In(c, "done") => c \in settled \/ Outstanding

(* One key raises the counter at most once, however often its call breaks  *)
(* off and is tried again, as long as nobody lowers the counter.           *)
KeyCountedOnce == lowered \/ \A k \in Keyed : raises[k] <= 1

(* A stop supersedes every wake requested before it: a run leaves the      *)
(* cancelled phase only if the counter grew after the stop.                *)
StopSupersedes == [][phase = "cancelled" /\ phase' # phase => raised]_wakeVars

(* No wake of an ended run is left to lie: each is followed by an attempt, *)
(* a refusal or a stop, unless its counter is lowered.                     *)
WakeIsHandled == []<>(Outstanding => phase = "running")

(* What makes the two invariants inductive: a caller past its first step   *)
(* has stored its message, and while no write has lowered the counter a    *)
(* kept message stays kept, a key that has not been outdated will draw a   *)
(* target above the counter, and whoever finds his work done by the        *)
(* counter, by his key or by the annotation is already kept.               *)
Kept(c) == c \in settled \/ Outstanding

StoredFirst ==
  /\ \A c \in Callers : call[c].step \in {"patch", "bump", "fetch", "done"} => c \in stored
  /\ \A k \in Keyed : k \in stored <=> target[k] # 0
  /\ slot # NoDelivery => slot \in stored

Reached(k) == target[k] # 0 /\ target[k] <= wakeRequests

KeysKept ==
  \A k \in Keyed :
    /\ k \notin raced /\ Reached(k) => Kept(k)
    /\ In(k, "done") => Reached(k)
    /\ In(k, "reserve") /\ ~call[k].outdated =>
         wakeRequests <= call[k].seen \/ \E j \in Keyed : wakeRequests <= target[j]
    /\ raises[k] = 0 \/ (raises[k] = 1 /\ Reached(k))

OthersKept ==
  /\ \A c \in Plain \cup Once : In(c, "done") => Kept(c)
  /\ \A d \in Once : slot = d \/ (In(d, "bump") /\ call[d].seen < wakeRequests) => Kept(d)

WakeInv ==
  /\ WakeTypeOK
  /\ StoredFirst
  /\ phase = "cancelled" => raised \/ ~Outstanding
  /\ ~lowered => handled <= wakeRequests /\ KeysKept /\ OthersKept

(* What agentrun_types.go says of spec.wakeRequests, "a monotonic counter".*)
CounterIsMonotonic == [][wakeRequests' >= wakeRequests]_wakeVars
=============================================================================
