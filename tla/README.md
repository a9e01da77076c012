# Verification of gratefulagents: sessions, turns, runs, review loops, work items

`gratefulagents` runs coding agents as Kubernetes objects. An `AgentRun` is
reconciled by a controller, executed by a runner pod (`cmd/agent`), driven by
users through a dashboard and by an optional overseer agent through a second
controller. All of them meet in one place: the *session* of the run in
Postgres. Nothing coordinates them but the session's transactions, so
everything that must survive two writers, a dead pod or a restarted
controller is decided there. Around the run, the trigger controllers start
runs from issues, review their pull requests and deliver them; their state
lives in labels, annotations and statuses of Kubernetes objects and at GitHub,
and each of their handlers is a row of unlocked writes that may break off.

This directory holds TLA+ models of that core, the TLC runs that check them,
and TLAPS proofs about them. All paths below are relative to `src/`.

| file | what it is |
| --- | --- |
| `SessionStore.tla` | the session rows; one action per transaction of `internal/store/postgres/store.go` |
| `SessionStoreProofs.tla` | theorems about `SessionStore`, checked by TLAPS |
| `InputRequest.tla` | what the session promises of the questions an agent asks (abstract) |
| `SessionRefinement.tla` | the store implements `InputRequest`: the mapping |
| `InputResolution.tla` | agent, dashboard users and overseer controller over one pending request |
| `InputResolutionProofs.tla` | theorems about `SessionRefinement` and `InputResolution` |
| `TurnLoop.tla` | the runner pods: restore, claim, passes, commit, stop, park, crash, shutdown |
| `TurnLoopProofs.tla` | theorems about `TurnLoop` |
| `WakeProtocol.tla` | callers that wake an ended run, and the controller that counts them |
| `Wake.tla` | what waking a run promises those who send it messages (abstract) |
| `WakeRefinement.tla` | the wake protocol implements `Wake`: the mapping |
| `WakeProofs.tla` | theorems about `WakeProtocol` and its refinement |
| `RunLifecycle.tla` | the AgentRun controller: admission, claim and pod, drain, stop, wake, restart, resume |
| `RunLife.tla` | what the controller promises of a run (abstract) |
| `RunLifeRefinement.tla` | the controller implements `RunLife`: the mapping |
| `RunLifecycleProofs.tla` | theorems about `RunLifecycle` and its refinement |
| `PullRequestLoop.tla` | the review loop of one pull request: reconciler, webhook and monitor over unlocked markers |
| `ReviewLoop.tla` | what the review loop promises of a pull request (abstract) |
| `ReviewLoopRefinement.tla` | the handlers implement `ReviewLoop`: the mapping |
| `PullRequestLoopProofs.tla` | theorems about `PullRequestLoop` and its refinement |
| `MaintainerDispatch.tla` | from a dispatch command to an implementer run, within the repository's capacity |
| `MaintainerDispatchProofs.tla` | theorems about `MaintainerDispatch` |
| `MaintainerDelivery.tla` | from a merge or finalize command to a delivered work item |
| `Delivery.tla` | what merge and finalize commands promise of a work item (abstract) |
| `DeliveryRefinement.tla` | the commands implement `Delivery`: the mapping |
| `MaintainerDeliveryProofs.tla` | theorems about `MaintainerDelivery` and its refinement |
| `MC*.tla`, `MC*.cfg` | TLC instances |
| `PROJECT.json` | components, runs, mutants, map to source lines, findings, hazards, theorems |

## 1. Inventory

### 1.1 Components

**Session store** (`internal/store/postgres/store.go`, `queries/*.sql`,
`migrations/*.sql`, `internal/store/sessionclient`).
State: `agent_sessions` (phase, pending request with its id, working state),
`session_interrupts` (stop requests), wake intents and `conversation_messages` (role, delivery
state `pending / claimed / completed / cancelled`, claim token, delivery
sequence, `overseer_held`). Operations: append, poll, claim, complete,
recover claims, withdraw; publish, clear, answer, reserve, release, cancel
and recover an input request; phase updates. Two triggers act behind the
statements: `030_pending_request_id` replaces the request id on *every*
update of the pending columns, `036` sets a user row's delivery state.
Hard: each statement is atomic, but every protocol spans several of them,
run by different processes that can die in between.
Correct when: a claimed row always has an owner to complete or recover it;
the delivery order is a total order that survives recovery; a question is
decided once; nothing overtakes a held response; a settled row stays settled.

**Input requests** (`internal/dashboard/server_messages.go`,
`internal/controller/platform/agentrun_overseer_controller.go`,
`sessionclient/client.go`).
The agent publishes a question or an idle boundary; a user answers, clicks a
button (mode switch, reject) or writes a free-form message from a tab that
loaded the session earlier; the overseer's controller reserves a held
response, applies mode or policy effects, then releases it; the agent's
polling path cancels holds older than three minutes and asks again.
Hard: stale tabs, handlers that read the session again before they act, a controller
that dies or is slow, the sweep racing it.
Correct when: an answer lands only on the question that its sender, or the
handler that took it without a request id, had read;
the newest question never vanishes; the queue always drains.

**Runner turn loop** (`cmd/agent/loop.go`, `durable_run.go`,
`interrupt.go`, `session_messages.go`).
State in memory: the turn's message, pass, stop floor, flags. State that
survives: `WorkingState` (stopped message, autonomous marker, durable pass
and its counter), the store's rows, the SDK's run store. Operations: restore,
`nextUserTurn`, `agentLoop`, `runPass`, `commitTurn`, `decideNext`,
`parkAfterStop`, the shutdown exits.
Hard: the pod may die between any two durable writes, and four of them make
up one turn; some of them may fail with nothing but a line in the log; a stop is
consumed in one place and recorded in another.
Correct when: a recorded stop is never re-run, a message is answered once,
nothing queued is stranded, interrupted work is resumed.

**Wake protocol** (`internal/orchestration/wake.go`, `ReserveWakeIntent`).
A counter in the spec, a handled counter in the status, intent rows with a
stable key, an annotation slot. Three ways to increment: plain, once per
delivery, idempotent per key. Hard: read-modify-write over two stores, calls
that break off between them and are tried again, a stop in between.
Correct when no message is left in the session of a run that nobody wakes, a
key is counted once, and a stop supersedes the wakes before it.

**AgentRun controller** (`agentrun_controller.go`, `sandbox_support.go`,
`runtimeprofile_admission.go`, `run_termination.go`). State: the object's
phase, queue, sandbox reference, last wake and request counters; the
SandboxClaim and its pod. Operations: admit within the profile's capacity,
create the claim and record it, watch the pod, drain, and behind a drain stop,
wake, restart, resume or delete. Hard: every reconcile decides on a cached
copy and writes on a later object; a drain takes many passes; workers, the
overseer and a parent run write the same phase. Correct when: capacity is
granted once, no worker outlives its attempt, a stopped run leaves no compute
behind and stays stopped until a wake, a request is not forgotten, and every stop
concludes. The counters
of wakes have a model of their own (2.5).

**Overseer controller** (`agentrun_overseer_controller.go`). Resolution of
input requests is modelled, and its writes of the phase; the checkpoint cycle, verdict parsing and stall
detection are *planned*.

**Pull-request loop and monitor** (`internal/controller/triggers/prloop*.go`,
`pullrequestmonitor_controller.go`). State: labels and annotations of the
implementer's run (loop state, round, ids of feedback seen), a label on each
reviewer run, the monitor's status. Operations: link an opened pull request,
start a reviewer, take its verdict, wake the implementer, start the next
round, take feedback from a webhook or from polling. Hard: three actors write
the markers with unlocked patches, each handler is several writes and may
break off, two of the actors retry and one does not. Correct when: rounds are
bounded and none is skipped, a finished loop stays finished, nothing is marked
as handled before it took effect, a block reaches the user, the loop ends.

**Maintainer work items** (`maintainerworkitem_*.go`). A repository's
maintainer agent issues commands on work items; one worker per repository
processes them. State: a ledger annotation with a slot per dispatched item and
the day's count, the item's reservation, status and attestation, each
command's phase, failure count and attempt. Operations: dispatch (and its
recovery), merge, finalize, projection. Hard: a slot, a label, a merge, a
closed issue are writes to different systems; a command may break off after
any of them and is then taken up from its phase alone, while people push,
merge, close, label and delete. Correct when: the fleet stays within its cap,
a dispatch keeps its slot, retries are bounded, a merge is submitted once and
of the head it was meant for, an item is delivered only when everything was
done, and commands conclude. Triage, breakdown and escalation commands are
not modelled.

**Cron, Linear, Slack and GitHub triggers** (`internal/controller/triggers`).
*Planned.*

**Team service** (`internal/agentrun`). A parent's cancel and retry of a child
are modelled as writers of the child's phase; creating children and waiting for
them is not.

**OAuth refresh, project state, change feed and caches**
(`internal/oauthrefresh`, `internal/projectstate`,
`internal/store/postgres/listen.go`, `internal/dashboard/microcache.go`). Small
protocols of their own, *planned* in that order.

**Not modelled:** pod construction (a pure translation of a spec), agent
tools and computer use, authentication and sharing, the Slack renderer, the
user interface. They keep no protocol state other parts depend on.

### 1.2 How they interact

```
 user tab --- answer / message / stop / withdraw ----+
                                                     v
 runner pod -- claim, complete, recover, ask --> [ session in Postgres ]
     ^                                               ^
     | claim, drain                                  | reserve, release, cancel
 AgentRun controller <-- phase, wakes --- overseer controller, parent run, worker

 GitHub --webhook, poll--> [ review loop: labels of the run ] --wake, create--> AgentRun
 maintainer agent --commands--> [ ledger, work items ] --label, merge, close--> GitHub
                                        ^ projection of issues, pull requests, runs
```

Calls are Kubernetes patches and SQL transactions; there are no direct
messages. `LISTEN/NOTIFY` and watches only make polling prompt and carry no
state. `PROJECT.json` lists, under "hazards", every place we know where these
interactions can go wrong, each with the line where it bites.

## 2. The modules and the code

### 2.1 SessionStore

One session, user rows only (assistant and system rows are never claimed).
Rows are numbered by insertion, so "older" is "smaller". Each action is one
transaction, with the `WHERE` clause as its guard and the trigger's effect as
part of it:

| action | code |
| --- | --- |
| `AppendMessage`, `AppendUserMessageIfActive` | `AppendMessage`, `AppendUserMessageIfActive` |
| `Polled` | `PollNewUserMessages` (a pending row before the earliest held one) |
| `ClaimUserMessage`, `Wins`, `NextSeq` | the claim's `UPDATE`, `COALESCE(delivery_sequence, nextval)` |
| `CompleteClaims`, `RecoverClaimedUserMessages` | same names; the replies that complete claims are in `TurnLoop` |
| `CancelUndeliveredUserMessage` | withdrawal |
| `SetPending`, `ClearPending`, `ClearPendingInputIfID` | publish and clear; `Publish` is the trigger's fresh id |
| `AnswerPendingInput` | consume the request and insert the answer |
| `ReservePendingInputResponse`, `Release…`, `Cancel…` | the overseer's two-phase response |
| `RecoverExpiredHeldInputResponses` | cancel expired holds, ask the newest one's question again |
| `UpdatePhase` | `UpdateSessionPhase` |

Abstractions. Contents, request types and metadata other than the keys a
statement tests are dropped. `asks`, `nask`, `answers` and `retired` are
bookkeeping: a *question* keeps its number when the trigger gives it a new
request id, which is what lets one state "one decision per question".
Time is nondeterminism: a hold may expire at any moment (`Expired(k)` is the
set of holds up to a chosen row, since `created_at` grows with the id).
`SessionNext` is the *most general client*: any token, dashboard request or
controller may issue any statement at any time. A runner claims only rows a
poll could show it, which every caller in the code keeps (`BeforeHolds` in the
claim). A phase "ended" is `succeeded` or `failed`.

### 2.2 InputRequest and SessionRefinement

`InputRequest` says what becomes of a question, without rows, ids, triggers or
timeouts: it is opened, then answered, held or dropped; a held one is answered
when released, withdrawn, or put back when the hold expires and no other
question is open. At most one question is open, a new one drops it.
`SessionRefinement` reads the fate of a question off the store (`Fate`): open
if the pending request asks it, dropped if it is in `retired`, held if a row
with `overseer_held` answers it, answered if a live row does, else withdrawn.
The point is what the abstract specification does *not* allow: no order of
claims, withdrawals, stale releases, cancellations and sweeps brings an
answered, dropped or withdrawn question back to the user, and no sweep
overwrites an open one.

### 2.3 InputResolution

Composes the store's actions into programs. The agent: commit, ask (a
question or an idle boundary), wait, sweep, claim, start. A tab and the handlers
of its messages: the tab loads, then a message is submitted and its handler reads
the session once more, and acts on that read in a step of its own. `view` is the
request, with the question it asks, that the tab shows or the handler has read;
`call` is what the handler has in hand:

| `call` | what it is |
| --- | --- |
| `"named"` | the message carries `pending_request_id`; it passed `checkRequestedPendingID` on the handler's read |
| `"plain"` | it carries none: whatever the handler read stands for the screen, which may never have shown it |
| `"switching"` | a mode button consumed its request and the switch is under way |
| `"approved"` | a plan's continuation is appended, what is pending is still to be cleared |

| action | code in `internal/dashboard/server_messages.go` |
| --- | --- |
| `Load`, `Submit` (`Now`) | the tab's read; the handler's fresh load and the check of the id |
| `UserAnswer`, `UserFallback`, `UserRefused` | `recordPendingAnswer`, the plain message behind it, the refusals |
| `UserReject`, `ModeConsume`, `ModeApplied`, `ModeDenied` | buttons: a mode button consumes the request *before* the switch is tried |
| `PlanApprove`, `PlanCleared` | `handlePlanAcceptAction`: the continuation, then `ClearUserInputRequest` of whatever is pending by now |
| `Withdraw`, `CancelRun` | withdrawal of a queued message; the run is cancelled |

`seen` is history: the question the sender acted on, which is that of the tab
for a named message and that of the handler's read for a plain one. The
overseer's controller: checkpoint, reserve (again after a crash, finding its row
by `delivery_id`), check, effects, check, release, with a crash between any two.
A run may be cancelled at any point; `OvCheck` cancels the response then.

### 2.4 TurnLoop

Successive pods of one run over the same store. A pod's `pc` names the next
durable write:

```
off -> recover -> resume -> [quiet] -> poll
poll -> retire -> poll                      (a listed stopped prompt is retired)
poll -> start -> drain -> mark              (nextUserTurn; drain finds a stop -> floor)
mark -> reserve -> open -> run -> commit -> close -> decide
decide -> steer -> mark                     (another pass)
decide, run, open, drain -> floor -> release -> park -> settle | poll   (stopped)
decide, run, steer -> settle -> poll        (question, finish, failure, pass cap)
any -> crashed;  inside a turn -> exited;  poll -> left
```

| action | code in `cmd/agent` |
| --- | --- |
| `StartPod`, `RestoreRecover`, `RestoreContinue`, `StartupIdle` | `restore` in `loop.go` |
| `RetireStopped`, `CompleteRetired`, `ClaimNext`, `DeferredBanner`, `ClearBoundary`, `DrainStops` | `nextUserTurn` |
| `Steer`, `MarkAutonomous` | head of `agentLoop`'s pass |
| `ReservePass`, `ClosePass` | `reserveSDKDurablePass`, `completeSDKDurablePass` |
| `OpenRun` … `RunFails`, `FoldImmediate`, `WatchStop` | `runPass` and its stop watcher |
| `CommitReply`, `Decide` | `commitTurn`, `decideNext` |
| `RecordFloor`, `RecordRelease`, `Park`, `Settle` | `recordUserStop`, `parkAfterStop`, end of `agentLoop` |
| `ExitResumable`, `ExitParked` | `exitOnShutdown`, `exitForReplacement` |

`Lost` is a write whose failure the code only logs, after which the pod goes on:
the two records of a stop (`RecordFloor`, `RecordRelease`), the autonomous marker
when it is set (`MarkAutonomous`) and cleared (`Settle`), and the continuation
that a pod leaves on its way out (`ExitResumable`) or that a restored pod queues
for the marker (`RestoreContinue`). A pod that has lost a continuation is `mute`.

`runs` is the SDK's run store, which is not in the repository: it is what
`loop.go` relies on, a completed pass that replays. Of the pending request
only its kind (`boundary`) is kept. `told`, `recorded`, `conts` are history.
Pods do not overlap: a pod starts when its predecessors are gone.

### 2.5 WakeProtocol

The message goes into Postgres, the counter into the Kubernetes object, so a
call is several steps and may stop after any of them (`Restart`: a keyed or
once-per-delivery caller is tried again by its own retry loop, a plain one is
not). A patch with `MergeFromWithOptimisticLock` inside `RetryOnConflict` is
one step. A patch with plain `MergeFrom` is two, `OnceFetch` and `OncePatch`:
it writes the absolute value it computed earlier.

| action | code |
| --- | --- |
| `KeyRead`, `KeyReserve`, `KeyPatch` | `wakeAgentRunIdempotent` with a key; `LeastTarget` is the target of `Store.ReserveWakeIntent` |
| `PlainAppend`, `PlainBump` | the same function without a key, `WakeAgentRun` |
| `OnceDeliver`, `OnceFetch`, `OncePatch` | `wakeAgentRunOnceWithOptions` |
| `RunEnds`, `AskTermination` | the runner's result; `CancelAgentRun`, `PromoteAgentRun` |
| `SeeTermination`, `Terminate`, `ClearTermination` | `handleTerminationRequest`: first read, status patch, annotation patch |
| `SeeWake`, `RefuseWake`, `StartAttempt` | `handleWakeRequest`: the read that drains the sandbox, then the status patch on a fresh read |
| `ResumePaused` | `reconcilePausedRun` |

Every phase with a runner is "running". `Callable` is the `allowed` set each
caller passes: Slack's wakes may find any phase, the dashboard's retry only a
failed or cancelled run. `raced` names the keys that were reserved from a
counter an unkeyed wake has outdated, `lowered` says that the unlocked patch
has lowered the counter; `settled` is the set of messages stored before the
last attempt, stop or refusal. The three are history.

`Wake` states the promise without counters, keys, annotations, retries or a
controller that drains: a message is sent, a wake is owed, the owed wake is
answered by an attempt, a refusal or a stop, each of which disposes of
everything sent before it, and a sender may be told of success only if its
message has been disposed of or a wake is owed. `WakeRefinement` reads it off
the protocol: owed is `spec.wakeRequests` above `status.wakeRequestsHandled`,
told are the finished calls that are not `raced`, disposed of is `settled`.
`void` ends the promise; only the unlocked patch of finding 2 sets it
(`lowered`). What the abstract specification does not allow: an attempt, in
whatever phase, that answers no wake; a wake consumed without disposing of a
message it stands for; a stop that leaves one owed; success reported too early.

### 2.6 PullRequestLoop

One pull request and its implementer run. Three actors: `"loop"`, the
reconciler of completed runs (one worker); `"hook"`, the webhook; `"poll"`, the
monitor, which goes through the same handlers as the webhook. A handler reads
the implementer once, decides, and writes later; `call[a]` is the actor's next
write and what it decided, so decisions and writes of different actors interleave.
A write is a patch made from a fresh copy and nothing locks it: `RetryOnConflict`
around a plain `MergeFrom` never sees a conflict. Where what is written depends
on that copy, reading it (`ReadFeedback`, `ReadApproval`; `copy`) and patching
(`PatchFeedback`) are two steps: the list of feedback handled and the wake counter
are written as a whole, over whatever was written in between. So two deliveries
may both find a piece of feedback new and act on it twice, and an old list may
take another piece off the record again. The other patches write values that do
not depend on the copy and are one step (a value the copy already has is not
written again; that only matters to a patch that overlaps another one of the
same value). `Breaks` ends a handler at any write; the reconciler and the monitor
start it again from its first read, the webhook does not.

| action | code |
| --- | --- |
| `HookOpened`, `PollOpened`, `Link`, `FirstReview`, `CreateReviewer` | `HandlePullRequestEvent`, `handlePROpened`, `createReviewerRun` |
| `OnReviewerRunCompleted`, `AfterVerdict`, `Accept`, `Block`, `Escalate`, `Rework`, `SendMessage`, `MarkVerdictHandled` | `OnReviewerRunCompleted` and what it calls, one step per patch |
| `OnImplementerRunCompleted`, `StartRound`, `SpawnReviewer` | same name |
| `HookFeedback`, `PollFeedback`, `HandleFeedback` | `handleReviewSubmitted`, `handlePRComment` up to their first write, the monitor's cursor |
| `ReadFeedback`, `ReadApproval`, `PatchFeedback` | `wakeImplementerForPREvent` and the approval's `patchLoopMarkers`: the fresh copy, the patch |
| `StartAttempt`, `ImplementerEnds`, `ReviewerEnds`, `CancelImplementer` | the AgentRun controller and the runner, as `WakeProtocol` has them |

The wake counter is reduced to "a wake is outstanding"; a patch that is due to
raise it writes an old value once another wake was counted, and the wake may be
lost (`Outdated`; that protocol itself is 2.5). `settled`, `orphaned`, `acted` and
`resumed` are history: what took effect, the rounds whose reviewer a break (or a
second link of the loop) has forgone, the feedback that was patched in, and how
often it asked for work. `overlaps` counts the copies that were read while another
delivery held one, and shares the bound `MaxMishaps` with `breaks`.

Left out: two webhook deliveries at the same time (a delivery of the webhook
overlaps with one of the monitor); reviews and comments have one list; the
trimming of the lists to 64 ids; events without an id (`SourceID` 0), which take
the reconciler's path; the question to the user when feedback finds a cancelled
implementer.

`ReviewLoop` knows neither runs, wakes, deliveries, cursors, verdict markers
nor breaks. Somebody who finds the loop open decides, and writes once, later,
over whatever was written since; that is the unlocked patch. A write needs
grounds that hold when it is made: an approval somebody gave, a failed review, a
review that asks for work at the cap or below it, feedback that is not on record.
A round follows the one before it and stays within the cap plus what feedback
bought. Two things are beyond it. Who is `crossed`, by feedback recorded between
reading the record and writing, may act once more on the same feedback and write
an older record; nobody else may. And a second link starts over from round 1, and
every review may be forgone then. `ReviewLoopRefinement` reads a verdict off the
end of the round's reviewer run and takes as deciding whoever stands at a step
that writes the label, and as crossed whoever holds a copy whose list is no
longer the one on the run.

### 2.7 MaintainerDispatch

One worker over the dispatch commands of a repository, in any order.
`call` is the worker's next write. A slot is made in the ledger (`Reserve`),
then in the item (`Hold`), then the command is accepted, the slot is checked
again, the trigger label is put on the issue; the run is created later by the
issue sync or the webhook (`CreateRun`). `Breaks` ends a pass at any write and
the next one starts from the command's phase.

| action | code |
| --- | --- |
| `Begin`, `Apply`, `Accept`, `Complete`, `Fail`, `Reject` | the command loop and its status writes, `maintainerworkitem_controller.go` |
| `ListRuns`, `Reserve` (`Pruned`, `Fits`, `AddSlot`), `Hold` | `reserveMaintainerDispatch` |
| `RecoverSlot`, `Transfer`, `Recreate` | the recovery of a failed run's dispatch |
| `Check`, `Label` | `processMaintainerExecutionCommand` |
| `GiveBack`, `Free` | `releaseMaintainerDispatch` |
| `Project`, `CreateRun`, `PersonLabels`, `DeleteRun`, `RunEnds`, `RunWakes` | projection, issue sync and webhook; people and runs |

The list of active runs is read before the ledger (`fleet`), so that a run
may start between the two. Time is a day counter, and a slot is too old for
certain (`MustBeOld`) or possibly (`MayBeOld`) by the days between. Reasons to
refuse a command that no property is about (mode, template, graph, authority)
are a choice. Left out: stale informer copies of the command list, more than
one run per item, items with a pull request.

### 2.8 MaintainerDelivery

The merge and finalize commands of one item, with the same worker. Every
external write is a step, and so is the read that confirms it:

```
merge     accept -> gates -> reserve -> submit -> confirmMerge -> record -> complete
          (attempted before)  reread ---------------------------> record -> complete
finalize  verify -> accept -> attest -> ask -> recordAsk -> close -> confirmClose
                                                          -> deliver -> complete
any -> count -> fail      any -> idle (Breaks)
```

| action | code |
| --- | --- |
| `Begin`, `Exhausted`, `Durable`, `Reject`, `Accept`, `Complete`, `Count`, `Fail` | the command loop, `maintainerworkitem_controller.go` |
| `BeginMerge`, `Gates`, `ReserveAttempt`, `Submit`, `ConfirmMerge`, `Reread`, `Record` | `processMaintainerRequestMerge` |
| `BeginFinalize`, `Unmet`, `Verify`, `Attest`, `Ask`, `RecordAsk`, `CloseIssue`, `ConfirmClose`, `Deliver` | `processMaintainerFinalizeWorkItem` |
| `Project` | `reconcileMaintainerExecutionProjection` |
| `Push`, `PersonMerges`, `PersonCloses`, `PersonReopens`, `IssueChanges`, `RunEnds` | people, GitHub, the run |

A submission may be merged and its answer lost (`Submit`, `Breaks`). GitHub
merges only the head it is given (external). Policy, reviews and checks of a
merge are a choice; the issuer's authority and the repository's permissions
are one condition, `barred`. The projection and decisions move while the
worker is idle: a change in the middle of a pass is an API conflict, which is
`Breaks`. One item without children, one implementer; its wakes after it
succeeded are not modelled.

`Delivery` knows neither phases, steps, retries, budgets, projections nor
GitHub's errors: a merge happens at most once per pull request, at the head its
command was issued for if a command makes it, and is recorded after it
happened; an item is delivered in four stages that never change their order
(everything merged and one command attests it, the run's success assured, the
request on record, the delivery); a command ends once, in success only for what
it has seen done, and is not rejected after it merged unless its issuer's
authority is gone. `DeliveryRefinement` takes a command as open until its phase
is terminal and reads merges off GitHub's pull requests (`pull`, `mergedBy`).

### 2.9 RunLifecycle

One run in full, and of the other runs of its profile only the slots they hold
(`rivals`). `seen` is the copy a reconcile works on, `step` and `job` say where
it is and what for:

```
watch -> drain -> write -> (clear)        stop, delete, wake, restart, resume, sweep
             -> count -> create -> record        provisioning, under the admission lock
             -> (refs) -> write                  the pod was looked at: run, succeed, fail, pause
any -> watch (Break)
```

The controller's own patches, `retryAgentRunStatusPatch` and `retryAgentRunPatch`,
read again, write under the resource version and retry on conflicts, so each is
one step on the current object. What a pass decides on comes from a cache, which
may stop to follow the object at any version (`Delay`), in particular at one from
just before a write of the pass under way, and catches up later (`CatchUp`).
`lag` is the version it shows meanwhile, so that any number of passes may be given
it, `Cached` what a pass gets. A pass may also miss a claim or a pod that is new
(`hidden`): the claim is read past the cache in `getRunSandboxClaim` but listed
from it in a drain. The fresh read inside a patch may come from the same cache;
a write that such a read shows to be done already is skipped, which is a pass that
ends there (`Break`), and one that it shows in an older state conflicts.

The dashboard reads the run, checks that it has not ended, and patches the
annotation without a lock (`AskReads`, `Ask`): the request may land on a run that
has ended since, and then goes on for a wake.

| action | code |
| --- | --- |
| `Dispatch` (`SeeTermination`, `SeeWake`, `SeeRestart`, `SeeStopped`, `Monitor`, `Provision`) | `Reconcile` up to its first write |
| `Granted`, `Admit`, `Refuse` | `enforceRuntimeProfileAdmission`, `markProvisioningAttempt`, `queueRunForAdmission` |
| `Create`, `Record` | `createPlanSandbox`, `patchSandboxQueued` |
| `Drain` | `releaseRunSandbox`, one pass per step |
| `Terminate`, `ClearRequest`, `Delete` | `handleTerminationRequest`, the finalizer |
| `WakeUp`, `Exhaust`, `Restart`, `Resume`, `Sweep` | `handleWakeRequest`, `handleRestartRequest`, `reconcilePausedRun`, `reconcileTerminalRun` |
| `SyncRefs`, `Promote`, `Conclude` | `syncAgentSandboxRefs`, `patchRunning`, `patchSucceeded`, `markRunFailed`, `markRunPaused` |
| `AskReads`, `Ask` | `CancelAgentRun`, `PromoteAgentRun`, `DeleteAgentRun`; `patchAgentRunWithRetry` |
| `PodStarts` … `ClaimGoes`, `Delay`, `CatchUp` | sandbox provider, kubelet, garbage collection, informer cache (external) |
| `WorkerWrites`, `OverseerReads`, `OverseerWrites`, `ParentCancels`, `ParentRetries`, `AskMore` | everyone else who writes the object |

Four things go wrong that the code does not prevent, and each property names
those it is excused from (`excused`, history): `overruled`, somebody other than
the controller took an ended run up again or took a slot for it; `slipped`, a
cached copy showed a slot the run had given up; `missed`, a drain did not see
compute that was there; `unrecorded`, a claim that exists is not on the object.
Section 6 says how each comes about. A fifth needs no excuse but a clause of its
own: a pass whose copy shows a run that has ended and is asked to stop clears that
request, and by then the run may have been woken (`Settled`).

Abstractions. An attempt is told by `status.lastWakeTime`, which has a
resolution of one second; two attempts within one second are not modelled.
Deadlines may have passed whenever they are asked for. Every run has a profile
with a capacity. A claim has one pod, expired claims are left out (they are
drained like stale ones). Of `status.queue` only "Resuming" and "Provisioning"
are told apart.

`RunLife` knows neither reconciles, copies, drains, claims, queues, admission
nor retries: a run is open, ended or gone, worked on by one worker at a time who
is on record and of the current attempt. An attempt begins, a record is freed
and a run is deleted only when nobody is at work; an ended run goes on for a wake
that is used up; a request is forgotten once the run has ended, or by somebody who
noted it while it had; a run is gone because that was asked for. `noted` is that
old account: only what is asked of an ended run enters it (`Noted`). What the
controller cannot prevent are steps of their own: `Revive`, and workers off the
record (`"leaky"`). `RunLifeRefinement`
reads life off the phase, the record off the sandbox in the status or a claim
about to be recorded, the worker off the pod and the attempt that created
its claim, and what is noted off the cache when it lags at an ended version and
off the copy of a pass that is about to clear.

## 3. Runs

| run | instance | shows |
| --- | --- | --- |
| `session_store` | 2 tokens (symmetric), 3 messages, 3 request ids | the store's six properties under every client |
| `input_resolution` | 1 tab, 1 crash, 3 messages, 3 ids, 2 questions (0.73 M states) | no stale answer, newest question survives, the queue drains, `InputRequest` is implemented |
| `turn_loop` | 3 pods, up to 2 sends, 2 stops, 2 crashes, 2 lost writes, 5 events in all (1.3 M states) | stops on record and in the pod that was told, single reply, claim bookkeeping, nothing stranded, interrupted work is taken up |
| `wake` | 2 keyed callers, a plain one, a delivery; 1 break, 1 stop or promotion, 1 retry | `Wake` is implemented; no wake counted twice outside the named races; stops supersede; wakes are handled |
| `run_lifecycle` | capacity 1, 2 requests, faults, foreign writes or delays of the cache (2.5 M states) | capacity, one worker at a time, nothing left behind, `RunLife` is implemented, requests are not dropped, stops conclude |
| `pr_loop` | 2 rounds, 1 piece of feedback, 1 break or overlap (1.9 M states) | rounds, verdicts, feedback, blocks, `ReviewLoop` is implemented, the loop comes to its end |
| `maint_dispatch` | 2 items (symmetric), cap 1 of fleet and day, budget 1, 2 commands, 1 break, 3 days (3.0 M states) | capacity, the day's count, slots and retries |
| `maint_delivery` | 1 pull request, 2 commands, 1 push, 1 error (0.57 M states) | merges, delivery, `Delivery` is implemented, commands conclude |
| `turn_stop`, `wake_monotonic`, `pr_premature`, `finalize_settles` | small | the findings of section 6 |

### Properties

*Store* — `ClaimsAreOwned`: a token and a claim go together, so completion
and recovery between them reach every claimed row. `TranscriptOrder`,
`RowsKeepTheirHistory`: delivered rows have distinct places that survive a dead
runner; withdrawn never returns and delivered is never redelivered.
`OneDecisionPerQuestion`: answers, held responses and clears of one
question exclude each other, even when an expired hold asks it again.
`HoldsBlockTheQueue`, `HoldsOwnTheirQuestion`: nothing behind a held response
reaches a runner, and a hold stands for a question nobody else can take.

*Requests* — `AnswersWhatWasSeen`: a message that names its request answers the
question on its screen or nothing; one that names none may answer a question that
no screen showed, but only the one its handler read, never one asked between that
read and the answer. `NewestQuestionSurvives`, `QueueDrains` (liveness),
`ImplementsInputRequest` (refinement). The last is checked on the composition,
where it takes a fraction of the states of `session_store`, and proved for the
store under every client.

*Turn loop* — `StoppedStaysStopped`: a prompt whose stop is on record, in its
completed claim or in the one slot of the working state until the next stop
takes that over, is not run again. `StopHoldsInItsPod`: the pod that has
consumed the stop of a message starts no further pass of it, even when both
records are lost; `StopIsHonoured`, the same across pods, is finding 1.
`FirstReplyOnce`: the opening pass of a message is
answered once. `ClaimMatchesTurn`: what a pod believes of its message is what
the store says, which is what its exit paths rely on. `QueueServed` and
`InterruptedWorkResumes` (liveness): the second says that work a pod was told
to leave, or that a crash cut short while the marker was set (`Interrupted`),
is taken up by a later pod. Marker and continuation cover for each other when one
of the two writes is lost. It is excused from two cases, which the code leaves: the
exiting pod lost its continuation and no marker was written either, and a
restored pod lost the continuation it owed the marker; the work then lies until
that pod is replaced, too.

*Wakes* — `ImplementsWake` (refinement): a message whose wake was reported as
successful has been read by an attempt, was dismissed by a stop or a refusal, or
has a wake outstanding (`NobodyForgotten` of `Wake`), and the run takes no other
course than the promise allows. Its exceptions (`raced`, `lowered`) are a
hazard and a finding. The invariant part of it, `NoLostWake`, is proved to
follow and has no check of its own. `KeyCountedOnce`: a key raises the counter once across retries.
`StopSupersedes`: only a wake counted after the stop resumes a cancelled run.
`WakeIsHandled` (liveness): no ended run sits on an outstanding wake.

*Run lifecycle* — `SlotsWithinCap`: the profile's capacity is never granted
twice, through failed attempts, restarts, resumes and claims recorded late.
`OneWorkerAtATime`: whatever starts a new attempt, or deletes the run, has seen
the compute of the last one end. `NothingLeftBehind`: a stopped run has no
compute nobody would look for. `ImplementsRunLife` (refinement): no observation, restart,
resume or record, however late, takes an ended run up again, only a wake does;
attempts begin and records are freed only after the worker is gone; a deletion
follows a request. `StoppedUntilWoken`, the first part alone, is proved and has
no check of its own.
`StopsAreNotDropped`: a request to stop, promote or delete is forgotten only
once the run is over, or by a pass whose copy showed it on a run that was (the
gap of section 6); not by a pass that fails, is repeated, works on any other old
copy, or meets a foreign write. `StopsConclude` (liveness) says that again and
again no request is left and no ended run holds a sandbox, which a pass that
merely loses a request would satisfy as well: together the two say that a stop
stops.

*Review loop* — `RoundsBounded`: the runaway protection, one round past the
cap per piece of feedback on record, and one per overlap of two deliveries, which
is what the code's unlocked patches cost. `ImplementsReviewLoop` (refinement):
nobody starts to write a loop that is over, none is approved without an
approval or blocked below the cap by a review that only asked for work, and only
deliveries that cross act twice on one piece of feedback. `FinishedStays`, that an approved or blocked
loop is over once no handler that decided before is still to write, follows from
it and has no check of its own.
`RoundsHaveReviewers`: no round is skipped, except for the named break between
marker and run. `HandledTookEffect` (`VerdictsTookEffect`,
`FeedbackTookEffect`): what is marked as handled, and what is behind the
monitor's cursor, took effect.
`BlockIsSurfaced`. `LoopAdvances` (liveness): the loop ends or waits for a
person.

*Dispatch* — `CountCoversSlots`: the day's count covers every slot made that
day, whichever command gives one back and on whichever side of midnight.
`FleetWithinCap`: slots and unexcused active runs together stay
within the cap, through pruning, recovery and breaks. `DispatchKeepsItsSlot`:
a completed dispatch whose run is not seen yet holds its slot.
`RetriesWithinBudget`.

*Delivery* — `MergesAreSafe`: a command submits one merge at most, of the head
it was issued for, and what is on record happened. `DeliveryIsEarned`: a
finalize command succeeds only for its own attestation, and an item is
delivered only when everything was merged and the run succeeded or was asked
to. `ImplementsDelivery` (refinement): the order of the stages, one outcome per
command, no rejection after a merge. `CommandsConclude` (liveness): merges get recorded, finalize commands end,
but for the case of finding 4.

### Bounds and why they are enough

- Two tokens: ownership is pairwise, a third adds no new conflict. Three
  messages: a held row, one before it and one after it; a recovered row
  between two others. Three request ids: a question, its successor and the
  fresh id of a restored one.
- `MaxAsks < MaxReqs` leaves an id for a restored question.
- `turn_loop`: each kind of event has its own bound, and `MaxEvents` = 5
  bounds sends, stops, withdrawals, ends of pods and lost writes together, so
  that every combination of five is covered: two messages, a stop and a
  withdrawal behind it; two stops around a lost completion and a replacement;
  two pods lost on one message. `MaxMsgs` = 3, and `Reserve` keeps
  an id for each continuation a pod may still leave behind, so that the bound
  never keeps a pod from handing over. `MaxPasses` = 6 never blocks a pass, because
  `MaxContinue` = 2 stops the agent from nudging itself first. Three pods, so
  that the work of a pod that took over from another can be taken over again.
- Two stops, so that a second stop takes the slot of the stopped prompt over
  from a first one whose completion was lost. The slot
  holds one id, and the first prompt may then run again. `recordUserStop`
  calls both writes best effort and promises no more, so `recorded` counts a
  stop as on record only while one of the two still says so; the gap is listed
  as a hazard and not as a finding.
- The user withdraws own messages, not continuations: the dashboard offers
  withdrawal for what the user sent.
- `wake`: two keys, one of each kind, compete for a target; the plain and the
  once-per-delivery caller are the two kinds of unkeyed write. One break, one
  termination request. The safety properties are theorems for every bound.
- `run_lifecycle`: one slot, the run's or a rival's; a run starts with or without
  a wake, and two events give every pair of a request, a fault, a foreign write,
  a failed pass or a delay of the cache, which may last for any number of passes.
  A wake, a stop and a delay, the three that the gap of `Settled` takes, are among
  these behaviours. The safety properties are theorems for every bound.
- `pr_loop`: two rounds are the cap, so that the round at the cap and the one
  feedback buys past it both happen; one mishap is a break at any write of any
  handler or an overlap of the two deliveries, so that one piece of feedback does
  buy two rounds. A second piece takes the state space past 25 million states, too
  many for a run; the theorems hold for every number of pieces, breaks and
  overlaps. One pull request: loops of one run share only their labels.
- `maint_dispatch`: with caps of one, two items compete for every slot and the
  day's last dispatch; two commands may be on one item or on both; three days
  give a slot that may be, and one that must be, too old. Safety only: the
  state space leaves no room for liveness. The theorems hold for every bound.
- `maint_delivery`: two commands are two merges, two finalize commands or one
  of each; the error may be a lost answer, a crash, or a person's reversal.
  With two pull requests the safety properties hold too (not kept as a run for
  its size); the theorems cover every number.
- `CHECK_DEADLOCK FALSE` where users and pods may simply stop.

Every disjunct of the passing runs' next-state relations fires, with one
exception inside an action: the failing branch of `ClosePass` needs a second
pod at the same time.

The type invariants of all eight modules are proved and are not checked again
by a run, nor is an invariant that a refinement of the same run implies.

### Fairness

`InputSpec` is weakly fair to the agent's own steps: a pass ends (its turn has
a time budget), a waiting agent polls and sweeps on a ticker
(`sessionclient/client.go`). `TurnSpec` is weakly fair to `StartPod` (the
controller replaces a missing pod at every reconcile) and to each pod's next
step (bounded turns, polls with tickers). Nothing obliges a user, a crash, a
shutdown or the overseer's controller, so no liveness result rests on them.
`WakeSpec` is weakly fair to `Reconcile` only: the controller reconciles when
the object changes and requeues what it did not finish. No caller is obliged
to finish its call.
`RunSpec` is weakly fair to `Reconcile` (every early return requeues or waits
for a watch of the object, its claim or its pod), to the cache catching up (a
watch delivers, or the informer lists again), to the garbage collector and
to the kubelet and provider that finish a deletion. No worker, person,
overseer or provider of new pods owes anything; failed passes and delays of the
cache are bounded by `MaxEvents`.
`PRLoopSpec` is weakly fair to the reconciler's work, the handlers of the
webhook and the monitor once they have started, and the runs, which end within
their budgets and whose wakes the AgentRun controller answers, all together
(`Moving`): as long as one of them can move one of them does, and none of them can
move for ever. That asks for less than fairness to each. Neither a person nor
the webhook nor a break owes anything.
`DeliverySpec` is weakly fair to each step of a pass (`Process`), and strongly
fair to `Begin(c)` and `Project`: the worker goes over all of a repository's
commands on every reconcile, requeues, and projects once per reconcile while it
is idle, but both are disabled whenever it is at work on something. Breaks are
bounded by `MaxErrors`. `DispatchSpec` states no fairness, its properties are
safety.

## 4. Proofs

### The session store

`SessionStoreProofs` proves, for every number of messages, requests and
tokens, from two assumptions on the constants (`BoundAssumption`: the bounds
are naturals; `TokenAssumption`: NULL is not a token):

| theorem | property |
| --- | --- |
| `TypeCorrectness` | `SessionTypeOK` |
| `ClaimOwnership` | `ClaimsAreOwned` |
| `TranscriptOrdering` | `TranscriptOrder` |
| `HoldGate` | `HoldsBlockTheQueue` |
| `HoldOwnership` | `HoldsOwnTheirQuestion` |
| `SingleDecision` | `OneDecisionPerQuestion` |
| `HistoryIsKept` | the action property `RowsKeepTheirHistory` (lemmas `SettledRowsStay`, `PlacesAreKept`) |

They all rest on one inductive invariant, `SessionInv`
(`SessionInvariance`): the type invariant, the safety properties above and
`RowsAllocated`, the bookkeeping they need (rows beyond `last` are absent and
blank, a request is pending exactly while it asks a question, every question
number in use was asked). The conjuncts need each other.
`OneDecisionPerQuestion` alone is not inductive: `Reask` opens a consumed
question again, which is safe only because the hold owned that question
(`HoldsOwnTheirQuestion`: every other response to it is cancelled, nobody
cleared it and no open request asks it). `HoldsBlockTheQueue` is inductive
only because a claim passes `BeforeHolds` and because a new row is the newest,
so no row is ever put in front of a delivered one. The proof has one lemma per
statement of the store and, in each, one step per conjunct; `SessionNextInv`
combines them, and the action property follows by the same case split.

Since `SessionNext` is the most general client, these theorems hold of every
composition whose steps are statements of the store: `PartiesUseTheStore` and
`TurnsUseTheStore` below.

### The store implements InputRequest

`InputResolutionProofs` proves `QuestionsImplemented`: `SessionSpec`
implies `Request!Spec`, for every number of messages, questions and tokens.
The initial states map to the initial state (`InitRefines`), and each
statement of the store is a step of `InputRequest` or none (`StepRefines`,
one lemma per kind of statement). The invariant is `SessionInv` again. Two of
its conjuncts carry the argument: `HoldsOwnTheirQuestion` (when a hold goes
away with its row, no other row answers its question, so the question is
withdrawn and not answered; `HoldGone`), and `OneDecisionPerQuestion` (an open
question is not also dropped).

### Input requests

The rest of `InputResolutionProofs`, for every set of tabs and every bound:

| theorem | property |
| --- | --- |
| `InputTypesHold` | `InputTypeOK` |
| `AnswersAreSeen` | `AnswersWhatWasSeen` |
| `NewestIsKept` | `NewestQuestionSurvives` |
| `PartiesUseTheStore` | `InputSpec => SessionSpec` |
| `PartiesImplementInputRequest` | `ImplementsInputRequest` |

The step simulation (`StoreStep`) brings `SessionInv` in. `ScreenInv` says
that a request id a tab or a handler has read, once replaced, is never that of a
later question, so that the comparison of ids in `AnswerPendingInput` decides
what its sender had read. `HoldInv` follows the overseer's controller: its row, found again by
`delivery_id` after a crash, is the one response to the request of its
checkpoint, and while it holds the newest question nothing else is pending.
`NewestStep` needs both: what could make the newest question vanish is a sweep
that cancels one hold and restores another, or a release whose row is gone.

### The turn loop

`TurnLoopProofs`, for every number of pods, messages, passes, stops, crashes
and lost writes, from `PodAssumption` (pods are numbered in the order in which
they start, and a pod is a token):

| theorem | property |
| --- | --- |
| `TurnTypesHold` | `TurnTypeOK` |
| `StopsStay` | `StoppedStaysStopped` |
| `StopsHoldInTheirPod` | the action property `StopHoldsInItsPod` |
| `RepliesOnce` | `FirstReplyOnce` |
| `ClaimsMatchTurns` | `ClaimMatchesTurn` |
| `TurnsUseTheStore` | `TurnSpec => SessionSpec` |

The inductive invariant is `TurnInv` (`TurnInvariance`). `OnePod` (all but the
newest pod are gone) makes the argument about one pod: only the pod that moves,
or the user, can disturb what it knows. `HandAt`: the message in its hands is
claimed under its token, or completed. `PassAt` with `DurableInv` and
`ReplyInv`: the pass it works on is the one in the working state, a reply to
an opening pass completed the message of that pass, and no opening pass is
reopened for a completed message; a replay after a crash therefore never
produces a second reply. `StopAt` with `RecordInv`: a prompt whose stop only
the slot remembers is either no longer pending, or it is the floor of the pod
that would claim it, which retires it instead. `ToldAt` is what a pod that was
told to stop knows without any record: as long as it handles that message it is
in the pass that `Decide` is about to end, and the message stays taken
(`RowsTaken`) while the pod lives, since only a later pod recovers claims.

### The wake protocol

`WakeProofs` proves, for every finite set of callers and every bound, from
`CallerAssumption` (the four kinds of callers are disjoint, the empty
annotation is no delivery):

| theorem | property |
| --- | --- |
| `WakeTypes` | `WakeTypeOK` |
| `NoWakeLost` | `NoLostWake` |
| `KeysCountOnce` | `KeyCountedOnce` |
| `StopWins` | the action property `StopSupersedes` |
| `WakesImplemented` | `ImplementsWake` |
| `PromiseIsKept` | `ImplementsWake => []NoLostWake` |
| `LockedCounterIsMonotonic` | `CounterIsMonotonic`, with no once-per-delivery caller |
| `KeyedCallersAreNeverForgotten` | with keyed callers only, `NoLostWake` without its exceptions |

The inductive invariant is `WakeInv` (`WakeInvariance`). `NoLostWake` speaks
of callers that are done, so the invariant must say what they relied on when
they finished: a key is kept from the moment the counter *reaches* its target
(`KeysKept`), a delivery as soon as its annotation is in the slot or the
counter has passed the value it read (`OthersKept`). The first needs that a
key which was not outdated draws a target above the counter, which in turn
needs the third conjunct of `KeysKept`: between a key's read and its
reservation the counter grows only to the target of another key, unless the
key is marked outdated. `StoredFirst` makes a dismissal safe: whoever may rely
on being kept has stored its message, so `settled' = stored` covers them.
`ControllerKeeps` treats all ten steps of the run and its controller at once;
the caller's steps have one lemma each, the two unkeyed writes share
`UnkeyedWriteInv`.

The refinement (`WakesImplemented`) maps each action to a step
of `Wake` or to none that `Wake` can see (`Unseen`): a caller's last write is
`Promise`, which needs that it is `Kept` after that write, so `WakeInv` is used
on both sides of the step. `PromiseIsKept` uses nothing of the protocol: `PromiseInv`
is inductive for `Wake` alone, so every other implementation would keep the
promise too. The last two theorems say where the exceptions come from.
`CounterIsMonotonic` fails in run `wake_monotonic`, and holds for every instance
without callers of `WakeAgentRunOnce`; with keyed callers only, `NoRace` is
inductive, so neither `raced` nor `lowered` is ever needed.

### The life of a run

`RunLifecycleProofs`, for every capacity and every number of events, from
`LifecycleAssumption` (a positive capacity, a natural bound):

| theorem | property |
| --- | --- |
| `RunTypes` | `RunTypeOK` |
| `CapacityHolds` | `SlotsWithinCap` |
| `EndedStaysEnded` | the action property `StoppedUntilWoken` |
| `WorkersEndWithTheirAttempt` | `OneWorkerAtATime` |
| `ComputeStaysOnRecord` | `NothingLeftBehind` |
| `RequestsAreKept` | the action property `StopsAreNotDropped` |
| `RunLifeImplemented` | `ImplementsRunLife` |
| `LifeHasOneWorker` | `ImplementsRunLife => []OneWorker` |
| `LifeEndsHold` | `ImplementsRunLife => EndsHold` |

The capacity rests on `SlotInv`. The bound is not inductive alone, because a
reconcile acts on a copy, and any later one may be given an old copy, too
(`Copies`: what the cache lags at, and what a pass under way has seen). `Tidy`
says what a pending write knows of its copy; `Keeping` that no copy of an attempt
that goes on shows it ended, and that an attempt seen with a sandbox still has
one unless it pauses (`Kept`), so that a promotion or a resume never takes a slot
that was given up; and `Entitled` that between the grant and the record the rivals
leave room. `KeepingStep` rests on three facts about what an attempt cannot undo
(`GoneStays`, `SandboxStays`, `AttemptGrows`) and on `CopyStep`: a copy is an old
one or the object itself. The compute rests on `LeftInv`: `Doing` (a pass stops
only a run its copy shows going on) and, unless an excuse applies, either nothing
runs or it is `Backed` by the object under the current attempt while no drain has
ended (`Spent`). `Started` says what a pass has read when it begins,
`WorkingGoesOn` what it still knows later. Lemmas on the effects of each group of
actions (`AdmissionEffects`, `StopEffects`, `GoOnEffects`, `OutsideEffects`) carry
the case splits of all three.

That a request is not dropped rests on `AskInv`: the annotation is cleared in a
step of its own, on the strength of a phase written, or merely seen, earlier.
Whenever a pass is about to clear, the run is over, or was overruled (`Over`), or
the copy itself showed the request on a run that had ended. `OverStays`: only a wake
takes an ended run up (`WokenStep`), and a pass that stops a run does not wake it.
The third case is what the code cannot rule out, because a request may land on a
run that has ended and a cache may lag at just that version; `Settled` names it.

The refinement needs both invariants and `Doom`, together `LifeInv`: a pass
that deletes was asked to, by a request that every copy showing it shares with the
object until the run is gone, and no claim is of an attempt still to come.
`NotedStep` shows that an account of a request on an ended run can only come from
such a run. The Step
lemmas give each step of `RunLife` from the fields that change, the Maps lemmas
find one for every action. `LeftInv` is used *after* the step too: whoever frees
the record, `Released`, leaves nobody at work there or an excuse. The hardest
case is `Create`: a claim made anew while an older pod still runs is a step of
`RunLife` only because `LeftInv` excuses it. `LifeHasOneWorker` and
`LifeEndsHold` use nothing of the controller, only the steps of `RunLife`.

### The review loop

`PullRequestLoopProofs`, from `LoopAssumption` (positive cap, natural bounds):

| theorem | property |
| --- | --- |
| `LoopTypes` | `PRLoopTypeOK` |
| `RoundCap` | `RoundsBounded` |
| `HandledSettles` | `HandledTookEffect` |
| `BlocksAreSurfaced` | `BlockIsSurfaced` |
| `NoRoundSkipped` | `RoundsHaveReviewers` |
| `ReviewLoopImplemented` | `ImplementsReviewLoop` |
| `LoopsEndForAReason` | `ImplementsReviewLoop => []EndsAreEarned` |
| `FinishedLoopsStay` | the action property `FinishedStays`, from the refinement |

The base is `LoopInv` (`LoopInvariant`): what each handler's pending write
rests on (`CallInv`), what the link of the loop has established (`LinkInv`),
the cap counted with the writes still to come (`CapInv`): a handler that
decided on round r+1 before another one did may still write it, and the price of
each resumption (`CreditInv`). That `resumed` stays below the feedback on record
and the overlaps is not inductive, since an old list takes a piece off the record
again: the invariant says for every open delivery that what *it* will leave on
record, and the overlaps so far, pay for what was asked and for what all open
deliveries will ask yet (`Owed`, `Pending`). A copy read while another delivery
holds one raises what is pending by one, and `overlaps` with it. On top of it
`SettledInv` follows a verdict or a piece of feedback from the read to the
mark, and `ReviewedInv` a round from its marker to its reviewer.

`PatchImplements` is the feedback's part of the refinement: with the list still
that of the copy the feedback is not on record, and with another the actor is
crossed; and a patch that changes the list crosses every other open one. The rest
of the refinement needs `DecidedInv`: the grounds of a decision still hold at its
write. A verdict is final, so `DecidedKept` has to look at one thing only, the
round, which moves under a decision of the reconciler when a late delivery links
the loop again; that link forgoes every review, which `ReviewLoop` excuses, and
round 1 is below the cap if the old round was. `DecisionImplements` and
`RestImplements` turn most handler steps into `Decide` or `GiveUp`; the writes
have a case each. `LoopsEndForAReason` and `OverStep`, from which
`FinishedLoopsStay` follows, use nothing of the handlers, only the steps of
`ReviewLoop`.

### Dispatch

`MaintainerDispatchProofs`, from `DispatchAssumption` (finite set of items,
positive caps and budget):

| theorem | property |
| --- | --- |
| `DispatchTypes` | `DispatchTypeOK` |
| `CapHolds` | `FleetWithinCap` |
| `SlotsAreKept` | `DispatchKeepsItsSlot` |
| `RetriesAreBounded` | `RetriesWithinBudget` |
| `CountCovers` | `CountCoversSlots`: giving back yesterday's slot never buys a dispatch today |

The cap is inductive only with `FleetInv`: the items the worker has listed
as active are still counted when it writes the ledger. `HoldInv` says where a
command's slot and the item's reservation stand at each step (`CallInv`,
`PlaceInv`, `SlotInv`), which is what keeps a retry of an older command from
giving back a younger one's slot. `RetryInv` bounds failures by the budget and
the breaks between the count and the phase.

### Delivery

`MaintainerDeliveryProofs`, from `DeliveryAssumption` (finite, non-empty set
of pull requests, positive budget):

| theorem | property |
| --- | --- |
| `DeliveryTypes` | `DeliveryTypeOK` |
| `MergesSafe` | `MergesAreSafe` |
| `DeliveryEarned` | `DeliveryIsEarned` |
| `DeliveryImplemented` | `ImplementsDelivery` |
| `DeliveryReportsAreTrue` | `ImplementsDelivery => []ReportsAreTrue` |

Four invariants, each inductive with `StepInv` (which command a step works on,
and of which kind): `AttemptInv`, a command that may still submit has not
submitted, and one that has is marked or rejected; `MergeInv`, what is on
record and what commands merged is merged at GitHub, and the worker records
only what it has seen merged; `EarnedInv`, what each step of finalizing knows
of the steps before it. They rest on `Kept`, what no step of anybody takes
back (`KeptStep`): merged pull requests, attestations, a command's payload.

The refinement needs one more, `MadeInv`: a merge a command made was submitted
by it, a submitted command is past "pending", and one about to complete has its
merge on record. With the other four it makes `ImplInv`; `DeliveryStepImplements`
then maps every action to the step of `Delivery` it is, or to none. Its hardest
case is a rejection: `MadeKnows` follows a command that merged and shows that
only lost authority can reject it. `DeliveryReportsAreTrue` uses nothing of the
worker: every implementation of `Delivery` delivers once and reports only what
happened.

## 5. Only model-checked

Liveness, which is out of the prover's reach (`QueueDrains`, `QueueServed`,
`InterruptedWorkResumes`, `WakeIsHandled`, `StopsConclude`, `LoopAdvances`,
`CommandsConclude`), on the instances of section 3. Every safety property of a
passing run is a theorem.

## 6. Findings

Places where the code does not do what its own comments say. Four have a run
whose counterexample shows it, and a quoted line in `PROJECT.json`:

1. `turn_stop` — a stop is consumed before it is recorded; a shutdown between
   the two makes the replacement run the stopped prompt.
2. `wake_monotonic` — the once-per-delivery wake patches without a lock and
   writes an absolute counter, which may be lower than the current one.
3. `pr_premature` — `wakeImplementer` moves the loop to resolving before it
   wakes the implementer, so the reconciler may see its earlier end and start
   the next round before it has resolved anything.
4. `finalize_settles` — a finalize command rejected after it attested leaves
   its attestation; the next one fails on it, uncounted, on every pass, and
   the error ends the pass over the repository's other commands and its sync.

TLC finds the following broken too. Each keeps its definition and a hazard,
but no run of its own, to keep the number of runs small:

- `RestoresTheExactRequest` (`SessionStore`) — an expired hold restores its
  question under a new request id: the trigger overrides the one written back.
- `ResolvedIsVisible` (`InputResolution`) — a controller slower than the hold
  timeout releases a response that was already cancelled and reports the
  request as resolved.
- `EffectsRunOnce` (`TurnLoop`) — a failed turn's message, redelivered before a
  newer one whose pass completed without a commit, displaces the newer pass.
- `ReplacementWaitsAfterStop` (`TurnLoop`) — the autonomous marker outlives a
  stop that parks before the loop is entered.
- `OpenedIsRetryable` (`PullRequestLoop`) — an opening is recorded as delivered
  although its review was never started.
- `OldSlotsAreFree` (`MaintainerDispatch`) — another item's reservation older
  than the limit still refuses a dispatch that would fit.
- `SupersededDoesNotBlock` (`MaintainerDelivery`, with two pull requests) — one
  closed without a merge is no obstacle to the projection, but to the last
  read before finalizing.

In `RunLifecycle` four gaps are named by the properties as excuses
(`excused`) instead:

- `slipped` — the comment in `reconcileRun` says the live confirmation
  "prevents informer lag from granting the slot twice"
  (`agentrun_controller.go:335-336`), but `runConsumesAdmissionSlot` is asked
  of the cached copy first (`runtimeprofile_admission.go:26`): a copy that
  still shows a reservation skips the count.
- `overruled` — the overseer's two writes of the phase
  (`agentrun_overseer_controller.go:877`, `:1026`), the worker's writes and
  `RetryChildRun` do not look at the phase on the fresh object, so a run that
  was stopped in between is taken up again, although
  `handleTerminationRequest` says that "only a wake counter incremented after
  this terminal transition may resume the run" (`agentrun_controller.go:791-792`).
- `missed` — a drain lists claims and pods from the cache; one created just
  before is not in it, and a stop that follows at once leaves it running.
- `unrecorded` — a crash between creating a claim and recording it, followed
  by a stop that nothing drains for: `reconcileTerminalRun` and
  `reconcilePausedRun` look for compute only if the object records some, and
  the latter then resumes without the drain its comment calls "always"
  (`agentrun_controller.go:191-195`). `RetryChildRun`
  (`team_service_k8s.go:341`) clears the record of a sandbox that still runs.
  A claim that is made from a copy of an older attempt is not recorded either, and
  a resume from a copy without a sandbox drops one recorded since.

Three more gaps are written into the properties themselves, which say exactly
what the code leaves:

- A stop asked of a live run may be forgotten (`Settled` in `StopsAreNotDropped`,
  `noted` in `RunLife`). The request lands after the worker has ended, as the
  dashboard checks the phase and patches the annotation without a lock; a wake
  under way takes the run up again; and the next pass reads the version from just
  before that wake's own status write, ended and annotated, and
  `handleTerminationRequest` clears the annotation
  (`agentrun_controller.go:756-762`). The run goes on as if it had not been asked
  to stop.
- One piece of feedback may buy two rounds (`overlaps` in `RoundsBounded`,
  `crossed` in `ReviewLoop`): webhook and monitor both read the implementer before
  either patches it (`prloop_external_event.go:90-106`), the first patch is
  resolved and the next round starts, then the second patch says resolving again.
- Interrupted work may be left (`mute` in `InterruptedWorkResumes`): a pod whose
  continuation is not written exits all the same (`loop.go:2334-2337`), and unless
  the marker was written before nothing tells its replacement.

## 7. Not modelled, and why

- Overlapping pods and the durable run's lease: the lease lives in the SDK,
  which is not in the repository. Planned as a variant of `TurnLoop`.
- Of the lost writes that the runner only logs or ignores: a restore that cannot
  read the working state (it starts without floor, marker and pass), a failed
  `DrainInterrupts`, a pending request that is not set or cleared, and notices.
  The lost writes of the stop's records, of the marker and of a continuation are
  modelled (`Lost`).
- Exits of the runner with status failed (`loop.go:805`, `:913`, `:1161`, `:1630`),
  after which the run has ended and nobody is to take its work up.
- Of the wakes: the resume request without a message, checkpoints of standing
  runs, the nudge that wakes only ended runs, `MarkWakeIntentApplied` (nothing
  reads its timestamp); the drain of the sandbox is in `RunLifecycle`.
- Resume requests, control commands (`/stop` as a message), the cost cap's
  pause, delegated children, sub-agent checkpoints.
- Of the AgentRun controller: defaulting of the spec and the mode, the rollup
  of a team's children, GitHub's list of processed issues, runs without an
  admission profile, expired claims, several claims of one run.
- Of the team service: creation, dependencies, artifacts, waiting.
- Of the review loop: several loops on one run, webhook deliveries that overlap
  each other, the monitor's rollups of checks and reviews, its rate limits, the
  limit of 64 recorded ids, events without an id, the question to the user when
  feedback finds a cancelled implementer.
- Of the work items: triage, breakdown, dependencies, escalation, health
  reports; stale informer copies of the command list.
- Transcript folding and compaction: they decide what the model reads, not
  which message it works on.
- Message contents, authorisation, Kubernetes object construction, user
  interface.

## 8. Plan

Done in this order: store, its proofs, input requests, turn loop, wake
protocol, its proofs, the abstract input request and its refinement, the
review loop, dispatch and delivery of work items with their proofs, the proofs
of input requests and of the turn loop, the life of a run with its proofs, the
abstract wake, the abstract delivery, the abstract life of a run and the
abstract review loop with their refinements. Next:

1. One abstract life of a run for `RunLife` and `Wake`, so that the promise to
   senders and the controller's own are composed.
2. The overseer's checkpoint cycle over `RunLifecycle`, and the team service's
   children.
3. `TurnLoop` with overlapping pods and leases, resume requests.
4. Triage and breakdown of work items, cron dispatch.
5. `OAuthRefresh`, `ProjectState`, `Microcache`.

Runs are kept to one per question, and bounds to what finishes in minutes;
where a new module asks a question that an older run already answers, the runs
are merged.
