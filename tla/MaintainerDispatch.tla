------------------------- MODULE MaintainerDispatch -------------------------
(***************************************************************************)
(* How the repository maintainer's dispatch commands take a work item to   *)
(* an implementer run (maintainerworkitem_execution.go) without exceeding  *)
(* the repository's capacity.  A dispatch is recorded in two objects, one  *)
(* write each: the ledger, an annotation of the GitHubRepository that holds*)
(* a slot per item and the day's count, and the item's reservation.  Then  *)
(* the trigger label is put on the issue, and the run is created later, by *)
(* the issue sync or by GitHub's webhook.                                  *)
(*                                                                         *)
(* One worker processes the commands of a repository, in any order, and    *)
(* every write is a step: an API error or a crash breaks the command off   *)
(* between two of them, and a later pass takes it up from its phase alone. *)
(* People label issues, delete runs and wake them at any time.             *)
(*                                                                         *)
(* A command's precondition, the item's projection sequence, is reduced to *)
(* whether the sequence has moved since the command was issued.  Items are *)
(* triaged and have no pull request; the other reasons to refuse (mode,    *)
(* template, graph, pending decision, stale observation, the issuer's      *)
(* authority) are a choice.                                                *)
(***************************************************************************)
EXTENDS Naturals, FiniteSets

CONSTANTS
  Items,          (* the repository's work items                           *)
  MaxConcurrent,  (* maintainer.maxConcurrentDispatches                    *)
  MaxDaily,       (* maintainer.maxDispatchesPerDay                        *)
  FailureBudget,  (* maintainerCommandFailureBudget                        *)
  MaxCommands,    (* bound: dispatch commands issued                       *)
  MaxBreaks,      (* bound: commands broken off                            *)
  LastDay         (* bound: days                                           *)

Commands == 1..MaxCommands
None     == 0
Days     == 0..LastDay

ASSUME DispatchAssumption ==
  /\ IsFiniteSet(Items)
  /\ MaxConcurrent \in Nat \ {0} /\ MaxDaily \in Nat \ {0} /\ FailureBudget \in Nat \ {0}
  /\ MaxCommands \in Nat /\ MaxBreaks \in Nat /\ LastDay \in Nat

VARIABLES
  ledgerDay, count,  (* the ledger's day, and the dispatches it counts     *)
  slot, slotDay,     (* the command an item's slot is reserved by, and when*)
  reservation,       (* the item's status.dispatchReservation              *)
  bound,             (* the reservation has an AgentRunRef                 *)
  offered,           (* the item is in phase ReadyToDispatch               *)
  target, phase, fails, recovers,  (* each command: its item, its phase,   *)
                     (* its failure count, whether it names a run to recreate *)
  behind,            (* commands whose item has moved since they were issued *)
  label, processed,  (* issues with the trigger label, and in the repository's *)
                     (* processedIssueIDs                                  *)
  run, predates,     (* each item's run, and those older than the reservation *)
  call, fleet,       (* the worker: its step and command, and the items it *)
                     (* has listed an active run for                       *)
  today, breaks,     (* the day, and the counter of the bound              *)
  lapsed,            (* history: items whose slot was pruned by its age    *)
  excused            (* history: runs that became active without a slot    *)

ledger  == <<ledgerDay, count, slot, slotDay>>
items   == <<reservation, bound, offered>>
commands == <<target, phase, fails, recovers, behind>>
github  == <<label, processed, run, predates>>
bounds  == <<today, breaks>>
history == <<lapsed, excused>>
worker  == <<call, fleet>>
dispatchVars == <<ledger, items, commands, github, worker, bounds, history>>

Waiting  == {"pending", "accepted", "failed"}
Terminal == {"succeeded", "rejected"}
Active   == {i \in Items : run[i] = "active"}
Slots    == {i \in Items : slot[i] # None}

DispatchTypeOK ==
  /\ ledgerDay \in Days /\ count \in Nat
  /\ slot \in [Items -> {None} \cup Commands] /\ slotDay \in [Items -> Days]
  /\ reservation \in [Items -> {None} \cup Commands]
  /\ bound \subseteq Items /\ offered \subseteq Items
  /\ target \in [Commands -> Items]
  /\ phase \in [Commands -> {"unissued"} \cup Waiting \cup Terminal]
  /\ fails \in [Commands -> Nat]
  /\ recovers \subseteq Commands /\ behind \subseteq Commands
  /\ label \subseteq Items /\ processed \subseteq Items /\ predates \subseteq Items
  /\ run \in [Items -> {"absent", "active", "ended"}]
  /\ call \in [step : {"idle", "apply", "recover", "transfer", "list", "reserve", "hold",
                       "accept", "check", "label", "recreate", "complete", "giveBack", "free", "fail"},
               cmd : {None} \cup Commands]
  /\ fleet \subseteq Items
  /\ today \in Days /\ breaks \in 0..MaxBreaks
  /\ lapsed \subseteq Items /\ excused \subseteq Items

DispatchInit ==
  /\ ledgerDay = 0 /\ count = 0
  /\ slot = [i \in Items |-> None] /\ slotDay = [i \in Items |-> 0]
  /\ reservation = [i \in Items |-> None]
  /\ bound = {} /\ offered = Items
  /\ target \in [Commands -> Items]
  /\ phase = [c \in Commands |-> "unissued"]
  /\ fails = [c \in Commands |-> 0]
  /\ recovers = {} /\ behind = {}
  /\ label = {} /\ processed = {} /\ predates = {}
  /\ run = [i \in Items |-> "absent"]
  /\ call = [step |-> "idle", cmd |-> None] /\ fleet = {}
  /\ today = 0 /\ breaks = 0
  /\ lapsed = {} /\ excused = {}

-----------------------------------------------------------------------------
(* The worker's steps.                                                     *)
Idle        == call.step = "idle"
At(c, step) == call = [step |-> step, cmd |-> c]
Goto(c, step) == call' = [step |-> step, cmd |-> c] /\ fleet' = {}
Leave       == call' = [step |-> "idle", cmd |-> None] /\ fleet' = {}

(* The sequence of item i moves: commands on it not applied yet are behind.*)
Moves(i) == behind' = behind \cup {c \in Commands : phase[c] = "pending" /\ target[c] = i}

(* The command's result is written without the run to recreate.  The item  *)
(* is told next, a move, unless it shows that result already or this breaks *)
(* off: the command is settled all the same.                               *)
Conclude(c, p) ==
  /\ phase' = [phase EXCEPT ![c] = p]
  /\ recovers' = recovers \ {c}
  /\ Moves(target[c]) \/ UNCHANGED behind
  /\ Leave
  /\ UNCHANGED <<target, fails>>

Reject(c) == Conclude(c, "rejected")

-----------------------------------------------------------------------------
(* validateMaintainerWorkItemCommand and the failure budget: the start of  *)
(* a pass over command c.  Whatever its phase, it is rejected when whoever *)
(* issued it has lost the authority to.                                    *)
ExhaustedLate(c) == phase[c] = "failed" /\ fails[c] > FailureBudget
Exhausted(c) == phase[c] = "failed" /\ fails[c] >= FailureBudget
Outdated(c)  == phase[c] = "pending" /\ reservation[target[c]] # c /\ c \in behind

Begin(c) ==
  /\ Idle /\ phase[c] \in Waiting
  /\ \/ Reject(c)
     \/ /\ ~Exhausted(c) /\ ~Outdated(c)
        /\ Goto(c, IF phase[c] = "pending" THEN "apply" ELSE "check")
        /\ UNCHANGED commands
  /\ UNCHANGED <<ledger, items, github, bounds, history>>

(* applyMaintainerExecutionIntent: a replay goes on, an item nobody has    *)
(* reserved is reserved, one whose run is gone is recovered.               *)
Apply(c) == LET i == target[c] IN
  /\ At(c, "apply")
  /\ \/ /\ reservation[i] = c
        /\ Goto(c, "accept") /\ UNCHANGED commands
     \/ /\ reservation[i] = None /\ i \in offered /\ c \notin behind
        /\ Goto(c, "list") /\ UNCHANGED commands
     \/ /\ reservation[i] \notin {None, c} /\ i \in bound /\ run[i] = "absent"
        /\ Goto(c, "recover")
        /\ recovers' = recovers \cup {c}
        /\ UNCHANGED <<target, phase, fails, behind>>
     \/ Reject(c)
  /\ UNCHANGED <<ledger, items, github, bounds, history>>

(* The runs are listed before the ledger is read.                          *)
ListRuns(c) ==
  /\ At(c, "list")
  /\ call' = [step |-> "reserve", cmd |-> c] /\ fleet' = Active
  /\ UNCHANGED <<ledger, items, commands, github, bounds, history>>

(* pruneMaintainerDispatchReservations, for a dispatch of item i.  A slot  *)
(* is past its 24 hours on the second day after it was made, and may be on *)
(* the first: old is the choice.                                           *)
MayBeOld  == {j \in Slots : slotDay[j] < today}
MustBeOld == {j \in Slots : slotDay[j] + 1 < today}
PrunedByAge(i, old) == old \ ({i} \cup bound \cup fleet)
Pruned(i, old) == PrunedByAge(i, old) \cup ((Slots \cap bound) \ ({i} \cup fleet))

UsageOfRuns(kept) == Cardinality(fleet)
Usage(kept) == Cardinality(fleet \cup (kept \ bound))
CountToday  == IF ledgerDay = today THEN count ELSE 0

(* The ledger is written with the day rolled over and the pruned slots     *)
(* gone; a refusal that prunes nothing writes nothing.                     *)
Persist(gone) ==
  /\ ledgerDay' = today /\ count' = CountToday
  /\ slot' = [j \in Items |-> IF j \in gone THEN None ELSE slot[j]]
  /\ UNCHANGED slotDay

AddSlot(i, c, gone) ==
  /\ ledgerDay' = today /\ count' = CountToday + 1
  /\ slot' = [j \in Items |-> IF j = i THEN c ELSE IF j \in gone THEN None ELSE slot[j]]
  /\ slotDay' = [slotDay EXCEPT ![i] = today]

(* reserveMaintainerDispatch: the ledger, under the repository's           *)
(* optimistic lock, when the slots in old are past their time.             *)
Fits(gone) == Usage(Slots \ gone) < MaxConcurrent /\ CountToday < MaxDaily

Ledgers(c, i, gone) ==
  \/ /\ slot[i] = None /\ Fits(gone)
     /\ AddSlot(i, c, gone)
     /\ Goto(c, "hold") /\ UNCHANGED commands
  \/ /\ slot[i] = c
     /\ IF gone = {} THEN UNCHANGED ledger ELSE Persist(gone)
     /\ Goto(c, "hold") /\ UNCHANGED commands
  \/ /\ slot[i] # c /\ ~(slot[i] = None /\ Fits(gone))
     /\ IF gone = {} THEN UNCHANGED ledger ELSE Persist(gone)
     /\ Reject(c)

Reserve(c) ==
  /\ At(c, "reserve")
  /\ \E old \in SUBSET MayBeOld : LET gone == Pruned(target[c], old) IN
       /\ MustBeOld \subseteq old
       /\ Ledgers(c, target[c], gone)
       /\ lapsed' = (lapsed \cup PrunedByAge(target[c], old))
                    \ {i \in {target[c]} : slot[i] = None /\ Fits(gone)}
       /\ excused' = excused \cup (gone \cap Active)
  /\ UNCHANGED <<items, github, bounds>>

(* ... then the item.  A run it has already predates the reservation, but  *)
(* for one not a minute old.                                               *)
Hold(c) == LET i == target[c] IN
  /\ At(c, "hold")
  /\ reservation' = [reservation EXCEPT ![i] = c]
  /\ offered' = offered \ {i}
  /\ predates' \in {predates, IF run[i] = "absent" THEN predates ELSE predates \cup {i}}
  /\ Moves(i)
  /\ Goto(c, "accept")
  /\ UNCHANGED <<ledger, bound, target, phase, fails, recovers, label, processed, run, bounds, history>>

(* transferMaintainerDispatchReservation: the slot, if it is still the old *)
(* command's, then the reservation, which waits for a run again.           *)
RecoverSlot(c) == LET i == target[c] IN
  /\ At(c, "recover")
  /\ IF slot[i] \in {c, reservation[i]}
     THEN /\ slot' = [slot EXCEPT ![i] = IF @ = None THEN None ELSE c]
          /\ IF slot[i] = None THEN Reject(c) ELSE Goto(c, "transfer") /\ UNCHANGED commands
     ELSE Reject(c) /\ UNCHANGED slot
  /\ UNCHANGED <<ledgerDay, count, slotDay, items, github, bounds, history>>

Transfer(c) == LET i == target[c] IN
  /\ At(c, "transfer")
  /\ reservation' = [reservation EXCEPT ![i] = c]
  /\ bound' = bound \ {i}
  /\ Moves(i)
  /\ Goto(c, "accept")
  /\ UNCHANGED <<ledger, offered, target, phase, fails, recovers, github, bounds, history>>

(* setMaintainerWorkItemCommandAccepted.                                   *)
Accept(c) ==
  /\ At(c, "accept")
  /\ phase' = [phase EXCEPT ![c] = "accepted"]
  /\ Goto(c, "check")
  /\ UNCHANGED <<ledger, items, target, fails, recovers, behind, github, bounds, history>>

(* maintainerDispatchReservationActive: both objects still name c.         *)
Holds(c) == reservation[target[c]] = c /\ slot[target[c]] = c

Check(c) ==
  /\ At(c, "check")
  /\ Goto(c, IF Holds(c) THEN "label" ELSE "giveBack")
  /\ UNCHANGED <<ledger, items, commands, github, bounds, history>>

(* The issue is open and takes the label, or it is closed or refuses it.   *)
Label(c) ==
  /\ At(c, "label")
  /\ \/ /\ label' = label \cup {target[c]}
        /\ Goto(c, IF c \in recovers THEN "recreate" ELSE "complete")
     \/ Goto(c, "giveBack") /\ UNCHANGED label
  /\ UNCHANGED <<ledger, items, commands, processed, run, predates, bounds, history>>

(* A run of item i starts: it takes the item's slot over, or has none.     *)
Starts(i) ==
  /\ run' = [run EXCEPT ![i] = "active"]
  /\ excused' = IF slot[i] = None THEN excused \cup {i} ELSE excused \ {i}

(* recreateMaintainerDispatchRun: the sync never does it, because the      *)
(* issue is in processedIssueIDs.                                          *)
Recreate(c) == LET i == target[c] IN
  /\ At(c, "recreate")
  /\ \/ /\ Holds(c)
        /\ IF run[i] = "absent" THEN Starts(i) /\ predates' = predates \ {i}
           ELSE UNCHANGED <<run, predates, excused>>
        /\ Goto(c, "complete")
     \/ Goto(c, "giveBack") /\ UNCHANGED <<run, predates, excused>>
  /\ UNCHANGED <<ledger, items, commands, label, processed, bounds, lapsed>>

(* completeMaintainerWorkItemCommand.                                      *)
Complete(c) ==
  /\ At(c, "complete")
  /\ Conclude(c, "succeeded")
  /\ UNCHANGED <<ledger, items, github, bounds, history>>

(* Mutants: whoever owns the slot, and the count whatever the day.         *)
GiveBackOfOthers(c) == LET i == target[c] IN
  /\ At(c, "giveBack")
  /\ slot' = [slot EXCEPT ![i] = None]
  /\ Goto(c, "free")
  /\ UNCHANGED <<ledgerDay, count, slotDay, items, commands, github, bounds, history>>

(* Mutation: a release takes two off the day's count.                     *)
GiveBackTwice(c) == LET i == target[c] IN
  /\ At(c, "giveBack")
  /\ slot' = [slot EXCEPT ![i] = IF @ = c THEN None ELSE @] /\ count' = count - 1
  /\ Goto(c, "free")
  /\ UNCHANGED <<ledgerDay, slotDay, items, commands, github, bounds, history>>

(* failAndReleaseMaintainerDispatch: the slot and the day's budget, if c   *)
(* still owns it, then the reservation, then the failure.                  *)
GiveBack(c) == LET i == target[c] IN
  /\ At(c, "giveBack")
  /\ IF slot[i] = c
     THEN /\ slot' = [slot EXCEPT ![i] = None]
          /\ count' = IF count > 0 /\ slotDay[i] = ledgerDay THEN count - 1 ELSE count
     ELSE UNCHANGED <<slot, count>>
  /\ Goto(c, "free")
  /\ UNCHANGED <<ledgerDay, slotDay, items, commands, github, bounds, history>>

Free(c) == LET i == target[c] IN
  /\ At(c, "free")
  /\ IF reservation[i] = c
     THEN /\ reservation' = [reservation EXCEPT ![i] = None]
          /\ bound' = bound \ {i}
          /\ Moves(i)
     ELSE UNCHANGED <<reservation, bound, behind>>
  /\ fails' = [fails EXCEPT ![c] = @ + 1]
  /\ Goto(c, "fail")
  /\ UNCHANGED <<ledger, offered, target, phase, recovers, github, bounds, history>>

Fail(c) ==
  /\ At(c, "fail")
  /\ Conclude(c, "failed")
  /\ UNCHANGED <<ledger, items, github, bounds, history>>

(* An API error or a crash.  A label request that timed out may have been  *)
(* carried out.                                                            *)
Breaks(c) ==
  /\ \E step \in {"apply", "recover", "transfer", "list", "reserve", "hold", "accept", "check",
                  "label", "recreate", "complete", "giveBack", "free", "fail"} : At(c, step)
  /\ breaks < MaxBreaks /\ breaks' = breaks + 1
  /\ label' \in {label, IF call.step = "label" THEN label \cup {target[c]} ELSE label}
  /\ Leave
  /\ UNCHANGED <<ledger, items, commands, processed, run, predates, today, history>>

(* reconcileMaintainerExecutionProjection, for item i.                     *)
Project(i) ==
  LET binds  == reservation[i] # None /\ i \notin bound /\ run[i] # "absent" /\ i \notin predates
      offers == reservation[i] = None /\ run[i] # "active" IN
  /\ Idle
  /\ binds \/ (offers # (i \in offered))
  /\ bound' = IF binds THEN bound \cup {i} ELSE bound
  /\ offered' = IF offers THEN offered \cup {i} ELSE offered \ {i}
  /\ Moves(i)
  /\ UNCHANGED <<ledger, reservation, target, phase, fails, recovers, github, worker, bounds, history>>

-----------------------------------------------------------------------------
(* The issue sync, or the webhook of the label.                            *)
CreateRun(i) ==
  /\ i \in label /\ run[i] = "absent" /\ i \notin processed
  /\ Starts(i)
  /\ processed' = processed \cup {i}
  /\ predates' = predates \ {i}
  /\ UNCHANGED <<ledger, items, commands, label, worker, bounds, lapsed>>

(* Everything the maintainer, people, runs and time do.                    *)
IssueCommand(c) ==
  /\ phase[c] = "unissued" /\ \A d \in Commands : d < c => phase[d] # "unissued"
  /\ phase' = [phase EXCEPT ![c] = "pending"]
  /\ UNCHANGED <<ledger, items, target, fails, recovers, behind, github, worker, bounds, history>>

ItemMoves(i) ==
  /\ Moves(i) /\ behind' # behind
  /\ UNCHANGED <<ledger, items, target, phase, fails, recovers, github, worker, bounds, history>>

PersonLabels(i) ==
  /\ i \notin label
  /\ label' = label \cup {i}
  /\ UNCHANGED <<ledger, items, commands, processed, run, predates, worker, bounds, history>>

RunEnds(i) ==
  /\ run[i] = "active"
  /\ run' = [run EXCEPT ![i] = "ended"]
  /\ UNCHANGED <<ledger, items, commands, label, processed, predates, worker, bounds, history>>

RunWakes(i) ==
  /\ run[i] = "ended"
  /\ run' = [run EXCEPT ![i] = "active"]
  /\ excused' = excused \cup {i}
  /\ UNCHANGED <<ledger, items, commands, label, processed, predates, worker, bounds, lapsed>>

DeleteRun(i) ==
  /\ run[i] # "absent"
  /\ run' = [run EXCEPT ![i] = "absent"]
  /\ UNCHANGED <<ledger, items, commands, label, processed, predates, worker, bounds, history>>

DayPasses ==
  /\ today < LastDay /\ today' = today + 1
  /\ UNCHANGED <<ledger, items, commands, github, worker, breaks, history>>

Process(c) ==
  \/ Begin(c) \/ Apply(c) \/ ListRuns(c) \/ Reserve(c) \/ Hold(c) \/ RecoverSlot(c) \/ Transfer(c)
  \/ Accept(c) \/ Check(c) \/ Label(c) \/ Recreate(c) \/ Complete(c)
  \/ GiveBack(c) \/ Free(c) \/ Fail(c)

DispatchNext ==
  \/ \E c \in Commands : Process(c) \/ Breaks(c) \/ IssueCommand(c)
  \/ \E i \in Items : Project(i) \/ CreateRun(i) \/ ItemMoves(i) \/ PersonLabels(i)
                      \/ RunEnds(i) \/ RunWakes(i) \/ DeleteRun(i)
  \/ DayPasses

DispatchSpec == DispatchInit /\ [][DispatchNext]_dispatchVars

-----------------------------------------------------------------------------
(* Properties.                                                             *)

(* The items with a slot, and those with a run that is active although no  *)
(* slot was given up for it (excused: a run woken after it had ended, or   *)
(* started from a label without a slot), never exceed the concurrency cap: *)
(* neither pruning, nor a recovery, nor a command broken off between the   *)
(* ledger and the item lets two dispatches share a slot.                   *)
FleetWithinCap ==
  Cardinality(Slots \cup (Active \ excused)) <= MaxConcurrent

(* A dispatch that was completed and whose run has not been seen yet still *)
(* holds its slot, unless the slot was pruned for its age: no retry of an  *)
(* older command and no other item's dispatch takes it away.               *)
DispatchKeepsItsSlot ==
  \A c \in Commands : LET i == target[c] IN
    phase[c] = "succeeded" /\ reservation[i] = c /\ i \notin bound \cup lapsed => slot[i] = c

(* The day's count covers every slot made that day, so that giving back a  *)
(* slot of an earlier day never buys a dispatch today.                     *)
CountCoversSlots ==
  Cardinality({i \in Slots : slotDay[i] = ledgerDay}) <= count

(* A dispatch whose label keeps being refused is given up: it fails no     *)
(* more often than its budget, and once more for every time that the       *)
(* worker broke off between counting a failure and recording it.           *)
RetriesWithinBudget ==
  \A c \in Commands : fails[c] <= FailureBudget + breaks

(* What execution.go says of the 24 hours: they bound how long an          *)
(* unmaterialized reservation with no active run may hold a capacity slot. *)
(* A dispatch that would fit is not refused for such a slot.               *)
OldSlotsAreFree ==
  [][\A c \in Commands : LET i == target[c] IN
       At(c, "reserve") /\ slot[i] \notin {None, c} /\ i \in MustBeOld /\ run[i] # "active"
         => phase'[c] # "rejected"]_dispatchVars
=============================================================================
