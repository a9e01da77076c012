---------------------- MODULE MaintainerDispatchProofs ----------------------
(***************************************************************************)
(* Proofs about the dispatch ledger for every number of items, commands,   *)
(* failures and days, and for every cap.                                   *)
(*                                                                         *)
(* The cap on the fleet is inductive once it is known what a listed fleet  *)
(* leaves out (FleetInv).  That a dispatch keeps its slot needs the worker's *)
(* position: between the check that both objects name the command and its  *)
(* completion nobody else writes them (HoldInv).                           *)
(***************************************************************************)
EXTENDS MaintainerDispatch, FiniteSetTheorems, TLAPS

(* Everything the worker, GitHub and people write is well typed. *)
LEMMA TypeInit == DispatchInit => DispatchTypeOK
BY DispatchAssumption DEF DispatchInit, DispatchTypeOK, Days, Waiting, Terminal

LEMMA ConcludeType ==
  ASSUME DispatchTypeOK, NEW c \in Commands, NEW p \in Waiting \cup Terminal, Conclude(c, p)
  PROVE  /\ phase' \in [Commands -> {"unissued"} \cup Waiting \cup Terminal]
         /\ recovers' \subseteq Commands /\ behind' \subseteq Commands
         /\ call' = [step |-> "idle", cmd |-> None] /\ fleet' = {}
         /\ UNCHANGED <<target, fails>>
BY DEF DispatchTypeOK, Conclude, Moves, Leave

LEMMA TypeStep == DispatchTypeOK /\ [DispatchNext]_dispatchVars => DispatchTypeOK'
<1> SUFFICES ASSUME DispatchTypeOK, [DispatchNext]_dispatchVars PROVE DispatchTypeOK'
  OBVIOUS
<1> USE DispatchAssumption
<1>1. ASSUME NEW c \in Commands, Begin(c) PROVE DispatchTypeOK'
  <2>1. CASE Reject(c)
    BY <1>1, <2>1, ConcludeType DEF Begin, Reject, DispatchTypeOK, ledger, items, github, bounds, history, Terminal
  <2>2. CASE Goto(c, IF phase[c] = "pending" THEN "apply" ELSE "check") /\ UNCHANGED commands
    BY <1>1, <2>2 DEF Begin, Goto, DispatchTypeOK, ledger, items, commands, github, bounds, history
  <2> QED
    BY <1>1, <2>1, <2>2 DEF Begin
<1>2. ASSUME NEW c \in Commands, Apply(c) PROVE DispatchTypeOK'
  <2>1. CASE Reject(c)
    BY <1>2, <2>1, ConcludeType DEF Apply, Reject, DispatchTypeOK, ledger, items, github, bounds, history, Terminal
  <2>2. CASE ~Reject(c)
    BY <1>2, <2>2 DEF Apply, Goto, DispatchTypeOK, ledger, items, commands, github, bounds, history
  <2> QED
    BY <2>1, <2>2
<1>3. ASSUME NEW c \in Commands, ListRuns(c) PROVE DispatchTypeOK'
  BY <1>3 DEF ListRuns, Active, DispatchTypeOK, ledger, items, commands, github, bounds, history
<1>4. ASSUME NEW c \in Commands, Reserve(c) PROVE DispatchTypeOK'
  <2> DEFINE i == target[c]
  <2>1. i \in Items /\ CountToday \in Nat
    BY DEF DispatchTypeOK, CountToday
  <2>2. PICK old \in SUBSET MayBeOld :
          /\ Ledgers(c, i, Pruned(i, old))
          /\ lapsed' \subseteq lapsed \cup PrunedByAge(i, old)
          /\ excused' = excused \cup (Pruned(i, old) \cap Active)
    BY <1>4 DEF Reserve
  <2> DEFINE gone == Pruned(i, old)
  <2>3. gone \subseteq Items /\ PrunedByAge(i, old) \subseteq Items
    BY DEF MayBeOld, Pruned, PrunedByAge, Slots
  <2>4. lapsed' \subseteq Items /\ excused' \subseteq Items
    BY <2>2, <2>3 DEF DispatchTypeOK, Active
  <2>5. CASE AddSlot(i, c, gone) /\ Goto(c, "hold") /\ UNCHANGED commands
    BY <1>4, <2>1, <2>4, <2>5 DEF Reserve, AddSlot, Goto, DispatchTypeOK, items, commands, github, bounds
  <2>6. (UNCHANGED ledger \/ Persist(gone))
        => /\ ledgerDay' \in Days /\ count' \in Nat
           /\ slot' \in [Items -> {None} \cup Commands] /\ slotDay' \in [Items -> Days]
    BY <2>1 DEF Persist, ledger, DispatchTypeOK
  <2>7. CASE (UNCHANGED ledger \/ Persist(gone)) /\ Goto(c, "hold") /\ UNCHANGED commands
    BY <1>4, <2>4, <2>6, <2>7 DEF Reserve, Goto, DispatchTypeOK, items, commands, github, bounds
  <2>8. CASE (UNCHANGED ledger \/ Persist(gone)) /\ Reject(c)
    <3>1. /\ phase' \in [Commands -> {"unissued"} \cup Waiting \cup Terminal]
          /\ recovers' \subseteq Commands /\ behind' \subseteq Commands
          /\ call' = [step |-> "idle", cmd |-> None] /\ fleet' = {}
          /\ UNCHANGED <<target, fails>>
      BY <2>8, ConcludeType DEF Reject, Terminal
    <3> QED
      BY <1>4, <2>4, <2>6, <2>8, <3>1 DEF Reserve, DispatchTypeOK, items, github, bounds
  <2> QED
    BY <2>2, <2>5, <2>7, <2>8 DEF Ledgers
<1>5. ASSUME NEW c \in Commands, Hold(c) PROVE DispatchTypeOK'
  BY <1>5 DEF Hold, Moves, Goto, DispatchTypeOK, ledger, bounds, history
<1>6. ASSUME NEW c \in Commands, RecoverSlot(c) PROVE DispatchTypeOK'
  <2>1. slot' \in [Items -> {None} \cup Commands]
    BY <1>6 DEF RecoverSlot, DispatchTypeOK
  <2>2. CASE Reject(c)
    <3>1. /\ phase' \in [Commands -> {"unissued"} \cup Waiting \cup Terminal]
          /\ recovers' \subseteq Commands /\ behind' \subseteq Commands
          /\ call' = [step |-> "idle", cmd |-> None] /\ fleet' = {}
          /\ UNCHANGED <<target, fails>>
      BY <2>2, ConcludeType DEF Reject, Terminal
    <3> QED
      BY <1>6, <2>1, <3>1 DEF RecoverSlot, DispatchTypeOK, items, github, bounds, history
  <2>3. CASE Goto(c, "transfer") /\ UNCHANGED commands
    BY <1>6, <2>1, <2>3 DEF RecoverSlot, Goto, DispatchTypeOK, items, commands, github, bounds, history
  <2> QED
    BY <1>6, <2>2, <2>3 DEF RecoverSlot
<1>7. ASSUME NEW c \in Commands, Transfer(c) PROVE DispatchTypeOK'
  BY <1>7 DEF Transfer, Moves, Goto, DispatchTypeOK, ledger, github, bounds, history
<1>8. ASSUME NEW c \in Commands, Accept(c) PROVE DispatchTypeOK'
  BY <1>8 DEF Accept, Goto, DispatchTypeOK, ledger, items, github, bounds, history, Waiting
<1>9. ASSUME NEW c \in Commands, Check(c) \/ Label(c) PROVE DispatchTypeOK'
  BY <1>9 DEF Check, Label, Goto, DispatchTypeOK, ledger, items, commands, github, bounds, history
<1>10. ASSUME NEW c \in Commands, Recreate(c) PROVE DispatchTypeOK'
  BY <1>10 DEF Recreate, Starts, Goto, DispatchTypeOK, ledger, items, commands, bounds
<1>11. ASSUME NEW c \in Commands, Complete(c) \/ Fail(c) PROVE DispatchTypeOK'
  <2>1. Conclude(c, "succeeded") \/ Conclude(c, "failed")
    BY <1>11 DEF Complete, Fail
  <2>2. /\ phase' \in [Commands -> {"unissued"} \cup Waiting \cup Terminal]
        /\ recovers' \subseteq Commands /\ behind' \subseteq Commands
        /\ call' = [step |-> "idle", cmd |-> None] /\ fleet' = {}
        /\ UNCHANGED <<target, fails>>
    BY <2>1, ConcludeType DEF Terminal, Waiting
  <2> QED
    BY <1>11, <2>2 DEF Complete, Fail, DispatchTypeOK, ledger, items, github, bounds, history
<1>12. ASSUME NEW c \in Commands, GiveBack(c) PROVE DispatchTypeOK'
  BY <1>12 DEF GiveBack, Goto, DispatchTypeOK, items, commands, github, bounds, history
<1>13. ASSUME NEW c \in Commands, Free(c) PROVE DispatchTypeOK'
  BY <1>13 DEF Free, Moves, Goto, DispatchTypeOK, ledger, github, bounds, history
<1>14. ASSUME NEW c \in Commands, Breaks(c) PROVE DispatchTypeOK'
  BY <1>14 DEF Breaks, Leave, DispatchTypeOK, ledger, items, commands, history
<1>15. ASSUME NEW i \in Items, Project(i) PROVE DispatchTypeOK'
  BY <1>15 DEF Project, Moves, DispatchTypeOK, ledger, github, worker, bounds, history
<1>16. ASSUME NEW i \in Items, CreateRun(i) PROVE DispatchTypeOK'
  BY <1>16 DEF CreateRun, Starts, DispatchTypeOK, ledger, items, commands, worker, bounds
<1>17. ASSUME NEW c \in Commands, IssueCommand(c) PROVE DispatchTypeOK'
  BY <1>17 DEF IssueCommand, DispatchTypeOK, ledger, items, github, worker, bounds, history, Waiting
<1>18. ASSUME NEW i \in Items, ItemMoves(i) \/ PersonLabels(i) PROVE DispatchTypeOK'
  BY <1>18 DEF ItemMoves, PersonLabels, Moves, DispatchTypeOK, ledger, items, commands, github, worker, bounds, history
<1>19. ASSUME NEW i \in Items, RunEnds(i) \/ RunWakes(i) \/ DeleteRun(i) PROVE DispatchTypeOK'
  BY <1>19 DEF RunEnds, RunWakes, DeleteRun, DispatchTypeOK, ledger, items, commands, worker, bounds, history
<1>20. ASSUME DayPasses PROVE DispatchTypeOK'
  BY <1>20 DEF DayPasses, DispatchTypeOK, Days, ledger, items, commands, github, worker, history
<1>21. CASE UNCHANGED dispatchVars
  BY <1>21 DEF dispatchVars, DispatchTypeOK, ledger, items, commands, github, worker, bounds, history
<1> QED
  BY <1>1, <1>2, <1>3, <1>4, <1>5, <1>6, <1>7, <1>8, <1>9, <1>10, <1>11, <1>12, <1>13, <1>14,
     <1>15, <1>16, <1>17, <1>18, <1>19, <1>20, <1>21 DEF DispatchNext, Process

(* The objects of every item and command stay well typed, whatever the     *)
(* worker, people and runs do, and the day's count never goes below zero.  *)
THEOREM DispatchTypes == DispatchSpec => []DispatchTypeOK
BY TypeInit, TypeStep, PTL DEF DispatchSpec

-----------------------------------------------------------------------------
(* The fleet.  A run active now that the worker has not listed has taken   *)
(* its item's slot over, or is excused.                                    *)
Fleet == Slots \cup (Active \ excused)

FleetInv ==
  /\ FleetWithinCap
  /\ call.step = "reserve" => Active \ excused \subseteq fleet \cup Slots

(* A fleet that does not grow stays within the cap. *)
LEMMA FleetShrinks ==
  ASSUME DispatchTypeOK, FleetWithinCap, Fleet' \subseteq Fleet
  PROVE  FleetWithinCap'
<1>1. IsFiniteSet(Fleet)
  BY FS_Subset, DispatchAssumption DEF Fleet, Slots, Active
<1>2. Cardinality(Fleet') <= Cardinality(Fleet) /\ Cardinality(Fleet) \in Nat /\ Cardinality(Fleet') \in Nat
  BY <1>1, FS_Subset, FS_CardinalityType
<1> QED
  BY <1>2, DispatchAssumption DEF FleetWithinCap, Fleet

(* Neither a step that leaves slots, runs and excuses alone ... *)
LEMMA FleetKept ==
  ASSUME DispatchTypeOK, FleetInv, Fleet' \subseteq Fleet, call'.step # "reserve"
  PROVE  FleetInv'
BY FleetShrinks DEF FleetInv

(* ... nor a run that starts with a slot or an excuse, or ends, matters. *)
LEMMA RunsMove ==
  ASSUME DispatchTypeOK, FleetInv, UNCHANGED <<slot, worker>>,
         (Active \ excused)' \subseteq (Active \ excused) \cup Slots
  PROVE  FleetInv'
<1>1. Fleet' \subseteq Fleet /\ Slots' = Slots
  BY DEF Fleet, Slots
<1> QED
  BY <1>1, FleetShrinks DEF FleetInv, worker

(* A slot is only added when the listed fleet and the slots kept leave room. *)
LEMMA ReserveKeepsFleet ==
  ASSUME DispatchTypeOK, FleetInv, NEW c \in Commands, Reserve(c)
  PROVE  FleetInv'
<1> DEFINE i == target[c]
<1>1. PICK old \in SUBSET MayBeOld :
        /\ Ledgers(c, i, Pruned(i, old))
        /\ excused' = excused \cup (Pruned(i, old) \cap Active)
  BY DEF Reserve
<1> DEFINE gone == Pruned(i, old)
<1>2. i \in Items /\ fleet \subseteq Items /\ Active' = Active /\ call.step = "reserve"
  BY DEF DispatchTypeOK, Reserve, github, Active, At
<1>3. Active \ excused \subseteq fleet \cup Slots
  BY <1>2 DEF FleetInv
<1>4. (Active \ excused)' \subseteq fleet \cup (Slots \ gone)
  BY <1>1, <1>2, <1>3
<1>5. call'.step # "reserve"
  BY <1>1 DEF Ledgers, Goto, Reject, Conclude, Leave
<1>6. CASE UNCHANGED ledger \/ Persist(gone)
  <2>1. Slots' \subseteq Slots
    BY <1>6 DEF Persist, ledger, Slots
  <2>2. (Active \ excused)' \subseteq Active \ excused
    BY <1>1, <1>2
  <2> QED
    BY <1>5, <2>1, <2>2, FleetKept DEF Fleet
<1>7. CASE Fits(gone) /\ slot[i] = None /\ AddSlot(i, c, gone)
  <2> DEFINE kept == fleet \cup ((Slots \ gone) \ bound)
  <2>1. Slots' \subseteq (Slots \ gone) \cup {i}
    BY <1>7 DEF AddSlot, Slots
  <2>2. i \notin Slots /\ Slots \ gone \subseteq kept
    BY <1>7 DEF Slots, Pruned
  <2>3. Fleet' \subseteq kept \cup {i}
    BY <1>4, <2>1, <2>2 DEF Fleet
  <2>4. IsFiniteSet(kept) /\ Cardinality(kept) < MaxConcurrent
    BY <1>2, <1>7, FS_Subset, DispatchAssumption DEF Fits, Usage, Slots
  <2>5. IsFiniteSet(kept \cup {i}) /\ Cardinality(kept \cup {i}) <= Cardinality(kept) + 1
    BY <2>4, FS_AddElement, FS_CardinalityType
  <2>6. Cardinality(Fleet') <= Cardinality(kept \cup {i})
    BY <2>3, <2>5, FS_Subset
  <2>7. IsFiniteSet(Fleet')
    BY <2>3, <2>5, FS_Subset
  <2>8. Cardinality(Fleet') <= MaxConcurrent
    BY <2>4, <2>5, <2>6, <2>7, FS_CardinalityType, DispatchAssumption
  <2> QED
    BY <1>5, <2>8 DEF FleetInv, FleetWithinCap, Fleet
<1> QED
  BY <1>1, <1>6, <1>7 DEF Ledgers

LEMMA FleetStep == DispatchTypeOK /\ FleetInv /\ [DispatchNext]_dispatchVars => FleetInv'
<1> SUFFICES ASSUME DispatchTypeOK, FleetInv, [DispatchNext]_dispatchVars PROVE FleetInv'
  OBVIOUS
<1>1. ASSUME NEW c \in Commands,
             Begin(c) \/ Apply(c) \/ Hold(c) \/ Transfer(c) \/ Accept(c) \/ Check(c) \/ Label(c)
             \/ Complete(c) \/ Free(c) \/ Fail(c) \/ Breaks(c)
      PROVE  FleetInv'
  <2>1. UNCHANGED <<slot, run, excused>>
    BY <1>1 DEF Begin, Apply, Hold, Transfer, Accept, Check, Label, Complete, Free, Fail, Breaks,
                ledger, github, history
  <2>2. call'.step # "reserve"
    BY <1>1 DEF Begin, Apply, Hold, Transfer, Accept, Check, Label, Complete, Free, Fail, Breaks,
                Goto, Leave, Reject, Conclude
  <2> QED
    BY <2>1, <2>2, FleetKept DEF Fleet, Slots, Active
<1>2. ASSUME NEW c \in Commands, ListRuns(c) PROVE FleetInv'
  <2>1. UNCHANGED <<slot, run, excused>> /\ fleet' = Active
    BY <1>2 DEF ListRuns, ledger, github, history
  <2> QED
    BY <2>1, FleetShrinks DEF FleetInv, Fleet, Slots, Active
<1>3. ASSUME NEW c \in Commands, RecoverSlot(c) \/ GiveBack(c) PROVE FleetInv'
  <2>1. UNCHANGED <<run, excused>> /\ call'.step # "reserve"
    BY <1>3 DEF RecoverSlot, GiveBack, github, history, Goto, Leave, Reject, Conclude
  <2>2. Slots' \subseteq Slots
    BY <1>3 DEF RecoverSlot, GiveBack, Slots, DispatchTypeOK, Commands, None
  <2> QED
    BY <2>1, <2>2, FleetKept DEF Fleet, Active
<1>4. ASSUME NEW c \in Commands, Recreate(c) PROVE FleetInv'
  <2>1. UNCHANGED slot /\ call'.step # "reserve"
    BY <1>4 DEF Recreate, ledger, Goto
  <2>2. (Active \ excused)' \subseteq (Active \ excused) \cup Slots
    BY <1>4 DEF Recreate, Starts, Active, Slots, DispatchTypeOK
  <2> QED
    BY <2>1, <2>2, FleetKept DEF Fleet, Slots
<1>5. ASSUME NEW i \in Items, CreateRun(i) \/ RunWakes(i) \/ RunEnds(i) \/ DeleteRun(i) PROVE FleetInv'
  <2>1. UNCHANGED <<slot, worker>>
    BY <1>5 DEF CreateRun, RunWakes, RunEnds, DeleteRun, ledger
  <2>2. (Active \ excused)' \subseteq (Active \ excused) \cup Slots
    BY <1>5 DEF CreateRun, Starts, RunWakes, RunEnds, DeleteRun, Active, Slots, DispatchTypeOK, history
  <2> QED
    BY <2>1, <2>2, RunsMove
<1>6. ASSUME NEW i \in Items, Project(i) \/ ItemMoves(i) \/ PersonLabels(i) PROVE FleetInv'
  <2>1. UNCHANGED <<slot, worker, run, excused>>
    BY <1>6 DEF Project, ItemMoves, PersonLabels, ledger, github, history
  <2> QED
    BY <2>1, RunsMove DEF Active
<1>7. ASSUME DayPasses \/ (\E c \in Commands : IssueCommand(c)) \/ UNCHANGED dispatchVars PROVE FleetInv'
  <2>1. UNCHANGED <<slot, worker, run, excused>>
    BY <1>7 DEF DayPasses, IssueCommand, dispatchVars, ledger, github, history, worker
  <2> QED
    BY <2>1, RunsMove DEF Active
<1> QED
  BY <1>1, <1>2, <1>3, <1>4, <1>5, <1>6, <1>7, ReserveKeepsFleet DEF DispatchNext, Process

(* However pruning, recovery and broken-off commands interleave, the items *)
(* with a slot and the runs nobody is excused for never exceed the cap.    *)
THEOREM CapHolds == DispatchSpec => []FleetWithinCap
<1>1. DispatchInit => FleetInv
  <2> SUFFICES ASSUME DispatchInit PROVE FleetInv
    OBVIOUS
  <2>1. Slots = {} /\ Active = {} /\ call.step # "reserve"
    BY DEF DispatchInit, Slots, Active
  <2> QED
    BY <2>1, FS_EmptySet, DispatchAssumption DEF FleetInv, FleetWithinCap
<1>2. FleetInv => FleetWithinCap
  BY DEF FleetInv
<1> QED
  BY <1>1, <1>2, TypeInit, TypeStep, FleetStep, PTL DEF DispatchSpec

-----------------------------------------------------------------------------
(* The slot of a dispatch.  HoldInv says where the worker is, and what the *)
(* ledger and the item hold there; its last part is about commands the     *)
(* worker has left.                                                        *)
Before == {"apply", "list", "reserve", "hold", "recover", "transfer", "accept"}
After  == {"check", "label", "recreate", "complete", "giveBack", "free", "fail"}

CallInv ==
  /\ call.step # "idle" => call.cmd \in Commands
  /\ call.step \in Before => phase[call.cmd] = "pending"
  /\ call.step \in After => phase[call.cmd] \in Waiting
  /\ call.step \in Before \cup After \cup {"idle"}

PlaceInv == LET c == call.cmd IN
  /\ call.step \in {"list", "reserve", "hold"} => reservation[target[c]] = None
  /\ call.step \in {"hold", "transfer"} => slot[target[c]] = c
  /\ call.step \in {"recover", "transfer"} => target[c] \in bound
  /\ call.step \in {"label", "recreate", "complete"} => Holds(c)

SlotInv == \A i \in Items : reservation[i] # None =>
  /\ target[reservation[i]] = i
  /\ i \notin bound \cup lapsed /\ slot[i] # reservation[i] => phase[reservation[i]] # "succeeded"

HoldInv == CallInv /\ PlaceInv /\ SlotInv

(* A step of somebody other than the worker leaves HoldInv alone. *)
LEMMA OthersKeepHold ==
  ASSUME DispatchTypeOK, HoldInv,
         UNCHANGED <<slot, reservation, target, lapsed, worker>>,
         bound \subseteq bound', call.step \notin {"idle"} => bound' = bound,
         \A c \in Commands : phase'[c] = phase[c] \/ (phase[c] = "unissued" /\ phase'[c] = "pending")
  PROVE  HoldInv'
<1>1. CallInv'
  BY DEF HoldInv, CallInv, worker, Waiting, Before, After
<1>2. PlaceInv'
  BY DEF HoldInv, PlaceInv, worker, Holds
<1>3. SlotInv'
  BY DEF HoldInv, SlotInv, DispatchTypeOK
<1> QED
  BY <1>1, <1>2, <1>3 DEF HoldInv

(* Nor does the worker's leaving a command, other than by completing it. *)
LEMMA LeavingKeepsHold ==
  ASSUME DispatchTypeOK, HoldInv, NEW c \in Commands, NEW p \in {"rejected", "failed"},
         UNCHANGED <<reservation, bound>>, lapsed \subseteq lapsed',
         \A i \in Items : slot'[i] = slot[i] \/ i \in bound \cup lapsed' \/ slot[i] # reservation[i],
         Conclude(c, p)
  PROVE  HoldInv'
<1>1. UNCHANGED target /\ call'.step = "idle" /\ phase' = [phase EXCEPT ![c] = p]
  BY DEF Conclude, Leave
<1>2. CallInv' /\ PlaceInv'
  BY <1>1 DEF CallInv, PlaceInv, Before, After
<1>3. SlotInv'
  BY <1>1 DEF HoldInv, SlotInv, DispatchTypeOK
<1> QED
  BY <1>2, <1>3 DEF HoldInv

(* Most of the worker's steps write no slot, item or phase. *)
LEMMA MovingOnKeepsHold ==
  ASSUME DispatchTypeOK, HoldInv, NEW c \in Commands, call.cmd = c,
         UNCHANGED <<slot, reservation, target, lapsed, bound, phase>>,
         CallInv', PlaceInv'
  PROVE  HoldInv'
BY DEF HoldInv, SlotInv

LEMMA ReserveKeepsHold ==
  ASSUME DispatchTypeOK, HoldInv, NEW c \in Commands, Reserve(c)
  PROVE  HoldInv'
<1> DEFINE i == target[c]
<1>1. PICK old \in SUBSET MayBeOld :
        /\ Ledgers(c, i, Pruned(i, old))
        /\ lapsed' = (lapsed \cup PrunedByAge(i, old))
                     \ {j \in {i} : slot[j] = None /\ Fits(Pruned(i, old))}
  BY DEF Reserve
<1> DEFINE gone == Pruned(i, old)
<1>2. /\ i \in Items /\ call = [step |-> "reserve", cmd |-> c]
      /\ reservation[i] = None /\ phase[c] = "pending"
      /\ UNCHANGED <<reservation, bound>>
  BY DEF DispatchTypeOK, Reserve, At, HoldInv, CallInv, PlaceInv, Before, items
<1>3. gone \subseteq bound \cup lapsed' /\ i \notin gone
  BY <1>1, <1>2 DEF Pruned, PrunedByAge
<1>4. \A j \in Items : j # i /\ j \in lapsed => j \in lapsed'
  BY <1>1
<1>5. CASE Reject(c)
  <2>1. slot[i] # None \/ ~Fits(gone)
    BY <1>1, <1>5 DEF Ledgers, Goto, Reject, Conclude, Leave
  <2>2. lapsed \subseteq lapsed'
    BY <1>1, <2>1
  <2>3. UNCHANGED ledger \/ Persist(gone)
    BY <1>1, <1>5 DEF Ledgers, Goto, Reject, Conclude, Leave
  <2>4. \A j \in Items : slot'[j] = slot[j] \/ j \in bound \cup lapsed' \/ slot[j] # reservation[j]
    BY <1>3, <2>3 DEF Persist, ledger
  <2> QED
    BY <1>2, <1>5, <2>2, <2>4, LeavingKeepsHold DEF Reject
<1>6. CASE ~Reject(c)
  <2>1. /\ call' = [step |-> "hold", cmd |-> c] /\ UNCHANGED <<phase, target>>
        /\ slot'[i] = c
        /\ \A j \in Items \ {i} : slot'[j] = slot[j] \/ j \in gone
    BY <1>1, <1>2, <1>3, <1>6 DEF Ledgers, Goto, commands, AddSlot, Persist, ledger, DispatchTypeOK
  <2>2. CallInv' /\ PlaceInv'
    BY <1>2, <2>1 DEF CallInv, PlaceInv, Before, After
  <2>3. SlotInv'
    BY <1>2, <1>3, <1>4, <2>1 DEF HoldInv, SlotInv
  <2> QED
    BY <2>2, <2>3 DEF HoldInv
<1> QED
  BY <1>5, <1>6

LEMMA HoldStep == DispatchTypeOK /\ HoldInv /\ [DispatchNext]_dispatchVars => HoldInv'
<1> SUFFICES ASSUME DispatchTypeOK, HoldInv, [DispatchNext]_dispatchVars PROVE HoldInv'
  OBVIOUS
<1> USE DEF Before, After
<1>1. ASSUME NEW c \in Commands, Begin(c) PROVE HoldInv'
  <2>1. UNCHANGED <<slot, reservation, bound, lapsed>> /\ phase[c] \in Waiting
    BY <1>1 DEF Begin, ledger, items, history
  <2>2. CASE Reject(c)
    BY <2>1, <2>2, LeavingKeepsHold DEF Reject
  <2>3. CASE Goto(c, IF phase[c] = "pending" THEN "apply" ELSE "check") /\ UNCHANGED commands
    <3>1. CallInv' /\ PlaceInv'
      BY <2>1, <2>3 DEF Goto, commands, CallInv, PlaceInv
    <3> QED
      BY <2>1, <2>3, <3>1 DEF HoldInv, SlotInv, commands
  <2> QED
    BY <1>1, <2>2, <2>3 DEF Begin
<1>2. ASSUME NEW c \in Commands, Apply(c) PROVE HoldInv'
  <2>1. /\ UNCHANGED <<slot, reservation, bound, lapsed>> /\ phase[c] = "pending"
        /\ target[c] \in Items
    BY <1>2 DEF Apply, ledger, items, history, At, HoldInv, CallInv, DispatchTypeOK
  <2>2. CASE Reject(c)
    BY <2>1, <2>2, LeavingKeepsHold DEF Reject
  <2>3. CASE ~Reject(c)
    <3>1. /\ UNCHANGED <<phase, target>> /\ call'.cmd = c
          /\ \/ call'.step = "accept"
             \/ call'.step = "list" /\ reservation[target[c]] = None
             \/ call'.step = "recover" /\ target[c] \in bound
      BY <1>2, <2>3 DEF Apply, Goto, commands
    <3>2. CallInv' /\ PlaceInv'
      BY <2>1, <3>1 DEF CallInv, PlaceInv
    <3> QED
      BY <2>1, <3>1, <3>2 DEF HoldInv, SlotInv
  <2> QED
    BY <2>2, <2>3
<1>3. ASSUME NEW c \in Commands, ListRuns(c) PROVE HoldInv'
  <2>1. /\ UNCHANGED <<slot, reservation, bound, lapsed, phase, target>>
        /\ call' = [step |-> "reserve", cmd |-> c]
        /\ call.cmd = c /\ call.step = "list"
    BY <1>3 DEF ListRuns, ledger, items, history, commands, At
  <2>2. CallInv' /\ PlaceInv'
    BY <2>1 DEF HoldInv, CallInv, PlaceInv
  <2> QED
    BY <2>1, <2>2 DEF HoldInv, SlotInv
<1>4. ASSUME NEW c \in Commands, Hold(c) PROVE HoldInv'
  <2>1. /\ reservation' = [reservation EXCEPT ![target[c]] = c]
        /\ UNCHANGED <<slot, bound, lapsed, phase, target>>
        /\ call' = [step |-> "accept", cmd |-> c]
        /\ slot[target[c]] = c /\ phase[c] = "pending" /\ target[c] \in Items
    BY <1>4 DEF Hold, ledger, history, At, Goto, HoldInv, CallInv, PlaceInv, DispatchTypeOK
  <2>2. CallInv' /\ PlaceInv'
    BY <2>1 DEF CallInv, PlaceInv
  <2>3. SlotInv'
    BY <2>1 DEF HoldInv, SlotInv, DispatchTypeOK
  <2> QED
    BY <2>2, <2>3 DEF HoldInv
<1>5. ASSUME NEW c \in Commands, RecoverSlot(c) PROVE HoldInv'
  <2>1. /\ UNCHANGED <<reservation, bound, lapsed>> /\ target[c] \in bound /\ target[c] \in Items
        /\ phase[c] = "pending"
    BY <1>5 DEF RecoverSlot, items, history, At, HoldInv, CallInv, PlaceInv, DispatchTypeOK
  <2>2. \A j \in Items : j # target[c] => slot'[j] = slot[j]
    BY <1>5 DEF RecoverSlot, DispatchTypeOK
  <2>3. CASE Reject(c)
    BY <2>1, <2>2, <2>3, LeavingKeepsHold DEF Reject
  <2>4. CASE ~Reject(c)
    <3>1. /\ UNCHANGED <<phase, target>> /\ call' = [step |-> "transfer", cmd |-> c]
          /\ slot'[target[c]] = c
      BY <1>5, <2>1, <2>4 DEF RecoverSlot, Goto, commands, DispatchTypeOK, Commands, None
    <3>2. CallInv' /\ PlaceInv'
      BY <2>1, <3>1 DEF CallInv, PlaceInv
    <3>3. SlotInv'
      BY <2>1, <2>2, <3>1 DEF HoldInv, SlotInv
    <3> QED
      BY <3>2, <3>3 DEF HoldInv
  <2> QED
    BY <2>3, <2>4
<1>6. ASSUME NEW c \in Commands, Transfer(c) PROVE HoldInv'
  <2>1. /\ reservation' = [reservation EXCEPT ![target[c]] = c]
        /\ bound' = bound \ {target[c]}
        /\ UNCHANGED <<slot, lapsed, phase, target>>
        /\ call' = [step |-> "accept", cmd |-> c]
        /\ slot[target[c]] = c /\ phase[c] = "pending" /\ target[c] \in Items
    BY <1>6 DEF Transfer, ledger, history, At, Goto, HoldInv, CallInv, PlaceInv, DispatchTypeOK
  <2>2. CallInv' /\ PlaceInv'
    BY <2>1 DEF CallInv, PlaceInv
  <2>3. SlotInv'
    BY <2>1 DEF HoldInv, SlotInv, DispatchTypeOK
  <2> QED
    BY <2>2, <2>3 DEF HoldInv
<1>7. ASSUME NEW c \in Commands, Accept(c) PROVE HoldInv'
  <2>1. /\ phase' = [phase EXCEPT ![c] = "accepted"]
        /\ UNCHANGED <<slot, reservation, bound, lapsed, target>>
        /\ call' = [step |-> "check", cmd |-> c]
    BY <1>7 DEF Accept, ledger, items, history, Goto
  <2>2. CallInv' /\ PlaceInv'
    BY <2>1 DEF CallInv, PlaceInv, DispatchTypeOK, Waiting
  <2>3. SlotInv'
    BY <2>1 DEF HoldInv, SlotInv, DispatchTypeOK
  <2> QED
    BY <2>2, <2>3 DEF HoldInv
<1>8. ASSUME NEW c \in Commands, Check(c) \/ Label(c) \/ Recreate(c) PROVE HoldInv'
  <2>1. /\ UNCHANGED <<slot, reservation, bound, lapsed, phase, target>>
        /\ call.cmd = c /\ phase[c] \in Waiting
        /\ call'.cmd = c
        /\ call'.step \in {"label", "giveBack"} \/ call'.step \in {"recreate", "complete", "giveBack"}
        /\ call'.step \in {"label", "recreate", "complete"} => Holds(c)
    BY <1>8 DEF Check, Label, Recreate, ledger, items, commands, history, At, Goto, HoldInv, CallInv, PlaceInv
  <2>2. CallInv'
    BY <2>1 DEF CallInv
  <2>3. PlaceInv'
    BY <2>1 DEF PlaceInv, Holds
  <2> QED
    BY <2>1, <2>2, <2>3 DEF HoldInv, SlotInv
<1>9. ASSUME NEW c \in Commands, Complete(c) PROVE HoldInv'
  <2>1. /\ UNCHANGED <<slot, reservation, bound, lapsed, target>> /\ Holds(c)
        /\ call'.step = "idle" /\ phase' = [phase EXCEPT ![c] = "succeeded"]
    BY <1>9 DEF Complete, ledger, items, history, At, HoldInv, PlaceInv, Conclude, Leave
  <2>2. CallInv' /\ PlaceInv'
    BY <2>1 DEF CallInv, PlaceInv
  <2>3. SlotInv'
    BY <2>1 DEF HoldInv, SlotInv, Holds, DispatchTypeOK
  <2> QED
    BY <2>2, <2>3 DEF HoldInv
<1>10. ASSUME NEW c \in Commands, GiveBack(c) PROVE HoldInv'
  <2>1. /\ UNCHANGED <<reservation, bound, lapsed, phase, target>>
        /\ call' = [step |-> "free", cmd |-> c] /\ phase[c] \in Waiting /\ target[c] \in Items
        /\ \A j \in Items : slot'[j] = slot[j] \/ slot[j] = c
    BY <1>10 DEF GiveBack, items, commands, history, At, Goto, HoldInv, CallInv, DispatchTypeOK
  <2>2. CallInv' /\ PlaceInv'
    BY <2>1 DEF CallInv, PlaceInv
  <2>3. SlotInv'
    BY <2>1 DEF HoldInv, SlotInv, Waiting
  <2> QED
    BY <2>2, <2>3 DEF HoldInv
<1>11. ASSUME NEW c \in Commands, Free(c) PROVE HoldInv'
  <2>1. /\ UNCHANGED <<slot, lapsed, phase, target>>
        /\ call' = [step |-> "fail", cmd |-> c] /\ phase[c] \in Waiting /\ target[c] \in Items
        /\ \A j \in Items : \/ reservation'[j] = reservation[j] /\ (j \in bound' <=> j \in bound)
                            \/ reservation'[j] = None
    BY <1>11 DEF Free, ledger, history, At, Goto, HoldInv, CallInv, DispatchTypeOK
  <2>2. CallInv' /\ PlaceInv'
    BY <2>1 DEF CallInv, PlaceInv
  <2>3. SlotInv'
    BY <2>1 DEF HoldInv, SlotInv
  <2> QED
    BY <2>2, <2>3 DEF HoldInv
<1>12. ASSUME NEW c \in Commands, Fail(c) PROVE HoldInv'
  BY <1>12, LeavingKeepsHold DEF Fail, ledger, items, history
<1>13. ASSUME NEW c \in Commands, Breaks(c) PROVE HoldInv'
  <2>1. UNCHANGED <<slot, reservation, bound, lapsed, phase, target>> /\ call'.step = "idle"
    BY <1>13 DEF Breaks, ledger, items, commands, history, Leave
  <2> QED
    BY <2>1 DEF HoldInv, CallInv, PlaceInv, SlotInv
<1>14. ASSUME NEW i \in Items, Project(i) PROVE HoldInv'
  <2>1. UNCHANGED <<slot, reservation, target, lapsed, worker, phase>> /\ bound \subseteq bound'
        /\ call.step = "idle"
    BY <1>14 DEF Project, ledger, history, Idle
  <2> QED
    BY <2>1, OthersKeepHold
<1>15. ASSUME NEW i \in Items,
              CreateRun(i) \/ ItemMoves(i) \/ PersonLabels(i) \/ RunEnds(i) \/ RunWakes(i) \/ DeleteRun(i)
       PROVE  HoldInv'
  <2>1. UNCHANGED <<slot, reservation, bound, target, lapsed, worker, phase>>
    BY <1>15 DEF CreateRun, ItemMoves, PersonLabels, RunEnds, RunWakes, DeleteRun, ledger, items,
                 commands, history
  <2> QED
    BY <2>1, OthersKeepHold
<1>16. ASSUME NEW c \in Commands, IssueCommand(c) PROVE HoldInv'
  <2>1. /\ UNCHANGED <<slot, reservation, bound, target, lapsed, worker>>
        /\ \A d \in Commands : phase'[d] = phase[d] \/ (phase[d] = "unissued" /\ phase'[d] = "pending")
    BY <1>16 DEF IssueCommand, ledger, items, history, DispatchTypeOK
  <2> QED
    BY <2>1, OthersKeepHold
<1>17. CASE DayPasses \/ UNCHANGED dispatchVars
  <2>1. UNCHANGED <<slot, reservation, bound, target, lapsed, worker, phase>>
    BY <1>17 DEF DayPasses, dispatchVars, ledger, items, commands, history
  <2> QED
    BY <2>1, OthersKeepHold
<1> QED
  BY <1>1, <1>2, <1>3, <1>4, <1>5, <1>6, <1>7, <1>8, <1>9, <1>10, <1>11, <1>12, <1>13, <1>14,
     <1>15, <1>16, <1>17, ReserveKeepsHold DEF DispatchNext, Process

LEMMA HoldInit == DispatchInit => HoldInv
BY DEF DispatchInit, HoldInv, CallInv, PlaceInv, SlotInv, Before, After

(* A completed dispatch whose run has not been seen holds its slot until   *)
(* the slot is pruned for its age: retries of older commands, dispatches   *)
(* of other items and recoveries leave it alone.                           *)
THEOREM SlotsAreKept == DispatchSpec => []DispatchKeepsItsSlot
<1>1. DispatchTypeOK /\ HoldInv => DispatchKeepsItsSlot
  BY DEF HoldInv, SlotInv, DispatchKeepsItsSlot, DispatchTypeOK, Commands, None
<1> QED
  BY <1>1, HoldInit, HoldStep, TypeInit, TypeStep, PTL DEF DispatchSpec

-----------------------------------------------------------------------------
(* The retries.  A command that has not failed has counted a failure only  *)
(* where the worker broke off; one that has failed counts another only     *)
(* while its budget is not used up.                                        *)
RetryInv == \A c \in Commands :
  /\ phase[c] \in {"unissued", "pending", "accepted"}
       => fails[c] <= breaks + (IF At(c, "fail") THEN 1 ELSE 0)
  /\ phase[c] \in {"failed"} \cup Terminal => fails[c] <= FailureBudget + breaks
  /\ phase[c] = "failed" /\ call.cmd = c
     /\ call.step \in {"check", "label", "recreate", "complete", "giveBack", "free"}
       => fails[c] < FailureBudget

(* A step that counts nothing and ends no command keeps the counts. *)
LEMMA OthersKeepRetries ==
  ASSUME DispatchTypeOK, RetryInv, UNCHANGED <<fails, call>>, breaks' = breaks,
         \A c \in Commands : phase'[c] = phase[c] \/ (phase[c] = "unissued" /\ phase'[c] = "pending")
  PROVE  RetryInv'
BY DEF RetryInv, At, Terminal

(* Ending a command keeps them too. *)
LEMMA ConcludeKeepsRetries ==
  ASSUME DispatchTypeOK, RetryInv, NEW c \in Commands, NEW p \in {"succeeded", "rejected", "failed"},
         Conclude(c, p), breaks' = breaks, call.step = "idle" \/ call.cmd = c
  PROVE  RetryInv'
<1>1. /\ UNCHANGED fails /\ call' = [step |-> "idle", cmd |-> None]
      /\ phase' = [phase EXCEPT ![c] = p]
  BY DEF Conclude, Leave
<1>2. \A d \in Commands : fails[d] \in Nat /\ breaks \in Nat /\ FailureBudget \in Nat \ {0}
  BY DispatchAssumption DEF DispatchTypeOK
<1>3. fails[c] <= FailureBudget + breaks
  <2>1. phase[c] \in {"unissued", "pending", "accepted", "failed"} \cup Terminal
    BY DEF DispatchTypeOK, Waiting, Terminal
  <2>2. CASE phase[c] \in {"failed"} \cup Terminal
    BY <2>2 DEF RetryInv
  <2>3. CASE phase[c] \in {"unissued", "pending", "accepted"}
    BY <1>2, <2>3 DEF RetryInv
  <2> QED
    BY <2>1, <2>2, <2>3
<1> SUFFICES ASSUME NEW d \in Commands PROVE RetryInv!(d)'
  BY DEF RetryInv
<1>4. CASE d = c
  BY <1>1, <1>3, <1>4 DEF Terminal, DispatchTypeOK
<1>5. CASE d # c
  <2>1. ~At(d, "fail") /\ ~At(d, "fail")' /\ phase'[d] = phase[d] /\ call'.cmd # d
    BY <1>1, <1>5 DEF At, DispatchTypeOK, Commands, None
  <2> QED
    BY <1>1, <1>2, <2>1 DEF RetryInv
<1> QED
  BY <1>4, <1>5

(* The worker moves from step to step without counting. *)
LEMMA MovingOnKeepsRetries ==
  ASSUME DispatchTypeOK, CallInv, RetryInv, NEW c \in Commands,
         UNCHANGED <<fails, phase, breaks>>,
         (~Idle /\ call.cmd = c /\ call.step # "fail") \/ (Idle /\ ~Exhausted(c)),
         call'.cmd = c, call'.step # "fail",
         Idle \/ call.step \in After \/ call'.step \in Before
  PROVE  RetryInv'
<1> SUFFICES ASSUME NEW d \in Commands PROVE RetryInv!(d)'
  BY DEF RetryInv
<1>1. ~At(d, "fail") /\ ~At(d, "fail")' /\ fails[d] \in Nat /\ breaks \in Nat
  BY DEF At, Idle, DispatchTypeOK
<1>2. phase[d] \in {"unissued", "pending", "accepted"} => fails[d] <= breaks
  BY <1>1 DEF RetryInv
<1>3. ASSUME phase[d] = "failed", call'.cmd = d,
             call'.step \in {"check", "label", "recreate", "complete", "giveBack", "free"}
      PROVE  fails[d] < FailureBudget
  <2>1. d = c /\ call'.step \notin Before /\ FailureBudget \in Nat
    BY <1>3, DispatchAssumption DEF Before
  <2>2. CASE Idle /\ ~Exhausted(c)
    BY <1>1, <1>3, <2>1, <2>2 DEF Exhausted
  <2>3. CASE ~Idle /\ call.cmd = c /\ call.step # "fail"
    <3>1. call.step \in {"check", "label", "recreate", "complete", "giveBack", "free"}
      BY <2>1, <2>3 DEF After
    <3> QED
      BY <1>3, <2>1, <2>3, <3>1 DEF RetryInv
  <2> QED
    BY <2>2, <2>3
<1> QED
  BY <1>1, <1>2, <1>3 DEF RetryInv

LEMMA RetryStep == DispatchTypeOK /\ HoldInv /\ RetryInv /\ [DispatchNext]_dispatchVars => RetryInv'
<1> SUFFICES ASSUME DispatchTypeOK, CallInv, RetryInv, [DispatchNext]_dispatchVars PROVE RetryInv'
  BY DEF HoldInv
<1>1. ASSUME NEW c \in Commands, Begin(c) PROVE RetryInv'
  <2>1. breaks' = breaks /\ Idle
    BY <1>1 DEF Begin, bounds
  <2>2. CASE Reject(c)
    BY <2>1, <2>2, ConcludeKeepsRetries DEF Reject, Idle
  <2>3. CASE ~Exhausted(c) /\ Goto(c, IF phase[c] = "pending" THEN "apply" ELSE "check")
             /\ UNCHANGED commands
    <3>1. UNCHANGED <<fails, phase, breaks>> /\ call'.cmd = c /\ call'.step # "fail"
      BY <2>1, <2>3 DEF Goto, commands
    <3> QED
      BY <2>1, <2>3, <3>1, MovingOnKeepsRetries
  <2> QED
    BY <1>1, <2>2, <2>3 DEF Begin
<1>2. ASSUME NEW c \in Commands, Apply(c) \/ RecoverSlot(c) \/ Reserve(c) PROVE RetryInv'
  <2>1. breaks' = breaks /\ call.cmd = c /\ call.step \in Before
    BY <1>2 DEF Apply, RecoverSlot, Reserve, bounds, At, Before
  <2>2. CASE Reject(c)
    BY <2>1, <2>2, ConcludeKeepsRetries DEF Reject
  <2>3. CASE ~Reject(c)
    <3>1. UNCHANGED <<fails, phase>> /\ call'.cmd = c /\ call'.step \in Before
      BY <1>2, <2>3 DEF Apply, RecoverSlot, Reserve, Ledgers, Goto, commands, Before
    <3>2. ~Idle /\ call.step # "fail" /\ call'.step # "fail"
      BY <2>1, <3>1 DEF Before, Idle
    <3> QED
      BY <2>1, <3>1, <3>2, MovingOnKeepsRetries
  <2> QED
    BY <2>2, <2>3
<1>3. ASSUME NEW c \in Commands,
             ListRuns(c) \/ Hold(c) \/ Transfer(c) \/ Check(c) \/ Label(c) \/ Recreate(c) \/ GiveBack(c)
      PROVE  RetryInv'
  <2>1. /\ UNCHANGED <<fails, phase, breaks>>
        /\ ~Idle /\ call.cmd = c /\ call.step # "fail" /\ call'.cmd = c /\ call'.step # "fail"
        /\ call.step \in After \/ call'.step \in Before
    BY <1>3 DEF ListRuns, Hold, Transfer, Check, Label, Recreate, GiveBack, At, Idle, Goto, commands, bounds,
                Before, After
  <2> QED
    BY <2>1, MovingOnKeepsRetries
<1>4. ASSUME NEW c \in Commands, Accept(c) PROVE RetryInv'
  <2>1. /\ UNCHANGED <<fails, breaks>> /\ phase' = [phase EXCEPT ![c] = "accepted"]
        /\ phase[c] = "pending" /\ call = [step |-> "accept", cmd |-> c]
        /\ call' = [step |-> "check", cmd |-> c]
    BY <1>4 DEF Accept, At, Goto, bounds, CallInv, Before
  <2> QED
    BY <2>1 DEF RetryInv, At, DispatchTypeOK, Terminal
<1>5. ASSUME NEW c \in Commands, Complete(c) \/ Fail(c) PROVE RetryInv'
  <2>1. breaks' = breaks /\ call.cmd = c /\ (Conclude(c, "succeeded") \/ Conclude(c, "failed"))
    BY <1>5 DEF Complete, Fail, bounds, At
  <2> QED
    BY <2>1, ConcludeKeepsRetries
<1>6. ASSUME NEW c \in Commands, Free(c) PROVE RetryInv'
  <2>1. /\ fails' = [fails EXCEPT ![c] = @ + 1] /\ UNCHANGED <<phase, breaks>>
        /\ call = [step |-> "free", cmd |-> c] /\ call' = [step |-> "fail", cmd |-> c]
        /\ phase[c] \in Waiting
    BY <1>6 DEF Free, At, Goto, bounds, CallInv, Before, After
  <2>2. \A d \in Commands : fails[d] \in Nat /\ breaks \in Nat /\ FailureBudget \in Nat
    BY DispatchAssumption DEF DispatchTypeOK
  <2> SUFFICES ASSUME NEW d \in Commands PROVE RetryInv!(d)'
    BY DEF RetryInv
  <2>3. CASE d = c
    <3>1. fails'[c] = fails[c] + 1 /\ At(c, "fail")' /\ ~At(c, "fail")
      BY <2>1 DEF At, DispatchTypeOK
    <3>2. CASE phase[c] = "failed"
      BY <2>1, <2>2, <2>3, <3>1, <3>2 DEF RetryInv, Terminal
    <3>3. CASE phase[c] \in {"pending", "accepted"}
      BY <2>1, <2>2, <2>3, <3>1, <3>3 DEF RetryInv, Terminal
    <3> QED
      BY <2>1, <3>2, <3>3 DEF Waiting
  <2>4. CASE d # c
    BY <2>1, <2>4 DEF RetryInv, At, DispatchTypeOK
  <2> QED
    BY <2>3, <2>4
<1>7. ASSUME NEW c \in Commands, Breaks(c) PROVE RetryInv'
  <2>1. breaks' = breaks + 1 /\ UNCHANGED <<fails, phase>> /\ call' = [step |-> "idle", cmd |-> None]
    BY <1>7 DEF Breaks, commands, Leave
  <2>2. \A d \in Commands : fails[d] \in Nat /\ breaks \in Nat /\ FailureBudget \in Nat
    BY DispatchAssumption DEF DispatchTypeOK
  <2> QED
    BY <2>1, <2>2 DEF RetryInv, At
<1>8. ASSUME NEW i \in Items,
             Project(i) \/ CreateRun(i) \/ ItemMoves(i) \/ PersonLabels(i) \/ RunEnds(i) \/ RunWakes(i)
             \/ DeleteRun(i)
      PROVE  RetryInv'
  <2>1. UNCHANGED <<fails, call, breaks, phase>>
    BY <1>8 DEF Project, CreateRun, ItemMoves, PersonLabels, RunEnds, RunWakes, DeleteRun, commands,
                worker, bounds
  <2> QED
    BY <2>1, OthersKeepRetries
<1>9. ASSUME NEW c \in Commands, IssueCommand(c) PROVE RetryInv'
  <2>1. /\ UNCHANGED <<fails, call, breaks>>
        /\ \A d \in Commands : phase'[d] = phase[d] \/ (phase[d] = "unissued" /\ phase'[d] = "pending")
    BY <1>9 DEF IssueCommand, worker, bounds, DispatchTypeOK
  <2> QED
    BY <2>1, OthersKeepRetries
<1>10. CASE DayPasses \/ UNCHANGED dispatchVars
  <2>1. UNCHANGED <<fails, call, breaks, phase>>
    BY <1>10 DEF DayPasses, dispatchVars, commands, worker, bounds
  <2> QED
    BY <2>1, OthersKeepRetries
<1> QED
  BY <1>1, <1>2, <1>3, <1>4, <1>5, <1>6, <1>7, <1>8, <1>9, <1>10 DEF DispatchNext, Process

LEMMA RetryInit == DispatchInit => RetryInv
BY DispatchAssumption DEF DispatchInit, RetryInv, Terminal, At

(* No command fails more often than its budget and the worker's breaks     *)
(* allow.                                                                  *)
THEOREM RetriesAreBounded == DispatchSpec => []RetriesWithinBudget
<1>1. DispatchTypeOK /\ CallInv /\ RetryInv => RetriesWithinBudget
  <2> SUFFICES ASSUME DispatchTypeOK, CallInv, RetryInv, NEW c \in Commands
               PROVE  fails[c] <= FailureBudget + breaks
    BY DEF RetriesWithinBudget
  <2>1. fails[c] \in Nat /\ breaks \in Nat /\ FailureBudget \in Nat /\ FailureBudget >= 1
    BY DispatchAssumption DEF DispatchTypeOK
  <2>2. CASE phase[c] \in {"unissued", "pending", "accepted"}
    BY <2>1, <2>2 DEF RetryInv
  <2>3. CASE phase[c] \in {"failed"} \cup Terminal
    BY <2>3 DEF RetryInv
  <2> QED
    BY <2>2, <2>3 DEF DispatchTypeOK, Waiting, Terminal
<1>2. HoldInv => CallInv
  BY DEF HoldInv
<1> QED
  BY <1>1, <1>2, HoldInit, HoldStep, RetryInit, RetryStep, TypeInit, TypeStep, PTL DEF DispatchSpec

-----------------------------------------------------------------------------
(* The day's count.  Slots are dated by the ledger's day, which follows the *)
(* calendar, so that a new day finds no slot of its own to count.           *)
DaySlots == {i \in Slots : slotDay[i] = ledgerDay}

CountInv ==
  /\ CountCoversSlots
  /\ ledgerDay <= today
  /\ \A i \in Slots : slotDay[i] <= ledgerDay

LEMMA DaySlotsShrink ==
  ASSUME DispatchTypeOK, CountInv, DaySlots' \subseteq DaySlots, count' = count,
         UNCHANGED ledgerDay, ledgerDay <= today', Slots' \subseteq Slots, UNCHANGED slotDay
  PROVE  CountInv'
<1>1. IsFiniteSet(DaySlots)
  BY FS_Subset, DispatchAssumption DEF DaySlots, Slots
<1>2. Cardinality(DaySlots') <= Cardinality(DaySlots) /\ Cardinality(DaySlots) \in Nat
      /\ Cardinality(DaySlots') \in Nat
  BY <1>1, FS_Subset, FS_CardinalityType
<1> QED
  BY <1>2 DEF CountInv, CountCoversSlots, DaySlots, DispatchTypeOK

(* Rolling the day over, before a slot may be added. *)
LEMMA ReserveKeepsCount ==
  ASSUME DispatchTypeOK, CountInv, NEW c \in Commands, Reserve(c)
  PROVE  CountInv'
<1> DEFINE i == target[c]
<1>1. PICK old \in SUBSET MayBeOld : Ledgers(c, i, Pruned(i, old))
  BY DEF Reserve
<1> DEFINE gone == Pruned(i, old)
           kept == {j \in Slots \ gone : slotDay[j] = today}
<1>2. /\ i \in Items /\ today' = today /\ today \in Nat /\ ledgerDay \in Nat
      /\ count \in Nat /\ CountToday \in Nat /\ \A j \in Items : slotDay[j] \in Nat
  BY DispatchAssumption DEF DispatchTypeOK, Reserve, bounds, Days, CountToday
<1>3. IsFiniteSet(kept) /\ Cardinality(kept) \in Nat
  BY FS_Subset, FS_CardinalityType, DispatchAssumption DEF Slots
<1>4. Cardinality(kept) <= CountToday
  <2>1. CASE ledgerDay = today
    <3>1. kept \subseteq DaySlots /\ IsFiniteSet(DaySlots)
      BY <2>1, FS_Subset, DispatchAssumption DEF DaySlots, Slots
    <3>2. Cardinality(kept) <= Cardinality(DaySlots) /\ Cardinality(DaySlots) \in Nat
      BY <3>1, FS_Subset, FS_CardinalityType
    <3> QED
      BY <1>2, <1>3, <2>1, <3>2 DEF CountInv, CountCoversSlots, CountToday, DaySlots
  <2>2. CASE ledgerDay # today
    <3>1. kept = {}
      BY <1>2, <2>2 DEF CountInv, Slots
    <3> QED
      BY <1>2, <3>1, FS_EmptySet
  <2> QED
    BY <2>1, <2>2
<1>5. CASE UNCHANGED ledger
  BY <1>2, <1>5, DaySlotsShrink DEF ledger, DaySlots, Slots, CountInv
<1>6. CASE Persist(gone)
  <2>1. Slots' \subseteq Slots /\ slotDay' = slotDay /\ ledgerDay' = today /\ count' = CountToday
    BY <1>6 DEF Persist, Slots
  <2>2. DaySlots' = kept
    BY <1>2, <1>6 DEF Persist, DaySlots, Slots, DispatchTypeOK
  <2> QED
    BY <1>2, <1>4, <2>1, <2>2 DEF CountInv, CountCoversSlots, DaySlots, Slots
<1>7. CASE slot[i] = None /\ AddSlot(i, c, gone)
  <2>1. DaySlots' \subseteq kept \cup {i} /\ ledgerDay' = today /\ count' = CountToday + 1
    BY <1>2, <1>7 DEF AddSlot, DaySlots, Slots, DispatchTypeOK
  <2>2. IsFiniteSet(kept \cup {i}) /\ Cardinality(kept \cup {i}) <= Cardinality(kept) + 1
    <3> HIDE DEF kept
    <3> QED
      BY <1>3, FS_AddElement
  <2>3. Cardinality(DaySlots') <= Cardinality(kept \cup {i}) /\ IsFiniteSet(DaySlots')
    BY <2>1, <2>2, FS_Subset
  <2>4. Cardinality(DaySlots') \in Nat /\ Cardinality(kept \cup {i}) \in Nat
    BY <2>2, <2>3, FS_CardinalityType
  <2>5. Cardinality(DaySlots') <= count'
    BY <1>2, <1>3, <1>4, <2>1, <2>2, <2>3, <2>4
  <2>6. \A j \in Slots' : slotDay'[j] <= today
    BY <1>2, <1>7 DEF AddSlot, Slots, DispatchTypeOK, CountInv
  <2> QED
    BY <1>2, <2>1, <2>5, <2>6 DEF CountInv, CountCoversSlots, DaySlots
<1> QED
  BY <1>1, <1>5, <1>6, <1>7 DEF Ledgers

(* The day's budget is given back for a slot of the day alone. *)
LEMMA GiveBackKeepsCount ==
  ASSUME DispatchTypeOK, CountInv, NEW c \in Commands, GiveBack(c)
  PROVE  CountInv'
<1> DEFINE i == target[c]
<1>1. /\ i \in Items /\ UNCHANGED <<ledgerDay, slotDay, today>> /\ count \in Nat
      /\ Slots' \subseteq Slots /\ ledgerDay <= today'
  BY DEF GiveBack, bounds, DispatchTypeOK, Slots, CountInv
<1>2. CASE slot[i] = c /\ count > 0 /\ slotDay[i] = ledgerDay
  <2>1. i \in DaySlots /\ DaySlots' = DaySlots \ {i} /\ count' = count - 1
    BY <1>1, <1>2 DEF GiveBack, DaySlots, Slots, DispatchTypeOK, Commands, None
  <2>2. IsFiniteSet(DaySlots) /\ Cardinality(DaySlots) \in Nat
    BY FS_Subset, FS_CardinalityType, DispatchAssumption DEF DaySlots, Slots
  <2>3. Cardinality(DaySlots') = Cardinality(DaySlots) - 1
    BY <2>1, <2>2, FS_RemoveElement
  <2> QED
    BY <1>1, <2>1, <2>2, <2>3 DEF CountInv, CountCoversSlots, DaySlots
<1>3. CASE ~(slot[i] = c /\ count > 0 /\ slotDay[i] = ledgerDay)
  <2>1. count' = count
    BY <1>3 DEF GiveBack
  <2>2. DaySlots' \subseteq DaySlots
    BY <1>1 DEF DaySlots
  <2> QED
    BY <1>1, <2>1, <2>2, DaySlotsShrink
<1> QED
  BY <1>2, <1>3

LEMMA CountStep == DispatchTypeOK /\ CountInv /\ [DispatchNext]_dispatchVars => CountInv'
<1> SUFFICES ASSUME DispatchTypeOK, CountInv, [DispatchNext]_dispatchVars PROVE CountInv'
  OBVIOUS
<1>1. ASSUME UNCHANGED <<ledgerDay, count, slotDay, today>>, Slots' \subseteq Slots PROVE CountInv'
  BY <1>1, DaySlotsShrink DEF DaySlots, CountInv
<1>2. ASSUME NEW c \in Commands,
             Begin(c) \/ Apply(c) \/ ListRuns(c) \/ Hold(c) \/ Transfer(c) \/ Accept(c) \/ Check(c)
             \/ Label(c) \/ Recreate(c) \/ Complete(c) \/ Free(c) \/ Fail(c) \/ Breaks(c) \/ IssueCommand(c)
      PROVE  CountInv'
  BY <1>1, <1>2 DEF Begin, Apply, ListRuns, Hold, Transfer, Accept, Check, Label, Recreate, Complete, Free,
                    Fail, Breaks, IssueCommand, ledger, bounds, Slots
<1>3. ASSUME NEW c \in Commands, RecoverSlot(c) PROVE CountInv'
  <2>1. Slots' \subseteq Slots
    BY <1>3 DEF RecoverSlot, Slots, DispatchTypeOK, Commands, None
  <2> QED
    BY <1>1, <1>3, <2>1 DEF RecoverSlot, bounds
<1>4. ASSUME NEW i \in Items,
             Project(i) \/ CreateRun(i) \/ ItemMoves(i) \/ PersonLabels(i) \/ RunEnds(i) \/ RunWakes(i)
             \/ DeleteRun(i)
      PROVE  CountInv'
  BY <1>1, <1>4 DEF Project, CreateRun, ItemMoves, PersonLabels, RunEnds, RunWakes, DeleteRun, ledger,
                    bounds, Slots
<1>5. CASE DayPasses
  <2>1. ledgerDay <= today' /\ Slots' = Slots /\ UNCHANGED <<ledgerDay, count, slotDay>>
    BY <1>5, DispatchAssumption DEF DayPasses, ledger, CountInv, DispatchTypeOK, Days, Slots
  <2> QED
    BY <2>1, DaySlotsShrink DEF DaySlots
<1>6. CASE UNCHANGED dispatchVars
  BY <1>1, <1>6 DEF dispatchVars, ledger, bounds, Slots
<1> QED
  BY <1>2, <1>3, <1>4, <1>5, <1>6, ReserveKeepsCount, GiveBackKeepsCount DEF DispatchNext, Process

(* The day's count always covers the slots made that day: a slot given     *)
(* back after midnight, or pruned, never buys a further dispatch.          *)
THEOREM CountCovers == DispatchSpec => []CountCoversSlots
<1>1. DispatchInit => CountInv
  <2> SUFFICES ASSUME DispatchInit PROVE CountInv
    OBVIOUS
  <2>1. Slots = {} /\ DaySlots = {}
    BY DEF DispatchInit, Slots, DaySlots
  <2> QED
    BY <2>1, FS_EmptySet DEF DispatchInit, CountInv, CountCoversSlots, DaySlots
<1>2. CountInv => CountCoversSlots
  BY DEF CountInv
<1> QED
  BY <1>1, <1>2, CountStep, TypeInit, TypeStep, PTL DEF DispatchSpec
=============================================================================
