----------------------- MODULE PullRequestLoopProofs -----------------------
(***************************************************************************)
(* Proofs about the review loop for every cap, every amount of feedback    *)
(* and every number of broken-off handlers and overlapping deliveries.     *)
(*                                                                         *)
(* The cap itself is not inductive: between the decision to ask for work   *)
(* and the next round lie three handlers' writes.  CapInv carries the room *)
(* for one more round along: a loop that is being resolved has it, because *)
(* either the verdict was below the cap or feedback asked for it in the    *)
(* same write.  How often feedback can ask is not inductive either: a      *)
(* patch may take recorded feedback off the list again.  CreditInv says    *)
(* that what a delivery will leave on record, and the overlaps so far, pay *)
(* for what was asked and for whatever the open deliveries will ask yet.   *)
(***************************************************************************)
EXTENDS ReviewLoopRefinement, FiniteSetTheorems, TLAPS

LoopSteps     == {"accept", "block", "escalate", "rework", "tell", "wake", "mark", "next", "spawn"}
DeliverySteps == {"link", "first", "approve", "resolve", "patch", "open"}
Deliverers    == {"hook", "poll"}

(* Every handler is inside its own function and works on what it read. *)
CallInv ==
  /\ call["loop"].step \in LoopSteps \cup {"idle"}
  /\ call["loop"].step # "idle" => call["loop"].on \in Rounds
  /\ \A a \in Deliverers :
       /\ call[a].step \in DeliverySteps \cup {"idle"}
       /\ call[a].step \in {"approve", "resolve", "patch"} => call[a].on \in Events
       /\ call[a].step = "resolve" => call[a].on \notin approvals
       /\ call[a].step = "approve" => call[a].on \in approvals

(* Nothing happens before the loop is linked, and then it has a round. *)
LinkInv ==
  /\ loopState # "none" => round >= 1
  /\ loopState = "none" => /\ round = 0
                           /\ reviewer = [r \in Rounds |-> "absent"]
                           /\ At("loop", "idle")
                           /\ \A a \in Deliverers :
                                call[a].step \notin {"first", "approve", "resolve", "patch"}

Room == MaxRounds + resumed

CapInv ==
  /\ round <= Room
  /\ loopState = "resolving" \/ At("loop", "rework") => round + 1 <= Room
  /\ At("loop", "next") => call["loop"].on <= Room

(* What a delivery will leave on record of the feedback that asks for work, *)
(* and what it will ask for itself. All that is on record was acted on.     *)
Owed(a)   == (copy[a].ids \cup {call[a].on}) \ approvals
Asking(a) == IF At(a, "patch") /\ call[a].on \notin approvals THEN 1 ELSE 0
Pending   == Asking("hook") + Asking("poll")

CreditInv ==
  /\ seenIds \subseteq acted
  /\ resumed <= Cardinality(Asked) + overlaps
  /\ \A a \in Deliverers : At(a, "patch") =>
       /\ copy[a].ids \subseteq acted
       /\ call[a].on \notin approvals => call[a].on \notin copy[a].ids
       /\ resumed + Pending <= Cardinality(Owed(a)) + overlaps

LoopInv == PRLoopTypeOK /\ CallInv /\ LinkInv /\ CapInv /\ CreditInv

(* A set of events has at most NumEvents elements, and more has more. *)
LEMMA EventCount ==
  ASSUME NEW T \in SUBSET Events, NEW S \in SUBSET T
  PROVE  /\ IsFiniteSet(T)
         /\ Cardinality(S) \in Nat /\ Cardinality(T) \in Nat
         /\ Cardinality(S) <= Cardinality(T) /\ Cardinality(T) <= NumEvents
<1>1. IsFiniteSet(Events) /\ Cardinality(Events) = NumEvents
  BY FS_Interval, LoopAssumption DEF Events
<1>2. IsFiniteSet(T) /\ Cardinality(T) <= NumEvents
  BY <1>1, FS_Subset
<1>3. Cardinality(S) <= Cardinality(T) /\ IsFiniteSet(S)
  BY <1>2, FS_Subset
<1> QED
  BY <1>2, <1>3, FS_CardinalityType

(* The cap lies inside the bounds of the model. *)
LEMMA RoomType ==
  ASSUME PRLoopTypeOK, CreditInv PROVE Room \in Nat /\ 1 <= Room /\ Room <= LastRound
<1>1. Asked \in SUBSET Events
  BY DEF PRLoopTypeOK, MarkersTyped, Asked
<1>2. Cardinality(Asked) \in Nat /\ Cardinality(Asked) <= NumEvents
  BY <1>1, EventCount
<1>3. /\ resumed \in Nat /\ overlaps \in Nat /\ overlaps <= MaxMishaps
      /\ resumed <= Cardinality(Asked) + overlaps
  BY LoopAssumption DEF CreditInv, PRLoopTypeOK, PatchesTyped
<1> QED
  BY <1>2, <1>3, LoopAssumption DEF Room, LastRound

(* Whoever is not at a patch asks for nothing, and nobody for more than one. *)
LEMMA AskingType == \A a \in Deliverers : Asking(a) \in {0, 1}
  BY DEF Asking

(* What is on record of what asks for work, and what a delivery owes, are   *)
(* finite sets.                                                             *)
LEMMA OwedCount ==
  ASSUME PRLoopTypeOK, NEW a \in Deliverers
  PROVE  Cardinality(Asked) \in Nat /\ Cardinality(Owed(a)) \in Nat
<1>1. Asked \in SUBSET Events /\ IsFiniteSet(Asked)
  BY EventCount DEF PRLoopTypeOK, MarkersTyped, Asked
<1>2. IsFiniteSet(Events \cup {call[a].on})
  <2>1. IsFiniteSet(Events)
    BY EventCount
  <2> QED
    BY <2>1, FS_AddElement
<1>3. copy[a].ids \subseteq Events
  BY DEF PRLoopTypeOK, PatchesTyped, Actors, Deliverers
<1>4. IsFiniteSet(Owed(a))
  BY <1>2, <1>3, FS_Subset DEF Owed
<1> QED
  BY <1>1, <1>4, FS_CardinalityType

(* A step that patches nothing and keeps the copies keeps the account. *)
LEMMA CreditSame ==
  ASSUME PRLoopTypeOK, CreditInv, UNCHANGED <<seenIds, approvals, acted, resumed, overlaps>>,
         \A a \in Deliverers :
           At(a, "patch")' => At(a, "patch") /\ call'[a] = call[a] /\ copy'[a].ids = copy[a].ids
  PROVE  CreditInv'
<1>1. seenIds' \subseteq acted' /\ resumed' <= Cardinality(Asked') + overlaps'
  BY DEF CreditInv, Asked
<1>2. ASSUME NEW a \in Deliverers PROVE Asking(a)' <= Asking(a) /\ Asking(a) \in Nat /\ Asking(a)' \in Nat
  BY <1>2 DEF Asking, At
<1>3. Pending' <= Pending /\ Pending \in Nat /\ Pending' \in Nat
  BY <1>2 DEF Pending, Deliverers
<1>4. ASSUME NEW a \in Deliverers, At(a, "patch")'
      PROVE  /\ copy'[a].ids \subseteq acted'
             /\ call'[a].on \notin approvals' => call'[a].on \notin copy'[a].ids
             /\ resumed' + Pending' <= Cardinality(Owed(a)') + overlaps'
  <2>1. At(a, "patch") /\ call'[a] = call[a] /\ copy'[a].ids = copy[a].ids
    BY <1>4
  <2>2. Owed(a)' = Owed(a)
    BY <2>1 DEF Owed
  <2>4. Cardinality(Owed(a)) \in Nat
    BY OwedCount
  <2>5. resumed + Pending <= Cardinality(Owed(a)) + overlaps /\ resumed \in Nat /\ overlaps \in Nat
    BY <2>1 DEF CreditInv, PRLoopTypeOK, PatchesTyped
  <2> QED
    BY <1>3, <2>1, <2>2, <2>4, <2>5 DEF CreditInv
<1> QED
  BY <1>1, <1>4 DEF CreditInv

-----------------------------------------------------------------------------
(* The handlers: what a step leaves to show once its actor has moved.           *)

(* What the bounds of the model contain. *)
LEMMA Bounds ==
  /\ LastRound \in Nat /\ MaxRounds <= LastRound
  /\ 0 \in 0..LastRound /\ 1 \in 0..LastRound /\ 1 \in Rounds /\ 0 \in 0..NumEvents
  /\ Rounds \subseteq 0..LastRound /\ Events \subseteq 0..LastRound /\ Events \subseteq 0..NumEvents
  BY LoopAssumption DEF LastRound, Rounds, Events

(* A delivery that moves on stays inside the delivery handlers. *)
LEMMA DeliveryMoves ==
  ASSUME CallTyped, CallInv, NEW a \in Deliverers,
         NEW step \in {"idle", "link", "first", "open"},
         Goto(a, step, 0), UNCHANGED approvals
  PROVE  /\ CallTyped' /\ CallInv' /\ call'[a].step = step
         /\ \A b \in Actors \ {a} : call'[b] = call[b]
<1>1. /\ call' \in [Actors -> [step : HandlerSteps, on : 0..LastRound]]
      /\ call'[a] = [step |-> step, on |-> 0]
      /\ \A b \in Actors \ {a} : call'[b] = call[b]
  BY Bounds DEF CallTyped, Goto, Actors, Deliverers, HandlerSteps
<1>2. CallInv'
  BY <1>1 DEF CallInv, CallTyped, Actors, Deliverers, DeliverySteps
<1> QED
  BY <1>1, <1>2 DEF CallTyped

(* So does one that is about to write an event. *)
LEMMA DeliveryDecides ==
  ASSUME CallTyped, CallInv, NEW a \in Deliverers, NEW e \in Events,
         NEW step \in {"approve", "resolve", "patch"}, step = "resolve" => e \notin approvals,
         step = "approve" => e \in approvals,
         Goto(a, step, e), UNCHANGED approvals
  PROVE  /\ CallTyped' /\ CallInv' /\ call'[a].step = step
         /\ \A b \in Actors \ {a} : call'[b] = call[b]
<1>1. /\ call' \in [Actors -> [step : HandlerSteps, on : 0..LastRound]]
      /\ call'[a] = [step |-> step, on |-> e]
      /\ \A b \in Actors \ {a} : call'[b] = call[b]
  BY Bounds DEF CallTyped, Goto, Actors, Deliverers, HandlerSteps
<1>2. CallInv'
  BY <1>1 DEF CallInv, CallTyped, Actors, Deliverers, DeliverySteps
<1> QED
  BY <1>1, <1>2 DEF CallTyped

(* So does the reconciler of completed runs. *)
LEMMA LoopMoves ==
  ASSUME CallTyped, CallInv, NEW step \in LoopSteps \cup {"idle"}, NEW n \in 0..LastRound,
         step # "idle" => n \in Rounds,
         Goto("loop", step, n), UNCHANGED approvals
  PROVE  /\ CallTyped' /\ CallInv'
         /\ call'["loop"] = [step |-> step, on |-> n]
         /\ \A b \in Deliverers : call'[b] = call[b]
<1> USE DEF CallTyped, Goto, Actors, Deliverers
<1>1. /\ call' \in [Actors -> [step : HandlerSteps, on : 0..LastRound]]
      /\ call'["loop"] = [step |-> step, on |-> n]
      /\ \A b \in Deliverers : call'[b] = call[b]
  BY DEF HandlerSteps, LoopSteps
<1> HIDE DEF Goto
<1>2. CallInv'
  BY <1>1 DEF CallInv
<1> QED
  BY <1>1, <1>2

(* A delivery that returns leaves the monitor's record well typed. *)
LEMMA ReturnTyped ==
  ASSUME MonitorTyped, NEW a, NEW handled \in BOOLEAN, NEW n \in 0..NumEvents,
         Return(a, handled, n)
  PROVE  MonitorTyped'
<1>1. CASE a = "hook"
  BY <1>1 DEF Return, monitor, MonitorTyped
<1>2. CASE a # "hook" /\ n = Opened
  <2>1. opened' = handled /\ cursor' = cursor /\ active' = (active /\ handled)
    BY <1>2, Zenon DEF Return
  <2>2. active' \in BOOLEAN
    BY <2>1, Zenon
  <2> QED
    BY <2>1, <2>2 DEF MonitorTyped
<1>3. CASE a # "hook" /\ n # Opened
  BY <1>3 DEF Return, MonitorTyped
<1> QED
  BY <1>1, <1>2, <1>3

(* The cap is below the room. *)
LEMMA RoomAboveCap == ASSUME PRLoopTypeOK PROVE MaxRounds <= Room /\ Room \in Nat
  BY LoopAssumption DEF Room, PRLoopTypeOK, PatchesTyped

(* What is left of a step: its markers keep the room it needs. *)
LEMMA Chain ==
  ASSUME NEW i \in Nat, NEW j \in Nat, NEW m \in Nat, NEW n \in Nat,
         i <= j, j + 1 <= m, m <= n
  PROVE  i + 1 <= n
  OBVIOUS

(* A step that moves no round up, and resolves nothing new, keeps its room. *)
LEMMA RoomKept ==
  ASSUME PRLoopTypeOK, CapInv, UNCHANGED resumed,
         round' \in Nat, round' <= Room,
         loopState' = "resolving" => loopState = "resolving" /\ round' <= round,
         At("loop", "rework")' => At("loop", "rework") /\ round' <= round,
         At("loop", "next")' => call'["loop"] = call["loop"]
  PROVE  CapInv'
<1>1. /\ Room \in Nat /\ round \in Nat /\ call["loop"].on \in Nat
      /\ Room' \in Nat /\ Room <= Room'
  BY RoomAboveCap DEF Room, PRLoopTypeOK, MarkersTyped, CallTyped, Actors
<1>2. round' <= Room'
  BY <1>1
<1>3. loopState' = "resolving" \/ At("loop", "rework")' => round' + 1 <= Room'
  <2>1. SUFFICES ASSUME loopState' = "resolving" \/ At("loop", "rework")' PROVE round' + 1 <= Room'
    OBVIOUS
  <2>2. round + 1 <= Room /\ round' <= round
    BY <2>1 DEF CapInv
  <2> QED
    BY <1>1, <2>2, Chain
<1>4. At("loop", "next")' => call'["loop"].on <= Room'
  BY <1>1 DEF CapInv, At
<1> QED
  BY <1>2, <1>3, <1>4 DEF CapInv

(* A step that patches nothing leaves the room alone. *)
LEMMA RoomSame ==
  ASSUME PRLoopTypeOK, UNCHANGED resumed
  PROVE  Room' = Room /\ Room \in Nat /\ Room' \in Nat
  BY RoomAboveCap DEF Room

(* The opening only moves its delivery. *)
LEMMA HandlePROpenedStep ==
  ASSUME LoopInv, NEW a \in Deliverers, At(a, "idle") \/ At(a, "open"), HandlePROpened(a)
  PROVE  LoopInv'
<1>0. PRLoopTypeOK /\ CallInv /\ LinkInv /\ CapInv /\ CreditInv
  BY DEF LoopInv
<1>1. MarkersTyped'
  BY <1>0, Bounds DEF PRLoopTypeOK, MarkersTyped, markers, HandlePROpened, Return, Continue,
                      Opened
<1>2. RunsTyped'
  BY <1>0, Bounds DEF PRLoopTypeOK, RunsTyped, runs, HandlePROpened, Return, Continue, Opened
<1>3. MonitorTyped'
  <2>1. CASE enabled /\ loopState = "none"
    BY <1>0, <2>1 DEF HandlePROpened, Continue, monitor, MonitorTyped, PRLoopTypeOK
  <2>2. CASE ~(enabled /\ loopState = "none")
    BY <1>0, <2>2, ReturnTyped, Bounds DEF HandlePROpened, PRLoopTypeOK, RunsTyped, Opened
  <2> QED
    BY <2>1, <2>2
<1>4. PatchesTyped' /\ orphaned' \subseteq Rounds /\ settled' \subseteq Requests
  BY <1>0 DEF PatchesTyped, patches, PRLoopTypeOK, prHist, HandlePROpened, Return, Continue, Opened
<1>5. PICK step \in {"idle", "link"} : Goto(a, step, 0) /\ UNCHANGED approvals
  BY <1>0 DEF markers, HandlePROpened, Return, Continue, Opened
<1>6. /\ CallTyped' /\ CallInv' /\ call'[a].step = step
      /\ \A b \in Actors \ {a} : call'[b] = call[b]
  BY <1>0, <1>5, DeliveryMoves DEF PRLoopTypeOK
<1>7. LinkInv'
  BY <1>0, <1>6 DEF LinkInv, At, Actors, Deliverers, markers, runs, HandlePROpened, Return,
                    Continue, Opened
<1>8. CapInv'
  <2>1. Room' = Room /\ Room' \in Nat
    BY <1>0, RoomSame DEF patches, markers, HandlePROpened, Return, Continue, Opened
  <2> QED
    BY <1>0, <1>1, <1>6, <2>1, RoomKept DEF patches, MarkersTyped, CapInv, PRLoopTypeOK, At, Actors,
                                            Deliverers, markers, HandlePROpened, Return,
                                            Continue, Opened
<1>9. CreditInv'
  <2>1. UNCHANGED <<seenIds, approvals, patches>>
    BY DEF markers, HandlePROpened, Return, Continue
  <2> QED
    BY <1>0, <1>5, <1>6, <2>1, CreditSame DEF patches, At, Actors, Deliverers
<1> QED
  BY <1>1, <1>2, <1>3, <1>4, <1>6, <1>7, <1>8, <1>9 DEF LoopInv, PRLoopTypeOK

(* The markers of round 1 find room for it. *)
LEMMA LinkStep ==
  ASSUME LoopInv, NEW a \in Deliverers, Link(a)
  PROVE  LoopInv'
<1>0. PRLoopTypeOK /\ CallInv /\ LinkInv /\ CapInv /\ CreditInv
  BY DEF LoopInv
<1>1. MarkersTyped'
  BY <1>0, Bounds DEF PRLoopTypeOK, MarkersTyped, markers, Link, Continue, Opened, SetLoop
<1>2. RunsTyped'
  BY <1>0, Bounds DEF PRLoopTypeOK, RunsTyped, runs, Link, Continue, Opened, SetLoop
<1>3. MonitorTyped'
  BY <1>0 DEF PRLoopTypeOK, MonitorTyped, monitor, Link, Continue, Opened, SetLoop
<1>4. PatchesTyped' /\ orphaned' \subseteq Rounds /\ settled' \subseteq Requests
  BY <1>0 DEF PatchesTyped, patches, PRLoopTypeOK, prHist, Link, Continue, Opened, SetLoop
<1>5. Goto(a, "first", 0) /\ UNCHANGED approvals
  BY <1>0 DEF markers, Link, Continue, Opened, SetLoop
<1>6. /\ CallTyped' /\ CallInv' /\ call'[a].step = "first"
      /\ \A b \in Actors \ {a} : call'[b] = call[b]
  BY <1>0, <1>5, DeliveryMoves DEF PRLoopTypeOK
<1>7. LinkInv'
  BY <1>0, <1>6 DEF LinkInv, At, Actors, Deliverers, markers, runs, Link, Continue, Opened,
                    SetLoop
<1>8. CapInv'
  <2>1. Room' = Room /\ Room' \in Nat /\ 1 <= Room
    BY <1>0, RoomSame, RoomType DEF patches, Link
  <2>4. UNCHANGED resumed
    BY DEF patches, Link
  <2>2. loopState' = "in_review" /\ round' = 1 /\ call'["loop"] = call["loop"]
    BY <1>6 DEF Link, SetLoop, Actors, Deliverers
  <2>3. At("loop", "rework") => 1 <= round
    BY <1>0 DEF LinkInv, At, PRLoopTypeOK, MarkersTyped
  <2> QED
    BY <1>0, <2>1, <2>2, <2>3, <2>4, RoomKept DEF At
<1>9. CreditInv'
  <2>1. UNCHANGED <<seenIds, approvals, patches>>
    BY DEF markers, Link, Continue
  <2> QED
    BY <1>0, <1>5, <1>6, <2>1, CreditSame DEF patches, At, Actors, Deliverers
<1> QED
  BY <1>1, <1>2, <1>3, <1>4, <1>6, <1>7, <1>8, <1>9 DEF LoopInv, PRLoopTypeOK

(* The first reviewer is created for a linked loop. *)
LEMMA FirstReviewStep ==
  ASSUME LoopInv, NEW a \in Deliverers, FirstReview(a)
  PROVE  LoopInv'
<1>0. PRLoopTypeOK /\ CallInv /\ LinkInv /\ CapInv /\ CreditInv
  BY DEF LoopInv
<1>1. MarkersTyped'
  BY <1>0, Bounds DEF PRLoopTypeOK, MarkersTyped, markers, FirstReview, Return, Opened,
                      CreateReviewer
<1>2. RunsTyped'
  BY <1>0, Bounds DEF PRLoopTypeOK, RunsTyped, runs, FirstReview, Return, Opened, CreateReviewer
<1>3. MonitorTyped'
  BY <1>0 DEF PRLoopTypeOK, MonitorTyped, monitor, FirstReview, Return, Opened, CreateReviewer
<1>4. PatchesTyped' /\ orphaned' \subseteq Rounds /\ settled' \subseteq Requests
  BY <1>0 DEF PatchesTyped, patches, PRLoopTypeOK, prHist, FirstReview, Return, Opened, CreateReviewer
<1>5. Goto(a, "idle", 0) /\ UNCHANGED approvals
  BY <1>0 DEF markers, FirstReview, Return, Opened, CreateReviewer
<1>6. /\ CallTyped' /\ CallInv' /\ call'[a].step = "idle"
      /\ \A b \in Actors \ {a} : call'[b] = call[b]
  BY <1>0, <1>5, DeliveryMoves DEF PRLoopTypeOK
<1>7. LinkInv'
  BY <1>0, <1>6 DEF LinkInv, At, Actors, Deliverers, markers, runs, FirstReview, Return,
                    Opened, CreateReviewer
<1>8. CapInv'
  <2>1. Room' = Room /\ Room' \in Nat
    BY <1>0, RoomSame DEF patches, markers, FirstReview, Return, Opened, CreateReviewer
  <2> QED
    BY <1>0, <1>1, <1>6, <2>1, RoomKept DEF patches, MarkersTyped, CapInv, PRLoopTypeOK, At, Actors,
                                            Deliverers, markers, FirstReview, Return,
                                            Opened, CreateReviewer
<1>9. CreditInv'
  <2>1. UNCHANGED <<seenIds, approvals, patches>>
    BY DEF markers, FirstReview, Return
  <2> QED
    BY <1>0, <1>5, <1>6, <2>1, CreditSame DEF patches, At, Actors, Deliverers
<1> QED
  BY <1>1, <1>2, <1>3, <1>4, <1>6, <1>7, <1>8, <1>9 DEF LoopInv, PRLoopTypeOK

(* Feedback reaches a write only if it is new and the loop is not over. *)
LEMMA HandleFeedbackStep ==
  ASSUME LoopInv, NEW a \in Deliverers, NEW e \in Events, HandleFeedback(a, e)
  PROVE  LoopInv'
<1>0. PRLoopTypeOK /\ CallInv /\ LinkInv /\ CapInv /\ CreditInv
  BY DEF LoopInv
<1>1. MarkersTyped'
  BY <1>0, Bounds DEF PRLoopTypeOK, MarkersTyped, markers, HandleFeedback, Return, Continue,
                      Settle, Terminal
<1>2. RunsTyped'
  BY <1>0, Bounds DEF PRLoopTypeOK, RunsTyped, runs, HandleFeedback, Return, Continue,
                      Settle, Terminal
<1>3. MonitorTyped'
  <2>1. CASE UNCHANGED monitor
    BY <1>0, <2>1 DEF PRLoopTypeOK, MonitorTyped, monitor
  <2>2. CASE Return(a, TRUE, e)
    BY <1>0, <2>2, ReturnTyped, Bounds DEF PRLoopTypeOK
  <2> QED
    BY <2>1, <2>2 DEF HandleFeedback, Continue
<1>4. PatchesTyped' /\ orphaned' \subseteq Rounds /\ settled' \subseteq Requests
  BY <1>0 DEF PatchesTyped, patches, PRLoopTypeOK, prHist, Requests, Event, HandleFeedback, Return, Continue,
              Settle, Terminal
<1>5. /\ UNCHANGED approvals
      /\ Goto(a, "idle", 0) \/ \E step \in {"approve", "resolve"} :
                                 /\ Goto(a, step, e)
                                 /\ step = "resolve" => e \notin approvals
                                 /\ step = "approve" => e \in approvals
  BY DEF markers, HandleFeedback, Return, Continue
<1>6. /\ CallTyped' /\ CallInv' /\ call'[a].step \in {"idle", "approve", "resolve"}
      /\ \A b \in Actors \ {a} : call'[b] = call[b]
  BY <1>0, <1>5, DeliveryMoves, DeliveryDecides DEF PRLoopTypeOK
<1>7. LinkInv'
  BY <1>0, <1>6 DEF LinkInv, At, Actors, Deliverers, markers, runs, HandleFeedback, Return,
                    Continue, Settle, Terminal
<1>8. CapInv'
  <2>1. Room' = Room /\ Room' \in Nat
    BY <1>0, RoomSame DEF patches, markers, HandleFeedback, Return, Continue, Settle, Terminal
  <2> QED
    BY <1>0, <1>1, <1>6, <2>1, RoomKept DEF patches, MarkersTyped, CapInv, PRLoopTypeOK, At, Actors,
                                            Deliverers, markers, HandleFeedback, Return,
                                            Continue, Settle, Terminal
<1>9. CreditInv'
  <2>1. UNCHANGED <<seenIds, approvals, patches>>
    BY DEF markers, HandleFeedback, Return, Continue, Settle
  <2> QED
    BY <1>0, <1>5, <1>6, <2>1, CreditSame DEF patches, At, Actors, Deliverers
<1> QED
  BY <1>1, <1>2, <1>3, <1>4, <1>6, <1>7, <1>8, <1>9 DEF LoopInv, PRLoopTypeOK

(* A copy is paid for: read alone, it is the record, and the feedback that *)
(* asks is not on it; read while another delivery holds one, by the        *)
(* overlap that is counted then, for both of them.                         *)
LEMMA CopyStep ==
  ASSUME LoopInv, NEW a \in Deliverers, At(a, "approve") \/ At(a, "resolve"), ReadCopy(a),
         call[a].on \in seenIds => call[a].on \in approvals,
         UNCHANGED <<markers, enabled, runs, breaks, prHist>>
  PROVE  LoopInv'
<1>0. PRLoopTypeOK /\ CallInv /\ LinkInv /\ CapInv /\ CreditInv
  BY DEF LoopInv
<1> DEFINE e == call[a].on
<1>a. e \in Events /\ loopState # "none" /\ ~At(a, "patch")
  BY <1>0 DEF CallInv, LinkInv, At
<1>1. MarkersTyped' /\ RunsTyped' /\ MonitorTyped' /\ orphaned' \subseteq Rounds /\ settled' \subseteq Requests
  BY <1>0 DEF PRLoopTypeOK, MarkersTyped, RunsTyped, MonitorTyped, markers, runs, monitor, prHist,
              ReadCopy, Continue
<1>2. Goto(a, "patch", e) /\ UNCHANGED approvals
  BY DEF ReadCopy, Continue, markers
<1>3. /\ CallTyped' /\ CallInv' /\ call'[a] = [step |-> "patch", on |-> e]
      /\ \A b \in Actors \ {a} : call'[b] = call[b]
  <2>1. CallTyped' /\ CallInv' /\ \A b \in Actors \ {a} : call'[b] = call[b]
    BY <1>0, <1>2, <1>a, DeliveryDecides DEF PRLoopTypeOK
  <2> QED
    BY <1>0, <1>2, <2>1 DEF Goto, PRLoopTypeOK, CallTyped, Actors, Deliverers
<1>4. PICK c : /\ c = Cardinality({b \in Actors \ {a} : At(b, "patch")})
               /\ breaks + overlaps + c <= MaxMishaps /\ overlaps' = overlaps + c
  BY DEF ReadCopy
<1>5. PICK o \in Deliverers : o # a /\ Deliverers = {a, o}
  BY DEF Deliverers
<1>6. c = IF At(o, "patch") THEN 1 ELSE 0
  <2>1. {b \in Actors \ {a} : At(b, "patch")} = IF At(o, "patch") THEN {o} ELSE {}
    BY <1>0, <1>5 DEF CallInv, LoopSteps, At, Actors, Deliverers
  <2> QED
    BY <1>4, <2>1, FS_EmptySet, FS_Singleton
<1>7. /\ copy'[a].ids = seenIds /\ copy'[o] = copy[o] /\ UNCHANGED <<acted, resumed>>
      /\ PatchesTyped'
  <2>1. /\ copy' = [copy EXCEPT ![a] =
             [state |-> loopState, ids |-> seenIds,
              wake |-> IF At(a, "resolve") /\ phase \in Wakeable THEN "due" ELSE "none"]]
        /\ UNCHANGED <<acted, resumed, breaks>>
    BY DEF ReadCopy
  <2>2. overlaps' \in Nat /\ breaks' \in Nat /\ overlaps' + breaks' <= MaxMishaps
    BY <1>0, <1>4, <1>6, <2>1, LoopAssumption DEF PRLoopTypeOK, PatchesTyped
  <2> QED
    BY <1>0, <1>5, <2>1, <2>2 DEF PRLoopTypeOK, PatchesTyped, MarkersTyped, Actors, Deliverers
<1>8. LinkInv' /\ CapInv'
  <2>1. LinkInv'
    BY <1>0, <1>3, <1>a DEF LinkInv, At, Actors, Deliverers, markers, runs
  <2>2. CapInv'
    BY <1>0, <1>1, <1>3, <1>7, RoomKept DEF MarkersTyped, CapInv, PRLoopTypeOK, At, Actors,
                                            Deliverers, markers
  <2> QED
    BY <2>1, <2>2
<1>9. CreditInv'
  <2> DEFINE asks == IF e \notin approvals THEN 1 ELSE 0
  <2>1. Asked' = Asked
    BY DEF Asked, markers
  <2>2. Asking(a)' = asks /\ Asking(a) = 0 /\ Asking(o)' = Asking(o)
    BY <1>2, <1>3, <1>5, <1>a DEF Asking, At, Actors, Deliverers
  <2>3. Pending' = asks + Asking(o) /\ Pending = Asking(o)
    BY <1>5, <2>2, AskingType DEF Pending, Deliverers
  <2>4. Cardinality(Owed(a)') = Cardinality(Asked) + asks
    <3>1. Owed(a)' = (seenIds \cup {e}) \ approvals
      BY <1>2, <1>3, <1>7 DEF Owed
    <3>2. CASE e \in approvals
      BY <3>1, <3>2, OwedCount, <1>0 DEF Asked
    <3>3. CASE e \notin approvals
      <4>1. Owed(a)' = Asked \cup {e} /\ e \notin Asked
        BY <3>1, <3>3 DEF Asked
      <4>2. IsFiniteSet(Asked)
        BY <1>0, EventCount DEF PRLoopTypeOK, MarkersTyped, Asked
      <4> QED
        BY <3>3, <4>1, <4>2, FS_AddElement
    <3> QED
      BY <3>2, <3>3
  <2>5. Owed(o)' = Owed(o)
    BY <1>2, <1>3, <1>5, <1>7 DEF Owed, Actors, Deliverers
  <2>6. /\ resumed \in Nat /\ overlaps \in Nat /\ resumed' = resumed
        /\ Cardinality(Asked) \in Nat /\ Cardinality(Owed(o)) \in Nat
        /\ asks \in {0, 1} /\ Asking(o) \in {0, 1} /\ (Asking(o) = 1 => At(o, "patch"))
    BY <1>0, <1>7, OwedCount DEF PRLoopTypeOK, PatchesTyped, Asking
  <2>7. resumed <= Cardinality(Asked) + overlaps
    BY <1>0 DEF CreditInv
  <2>8. resumed' <= Cardinality(Asked') + overlaps'
    BY <1>4, <1>6, <2>1, <2>6, <2>7
  <2>9. resumed' + Pending' <= Cardinality(Owed(a)') + overlaps'
    <3>1. Asking(o) <= c
      BY <1>6, <2>6
    <3>2. c \in {0, 1}
      BY <1>6
    <3> QED
      BY <1>4, <2>3, <2>4, <2>6, <2>7, <3>1, <3>2
  <2>10. ASSUME At(o, "patch")'
         PROVE  /\ copy'[o].ids \subseteq acted'
                /\ call'[o].on \notin approvals' => call'[o].on \notin copy'[o].ids
                /\ resumed' + Pending' <= Cardinality(Owed(o)') + overlaps'
    <3>1. At(o, "patch") /\ call'[o] = call[o]
      BY <1>3, <1>5, <2>10 DEF At, Actors, Deliverers
    <3>2. /\ copy[o].ids \subseteq acted
          /\ call[o].on \notin approvals => call[o].on \notin copy[o].ids
          /\ resumed + Pending <= Cardinality(Owed(o)) + overlaps
      BY <1>0, <3>1 DEF CreditInv
    <3>3. c = 1
      BY <1>6, <3>1
    <3>4. resumed' + Pending' <= Cardinality(Owed(o)') + overlaps'
      BY <1>4, <2>3, <2>5, <2>6, <3>2, <3>3
    <3> QED
      BY <1>2, <1>7, <3>1, <3>2, <3>4
  <2>11. /\ call'[a].on \notin approvals' => call'[a].on \notin copy'[a].ids
         /\ seenIds' \subseteq acted' /\ copy'[a].ids \subseteq acted'
    BY <1>0, <1>2, <1>3, <1>7 DEF CreditInv, markers
  <2> QED
    BY <1>5, <2>8, <2>9, <2>10, <2>11 DEF CreditInv
<1> QED
  BY <1>1, <1>3, <1>7, <1>8, <1>9 DEF LoopInv, PRLoopTypeOK

(* An approval reads its copy whatever is on record. *)
LEMMA ReadApprovalStep ==
  ASSUME LoopInv, NEW a \in Deliverers, ReadApproval(a)
  PROVE  LoopInv'
  BY CopyStep DEF ReadApproval, LoopInv, CallInv, At

(* Feedback that the other path has recorded meanwhile returns. *)
LEMMA ReadFeedbackStep ==
  ASSUME LoopInv, NEW a \in Deliverers, ReadFeedback(a)
  PROVE  LoopInv'
<1>0. PRLoopTypeOK /\ CallInv /\ LinkInv /\ CapInv /\ CreditInv
  BY DEF LoopInv
<1>a. CASE call[a].on \notin seenIds /\ ReadCopy(a)
  BY <1>a, CopyStep DEF ReadFeedback
<1>b. CASE Return(a, TRUE, call[a].on) /\ UNCHANGED patches
  <2>0. call[a].on \in Events
    BY <1>0 DEF ReadFeedback, CallInv, At
  <2>1. MarkersTyped' /\ RunsTyped'
    BY <1>0 DEF PRLoopTypeOK, MarkersTyped, markers, RunsTyped, runs, ReadFeedback
  <2>2. MonitorTyped'
    BY <1>0, <1>b, <2>0, ReturnTyped, Bounds DEF PRLoopTypeOK
  <2>3. PatchesTyped' /\ orphaned' \subseteq Rounds /\ settled' \subseteq Requests
    BY <1>0, <1>b DEF PRLoopTypeOK, PatchesTyped, patches, prHist, ReadFeedback
  <2>4. Goto(a, "idle", 0) /\ UNCHANGED approvals
    BY <1>b DEF Return, markers, ReadFeedback
  <2>5. /\ CallTyped' /\ CallInv' /\ call'[a].step = "idle"
        /\ \A b \in Actors \ {a} : call'[b] = call[b]
    BY <1>0, <2>4, DeliveryMoves DEF PRLoopTypeOK
  <2>6. LinkInv'
    BY <1>0, <2>5 DEF LinkInv, At, Actors, Deliverers, markers, runs, ReadFeedback
  <2>7. CapInv'
    BY <1>0, <1>b, <2>1, <2>5, RoomKept DEF patches, MarkersTyped, CapInv, PRLoopTypeOK, At,
                                             Actors, Deliverers, markers, ReadFeedback
  <2>8. CreditInv'
    BY <1>0, <1>b, <2>5, CreditSame DEF markers, patches, At, Actors, Deliverers, ReadFeedback
  <2> QED
    BY <2>1, <2>2, <2>3, <2>5, <2>6, <2>7, <2>8 DEF LoopInv, PRLoopTypeOK
<1> QED
  BY <1>a, <1>b DEF ReadFeedback

(* The patch leaves on record what its delivery owed, and asks for what    *)
(* was pending. Feedback that asks makes the room its resolution needs.    *)
LEMMA PatchFeedbackStep ==
  ASSUME LoopInv, NEW a \in Deliverers, PatchFeedback(a)
  PROVE  LoopInv'
<1>0. PRLoopTypeOK /\ CallInv /\ LinkInv /\ CapInv /\ CreditInv
  BY DEF LoopInv
<1> DEFINE e == call[a].on
<1>a. e \in Events /\ loopState # "none" /\ At(a, "patch")
  BY <1>0 DEF CallInv, LinkInv, At, PatchFeedback
<1>b. /\ copy[a] \in [state : {"none", "in_review", "resolving"} \cup Terminal, ids : SUBSET Events,
                      wake : {"none", "due", "old"}]
      /\ copy \in [Actors -> [state : {"none", "in_review", "resolving"} \cup Terminal,
                              ids : SUBSET Events, wake : {"none", "due", "old"}]]
  BY <1>0 DEF PRLoopTypeOK, PatchesTyped, Actors, Deliverers
<1>c. /\ seenIds' = IF e \in copy[a].ids THEN seenIds ELSE copy[a].ids \cup {e}
      /\ loopState' \in {"resolving", "approved", loopState}
      /\ e \in approvals => loopState' \in {"approved", loopState}
      /\ acted' = acted \cup {e} /\ settled' = settled \cup {Event(e)} /\ Return(a, TRUE, e)
      /\ UNCHANGED <<round, approvals, enabled, reviewer, verdictHandled, phase, surfaced,
                     overlaps, breaks, orphaned>>
  BY DEF PatchFeedback, SetLoop, Settle
<1>d. /\ resumed' = IF e \notin approvals THEN resumed + 1 ELSE resumed
      /\ resumed \in Nat
  BY <1>0 DEF PatchFeedback, PRLoopTypeOK, PatchesTyped
<1>e. \A b \in Actors \ {a} : copy'[b].ids = copy[b].ids
  BY <1>b DEF PatchFeedback, Outdated
<1>1. MarkersTyped'
  BY <1>0, <1>a, <1>b, <1>c DEF PRLoopTypeOK, MarkersTyped, Terminal
<1>2. RunsTyped'
  <2>1. wake' \in BOOLEAN
    BY <1>0, Zenon DEF PRLoopTypeOK, RunsTyped, PatchFeedback
  <2> QED
    BY <1>0, <1>c, <2>1 DEF PRLoopTypeOK, RunsTyped
<1>3. MonitorTyped'
  BY <1>0, <1>a, <1>c, ReturnTyped, Bounds DEF PRLoopTypeOK
<1>4. orphaned' \subseteq Rounds /\ settled' \subseteq Requests
  BY <1>0, <1>a, <1>c DEF PRLoopTypeOK, Requests, Event
<1>5. PatchesTyped'
  <2> DEFINE Copies == [state : {"none", "in_review", "resolving"} \cup Terminal, ids : SUBSET Events,
                        wake : {"none", "due", "old"}]
  <2>1. \A b \in Actors : Outdated(copy[b]) \in Copies /\ copy[b] \in Copies /\ NoCopy \in Copies
    BY <1>b DEF Outdated, NoCopy
  <2>2. copy' = [b \in Actors |-> IF b = a THEN NoCopy
                                  ELSE IF copy[a].wake = "none" THEN copy[b] ELSE Outdated(copy[b])]
    BY DEF PatchFeedback
  <2> HIDE DEF Copies
  <2>3. copy' \in [Actors -> Copies]
    BY <2>1, <2>2
  <2>4. resumed' \in Nat
    BY <1>d
  <2> QED
    BY <1>0, <1>a, <1>c, <2>3, <2>4 DEF Copies, PRLoopTypeOK, PatchesTyped
<1>6. /\ CallTyped' /\ CallInv' /\ call'[a].step = "idle"
      /\ \A b \in Actors \ {a} : call'[b] = call[b]
  BY <1>0, <1>c, DeliveryMoves DEF PRLoopTypeOK, Return
<1>7. LinkInv'
  BY <1>0, <1>6, <1>a, <1>c DEF LinkInv, At, Actors, Deliverers
<1>8. CapInv'
  <2>1. round' = round /\ call'["loop"] = call["loop"]
    BY <1>6, <1>c DEF Actors, Deliverers
  <2>2. CASE e \in approvals
    BY <1>0, <1>c, <1>d, <2>1, <2>2, RoomKept DEF PRLoopTypeOK, MarkersTyped, CapInv, At
  <2>3. CASE e \notin approvals
    <3>1. Room' = Room + 1 /\ Room \in Nat /\ round \in Nat /\ round <= Room
      BY <1>0, <1>d, <2>3, RoomAboveCap, LoopAssumption DEF Room, CapInv, PRLoopTypeOK, MarkersTyped
    <3>2. round' <= Room' /\ round' + 1 <= Room'
      BY <2>1, <3>1
    <3>3. At("loop", "next")' => call'["loop"].on <= Room'
      BY <1>0, <2>1, <3>1 DEF CapInv, At, PRLoopTypeOK, CallTyped, Actors
    <3> QED
      BY <3>2, <3>3 DEF CapInv
  <2> QED
    BY <2>2, <2>3
<1>9. CreditInv'
  <2> DEFINE asks == IF e \notin approvals THEN 1 ELSE 0
  <2>0. PICK o \in Deliverers : o # a /\ Deliverers = {a, o}
    BY DEF Deliverers
  <2>1. /\ call'[o] = call[o] /\ copy'[o].ids = copy[o].ids /\ UNCHANGED <<approvals, overlaps>>
        /\ ~At(a, "patch")'
    BY <1>6, <1>c, <1>e, <2>0 DEF At, Actors, Deliverers
  <2>2. Asking(a) = asks /\ Asking(a)' = 0 /\ Asking(o)' = Asking(o)
    BY <1>a, <2>1 DEF Asking, At
  <2>3. Pending = asks + Asking(o) /\ Pending' = Asking(o)
    BY <2>0, <2>2, AskingType DEF Pending, Deliverers
  <2>4. /\ Cardinality(Asked) \in Nat /\ Cardinality(Owed(a)) \in Nat /\ Cardinality(Owed(o)) \in Nat
        /\ overlaps \in Nat /\ asks \in {0, 1} /\ Asking(o) \in {0, 1} /\ resumed' = resumed + asks
    BY <1>0, <1>d, OwedCount, AskingType DEF PRLoopTypeOK, PatchesTyped
  <2>5. /\ e \notin approvals => e \notin copy[a].ids
        /\ resumed + Pending <= Cardinality(Owed(a)) + overlaps
        /\ resumed <= Cardinality(Asked) + overlaps
    BY <1>0, <1>a DEF CreditInv
  <2>6. (Asked' = Asked /\ asks = 0) \/ Asked' = Owed(a)
    <3>1. CASE e \in copy[a].ids
      BY <1>c, <2>5, <3>1 DEF Asked
    <3>2. CASE e \notin copy[a].ids
      BY <1>c, <3>2 DEF Asked, Owed
    <3> QED
      BY <3>1, <3>2
  <2>7. resumed' <= Cardinality(Asked') + overlaps'
    <3>1. CASE Asked' = Asked /\ asks = 0
      BY <1>d, <2>1, <2>4, <2>5, <3>1
    <3>2. CASE Asked' = Owed(a)
      <4>1. resumed + asks <= Cardinality(Owed(a)) + overlaps
        BY <1>d, <2>3, <2>4, <2>5
      <4> QED
        BY <2>1, <2>4, <3>2, <4>1
    <3> QED
      BY <2>6, <3>1, <3>2
  <2>8. ASSUME At(o, "patch")'
        PROVE  /\ copy'[o].ids \subseteq acted'
               /\ call'[o].on \notin approvals' => call'[o].on \notin copy'[o].ids
               /\ resumed' + Pending' <= Cardinality(Owed(o)') + overlaps'
    <3>1. At(o, "patch") /\ Owed(o)' = Owed(o)
      BY <2>1, <2>8 DEF At, Owed
    <3>2. /\ copy[o].ids \subseteq acted
          /\ call[o].on \notin approvals => call[o].on \notin copy[o].ids
          /\ resumed + Pending <= Cardinality(Owed(o)) + overlaps
      BY <1>0, <3>1 DEF CreditInv
    <3>3. resumed' + Pending' <= Cardinality(Owed(o)') + overlaps'
      BY <1>d, <2>1, <2>3, <2>4, <3>1, <3>2
    <3> QED
      BY <1>c, <2>1, <3>2, <3>3
  <2>9. seenIds' \subseteq acted'
    BY <1>0, <1>a, <1>c DEF CreditInv
  <2> QED
    BY <2>0, <2>1, <2>7, <2>8, <2>9 DEF CreditInv
<1> QED
  BY <1>1, <1>2, <1>3, <1>4, <1>5, <1>6, <1>7, <1>8, <1>9 DEF LoopInv, PRLoopTypeOK

(* The monitor: its look at the pull request, and what it does with feedback. *)
LEMMA PollOpenedStep ==
  ASSUME LoopInv, PollOpened
  PROVE  LoopInv'
<1>0. PRLoopTypeOK /\ CallInv /\ LinkInv /\ CapInv /\ CreditInv
  BY DEF LoopInv
<1>1. MarkersTyped'
  BY <1>0, Bounds DEF PRLoopTypeOK, MarkersTyped, markers, PollOpened, Continue, Opened
<1>2. RunsTyped'
  BY <1>0, Bounds DEF PRLoopTypeOK, RunsTyped, runs, PollOpened, Continue, Opened
<1>3. MonitorTyped'
  BY <1>0 DEF PRLoopTypeOK, MonitorTyped, monitor, PollOpened, Continue, Opened
<1>4. PatchesTyped' /\ orphaned' \subseteq Rounds /\ settled' \subseteq Requests
  BY <1>0 DEF PatchesTyped, patches, PRLoopTypeOK, prHist, PollOpened, Continue, Opened
<1>5. Goto("poll", "open", 0) /\ UNCHANGED approvals
  BY <1>0 DEF markers, PollOpened, Continue, Opened
<1>6. /\ CallTyped' /\ CallInv' /\ call'["poll"].step = "open"
      /\ \A b \in Actors \ {"poll"} : call'[b] = call[b]
  BY <1>0, <1>5, DeliveryMoves DEF PRLoopTypeOK, Deliverers
<1>7. LinkInv'
  BY <1>0, <1>6 DEF LinkInv, At, Actors, Deliverers, markers, runs, PollOpened, Continue, Opened
<1>8. CapInv'
  <2>1. Room' = Room /\ Room' \in Nat
    BY <1>0, RoomSame DEF patches, markers, PollOpened, Continue, Opened
  <2> QED
    BY <1>0, <1>1, <1>6, <2>1, RoomKept DEF patches, MarkersTyped, CapInv, PRLoopTypeOK, At, Actors,
                                            Deliverers, markers, PollOpened, Continue,
                                            Opened
<1>9. CreditInv'
  <2>1. UNCHANGED <<seenIds, approvals, patches>>
    BY DEF markers, PollOpened, Continue
  <2> QED
    BY <1>0, <1>5, <1>6, <2>1, CreditSame DEF patches, At, Actors, Deliverers
<1> QED
  BY <1>1, <1>2, <1>3, <1>4, <1>6, <1>7, <1>8, <1>9 DEF LoopInv, PRLoopTypeOK

(* Feedback is delivered, or passed over once the loop is not polled. *)
LEMMA PollFeedbackStep ==
  ASSUME LoopInv, PollFeedback
  PROVE  LoopInv'
<1>0. PRLoopTypeOK /\ CallInv /\ LinkInv /\ CapInv /\ CreditInv /\ "poll" \in Deliverers
  BY DEF LoopInv, Deliverers
<1>a. cursor + 1 \in Events /\ cursor + 1 # Opened
  BY <1>0, LoopAssumption DEF PollFeedback, PRLoopTypeOK, MonitorTyped, Events, Opened
<1>b. CASE active /\ enabled
  BY <1>0, <1>a, <1>b, HandleFeedbackStep DEF PollFeedback
<1>c. CASE ~(active /\ enabled)
  <2> USE <1>c DEF PollFeedback
  <2>1. MarkersTyped' /\ RunsTyped'
    BY <1>0 DEF PRLoopTypeOK, MarkersTyped, markers, RunsTyped, runs
  <2>2. MonitorTyped'
    BY <1>0, <1>a, ReturnTyped, Bounds DEF PRLoopTypeOK
  <2>3. PatchesTyped' /\ orphaned' \subseteq Rounds /\ settled' \subseteq Requests
    <3>1. UNCHANGED <<patches, breaks, orphaned>> /\ settled' = settled \cup {Event(cursor + 1)}
      BY DEF Settle
    <3> HIDE DEF PollFeedback
    <3> QED
      BY <1>0, <1>a, <3>1 DEF PRLoopTypeOK, PatchesTyped, patches, Event, Requests
  <2>4. Goto("poll", "idle", 0) /\ UNCHANGED approvals
    BY DEF Return, markers
  <2>5. /\ CallTyped' /\ CallInv' /\ call'["poll"].step = "idle"
        /\ \A b \in Actors \ {"poll"} : call'[b] = call[b]
    BY <1>0, <2>4, DeliveryMoves DEF PRLoopTypeOK
  <2>6. LinkInv'
    BY <1>0, <2>5 DEF LinkInv, At, Actors, Deliverers, markers, runs
  <2>7. Room' = Room /\ Room' \in Nat
    BY <1>0, RoomSame DEF patches
  <2>8. CapInv'
    BY <1>0, <2>1, <2>5, <2>7, RoomKept DEF patches, MarkersTyped, CapInv, PRLoopTypeOK, At, Actors,
                                            Deliverers, markers
  <2>9. CreditInv'
    BY <1>0, <2>5, CreditSame DEF markers, patches, At, Actors, Deliverers
  <2> QED
    BY <2>1, <2>2, <2>3, <2>5, <2>6, <2>8, <2>9 DEF LoopInv, PRLoopTypeOK
<1> QED
  BY <1>b, <1>c

-----------------------------------------------------------------------------
(* The reconciler of completed runs. *)
LEMMA OnReviewerRunCompletedStep ==
  ASSUME LoopInv, NEW r \in Rounds, OnReviewerRunCompleted(r)
  PROVE  LoopInv'
<1>0. PRLoopTypeOK /\ CallInv /\ LinkInv /\ CapInv /\ CreditInv
  BY DEF LoopInv
<1>r. r \in Rounds /\ loopState # "none"
  BY <1>0 DEF LinkInv, OnReviewerRunCompleted, Completed
<1>1. MarkersTyped'
  BY <1>0, Bounds DEF PRLoopTypeOK, MarkersTyped, markers, OnReviewerRunCompleted, AfterVerdict
<1>2. RunsTyped'
  BY <1>0, Bounds DEF PRLoopTypeOK, RunsTyped, runs, OnReviewerRunCompleted, AfterVerdict
<1>3. MonitorTyped'
  BY <1>0 DEF PRLoopTypeOK, MonitorTyped, monitor, OnReviewerRunCompleted, AfterVerdict
<1>4. PatchesTyped' /\ orphaned' \subseteq Rounds /\ settled' \subseteq Requests
  BY <1>0 DEF PatchesTyped, patches, PRLoopTypeOK, Requests, Review, OnReviewerRunCompleted
<1>5. PICK step \in {"mark", "accept", "block", "rework"} : Goto("loop", step, r) /\ UNCHANGED approvals
  BY DEF markers, OnReviewerRunCompleted, AfterVerdict
<1>6. /\ CallTyped' /\ CallInv' /\ call'["loop"] = [step |-> step, on |-> r]
      /\ \A b \in Deliverers : call'[b] = call[b]
  BY <1>0, <1>5, <1>r, LoopMoves, Bounds DEF LoopSteps, PRLoopTypeOK
<1>7. LinkInv'
  BY <1>0, <1>6, <1>r DEF LinkInv, At, Actors, Deliverers, markers, runs, SetLoop,
                          OnReviewerRunCompleted
<1>8. CapInv'
  <2>1. Room' = Room /\ Room' \in Nat
    BY <1>0, RoomSame DEF patches, markers, OnReviewerRunCompleted
  <2>2. step = "rework" => round + 1 <= MaxRounds
    <3>1. Goto("loop", AfterVerdict(r), r)
      BY DEF OnReviewerRunCompleted
    <3>2. call'["loop"].step = AfterVerdict(r)
      BY <1>0, <3>1 DEF Goto, PRLoopTypeOK, CallTyped, Actors
    <3>3. AfterVerdict(r) = "rework" => ~(round >= MaxRounds)
      BY Zenon DEF AfterVerdict
    <3> QED
      BY <1>0, <1>6, <3>2, <3>3, LoopAssumption DEF PRLoopTypeOK, MarkersTyped
  <2>3. MaxRounds <= Room
    BY <1>0, RoomAboveCap
  <2>4. round' = round /\ loopState' = loopState /\ Room \in Nat /\ round \in Nat
    BY <1>0, RoomType DEF OnReviewerRunCompleted, markers, PRLoopTypeOK, MarkersTyped
  <2>5. step = "rework" => round + 1 <= Room
    BY <2>2, <2>3, <2>4, LoopAssumption
  <2> QED
    BY <1>0, <1>5, <1>6, <2>1, <2>4, <2>5 DEF CapInv, At
<1>9. CreditInv'
  <2>1. UNCHANGED <<seenIds, approvals, patches>>
    BY DEF markers, OnReviewerRunCompleted
  <2> QED
    BY <1>0, <1>5, <1>6, <2>1, CreditSame DEF patches, At, Actors, Deliverers
<1> QED
  BY <1>1, <1>2, <1>3, <1>4, <1>6, <1>7, <1>8, <1>9 DEF LoopInv, PRLoopTypeOK

(* An approval writes a state that needs no room. *)
LEMMA AcceptStep ==
  ASSUME LoopInv, Accept
  PROVE  LoopInv'
<1>0. PRLoopTypeOK /\ CallInv /\ LinkInv /\ CapInv /\ CreditInv
  BY DEF LoopInv
<1>r. call["loop"].on \in Rounds /\ loopState # "none"
  BY <1>0 DEF CallInv, LinkInv, At, Accept
<1>1. MarkersTyped'
  BY <1>0 DEF PRLoopTypeOK, MarkersTyped, Accept, SetLoop, Terminal
<1>2. RunsTyped'
  BY <1>0, Bounds DEF PRLoopTypeOK, RunsTyped, runs, Accept, SetLoop, Settle
<1>3. MonitorTyped'
  BY <1>0 DEF PRLoopTypeOK, MonitorTyped, monitor, Accept, SetLoop, Settle
<1>4. PatchesTyped' /\ orphaned' \subseteq Rounds /\ settled' \subseteq Requests
  BY <1>0, <1>r DEF PatchesTyped, patches, PRLoopTypeOK, prHist, Requests, Review, Settle, Accept
<1>5. PICK step \in {"mark"} : Goto("loop", step, call["loop"].on) /\ UNCHANGED approvals
  BY DEF markers, Accept, SetLoop, Settle
<1>6. /\ CallTyped' /\ CallInv' /\ call'["loop"] = [step |-> step, on |-> call["loop"].on]
      /\ \A b \in Deliverers : call'[b] = call[b]
  BY <1>0, <1>5, <1>r, LoopMoves, Bounds DEF LoopSteps, PRLoopTypeOK
<1>7. LinkInv'
  BY <1>0, <1>6, <1>r DEF LinkInv, At, Actors, Deliverers, markers, runs, SetLoop, Accept
<1>8. CapInv'
  <2>1. Room' = Room /\ Room' \in Nat
    BY <1>0, RoomSame DEF patches, markers, Accept
  <2> QED
    BY <1>0, <1>1, <1>5, <1>6, <2>1, RoomKept DEF patches, MarkersTyped, CapInv, PRLoopTypeOK, At,
                                                  markers, SetLoop, Accept
<1>9. CreditInv'
  <2>1. UNCHANGED <<seenIds, approvals, patches>>
    BY DEF markers, Accept
  <2> QED
    BY <1>0, <1>5, <1>6, <2>1, CreditSame DEF patches, At, Actors, Deliverers
<1> QED
  BY <1>1, <1>2, <1>3, <1>4, <1>6, <1>7, <1>8, <1>9 DEF LoopInv, PRLoopTypeOK

(* So does a block. *)
LEMMA BlockStep ==
  ASSUME LoopInv, Block
  PROVE  LoopInv'
<1>0. PRLoopTypeOK /\ CallInv /\ LinkInv /\ CapInv /\ CreditInv
  BY DEF LoopInv
<1>r. call["loop"].on \in Rounds /\ loopState # "none"
  BY <1>0 DEF CallInv, LinkInv, At, Block
<1>1. MarkersTyped'
  BY <1>0 DEF PRLoopTypeOK, MarkersTyped, Block, SetLoop, Terminal
<1>2. RunsTyped'
  BY <1>0, Bounds DEF PRLoopTypeOK, RunsTyped, runs, Block, SetLoop, Settle
<1>3. MonitorTyped'
  BY <1>0 DEF PRLoopTypeOK, MonitorTyped, monitor, Block, SetLoop, Settle
<1>4. PatchesTyped' /\ orphaned' \subseteq Rounds /\ settled' \subseteq Requests
  BY <1>0, <1>r DEF PatchesTyped, patches, PRLoopTypeOK, prHist, Requests, Review, Settle, Block
<1>5. PICK step \in {"escalate"} : Goto("loop", step, call["loop"].on) /\ UNCHANGED approvals
  BY DEF markers, Block, SetLoop, Settle
<1>6. /\ CallTyped' /\ CallInv' /\ call'["loop"] = [step |-> step, on |-> call["loop"].on]
      /\ \A b \in Deliverers : call'[b] = call[b]
  BY <1>0, <1>5, <1>r, LoopMoves, Bounds DEF LoopSteps, PRLoopTypeOK
<1>7. LinkInv'
  BY <1>0, <1>6, <1>r DEF LinkInv, At, Actors, Deliverers, markers, runs, SetLoop, Block
<1>8. CapInv'
  <2>1. Room' = Room /\ Room' \in Nat
    BY <1>0, RoomSame DEF patches, markers, Block
  <2> QED
    BY <1>0, <1>1, <1>5, <1>6, <2>1, RoomKept DEF patches, MarkersTyped, CapInv, PRLoopTypeOK, At,
                                                  markers, SetLoop, Block
<1>9. CreditInv'
  <2>1. UNCHANGED <<seenIds, approvals, patches>>
    BY DEF markers, Block
  <2> QED
    BY <1>0, <1>5, <1>6, <2>1, CreditSame DEF patches, At, Actors, Deliverers
<1> QED
  BY <1>1, <1>2, <1>3, <1>4, <1>6, <1>7, <1>8, <1>9 DEF LoopInv, PRLoopTypeOK

(* The question to the user leaves the markers alone. *)
LEMMA EscalateStep ==
  ASSUME LoopInv, Escalate
  PROVE  LoopInv'
<1>0. PRLoopTypeOK /\ CallInv /\ LinkInv /\ CapInv /\ CreditInv
  BY DEF LoopInv
<1>r. call["loop"].on \in Rounds /\ loopState # "none"
  BY <1>0 DEF CallInv, LinkInv, At, Escalate
<1>1. MarkersTyped'
  BY <1>0, Bounds DEF PRLoopTypeOK, MarkersTyped, markers, Escalate, At
<1>2. RunsTyped'
  BY <1>0, Bounds DEF PRLoopTypeOK, RunsTyped, runs, Escalate, At
<1>3. MonitorTyped'
  BY <1>0 DEF PRLoopTypeOK, MonitorTyped, monitor, Escalate, At
<1>4. PatchesTyped' /\ orphaned' \subseteq Rounds /\ settled' \subseteq Requests
  BY <1>0, <1>r DEF PatchesTyped, patches, PRLoopTypeOK, prHist, Requests, Review, Settle, Escalate
<1>5. PICK step \in {"mark"} : Goto("loop", step, call["loop"].on) /\ UNCHANGED approvals
  BY DEF markers, Escalate
<1>6. /\ CallTyped' /\ CallInv' /\ call'["loop"] = [step |-> step, on |-> call["loop"].on]
      /\ \A b \in Deliverers : call'[b] = call[b]
  BY <1>0, <1>5, <1>r, LoopMoves, Bounds DEF LoopSteps, PRLoopTypeOK
<1>7. LinkInv'
  BY <1>0, <1>6, <1>r DEF LinkInv, At, Actors, Deliverers, markers, runs, SetLoop, Escalate
<1>8. CapInv'
  <2>1. Room' = Room /\ Room' \in Nat
    BY <1>0, RoomSame DEF patches, markers, Escalate
  <2> QED
    BY <1>0, <1>1, <1>5, <1>6, <2>1, RoomKept DEF patches, MarkersTyped, CapInv, PRLoopTypeOK, At,
                                                  markers, SetLoop, Escalate
<1>9. CreditInv'
  <2>1. UNCHANGED <<seenIds, approvals, patches>>
    BY DEF markers, Escalate
  <2> QED
    BY <1>0, <1>5, <1>6, <2>1, CreditSame DEF patches, At, Actors, Deliverers
<1> QED
  BY <1>1, <1>2, <1>3, <1>4, <1>6, <1>7, <1>8, <1>9 DEF LoopInv, PRLoopTypeOK

(* The room found by the verdict passes to the resolving state. *)
LEMMA ReworkStep ==
  ASSUME LoopInv, Rework
  PROVE  LoopInv'
<1>0. PRLoopTypeOK /\ CallInv /\ LinkInv /\ CapInv /\ CreditInv
  BY DEF LoopInv
<1>r. call["loop"].on \in Rounds /\ loopState # "none"
  BY <1>0 DEF CallInv, LinkInv, At, Rework
<1>1. MarkersTyped'
  BY <1>0, Bounds DEF PRLoopTypeOK, MarkersTyped, markers, Rework, SetLoop, Settle
<1>2. RunsTyped'
  BY <1>0, Bounds DEF PRLoopTypeOK, RunsTyped, runs, Rework, SetLoop, Settle
<1>3. MonitorTyped'
  BY <1>0 DEF PRLoopTypeOK, MonitorTyped, monitor, Rework, SetLoop, Settle
<1>4. PatchesTyped' /\ orphaned' \subseteq Rounds /\ settled' \subseteq Requests
  BY <1>0, <1>r DEF PatchesTyped, patches, PRLoopTypeOK, prHist, Requests, Review, Settle, Rework
<1>5. PICK step \in {"escalate", "wake", "tell"} : Goto("loop", step, call["loop"].on) /\ UNCHANGED approvals
  BY DEF markers, Rework, SetLoop, Settle
<1>6. /\ CallTyped' /\ CallInv' /\ call'["loop"] = [step |-> step, on |-> call["loop"].on]
      /\ \A b \in Deliverers : call'[b] = call[b]
  BY <1>0, <1>5, <1>r, LoopMoves, Bounds DEF LoopSteps, PRLoopTypeOK
<1>7. LinkInv'
  BY <1>0, <1>6, <1>r DEF LinkInv, At, Actors, Deliverers, markers, runs, SetLoop, Rework
<1>8. CapInv'
  <2>1. Room' = Room /\ Room' \in Nat
    BY <1>0, RoomSame DEF patches, Rework
  <2>2. round' = round /\ round + 1 <= Room /\ round <= Room
    BY <1>0 DEF Rework, CapInv, At
  <2> QED
    BY <1>5, <1>6, <2>1, <2>2 DEF CapInv, At
<1>9. CreditInv'
  <2>1. UNCHANGED <<seenIds, approvals, patches>>
    BY DEF markers, Rework
  <2> QED
    BY <1>0, <1>5, <1>6, <2>1, CreditSame DEF patches, At, Actors, Deliverers
<1> QED
  BY <1>1, <1>2, <1>3, <1>4, <1>6, <1>7, <1>8, <1>9 DEF LoopInv, PRLoopTypeOK

(* A message or a wake leaves the markers alone. *)
LEMMA SendMessageStep ==
  ASSUME LoopInv, SendMessage
  PROVE  LoopInv'
<1>0. PRLoopTypeOK /\ CallInv /\ LinkInv /\ CapInv /\ CreditInv
  BY DEF LoopInv
<1>r. call["loop"].on \in Rounds /\ loopState # "none"
  BY <1>0 DEF CallInv, LinkInv, At, SendMessage, LoopSteps
<1>1. MarkersTyped'
  BY <1>0, Bounds DEF PRLoopTypeOK, MarkersTyped, markers, SendMessage, Settle
<1>2. RunsTyped'
  <2>1. wake' \in BOOLEAN
    BY <1>0, Zenon DEF PRLoopTypeOK, RunsTyped, SendMessage
  <2> QED
    BY <1>0, <2>1 DEF PRLoopTypeOK, RunsTyped, SendMessage
<1>3. MonitorTyped'
  BY <1>0 DEF PRLoopTypeOK, MonitorTyped, monitor, SendMessage, Settle
<1>4. orphaned' \subseteq Rounds /\ settled' \subseteq Requests
  BY <1>0, <1>r DEF PRLoopTypeOK, prHist, Requests, Review, Settle, SendMessage
<1>10. PatchesTyped'
  <2>1. \A b \in Actors : Outdated(copy[b]) \in
          [state : {"none", "in_review", "resolving"} \cup Terminal, ids : SUBSET Events,
           wake : {"none", "due", "old"}]
    BY <1>0 DEF PRLoopTypeOK, PatchesTyped, Outdated
  <2> QED
    BY <1>0, <2>1 DEF PRLoopTypeOK, PatchesTyped, SendMessage
<1>5. PICK step \in {"mark"} : Goto("loop", step, call["loop"].on) /\ UNCHANGED approvals
  BY DEF markers, SendMessage, Settle
<1>6. /\ CallTyped' /\ CallInv' /\ call'["loop"] = [step |-> step, on |-> call["loop"].on]
      /\ \A b \in Deliverers : call'[b] = call[b]
  BY <1>0, <1>5, <1>r, LoopMoves, Bounds DEF LoopSteps, PRLoopTypeOK
<1>7. LinkInv'
  BY <1>0, <1>6, <1>r DEF LinkInv, At, Actors, Deliverers, markers, runs, SetLoop, SendMessage
<1>8. CapInv'
  <2>1. Room' = Room /\ Room' \in Nat
    BY <1>0, RoomSame DEF markers, SendMessage
  <2> QED
    BY <1>0, <1>1, <1>5, <1>6, <2>1, RoomKept DEF MarkersTyped, CapInv, PRLoopTypeOK, At,
                                                  markers, SetLoop, SendMessage
<1>9. CreditInv'
  <2>1. \A a \in Deliverers : copy'[a].ids = copy[a].ids
    BY <1>0 DEF PRLoopTypeOK, PatchesTyped, SendMessage, Outdated, Actors, Deliverers
  <2>2. UNCHANGED <<seenIds, approvals, acted, resumed, overlaps>>
    BY DEF markers, SendMessage
  <2> QED
    BY <1>0, <1>5, <1>6, <2>1, <2>2, CreditSame DEF At
<1> QED
  BY <1>1, <1>2, <1>3, <1>4, <1>6, <1>7, <1>8, <1>9, <1>10 DEF LoopInv, PRLoopTypeOK

(* So does the mark on the reviewer. *)
LEMMA MarkVerdictHandledStep ==
  ASSUME LoopInv, MarkVerdictHandled
  PROVE  LoopInv'
<1>0. PRLoopTypeOK /\ CallInv /\ LinkInv /\ CapInv /\ CreditInv
  BY DEF LoopInv
<1>r. call["loop"].on \in Rounds /\ loopState # "none"
  BY <1>0 DEF CallInv, LinkInv, At, MarkVerdictHandled
<1>1. MarkersTyped'
  BY <1>0, Bounds DEF PRLoopTypeOK, MarkersTyped, markers, MarkVerdictHandled, At
<1>2. RunsTyped'
  BY <1>0, <1>r DEF PRLoopTypeOK, RunsTyped, MarkVerdictHandled
<1>3. MonitorTyped'
  BY <1>0 DEF PRLoopTypeOK, MonitorTyped, monitor, MarkVerdictHandled, At
<1>4. PatchesTyped' /\ orphaned' \subseteq Rounds /\ settled' \subseteq Requests
  BY <1>0, <1>r DEF PatchesTyped, patches, PRLoopTypeOK, prHist, Requests, Review, Settle, MarkVerdictHandled
<1>5. PICK step \in {"idle"} : Goto("loop", step, 0) /\ UNCHANGED approvals
  BY DEF markers, MarkVerdictHandled
<1>6. /\ CallTyped' /\ CallInv' /\ call'["loop"] = [step |-> step, on |-> 0]
      /\ \A b \in Deliverers : call'[b] = call[b]
  BY <1>0, <1>5, <1>r, LoopMoves, Bounds DEF LoopSteps, PRLoopTypeOK
<1>7. LinkInv'
  BY <1>0, <1>6, <1>r DEF LinkInv, At, Actors, Deliverers, markers, runs, SetLoop,
                          MarkVerdictHandled
<1>8. CapInv'
  <2>1. Room' = Room /\ Room' \in Nat
    BY <1>0, RoomSame DEF patches, markers, MarkVerdictHandled
  <2> QED
    BY <1>0, <1>1, <1>5, <1>6, <2>1, RoomKept DEF patches, MarkersTyped, CapInv, PRLoopTypeOK, At,
                                                  markers, SetLoop, MarkVerdictHandled
<1>9. CreditInv'
  <2>1. UNCHANGED <<seenIds, approvals, patches>>
    BY DEF markers, MarkVerdictHandled
  <2> QED
    BY <1>0, <1>5, <1>6, <2>1, CreditSame DEF patches, At, Actors, Deliverers
<1> QED
  BY <1>1, <1>2, <1>3, <1>4, <1>6, <1>7, <1>8, <1>9 DEF LoopInv, PRLoopTypeOK

(* A resolving loop has room for the round that is started. *)
LEMMA OnImplementerRunCompletedStep ==
  ASSUME LoopInv, OnImplementerRunCompleted
  PROVE  LoopInv'
<1>0. PRLoopTypeOK /\ CallInv /\ LinkInv /\ CapInv /\ CreditInv
  BY DEF LoopInv
<1>r. round + 1 \in Rounds /\ loopState # "none"
  <2>1. round + 1 <= Room /\ Room <= LastRound /\ round \in Nat
    BY <1>0, RoomType DEF CapInv, OnImplementerRunCompleted, PRLoopTypeOK, MarkersTyped
  <2> QED
    BY <2>1, RoomType, <1>0, LoopAssumption DEF Rounds, LastRound, OnImplementerRunCompleted
<1>1. MarkersTyped'
  BY <1>0, Bounds DEF PRLoopTypeOK, MarkersTyped, markers, OnImplementerRunCompleted, At
<1>2. RunsTyped'
  BY <1>0, Bounds DEF PRLoopTypeOK, RunsTyped, runs, OnImplementerRunCompleted, At
<1>3. MonitorTyped'
  BY <1>0 DEF PRLoopTypeOK, MonitorTyped, monitor, OnImplementerRunCompleted, At
<1>4. PatchesTyped' /\ orphaned' \subseteq Rounds /\ settled' \subseteq Requests
  BY <1>0, <1>r DEF PatchesTyped, patches, PRLoopTypeOK, prHist, Requests, Review, Settle, OnImplementerRunCompleted
<1>5. PICK step \in {"next"} : Goto("loop", step, round + 1) /\ UNCHANGED approvals
  BY DEF markers, OnImplementerRunCompleted
<1>6. /\ CallTyped' /\ CallInv' /\ call'["loop"] = [step |-> step, on |-> round + 1]
      /\ \A b \in Deliverers : call'[b] = call[b]
  BY <1>0, <1>5, <1>r, LoopMoves, Bounds DEF LoopSteps, PRLoopTypeOK
<1>7. LinkInv'
  BY <1>0, <1>6, <1>r DEF LinkInv, At, Actors, Deliverers, markers, runs, SetLoop,
                          OnImplementerRunCompleted
<1>8. CapInv'
  <2>1. Room' = Room /\ Room' \in Nat
    BY <1>0, RoomSame DEF patches, markers, OnImplementerRunCompleted
  <2>2. round' = round /\ loopState' = loopState
    BY DEF OnImplementerRunCompleted, markers
  <2> QED
    BY <1>0, <1>5, <1>6, <2>1, <2>2 DEF CapInv, At, OnImplementerRunCompleted
<1>9. CreditInv'
  <2>1. UNCHANGED <<seenIds, approvals, patches>>
    BY DEF markers, OnImplementerRunCompleted
  <2> QED
    BY <1>0, <1>5, <1>6, <2>1, CreditSame DEF patches, At, Actors, Deliverers
<1> QED
  BY <1>1, <1>2, <1>3, <1>4, <1>6, <1>7, <1>8, <1>9 DEF LoopInv, PRLoopTypeOK

(* The round is written within the room it was decided in. *)
LEMMA StartRoundStep ==
  ASSUME LoopInv, StartRound
  PROVE  LoopInv'
<1>0. PRLoopTypeOK /\ CallInv /\ LinkInv /\ CapInv /\ CreditInv
  BY DEF LoopInv
<1>r. call["loop"].on \in Rounds /\ loopState # "none"
  BY <1>0 DEF CallInv, LinkInv, At, StartRound
<1>1. MarkersTyped'
  BY <1>0, <1>r, Bounds DEF PRLoopTypeOK, MarkersTyped, StartRound, SetLoop
<1>2. RunsTyped'
  BY <1>0, Bounds DEF PRLoopTypeOK, RunsTyped, runs, StartRound, SetLoop
<1>3. MonitorTyped'
  BY <1>0 DEF PRLoopTypeOK, MonitorTyped, monitor, StartRound, SetLoop
<1>4. PatchesTyped' /\ orphaned' \subseteq Rounds /\ settled' \subseteq Requests
  BY <1>0, <1>r DEF PatchesTyped, patches, PRLoopTypeOK, prHist, Requests, Review, Settle, StartRound
<1>5. PICK step \in {"spawn"} : Goto("loop", step, call["loop"].on) /\ UNCHANGED approvals
  BY DEF markers, StartRound, SetLoop
<1>6. /\ CallTyped' /\ CallInv' /\ call'["loop"] = [step |-> step, on |-> call["loop"].on]
      /\ \A b \in Deliverers : call'[b] = call[b]
  BY <1>0, <1>5, <1>r, LoopMoves, Bounds DEF LoopSteps, PRLoopTypeOK
<1>7. LinkInv'
  BY <1>0, <1>6, <1>r DEF LinkInv, At, Actors, Deliverers, runs, SetLoop, StartRound, Rounds
<1>8. CapInv'
  <2>1. Room' = Room /\ Room' \in Nat
    BY <1>0, RoomSame DEF patches, StartRound
  <2>2. round' <= Room /\ loopState' = "in_review"
    BY <1>0 DEF StartRound, CapInv, SetLoop
  <2> QED
    BY <1>5, <1>6, <2>1, <2>2 DEF CapInv, At
<1>9. CreditInv'
  <2>1. UNCHANGED <<seenIds, approvals, patches>>
    BY DEF markers, StartRound
  <2> QED
    BY <1>0, <1>5, <1>6, <2>1, CreditSame DEF patches, At, Actors, Deliverers
<1> QED
  BY <1>1, <1>2, <1>3, <1>4, <1>6, <1>7, <1>8, <1>9 DEF LoopInv, PRLoopTypeOK

(* Its reviewer is created. *)
LEMMA SpawnReviewerStep ==
  ASSUME LoopInv, SpawnReviewer
  PROVE  LoopInv'
<1>0. PRLoopTypeOK /\ CallInv /\ LinkInv /\ CapInv /\ CreditInv
  BY DEF LoopInv
<1>r. call["loop"].on \in Rounds /\ loopState # "none"
  BY <1>0 DEF CallInv, LinkInv, At, SpawnReviewer
<1>1. MarkersTyped'
  BY <1>0, Bounds DEF PRLoopTypeOK, MarkersTyped, markers, SpawnReviewer, At
<1>2. RunsTyped'
  BY <1>0, <1>r DEF PRLoopTypeOK, RunsTyped, SpawnReviewer, CreateReviewer
<1>3. MonitorTyped'
  BY <1>0 DEF PRLoopTypeOK, MonitorTyped, monitor, SpawnReviewer, At
<1>4. PatchesTyped' /\ orphaned' \subseteq Rounds /\ settled' \subseteq Requests
  BY <1>0, <1>r DEF PatchesTyped, patches, PRLoopTypeOK, prHist, Requests, Review, Settle, SpawnReviewer
<1>5. PICK step \in {"idle"} : Goto("loop", step, 0) /\ UNCHANGED approvals
  BY DEF markers, SpawnReviewer
<1>6. /\ CallTyped' /\ CallInv' /\ call'["loop"] = [step |-> step, on |-> 0]
      /\ \A b \in Deliverers : call'[b] = call[b]
  BY <1>0, <1>5, <1>r, LoopMoves, Bounds DEF LoopSteps, PRLoopTypeOK
<1>7. LinkInv'
  BY <1>0, <1>6, <1>r DEF LinkInv, At, Actors, Deliverers, markers, runs, SetLoop, SpawnReviewer
<1>8. CapInv'
  <2>1. Room' = Room /\ Room' \in Nat
    BY <1>0, RoomSame DEF patches, markers, SpawnReviewer
  <2> QED
    BY <1>0, <1>1, <1>5, <1>6, <2>1, RoomKept DEF patches, MarkersTyped, CapInv, PRLoopTypeOK, At,
                                                  markers, SetLoop, SpawnReviewer
<1>9. CreditInv'
  <2>1. UNCHANGED <<seenIds, approvals, patches>>
    BY DEF markers, SpawnReviewer
  <2> QED
    BY <1>0, <1>5, <1>6, <2>1, CreditSame DEF patches, At, Actors, Deliverers
<1> QED
  BY <1>1, <1>2, <1>3, <1>4, <1>6, <1>7, <1>8, <1>9 DEF LoopInv, PRLoopTypeOK

-----------------------------------------------------------------------------
(* A handler that breaks off writes nothing. *)
LEMMA BreaksStep ==
  ASSUME LoopInv, NEW a \in Actors, Breaks(a)
  PROVE  LoopInv'
<1>0. PRLoopTypeOK /\ CallInv /\ LinkInv /\ CapInv /\ CreditInv
  BY DEF LoopInv
<1>1. MarkersTyped' /\ MonitorTyped' /\ settled' \subseteq Requests
  BY <1>0 DEF PRLoopTypeOK, MarkersTyped, markers, MonitorTyped, monitor, Breaks
<1>2. RunsTyped'
  BY <1>0 DEF PRLoopTypeOK, RunsTyped, Breaks
<1>3. PatchesTyped'
  <2>1. breaks' \in Nat /\ overlaps' \in Nat /\ overlaps' + breaks' <= MaxMishaps
    BY <1>0, LoopAssumption DEF PRLoopTypeOK, PatchesTyped, Breaks
  <2>2. copy' = [copy EXCEPT ![a] = NoCopy] /\ UNCHANGED <<acted, resumed>>
    BY DEF Breaks
  <2> QED
    BY <1>0, <2>1, <2>2 DEF PRLoopTypeOK, PatchesTyped, NoCopy
<1>4. orphaned' \subseteq Rounds
  <2>1. At(a, "spawn") => call[a].on \in Rounds
    BY <1>0 DEF CallInv, At, Actors, Deliverers, DeliverySteps
  <2> QED
    BY <1>0, <2>1, Bounds DEF PRLoopTypeOK, Breaks
<1>5. Goto(a, "idle", 0) /\ UNCHANGED approvals
  BY DEF Breaks, markers
<1>6. CallTyped' /\ CallInv'
  <2>1. CASE a = "loop"
    BY <1>0, <1>5, <2>1, LoopMoves, Bounds DEF PRLoopTypeOK
  <2>2. CASE a \in Deliverers
    BY <1>0, <1>5, <2>2, DeliveryMoves DEF PRLoopTypeOK
  <2> QED
    BY <2>1, <2>2 DEF Actors, Deliverers
<1>7. /\ \A b \in Actors : call'[b] = call[b] \/ call'[b].step = "idle"
      /\ call'[a].step = "idle"
  BY <1>0, <1>5 DEF Goto, PRLoopTypeOK, CallTyped, Actors
<1>8. LinkInv'
  BY <1>0, <1>7 DEF LinkInv, At, Actors, Deliverers, markers, Breaks
<1>9. CapInv'
  <2>1. Room' = Room
    BY <1>0, RoomSame DEF Breaks
  <2>2. round' = round /\ loopState' = loopState
    BY DEF markers, Breaks
  <2> QED
    BY <1>0, <1>7, <2>1, <2>2 DEF CapInv, At, Actors
<1>10. CreditInv'
  <2>1. \A b \in Actors \ {a} : copy'[b] = copy[b] /\ call'[b] = call[b]
    BY <1>0, <1>5 DEF Breaks, Goto, PRLoopTypeOK, PatchesTyped, CallTyped
  <2>2. UNCHANGED <<seenIds, approvals, acted, resumed, overlaps>>
    BY DEF Breaks, markers
  <2> QED
    BY <1>0, <1>7, <2>1, <2>2, CreditSame DEF At, Actors, Deliverers
<1> QED
  BY <1>1, <1>2, <1>3, <1>4, <1>6, <1>8, <1>9, <1>10 DEF LoopInv, PRLoopTypeOK

(* The runs and the people leave markers and handlers alone. *)
LEMMA AroundStep ==
  ASSUME LoopInv, Around,
         reviewer' \in [Rounds -> Completed \cup {"absent", "running", "cancelled"}],
         \A r \in Rounds : reviewer[r] = "absent" => reviewer'[r] = "absent",
         phase' \in Wakeable \cup {"running", "cancelled"},
         wake' \in BOOLEAN, enabled' \in BOOLEAN
  PROVE  LoopInv'
<1>0. PRLoopTypeOK /\ CallInv /\ LinkInv /\ CapInv /\ CreditInv
  BY DEF LoopInv
<1>1. MarkersTyped' /\ MonitorTyped' /\ CallTyped' /\ CallInv'
  BY <1>0 DEF Around, PRLoopTypeOK, MarkersTyped, markers, MonitorTyped, monitor, CallTyped,
              CallInv
<1>2. RunsTyped'
  BY <1>0 DEF Around, PRLoopTypeOK, RunsTyped
<1>3. PatchesTyped' /\ orphaned' \subseteq Rounds /\ settled' \subseteq Requests
  BY <1>0 DEF Around, PRLoopTypeOK, PatchesTyped, patches, prHist
<1>4. LinkInv'
  <2>1. reviewer = [r \in Rounds |-> "absent"] => reviewer' = [r \in Rounds |-> "absent"]
    OBVIOUS
  <2> QED
    BY <1>0, <2>1 DEF LinkInv, At, Around, markers
<1>5. CapInv'
  <2>1. Room' = Room
    BY <1>0, RoomSame DEF patches, Around
  <2> QED
    BY <1>0, <2>1 DEF CapInv, At, Around, markers
<1>6. CreditInv'
  BY <1>0, CreditSame DEF Around, markers, patches, At
<1> QED
  BY <1>1, <1>2, <1>3, <1>4, <1>5, <1>6 DEF LoopInv, PRLoopTypeOK

(* The runs and people around the loop keep the invariant. *)
LEMMA RunsStep ==
  ASSUME LoopInv, RunsMove \/ CancelImplementer \/ DisablePolicy
  PROVE  LoopInv'
<1>0. RunsTyped
  BY DEF LoopInv, PRLoopTypeOK
<1>1. ASSUME NEW r \in Rounds, ReviewerEnds(r) PROVE LoopInv'
  <2>1. reviewer' \in [Rounds -> Completed \cup {"absent", "running", "cancelled"}]
    BY <1>0, <1>1 DEF ReviewerEnds, RunsTyped
  <2>2. \A q \in Rounds : reviewer[q] = "absent" => reviewer'[q] = "absent"
    BY <1>0, <1>1 DEF ReviewerEnds, RunsTyped
  <2> QED
    BY <1>0, <1>1, <2>1, <2>2, AroundStep DEF ReviewerEnds, RunsTyped
<1>2. CASE ImplementerEnds
  BY <1>0, <1>2, AroundStep DEF ImplementerEnds, RunsTyped
<1>3. CASE StartAttempt
  BY <1>0, <1>3, AroundStep DEF StartAttempt, RunsTyped
<1>4. CASE CancelImplementer
  BY <1>0, <1>4, AroundStep DEF CancelImplementer, RunsTyped
<1>5. CASE DisablePolicy
  BY <1>0, <1>5, AroundStep DEF DisablePolicy, RunsTyped
<1> QED
  BY <1>1, <1>2, <1>3, <1>4, <1>5 DEF RunsMove

-----------------------------------------------------------------------------
(* The new loop satisfies the invariant, and every step keeps it. *)
LEMMA LoopInitInv == PRLoopInit => LoopInv
<1> SUFFICES ASSUME PRLoopInit PROVE LoopInv
  OBVIOUS
<1> USE LoopAssumption DEF PRLoopInit
<1>1. PRLoopTypeOK
  <2>1. MarkersTyped
    BY Bounds DEF MarkersTyped
  <2>2. RunsTyped
    BY Zenon DEF RunsTyped, Wakeable
  <2>3. MonitorTyped
    BY Bounds DEF MonitorTyped
  <2>4. CallTyped
    BY Bounds DEF CallTyped, Actors, HandlerSteps
  <2>5. PatchesTyped
    BY DEF PatchesTyped, NoCopy
  <2> QED
    BY <2>1, <2>2, <2>3, <2>4, <2>5 DEF PRLoopTypeOK
<1>2. CallInv
  BY DEF CallInv, Actors, Deliverers
<1>3. LinkInv
  BY DEF LinkInv, At, Actors, Deliverers
<1>4. CapInv
  BY <1>1, RoomAboveCap DEF CapInv, At, Actors
<1>5. CreditInv
  <2>1. Asked \in SUBSET Events
    BY <1>1 DEF PRLoopTypeOK, MarkersTyped, Asked
  <2>2. Cardinality(Asked) \in Nat
    BY <2>1, EventCount
  <2> QED
    BY <2>2 DEF CreditInv, At, Actors, Deliverers
<1> QED
  BY <1>1, <1>2, <1>3, <1>4, <1>5 DEF LoopInv

(* Every step keeps the invariant. *)
LEMMA LoopNextInv ==
  ASSUME LoopInv, PRLoopNext
  PROVE  LoopInv'
<1>1. CASE LoopReconciles
  BY <1>1, OnImplementerRunCompletedStep, OnReviewerRunCompletedStep DEF LoopReconciles
<1>2. CASE LoopWork
  BY <1>2, AcceptStep, BlockStep, EscalateStep, ReworkStep, SendMessageStep,
     MarkVerdictHandledStep, StartRoundStep, SpawnReviewerStep DEF LoopWork
<1>3. CASE Deliveries \/ PollDelivers
  BY <1>3, HandlePROpenedStep, HandleFeedbackStep, PollOpenedStep, PollFeedbackStep
     DEF Deliveries, HookOpened, HookFeedback, PollDelivers, Deliverers
<1>4. ASSUME NEW a \in Deliverers, Handle(a) PROVE LoopInv'
  BY <1>4, LinkStep, FirstReviewStep, ReadFeedbackStep, ReadApprovalStep, PatchFeedbackStep DEF Handle
<1>5. CASE RunsMove \/ CancelImplementer \/ DisablePolicy
  BY <1>5, RunsStep
<1>6. ASSUME NEW a \in Actors, Breaks(a) PROVE LoopInv'
  BY <1>6, BreaksStep
<1> QED
  BY <1>1, <1>2, <1>3, <1>4, <1>5, <1>6 DEF PRLoopNext, Deliverers

(* So does a step of anything else. *)
LEMMA LoopStutterInv ==
  ASSUME LoopInv, UNCHANGED prVars
  PROVE  LoopInv'
<1>1. Room' = Room
  BY DEF prVars, patches, Room
<1>2. PRLoopTypeOK'
  BY DEF LoopInv, prVars, markers, runs, monitor, patches, prHist, PRLoopTypeOK, MarkersTyped,
         RunsTyped, MonitorTyped, CallTyped, PatchesTyped
<1>3. CallInv' /\ LinkInv' /\ CapInv'
  BY <1>1 DEF LoopInv, prVars, markers, runs, CallInv, LinkInv, CapInv, At
<1>4. CreditInv'
  BY CreditSame DEF LoopInv, prVars, markers, patches, At
<1> QED
  BY <1>2, <1>3, <1>4 DEF LoopInv

(* The invariant holds in every reachable state of the loop (prloop.go). *)
THEOREM LoopInvariant == PRLoopSpec => []LoopInv
<1>1. LoopInv /\ [PRLoopNext]_prVars => LoopInv'
  BY LoopNextInv, LoopStutterInv
<1> QED
  BY <1>1, LoopInitInv, PTL DEF PRLoopSpec

(* Markers, runs, monitor and handlers stay well typed (prloop.go's labels *)
(* and annotations, PullRequestMonitorStatus).                             *)
THEOREM LoopTypes == PRLoopSpec => []PRLoopTypeOK
<1>1. LoopInv => PRLoopTypeOK
  BY DEF LoopInv
<1> QED
  BY <1>1, LoopInvariant, PTL

(* The cap of prloop.go holds for every number of handlers broken off and  *)
(* every amount of feedback: a round past maxRounds was asked for by a     *)
(* piece of feedback on record, or by an overlap of two deliveries.        *)
THEOREM RoundCap == PRLoopSpec => []RoundsBounded
<1>1. LoopInv => RoundsBounded
  BY DEF LoopInv, CapInv, CreditInv, Room, RoundsBounded
<1> QED
  BY <1>1, LoopInvariant, PTL

-----------------------------------------------------------------------------
(* What a handled request rests on: a verdict is marked after it settled,  *)
(* an event is recorded in the write that settles it, no copy holds others *)
(* than have been recorded, and the monitor's cursor moves to the event    *)
(* its own delivery was about.                                             *)
SettledInv ==
  /\ VerdictsTookEffect /\ FeedbackTookEffect
  /\ call["loop"].step \in {"mark", "escalate"} => Review(call["loop"].on) \in settled
  /\ \A e \in seenIds : Event(e) \in settled
  /\ \A a \in Deliverers : At(a, "patch") => \A e \in copy[a].ids : Event(e) \in settled
  /\ call["poll"].step \in {"approve", "resolve", "patch"} => call["poll"].on = cursor + 1
  /\ call["poll"].step \in {"link", "first", "open"} => call["poll"].on = Opened

(* A delivery returns: the cursor passes only what has settled. *)
LEMMA SettledReturn ==
  ASSUME LoopInv, SettledInv, NEW a \in Deliverers, NEW handled, NEW n \in 0..NumEvents,
         Return(a, handled, n), verdictHandled' = verdictHandled,
         settled \subseteq settled', \A e \in seenIds' : Event(e) \in settled',
         \A b \in Deliverers \ {a} : copy'[b].ids = copy[b].ids,
         a = "poll" /\ n # Opened => n = cursor + 1 /\ Event(n) \in settled'
  PROVE  SettledInv'
<1>0. CallTyped /\ cursor \in Nat
  BY DEF LoopInv, PRLoopTypeOK, MonitorTyped
<1>1. /\ call'[a].step = "idle"
      /\ \A b \in Actors \ {a} : call'[b] = call[b]
  BY <1>0 DEF Return, Goto, CallTyped, Actors, Deliverers
<1>2. cursor' = cursor \/ (a = "poll" /\ n # Opened /\ cursor' = n)
  BY DEF Return, monitor, Deliverers
<1>3. cursor' = cursor \/ a = "poll"
  BY <1>2
<1>4. FeedbackTookEffect'
  BY <1>0, <1>2 DEF SettledInv, FeedbackTookEffect
<1>5. VerdictsTookEffect'
  BY DEF SettledInv, VerdictsTookEffect
<1>6. \A b \in Deliverers : At(b, "patch")' => \A e \in copy'[b].ids : Event(e) \in settled'
  BY <1>1 DEF SettledInv, At, Actors, Deliverers
<1> QED
  BY <1>1, <1>3, <1>4, <1>5, <1>6 DEF SettledInv, Actors, Deliverers

(* A step that settles nothing and keeps the monitor where it is. *)
LEMMA SettledQuiet ==
  ASSUME SettledInv, CallTyped, NEW a \in Actors, NEW step, NEW n, Goto(a, step, n),
         cursor' = cursor, seenIds' = seenIds, settled \subseteq settled',
         \A r \in verdictHandled' : Review(r) \in settled',
         \A b \in Deliverers \ {a} : copy'[b].ids = copy[b].ids,
         a \in Deliverers /\ step = "patch" => copy'[a].ids = seenIds,
         a = "loop" /\ step \in {"mark", "escalate"} => Review(n) \in settled',
         a = "poll" /\ step \in {"approve", "resolve", "patch"} => n = cursor + 1,
         a = "poll" /\ step \in {"link", "first", "open"} => n = Opened
  PROVE  SettledInv'
<1>1. /\ call'[a] = [step |-> step, on |-> n]
      /\ \A b \in Actors \ {a} : call'[b] = call[b]
  BY DEF Goto, CallTyped, Actors
<1>2. FeedbackTookEffect' /\ VerdictsTookEffect'
  BY DEF SettledInv, FeedbackTookEffect, VerdictsTookEffect
<1>3. call'["loop"].step \in {"mark", "escalate"} => Review(call'["loop"].on) \in settled'
  BY <1>1 DEF SettledInv, Actors
<1>4. /\ call'["poll"].step \in {"approve", "resolve", "patch"} => call'["poll"].on = cursor' + 1
      /\ call'["poll"].step \in {"link", "first", "open"} => call'["poll"].on = Opened
  <2>1. CASE a = "poll"
    <3>1. call'["poll"].step = step /\ call'["poll"].on = n
      BY <1>1, <2>1
    <3>2. step \in {"approve", "resolve", "patch"} => n = cursor' + 1
      <4>1. cursor' + 1 = cursor + 1
        OBVIOUS
      <4> QED
        BY <2>1, <4>1
    <3>3. step \in {"link", "first", "open"} => n = Opened
      BY <2>1
    <3> QED
      BY <3>1, <3>2, <3>3
  <2>2. CASE a # "poll"
    <3>1. call'["poll"] = call["poll"]
      BY <1>1, <2>2 DEF Actors
    <3> QED
      BY <3>1 DEF SettledInv
  <2> QED
    BY <2>1, <2>2
<1>5. \A b \in Deliverers : At(b, "patch")' => \A e \in copy'[b].ids : Event(e) \in settled'
  <2>1. ASSUME NEW b \in Deliverers, At(b, "patch")', NEW e \in copy'[b].ids
        PROVE  Event(e) \in settled'
    <3>1. CASE b = a
      BY <1>1, <2>1, <3>1 DEF SettledInv, At
    <3>2. CASE b # a
      BY <1>1, <2>1, <3>2 DEF SettledInv, At, Actors, Deliverers
    <3> QED
      BY <3>1, <3>2
  <2> QED
    BY <2>1
<1> QED
  BY <1>2, <1>3, <1>4, <1>5 DEF SettledInv

(* Every step keeps what handled requests rest on. *)
LEMMA SettledNext ==
  ASSUME LoopInv, SettledInv, [PRLoopNext]_prVars
  PROVE  SettledInv'
<1>0. CallTyped /\ PRLoopTypeOK /\ CallInv
  BY DEF LoopInv, PRLoopTypeOK
<1>a. /\ "loop" \in Actors /\ Deliverers \subseteq Actors /\ "poll" \in Deliverers /\ "hook" \in Deliverers
      /\ "loop" \notin Deliverers
  BY DEF Actors, Deliverers
<1>b. /\ \A r \in verdictHandled : Review(r) \in settled
      /\ \A e \in seenIds : Event(e) \in settled
      /\ call["loop"].step \in {"mark", "escalate"} => Review(call["loop"].on) \in settled
  BY DEF SettledInv, VerdictsTookEffect
<1>1. CASE OnImplementerRunCompleted
  BY <1>0, <1>1, <1>a, <1>b, SettledQuiet DEF OnImplementerRunCompleted, markers, runs,
                                              monitor, patches, prHist
<1>2. ASSUME NEW r \in Rounds, OnReviewerRunCompleted(r) PROVE SettledInv'
  <2>1. AfterVerdict(r) = "mark" => loopState \in Terminal
    BY Zenon DEF AfterVerdict
  <2>2. AfterVerdict(r) # "escalate"
    BY Zenon DEF AfterVerdict
  <2>3. /\ Goto("loop", AfterVerdict(r), r) /\ settled \subseteq settled'
        /\ loopState \in Terminal => Review(r) \in settled'
        /\ UNCHANGED <<cursor, seenIds, verdictHandled, copy>>
    BY <1>2 DEF OnReviewerRunCompleted, markers, runs, monitor, patches
  <2> QED
    BY <1>0, <1>a, <1>b, <2>1, <2>2, <2>3, SettledQuiet
<1>3. CASE Accept \/ Block \/ Escalate \/ SendMessage
  <2>1. /\ Goto("loop", "mark", call["loop"].on) \/ Goto("loop", "escalate", call["loop"].on)
        /\ Review(call["loop"].on) \in settled' /\ settled \subseteq settled'
        /\ UNCHANGED <<cursor, seenIds, verdictHandled>>
    BY <1>3, <1>b DEF Accept, Block, Escalate, SendMessage, Settle, At, markers, runs,
                      monitor, prHist
  <2>2. \A b \in Deliverers : copy'[b].ids = copy[b].ids
    BY <1>0, <1>3 DEF Accept, Block, Escalate, SendMessage, Outdated, patches, PRLoopTypeOK,
                      PatchesTyped, Actors, Deliverers
  <2> QED
    BY <1>0, <1>a, <1>b, <2>1, <2>2, SettledQuiet
<1>4. CASE Rework
  <2>1. CASE phase = "cancelled"
    <3>1. /\ Goto("loop", "escalate", call["loop"].on)
          /\ Review(call["loop"].on) \in settled' /\ settled \subseteq settled'
          /\ UNCHANGED <<cursor, seenIds, verdictHandled, copy>>
      BY <1>4, <2>1 DEF Rework, Settle, runs, monitor, patches
    <3> QED
      BY <1>0, <1>a, <1>b, <3>1, SettledQuiet
  <2>2. CASE phase # "cancelled"
    <3>1. /\ Goto("loop", "wake", call["loop"].on) \/ Goto("loop", "tell", call["loop"].on)
          /\ UNCHANGED <<cursor, seenIds, verdictHandled, settled, copy>>
      BY <1>4, <2>2 DEF Rework, runs, monitor, patches
    <3> QED
      BY <1>0, <1>a, <1>b, <3>1, SettledQuiet
  <2> QED
    BY <2>1, <2>2
<1>5. CASE MarkVerdictHandled
  <2>1. /\ Goto("loop", "idle", 0) /\ UNCHANGED <<cursor, seenIds, settled, copy>>
        /\ verdictHandled' = verdictHandled \cup {call["loop"].on}
        /\ Review(call["loop"].on) \in settled
    BY <1>5, <1>b DEF MarkVerdictHandled, At, markers, monitor, patches, prHist
  <2> QED
    BY <1>0, <1>a, <1>b, <2>1, SettledQuiet
<1>6. CASE StartRound \/ SpawnReviewer
  <2>1. /\ Goto("loop", "spawn", call["loop"].on) \/ Goto("loop", "idle", 0)
        /\ UNCHANGED <<cursor, seenIds, settled, verdictHandled, copy>>
    BY <1>6 DEF StartRound, SpawnReviewer, markers, runs, monitor, patches, prHist
  <2> QED
    BY <1>0, <1>a, <1>b, <2>1, SettledQuiet
<1>7. ASSUME NEW a \in Deliverers, HandlePROpened(a) PROVE SettledInv'
  <2>1. CASE Continue(a, "link", Opened)
    BY <1>0, <1>7, <1>a, <1>b, <2>1, SettledQuiet
       DEF Continue, HandlePROpened, markers, runs, monitor, patches, prHist
  <2>2. CASE Return(a, enabled, Opened)
    BY <1>7, <1>b, <2>2, SettledReturn, Bounds DEF HandlePROpened, markers, runs, patches, prHist, Opened
  <2> QED
    BY <1>7, <2>1, <2>2 DEF HandlePROpened
<1>8. ASSUME NEW a \in Deliverers, Link(a) PROVE SettledInv'
  BY <1>0, <1>8, <1>a, <1>b, SettledQuiet DEF Link, Continue, runs, monitor, patches
<1>9. ASSUME NEW a \in Deliverers, FirstReview(a) PROVE SettledInv'
  BY <1>9, <1>b, SettledReturn, Bounds DEF FirstReview, markers, patches, prHist, Opened
<1>10. ASSUME NEW a \in Deliverers, NEW e \in Events, HandleFeedback(a, e), a = "poll" => e = cursor + 1
       PROVE SettledInv'
  <2>1. UNCHANGED <<seenIds, verdictHandled, copy>>
    BY <1>10 DEF HandleFeedback, markers, runs, patches
  <2>2. CASE loopState \in Terminal
    BY <1>10, <1>b, <2>1, <2>2, SettledReturn, Bounds DEF HandleFeedback, Settle
  <2>3. CASE loopState \notin Terminal /\ e \in seenIds
    BY <1>10, <1>b, <2>1, <2>3, SettledReturn, Bounds DEF HandleFeedback
  <2>4. CASE loopState \notin Terminal /\ e \notin seenIds
    <3>1. /\ Goto(a, "approve", e) \/ Goto(a, "resolve", e)
          /\ cursor' = cursor /\ settled' = settled
      BY <1>10, <2>4 DEF HandleFeedback, Continue, monitor
    <3>2. a # "loop"
      BY DEF Deliverers
    <3> QED
      BY <1>0, <1>10, <1>a, <1>b, <2>1, <3>1, <3>2, SettledQuiet
  <2> QED
    BY <2>2, <2>3, <2>4
<1>11. ASSUME NEW a \in Deliverers, ReadApproval(a) \/ ReadFeedback(a) PROVE SettledInv'
  <2> DEFINE e == call[a].on
  <2>1. e \in Events /\ (a = "poll" => e = cursor + 1)
    BY <1>0, <1>11 DEF ReadApproval, ReadFeedback, At, CallInv, SettledInv
  <2>2. UNCHANGED <<seenIds, settled, verdictHandled>>
    BY <1>11 DEF ReadApproval, ReadFeedback, markers, runs, prHist
  <2>3. CASE ReadCopy(a)
    <3>1. /\ Goto(a, "patch", e) /\ cursor' = cursor /\ copy'[a].ids = seenIds
          /\ \A b \in Deliverers \ {a} : copy'[b] = copy[b]
      BY <1>0, <2>3 DEF ReadCopy, Continue, monitor, PRLoopTypeOK, PatchesTyped, Actors, Deliverers
    <3> QED
      BY <1>0, <1>a, <1>b, <2>1, <2>2, <3>1, SettledQuiet
  <2>4. CASE Return(a, TRUE, e) /\ e \in seenIds /\ UNCHANGED patches
    BY <1>b, <2>1, <2>2, <2>4, SettledReturn, Bounds DEF patches
  <2> QED
    BY <1>11, <2>3, <2>4 DEF ReadApproval, ReadFeedback
<1>12. ASSUME NEW a \in Deliverers, PatchFeedback(a) PROVE SettledInv'
  <2> DEFINE e == call[a].on
  <2>1. e \in Events /\ (a = "poll" => e = cursor + 1)
    BY <1>0, <1>12 DEF PatchFeedback, At, CallInv, SettledInv
  <2>2. /\ Return(a, TRUE, e) /\ verdictHandled' = verdictHandled
        /\ seenIds' \in {seenIds, copy[a].ids \cup {e}} /\ settled' = settled \cup {Event(e)}
    BY <1>12 DEF PatchFeedback, Settle
  <2>3. \A b \in Deliverers \ {a} : copy'[b].ids = copy[b].ids
    BY <1>0, <1>12 DEF PatchFeedback, Outdated, PRLoopTypeOK, PatchesTyped, Actors, Deliverers
  <2>4. \A d \in copy[a].ids : Event(d) \in settled
    BY <1>12 DEF PatchFeedback, SettledInv
  <2> QED
    BY <1>b, <2>1, <2>2, <2>3, <2>4, SettledReturn, Bounds
<1>13. CASE PollOpened
  BY <1>0, <1>13, <1>a, <1>b, SettledQuiet DEF PollOpened, Continue, markers, runs, monitor,
                                               patches, prHist
<1>14. CASE PollFeedback
  <2>1. cursor + 1 \in Events
    BY <1>0, <1>14, LoopAssumption DEF PollFeedback, PRLoopTypeOK, MonitorTyped, Events
  <2>2. CASE HandleFeedback("poll", cursor + 1)
    BY <1>10, <1>a, <2>1, <2>2
  <2>3. CASE ~(active /\ enabled)
    <3>1. /\ Return("poll", FALSE, cursor + 1) /\ settled' = settled \cup {Event(cursor + 1)}
          /\ UNCHANGED <<seenIds, verdictHandled, copy>>
      BY <1>14, <2>3 DEF PollFeedback, Settle, markers, runs, patches
    <3> QED
      BY <1>a, <1>b, <2>1, <3>1, SettledReturn, Bounds
  <2> QED
    BY <1>14, <2>2, <2>3 DEF PollFeedback
<1>15. ASSUME NEW a \in Actors, Breaks(a) PROVE SettledInv'
  <2>1. \A b \in Deliverers \ {a} : copy'[b].ids = copy[b].ids
    BY <1>0, <1>15 DEF Breaks, PRLoopTypeOK, PatchesTyped, Actors, Deliverers
  <2> QED
    BY <1>0, <1>15, <1>b, <2>1, SettledQuiet DEF Breaks, markers, monitor
<1>16. CASE Around
  BY <1>16 DEF Around, SettledInv, VerdictsTookEffect, FeedbackTookEffect, At, markers, monitor,
               patches, prHist
<1>17. CASE UNCHANGED prVars
  BY <1>17 DEF prVars, SettledInv, VerdictsTookEffect, FeedbackTookEffect, At, markers, runs,
               monitor, patches, prHist
<1>18. CASE LoopReconciles \/ LoopWork
  BY <1>1, <1>2, <1>3, <1>4, <1>5, <1>6, <1>18 DEF LoopReconciles, LoopWork
<1>19. CASE Deliveries \/ PollDelivers
  <2>1. CASE HookOpened \/ PollDelivers
    BY <1>7, <1>a, <2>1 DEF HookOpened, PollDelivers
  <2>2. ASSUME NEW e \in Events, HookFeedback(e) PROVE SettledInv'
    BY <1>10, <1>a, <2>2 DEF HookFeedback
  <2> QED
    BY <1>13, <1>14, <1>19, <2>1, <2>2 DEF Deliveries
<1>20. ASSUME NEW a \in Deliverers, Handle(a) PROVE SettledInv'
  BY <1>8, <1>9, <1>11, <1>12, <1>20 DEF Handle
<1>21. CASE RunsMove \/ CancelImplementer \/ DisablePolicy
  BY <1>16, <1>21 DEF RunsMove, ReviewerEnds, ImplementerEnds, StartAttempt,
                      CancelImplementer, DisablePolicy
<1> QED
  BY <1>15, <1>17, <1>18, <1>19, <1>20, <1>21 DEF PRLoopNext, Deliverers

(* Both invariants hold in every reachable state. *)
LEMMA SettledInvariant == PRLoopSpec => [](LoopInv /\ SettledInv)
<1>1. PRLoopInit => SettledInv
  BY LoopAssumption DEF PRLoopInit, SettledInv, VerdictsTookEffect, FeedbackTookEffect, At,
                        Actors, Deliverers, Opened
<1>2. LoopInv /\ SettledInv /\ [PRLoopNext]_prVars => SettledInv'
  BY SettledNext
<1> QED
  BY <1>1, <1>2, LoopInvariant, PTL DEF PRLoopSpec

(* A verdict marked as handled, and the feedback behind the monitor's      *)
(* cursor, took effect, whatever broke off.                                *)
THEOREM HandledSettles == PRLoopSpec => []HandledTookEffect
<1>1. LoopInv /\ SettledInv => HandledTookEffect
  BY DEF SettledInv, HandledTookEffect
<1> QED
  BY <1>1, SettledInvariant, PTL

-----------------------------------------------------------------------------
(* Only Block writes the blocked state, and it leaves the question due; no *)
(* step but the escalation, or the break of it, moves on from there.       *)
LEMMA BlockNext ==
  ASSUME LoopInv, BlockIsSurfaced, [PRLoopNext]_prVars
  PROVE  BlockIsSurfaced'
<1>0. CallTyped /\ CallInv
  BY DEF LoopInv, PRLoopTypeOK
<1>1. CASE Block
  <2>1. At("loop", "escalate")'
    BY <1>0, <1>1 DEF Block, Goto, At, CallTyped, Actors
  <2> QED
    BY <2>1 DEF BlockIsSurfaced
<1>2. CASE Escalate
  BY <1>2 DEF Escalate, BlockIsSurfaced
<1>3. ASSUME NEW a \in Actors, Breaks(a) PROVE BlockIsSurfaced'
  <2>1. loopState' = loopState /\ call'["loop"] \in {call["loop"], [step |-> "idle", on |-> 0]}
    BY <1>0, <1>3 DEF Breaks, Goto, markers, CallTyped, Actors
  <2>2. CASE At(a, "escalate")
    BY <1>3, <2>2 DEF Breaks, BlockIsSurfaced
  <2>3. CASE ~At(a, "escalate")
    <3>1. surfaced' = surfaced /\ (At("loop", "escalate") => At("loop", "escalate")')
      BY <1>0, <1>3, <2>3 DEF Breaks, Goto, At, CallTyped, Actors
    <3> QED
      BY <2>1, <3>1 DEF BlockIsSurfaced
  <2> QED
    BY <2>2, <2>3
<1>4. ASSUME surfaced' = surfaced, loopState' = "blocked" => loopState = "blocked",
             At("loop", "escalate") => At("loop", "escalate")'
      PROVE  BlockIsSurfaced'
  BY <1>4 DEF BlockIsSurfaced
<1>5. ASSUME NEW a \in Deliverers, NEW step, NEW n, Goto(a, step, n)
      PROVE  call'["loop"] = call["loop"]
  BY <1>0, <1>5 DEF Goto, CallTyped, Actors, Deliverers
<1>6. CASE LoopReconciles
  <2>1. ~At("loop", "escalate") /\ surfaced' = surfaced /\ loopState' = loopState
    BY <1>6 DEF LoopReconciles, OnImplementerRunCompleted, OnReviewerRunCompleted, At,
                markers, runs
  <2> QED
    BY <1>4, <2>1
<1>7. CASE Accept \/ Rework \/ SendMessage \/ MarkVerdictHandled \/ StartRound \/ SpawnReviewer
  <2>1. /\ ~At("loop", "escalate") /\ surfaced' = surfaced
        /\ loopState' = "blocked" => loopState = "blocked"
    BY <1>7 DEF Accept, Rework, SendMessage, MarkVerdictHandled, StartRound, SpawnReviewer, At,
                SetLoop, markers, runs
  <2> QED
    BY <1>4, <2>1
<1>8. ASSUME NEW a \in Deliverers, HandlePROpened(a) \/ Handle(a) PROVE BlockIsSurfaced'
  <2>1. surfaced' = surfaced /\ (loopState' = "blocked" => loopState = "blocked")
    BY <1>8 DEF HandlePROpened, Handle, Link, FirstReview, ReadApproval, ReadFeedback,
                PatchFeedback, SetLoop, markers, runs
  <2>2. \E step, n : Goto(a, step, n)
    BY <1>8 DEF HandlePROpened, Handle, Link, FirstReview, ReadApproval, ReadFeedback,
                PatchFeedback, ReadCopy, Return, Continue
  <2> QED
    BY <1>4, <1>5, <2>1, <2>2 DEF At
<1>9. ASSUME NEW a \in Deliverers, NEW e, HandleFeedback(a, e) PROVE BlockIsSurfaced'
  <2>1. surfaced' = surfaced /\ loopState' = loopState /\ \E step, n : Goto(a, step, n)
    BY <1>9 DEF HandleFeedback, Return, Continue, markers, runs
  <2> QED
    BY <1>4, <1>5, <2>1 DEF At
<1>10. CASE PollOpened
  BY <1>4, <1>5, <1>10 DEF PollOpened, Continue, At, markers, runs, Deliverers
<1>11. CASE PollFeedback
  <2>1. CASE HandleFeedback("poll", cursor + 1)
    BY <1>9, <2>1 DEF Deliverers
  <2>2. CASE ~(active /\ enabled)
    BY <1>4, <1>5, <1>11, <2>2 DEF PollFeedback, Return, At, markers, runs, Deliverers
  <2> QED
    BY <1>11, <2>1, <2>2 DEF PollFeedback
<1>12. CASE Around \/ UNCHANGED prVars
  BY <1>4, <1>12 DEF Around, prVars, At, markers, runs
<1>13. CASE LoopWork
  BY <1>1, <1>2, <1>7, <1>13 DEF LoopWork
<1>14. CASE Deliveries \/ PollDelivers
  BY <1>8, <1>9, <1>10, <1>11, <1>14 DEF Deliveries, PollDelivers, HookOpened, HookFeedback,
                                         Deliverers
<1>15. CASE RunsMove \/ CancelImplementer \/ DisablePolicy
  BY <1>12, <1>15 DEF RunsMove, ReviewerEnds, ImplementerEnds, StartAttempt,
                      CancelImplementer, DisablePolicy
<1> QED
  BY <1>3, <1>6, <1>8, <1>12, <1>13, <1>14, <1>15 DEF PRLoopNext, Deliverers

(* "A crashed reviewer must not block the loop silently" (prloop.go:299):  *)
(* every block is put to the user or its very escalation broke off.        *)
THEOREM BlocksAreSurfaced == PRLoopSpec => []BlockIsSurfaced
<1>1. PRLoopInit => BlockIsSurfaced
  BY DEF PRLoopInit, BlockIsSurfaced
<1>2. LoopInv /\ BlockIsSurfaced /\ [PRLoopNext]_prVars => BlockIsSurfaced'
  BY BlockNext
<1> QED
  BY <1>1, <1>2, LoopInvariant, PTL DEF PRLoopSpec

-----------------------------------------------------------------------------
(* A round waits for its reviewer only while its handler is at it.         *)
HasReviewer(r) ==
  \/ reviewer[r] # "absent" \/ r \in orphaned
  \/ r = 1 /\ \E a \in Deliverers : At(a, "first")
  \/ At("loop", "spawn") /\ call["loop"].on = r

ReviewedInv ==
  /\ \A r \in 1..round : HasReviewer(r)
  /\ At("loop", "next") => call["loop"].on <= round + 1 \/ orphaned = Rounds

(* Runs are never deleted here, and no actor leaves its step.              *)
LEMMA ReviewedKept ==
  ASSUME ReviewedInv, round \in Nat, round' = round, orphaned' = orphaned,
         \A r \in Rounds : reviewer[r] # "absent" => reviewer'[r] # "absent", 1..round \subseteq Rounds,
         \A a \in Deliverers : At(a, "first") => At(a, "first")',
         At("loop", "spawn") => At("loop", "spawn")' /\ call'["loop"].on = call["loop"].on,
         At("loop", "next")' => call'["loop"].on = round + 1 \/ call'["loop"] = call["loop"]
  PROVE  ReviewedInv'
<1>1. ASSUME NEW r \in 1..round, HasReviewer(r) PROVE HasReviewer(r)'
  BY <1>1 DEF HasReviewer
<1>2. \A r \in 1..round' : HasReviewer(r)'
  BY <1>1 DEF ReviewedInv
<1>3. At("loop", "next")' => call'["loop"].on <= round' + 1 \/ orphaned' = Rounds
  <2>1. SUFFICES ASSUME At("loop", "next")' PROVE call'["loop"].on <= round' + 1 \/ orphaned' = Rounds
    OBVIOUS
  <2>2. CASE call'["loop"].on = round + 1
    <3>1. call'["loop"].on = round' + 1
      BY <2>2
    <3>2. round + 1 <= round + 1
      OBVIOUS
    <3> QED
      BY <2>2, <3>1, <3>2
  <2>3. CASE call'["loop"] = call["loop"]
    BY <2>1, <2>3 DEF ReviewedInv, At
  <2> QED
    BY <2>1, <2>2, <2>3
<1> QED
  BY <1>2, <1>3 DEF ReviewedInv

(* Every step keeps each round supplied with its reviewer. *)
LEMMA ReviewedNext ==
  ASSUME LoopInv, ReviewedInv, [PRLoopNext]_prVars
  PROVE  ReviewedInv'
<1>0. /\ CallTyped /\ CallInv /\ round \in Nat /\ LinkInv
      /\ reviewer \in [Rounds -> Completed \cup {"absent", "running", "cancelled"}]
      /\ orphaned \subseteq Rounds /\ 1..round \subseteq Rounds /\ 1 \in Rounds
  BY Bounds DEF LoopInv, PRLoopTypeOK, MarkersTyped, RunsTyped, Rounds
<1>1. ASSUME NEW step, NEW n, Goto("loop", step, n), ~At("loop", "spawn"), UNCHANGED <<round, orphaned, reviewer>>,
             step = "next" => n = round + 1
      PROVE  ReviewedInv'
  <2>1. /\ call'["loop"] = [step |-> step, on |-> n]
        /\ \A b \in Deliverers : call'[b] = call[b]
    BY <1>0, <1>1 DEF Goto, CallTyped, Actors, Deliverers
  <2> QED
    BY <1>0, <1>1, <2>1, ReviewedKept DEF At
<1>2. ASSUME NEW a \in Deliverers, NEW step, NEW n, Goto(a, step, n), ~At(a, "first"),
             UNCHANGED <<round, orphaned, reviewer>>
      PROVE  ReviewedInv'
  <2>1. \A b \in Actors \ {a} : call'[b] = call[b]
    BY <1>0, <1>2 DEF Goto, CallTyped
  <2> QED
    BY <1>0, <1>2, <2>1, ReviewedKept DEF At, Actors, Deliverers
<1>3. CASE OnImplementerRunCompleted
  BY <1>1, <1>3 DEF OnImplementerRunCompleted, At, markers, runs, prHist
<1>4. ASSUME NEW r \in Rounds, OnReviewerRunCompleted(r) PROVE ReviewedInv'
  <2>1. AfterVerdict(r) # "next"
    BY Zenon DEF AfterVerdict
  <2> QED
    BY <1>1, <1>4, <2>1 DEF OnReviewerRunCompleted, At, markers, runs
<1>5. CASE Accept \/ Block \/ Escalate \/ Rework \/ SendMessage \/ MarkVerdictHandled
  BY <1>1, <1>5 DEF Accept, Block, Escalate, Rework, SendMessage, MarkVerdictHandled, At,
                    markers, runs, prHist
<1>6. CASE StartRound
  <2> DEFINE n == call["loop"].on
  <2>1. /\ round' = n /\ UNCHANGED <<orphaned, reviewer>> /\ At("loop", "next") /\ n \in Rounds
        /\ call'["loop"] = [step |-> "spawn", on |-> n]
        /\ \A b \in Deliverers : call'[b] = call[b]
    BY <1>0, <1>6 DEF StartRound, Goto, CallTyped, CallInv, Actors, Deliverers, At, runs, prHist
  <2>2. \A r \in 1..round : HasReviewer(r) => HasReviewer(r)'
    BY <2>1 DEF HasReviewer, At
  <2>3. HasReviewer(n)'
    BY <2>1 DEF HasReviewer, At
  <2>4. CASE orphaned = Rounds
    <3>1. \A r \in 1..round' : r \in orphaned'
      BY <2>1, <2>4, LoopAssumption DEF Rounds, LastRound
    <3> QED
      BY <2>1, <3>1 DEF ReviewedInv, HasReviewer, At
  <2>5. CASE orphaned # Rounds
    <3>1. n <= round + 1 /\ n \in Nat
      BY <2>1, <2>5, LoopAssumption DEF ReviewedInv, Rounds, LastRound
    <3>2. \A r \in 1..n : r \in 1..round \/ r = n
      BY <1>0, <3>1
    <3>3. \A r \in 1..round' : HasReviewer(r)'
      BY <2>1, <2>2, <2>3, <3>2 DEF ReviewedInv
    <3> QED
      BY <2>1, <3>3 DEF ReviewedInv, At
  <2> QED
    BY <2>4, <2>5
<1>7. CASE SpawnReviewer
  <2> DEFINE n == call["loop"].on
  <2>1. /\ UNCHANGED <<orphaned, round>> /\ n \in Rounds
        /\ call'["loop"].step = "idle"
        /\ \A b \in Deliverers : call'[b] = call[b]
    BY <1>0, <1>7 DEF SpawnReviewer, Goto, CallTyped, CallInv, Actors, Deliverers, At,
                      markers, prHist
  <2>2. reviewer'[n] # "absent" /\ \A r \in Rounds : reviewer[r] # "absent" => reviewer'[r] # "absent"
    BY <1>0, <1>7, <2>1 DEF SpawnReviewer, CreateReviewer
  <2>3. \A r \in 1..round : HasReviewer(r) => HasReviewer(r)'
    BY <1>0, <2>1, <2>2 DEF HasReviewer, At
  <2> QED
    BY <2>1, <2>3 DEF ReviewedInv, At
<1>8. ASSUME NEW a \in Deliverers, HandlePROpened(a), ~At(a, "first") PROVE ReviewedInv'
  BY <1>2, <1>8 DEF HandlePROpened, Return, Continue, markers, runs, prHist
<1>9. ASSUME NEW a \in Deliverers, Link(a) PROVE ReviewedInv'
  <2>1. /\ round' = 1 /\ UNCHANGED reviewer /\ call'[a].step = "first"
        /\ \A b \in Actors \ {a} : call'[b] = call[b]
    BY <1>0, <1>9 DEF Link, Continue, Goto, CallTyped, Actors, Deliverers, runs
  <2>2. HasReviewer(1)'
    BY <2>1 DEF HasReviewer, At
  <2>3. \A r \in 1..round' : HasReviewer(r)'
    <3>1. \A r \in 1..round' : r = 1
      BY <2>1
    <3> QED
      BY <2>2, <3>1
  <2>4. At("loop", "next")' => orphaned' = Rounds
    <3>1. call'["loop"] = call["loop"]
      BY <2>1 DEF Actors, Deliverers
    <3>2. At("loop", "next") => loopState # "none"
      BY <1>0 DEF LinkInv, At
    <3> QED
      BY <1>9, <3>1, <3>2 DEF Link, At
  <2> QED
    BY <2>3, <2>4 DEF ReviewedInv
<1>10. ASSUME NEW a \in Deliverers, FirstReview(a) PROVE ReviewedInv'
  <2>1. /\ UNCHANGED <<orphaned, round>> /\ call'["loop"] = call["loop"]
    BY <1>0, <1>10 DEF FirstReview, Return, Goto, CallTyped, Actors, Deliverers, markers, prHist
  <2>2. reviewer'[1] # "absent" /\ \A r \in Rounds : reviewer[r] # "absent" => reviewer'[r] # "absent"
    BY <1>0, <1>10 DEF FirstReview, CreateReviewer
  <2>3. \A r \in 1..round : HasReviewer(r) => HasReviewer(r)'
    BY <1>0, <2>1, <2>2 DEF HasReviewer, At
  <2> QED
    BY <2>1, <2>3 DEF ReviewedInv, At
<1>11. ASSUME NEW a \in Deliverers, NEW e, HandleFeedback(a, e), ~At(a, "first") PROVE ReviewedInv'
  BY <1>2, <1>11 DEF HandleFeedback, Return, Continue, markers, runs
<1>12. ASSUME NEW a \in Deliverers, ReadApproval(a) \/ ReadFeedback(a) \/ PatchFeedback(a) PROVE ReviewedInv'
  <2>1. ~At(a, "first") /\ UNCHANGED <<round, orphaned, reviewer>>
    BY <1>12 DEF ReadApproval, ReadFeedback, PatchFeedback, At, markers, runs, prHist
  <2>2. \E step, n : Goto(a, step, n)
    BY <1>12 DEF ReadApproval, ReadFeedback, PatchFeedback, ReadCopy, Return, Continue
  <2> QED
    BY <1>2, <2>1, <2>2
<1>13. CASE PollOpened
  BY <1>2, <1>13 DEF PollOpened, Continue, At, Deliverers, markers, runs, prHist
<1>14. CASE PollFeedback
  <2>1. CASE HandleFeedback("poll", cursor + 1)
    BY <1>11, <1>14, <2>1 DEF Deliverers, PollFeedback, At
  <2>2. CASE ~(active /\ enabled)
    BY <1>2, <1>14, <2>2 DEF PollFeedback, Return, At, Deliverers, markers, runs
  <2> QED
    BY <1>14, <2>1, <2>2 DEF PollFeedback
<1>15. ASSUME NEW a \in Actors, Breaks(a) PROVE ReviewedInv'
  <2>1. /\ UNCHANGED <<round, reviewer>> /\ orphaned \subseteq orphaned'
        /\ call'[a].step = "idle" /\ \A b \in Actors \ {a} : call'[b] = call[b]
    BY <1>0, <1>15 DEF Breaks, Goto, CallTyped, markers
  <2>2. At(a, "first") /\ reviewer[1] = "absent" => 1 \in orphaned'
    BY <1>15 DEF Breaks
  <2>3. At(a, "spawn") => call[a].on \in orphaned'
    BY <1>15 DEF Breaks, At
  <2>4. orphaned' \subseteq Rounds
    BY LoopNextInv, <1>15 DEF PRLoopNext, LoopInv, PRLoopTypeOK
  <2>5. \A r \in 1..round : HasReviewer(r) => HasReviewer(r)'
    BY <2>1, <2>2, <2>3 DEF HasReviewer, At, Actors, Deliverers
  <2>6. At("loop", "next")' => call'["loop"] = call["loop"]
    BY <2>1 DEF At, Actors
  <2> QED
    BY <1>0, <2>1, <2>4, <2>5, <2>6 DEF ReviewedInv, At
<1>16. ASSUME Around, \A r \in Rounds : reviewer[r] # "absent" => reviewer'[r] # "absent"
       PROVE  ReviewedInv'
  BY <1>0, <1>16, ReviewedKept DEF Around, markers, prHist, At
<1>17. CASE UNCHANGED prVars
  BY <1>0, <1>17, ReviewedKept DEF prVars, markers, runs, prHist, At
<1>18. CASE LoopReconciles \/ LoopWork
  BY <1>3, <1>4, <1>5, <1>6, <1>7, <1>18 DEF LoopReconciles, LoopWork
<1>19. CASE Deliveries \/ PollDelivers
  <2>1. CASE HookOpened \/ PollDelivers
    BY <1>8, <2>1 DEF HookOpened, PollDelivers, At, Deliverers
  <2>2. ASSUME NEW e \in Events, HookFeedback(e) PROVE ReviewedInv'
    BY <1>11, <2>2 DEF HookFeedback, At, Deliverers
  <2> QED
    BY <1>13, <1>14, <1>19, <2>1, <2>2 DEF Deliveries
<1>20. ASSUME NEW a \in Deliverers, Handle(a) PROVE ReviewedInv'
  BY <1>9, <1>10, <1>12, <1>20 DEF Handle
<1>21. CASE RunsMove \/ CancelImplementer \/ DisablePolicy
  <2>1. ASSUME NEW r \in Rounds, ReviewerEnds(r) PROVE ReviewedInv'
    <3>1. \A q \in Rounds : reviewer[q] # "absent" => reviewer'[q] # "absent"
      BY <1>0, <2>1 DEF ReviewerEnds, Completed
    <3> QED
      BY <1>16, <2>1, <3>1 DEF ReviewerEnds
  <2> QED
    BY <1>16, <1>21, <2>1 DEF RunsMove, ImplementerEnds, StartAttempt, CancelImplementer,
                              DisablePolicy
<1> QED
  BY <1>15, <1>17, <1>18, <1>19, <1>20, <1>21 DEF PRLoopNext, Deliverers

(* Every round up to the current one got its reviewer, except for a break  *)
(* between the markers and the run or a second link of the loop.           *)
THEOREM NoRoundSkipped == PRLoopSpec => []RoundsHaveReviewers
<1>1. PRLoopInit => ReviewedInv
  BY DEF PRLoopInit, ReviewedInv, At, Actors
<1>2. LoopInv /\ ReviewedInv /\ [PRLoopNext]_prVars => ReviewedInv'
  BY ReviewedNext
<1>3. ReviewedInv => RoundsHaveReviewers
  BY DEF ReviewedInv, HasReviewer, RoundsHaveReviewers, Deliverers
<1> QED
  BY <1>1, <1>2, <1>3, LoopInvariant, PTL DEF PRLoopSpec
-----------------------------------------------------------------------------
(* ReviewLoop.  A decision is acted on later, so its grounds must still     *)
(* hold by then: a verdict is final, and the round moves under a decision   *)
(* of the reconciler only if the loop is linked once more.                  *)
CapReached == round >= MaxRounds \/ orphaned = Rounds
DecidedInv ==
  /\ At("loop", "accept") => reviewer[call["loop"].on] = "approve"
  /\ At("loop", "rework") => reviewer[call["loop"].on] = "changes" /\ round < MaxRounds
  /\ At("loop", "block") =>
       \/ reviewer[call["loop"].on] = "failed"
       \/ reviewer[call["loop"].on] = "changes" /\ CapReached
  /\ At("loop", "next") => call["loop"].on = round + 1 \/ orphaned = Rounds

WritingSteps == {"link", "accept", "block", "rework", "approve", "resolve", "patch", "next"}

(* Nothing that happens elsewhere takes the grounds away. *)
LEMMA DecidedKept ==
  ASSUME DecidedInv, round' = round,
         orphaned \subseteq orphaned', orphaned' \subseteq Rounds,
         \A r \in Rounds : reviewer[r] \in Completed => reviewer'[r] = reviewer[r],
         call'["loop"] = call["loop"] \/ call'["loop"].step \notin {"accept", "rework", "block", "next"},
         call["loop"].step = "idle" \/ call["loop"].on \in Rounds
  PROVE  DecidedInv'
<1>1. orphaned = Rounds => orphaned' = Rounds
  OBVIOUS
<1>3. CASE call'["loop"].step \notin {"accept", "rework", "block", "next"}
  BY <1>3 DEF DecidedInv, At
<1>4. CASE call'["loop"] = call["loop"] /\ call["loop"].step = "idle"
  BY <1>4 DEF DecidedInv, At
<1>5. CASE call'["loop"] = call["loop"] /\ call["loop"].on \in Rounds
  <2> DEFINE r == call["loop"].on
  <2>1. reviewer[r] \in Completed => reviewer'[r] = reviewer[r]
    BY <1>5
  <2>2. CapReached => CapReached'
    BY <1>1 DEF CapReached
  <2>3. At("loop", "accept")' => reviewer'[r] = "approve"
    BY <1>5, <2>1 DEF DecidedInv, At, Completed
  <2>4. At("loop", "rework")' => reviewer'[r] = "changes" /\ round' < MaxRounds
    BY <1>5, <2>1 DEF DecidedInv, At, Completed
  <2>5. At("loop", "block")' => reviewer'[r] = "failed" \/ (reviewer'[r] = "changes" /\ CapReached')
    BY <1>5, <2>1, <2>2 DEF DecidedInv, At, Completed
  <2>6. At("loop", "next")' => r = round' + 1 \/ orphaned' = Rounds
    BY <1>1, <1>5 DEF DecidedInv, At
  <2> QED
    BY <1>5, <2>3, <2>4, <2>5, <2>6 DEF DecidedInv
<1> QED
  BY <1>3, <1>4, <1>5

(* A step of the reconciler that decides nothing, or on grounds it has. *)
LEMMA LoopDecides ==
  ASSUME LoopInv, DecidedInv, NEW step, NEW n, Goto("loop", step, n),
         UNCHANGED <<round, orphaned, reviewer>>,
         step = "accept" => reviewer[n] = "approve",
         step = "rework" => reviewer[n] = "changes" /\ round < MaxRounds,
         step = "block"  => reviewer[n] = "failed" \/ (reviewer[n] = "changes" /\ CapReached),
         step = "next"   => n = round + 1 \/ orphaned = Rounds
  PROVE  DecidedInv'
<1>1. /\ call'["loop"] = [step |-> step, on |-> n]
      /\ \A b \in Deliverers : call'[b] = call[b]
  BY DEF Goto, LoopInv, PRLoopTypeOK, CallTyped, Actors, Deliverers
<1> QED
  BY <1>1 DEF DecidedInv, At, CapReached

(* Every step leaves decisions their grounds. *)
LEMMA DecidedNext ==
  ASSUME LoopInv, DecidedInv, [PRLoopNext]_prVars
  PROVE  DecidedInv'
<1>0. /\ CallTyped /\ CallInv /\ round \in Nat /\ LinkInv
      /\ reviewer \in [Rounds -> Completed \cup {"absent", "running", "cancelled"}]
      /\ orphaned \subseteq Rounds
  BY Bounds DEF LoopInv, PRLoopTypeOK, MarkersTyped, RunsTyped
<1>1. call["loop"].step = "idle" \/ call["loop"].on \in Rounds
  BY <1>0 DEF CallInv
<1>2. ASSUME NEW a \in Deliverers, NEW step, NEW n, Goto(a, step, n),
             UNCHANGED <<round, orphaned, reviewer>>
      PROVE  DecidedInv'
  <2>1. call'[a] = [step |-> step, on |-> n] /\ \A b \in Actors \ {a} : call'[b] = call[b]
    BY <1>0, <1>2 DEF Goto, CallTyped, Actors, Deliverers
  <2>2. call'["loop"] = call["loop"]
    BY <2>1 DEF Actors, Deliverers
  <2> QED
    BY <1>0, <1>1, <1>2, <2>2, DecidedKept
<1>3. CASE OnImplementerRunCompleted
  BY <1>3, LoopDecides DEF OnImplementerRunCompleted, markers, runs, prHist
<1>4. ASSUME NEW r \in Rounds, OnReviewerRunCompleted(r) PROVE DecidedInv'
  <2>1. /\ Goto("loop", AfterVerdict(r), r) /\ reviewer[r] \in Completed
        /\ UNCHANGED <<round, orphaned, reviewer>>
    BY <1>4 DEF OnReviewerRunCompleted, markers, runs
  <2>2. MaxRounds \in Nat /\ (round < MaxRounds \/ round >= MaxRounds)
    BY <1>0, LoopAssumption
  <2>3. /\ AfterVerdict(r) = "accept" => reviewer[r] = "approve"
        /\ AfterVerdict(r) = "rework" => reviewer[r] = "changes" /\ round < MaxRounds
        /\ AfterVerdict(r) = "block"  => reviewer[r] = "failed" \/ (reviewer[r] = "changes" /\ CapReached)
        /\ AfterVerdict(r) # "next"
    BY <1>0, <2>1, <2>2 DEF AfterVerdict, Completed, CapReached
  <2> QED
    BY <2>1, <2>3, LoopDecides
<1>5. CASE Accept \/ Block \/ Escalate \/ Rework \/ SendMessage \/ MarkVerdictHandled
  <2>1. PICK step, n : Goto("loop", step, n) /\ step \in {"idle", "mark", "escalate", "wake", "tell"}
    BY <1>5 DEF Accept, Block, Escalate, Rework, SendMessage, MarkVerdictHandled
  <2>2. UNCHANGED <<round, orphaned, reviewer>>
    BY <1>5 DEF Accept, Block, Escalate, Rework, SendMessage, MarkVerdictHandled, markers, runs, prHist
  <2> QED
    BY <2>1, <2>2, LoopDecides
<1>6. ASSUME NEW step \in {"spawn", "idle"}, NEW n, Goto("loop", step, n)
      PROVE  DecidedInv'
  <2>1. /\ call'["loop"] = [step |-> step, on |-> n]
        /\ \A b \in Deliverers : call'[b] = call[b]
    BY <1>0, <1>6 DEF Goto, CallTyped, Actors, Deliverers
  <2> QED
    BY <1>6, <2>1 DEF DecidedInv, At
<1>7. CASE StartRound \/ SpawnReviewer
  BY <1>6, <1>7 DEF StartRound, SpawnReviewer
<1>8. ASSUME NEW a \in Deliverers, HandlePROpened(a) PROVE DecidedInv'
  BY <1>2, <1>8 DEF HandlePROpened, Return, Continue, markers, runs, prHist
<1>9. ASSUME NEW a \in Deliverers, Link(a) PROVE DecidedInv'
  <2>1. /\ round' = 1 /\ UNCHANGED reviewer /\ call'[a].step = "first"
        /\ \A b \in Actors \ {a} : call'[b] = call[b]
    BY <1>0, <1>9 DEF Link, Continue, Goto, CallTyped, Actors, Deliverers, runs
  <2>2. call'["loop"] = call["loop"]
    BY <2>1 DEF Actors, Deliverers
  <2>3. CASE loopState = "none"
    <3>1. At("loop", "idle")
      BY <1>0, <2>3 DEF LinkInv
    <3> QED
      BY <2>1, <2>2, <3>1 DEF DecidedInv, At, Actors, Deliverers
  <2>4. CASE loopState # "none"
    <3>1. orphaned' = Rounds /\ 1 <= round
      BY <1>0, <1>9, <2>4 DEF Link, LinkInv
    <3>2. round < MaxRounds => round' < MaxRounds
      BY <1>0, <2>1, <3>1, LoopAssumption
    <3> QED
      BY <2>1, <2>2, <3>1, <3>2 DEF DecidedInv, At, CapReached, Actors, Deliverers
  <2> QED
    BY <2>3, <2>4
<1>10. ASSUME NEW a \in Deliverers, FirstReview(a) PROVE DecidedInv'
  <2>1. /\ UNCHANGED <<orphaned, round>> /\ call'["loop"] = call["loop"]
        /\ call'[a].step = "idle" /\ \A b \in Actors \ {a} : call'[b] = call[b]
    BY <1>0, <1>10 DEF FirstReview, Return, Goto, CallTyped, Actors, Deliverers, markers, prHist
  <2>2. \A r \in Rounds : reviewer[r] \in Completed => reviewer'[r] = reviewer[r]
    BY <1>0, <1>10 DEF FirstReview, CreateReviewer, Completed
  <2> QED
    BY <1>0, <1>1, <2>1, <2>2, DecidedKept
<1>11. ASSUME NEW a \in Deliverers, NEW e, HandleFeedback(a, e) PROVE DecidedInv'
  BY <1>2, <1>11 DEF HandleFeedback, Return, Continue, markers, runs
<1>12. ASSUME NEW a \in Deliverers, ReadApproval(a) \/ ReadFeedback(a) \/ PatchFeedback(a) PROVE DecidedInv'
  <2>1. \E step, n : Goto(a, step, n)
    BY <1>12 DEF ReadApproval, ReadFeedback, PatchFeedback, ReadCopy, Return, Continue
  <2>2. UNCHANGED <<round, orphaned, reviewer>>
    BY <1>12 DEF ReadApproval, ReadFeedback, PatchFeedback, markers, runs, prHist
  <2> QED
    BY <1>2, <2>1, <2>2
<1>13. CASE PollOpened
  BY <1>2, <1>13 DEF PollOpened, Continue, Deliverers, markers, runs, prHist
<1>14. CASE PollFeedback
  <2>1. CASE HandleFeedback("poll", cursor + 1)
    BY <1>11, <2>1 DEF Deliverers
  <2>2. CASE ~(active /\ enabled)
    BY <1>2, <1>14, <2>2 DEF PollFeedback, Return, Deliverers, markers, runs
  <2> QED
    BY <1>14, <2>1, <2>2 DEF PollFeedback
<1>15. ASSUME NEW a \in Actors, Breaks(a) PROVE DecidedInv'
  <2>1. /\ UNCHANGED <<round, reviewer>> /\ orphaned \subseteq orphaned'
        /\ call'[a].step = "idle" /\ \A b \in Actors \ {a} : call'[b] = call[b]
    BY <1>0, <1>15 DEF Breaks, Goto, CallTyped, markers
  <2>2. orphaned' \subseteq Rounds
    BY LoopNextInv, <1>15 DEF PRLoopNext, LoopInv, PRLoopTypeOK
  <2>3. call'["loop"] = call["loop"] \/ call'["loop"].step = "idle"
    BY <2>1 DEF Actors
  <2> QED
    BY <1>1, <2>1, <2>2, <2>3, DecidedKept
<1>16. ASSUME Around, \A r \in Rounds : reviewer[r] \in Completed => reviewer'[r] = reviewer[r]
       PROVE  DecidedInv'
  BY <1>0, <1>1, <1>16, DecidedKept DEF Around, markers, prHist
<1>17. CASE UNCHANGED prVars
  BY <1>0, <1>1, <1>17, DecidedKept DEF prVars, markers, runs, prHist
<1>18. CASE LoopReconciles \/ LoopWork
  BY <1>3, <1>4, <1>5, <1>7, <1>18 DEF LoopReconciles, LoopWork
<1>19. CASE Deliveries \/ PollDelivers
  BY <1>8, <1>11, <1>13, <1>14, <1>19 DEF Deliveries, HookOpened, HookFeedback, PollDelivers, Deliverers
<1>20. ASSUME NEW a \in Deliverers, Handle(a) PROVE DecidedInv'
  BY <1>9, <1>10, <1>12, <1>20 DEF Handle
<1>21. CASE RunsMove \/ CancelImplementer \/ DisablePolicy
  <2>1. ASSUME NEW r \in Rounds, ReviewerEnds(r) PROVE DecidedInv'
    <3>1. \A q \in Rounds : reviewer[q] \in Completed => reviewer'[q] = reviewer[q]
      BY <1>0, <2>1 DEF ReviewerEnds, Completed
    <3> QED
      BY <1>16, <2>1, <3>1 DEF ReviewerEnds
  <2> QED
    BY <1>16, <1>21, <2>1 DEF RunsMove, ImplementerEnds, StartAttempt, CancelImplementer, DisablePolicy
<1> QED
  BY <1>15, <1>17, <1>18, <1>19, <1>20, <1>21 DEF PRLoopNext, Deliverers

(* Deciding is having moved to a step that writes. *)
LEMMA DecidingMoves ==
  ASSUME CallTyped, NEW a \in Actors, NEW step, NEW n, Goto(a, step, n)
  PROVE  Deciding' = IF step \in WritingSteps THEN Deciding \cup {a} ELSE Deciding \ {a}
<1>1. call'[a].step = step /\ \A b \in Actors \ {a} : call'[b] = call[b]
  BY DEF Goto, CallTyped
<1>2. \A b \in Actors \ {a} : b \in Deciding' <=> b \in Deciding
  BY <1>1 DEF Deciding, Writing
<1>3. a \in Deciding' <=> step \in WritingSteps
  BY <1>1 DEF Deciding, Writing, WritingSteps
<1>4. Deciding \subseteq Actors /\ Deciding' \subseteq Actors
  BY DEF Deciding
<1> QED
  BY <1>2, <1>3, <1>4

(* Who moves elsewhere than to a patch is not crossed, and crosses nobody. *)
LEMMA CrossedMoves ==
  ASSUME CallTyped, NEW a \in Actors, NEW step, NEW n, Goto(a, step, n), step # "patch",
         UNCHANGED seenIds, \A b \in Actors \ {a} : copy'[b].ids = copy[b].ids
  PROVE  Crossed' = Crossed \ {a}
<1>1. call'[a].step = step /\ \A b \in Actors \ {a} : call'[b] = call[b]
  BY DEF Goto, CallTyped
<1>2. \A b \in Actors \ {a} : b \in Crossed' <=> b \in Crossed
  BY <1>1 DEF Crossed, At
<1>3. a \notin Crossed'
  BY <1>1 DEF Crossed, At
<1>4. Crossed \subseteq Actors /\ Crossed' \subseteq Actors
  BY DEF Crossed
<1> QED
  BY <1>2, <1>3, <1>4

LEMMA VerdictKept == ASSUME UNCHANGED reviewer PROVE Verdict' = Verdict
BY DEF Verdict

(* The loop was found open, and is to be written. *)
LEMMA DecisionImplements ==
  ASSUME CallTyped, NEW a \in Actors, NEW n, loopState \notin Terminal, ~At(a, "patch"),
         NEW step \in WritingSteps \ {"patch"},
         Goto(a, step, n), UNCHANGED <<markers, reviewer, patches, orphaned>>
  PROVE  Reviewed!Decide(a)
<1>1. Deciding' = Deciding \cup {a} /\ Verdict' = Verdict
  BY DecidingMoves, VerdictKept
<1>2. Crossed' = Crossed
  <2>1. Crossed' = Crossed \ {a}
    BY CrossedMoves DEF markers, patches
  <2> QED
    BY <2>1 DEF Crossed
<1> QED
  BY <1>1, <1>2 DEF Reviewed!Decide, Reviewed!Over, Reviewed!loop, Reviewed!reviews, markers,
                    patches, Terminal

(* Nothing is to be written, or no longer. *)
LEMMA RestImplements ==
  ASSUME CallTyped, NEW a \in Actors, NEW n, NEW step, step \notin WritingSteps,
         Goto(a, step, n), UNCHANGED <<markers, acted, resumed>>, Verdict' = Verdict,
         \A b \in Actors \ {a} : copy'[b].ids = copy[b].ids,
         orphaned \subseteq orphaned', orphaned' \subseteq Rounds
  PROVE  Reviewed!GiveUp(a)
<1>1. Deciding' = Deciding \ {a}
  BY DecidingMoves
<1>2. Crossed' = Crossed \ {a}
  BY CrossedMoves DEF markers, WritingSteps
<1> QED
  BY <1>1, <1>2 DEF Reviewed!GiveUp, Reviewed!Leaves, Reviewed!loop, Reviewed!Feedback, markers

(* A new run has no verdict. *)
LEMMA CreateKeepsVerdicts ==
  ASSUME RunsTyped, NEW r \in Rounds, CreateReviewer(r)
  PROVE  Verdict' = Verdict
<1>1. \A q \in Rounds : reviewer'[q] = reviewer[q] \/ (reviewer[q] = "absent" /\ reviewer'[q] = "running")
  BY DEF CreateReviewer, RunsTyped
<1> QED
  BY <1>1 DEF Verdict, Completed

-----------------------------------------------------------------------------
(* Each handler step is a step of ReviewLoop, or none.                      *)
LEMMA OpeningsImplement ==
  ASSUME LoopInv, NEW a \in Deliverers, ~At(a, "patch"), HandlePROpened(a)
  PROVE  Reviewed!Next
<1>1. CallTyped /\ a \in Actors /\ orphaned \subseteq Rounds
  BY DEF LoopInv, PRLoopTypeOK, Actors, Deliverers
<1>2. UNCHANGED <<markers, reviewer, patches, orphaned>>
  BY DEF HandlePROpened, runs, prHist
<1>3. Goto(a, "idle", 0) \/ (loopState \notin Terminal /\ Goto(a, "link", Opened))
  BY DEF HandlePROpened, Return, Continue, Terminal
<1> QED
  BY <1>1, <1>2, <1>3, VerdictKept, RestImplements, DecisionImplements
     DEF Reviewed!Next, WritingSteps, patches

LEMMA FeedbackImplements ==
  ASSUME LoopInv, NEW a \in Deliverers, NEW e, ~At(a, "patch"), HandleFeedback(a, e)
  PROVE  Reviewed!Next
<1>1. CallTyped /\ a \in Actors /\ orphaned \subseteq Rounds
  BY DEF LoopInv, PRLoopTypeOK, Actors, Deliverers
<1>2. UNCHANGED <<markers, reviewer, patches, orphaned>>
  BY DEF HandleFeedback, runs
<1>3. \/ Goto(a, "idle", 0)
      \/ loopState \notin Terminal /\ \E step \in {"approve", "resolve"} : Goto(a, step, e)
  BY DEF HandleFeedback, Return, Continue
<1> QED
  BY <1>1, <1>2, <1>3, VerdictKept, RestImplements, DecisionImplements
     DEF Reviewed!Next, WritingSteps, patches

LEMMA PollImplements ==
  ASSUME LoopInv, PollOpened \/ PollFeedback
  PROVE  Reviewed!Next
<1>1. CallTyped /\ "poll" \in Actors /\ "poll" \in Deliverers /\ orphaned \subseteq Rounds
  BY DEF LoopInv, PRLoopTypeOK, Actors, Deliverers
<1>2. CASE PollOpened
  <2>1. Goto("poll", "open", Opened) /\ UNCHANGED <<markers, reviewer, patches, orphaned>>
    BY <1>2 DEF PollOpened, Continue, runs, prHist
  <2> QED
    BY <1>1, <2>1, VerdictKept, RestImplements DEF Reviewed!Next, WritingSteps, patches
<1>3. CASE PollFeedback
  <2>2. CASE HandleFeedback("poll", cursor + 1)
    BY <1>1, <1>3, <2>2, FeedbackImplements DEF PollFeedback, At
  <2>3. CASE ~(active /\ enabled)
    <3>1. Goto("poll", "idle", 0) /\ UNCHANGED <<markers, reviewer, patches, orphaned>>
      BY <1>3, <2>3 DEF PollFeedback, Return, runs
    <3> QED
      BY <1>1, <3>1, VerdictKept, RestImplements DEF Reviewed!Next, WritingSteps, patches
  <2> QED
    BY <1>3, <2>2, <2>3 DEF PollFeedback
<1> QED
  BY <1>2, <1>3

(* Whoever stands at a writing step is one of those deciding. *)
LEMMA WriterDecides ==
  ASSUME NEW a \in Actors, NEW step \in WritingSteps, At(a, step)
  PROVE  a \in Deciding
BY DEF At, Deciding, Writing, WritingSteps

(* The patch of feedback takes its effect, and crosses at most whoever is  *)
(* at a patch as well; an old record comes back only if it was crossed.    *)
LEMMA PatchImplements ==
  ASSUME LoopInv, NEW a \in Deliverers, PatchFeedback(a)
  PROVE  Reviewed!Next
<1> DEFINE e == call[a].on
<1>1. /\ CallTyped /\ a \in Actors /\ At(a, "patch") /\ e \in Events
      /\ e \notin approvals => e \notin copy[a].ids
      /\ seenIds \subseteq acted /\ copy[a].ids \subseteq acted
  BY DEF LoopInv, PRLoopTypeOK, CallInv, CreditInv, PatchFeedback, At, Actors, Deliverers
<1>2. a \in Deciding /\ (a \in Crossed <=> copy[a].ids # seenIds)
  BY <1>1, WriterDecides DEF Crossed, WritingSteps
<1>3. /\ Goto(a, "idle", 0) /\ UNCHANGED <<round, approvals, reviewer, orphaned>>
      /\ loopState' \in {IF e \in approvals THEN "approved" ELSE "resolving", loopState}
      /\ seenIds' = IF e \in copy[a].ids THEN seenIds ELSE copy[a].ids \cup {e}
      /\ acted' = acted \cup {e}
      /\ resumed' = IF e \notin approvals THEN resumed + 1 ELSE resumed
  BY DEF PatchFeedback, Return, SetLoop
<1>4. Deciding' = Deciding \ {a} /\ Verdict' = Verdict
  BY <1>1, <1>3, DecidingMoves, VerdictKept DEF WritingSteps
<1>5. Crossed' \subseteq Deciding'
  BY DEF Crossed, Deciding, Writing, At
<1>6. seenIds' = seenIds \cup {e} \/ (a \in Crossed /\ seenIds' \subseteq acted')
  BY <1>1, <1>2, <1>3
<1>7. Reviewed!Hears(a, e, IF e \in approvals THEN "approved" ELSE "resolving")
  BY <1>2, <1>3, <1>4, <1>5, <1>6 DEF Reviewed!Hears
<1>8. CASE e \in approvals
  BY <1>1, <1>3, <1>7, <1>8 DEF Reviewed!Approve, Reviewed!Next
<1>9. CASE e \notin approvals
  <2>1. e \notin seenIds \/ a \in Crossed
    BY <1>1, <1>2, <1>9
  <2>2. Reviewed!Resolve(a)
    BY <1>1, <1>3, <1>7, <1>9, <2>1 DEF Reviewed!Resolve
  <2> QED
    BY <1>1, <2>2 DEF Reviewed!Next
<1> QED
  BY <1>8, <1>9

(* Reading the copy, ReviewLoop does not see: it is fresh as yet. *)
LEMMA CopyImplements ==
  ASSUME LoopInv, NEW a \in Deliverers, At(a, "approve") \/ At(a, "resolve"), ReadCopy(a),
         UNCHANGED <<markers, reviewer, orphaned>>
  PROVE  UNCHANGED Reviewed!vars
<1>1. CallTyped /\ PatchesTyped /\ a \in Actors /\ ~At(a, "patch")
  BY DEF LoopInv, PRLoopTypeOK, Actors, Deliverers, At
<1>2. /\ Goto(a, "patch", call[a].on) /\ UNCHANGED <<acted, resumed>>
      /\ copy'[a].ids = seenIds /\ \A b \in Actors \ {a} : copy'[b] = copy[b]
  BY <1>1 DEF ReadCopy, Continue, PatchesTyped
<1>3. Deciding' = Deciding /\ Verdict' = Verdict
  <2>1. a \in Deciding
    BY <1>1, WriterDecides DEF WritingSteps
  <2> QED
    BY <1>1, <1>2, <2>1, DecidingMoves, VerdictKept DEF WritingSteps
<1>4. Crossed' = Crossed
  <2>1. \A b \in Actors \ {a} : call'[b] = call[b]
    BY <1>1, <1>2 DEF Goto, CallTyped
  <2>2. \A b \in Actors \ {a} : b \in Crossed' <=> b \in Crossed
    BY <1>2, <2>1 DEF Crossed, At, markers
  <2>3. a \notin Crossed /\ a \notin Crossed'
    BY <1>1, <1>2 DEF Crossed, markers
  <2> QED
    BY <2>2, <2>3 DEF Crossed
<1> QED
  BY <1>2, <1>3, <1>4 DEF Reviewed!vars, Reviewed!loop, Reviewed!reviews, Reviewed!deciders, markers

LEMMA DeliveryWritesImplement ==
  ASSUME LoopInv, NEW a \in Deliverers, Handle(a)
  PROVE  [Reviewed!Next]_(Reviewed!vars)
<1>1. CallTyped /\ CallInv /\ a \in Actors /\ orphaned \subseteq Rounds /\ RunsTyped
  BY DEF LoopInv, PRLoopTypeOK, Actors, Deliverers
<1>2. CASE Link(a)
  <2>1. a \in Deciding
    BY <1>1, <1>2, WriterDecides DEF Link, WritingSteps
  <2>2. Goto(a, "first", Opened) /\ UNCHANGED <<seenIds, approvals, reviewer, patches>>
    BY <1>2 DEF Link, Continue, runs
  <2>3. Deciding' = Deciding \ {a} /\ Verdict' = Verdict /\ Crossed' = Crossed \ {a}
    BY <1>1, <2>2, DecidingMoves, CrossedMoves, VerdictKept DEF WritingSteps, patches
  <2>4. Reviewed!Open(a)
    BY <1>2, <2>1, <2>2, <2>3 DEF Link, SetLoop, patches, Reviewed!Open, Reviewed!Writes,
                                  Reviewed!Leaves, Reviewed!Feedback
  <2> QED
    BY <1>1, <2>4 DEF Reviewed!Next
<1>3. CASE FirstReview(a)
  <2>1. Goto(a, "idle", 0) /\ UNCHANGED <<markers, patches, orphaned>>
    BY <1>3 DEF FirstReview, Return, prHist
  <2>2. Verdict' = Verdict
    BY <1>1, <1>3, Bounds, CreateKeepsVerdicts DEF FirstReview
  <2> QED
    BY <1>1, <2>1, <2>2, RestImplements DEF Reviewed!Next, WritingSteps, patches
<1>4. CASE ReadApproval(a)
  BY <1>4, CopyImplements DEF ReadApproval, runs, prHist
<1>5. CASE ReadFeedback(a)
  <2>1. CASE ReadCopy(a)
    BY <1>5, <2>1, CopyImplements DEF ReadFeedback, runs, prHist
  <2>2. CASE Return(a, TRUE, call[a].on) /\ UNCHANGED patches
    <3>1. Goto(a, "idle", 0) /\ UNCHANGED <<markers, reviewer, patches, orphaned>>
      BY <1>5, <2>2 DEF ReadFeedback, Return, runs, prHist
    <3> QED
      BY <1>1, <3>1, VerdictKept, RestImplements DEF Reviewed!Next, WritingSteps, patches
  <2> QED
    BY <1>5, <2>1, <2>2 DEF ReadFeedback
<1>6. CASE PatchFeedback(a)
  BY <1>6, PatchImplements
<1> QED
  BY <1>2, <1>3, <1>4, <1>5, <1>6 DEF Handle

LEMMA VerdictsImplement ==
  ASSUME LoopInv, LoopReconciles
  PROVE  Reviewed!Next
<1>1. CallTyped /\ "loop" \in Actors /\ orphaned \subseteq Rounds /\ ~At("loop", "patch")
  BY DEF LoopInv, PRLoopTypeOK, CallInv, LoopSteps, At, Actors
<1>2. CASE OnImplementerRunCompleted
  <2>1. /\ loopState \notin Terminal /\ Goto("loop", "next", round + 1)
        /\ UNCHANGED <<markers, reviewer, patches, orphaned>>
    BY <1>2 DEF OnImplementerRunCompleted, Terminal, runs, prHist
  <2> QED
    BY <1>1, <2>1, DecisionImplements DEF Reviewed!Next, WritingSteps
<1>3. ASSUME NEW r \in Rounds, OnReviewerRunCompleted(r) PROVE Reviewed!Next
  <2>1. Goto("loop", AfterVerdict(r), r) /\ UNCHANGED <<markers, reviewer, patches, orphaned>>
    BY <1>3 DEF OnReviewerRunCompleted, runs
  <2>2. CASE loopState \in Terminal
    <3>1. AfterVerdict(r) = "mark"
      BY <2>2, Zenon DEF AfterVerdict
    <3> QED
      BY <1>1, <2>1, <3>1, VerdictKept, RestImplements DEF Reviewed!Next, WritingSteps, patches
  <2>3. CASE loopState \notin Terminal
    <3>1. AfterVerdict(r) \in {"accept", "block", "rework"}
      BY <2>3 DEF AfterVerdict
    <3> QED
      BY <1>1, <2>1, <2>3, <3>1, DecisionImplements DEF Reviewed!Next, WritingSteps
  <2> QED
    BY <2>2, <2>3
<1> QED
  BY <1>2, <1>3 DEF LoopReconciles

(* Both specifications mean the same room. *)
LEMMA RoomsAgree == Reviewed!Room = Room
BY DEF Room, Reviewed!Room

(* What the reconciler decided, it writes, on grounds that still hold. *)
LEMMA LoopWritesImplement ==
  ASSUME LoopInv, DecidedInv, Accept \/ Block \/ Rework \/ StartRound
  PROVE  Reviewed!Next
<1> DEFINE n == call["loop"].on
<1> USE DEF Reviewed!Writes, Reviewed!Leaves, Reviewed!Feedback
<1>1. /\ CallTyped /\ CallInv /\ CapInv /\ "loop" \in Actors /\ orphaned \subseteq Rounds
  BY DEF LoopInv, PRLoopTypeOK, Actors
<1>2. ASSUME NEW step \in {"accept", "block", "rework", "next"}, At("loop", step)
      PROVE  "loop" \in Deciding /\ n \in Rounds
  BY <1>1, <1>2, WriterDecides DEF At, CallInv, WritingSteps
<1>3. ASSUME NEW step \in {"mark", "escalate", "wake", "tell", "spawn"}, Goto("loop", step, n),
             UNCHANGED <<reviewer, seenIds, patches>>
      PROVE  Deciding' = Deciding \ {"loop"} /\ Verdict' = Verdict /\ Crossed' = Crossed \ {"loop"}
  BY <1>1, <1>3, DecidingMoves, CrossedMoves, VerdictKept DEF patches, WritingSteps
<1>4. ASSUME NEW v \in Completed, n \in Rounds, reviewer[n] = v PROVE Verdict[n] = v
  BY <1>4 DEF Verdict
<1>5. CASE Accept
  <2>1. /\ "loop" \in Deciding /\ Verdict[n] = "approve" /\ n \in Rounds
    BY <1>2, <1>4, <1>5 DEF Accept, DecidedInv, Completed
  <2>2. /\ Goto("loop", "mark", n) /\ UNCHANGED <<round, seenIds, approvals, reviewer, patches, orphaned>>
        /\ loopState' = "approved"
    BY <1>5 DEF Accept, SetLoop, runs
  <2>3. Reviewed!Accept("loop")
    BY <1>3, <2>1, <2>2 DEF Reviewed!Accept, patches
  <2> QED
    BY <1>1, <2>3 DEF Reviewed!Next
<1>6. CASE Block
  <2>1. /\ "loop" \in Deciding /\ n \in Rounds
        /\ Verdict[n] = "failed" \/ (Verdict[n] = "changes" /\ CapReached)
    BY <1>2, <1>4, <1>6 DEF Block, DecidedInv, Completed
  <2>2. /\ Goto("loop", "escalate", n) /\ UNCHANGED <<round, seenIds, approvals, reviewer, patches, orphaned>>
        /\ loopState' = "blocked"
    BY <1>6 DEF Block, SetLoop
  <2>3. Reviewed!Block("loop")
    BY <1>3, <2>1, <2>2 DEF Reviewed!Block, patches, Reviewed!AtCap, Reviewed!Restarted, CapReached
  <2> QED
    BY <1>1, <2>3 DEF Reviewed!Next
<1>7. CASE Rework
  <2>1. "loop" \in Deciding /\ n \in Rounds /\ Verdict[n] = "changes" /\ round < MaxRounds
    BY <1>2, <1>4, <1>7 DEF Rework, DecidedInv, Completed
  <2>2. /\ \E step \in {"escalate", "wake", "tell"} : Goto("loop", step, n)
        /\ UNCHANGED <<round, seenIds, approvals, reviewer, patches, orphaned>> /\ loopState' = "resolving"
    BY <1>7 DEF Rework, SetLoop, runs
  <2>3. Reviewed!Rework("loop")
    BY <1>3, <2>1, <2>2 DEF Reviewed!Rework, patches
  <2> QED
    BY <1>1, <2>3 DEF Reviewed!Next
<1>8. CASE StartRound
  <2>1. /\ "loop" \in Deciding /\ n \in Rounds /\ n <= Room
        /\ n = round + 1 \/ orphaned = Rounds
    BY <1>1, <1>2, <1>8 DEF StartRound, DecidedInv, CapInv
  <2>2. /\ Goto("loop", "spawn", n) /\ UNCHANGED <<seenIds, approvals, reviewer, patches, orphaned>>
        /\ loopState' = "in_review" /\ round' = n
    BY <1>8 DEF StartRound, SetLoop, runs, prHist
  <2>3. Room \in Nat /\ Room = Reviewed!Room
    BY RoomType, RoomsAgree DEF LoopInv
  <2>4. n \in 1..Reviewed!Room
    BY <2>1, <2>3, LoopAssumption DEF Rounds, LastRound
  <2>5. Reviewed!NextRound("loop")
    BY <1>3, <2>1, <2>2, <2>4 DEF Reviewed!NextRound, patches, Reviewed!Restarted
  <2> QED
    BY <1>1, <2>5 DEF Reviewed!Next
<1> QED
  BY <1>5, <1>6, <1>7, <1>8

LEMMA LoopQuietImplements ==
  ASSUME LoopInv, Escalate \/ SendMessage \/ MarkVerdictHandled \/ SpawnReviewer
  PROVE  Reviewed!Next
<1>1. CallTyped /\ CallInv /\ RunsTyped /\ "loop" \in Actors /\ orphaned \subseteq Rounds
  BY DEF LoopInv, PRLoopTypeOK, Actors
<1>2. \E step \in {"mark", "idle"} : \E n : Goto("loop", step, n)
  BY DEF Escalate, SendMessage, MarkVerdictHandled, SpawnReviewer
<1>3. UNCHANGED <<markers, acted, resumed, orphaned>>
  BY DEF Escalate, SendMessage, MarkVerdictHandled, SpawnReviewer, patches, prHist
<1>5. \A b \in Actors : copy'[b].ids = copy[b].ids
  BY DEF Escalate, SendMessage, MarkVerdictHandled, SpawnReviewer, Outdated, patches, LoopInv,
         PRLoopTypeOK, PatchesTyped
<1>4. Verdict' = Verdict
  <2>1. CASE SpawnReviewer
    BY <1>1, <2>1, CreateKeepsVerdicts DEF SpawnReviewer, CallInv, At
  <2>2. CASE Escalate \/ SendMessage \/ MarkVerdictHandled
    BY <2>2, VerdictKept DEF Escalate, SendMessage, MarkVerdictHandled
  <2> QED
    BY <2>1, <2>2
<1> QED
  BY <1>1, <1>2, <1>3, <1>4, <1>5, RestImplements DEF Reviewed!Next, WritingSteps

LEMMA BreaksImplement ==
  ASSUME LoopInv, NEW a \in Actors, Breaks(a)
  PROVE  Reviewed!Next
<1>1. CallTyped /\ PatchesTyped
  BY DEF LoopInv, PRLoopTypeOK
<1>2. Goto(a, "idle", 0) /\ UNCHANGED <<markers, reviewer, acted, resumed>> /\ orphaned \subseteq orphaned'
  BY DEF Breaks
<1>3. orphaned' \subseteq Rounds
  BY LoopNextInv DEF PRLoopNext, LoopInv, PRLoopTypeOK
<1>4. \A b \in Actors \ {a} : copy'[b].ids = copy[b].ids
  BY <1>1 DEF Breaks, PatchesTyped
<1> QED
  BY <1>1, <1>2, <1>3, <1>4, VerdictKept, RestImplements DEF Reviewed!Next, WritingSteps

(* A reviewer's end is its round's verdict, unless it was cancelled. *)
LEMMA ReviewersImplement ==
  ASSUME LoopInv, NEW r \in Rounds, ReviewerEnds(r)
  PROVE  Reviewed!Next \/ UNCHANGED Reviewed!vars
<1> USE DEF Reviewed!vars, Reviewed!loop, Reviewed!reviews, Reviewed!deciders, Reviewed!Feedback
<1>1. /\ reviewer \in [Rounds -> Completed \cup {"absent", "running", "cancelled"}]
      /\ reviewer[r] = "running" /\ LinkInv
  BY DEF LoopInv, PRLoopTypeOK, RunsTyped, ReviewerEnds
<1>2. /\ UNCHANGED <<loopState, round, approvals, seenIds, acted, resumed, orphaned>>
      /\ Deciding' = Deciding /\ Crossed' = Crossed
  BY DEF ReviewerEnds, Around, markers, patches, prHist, Deciding, Writing, Crossed, At
<1>3. PICK end \in Completed \cup {"cancelled"} : reviewer' = [reviewer EXCEPT ![r] = end]
  BY DEF ReviewerEnds
<1>4. CASE end = "cancelled"
  <2>1. Verdict' = Verdict
    BY <1>1, <1>3, <1>4 DEF Verdict, Completed
  <2> QED
    BY <1>2, <2>1
<1>5. CASE end \in Completed
  <2>1. Verdict' = [Verdict EXCEPT ![r] = end] /\ Verdict[r] = "none"
    BY <1>1, <1>3, <1>5 DEF Verdict, Completed
  <2>2. loopState # "none"
    BY <1>1 DEF LinkInv
  <2>3. Reviewed!Judge(r)
    BY <1>2, <1>5, <2>1, <2>2 DEF Reviewed!Judge, Completed
  <2> QED
    BY <2>3 DEF Reviewed!Next
<1> QED
  BY <1>3, <1>4, <1>5

(* What people and runs do otherwise, ReviewLoop does not see. *)
LEMMA UnseenImplements ==
  ASSUME UNCHANGED <<markers, orphaned, call, patches, reviewer>>
  PROVE  UNCHANGED Reviewed!vars
<1>1. Verdict' = Verdict /\ Deciding' = Deciding /\ Crossed' = Crossed
  BY DEF Verdict, Deciding, Writing, Crossed, At, markers, patches
<1> QED
  BY <1>1 DEF Reviewed!vars, Reviewed!loop, Reviewed!reviews, Reviewed!deciders, markers, patches

(* Every step of the loop is a step of ReviewLoop or none. *)
LEMMA LoopStepImplements ==
  ASSUME LoopInv, DecidedInv, [PRLoopNext]_prVars
  PROVE  [Reviewed!Next]_(Reviewed!vars)
<1>1. CASE LoopReconciles \/ LoopWork
  BY <1>1, VerdictsImplement, LoopWritesImplement, LoopQuietImplements DEF LoopWork
<1>2. CASE Deliveries \/ PollDelivers
  BY <1>2, OpeningsImplement, FeedbackImplements, PollImplements
     DEF Deliveries, HookOpened, HookFeedback, PollDelivers, At, Deliverers
<1>3. ASSUME NEW a \in Deliverers, Handle(a) PROVE [Reviewed!Next]_(Reviewed!vars)
  BY <1>3, DeliveryWritesImplement
<1>4. CASE RunsMove \/ CancelImplementer \/ DisablePolicy
  <2>1. CASE StartAttempt \/ ImplementerEnds \/ CancelImplementer \/ DisablePolicy
    BY <2>1, UnseenImplements DEF StartAttempt, ImplementerEnds, CancelImplementer, DisablePolicy, Around, prHist
  <2> QED
    BY <1>4, <2>1, ReviewersImplement DEF RunsMove
<1>5. ASSUME NEW a \in Actors, Breaks(a) PROVE [Reviewed!Next]_(Reviewed!vars)
  BY <1>5, BreaksImplement
<1>6. CASE UNCHANGED prVars
  BY <1>6, UnseenImplements DEF prVars, runs, prHist
<1> QED
  BY <1>1, <1>2, <1>3, <1>4, <1>5, <1>6 DEF PRLoopNext, Deliverers

(* Deliveries that overlap, repeat or break off, patches made from copies  *)
(* that are old by then, verdicts that come late and writes over one       *)
(* another's labels are steps of ReviewLoop.                               *)
THEOREM ReviewLoopImplemented == PRLoopSpec => ImplementsReviewLoop
<1>1. PRLoopInit => DecidedInv
  BY DEF PRLoopInit, DecidedInv, At, Actors, Deliverers
<1>2. PRLoopInit => Reviewed!Init
  <2> SUFFICES ASSUME PRLoopInit PROVE Reviewed!Init
    OBVIOUS
  <2>1. Verdict = [r \in Rounds |-> "none"]
    BY DEF PRLoopInit, Verdict, Completed
  <2>2. Deciding = {} /\ Crossed = {}
    BY DEF PRLoopInit, Deciding, Writing, Crossed, At
  <2> QED
    BY <2>1, <2>2 DEF PRLoopInit, Reviewed!Init
<1>3. LoopInv /\ DecidedInv /\ [PRLoopNext]_prVars => DecidedInv' /\ [Reviewed!Next]_(Reviewed!vars)
  BY DecidedNext, LoopStepImplements
<1> QED
  BY <1>1, <1>2, <1>3, LoopInvariant, PTL DEF PRLoopSpec, ImplementsReviewLoop, Reviewed!Spec
-----------------------------------------------------------------------------
(* What follows from ReviewLoop alone.                                      *)

(* What EndsAreEarned rests on. *)
Earned ==
  /\ Reviewed!EndsAreEarned
  /\ round \in Nat /\ resumed \in Nat /\ orphaned \subseteq Rounds

(* Feedback only ever makes more room. *)
LEMMA RoomLater ==
  ASSUME NEW c \in Nat, NEW s \in Nat, NEW t \in {s, s + 1}, NEW i \in Nat, NEW j \in Nat,
         i <= c + s, j <= i \/ j <= c \/ j <= c + s
  PROVE  t \in Nat /\ j <= c + t
  OBVIOUS

(* No step of ReviewLoop takes a reason away. *)
LEMMA EarnedStep ==
  ASSUME Earned, [Reviewed!Next]_(Reviewed!vars)
  PROVE  Earned'
<1> USE DEF Reviewed!loop, Reviewed!reviews, Reviewed!Writes, Reviewed!Leaves, Reviewed!Feedback,
            Reviewed!Restarted, Reviewed!AtCap
<1> DEFINE Approved == (\E r \in Rounds : Verdict[r] = "approve") \/ acted \cap approvals # {}
           Blocked  == \E r \in Rounds : Verdict[r] = "failed" \/ (Verdict[r] = "changes" /\ Reviewed!AtCap)
<1>0. /\ loopState = "approved" => Approved
      /\ loopState = "blocked" => Blocked
      /\ round <= Reviewed!Room /\ round \in Nat /\ resumed \in Nat
      /\ orphaned \subseteq Rounds
  BY DEF Earned, Reviewed!EndsAreEarned
<1>1. ASSUME resumed' \in {resumed, resumed + 1}, orphaned' \subseteq Rounds,
             round' \in Nat, round' <= round \/ round' <= MaxRounds \/ round' <= Reviewed!Room,
             loopState' = "approved" => Approved', loopState' = "blocked" => Blocked'
      PROVE  Earned'
  <2>1. /\ MaxRounds \in Nat /\ resumed \in Nat /\ resumed' \in {resumed, resumed + 1}
        /\ round \in Nat /\ round' \in Nat /\ round <= MaxRounds + resumed
        /\ round' <= round \/ round' <= MaxRounds \/ round' <= MaxRounds + resumed
    BY <1>0, <1>1, LoopAssumption DEF Reviewed!Room
  <2>2. resumed' \in Nat /\ round' <= MaxRounds + resumed'
    BY <2>1, RoomLater
  <2> QED
    BY <1>1, <2>1, <2>2 DEF Earned, Reviewed!EndsAreEarned, Reviewed!Room
<1>2. ASSUME NEW a \in Actors, Reviewed!Decide(a) \/ Reviewed!GiveUp(a) PROVE Earned'
  <2>1. /\ UNCHANGED <<loopState, round, Verdict, approvals, acted, resumed>>
        /\ orphaned \subseteq orphaned' /\ orphaned' \subseteq Rounds
    BY <1>0, <1>2 DEF Reviewed!Decide, Reviewed!GiveUp
  <2>2. (Approved => Approved') /\ (Blocked => Blocked')
    BY <2>1
  <2> QED
    BY <1>0, <1>1, <2>1, <2>2
<1>3. ASSUME NEW r \in Rounds, Reviewed!Judge(r) PROVE Earned'
  <2>1. /\ UNCHANGED <<loopState, round, approvals, acted, resumed, orphaned>> /\ Verdict[r] = "none"
        /\ \E v : Verdict' = [Verdict EXCEPT ![r] = v]
    BY <1>3 DEF Reviewed!Judge
  <2>2. \A q \in Rounds : Verdict[q] # "none" => Verdict'[q] = Verdict[q]
    BY <2>1 DEF Verdict
  <2>3. (Approved => Approved') /\ (Blocked => Blocked')
    BY <2>1, <2>2
  <2> QED
    BY <1>0, <1>1, <2>1, <2>3
<1>4. ASSUME NEW a \in Actors, Reviewed!Open(a) PROVE Earned'
  <2>1. UNCHANGED resumed /\ round' = 1 /\ orphaned' \subseteq Rounds /\ loopState' = "in_review"
    BY <1>0, <1>4 DEF Reviewed!Open
  <2> QED
    BY <1>0, <1>1, <2>1, LoopAssumption
<1>5. ASSUME NEW a \in Actors, Reviewed!Accept(a) PROVE Earned'
  <2>1. /\ UNCHANGED <<approvals, acted, resumed, round, orphaned, Verdict>> /\ loopState' = "approved"
        /\ \E r \in Rounds : Verdict[r] = "approve"
    BY <1>5 DEF Reviewed!Accept
  <2> QED
    BY <1>0, <1>1, <2>1
<1>6. ASSUME NEW a \in Actors, Reviewed!Block(a) PROVE Earned'
  <2>1. UNCHANGED <<resumed, round, orphaned, Verdict>> /\ loopState' = "blocked" /\ Blocked
    BY <1>6 DEF Reviewed!Block
  <2> QED
    BY <1>0, <1>1, <2>1
<1>7. ASSUME NEW a \in Actors, Reviewed!Rework(a) PROVE Earned'
  <2>1. UNCHANGED <<resumed, round, orphaned>> /\ loopState' = "resolving"
    BY <1>7 DEF Reviewed!Rework
  <2> QED
    BY <1>0, <1>1, <2>1
<1>8. ASSUME NEW a \in Actors, Reviewed!NextRound(a) PROVE Earned'
  <2>1. UNCHANGED <<resumed, orphaned>> /\ loopState' = "in_review" /\ round' \in 1..Reviewed!Room
    BY <1>8 DEF Reviewed!NextRound
  <2>2. round' \in Nat /\ round' <= Reviewed!Room
    BY <1>0, <2>1, LoopAssumption DEF Reviewed!Room
  <2> QED
    BY <1>0, <1>1, <2>1, <2>2
<1>9. ASSUME NEW a \in Actors, NEW e, NEW next \in {"approved", "resolving"}, Reviewed!Hears(a, e, next),
             next = "approved" => e \in approvals, resumed' \in {resumed, resumed + 1}
      PROVE  Earned'
  <2>1. /\ UNCHANGED <<approvals, round, orphaned, Verdict>> /\ acted' = acted \cup {e}
        /\ loopState' \in {next, loopState}
    BY <1>9 DEF Reviewed!Hears
  <2>2. loopState' = "approved" => Approved'
    BY <1>0, <1>9, <2>1
  <2>3. loopState' = "blocked" => Blocked'
    BY <1>0, <1>9, <2>1
  <2> QED
    BY <1>0, <1>1, <1>9, <2>1, <2>2, <2>3
<1>10. ASSUME NEW a \in Actors, Reviewed!Approve(a) \/ Reviewed!Resolve(a) PROVE Earned'
  BY <1>9, <1>10 DEF Reviewed!Approve, Reviewed!Resolve
<1>11. CASE UNCHANGED Reviewed!vars
  BY <1>0, <1>1, <1>11 DEF Reviewed!vars
<1> QED
  BY <1>2, <1>3, <1>4, <1>5, <1>6, <1>7, <1>8, <1>10, <1>11 DEF Reviewed!Next

(* An approved loop was approved by somebody, a blocked one has a failed   *)
(* review or is at its cap, and no loop exceeds its rounds (prloop.go,     *)
(* OnReviewerRunCompleted and handleReviewSubmitted).                      *)
THEOREM LoopsEndForAReason == ImplementsReviewLoop => []Reviewed!EndsAreEarned
<1>1. Reviewed!Init => Earned
  <2> SUFFICES ASSUME Reviewed!Init PROVE Earned
    OBVIOUS
  <2>1. loopState = "none" /\ round = 0 /\ resumed = 0 /\ orphaned = {}
    BY DEF Reviewed!Init
  <2> QED
    BY <2>1, LoopAssumption DEF Earned, Reviewed!EndsAreEarned, Reviewed!Room
<1>2. Earned /\ [Reviewed!Next]_(Reviewed!vars) => Earned'
  BY EarnedStep
<1>3. Earned => Reviewed!EndsAreEarned
  BY DEF Earned
<1> QED
  BY <1>1, <1>2, <1>3, PTL DEF ImplementsReviewLoop, Reviewed!Spec

(* Only who found the loop open writes, so it stays over once the last of  *)
(* them is through.                                                        *)
LEMMA OverStep == [Reviewed!Next]_(Reviewed!vars) => [Finished => Finished']_prVars
<1> SUFFICES ASSUME [Reviewed!Next]_(Reviewed!vars), Finished PROVE Finished'
  OBVIOUS
<1>1. loopState \in Terminal /\ Deciding = {}
  BY DEF Finished, Deciding
<1>2. loopState' = loopState /\ Deciding' \subseteq Deciding
  BY <1>1 DEF Reviewed!Next, Reviewed!vars, Reviewed!loop, Reviewed!reviews, Reviewed!Decide, Reviewed!GiveUp,
              Reviewed!deciders, Reviewed!Judge, Reviewed!Writes, Reviewed!Leaves, Reviewed!Open,
              Reviewed!Accept, Reviewed!Block, Reviewed!Rework, Reviewed!Hears, Reviewed!Approve,
              Reviewed!Resolve, Reviewed!NextRound, Reviewed!Over, Terminal
<1> QED
  BY <1>1, <1>2 DEF Finished, Deciding

(* No late verdict, ended run or new feedback reopens a finished loop      *)
(* (prloop.go:189-194, 286-290, 350).                                      *)
THEOREM FinishedLoopsStay == PRLoopSpec => FinishedStays
  BY OverStep, ReviewLoopImplemented, PTL DEF ImplementsReviewLoop, Reviewed!Spec, FinishedStays
=============================================================================
