----------------------- MODULE InputResolutionProofs -----------------------
(***************************************************************************)
(* Proofs about the parties to one pending input request, for every number *)
(* of tabs, messages, questions and crashes of the controller.             *)
(*                                                                         *)
(* Every step of theirs is a statement of the session store or none        *)
(* (StoreStep), so that the store's invariant and its refinement of        *)
(* InputRequest hold of them.  On top of it: a request id on a screen, in  *)
(* a handler or in the controller's hands names one question for good,     *)
(* because ids are never reused (ScreenInv);                               *)
(* the controller holds one response at most, of the request it was        *)
(* checkpointed for (HoldInv); and a hold on the newest question finds     *)
(* nothing else pending, so that its expiry asks that question again.      *)
(*                                                                         *)
(* The refinement comes first, under the store's most general client.  It  *)
(* rests on the inductive invariant of SessionStoreProofs:                 *)
(* HoldsOwnTheirQuestion makes a hold that goes away leave a question      *)
(* nobody else answered, OneDecisionPerQuestion makes the fates exclusive. *)
(***************************************************************************)
EXTENDS InputResolution, SessionRefinement, SessionStoreProofs

USE DEF Msgs, Reqs, Request!Questions

(* A question has the fate that its place in the store says. *)
LEMMA FateOf ==
  ASSUME SessionInv, NEW q \in Reqs
  PROVE  /\ fates[q] = Fate(q)
         /\ Fate(q) = "unasked" <=> q > nask
         /\ Fate(q) = "open" <=> q = asks
         /\ HeldFor(q) <=> Fate(q) = "held"
<1>1. asks \in Nat /\ nask \in Nat /\ asks <= nask
  BY BoundAssumption DEF SessionInv, SessionTypeOK, RowsAllocated
<1>2. HeldFor(q) => q <= nask /\ q # asks /\ q \notin retired
  BY BoundAssumption DEF SessionInv, SessionTypeOK, RowsAllocated, HoldsOwnTheirQuestion, HeldFor
<1> QED
  BY <1>1, <1>2 DEF fates, Fate

(* The fates after a step. *)
LEMMA FatesAfter == fates' = [q \in Reqs |-> Fate(q)']
  BY DEF fates

(* The fate of a question depends on nothing else. *)
LEMMA SameFate ==
  ASSUME NEW q \in Reqs, nask' = nask, asks' = asks, retired' = retired,
         HeldFor(q)' <=> HeldFor(q), StandsFor(q)' <=> StandsFor(q)
  PROVE  Fate(q)' = Fate(q)
  BY DEF Fate

(* A step that moves no question. *)
LEMMA StutterOnFates ==
  ASSUME UNCHANGED <<nask, asks, retired>>,
         \A q \in Reqs : (HeldFor(q)' <=> HeldFor(q)) /\ (StandsFor(q)' <=> StandsFor(q))
  PROVE  fates' = fates
<1>1. \A q \in Reqs : Fate(q)' = Fate(q)
  BY SameFate
<1> QED
  BY <1>1, FatesAfter DEF fates

(* A step that takes responses away, each with its hold, withdraws them. *)
LEMMA WithdrawStep ==
  ASSUME SessionInv, UNCHANGED <<nask, asks, retired>>,
         \A q \in Reqs : HeldFor(q)' => HeldFor(q),
         \A q \in Reqs : StandsFor(q)' => StandsFor(q),
         \A q \in Reqs : HeldFor(q) /\ ~HeldFor(q)' => ~StandsFor(q)'
  PROVE  Request!Next
<1> DEFINE Q == {q \in Reqs : Fate(q)' # Fate(q)}
<1>1. ASSUME NEW q \in Q PROVE Fate(q) \in {"held", "answered"} /\ Fate(q)' = "withdrawn"
  BY <1>1 DEF Fate
<1>2. fates' = [q \in Reqs |-> IF q \in Q THEN "withdrawn" ELSE fates[q]]
  BY <1>1, FatesAfter DEF fates
<1>3. Q \subseteq Request!Are("held") \cup Request!Are("answered")
  BY <1>1 DEF Request!Are, fates
<1>4. Request!Withdraw(Q)
  BY <1>2, <1>3 DEF Request!Withdraw, Request!Become
<1>5. Q \in SUBSET Reqs
  OBVIOUS
<1> HIDE DEF Q
<1> QED
  BY <1>4, <1>5 DEF Request!Next

(* A new row speaks for its own question and no other. *)
LEMMA InsertRowFates ==
  ASSUME SessionInv, NEW isHeld \in BOOLEAN, NEW a \in 0..MaxReqs, InsertRow(isHeld, a)
  PROVE  /\ \A q \in Reqs \ {a} : (HeldFor(q)' <=> HeldFor(q)) /\ (StandsFor(q)' <=> StandsFor(q))
         /\ a \in Reqs => StandsFor(a)' /\ (HeldFor(a)' <=> isHeld \/ HeldFor(a))
<1> USE BoundAssumption DEF SessionInv, SessionTypeOK
<1>1. /\ last + 1 \in Msgs
      /\ answers[last + 1] = 0 /\ ~held[last + 1] /\ delivery[last + 1] = "absent"
  BY DEF InsertRow, RowsAllocated
<1>2. /\ answers'[last + 1] = a /\ delivery'[last + 1] = "pending" /\ held'[last + 1] = isHeld
      /\ \A m \in Msgs \ {last + 1} :
           answers'[m] = answers[m] /\ delivery'[m] = delivery[m] /\ held'[m] = held[m]
  BY <1>1 DEF InsertRow
<1>3. ASSUME NEW q \in Reqs \ {a} PROVE (HeldFor(q)' <=> HeldFor(q)) /\ (StandsFor(q)' <=> StandsFor(q))
  BY <1>1, <1>2 DEF HeldFor, StandsFor, Live
<1>4. ASSUME a \in Reqs PROVE StandsFor(a)' /\ (HeldFor(a)' <=> isHeld \/ HeldFor(a))
  <2>1. StandsFor(a)'
    BY <1>1, <1>2 DEF StandsFor, Live
  <2>2. HeldFor(a)' <=> isHeld \/ HeldFor(a)
    BY <1>1, <1>2, <1>4 DEF HeldFor
  <2> QED
    BY <2>1, <2>2
<1> QED
  BY <1>3, <1>4

-----------------------------------------------------------------------------
(* The statements of the store: each is a step of InputRequest or none.    *)

(* A claim, a completion or a recovery of claims concerns no question. *)
LEMMA QueueStep ==
  ASSUME SessionInv, NEW t \in Tokens,
         \/ \E m \in Msgs : ClaimUserMessage(t, m)
         \/ CompleteClaims(t)
         \/ RecoverClaimedUserMessages(t)
  PROVE  fates' = fates
<1>1. UNCHANGED <<nask, asks, retired, answers, held>>
  BY DEF ClaimUserMessage, CompleteClaims, RecoverClaimedUserMessages, requestVars
<1>2. \A n \in Msgs : Live(n)' <=> Live(n)
  BY DEF ClaimUserMessage, Wins, CompleteClaims, Owned, RecoverClaimedUserMessages, Stolen,
     Live, SessionInv, SessionTypeOK
<1>3. \A q \in Reqs : (HeldFor(q)' <=> HeldFor(q)) /\ (StandsFor(q)' <=> StandsFor(q))
  BY <1>1, <1>2 DEF HeldFor, StandsFor
<1> QED
  BY <1>1, <1>3, StutterOnFates

(* A user withdraws a row. *)
LEMMA CancelUndeliveredStep ==
  ASSUME SessionInv, NEW m \in Msgs, CancelUndeliveredUserMessage(m)
  PROVE  Request!Next
<1> USE DEF CancelUndeliveredUserMessage, requestVars
<1>1. \A q \in Reqs : HeldFor(q)' <=> HeldFor(q)
  BY DEF HeldFor
<1>2. \A q \in Reqs : StandsFor(q)' => StandsFor(q)
  BY DEF StandsFor, Live, SessionInv, SessionTypeOK
<1> QED
  BY <1>1, <1>2, WithdrawStep

(* Whoever loses its hold while its row is gone leaves its question to nobody. *)
LEMMA HoldGone ==
  ASSUME SessionInv, UNCHANGED answers, NEW q \in Reqs, HeldFor(q), ~HeldFor(q)',
         \A n \in Msgs : held[n] /\ ~held'[n] => ~Live(n)',
         \A n \in Msgs : Live(n)' => Live(n)
  PROVE  ~StandsFor(q)'
<1>1. PICK h \in Msgs : answers[h] = q /\ held[h]
  BY DEF HeldFor
<1>2. ~held'[h]
  BY <1>1 DEF HeldFor
<1>3. \A n \in Msgs \ {h} : answers[n] = q => ~Live(n)
  BY <1>1 DEF SessionInv, HoldsOwnTheirQuestion, Live
<1> QED
  BY <1>1, <1>2, <1>3 DEF StandsFor

(* The overseer's controller cancels its response. *)
LEMMA CancelResponseStep ==
  ASSUME SessionInv, NEW m \in Msgs, CancelPendingInputResponse(m)
  PROVE  Request!Next
<1> USE DEF CancelPendingInputResponse, requestVars
<1>1. \A q \in Reqs : HeldFor(q)' => HeldFor(q)
  BY DEF HeldFor, SessionInv, SessionTypeOK
<1>2. \A n \in Msgs : Live(n)' => Live(n)
  BY DEF Live, SessionInv, SessionTypeOK
<1>3. \A q \in Reqs : StandsFor(q)' => StandsFor(q)
  BY DEF Live, StandsFor, SessionInv, SessionTypeOK
<1>4. \A n \in Msgs : held[n] /\ ~held'[n] => ~Live(n)'
  BY DEF Live, SessionInv, SessionTypeOK
<1>5. ASSUME NEW q \in Reqs, HeldFor(q), ~HeldFor(q)' PROVE ~StandsFor(q)'
  BY <1>2, <1>4, <1>5, HoldGone
<1> QED
  BY <1>1, <1>3, <1>5, WithdrawStep

(* A release answers the question of a held response that still stands. *)
LEMMA ReleaseStep ==
  ASSUME SessionInv, NEW m \in Msgs, ReleasePendingInputResponse(m)
  PROVE  Request!Next
<1> USE BoundAssumption DEF ReleasePendingInputResponse, requestVars
<1>1. /\ UNCHANGED <<nask, asks, retired, answers, delivery>>
      /\ held' = [held EXCEPT ![m] = FALSE]
  OBVIOUS
<1>2. \A q \in Reqs : StandsFor(q)' <=> StandsFor(q)
  BY <1>1 DEF StandsFor, Live
<1>3. \A q \in Reqs : HeldFor(q)' => HeldFor(q)
  BY <1>1 DEF HeldFor, SessionInv, SessionTypeOK
<1>4. \A q \in Reqs \ {answers[m]} : HeldFor(q)' <=> HeldFor(q)
  BY <1>1 DEF HeldFor, SessionInv, SessionTypeOK
<1>5. CASE held[m] /\ Live(m)
  <2>1. /\ answers[m] \in Reqs
        /\ \A n \in Msgs \ {m} : answers[n] = answers[m] => ~held[n]
    BY <1>5 DEF SessionInv, SessionTypeOK, HoldsOwnTheirQuestion
  <2>2. HeldFor(answers[m]) /\ StandsFor(answers[m]) /\ ~HeldFor(answers[m])'
    BY <1>1, <1>5, <2>1 DEF HeldFor, StandsFor, SessionInv, SessionTypeOK
  <2>3. Fate(answers[m]) = "held"
    BY <2>1, <2>2, FateOf
  <2>4. Fate(answers[m])' = "answered"
    BY <1>1, <1>2, <2>1, <2>2, <2>3 DEF Fate
  <2>5. \A q \in Reqs \ {answers[m]} : Fate(q)' = Fate(q)
    BY <1>1, <1>2, <1>4, SameFate
  <2>6. fates' = [q \in Reqs |-> IF q \in {answers[m]} THEN "answered" ELSE fates[q]]
    BY <2>4, <2>5, FatesAfter DEF fates
  <2>7. answers[m] \in Request!Are("held")
    BY <2>1, <2>3 DEF Request!Are, fates
  <2>8. Request!Release(answers[m])
    BY <2>6, <2>7 DEF Request!Release, Request!Become
  <2> QED
    BY <2>1, <2>8 DEF Request!Next
<1>6. CASE ~(held[m] /\ Live(m))
  <2>1. \A n \in Msgs : Live(n)' <=> Live(n)
    BY <1>1 DEF Live
  <2>2. \A n \in Msgs : held[n] /\ ~held'[n] => ~Live(n)'
    BY <1>1, <1>6 DEF Live, SessionInv, SessionTypeOK
  <2>3. ASSUME NEW q \in Reqs, HeldFor(q), ~HeldFor(q)' PROVE ~StandsFor(q)'
    BY <1>1, <2>1, <2>2, <2>3, HoldGone
  <2> QED
    BY <1>1, <1>2, <1>3, <2>3, WithdrawStep
<1> QED
  BY <1>5, <1>6

(* The sweep of expired holds withdraws them, and puts the question of the *)
(* newest back unless another is open.                                     *)
LEMMA RecoverStep ==
  ASSUME SessionInv, NEW k \in Msgs, RecoverExpiredHeldInputResponses(k)
  PROVE  Request!Next
<1> USE BoundAssumption DEF RecoverExpiredHeldInputResponses
<1>1. /\ held[k] /\ Expired(k) \subseteq Msgs /\ k \in Expired(k) /\ answers' = answers
      /\ \A h \in Expired(k) : held[h] /\ ~held'[h] /\ delivery'[h] = "cancelled"
      /\ \A m \in Msgs \ Expired(k) : held'[m] = held[m] /\ delivery'[m] = delivery[m]
  <2>1. Expired(k) \subseteq Msgs /\ k \in Expired(k) /\ \A h \in Expired(k) : held[h]
    BY DEF Expired
  <2>2. delivery' = [h \in Msgs |-> IF h \in Expired(k) THEN "cancelled" ELSE delivery[h]]
    OBVIOUS
  <2>3. held' = [h \in Msgs |-> held[h] /\ h \notin Expired(k)]
    OBVIOUS
  <2>4. held \in [Msgs -> BOOLEAN]
    BY DEF SessionInv, SessionTypeOK
  <2> HIDE DEF RecoverExpiredHeldInputResponses
  <2>5. answers' = answers /\ held[k]
    BY DEF RecoverExpiredHeldInputResponses
  <2>6. \A m \in Msgs \ Expired(k) : held'[m] = held[m] /\ delivery'[m] = delivery[m]
    BY <2>2, <2>3, <2>4
  <2> QED
    BY <2>1, <2>2, <2>3, <2>5, <2>6
<1>2. \A q \in Reqs : HeldFor(q)' => HeldFor(q)
  BY <1>1 DEF HeldFor
<1>3. \A n \in Msgs : Live(n)' => Live(n)
  BY <1>1 DEF Live
<1>4. \A q \in Reqs : StandsFor(q)' => StandsFor(q)
  BY <1>1 DEF StandsFor, Live
<1>5. \A n \in Msgs : held[n] /\ ~held'[n] => ~Live(n)'
  BY <1>1 DEF Live
<1>6. ASSUME NEW q \in Reqs, HeldFor(q), ~HeldFor(q)' PROVE ~StandsFor(q)'
  BY <1>1, <1>3, <1>5, <1>6, HoldGone
<1>7. CASE request # 0 /\ UNCHANGED requestVars
  <2>1. UNCHANGED <<nask, asks, retired>>
    BY <1>7 DEF requestVars
  <2> QED
    BY <1>2, <1>4, <1>6, <2>1, WithdrawStep
<1>8. CASE Reask(k)
  <2> DEFINE b == answers[k]
             Q == {q \in Reqs : HeldFor(q) /\ ~HeldFor(q)'}
  <2>1. asks = 0 /\ asks' = b /\ UNCHANGED <<nask, retired>>
    BY <1>8 DEF Reask, Publish, SessionInv, RowsAllocated
  <2>2. b \in Reqs /\ b <= nask /\ \A n \in Msgs \ {k} : answers[n] = b => ~held[n]
    BY <1>1 DEF SessionInv, SessionTypeOK, RowsAllocated, HoldsOwnTheirQuestion
  <2>3. b \in Q
    BY <1>1, <2>2 DEF HeldFor
  <2>4. Fate(b)' = "open"
    BY <2>1, <2>2 DEF Fate, SessionInv, SessionTypeOK
  <2>5. ASSUME NEW q \in Q \ {b} PROVE Fate(q)' = "withdrawn"
    <3>1. Fate(q) = "held" /\ ~HeldFor(q)' /\ ~StandsFor(q)'
      BY <1>6, <2>5, FateOf
    <3> QED
      BY <2>1, <2>5, <3>1 DEF Fate
  <2>6. ASSUME NEW q \in Reqs \ Q PROVE Fate(q)' = Fate(q)
    <3>1. HeldFor(q)' <=> HeldFor(q)
      BY <1>2, <2>6
    <3>2. \A h \in Expired(k) : answers[h] # q
      <4> SUFFICES ASSUME NEW h \in Expired(k), answers[h] = q PROVE FALSE
        OBVIOUS
      <4>1. HeldFor(q) /\ \A n \in Msgs \ {h} : answers[n] = q => ~held[n]
        BY <1>1 DEF HeldFor, SessionInv, HoldsOwnTheirQuestion
      <4>2. PICK n \in Msgs : answers'[n] = q /\ held'[n]
        BY <3>1, <4>1 DEF HeldFor
      <4> QED
        BY <1>1, <4>1, <4>2
    <3>3. StandsFor(q)' <=> StandsFor(q)
      BY <1>1, <3>2 DEF StandsFor, Live
    <3>4. q # asks /\ q # asks'
      BY <2>1, <2>3, <2>6
    <3> QED
      BY <2>1, <3>1, <3>3, <3>4 DEF Fate
  <2>7. fates' = [p \in Reqs |-> IF p = b THEN "open"
                                 ELSE IF p \in Q THEN "withdrawn" ELSE fates[p]]
    BY <2>4, <2>5, <2>6, FatesAfter DEF fates
  <2>8. Q \subseteq Request!Are("held")
    BY FateOf DEF Request!Are
  <2>9. Request!Are("open") = {}
    BY <2>1, FateOf DEF Request!Are
  <2>10. Request!PutBack(Q, b)
    BY <2>3, <2>7, <2>8, <2>9 DEF Request!PutBack
  <2>11. Q \in SUBSET Reqs
    OBVIOUS
  <2> HIDE DEF Q, b
  <2> QED
    BY <2>3, <2>10, <2>11 DEF Request!Next
<1> QED
  BY <1>7, <1>8

(* A new question opens and drops the one it replaces. *)
LEMMA SetPendingStep ==
  ASSUME SessionInv, SetPending
  PROVE  Request!Next
<1>0. PICK b \in Reqs : b = nask + 1
  BY BoundAssumption DEF SetPending, Publish, SessionInv, SessionTypeOK, RowsAllocated
<1>1. /\ nask \in Nat /\ nask' = b /\ asks' = b
      /\ asks \in Nat /\ asks <= nask
      /\ retired' = IF asks = 0 THEN retired ELSE retired \cup {asks}
  BY <1>0, BoundAssumption
  DEF SetPending, Publish, Retire, SessionInv, SessionTypeOK, RowsAllocated
<1>2. \A q \in Reqs : (HeldFor(q)' <=> HeldFor(q)) /\ (StandsFor(q)' <=> StandsFor(q))
  BY DEF SetPending, rowVars, HeldFor, StandsFor, Live
<1>3. Fate(b)' = "open"
  BY <1>0, <1>1 DEF Fate
<1>4. ASSUME NEW q \in Reqs \ {b}, q = asks PROVE Fate(q)' = "dropped"
  BY <1>0, <1>1, <1>4 DEF Fate
<1>5. ASSUME NEW q \in Reqs \ {b}, q # asks PROVE Fate(q)' = Fate(q)
  BY <1>0, <1>1, <1>2, <1>5 DEF Fate
<1>6. \A q \in Reqs : q \in Request!Are("open") <=> q = asks
  BY FateOf DEF Request!Are
<1>7. fates' = [p \in Reqs |-> IF p = b THEN "open"
                               ELSE IF p \in Request!Are("open") THEN "dropped"
                               ELSE fates[p]]
  BY <1>3, <1>4, <1>5, <1>6, FatesAfter DEF fates
<1>8. \A q \in Reqs : q \in Request!Are("unasked") <=> q > nask
  BY FateOf DEF Request!Are
<1>9. \A p \in Request!Are("unasked") : p \in Reqs
  BY DEF Request!Are
<1>10. b \in Request!Are("unasked") /\ \A p \in Request!Are("unasked") : b <= p
  BY <1>0, <1>1, <1>8, <1>9
<1>11. Request!Ask(b)
  BY <1>7, <1>10 DEF Request!Ask
<1> QED
  BY <1>1, <1>11 DEF Request!Next

(* A clear drops the open question. *)
LEMMA ClearPendingStep ==
  ASSUME SessionInv, ClearPending
  PROVE  Request!Next \/ fates' = fates
<1>1. /\ nask' = nask /\ asks' = 0 /\ asks \in 0..MaxReqs /\ asks <= nask /\ nask \in Nat
      /\ retired' = IF asks = 0 THEN retired ELSE retired \cup {asks}
  BY BoundAssumption DEF ClearPending, Retire, SessionInv, SessionTypeOK, RowsAllocated
<1>2. \A q \in Reqs : (HeldFor(q)' <=> HeldFor(q)) /\ (StandsFor(q)' <=> StandsFor(q))
  BY DEF ClearPending, rowVars, HeldFor, StandsFor, Live
<1>3. CASE asks = 0
  BY <1>1, <1>2, <1>3, StutterOnFates
<1>4. CASE asks # 0
  <2>1. PICK b \in Reqs : b = asks
    BY <1>1, <1>4
  <2>2. Fate(b)' = "dropped"
    BY <1>1, <1>4, <2>1 DEF Fate
  <2>3. ASSUME NEW q \in Reqs \ {b} PROVE Fate(q)' = Fate(q)
    BY <1>1, <1>2, <1>4, <2>1, <2>3 DEF Fate
  <2>4. fates' = [q \in Reqs |-> IF q \in {b} THEN "dropped" ELSE fates[q]]
    BY <2>2, <2>3, FatesAfter DEF fates
  <2>5. b \in Request!Are("open")
    BY <2>1, FateOf DEF Request!Are
  <2>6. Request!Drop(b)
    BY <2>4, <2>5 DEF Request!Drop, Request!Become
  <2> QED
    BY <2>1, <2>6 DEF Request!Next
<1> QED
  BY <1>3, <1>4

(* An answer settles the open question, a reserved response holds it. *)
LEMMA ConsumeStep ==
  ASSUME SessionInv, NEW isHeld \in BOOLEAN, request # 0, InsertRow(isHeld, asks), Consume
  PROVE  Request!Next
<1>0. PICK b \in Reqs : b = asks
  BY DEF SessionInv, SessionTypeOK, RowsAllocated
<1>1. /\ UNCHANGED <<nask, retired>> /\ asks' = 0
      /\ b <= nask /\ nask \in Nat /\ b \notin retired
  BY <1>0, BoundAssumption
  DEF Consume, SessionInv, SessionTypeOK, RowsAllocated, OneDecisionPerQuestion
<1>2. \A q \in Reqs \ {b} : (HeldFor(q)' <=> HeldFor(q)) /\ (StandsFor(q)' <=> StandsFor(q))
  BY <1>0, <1>1, InsertRowFates
<1>3. ~HeldFor(b)
  BY <1>0 DEF HeldFor, SessionInv, HoldsOwnTheirQuestion
<1>4. StandsFor(b)' /\ (HeldFor(b)' <=> isHeld)
  BY <1>0, <1>1, <1>3, InsertRowFates
<1>5. Fate(b)' = IF isHeld THEN "held" ELSE "answered"
  BY <1>1, <1>4 DEF Fate
<1>6. ASSUME NEW q \in Reqs \ {b} PROVE Fate(q)' = Fate(q)
  BY <1>0, <1>1, <1>2, <1>6 DEF Fate
<1>7. b \in Request!Are("open")
  BY <1>0, <1>1, FateOf DEF Request!Are
<1>8. CASE isHeld
  <2>1. fates' = [q \in Reqs |-> IF q \in {b} THEN "held" ELSE fates[q]]
    BY <1>5, <1>6, <1>8, FatesAfter DEF fates
  <2>2. Request!Hold(b)
    BY <1>7, <2>1 DEF Request!Hold, Request!Become
  <2> QED
    BY <1>1, <2>2 DEF Request!Next
<1>9. CASE ~isHeld
  <2>1. fates' = [q \in Reqs |-> IF q \in {b} THEN "answered" ELSE fates[q]]
    BY <1>5, <1>6, <1>9, FatesAfter DEF fates
  <2>2. Request!Answer(b)
    BY <1>7, <2>1 DEF Request!Answer, Request!Become
  <2> QED
    BY <1>1, <2>2 DEF Request!Next
<1> QED
  BY <1>8, <1>9

-----------------------------------------------------------------------------
(* The initial states, every step, and the refinement.                     *)

LEMMA InitRefines == SessionInit => Request!Init
<1> SUFFICES ASSUME SessionInit PROVE Request!Init
  OBVIOUS
<1>1. \A q \in Reqs : Fate(q) = "unasked"
  BY BoundAssumption DEF SessionInit, Fate
<1> QED
  BY <1>1 DEF Request!Init, fates

LEMMA StepRefines ==
  ASSUME SessionInv, [SessionNext]_sessionVars
  PROVE  Request!Next \/ fates' = fates
<1>1. ASSUME AppendUserMessageIfActive PROVE AppendMessage
  BY <1>1 DEF AppendUserMessageIfActive
<1>2. CASE AppendMessage \/ AppendUserMessageIfActive
  <2>1. AppendMessage
    BY <1>1, <1>2
  <2>2. UNCHANGED <<nask, asks, retired>> /\ InsertRow(FALSE, 0)
    BY <2>1 DEF AppendMessage, requestVars
  <2>3. 0 \in 0..MaxReqs /\ FALSE \in BOOLEAN /\ Reqs \ {0} = Reqs
    BY BoundAssumption
  <2>4. \A q \in Reqs \ {0} : (HeldFor(q)' <=> HeldFor(q)) /\ (StandsFor(q)' <=> StandsFor(q))
    BY <2>2, <2>3, InsertRowFates
  <2> QED
    BY <2>2, <2>3, <2>4, StutterOnFates
<1>3. CASE \E t \in Tokens, m \in Msgs : ClaimUserMessage(t, m)
  BY <1>3, QueueStep
<1>4. CASE \E t \in Tokens : CompleteClaims(t) \/ RecoverClaimedUserMessages(t)
  BY <1>4, QueueStep
<1>5. CASE \E m \in Msgs : \/ CancelUndeliveredUserMessage(m)
                          \/ ReleasePendingInputResponse(m)
                          \/ CancelPendingInputResponse(m)
                          \/ RecoverExpiredHeldInputResponses(m)
  BY <1>5, CancelUndeliveredStep, ReleaseStep, CancelResponseStep, RecoverStep
<1>6. CASE SetPending
  BY <1>6, SetPendingStep
<1>7. CASE ClearPending \/ \E r \in Reqs : ClearPendingInputIfID(r)
  BY <1>7, ClearPendingStep DEF ClearPendingInputIfID
<1>8. CASE \E r \in Reqs : AnswerPendingInput(r) \/ ReservePendingInputResponse(r)
  <2>1. PICK r \in Reqs : AnswerPendingInput(r) \/ ReservePendingInputResponse(r)
    BY <1>8
  <2>2. CASE AnswerPendingInput(r)
    BY <2>2, ConsumeStep DEF AnswerPendingInput
  <2>3. CASE ReservePendingInputResponse(r)
    BY <2>3, ConsumeStep DEF ReservePendingInputResponse
  <2> QED
    BY <2>1, <2>2, <2>3
<1>9. CASE (\E ph \in Phases : UpdatePhase(ph)) \/ UNCHANGED sessionVars
  <2>1. UNCHANGED <<nask, asks, retired, answers, held, delivery>>
    BY <1>9 DEF UpdatePhase, rowVars, sessionVars
  <2> QED
    BY <2>1, StutterOnFates DEF HeldFor, StandsFor, Live
<1> QED
  BY <1>2, <1>3, <1>4, <1>5, <1>6, <1>7, <1>8, <1>9 DEF SessionNext

(* Every behaviour of the session store is one of InputRequest: nothing    *)
(* that runners, users, controllers and timeouts do through store.go takes *)
(* a question anywhere else.                                               *)
THEOREM QuestionsImplemented == SessionSpec => ImplementsInputRequest
<1>1. SessionInv /\ [SessionNext]_sessionVars => [Request!Next]_fates
  BY StepRefines
<1> QED
  BY <1>1, InitRefines, SessionInvariance, PTL
  DEF SessionSpec, ImplementsInputRequest, Request!Spec

-----------------------------------------------------------------------------
(* The parties to one request.                                             *)
USE BoundAssumption, TokenAssumption, ActorAssumption
USE DEF Msgs, Reqs, States, Phases, AgentUnchanged, UserUnchanged, OvUnchanged, OvSteps, Working

(* What a tab or the controller has loaded names one question for good. *)
ScreenInv ==
  /\ \A u \in Users : /\ view[u].request <= nreq
                      /\ view[u].request # 0 /\ view[u].request = request => view[u].asks = asks
  /\ ov.request <= nreq
  /\ ov.request # 0 /\ ov.request = request => ov.asks = asks

(* The controller's one response. *)
HoldInv ==
  /\ delivered # 0 => ov.step # "idle" /\ ov.request # 0 /\ request # ov.request /\ reserved[delivered]
  /\ \A m \in Msgs : held[m] => reserved[m]
  /\ \A m \in Msgs : reserved[m] => m = delivered
  /\ ov.step \in Working => ov.row # 0 /\ ov.row = delivered
  /\ \A m \in Msgs : held[m] => delivery[m] = "pending" \/ m \in withdrawn
  /\ \A m \in Msgs : held[m] /\ answers[m] = nask => request = 0

InputInv ==
  /\ SessionInv /\ InputTypeOK
  /\ ScreenInv /\ HoldInv
  /\ AnswersWhatWasSeen /\ NewestQuestionSurvives

LEMMA InputInitInv == InputInit => InputInv
<1> SUFFICES ASSUME InputInit PROVE InputInv
  OBVIOUS
<1>1. SessionInv
  BY SessionInitInv DEF InputInit
<1>2. InputTypeOK
  <2>1. 0 \in 0..MaxReqs /\ 0 \in 0..MaxMsgs /\ 0 \in 0..MaxCrashes
    OBVIOUS
  <2>2. view \in [Users -> [request : 0..MaxReqs, asks : 0..MaxReqs]] /\ call \in [Users -> Calls]
    BY <2>1 DEF InputInit, NoView, Calls
  <2>3. ov \in [step : OvSteps, request : 0..MaxReqs, asks : 0..MaxReqs, row : 0..MaxMsgs]
    BY <2>1 DEF InputInit
  <2>4. SessionTypeOK
    BY <1>1 DEF SessionInv
  <2> QED
    BY <2>1, <2>2, <2>3, <2>4 DEF InputInit, InputTypeOK
<1>3. ScreenInv /\ HoldInv
  BY DEF InputInit, SessionInit, ScreenInv, HoldInv, NoView
<1>4. AnswersWhatWasSeen /\ NewestQuestionSurvives
  BY DEF InputInit, SessionInit, AnswersWhatWasSeen, NewestQuestionSurvives
<1> QED
  BY <1>1, <1>2, <1>3, <1>4 DEF InputInv

-----------------------------------------------------------------------------
(* Each party's step is a statement of the store, or leaves it alone. *)
LEMMA AgentSteps == ASSUME InputInv, AgentNext PROVE [SessionNext]_sessionVars
<1> USE DEF InputInv, SessionInv, SessionTypeOK
<1>1. CASE AgentCommit
  BY <1>1 DEF AgentCommit, SessionNext
<1>2. CASE AgentAsk
  BY <1>2 DEF AgentAsk, SessionNext
<1>3. CASE AgentWait
  BY <1>3 DEF AgentWait
<1>4. CASE AgentSweep
  BY <1>4 DEF AgentSweep, SessionNext
<1>5. CASE AgentClaim
  BY <1>5 DEF AgentClaim, SessionNext
<1>6. CASE AgentStart
  BY <1>6 DEF AgentStart, SessionNext, ClearPendingInputIfID
<1> QED
  BY <1>1, <1>2, <1>3, <1>4, <1>5, <1>6 DEF AgentNext

LEMMA UserSteps == ASSUME InputInv, NEW u \in Users, UserNext(u) PROVE [SessionNext]_sessionVars
<1> USE DEF InputInv, SessionInv, SessionTypeOK
<1>1. CASE Load(u) \/ Submit(u) \/ UserRefused(u) \/ ModeDenied(u)
  BY <1>1 DEF Load, Submit, UserRefused, ModeDenied
<1>2. CASE UserAnswer(u)
  <2>1. view[u].request = request /\ request \in Reqs
    BY <1>2 DEF UserAnswer, AnswerPendingInput
  <2>2. AnswerPendingInput(request)
    BY <1>2, <2>1 DEF UserAnswer
  <2> QED
    BY <2>1, <2>2 DEF SessionNext
<1>3. CASE UserFallback(u) \/ ModeApplied(u) \/ PlanApprove(u)
  BY <1>3 DEF UserFallback, ModeApplied, PlanApprove, SessionNext
<1>4. CASE UserReject(u) \/ ModeConsume(u) \/ PlanCleared(u)
  BY <1>4 DEF UserReject, ModeConsume, PlanCleared, ClearPendingInputIfID, SessionNext
<1> QED
  BY <1>1, <1>2, <1>3, <1>4 DEF UserNext

LEMMA OverseerSteps == ASSUME InputInv, OverseerNext PROVE [SessionNext]_sessionVars
<1> USE DEF InputInv, SessionInv, SessionTypeOK
<1>1. ov.step \in Working => ov.row \in Msgs
  BY DEF HoldInv, InputTypeOK
<1>2. CASE Checkpoint \/ OvEffects \/ OvCrash
  BY <1>2 DEF Checkpoint, OvEffects, OvCrash
<1>3. CASE OvReserve
  <2>1. CASE ReservePendingInputResponse(ov.request)
    <3>1. ov.request = request /\ request \in Reqs
      BY <2>1 DEF ReservePendingInputResponse
    <3> QED
      BY <2>1, <3>1 DEF SessionNext
  <2> QED
    BY <1>3, <2>1 DEF OvReserve
<1>4. CASE OvCheck("check", "effect") \/ OvCheck("recheck", "release")
  BY <1>1, <1>4 DEF OvCheck, SessionNext
<1>5. CASE OvRelease
  BY <1>1, <1>5 DEF OvRelease, SessionNext
<1> QED
  BY <1>2, <1>3, <1>4, <1>5 DEF OverseerNext

LEMMA StoreStep == InputInv /\ [InputNext]_inputVars => [SessionNext]_sessionVars
<1> SUFFICES ASSUME InputInv, [InputNext]_inputVars PROVE [SessionNext]_sessionVars
  OBVIOUS
<1>1. ASSUME NEW m \in Msgs, Withdraw(m) PROVE [SessionNext]_sessionVars
  BY <1>1 DEF Withdraw, SessionNext
<1>2. CASE CancelRun \/ UNCHANGED inputVars
  BY <1>2 DEF CancelRun, inputVars
<1> QED
  BY <1>1, <1>2, AgentSteps, UserSteps, OverseerSteps DEF InputNext

-----------------------------------------------------------------------------
(* The types. *)
Screens == [request : 0..MaxReqs, asks : 0..MaxReqs]

(* A message inserted by an actor is a row, and what it answers a question. *)
LEMMA NewRow ==
  ASSUME SessionTypeOK, SessionTypeOK', last' = last + 1, NEW q \in 0..MaxReqs, seen \in [Msgs -> 0..MaxReqs]
  PROVE  last + 1 \in Msgs /\ [seen EXCEPT ![last + 1] = q] \in [Msgs -> 0..MaxReqs]
<1>1. last + 1 \in Msgs
  BY DEF SessionTypeOK
<1> QED
  BY <1>1

LEMMA InputTypes == InputInv /\ [InputNext]_inputVars => InputTypeOK'
<1> SUFFICES ASSUME InputInv, [InputNext]_inputVars PROVE InputTypeOK'
  OBVIOUS
<1>s. SessionTypeOK /\ SessionTypeOK'
  BY StoreStep, SessionNextInv DEF InputInv, SessionInv
<1>i. InputTypeOK
  BY DEF InputInv
<1>v. view \in [Users -> Screens] /\ call \in [Users -> Calls] /\ bound \in SUBSET Msgs /\ seen \in [Msgs -> 0..MaxReqs]
  BY <1>i DEF InputTypeOK, Screens
<1>o. ov \in [step : OvSteps, request : 0..MaxReqs, asks : 0..MaxReqs, row : 0..MaxMsgs] /\ delivered \in 0..MaxMsgs
      /\ crashes \in 0..MaxCrashes
  BY <1>i DEF InputTypeOK
<1>a. agent \in {"working", "deciding", "waiting", "starting"} /\ idle \in SUBSET Reqs
  BY <1>i DEF InputTypeOK
<1>1. CASE AgentNext
  <2>1. agent' \in {"working", "deciding", "waiting", "starting"}
    BY <1>1, <1>a DEF AgentNext, AgentCommit, AgentAsk, AgentWait, AgentSweep, AgentClaim,
                      AgentStart
  <2>2. idle' \in SUBSET Reqs
    <3>1. CASE AgentAsk
      <4>1. nask' = nask + 1 /\ nask \in 0..MaxReqs /\ nask' \in 0..MaxReqs
        BY <1>s, <3>1 DEF AgentAsk, SetPending, SessionTypeOK
      <4> QED
        <5>1. idle' = idle \/ idle' = idle \cup {nask + 1}
          BY <3>1 DEF AgentAsk
        <5>2. nask + 1 \in Reqs
          BY <4>1
        <5> QED
          BY <1>a, <5>1, <5>2
    <3> QED
      BY <1>1, <1>a, <3>1 DEF AgentNext, AgentCommit, AgentWait, AgentSweep, AgentClaim,
                              AgentStart
  <2>3. UNCHANGED <<bound, view, call, ov, delivered, runCancelled, withdrawn, seen, crashes>>
    BY <1>1
       DEF AgentNext, AgentCommit, AgentAsk, AgentWait, AgentSweep, AgentClaim, AgentStart
  <2> QED
    BY <1>s, <1>i, <2>1, <2>2, <2>3 DEF InputTypeOK, Screens
<1>2. ASSUME NEW u \in Users, UserNext(u) PROVE InputTypeOK'
  <2>1. view' \in [Users -> Screens]
    <3>1. Now \in Screens /\ NoView \in Screens
      BY <1>s DEF SessionTypeOK, Screens, Now, NoView
    <3>2. \/ view' = view
          \/ view' = [view EXCEPT ![u] = NoView]
          \/ view' = [view EXCEPT ![u] = Now]
          \/ view' = [view EXCEPT ![u].request = request]
      BY <1>2
         DEF UserNext, Load, UserAnswer, UserFallback, UserReject, ModeConsume,
             ModeApplied, ModeDenied, Submit, UserRefused, PlanApprove, PlanCleared, Done
    <3>3. request \in 0..MaxReqs
      BY <1>s DEF SessionTypeOK
    <3>4. [view EXCEPT ![u].request = request] \in [Users -> Screens]
      BY <1>v, <3>3 DEF Screens
    <3> QED
      BY <1>v, <3>1, <3>2, <3>4
  <2>2. call' \in [Users -> Calls]
    <3>1. call' = call \/ \E c \in Calls : call' = [call EXCEPT ![u] = c]
      BY <1>2
         DEF UserNext, Load, UserAnswer, UserFallback, UserReject, ModeConsume,
             ModeApplied, ModeDenied, Submit, UserRefused, PlanApprove, PlanCleared, Done, Calls
    <3> QED
      BY <1>v, <3>1
  <2>4. bound' \in SUBSET Msgs /\ seen' \in [Msgs -> 0..MaxReqs]
    <3>0. view[u].asks \in 0..MaxReqs
      BY <1>v DEF Screens
    <3>1. CASE UserAnswer(u)
      <4>1. last' = last + 1 /\ seen' = [seen EXCEPT ![last + 1] = view[u].asks] /\ bound' = bound \cup {last + 1}
        BY <3>1 DEF UserAnswer, AnswerPendingInput, InsertRow
      <4> QED
        BY <1>s, <1>v, <3>0, <4>1, NewRow
    <3>2. CASE ModeApplied(u)
      <4>1. last' = last + 1 /\ seen' = seen /\ bound' = bound \cup {last + 1}
        BY <3>2 DEF ModeApplied, AppendUserMessageIfActive, AppendMessage, InsertRow
      <4> QED
        BY <1>s, <1>v, <3>0, <4>1, NewRow
    <3> QED
      BY <1>2, <1>v, <3>1, <3>2
         DEF UserNext, Load, Submit, UserFallback, UserRefused, UserReject, ModeConsume,
             ModeDenied, PlanApprove, PlanCleared
  <2>3. UNCHANGED <<agent, idle, ov, delivered, runCancelled, withdrawn, crashes>>
    BY <1>2 DEF UserNext, Load, UserAnswer, UserFallback, UserReject, ModeConsume,
                ModeApplied, ModeDenied, Submit, UserRefused, PlanApprove, PlanCleared
  <2> QED
    BY <1>s, <1>i, <2>1, <2>2, <2>3, <2>4 DEF InputTypeOK, Screens
<1>3. ASSUME NEW m \in Msgs, Withdraw(m) PROVE InputTypeOK'
  BY <1>s, <1>i, <1>3 DEF Withdraw, InputTypeOK
<1>4. CASE CancelRun
  BY <1>s, <1>i, <1>4 DEF CancelRun, InputTypeOK
<1>5. CASE OverseerNext
  <2>1. ov' \in [step : OvSteps, request : 0..MaxReqs, asks : 0..MaxReqs, row : 0..MaxMsgs] /\ delivered' \in 0..MaxMsgs
    <3>1. CASE OvReserve
      <4>1. \/ /\ last' = last + 1 /\ delivered' = last + 1
              /\ ov' = [ov EXCEPT !.step = "check", !.row = last + 1]
            \/ delivered' = delivered /\ ov' = [ov EXCEPT !.step = "check", !.row = delivered]
            \/ delivered' = delivered /\ ov' = [ov EXCEPT !.step = "stale"]
        BY <3>1 DEF OvReserve, ReservePendingInputResponse, InsertRow
      <4>2. last' = last + 1 => last + 1 \in 0..MaxMsgs
        BY <1>s DEF SessionTypeOK
      <4> QED
        BY <1>o, <4>1, <4>2
    <3>2. CASE Checkpoint
      BY <1>s, <1>o, <3>2 DEF Checkpoint, SessionTypeOK
    <3>3. CASE OvCheck("check", "effect") \/ OvCheck("recheck", "release")
      BY <1>o, <3>3 DEF OvCheck
    <3>4. CASE OvEffects \/ OvRelease
      BY <1>o, <3>4 DEF OvEffects, OvRelease
    <3>5. CASE OvCrash
      <4>1. ov' = [ov EXCEPT !.step = "reserve", !.row = 0] /\ delivered' = delivered
        BY <3>5 DEF OvCrash
      <4>2. 0 \in 0..MaxMsgs /\ "reserve" \in OvSteps
        OBVIOUS
      <4> QED
        BY <1>o, <4>1, <4>2
    <3> QED
      BY <1>5, <3>1, <3>2, <3>3, <3>4, <3>5 DEF OverseerNext
  <2>2. seen' \in [Msgs -> 0..MaxReqs] /\ crashes' \in 0..MaxCrashes
    <3>1. CASE OvReserve
      <4>1. crashes' = crashes
            /\ (seen' = seen \/ (last' = last + 1 /\ seen' = [seen EXCEPT ![last + 1] = ov.asks]))
        BY <3>1 DEF OvReserve, ReservePendingInputResponse, InsertRow
      <4>2. ov.asks \in 0..MaxReqs
        BY <1>o
      <4> QED
        BY <1>s, <1>v, <1>o, <4>1, <4>2, NewRow
    <3>2. CASE OvCrash
      BY <1>v, <1>o, <3>2 DEF OvCrash
    <3> QED
      BY <1>5, <1>v, <1>o, <3>1, <3>2 DEF OverseerNext, Checkpoint, OvCheck, OvEffects,
                                          OvRelease
  <2>3. UNCHANGED <<agent, idle, bound, view, call, withdrawn, runCancelled>>
    BY <1>5
       DEF OverseerNext, Checkpoint, OvReserve, OvCheck, OvEffects, OvRelease, OvCrash
  <2> QED
    BY <1>s, <1>i, <2>1, <2>2, <2>3 DEF InputTypeOK, Screens
<1>6. CASE UNCHANGED inputVars
  BY <1>s, <1>i, <1>6 DEF inputVars, actorVars, InputTypeOK
<1> QED
  BY <1>1, <1>2, <1>3, <1>4, <1>5, <1>6 DEF InputNext

-----------------------------------------------------------------------------
(* Request ids are never reused: a statement leaves the pending request    *)
(* alone, consumes it, or publishes under a fresh id.                      *)
IdsMove ==
  \/ request' = request /\ asks' = asks /\ nreq' = nreq
  \/ request' = 0 /\ nreq' = nreq
  \/ request' = nreq + 1 /\ nreq' = nreq + 1

LEMMA StoreIds == ASSUME [SessionNext]_sessionVars PROVE IdsMove
BY DEF SessionNext, sessionVars, rowVars, requestVars, AppendMessage,
       AppendUserMessageIfActive, ClaimUserMessage, CompleteClaims,
       RecoverClaimedUserMessages, CancelUndeliveredUserMessage, SetPending, ClearPending,
       ClearPendingInputIfID, AnswerPendingInput, ReservePendingInputResponse,
       ReleasePendingInputResponse, CancelPendingInputResponse,
       RecoverExpiredHeldInputResponses, Reask, Publish, Consume, UpdatePhase, IdsMove

LEMMA ScreenStep == InputInv /\ [InputNext]_inputVars => ScreenInv'
<1> SUFFICES ASSUME InputInv, [InputNext]_inputVars PROVE ScreenInv'
  OBVIOUS
<1>1. IdsMove
  BY StoreStep, StoreIds
<1>2. ScreenInv /\ request \in Nat /\ nreq \in Nat /\ request <= nreq
  BY DEF InputInv, SessionInv, SessionTypeOK, RowsAllocated
<1>3. /\ view \in [Users -> [request : 0..MaxReqs, asks : 0..MaxReqs]]
      /\ ov \in [step : OvSteps, request : 0..MaxReqs, asks : 0..MaxReqs, row : 0..MaxMsgs]
  BY DEF InputInv, InputTypeOK
<1>4. ASSUME NEW u \in Users
      PROVE  \/ view'[u] = view[u] \/ view'[u] = NoView
             \/ view'[u] = Now /\ UNCHANGED <<request, asks, nreq>>
  <2>1. ASSUME NEW v \in Users, UserNext(v)
        PROVE  \/ view' = view \/ view' = [view EXCEPT ![v] = NoView]
               \/ view' = [view EXCEPT ![v] = Now] /\ UNCHANGED <<request, asks, nreq>>
    <3>1. CASE Submit(v)
      <4>1. view[v].request = request => [view EXCEPT ![v].request = request] = view
        BY <1>3
      <4> QED
        BY <3>1, <4>1 DEF Submit, sessionVars
    <3> QED
      BY <2>1, <3>1
         DEF UserNext, Load, UserAnswer, UserFallback, UserReject, ModeConsume,
             ModeApplied, ModeDenied, UserRefused, PlanApprove, PlanCleared, Done, sessionVars
  <2>2. (\E v \in Users : UserNext(v)) \/ view' = view
    BY DEF InputNext, AgentNext, AgentCommit, AgentAsk, AgentWait, AgentSweep, AgentClaim,
           AgentStart, Withdraw, CancelRun, OverseerNext, Checkpoint, OvReserve, OvCheck,
           OvEffects, OvRelease, OvCrash, inputVars, actorVars
  <2> QED
    BY <1>3, <2>1, <2>2
<1>5. \/ ov'.request = ov.request /\ ov'.asks = ov.asks
      \/ ov'.request = request /\ ov'.asks = asks /\ UNCHANGED <<request, asks, nreq>>
  <2>1. CASE OverseerNext
    <3>1. CASE OvCheck("check", "effect") \/ OvCheck("recheck", "release")
      BY <1>3, <3>1 DEF OvCheck
    <3>2. CASE Checkpoint
      BY <3>2 DEF Checkpoint, sessionVars
    <3>4. CASE OvEffects \/ OvRelease
      BY <1>3, <3>4 DEF OvEffects, OvRelease
    <3>5. CASE OvCrash
      BY <1>3, <3>5 DEF OvCrash
    <3>3. CASE OvReserve
      <4>1. \/ ov' = [ov EXCEPT !.step = "check", !.row = last + 1]
            \/ ov' = [ov EXCEPT !.step = "check", !.row = delivered]
            \/ ov' = [ov EXCEPT !.step = "stale"]
        BY <3>3 DEF OvReserve
      <4> QED
        BY <1>3, <4>1
    <3> QED
      BY <2>1, <3>1, <3>2, <3>3, <3>4, <3>5 DEF OverseerNext
  <2>2. OverseerNext \/ ov' = ov
    BY DEF InputNext, AgentNext, AgentCommit, AgentAsk, AgentWait, AgentSweep, AgentClaim,
           AgentStart, Withdraw, CancelRun, UserNext, Load, UserAnswer, UserFallback,
           UserReject, ModeConsume,
                ModeApplied, ModeDenied, Submit, UserRefused, PlanApprove, PlanCleared, inputVars, actorVars
  <2> QED
    BY <2>1, <2>2
<1>6. ASSUME NEW u \in Users
      PROVE  /\ view'[u].request <= nreq'
             /\ view'[u].request # 0 /\ view'[u].request = request' => view'[u].asks = asks'
  BY <1>1, <1>2, <1>3, <1>4 DEF IdsMove, ScreenInv, NoView, Now
<1>7. ov'.request <= nreq' /\ (ov'.request # 0 /\ ov'.request = request' => ov'.asks = asks')
  BY <1>1, <1>2, <1>3, <1>5 DEF IdsMove, ScreenInv
<1> QED
  BY <1>6, <1>7 DEF ScreenInv

-----------------------------------------------------------------------------
(* What a row answers is what its sender acted on. *)
LEMMA AnswersStep == InputInv /\ [InputNext]_inputVars => AnswersWhatWasSeen'
<1> SUFFICES ASSUME InputInv, [InputNext]_inputVars PROVE AnswersWhatWasSeen'
  OBVIOUS
<1>1. AnswersWhatWasSeen /\ ScreenInv
  BY DEF InputInv
<1>2. answers \in [Msgs -> 0..MaxReqs] /\ seen \in [Msgs -> 0..MaxReqs]
  BY DEF InputInv, InputTypeOK, SessionTypeOK
<1>3. ASSUME NEW u \in Users, UserNext(u) PROVE AnswersWhatWasSeen'
  <2>1. CASE UserAnswer(u)
    <3>1. view[u].asks = asks
      BY <1>1, <2>1 DEF UserAnswer, AnswerPendingInput, ScreenInv
    <3>2. answers' = [answers EXCEPT ![last + 1] = asks] /\ seen' = [seen EXCEPT ![last + 1] = asks]
      BY <2>1, <3>1 DEF UserAnswer, AnswerPendingInput, InsertRow
    <3> QED
      BY <1>1, <1>2, <3>2 DEF AnswersWhatWasSeen
  <2>2. CASE UserFallback(u) \/ ModeApplied(u) \/ PlanApprove(u)
    <3>1. answers' = [answers EXCEPT ![last + 1] = 0] /\ seen' = seen
      BY <2>2 DEF UserFallback, ModeApplied, PlanApprove, AppendUserMessageIfActive,
                  AppendMessage, InsertRow
    <3> QED
      BY <1>1, <1>2, <3>1 DEF AnswersWhatWasSeen
  <2>3. CASE \/ Load(u) \/ Submit(u) \/ UserRefused(u) \/ UserReject(u)
             \/ ModeConsume(u) \/ ModeDenied(u) \/ PlanCleared(u)
    <3>1. answers' = answers /\ seen' = seen
      BY <2>3 DEF Load, Submit, UserRefused, UserReject, ModeConsume, ModeDenied, PlanCleared,
                  ClearPendingInputIfID, ClearPending, rowVars, sessionVars
    <3> QED
      BY <1>1, <3>1 DEF AnswersWhatWasSeen
  <2> QED
    BY <1>3, <2>1, <2>2, <2>3 DEF UserNext
<1>4. CASE OvReserve
  <2>1. CASE UNCHANGED <<sessionVars, seen>>
    BY <1>1, <2>1 DEF AnswersWhatWasSeen, sessionVars
  <2>2. CASE ReservePendingInputResponse(ov.request)
    <3>1. ov.asks = asks
      BY <1>1, <2>2 DEF ReservePendingInputResponse, ScreenInv
    <3>2. answers' = [answers EXCEPT ![last + 1] = asks]
      BY <2>2 DEF ReservePendingInputResponse, InsertRow
    <3>3. seen' = [seen EXCEPT ![last + 1] = asks]
      BY <1>1, <1>4, <2>2, <3>1 DEF OvReserve, ReservePendingInputResponse
    <3> QED
      BY <1>1, <1>2, <3>2, <3>3 DEF AnswersWhatWasSeen
  <2> QED
    BY <1>4, <2>1, <2>2 DEF OvReserve
<1>5. CASE \/ AgentNext \/ (\E m \in Msgs : Withdraw(m)) \/ CancelRun \/ UNCHANGED inputVars
           \/ Checkpoint \/ OvEffects \/ OvRelease \/ OvCrash
           \/ OvCheck("check", "effect") \/ OvCheck("recheck", "release")
  <2>1. answers' = answers /\ seen' = seen
    BY <1>5
       DEF AgentNext, AgentCommit, AgentAsk, AgentWait, AgentSweep, AgentClaim,
           AgentStart, Withdraw, CancelRun, Checkpoint, OvEffects, OvRelease, OvCrash,
           OvCheck, inputVars, actorVars, sessionVars, rowVars, CompleteClaims,
           SetPending, RecoverExpiredHeldInputResponses, ClaimUserMessage,
           ClearPendingInputIfID, ClearPending, CancelUndeliveredUserMessage,
           ReleasePendingInputResponse, CancelPendingInputResponse
  <2> QED
    BY <1>1, <2>1 DEF AnswersWhatWasSeen
<1> QED
  BY <1>3, <1>4, <1>5 DEF InputNext, OverseerNext

-----------------------------------------------------------------------------
(* The controller's hold.  A step that inserts no held row and leaves the  *)
(* controller alone keeps it.                                              *)
LEMMA HoldKept ==
  ASSUME InputInv, [InputNext]_inputVars, ov' = ov, delivered' = delivered, reserved' = reserved,
         \A m \in Msgs : held'[m] =>
           /\ held[m] /\ answers'[m] = answers[m]
           /\ delivery'[m] = delivery[m] \/ m \in withdrawn'
           /\ request' = 0 \/ nask' # nask \/ request' = request,
         nask' = nask \/ nask' = nask + 1, withdrawn \subseteq withdrawn'
  PROVE  HoldInv'
<1>1. HoldInv /\ ScreenInv /\ RowsAllocated
  BY DEF InputInv, SessionInv
<1>2. IdsMove
  BY StoreStep, StoreIds
<1>3. ov.request \in Nat /\ nreq \in Nat /\ nask \in Nat /\ answers \in [Msgs -> 0..MaxReqs]
  BY DEF InputInv, InputTypeOK, SessionTypeOK
<1>4. delivered # 0 => /\ ov.step # "idle" /\ ov.request # 0
                       /\ request' # ov.request /\ reserved[delivered]
  BY <1>1, <1>2, <1>3 DEF HoldInv, ScreenInv, IdsMove
<1>5. ASSUME NEW m \in Msgs, held'[m] PROVE delivery'[m] = "pending" \/ m \in withdrawn'
  BY <1>1, <1>5 DEF HoldInv
<1>6. ASSUME NEW m \in Msgs, held'[m], answers'[m] = nask' PROVE request' = 0
  BY <1>1, <1>3, <1>6 DEF HoldInv, RowsAllocated
<1> QED
  BY <1>1, <1>4, <1>5, <1>6 DEF HoldInv

(* A step of the controller that reserves nothing new. *)
LEMMA HoldMoves ==
  ASSUME HoldInv, NEW step \in OvSteps \ {"idle"}, UNCHANGED <<delivered, reserved, request, nask, answers, withdrawn>>,
         ov'.step = step, ov'.request = ov.request \/ delivered = 0,
         step \in Working => ov'.row = delivered /\ delivered # 0,
         \A m \in Msgs : held'[m] => held[m] /\ delivery'[m] = delivery[m]
  PROVE  HoldInv'
BY DEF HoldInv

LEMMA HoldStep == InputInv /\ [InputNext]_inputVars => HoldInv'
<1> SUFFICES ASSUME InputInv, [InputNext]_inputVars PROVE HoldInv'
  OBVIOUS
<1>h. HoldInv
  BY DEF InputInv
<1>t. SessionTypeOK /\ RowsAllocated /\ HoldsBlockTheQueue
  BY DEF InputInv, SessionInv
<1>1. CASE AgentNext
  <2>0. ov' = ov /\ delivered' = delivered /\ withdrawn' = withdrawn
    BY <1>1
       DEF AgentNext, AgentCommit, AgentAsk, AgentWait, AgentSweep, AgentClaim, AgentStart
  <2>1. CASE AgentCommit
    <3>1. /\ UNCHANGED <<held, reserved, answers, request, nask>>
          /\ delivery' = [m \in Msgs |-> IF m \in Owned(Runner) THEN "completed" ELSE delivery[m]]
      BY <2>1 DEF AgentCommit, CompleteClaims, requestVars
    <3>2. \A m \in Msgs : held[m] => m \notin Owned(Runner)
      BY <1>t DEF HoldsBlockTheQueue, Owned
    <3> QED
      BY <2>0, <3>1, <3>2, HoldKept
  <2>2. CASE AgentAsk
    BY <2>0, <2>2, HoldKept, <1>t DEF AgentAsk, SetPending, rowVars, SessionTypeOK
  <2>3. CASE AgentWait
    BY <2>0, <2>3, HoldKept DEF AgentWait, sessionVars
  <2>4. CASE AgentSweep
    <3>1. PICK k \in Msgs : RecoverExpiredHeldInputResponses(k)
      BY <2>4 DEF AgentSweep
    <3>2. \A m \in Msgs : ~held'[m]
      <4>1. held[k] /\ \A m \in Msgs : held'[m] => held[m] /\ ~(m \in 1..k /\ held[m])
        BY <3>1 DEF RecoverExpiredHeldInputResponses, Expired
      <4>2. \A m \in Msgs : held[m] => m = k
        BY <1>h, <4>1 DEF HoldInv
      <4> QED
        BY <4>1, <4>2
    <3>3. reserved' = reserved /\ nask' = nask
      BY <3>1 DEF RecoverExpiredHeldInputResponses, Reask, requestVars
    <3> QED
      BY <2>0, <3>2, <3>3, HoldKept
  <2>5. CASE AgentClaim
    <3>1. PICK m \in Msgs : ClaimUserMessage(Runner, m)
      BY <2>5 DEF AgentClaim
    <3>2. ~held[m]
      BY <3>1 DEF ClaimUserMessage, BeforeHolds
    <3> QED
      BY <1>t, <2>0, <3>1, <3>2, HoldKept DEF ClaimUserMessage, requestVars, SessionTypeOK
  <2>6. CASE AgentStart
    BY <2>0, <2>6, HoldKept, <1>t
       DEF AgentStart, ClearPendingInputIfID, ClearPending, rowVars, sessionVars,
           SessionTypeOK
  <2> QED
    BY <1>1, <2>1, <2>2, <2>3, <2>4, <2>5, <2>6 DEF AgentNext
<1>2. ASSUME NEW u \in Users, UserNext(u) PROVE HoldInv'
  <2>0. ov' = ov /\ delivered' = delivered /\ withdrawn' = withdrawn
    BY <1>2 DEF UserNext, Load, UserAnswer, UserFallback, UserReject, ModeConsume,
                ModeApplied, ModeDenied, Submit, UserRefused, PlanApprove, PlanCleared
  <2>1. ASSUME NEW q \in 0..MaxReqs, InsertRow(FALSE, q), request' = request \/ request' = 0, nask' = nask
        PROVE  HoldInv'
    <3>1. last + 1 \in Msgs /\ ~held[last + 1] /\ ~reserved[last + 1]
      BY <1>t, <2>1 DEF InsertRow, SessionTypeOK, RowsAllocated
    <3>2. held' = [held EXCEPT ![last + 1] = FALSE] /\ reserved' = [reserved EXCEPT ![last + 1] = FALSE]
      BY <2>1 DEF InsertRow
    <3>3. \A m \in Msgs : held'[m] => held[m] /\ m # last + 1
      BY <1>t, <3>1, <3>2 DEF SessionTypeOK
    <3>4. reserved' = reserved
      BY <1>t, <3>1, <3>2 DEF SessionTypeOK
    <3>5. \A m \in Msgs : m # last + 1 => answers'[m] = answers[m] /\ delivery'[m] = delivery[m]
      BY <1>t, <2>1 DEF InsertRow, SessionTypeOK
    <3> QED
      BY <2>0, <2>1, <3>3, <3>4, <3>5, HoldKept
  <2>2. CASE UserAnswer(u)
    <3>1. InsertRow(FALSE, asks) /\ request' = 0 /\ nask' = nask /\ asks \in 0..MaxReqs
      BY <1>t, <2>2 DEF UserAnswer, AnswerPendingInput, Consume, SessionTypeOK
    <3> QED
      BY <2>1, <3>1
  <2>3. CASE UserFallback(u) \/ ModeApplied(u) \/ PlanApprove(u)
    <3>1. InsertRow(FALSE, 0) /\ request' = request /\ nask' = nask
      BY <2>3 DEF UserFallback, ModeApplied, PlanApprove, AppendUserMessageIfActive,
                  AppendMessage, requestVars
    <3>2. 0 \in 0..MaxReqs
      OBVIOUS
    <3> QED
      BY <2>1, <3>1, <3>2
  <2>4. CASE \/ Load(u) \/ Submit(u) \/ UserRefused(u) \/ UserReject(u)
             \/ ModeConsume(u) \/ ModeDenied(u) \/ PlanCleared(u)
    <3>1. UNCHANGED <<held, reserved, answers, delivery, nask>> /\ (request' = request \/ request' = 0)
      BY <2>4 DEF Load, Submit, UserRefused, UserReject, ModeConsume, ModeDenied, PlanCleared,
                  ClearPendingInputIfID, ClearPending, rowVars, sessionVars
    <3> QED
      BY <2>0, <3>1, HoldKept
  <2> QED
    BY <1>2, <2>2, <2>3, <2>4 DEF UserNext
<1>3. ASSUME NEW m \in Msgs, Withdraw(m) PROVE HoldInv'
  <2>1. UNCHANGED <<held, reserved, answers, nask, request, ov, delivered>> /\ withdrawn' = withdrawn \cup {m}
        /\ delivery' = [delivery EXCEPT ![m] = "cancelled"]
    BY <1>3 DEF Withdraw, CancelUndeliveredUserMessage, requestVars
  <2> QED
    BY <1>t, <2>1, HoldKept DEF SessionTypeOK
<1>4. CASE CancelRun \/ UNCHANGED inputVars
  BY <1>4, HoldKept DEF CancelRun, inputVars, actorVars, sessionVars
<1>5. CASE OvReserve
  <2>o. ov \in [step : OvSteps, request : 0..MaxReqs, asks : 0..MaxReqs, row : 0..MaxMsgs] /\ delivered \in 0..MaxMsgs
    BY DEF InputInv, InputTypeOK
  <2>1. CASE ReservePendingInputResponse(ov.request) /\ delivered' = last + 1
             /\ ov' = [ov EXCEPT !.step = "check", !.row = last + 1]
    <3>1. delivered = 0 /\ \A m \in Msgs : ~reserved[m] /\ ~held[m]
      BY <1>h, <2>1 DEF ReservePendingInputResponse, HoldInv
    <3>2. last + 1 \in Msgs /\ last + 1 # 0
      BY <1>t, <2>1 DEF ReservePendingInputResponse, InsertRow, SessionTypeOK
    <3>3. /\ held' = [held EXCEPT ![last + 1] = TRUE] /\ reserved' = [reserved EXCEPT ![last + 1] = TRUE]
          /\ delivery' = [delivery EXCEPT ![last + 1] = "pending"]
          /\ request' = 0 /\ ov.request # 0
      BY <2>1 DEF ReservePendingInputResponse, InsertRow, Consume
    <3>4. \A m \in Msgs : (held'[m] <=> m = last + 1) /\ (reserved'[m] <=> m = last + 1)
      BY <1>t, <3>1, <3>2, <3>3 DEF SessionTypeOK
    <3>5. delivery'[last + 1] = "pending"
      BY <1>t, <3>2, <3>3 DEF SessionTypeOK
    <3>6. ov'.request = ov.request /\ ov'.row = last + 1
      BY <2>o, <2>1
    <3> QED
      BY <2>1, <3>2, <3>3, <3>4, <3>5, <3>6 DEF HoldInv
  <2>2. CASE /\ request # ov.request /\ delivered # 0 /\ ov' = [ov EXCEPT !.step = "check", !.row = delivered]
             /\ UNCHANGED <<sessionVars, delivered>>
    <3>1. ov'.step = "check" /\ ov'.request = ov.request /\ ov'.row = delivered
      BY <2>o, <2>2
    <3>2. UNCHANGED <<delivered, reserved, request, nask, answers, withdrawn, held, delivery>>
      BY <1>5, <2>2 DEF OvReserve, sessionVars
    <3> QED
      BY <1>h, <2>2, <3>1, <3>2, HoldMoves
  <2>3. CASE ov' = [ov EXCEPT !.step = "stale"] /\ UNCHANGED <<sessionVars, delivered>>
    <3>1. ov'.step = "stale" /\ ov'.request = ov.request
      BY <2>o, <2>3
    <3>2. UNCHANGED <<delivered, reserved, request, nask, answers, withdrawn, held, delivery>>
      BY <1>5, <2>3 DEF OvReserve, sessionVars
    <3> QED
      BY <1>h, <3>1, <3>2, HoldMoves
  <2> QED
    BY <1>5, <2>1, <2>2, <2>3 DEF OvReserve
<1>o. ov \in [step : OvSteps, request : 0..MaxReqs, asks : 0..MaxReqs, row : 0..MaxMsgs]
  BY DEF InputInv, InputTypeOK
<1>6. CASE Checkpoint \/ OvEffects \/ OvCrash
  <2>1. UNCHANGED <<delivered, reserved, request, nask, answers, withdrawn, held, delivery>>
    BY <1>6 DEF Checkpoint, OvEffects, OvCrash, sessionVars
  <2>2. CASE Checkpoint
    BY <1>h, <2>1, <2>2, HoldMoves DEF Checkpoint, HoldInv
  <2>3. CASE OvEffects
    <3>1. ov.step = "effect" /\ ov'.step = "recheck" /\ ov'.request = ov.request /\ ov'.row = ov.row
      BY <1>o, <2>3 DEF OvEffects
    <3> QED
      BY <1>h, <2>1, <3>1, HoldMoves DEF HoldInv
  <2>4. CASE OvCrash
    <3>1. ov'.step = "reserve" /\ ov'.request = ov.request
      BY <1>o, <2>4 DEF OvCrash
    <3> QED
      BY <1>h, <2>1, <3>1, HoldMoves
  <2> QED
    BY <1>6, <2>2, <2>3, <2>4
<1>7. ASSUME NEW now \in {"check", "recheck"}, NEW next \in {"effect", "release"}, OvCheck(now, next)
      PROVE  HoldInv'
  <2>1. ov'.request = ov.request /\ ov'.row = ov.row /\ ov.step = now
        /\ (ov'.step = "discarded" \/ ov'.step = next)
    BY <1>o, <1>7 DEF OvCheck
  <2>2. UNCHANGED <<delivered, reserved, request, nask, answers, withdrawn>>
    BY <1>7 DEF OvCheck, CancelPendingInputResponse, requestVars, sessionVars
  <2>3. \A m \in Msgs : held'[m] => held[m] /\ delivery'[m] = delivery[m]
    BY <1>t, <1>7 DEF OvCheck, CancelPendingInputResponse, sessionVars, SessionTypeOK
  <2> QED
    BY <1>h, <2>1, <2>2, <2>3, HoldMoves DEF HoldInv
<1>8. CASE OvRelease
  <2>1. ov'.request = ov.request /\ ov'.step = "resolved"
    BY <1>o, <1>8 DEF OvRelease
  <2>2. UNCHANGED <<delivered, reserved, request, nask, answers, withdrawn, delivery>>
    BY <1>8 DEF OvRelease, ReleasePendingInputResponse, requestVars
  <2>3. \A m \in Msgs : held'[m] => held[m]
    BY <1>t, <1>8 DEF OvRelease, ReleasePendingInputResponse, SessionTypeOK
  <2> QED
    BY <1>h, <2>1, <2>2, <2>3, HoldMoves
<1> QED
  BY <1>1, <1>2, <1>3, <1>4, <1>5, <1>6, <1>7, <1>8 DEF InputNext, OverseerNext

-----------------------------------------------------------------------------
(* The newest question: open, retired, or decided by a row. *)
DecidedBy(m) == answers[m] = nask /\ (held[m] \/ Live(m) \/ m \in withdrawn)
Decided      == \E m \in Msgs : DecidedBy(m)
Survives     == asks = nask \/ nask \in retired \/ Decided

LEMMA NewestIs == NewestQuestionSurvives <=> (nask # 0 /\ ~runCancelled => Survives)
BY DEF NewestQuestionSurvives, Survives, Decided, DecidedBy

(* A step that asks nothing new, forgets no retirement and loses no row.   *)
LEMMA NewestKept ==
  ASSUME InputInv, nask' = nask, runCancelled' = runCancelled, retired \subseteq retired',
         nask # 0 /\ asks = nask => Survives',
         nask # 0 => \A m \in Msgs : DecidedBy(m) => Survives'
  PROVE  NewestQuestionSurvives'
<1> SUFFICES ASSUME nask # 0, ~runCancelled PROVE Survives'
  BY DEF NewestQuestionSurvives, Survives, Decided, DecidedBy
<1>1. Survives
  BY NewestIs DEF InputInv
<1>2. CASE nask \in retired
  BY <1>2 DEF Survives
<1> QED
  BY <1>1, <1>2 DEF Survives, Decided

LEMMA NewestStep == InputInv /\ [InputNext]_inputVars => NewestQuestionSurvives'
<1> SUFFICES ASSUME InputInv, [InputNext]_inputVars PROVE NewestQuestionSurvives'
  OBVIOUS
<1>h. HoldInv /\ NewestQuestionSurvives
  BY DEF InputInv
<1>t. SessionTypeOK /\ RowsAllocated
  BY DEF InputInv, SessionInv
<1>1. CASE AgentCommit
  <2>1. /\ UNCHANGED <<held, answers, asks, nask, retired, withdrawn, runCancelled>>
        /\ delivery' = [m \in Msgs |-> IF m \in Owned(Runner) THEN "completed" ELSE delivery[m]]
    BY <1>1 DEF AgentCommit, CompleteClaims, requestVars
  <2>2. \A m \in Msgs : DecidedBy(m) => DecidedBy(m)'
    BY <2>1 DEF DecidedBy, Live, Owned
  <2> QED
    BY <2>1, <2>2, NewestKept DEF Survives, Decided
<1>2. CASE AgentAsk
  BY <1>2 DEF AgentAsk, SetPending, Publish, NewestQuestionSurvives
<1>3. CASE AgentSweep
  <2>1. PICK k \in Msgs : RecoverExpiredHeldInputResponses(k)
    BY <1>3 DEF AgentSweep
  <2>2. held[k] /\ \A m \in Msgs : held[m] => m = k
    BY <1>h, <2>1 DEF RecoverExpiredHeldInputResponses, HoldInv
  <2>3. /\ UNCHANGED <<answers, nask, retired, withdrawn, runCancelled>>
        /\ \A m \in Msgs : m # k => delivery'[m] = delivery[m] /\ ~held[m]
        /\ \/ request = 0 /\ asks' = answers[k]
           \/ request # 0 /\ asks' = asks
    BY <1>3, <2>1, <2>2 DEF AgentSweep, RecoverExpiredHeldInputResponses, Expired, Reask,
                            Publish, requestVars
  <2>4. nask # 0 /\ asks = nask => asks' = nask
    BY <1>t, <2>3 DEF RowsAllocated
  <2>5. answers[k] = nask => asks' = nask
    BY <1>h, <2>2, <2>3 DEF HoldInv
  <2>6. ASSUME NEW m \in Msgs, DecidedBy(m) PROVE Survives'
    <3>1. CASE m = k
      BY <2>3, <2>5, <2>6, <3>1 DEF DecidedBy, Survives
    <3>2. CASE m # k
      <4>1. DecidedBy(m)'
        BY <2>3, <2>6, <3>2 DEF DecidedBy, Live
      <4> QED
        BY <4>1 DEF Survives, Decided
    <3> QED
      BY <3>1, <3>2
  <2> QED
    BY <2>3, <2>4, <2>6, NewestKept DEF Survives
<1>4. CASE AgentClaim
  <2>1. PICK m \in Msgs : ClaimUserMessage(Runner, m)
    BY <1>4 DEF AgentClaim
  <2>2. /\ UNCHANGED <<held, answers, asks, nask, retired, withdrawn, runCancelled>>
        /\ delivery' = [delivery EXCEPT ![m] = "claimed"]
    BY <1>4, <2>1 DEF AgentClaim, ClaimUserMessage, requestVars
  <2>3. \A n \in Msgs : DecidedBy(n) => DecidedBy(n)'
    BY <1>t, <2>2 DEF DecidedBy, Live, SessionTypeOK
  <2> QED
    BY <2>2, <2>3, NewestKept DEF Survives, Decided
<1>5. ASSUME ClearPending, UNCHANGED <<withdrawn, runCancelled>> PROVE NewestQuestionSurvives'
  <2>1. /\ UNCHANGED <<held, answers, delivery, nask>> /\ retired \subseteq retired'
        /\ asks # 0 => asks \in retired'
    BY <1>5 DEF ClearPending, Retire, rowVars
  <2>2. \A m \in Msgs : DecidedBy(m) => DecidedBy(m)'
    BY <1>5, <2>1 DEF DecidedBy, Live
  <2> QED
    BY <1>5, <2>1, <2>2, NewestKept DEF Survives, Decided
<1>6. ASSUME UNCHANGED <<sessionVars, withdrawn, runCancelled>> PROVE NewestQuestionSurvives'
  BY <1>6, <1>h DEF sessionVars, NewestQuestionSurvives, Live
<1>7. ASSUME NEW b \in BOOLEAN, InsertRow(b, asks), Consume, UNCHANGED <<withdrawn, runCancelled>>
      PROVE  NewestQuestionSurvives'
  <2>1. last + 1 \in Msgs /\ answers[last + 1] = 0
    BY <1>t, <1>7 DEF InsertRow, SessionTypeOK, RowsAllocated
  <2>2. answers'[last + 1] = asks /\ delivery'[last + 1] = "pending" /\ nask' = nask /\ retired' = retired
    BY <1>t, <1>7, <2>1 DEF InsertRow, Consume, SessionTypeOK
  <2>3. \A m \in Msgs : m # last + 1 => /\ answers'[m] = answers[m] /\ delivery'[m] = delivery[m]
                                      /\ held'[m] = held[m]
    BY <1>t, <1>7 DEF InsertRow, SessionTypeOK
  <2>4. asks = nask => Survives'
    BY <2>1, <2>2 DEF Survives, Decided, DecidedBy, Live
  <2>5. nask # 0 => \A m \in Msgs : DecidedBy(m) => DecidedBy(m)'
    BY <1>7, <2>1, <2>2, <2>3 DEF DecidedBy, Live
  <2> QED
    BY <1>7, <2>2, <2>4, <2>5, NewestKept DEF Survives, Decided
<1>8. ASSUME AppendMessage, UNCHANGED <<withdrawn, runCancelled>> PROVE NewestQuestionSurvives'
  <2>1. last + 1 \in Msgs /\ answers[last + 1] = 0
    BY <1>t, <1>8 DEF AppendMessage, InsertRow, SessionTypeOK, RowsAllocated
  <2>2. nask' = nask /\ retired' = retired /\ asks' = asks
    BY <1>8 DEF AppendMessage, requestVars
  <2>3. \A m \in Msgs : m # last + 1 => /\ answers'[m] = answers[m] /\ delivery'[m] = delivery[m]
                                      /\ held'[m] = held[m]
    BY <1>t, <1>8 DEF AppendMessage, InsertRow, SessionTypeOK
  <2>4. nask # 0 => \A m \in Msgs : DecidedBy(m) => DecidedBy(m)'
    BY <1>8, <2>1, <2>2, <2>3 DEF DecidedBy, Live
  <2> QED
    BY <1>8, <2>2, <2>4, NewestKept DEF Survives, Decided
<1>9. ASSUME NEW u \in Users, UserNext(u) PROVE NewestQuestionSurvives'
  BY <1>9, <1>5, <1>6, <1>7, <1>8
     DEF UserNext, Load, UserAnswer, UserFallback, UserReject, ModeConsume,
                ModeApplied, ModeDenied, Submit, UserRefused, PlanApprove, PlanCleared, ClearPendingInputIfID, AnswerPendingInput, AppendUserMessageIfActive
<1>10. ASSUME NEW m \in Msgs, Withdraw(m) PROVE NewestQuestionSurvives'
  <2>1. /\ UNCHANGED <<held, answers, asks, nask, retired, runCancelled>> /\ withdrawn' = withdrawn \cup {m}
        /\ delivery' = [delivery EXCEPT ![m] = "cancelled"]
    BY <1>10 DEF Withdraw, CancelUndeliveredUserMessage, requestVars
  <2>2. \A n \in Msgs : DecidedBy(n) => DecidedBy(n)'
    BY <1>t, <2>1 DEF DecidedBy, Live, SessionTypeOK
  <2> QED
    BY <2>1, <2>2, NewestKept DEF Survives, Decided
<1>11. CASE CancelRun
  BY <1>11 DEF CancelRun, NewestQuestionSurvives
<1>12. CASE OvReserve
  BY <1>12, <1>6, <1>7 DEF OvReserve, ReservePendingInputResponse
<1>13. CASE OvCheck("check", "effect") \/ OvCheck("recheck", "release")
  <2>1. CASE runCancelled
    BY <1>13, <2>1 DEF OvCheck, NewestQuestionSurvives
  <2>2. CASE ~runCancelled
    BY <1>13, <1>6, <2>2 DEF OvCheck
  <2> QED
    BY <2>1, <2>2
<1>14. CASE OvRelease
  <2>1. UNCHANGED <<answers, delivery, asks, nask, retired, withdrawn, runCancelled>>
    BY <1>14 DEF OvRelease, ReleasePendingInputResponse, requestVars
  <2>2. \A m \in Msgs : DecidedBy(m) => DecidedBy(m)'
    BY <1>h, <2>1 DEF DecidedBy, Live, HoldInv
  <2> QED
    BY <2>1, <2>2, NewestKept DEF Survives, Decided
<1>15. CASE AgentStart
  BY <1>15, <1>5, <1>6 DEF AgentStart, ClearPendingInputIfID
<1>16. CASE AgentWait \/ Checkpoint \/ OvEffects \/ OvCrash \/ UNCHANGED inputVars
  BY <1>16, <1>6 DEF AgentWait, Checkpoint, OvEffects, OvCrash, inputVars, actorVars
<1> QED
  BY <1>1, <1>2, <1>3, <1>4, <1>9, <1>10, <1>11, <1>12, <1>13, <1>14, <1>15, <1>16
     DEF InputNext, AgentNext, OverseerNext

-----------------------------------------------------------------------------
(* The parties to a request keep the invariant, whatever their order. *)
THEOREM InputInvariance == InputSpec => []InputInv
<1>1. InputInv /\ [InputNext]_inputVars => InputInv'
  BY StoreStep, SessionNextInv, InputTypes, ScreenStep, HoldStep, AnswersStep, NewestStep
     DEF InputInv
<1> QED
  BY <1>1, InputInitInv, PTL DEF InputSpec

(* Rows, requests and the parties stay well typed (the columns and fields  *)
(* that store.go, server_messages.go and the overseer's controller use).   *)
THEOREM InputTypesHold == InputSpec => []InputTypeOK
<1>1. InputInv => InputTypeOK
  BY DEF InputInv
<1> QED
  BY <1>1, InputInvariance, PTL

(* A message that names its request answers the question on its screen,    *)
(* one that names none the question its handler read, and the overseer the *)
(* question it was checkpointed for, however many tabs there are and       *)
(* however stale they are (checkRequestedPendingID, AnswerPendingInput).   *)
THEOREM AnswersAreSeen == InputSpec => []AnswersWhatWasSeen
<1>1. InputInv => AnswersWhatWasSeen
  BY DEF InputInv
<1> QED
  BY <1>1, InputInvariance, PTL

(* The newest question never vanishes, whenever the controller dies and    *)
(* whatever the sweep finds (RecoverExpiredHeldInputResponses).            *)
THEOREM NewestIsKept == InputSpec => []NewestQuestionSurvives
<1>1. InputInv => NewestQuestionSurvives
  BY DEF InputInv
<1> QED
  BY <1>1, InputInvariance, PTL

(* The parties use the store as its most general client does, so that what *)
(* is proved of SessionSpec holds of them.                                 *)
THEOREM PartiesUseTheStore == InputSpec => SessionSpec
<1>1. InputInit => SessionInit
  BY DEF InputInit
<1>2. InputInv /\ [InputNext]_inputVars => [SessionNext]_sessionVars
  BY StoreStep
<1> QED
  BY <1>1, <1>2, InputInvariance, PTL DEF InputSpec, SessionSpec

(* A question takes only the steps of InputRequest in their hands: no      *)
(* crash, stale tab, sweep or button brings a decided question back.       *)
THEOREM PartiesImplementInputRequest == InputSpec => ImplementsInputRequest
  BY PartiesUseTheStore, QuestionsImplemented, PTL
=============================================================================
