------------------------- MODULE SessionStoreProofs -------------------------
(***************************************************************************)
(* Proofs that the session store of SessionStore keeps its properties for  *)
(* every number of messages, requests and runner tokens, under its most    *)
(* general client.                                                         *)
(*                                                                         *)
(* The inductive invariant is SessionInv.  None of the parts is inductive  *)
(* alone: OneDecisionPerQuestion survives a recovery that puts a request    *)
(* back only because HoldsOwnTheirQuestion says that nobody else decided    *)
(* it meanwhile, which survives a claim only because HoldsBlockTheQueue    *)
(* keeps a held row out of every runner's hands.                           *)
(***************************************************************************)
EXTENDS SessionStore, TLAPS

USE DEF Msgs, Reqs, States, Phases

(* The blank session satisfies the invariant. *)
LEMMA SessionInitInv == SessionInit => SessionInv
  BY BoundAssumption, TokenAssumption
  DEF SessionInit, SessionInv, SessionTypeOK, RowsAllocated, ClaimsAreOwned,
      TranscriptOrder, HoldsBlockTheQueue, HoldsOwnTheirQuestion,
      OneDecisionPerQuestion, Live

-----------------------------------------------------------------------------
(* One lemma per statement of the store: it preserves every conjunct.      *)

(* A plain message is pending, unheld and answers nothing. *)
LEMMA AppendMessageInv ==
  ASSUME SessionInv, AppendMessage
  PROVE  SessionInv'
<1> USE BoundAssumption, TokenAssumption
    DEF SessionInv, SessionTypeOK, RowsAllocated, InsertRow, requestVars, AppendMessage
<1>1. SessionTypeOK'
  <2>1. last' \in 0..MaxMsgs /\ delivery' \in [Msgs -> States]
    OBVIOUS
  <2>2. held' \in [Msgs -> BOOLEAN] /\ reserved' \in [Msgs -> BOOLEAN]
    OBVIOUS
  <2>3. answers' \in [Msgs -> 0..MaxReqs]
    OBVIOUS
  <2>4. snapshot' = [snapshot EXCEPT ![last + 1] = snapshot[last + 1]] /\ last + 1 \in Msgs
    OBVIOUS
  <2>5. UNCHANGED <<token, seq, nseq, requestVars>>
    OBVIOUS
  <2> HIDE DEF RowsAllocated, InsertRow, AppendMessage
  <2>6. snapshot' = snapshot
    BY <2>4
  <2> QED
    BY <2>1, <2>2, <2>3, <2>5, <2>6
<1>2. RowsAllocated'
  OBVIOUS
<1>3. ClaimsAreOwned'
  BY DEF ClaimsAreOwned
<1>4. TranscriptOrder'
  BY DEF TranscriptOrder
<1>5. HoldsBlockTheQueue'
  BY DEF HoldsBlockTheQueue
<1>6. HoldsOwnTheirQuestion'
  BY DEF HoldsOwnTheirQuestion, OneDecisionPerQuestion, Live
<1>7. OneDecisionPerQuestion'
  BY DEF OneDecisionPerQuestion, HoldsOwnTheirQuestion, Live
<1> QED
  BY <1>1, <1>2, <1>3, <1>4, <1>5, <1>6, <1>7

(* A claim gives an unblocked row a place of its own. *)
LEMMA ClaimUserMessageInv ==
  ASSUME NEW t \in Tokens, NEW m \in Msgs, SessionInv, ClaimUserMessage(t, m)
  PROVE  SessionInv'
<1> USE BoundAssumption, TokenAssumption
    DEF SessionInv, SessionTypeOK, RowsAllocated, ClaimUserMessage, BeforeHolds, Wins, NextSeq, requestVars
<1>1. SessionTypeOK'
  <2>1. delivery' \in [Msgs -> States] /\ token' \in [Msgs -> Tokens \cup {NoToken}]
    OBVIOUS
  <2>2. seq' \in [Msgs -> Nat] /\ nseq' \in Nat
    OBVIOUS
  <2>3. UNCHANGED <<last, held, reserved, answers, snapshot, requestVars>>
    OBVIOUS
  <2> HIDE DEF RowsAllocated, ClaimUserMessage, BeforeHolds, Wins, NextSeq
  <2> QED
    BY <2>1, <2>2, <2>3
<1>2. RowsAllocated'
  OBVIOUS
<1>3. ClaimsAreOwned'
  BY DEF ClaimsAreOwned
<1>4. TranscriptOrder'
  <2>1. seq'[m] # 0 /\ (\A n \in Msgs \ {m} : seq'[n] = seq[n]) /\ nseq <= nseq'
    BY DEF TranscriptOrder
  <2>2. \A n \in Msgs : seq[n] <= nseq
    BY DEF TranscriptOrder
  <2>3. CASE seq[m] = 0
    <3>1. nseq \in Nat /\ seq'[m] = nseq + 1 /\ nseq' = nseq + 1
      BY <2>3
    <3>2. \A n \in Msgs : delivery'[n] \in {"claimed", "completed"} => n = m \/ seq[n] # 0
      BY DEF TranscriptOrder
    <3>3. \A n, o \in Msgs : seq[n] = seq[o] /\ seq[n] # 0 => n = o
      BY DEF TranscriptOrder
    <3>4. \A n \in Msgs : seq[n] \in Nat
      OBVIOUS
    <3> HIDE DEF SessionInv, SessionTypeOK, RowsAllocated, ClaimUserMessage, BeforeHolds, Wins,
        NextSeq, requestVars
    <3> QED
      BY <2>1, <2>2, <3>1, <3>2, <3>3, <3>4 DEF TranscriptOrder
  <2>4. CASE seq[m] # 0
    <3>1. seq' = seq /\ nseq' = nseq
      BY <2>4
    <3>2. \A n \in Msgs : delivery'[n] \in {"claimed", "completed"} => seq[n] # 0
      BY <2>4 DEF TranscriptOrder
    <3> QED
      BY <3>1, <3>2 DEF TranscriptOrder
  <2> QED
    BY <2>3, <2>4
<1>5. HoldsBlockTheQueue'
  <2>1. /\ \A n \in Msgs \ {m} : delivery'[n] = delivery[n] /\ seq'[n] = seq[n]
        /\ held' = held /\ \A h \in Msgs : h <= m => ~held[h]
    OBVIOUS
  <2> HIDE DEF SessionInv, SessionTypeOK, RowsAllocated, ClaimUserMessage, BeforeHolds, Wins, NextSeq, requestVars
  <2> QED
    BY <2>1 DEF HoldsBlockTheQueue, SessionInv
<1>6. HoldsOwnTheirQuestion'
  BY DEF HoldsOwnTheirQuestion, OneDecisionPerQuestion, Live
<1>7. OneDecisionPerQuestion'
  <2>1. \A n \in Msgs : Live(n)' <=> Live(n)
    BY DEF Live
  <2> QED
    BY <2>1 DEF OneDecisionPerQuestion
<1> QED
  BY <1>1, <1>2, <1>3, <1>4, <1>5, <1>6, <1>7

(* Completing a runner's claims frees their tokens. *)
LEMMA CompleteClaimsInv ==
  ASSUME NEW t \in Tokens, SessionInv, CompleteClaims(t)
  PROVE  SessionInv'
<1> USE BoundAssumption, TokenAssumption
    DEF SessionInv, SessionTypeOK, RowsAllocated, CompleteClaims, Owned, requestVars
<1>1. SessionTypeOK'
  OBVIOUS
<1>2. RowsAllocated'
  OBVIOUS
<1>3. ClaimsAreOwned'
  BY DEF ClaimsAreOwned
<1>4. TranscriptOrder'
  BY DEF TranscriptOrder
<1>5. HoldsBlockTheQueue'
  BY DEF HoldsBlockTheQueue
<1>6. HoldsOwnTheirQuestion'
  BY DEF HoldsOwnTheirQuestion, OneDecisionPerQuestion, Live
<1>7. OneDecisionPerQuestion'
  BY DEF OneDecisionPerQuestion, HoldsOwnTheirQuestion, Live
<1> QED
  BY <1>1, <1>2, <1>3, <1>4, <1>5, <1>6, <1>7

(* The recovery sweep returns rows, with their places, to the queue. *)
LEMMA RecoverClaimedInv ==
  ASSUME NEW t \in Tokens, SessionInv, RecoverClaimedUserMessages(t)
  PROVE  SessionInv'
<1> USE BoundAssumption, TokenAssumption
    DEF SessionInv, SessionTypeOK, RowsAllocated, RecoverClaimedUserMessages, Stolen, requestVars
<1>1. SessionTypeOK'
  OBVIOUS
<1>2. RowsAllocated'
  OBVIOUS
<1>3. ClaimsAreOwned'
  BY DEF ClaimsAreOwned
<1>4. TranscriptOrder'
  BY DEF TranscriptOrder
<1>5. HoldsBlockTheQueue'
  BY DEF HoldsBlockTheQueue
<1>6. HoldsOwnTheirQuestion'
  BY DEF HoldsOwnTheirQuestion, OneDecisionPerQuestion, Live
<1>7. OneDecisionPerQuestion'
  <2>1. \A n \in Msgs : Live(n)' <=> Live(n)
    BY DEF Live
  <2>2. UNCHANGED <<answers, asks, retired>> /\ OneDecisionPerQuestion
    OBVIOUS
  <2> HIDE DEF SessionInv, SessionTypeOK, RowsAllocated, RecoverClaimedUserMessages, Stolen, requestVars
  <2> QED
    BY <2>1, <2>2 DEF OneDecisionPerQuestion
<1> QED
  BY <1>1, <1>2, <1>3, <1>4, <1>5, <1>6, <1>7

(* Only a pending row is withdrawn. *)
LEMMA CancelUndeliveredInv ==
  ASSUME NEW m \in Msgs, SessionInv, CancelUndeliveredUserMessage(m)
  PROVE  SessionInv'
<1> USE BoundAssumption, TokenAssumption
    DEF SessionInv, SessionTypeOK, RowsAllocated, CancelUndeliveredUserMessage, requestVars
<1>1. SessionTypeOK'
  OBVIOUS
<1>2. RowsAllocated'
  OBVIOUS
<1>3. ClaimsAreOwned'
  BY DEF ClaimsAreOwned
<1>4. TranscriptOrder'
  BY DEF TranscriptOrder
<1>5. HoldsBlockTheQueue'
  BY DEF HoldsBlockTheQueue
<1>6. HoldsOwnTheirQuestion'
  BY DEF HoldsOwnTheirQuestion, OneDecisionPerQuestion, Live
<1>7. OneDecisionPerQuestion'
  BY DEF OneDecisionPerQuestion, HoldsOwnTheirQuestion, Live
<1> QED
  BY <1>1, <1>2, <1>3, <1>4, <1>5, <1>6, <1>7

(* A fresh request id has no answer yet. *)
LEMMA SetPendingInv ==
  ASSUME SessionInv, SetPending
  PROVE  SessionInv'
<1> USE BoundAssumption, TokenAssumption
    DEF SessionInv, SessionTypeOK, RowsAllocated, SetPending, Publish, Retire, rowVars
<1>1. SessionTypeOK'
  <2>1. UNCHANGED rowVars
    OBVIOUS
  <2>2. request' \in 0..MaxReqs /\ nreq' \in 0..MaxReqs /\ retired' \in SUBSET Reqs
    OBVIOUS
  <2>3. asks' \in 0..MaxReqs /\ nask' \in 0..MaxReqs /\ phase' \in Phases
    OBVIOUS
  <2> HIDE DEF RowsAllocated, SetPending, Publish, Retire
  <2> QED
    BY <2>1, <2>2, <2>3
<1>2. RowsAllocated'
  OBVIOUS
<1>3. ClaimsAreOwned'
  BY DEF ClaimsAreOwned
<1>4. TranscriptOrder'
  BY DEF TranscriptOrder
<1>5. HoldsBlockTheQueue'
  BY DEF HoldsBlockTheQueue
<1>6. HoldsOwnTheirQuestion'
  BY DEF HoldsOwnTheirQuestion, OneDecisionPerQuestion, Live
<1>7. OneDecisionPerQuestion'
  BY DEF OneDecisionPerQuestion, HoldsOwnTheirQuestion, Live
<1> QED
  BY <1>1, <1>2, <1>3, <1>4, <1>5, <1>6, <1>7

(* The request cleared is the pending one, which nobody answered. *)
LEMMA ClearPendingInv ==
  ASSUME SessionInv, ClearPending
  PROVE  SessionInv'
<1> USE BoundAssumption, TokenAssumption
    DEF SessionInv, SessionTypeOK, RowsAllocated, ClearPending, Retire, rowVars
<1>1. SessionTypeOK'
  OBVIOUS
<1>2. RowsAllocated'
  OBVIOUS
<1>3. ClaimsAreOwned'
  BY DEF ClaimsAreOwned
<1>4. TranscriptOrder'
  BY DEF TranscriptOrder
<1>5. HoldsBlockTheQueue'
  BY DEF HoldsBlockTheQueue
<1>6. HoldsOwnTheirQuestion'
  BY DEF HoldsOwnTheirQuestion, OneDecisionPerQuestion, Live
<1>7. OneDecisionPerQuestion'
  BY DEF OneDecisionPerQuestion, HoldsOwnTheirQuestion, Live
<1> QED
  BY <1>1, <1>2, <1>3, <1>4, <1>5, <1>6, <1>7

(* The answer is inserted as the request is consumed. *)
LEMMA AnswerPendingInputInv ==
  ASSUME NEW r \in Reqs, SessionInv, AnswerPendingInput(r)
  PROVE  SessionInv'
<1> USE BoundAssumption, TokenAssumption
    DEF SessionInv, SessionTypeOK, RowsAllocated, AnswerPendingInput, InsertRow, Consume
<1>1. SessionTypeOK'
  OBVIOUS
<1>2. RowsAllocated'
  OBVIOUS
<1>3. ClaimsAreOwned'
  BY DEF ClaimsAreOwned
<1>4. TranscriptOrder'
  BY DEF TranscriptOrder
<1>5. HoldsBlockTheQueue'
  BY DEF HoldsBlockTheQueue
<1>6. HoldsOwnTheirQuestion'
  BY DEF HoldsOwnTheirQuestion, OneDecisionPerQuestion, Live
<1>7. OneDecisionPerQuestion'
  <2>1. /\ last + 1 \in Msgs /\ answers'[last + 1] = asks
        /\ \A n \in Msgs \ {last + 1} : answers'[n] = answers[n] /\ delivery'[n] = delivery[n]
    OBVIOUS
  <2>2. asks' = 0 /\ retired' = retired /\ asks \notin retired
    BY DEF OneDecisionPerQuestion
  <2>3. /\ \A n, o \in Msgs :
             Live(n) /\ Live(o) /\ answers[n] = answers[o] /\ answers[n] # 0 => n = o
        /\ \A n \in Msgs : Live(n) /\ answers[n] # 0 => answers[n] # asks /\ answers[n] \notin retired
    BY DEF OneDecisionPerQuestion
  <2>4. 0 \notin retired
    OBVIOUS
  <2> HIDE DEF SessionInv, SessionTypeOK, RowsAllocated, AnswerPendingInput, InsertRow, Consume
  <2> QED
    BY <2>1, <2>2, <2>3, <2>4 DEF OneDecisionPerQuestion, Live
<1> QED
  BY <1>1, <1>2, <1>3, <1>4, <1>5, <1>6, <1>7

(* The held response is the newest row, so nothing behind it was delivered. *)
LEMMA ReservePendingInputResponseInv ==
  ASSUME NEW r \in Reqs, SessionInv, ReservePendingInputResponse(r)
  PROVE  SessionInv'
<1> USE BoundAssumption, TokenAssumption
    DEF SessionInv, SessionTypeOK, RowsAllocated, ReservePendingInputResponse, InsertRow, Consume
<1>1. SessionTypeOK'
  OBVIOUS
<1>2. RowsAllocated'
  OBVIOUS
<1>3. ClaimsAreOwned'
  BY DEF ClaimsAreOwned
<1>4. TranscriptOrder'
  BY DEF TranscriptOrder
<1>5. HoldsBlockTheQueue'
  BY DEF HoldsBlockTheQueue
<1>6. HoldsOwnTheirQuestion'
  <2>1. /\ last + 1 \in Msgs /\ answers' = [answers EXCEPT ![last + 1] = asks]
        /\ held' = [held EXCEPT ![last + 1] = TRUE] /\ asks # 0 /\ asks \notin retired
        /\ \A n \in Msgs \ {last + 1} : delivery'[n] = delivery[n]
        /\ asks' = 0 /\ retired' = retired
    BY DEF OneDecisionPerQuestion
  <2>2. \A n \in Msgs : answers[n] = asks => delivery[n] \in {"absent", "cancelled"} /\ ~held[n]
    <3> HIDE DEF RowsAllocated, ReservePendingInputResponse, InsertRow, Consume
    <3> QED
      BY <2>1 DEF OneDecisionPerQuestion, HoldsOwnTheirQuestion, Live, States
  <2>3. \A n \in Msgs \ {last + 1} : delivery[n] = "absent" => answers[n] = 0
    OBVIOUS
  <2>4. held \in [Msgs -> BOOLEAN] /\ answers \in [Msgs -> 0..MaxReqs]
    OBVIOUS
  <2>5. HoldsOwnTheirQuestion
    OBVIOUS
  <2>6. delivery[last + 1] = "absent" /\ ~held[last + 1]
    OBVIOUS
  <2> HIDE DEF SessionInv, SessionTypeOK, RowsAllocated, ReservePendingInputResponse, InsertRow, Consume
  <2>7. \A h \in Msgs : held'[h] /\ h # last + 1 =>
          /\ held[h] /\ answers[h] # 0 /\ answers[h] # asks /\ answers[h] \notin retired
          /\ \A m \in Msgs \ {h} : answers[m] = answers[h] => delivery[m] = "cancelled" /\ ~held[m]
    BY <2>1, <2>4, <2>5 DEF HoldsOwnTheirQuestion
  <2> QED
    BY <2>1, <2>2, <2>3, <2>4, <2>6, <2>7 DEF HoldsOwnTheirQuestion
<1>7. OneDecisionPerQuestion'
  <2>1. /\ last + 1 \in Msgs /\ answers'[last + 1] = asks
        /\ \A n \in Msgs \ {last + 1} : answers'[n] = answers[n] /\ delivery'[n] = delivery[n]
    OBVIOUS
  <2>2. asks' = 0 /\ retired' = retired /\ asks \notin retired
    BY DEF OneDecisionPerQuestion
  <2>3. /\ \A n, o \in Msgs :
             Live(n) /\ Live(o) /\ answers[n] = answers[o] /\ answers[n] # 0 => n = o
        /\ \A n \in Msgs : Live(n) /\ answers[n] # 0 => answers[n] # asks /\ answers[n] \notin retired
    BY DEF OneDecisionPerQuestion
  <2>4. 0 \notin retired
    OBVIOUS
  <2> HIDE DEF SessionInv, SessionTypeOK, RowsAllocated, ReservePendingInputResponse, InsertRow, Consume
  <2> QED
    BY <2>1, <2>2, <2>3, <2>4 DEF OneDecisionPerQuestion, Live
<1> QED
  BY <1>1, <1>2, <1>3, <1>4, <1>5, <1>6, <1>7

(* Releasing opens the gate and changes nothing else. *)
LEMMA ReleasePendingInputResponseInv ==
  ASSUME NEW m \in Msgs, SessionInv, ReleasePendingInputResponse(m)
  PROVE  SessionInv'
<1> USE BoundAssumption, TokenAssumption
    DEF SessionInv, SessionTypeOK, RowsAllocated, ReleasePendingInputResponse, requestVars
<1>1. SessionTypeOK'
  OBVIOUS
<1>2. RowsAllocated'
  OBVIOUS
<1>3. ClaimsAreOwned'
  BY DEF ClaimsAreOwned
<1>4. TranscriptOrder'
  BY DEF TranscriptOrder
<1>5. HoldsBlockTheQueue'
  BY DEF HoldsBlockTheQueue
<1>6. HoldsOwnTheirQuestion'
  BY DEF HoldsOwnTheirQuestion, OneDecisionPerQuestion, Live
<1>7. OneDecisionPerQuestion'
  BY DEF OneDecisionPerQuestion, HoldsOwnTheirQuestion, Live
<1> QED
  BY <1>1, <1>2, <1>3, <1>4, <1>5, <1>6, <1>7

(* Cancelling a reserved row may leave its claimant's token on it. *)
LEMMA CancelPendingInputResponseInv ==
  ASSUME NEW m \in Msgs, SessionInv, CancelPendingInputResponse(m)
  PROVE  SessionInv'
<1> USE BoundAssumption, TokenAssumption
    DEF SessionInv, SessionTypeOK, RowsAllocated, CancelPendingInputResponse, requestVars
<1>1. SessionTypeOK'
  OBVIOUS
<1>2. RowsAllocated'
  OBVIOUS
<1>3. ClaimsAreOwned'
  BY DEF ClaimsAreOwned
<1>4. TranscriptOrder'
  BY DEF TranscriptOrder
<1>5. HoldsBlockTheQueue'
  BY DEF HoldsBlockTheQueue
<1>6. HoldsOwnTheirQuestion'
  BY DEF HoldsOwnTheirQuestion, OneDecisionPerQuestion, Live
<1>7. OneDecisionPerQuestion'
  BY DEF OneDecisionPerQuestion, HoldsOwnTheirQuestion, Live
<1> QED
  BY <1>1, <1>2, <1>3, <1>4, <1>5, <1>6, <1>7

(* The request put back has no standing answer: its hold is cancelled. *)
LEMMA RecoverExpiredHeldInv ==
  ASSUME NEW k \in Msgs, SessionInv, RecoverExpiredHeldInputResponses(k)
  PROVE  SessionInv'
<1> USE BoundAssumption, TokenAssumption
    DEF SessionInv, SessionTypeOK, RowsAllocated, RecoverExpiredHeldInputResponses, Expired, Reask, Publish, requestVars
<1>1. SessionTypeOK'
  <2>1. answers[k] \in 0..MaxReqs /\ snapshot[k].phase \in Phases
    OBVIOUS
  <2>2. delivery' \in [Msgs -> States] /\ held' \in [Msgs -> BOOLEAN]
    OBVIOUS
  <2>3. CASE Reask(k)
    BY <2>1, <2>2, <2>3
  <2>4. CASE UNCHANGED requestVars
    BY <2>2, <2>4
  <2> QED
    BY <2>3, <2>4
<1>2. RowsAllocated'
  <2>1. answers[k] # 0 /\ k <= last
    BY DEF HoldsOwnTheirQuestion
  <2>2. \A m \in Msgs : delivery'[m] = "absent" <=> delivery[m] = "absent"
    BY <2>1
  <2>3. \A m \in Msgs : ~held[m] => ~held'[m]
    BY Zenon
  <2>4. CASE Reask(k)
    BY <2>1, <2>2, <2>3, <2>4
  <2>5. CASE UNCHANGED requestVars
    BY <2>1, <2>2, <2>3, <2>5
  <2> QED
    BY <2>4, <2>5
<1>3. ClaimsAreOwned'
  <2>1. \A h \in Msgs : held[h] => delivery[h] \in {"pending", "cancelled"}
    BY DEF HoldsBlockTheQueue
  <2> QED
    BY <2>1 DEF ClaimsAreOwned
<1>4. TranscriptOrder'
  BY DEF TranscriptOrder
<1>5. HoldsBlockTheQueue'
  BY DEF HoldsBlockTheQueue
<1>6. HoldsOwnTheirQuestion'
  <2> SUFFICES ASSUME NEW h \in Msgs, held'[h]
               PROVE  /\ answers'[h] # 0
                      /\ answers'[h] # asks'
                      /\ answers'[h] \notin retired'
                      /\ \A m \in Msgs \ {h} : answers'[m] = answers'[h] =>
                                              delivery'[m] = "cancelled" /\ ~held'[m]
    BY DEF HoldsOwnTheirQuestion
  <2>1. held[h] /\ h # k
    <3>1. held'[h] = (held[h] /\ h \notin Expired(k))
      BY Zenon
    <3>2. k \in Expired(k)
      OBVIOUS
    <3> QED
      BY <3>1, <3>2, Zenon
  <2>2. answers[k] # answers[h]
    BY <2>1 DEF HoldsOwnTheirQuestion
  <2>3. answers[h] # 0 /\ answers[h] # asks /\ answers[h] \notin retired
    BY <2>1 DEF HoldsOwnTheirQuestion
  <2>4. \A m \in Msgs \ {h} : answers[m] = answers[h] => delivery[m] = "cancelled" /\ ~held[m]
    BY <2>1 DEF HoldsOwnTheirQuestion
  <2>5. asks' = answers[k] \/ asks' = asks
    OBVIOUS
  <2>6. answers' = answers /\ retired' = retired
    OBVIOUS
  <2>7. \A m \in Msgs \ {h} : answers[m] = answers[h] => delivery'[m] = "cancelled" /\ ~held'[m]
    BY <2>4
  <2> QED
    BY <2>2, <2>3, <2>5, <2>6, <2>7
<1>7. OneDecisionPerQuestion'
  <2>1. \A m \in Msgs : Live(m)' => Live(m) /\ m # k
    BY DEF Live
  <2>2. \A m \in Msgs \ {k} : Live(m) => answers[m] # answers[k]
    BY DEF HoldsOwnTheirQuestion, Live
  <2>3. asks' = answers[k] \/ asks' = asks
    OBVIOUS
  <2>4. answers' = answers /\ retired' = retired /\ answers[k] \notin retired
    BY DEF HoldsOwnTheirQuestion
  <2> QED
    BY <2>1, <2>2, <2>3, <2>4 DEF OneDecisionPerQuestion
<1> QED
  BY <1>1, <1>2, <1>3, <1>4, <1>5, <1>6, <1>7

(* The phase is read by no part of the invariant. *)
LEMMA UpdatePhaseInv ==
  ASSUME NEW ph \in Phases, SessionInv, UpdatePhase(ph)
  PROVE  SessionInv'
<1> USE BoundAssumption, TokenAssumption
    DEF SessionInv, SessionTypeOK, RowsAllocated, UpdatePhase, rowVars
<1>1. SessionTypeOK'
  OBVIOUS
<1>2. RowsAllocated'
  OBVIOUS
<1>3. ClaimsAreOwned'
  BY DEF ClaimsAreOwned
<1>4. TranscriptOrder'
  BY DEF TranscriptOrder
<1>5. HoldsBlockTheQueue'
  BY DEF HoldsBlockTheQueue
<1>6. HoldsOwnTheirQuestion'
  BY DEF HoldsOwnTheirQuestion, OneDecisionPerQuestion, Live
<1>7. OneDecisionPerQuestion'
  BY DEF OneDecisionPerQuestion, HoldsOwnTheirQuestion, Live
<1> QED
  BY <1>1, <1>2, <1>3, <1>4, <1>5, <1>6, <1>7

-----------------------------------------------------------------------------
(* Every step of the store, and every step that leaves it alone, preserves *)
(* the invariant.                                                          *)
LEMMA SessionNextInv == SessionInv /\ [SessionNext]_sessionVars => SessionInv'
<1> SUFFICES ASSUME SessionInv, [SessionNext]_sessionVars
             PROVE  SessionInv'
  OBVIOUS
<1>1. CASE AppendMessage
  BY <1>1, AppendMessageInv
<1>2. CASE AppendUserMessageIfActive
  BY <1>2, AppendMessageInv DEF AppendUserMessageIfActive
<1>3. ASSUME NEW t \in Tokens, NEW m \in Msgs, ClaimUserMessage(t, m)
      PROVE  SessionInv'
  BY <1>3, ClaimUserMessageInv
<1>4. ASSUME NEW t \in Tokens, CompleteClaims(t)
      PROVE  SessionInv'
  BY <1>4, CompleteClaimsInv
<1>5. ASSUME NEW t \in Tokens, RecoverClaimedUserMessages(t)
      PROVE  SessionInv'
  BY <1>5, RecoverClaimedInv
<1>6. ASSUME NEW m \in Msgs, CancelUndeliveredUserMessage(m)
      PROVE  SessionInv'
  BY <1>6, CancelUndeliveredInv
<1>7. CASE SetPending
  BY <1>7, SetPendingInv
<1>8. CASE ClearPending
  BY <1>8, ClearPendingInv
<1>9. ASSUME NEW r \in Reqs, ClearPendingInputIfID(r)
      PROVE  SessionInv'
  BY <1>9, ClearPendingInv DEF ClearPendingInputIfID
<1>10. ASSUME NEW r \in Reqs, AnswerPendingInput(r)
      PROVE  SessionInv'
  BY <1>10, AnswerPendingInputInv
<1>11. ASSUME NEW r \in Reqs, ReservePendingInputResponse(r)
      PROVE  SessionInv'
  BY <1>11, ReservePendingInputResponseInv
<1>12. ASSUME NEW m \in Msgs, ReleasePendingInputResponse(m)
      PROVE  SessionInv'
  BY <1>12, ReleasePendingInputResponseInv
<1>13. ASSUME NEW m \in Msgs, CancelPendingInputResponse(m)
      PROVE  SessionInv'
  BY <1>13, CancelPendingInputResponseInv
<1>14. ASSUME NEW m \in Msgs, RecoverExpiredHeldInputResponses(m)
      PROVE  SessionInv'
  BY <1>14, RecoverExpiredHeldInv
<1>15. ASSUME NEW ph \in Phases, UpdatePhase(ph)
      PROVE  SessionInv'
  BY <1>15, UpdatePhaseInv
<1>16. CASE UNCHANGED sessionVars
  BY <1>16 DEF sessionVars, SessionInv, SessionTypeOK, RowsAllocated, ClaimsAreOwned,
      TranscriptOrder, HoldsBlockTheQueue, HoldsOwnTheirQuestion, OneDecisionPerQuestion, Live
<1> QED
  BY <1>1, <1>2, <1>3, <1>4, <1>5, <1>6, <1>7, <1>8,
     <1>9, <1>10, <1>11, <1>12, <1>13, <1>14, <1>15, <1>16 DEF SessionNext

(* The session store keeps its inductive invariant whatever its clients do: the
   types, the ownership of claims, the order of the transcript, the gate of a
   held response and the single decision per pending input request. *)
THEOREM SessionInvariance == SessionSpec => []SessionInv
<1>1. SessionInit => SessionInv
  BY SessionInitInv
<1>2. SessionInv /\ [SessionNext]_sessionVars => SessionInv'
  BY SessionNextInv
<1> QED
  BY <1>1, <1>2, PTL DEF SessionSpec

(* Every statement of the store writes values of the column's type: delivery_state
   never leaves its CHECK constraint. *)
THEOREM TypeCorrectness == SessionSpec => []SessionTypeOK
  BY SessionInvariance, PTL DEF SessionInv

(* Every claimed row has an owner that CompleteClaims or the recovery sweep will
   find, and no token outlives its claim except under a cancelled response. *)
THEOREM ClaimOwnership == SessionSpec => []ClaimsAreOwned
  BY SessionInvariance, PTL DEF SessionInv

(* Delivered user messages have distinct places in the conversation, however often
   they are claimed, recovered and claimed again. *)
THEOREM TranscriptOrdering == SessionSpec => []TranscriptOrder
  BY SessionInvariance, PTL DEF SessionInv

(* No runner is ever given a held response or a message sent after one. *)
THEOREM HoldGate == SessionSpec => []HoldsBlockTheQueue
  BY SessionInvariance, PTL DEF SessionInv

(* While a response is held, nobody else can have decided its request. *)
THEOREM HoldOwnership == SessionSpec => []HoldsOwnTheirQuestion
  BY SessionInvariance, PTL DEF SessionInv

(* User answers, overseer responses and the recovery of expired holds never let two
   decisions of one pending input request stand. *)
THEOREM SingleDecision == SessionSpec => []OneDecisionPerQuestion
  BY SessionInvariance, PTL DEF SessionInv

-----------------------------------------------------------------------------
(* A row that is completed or cancelled is never handed out again: the claim and
   the user's withdrawal test delivery_state, and both recoveries touch only
   claimed or held rows. *)
LEMMA SettledRowsStay ==
  ASSUME SessionInv, SessionNext
  PROVE  \A m \in Msgs : StaysSettled(m)
<1> DEFINE Settled ==
      \A m \in Msgs :
        /\ delivery[m] = "cancelled" => delivery'[m] = "cancelled"
        /\ delivery[m] = "completed" => delivery'[m] \in {"completed", "cancelled"}
<1>s. Settled
  <2> USE DEF SessionInv, SessionTypeOK, RowsAllocated
  <2>1. ASSUME NEW isHeld \in BOOLEAN, NEW r \in 0..MaxReqs, InsertRow(isHeld, r)
        PROVE  Settled
    BY <2>1, BoundAssumption DEF InsertRow
  <2>2. ASSUME NEW t \in Tokens, NEW m \in Msgs, ClaimUserMessage(t, m)
        PROVE  Settled
    BY <2>2 DEF ClaimUserMessage, Wins
  <2>3. ASSUME NEW t \in Tokens, CompleteClaims(t) \/ RecoverClaimedUserMessages(t)
        PROVE  Settled
    BY <2>3 DEF CompleteClaims, RecoverClaimedUserMessages, Owned, Stolen
  <2>4. ASSUME NEW m \in Msgs,
               \/ CancelUndeliveredUserMessage(m)
               \/ CancelPendingInputResponse(m)
               \/ ReleasePendingInputResponse(m)
        PROVE  Settled
    BY <2>4 DEF CancelUndeliveredUserMessage, CancelPendingInputResponse,
                ReleasePendingInputResponse
  <2>5. ASSUME NEW m \in Msgs, RecoverExpiredHeldInputResponses(m)
        PROVE  Settled
    BY <2>5 DEF RecoverExpiredHeldInputResponses, Expired
  <2>6. CASE AppendMessage \/ AppendUserMessageIfActive
    <3>1. InsertRow(FALSE, 0)
      BY <2>6 DEF AppendMessage, AppendUserMessageIfActive
    <3>2. 0 \in 0..MaxReqs
      BY BoundAssumption
    <3> QED
      BY <3>1, <3>2, <2>1, Zenon
  <2>7. ASSUME NEW r \in Reqs, AnswerPendingInput(r) \/ ReservePendingInputResponse(r)
        PROVE  Settled
    BY <2>7, <2>1, BoundAssumption DEF AnswerPendingInput, ReservePendingInputResponse
  <2>8. CASE UNCHANGED rowVars
    BY <2>8 DEF rowVars
  <2>9. CASE SetPending \/ ClearPending
    BY <2>8, <2>9 DEF SetPending, ClearPending
  <2>10. ASSUME NEW r \in Reqs, ClearPendingInputIfID(r)
         PROVE  Settled
    BY <2>8, <2>10 DEF ClearPendingInputIfID, ClearPending
  <2>11. ASSUME NEW ph \in Phases, UpdatePhase(ph)
         PROVE  Settled
    BY <2>8, <2>11 DEF UpdatePhase
  <2> HIDE DEF Settled
  <2> QED
    BY <2>2, <2>3, <2>4, <2>5, <2>6, <2>7, <2>9, <2>10, <2>11 DEF SessionNext
<1> QED
  BY <1>s DEF StaysSettled

(* A recovered and reclaimed message keeps its place in the conversation:
   delivery_sequence is written once per row. *)
LEMMA PlacesAreKept ==
  ASSUME SessionInv, SessionNext
  PROVE  \A m \in Msgs : KeepsPlace(m)
<1> DEFINE Kept == \A m \in Msgs : seq[m] # 0 => seq'[m] = seq[m]
<1>s. Kept
  <2>1. CASE UNCHANGED seq
    BY <2>1
  <2>2. ASSUME NEW t \in Tokens, NEW m \in Msgs, ClaimUserMessage(t, m)
        PROVE  Kept
    BY <2>2 DEF ClaimUserMessage, NextSeq, SessionInv, SessionTypeOK
  <2>3. CASE \E t \in Tokens, m \in Msgs : ClaimUserMessage(t, m)
    BY <2>2, <2>3
  <2>4. CASE ~ \E t \in Tokens, m \in Msgs : ClaimUserMessage(t, m)
    <3> UNCHANGED seq
      BY <2>4
      DEF SessionNext, AppendMessage, AppendUserMessageIfActive, CompleteClaims,
          RecoverClaimedUserMessages, CancelUndeliveredUserMessage, SetPending, ClearPending,
          ClearPendingInputIfID, AnswerPendingInput, ReservePendingInputResponse,
          ReleasePendingInputResponse, CancelPendingInputResponse,
          RecoverExpiredHeldInputResponses, UpdatePhase, InsertRow, rowVars
    <3> QED
      BY <2>1
  <2> QED
    BY <2>3, <2>4
<1> QED
  BY <1>s DEF KeepsPlace

(* No step of the store revives, hands out again or moves a row that has been
   settled or given its place. *)
THEOREM HistoryIsKept == SessionSpec => RowsKeepTheirHistory
<1> DEFINE History == \A m \in Msgs : StaysSettled(m) /\ KeepsPlace(m)
<1>1. SessionInv /\ [SessionNext]_sessionVars => [History]_sessionVars
  BY SettledRowsStay, PlacesAreKept
<1> QED
  BY <1>1, SessionInvariance, PTL DEF SessionSpec, RowsKeepTheirHistory
=============================================================================
