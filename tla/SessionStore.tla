---------------------------- MODULE SessionStore ----------------------------
(***************************************************************************)
(* The durable session of one agent run: its agent_sessions row (the       *)
(* pending input request and the phase) and its conversation_messages rows *)
(* of role "user" (the queue the runner claims from), with the statements  *)
(* of internal/store/postgres/store.go as actions.  Every action is one    *)
(* transaction.                                                            *)
(*                                                                         *)
(* SessionNext is the most general client: any runner token, dashboard     *)
(* request or controller may issue any statement at any time, with the one *)
(* restriction every caller keeps, that a runner claims a message it was   *)
(* shown by a poll.  What holds here holds under every interleaving of the *)
(* actual clients; InputResolution and TurnLoop compose the actions into   *)
(* the programs of those clients.                                          *)
(***************************************************************************)
EXTENDS Naturals, FiniteSets

CONSTANTS
  MaxMsgs,      (* bound: user messages the session ever holds             *)
  MaxReqs,      (* bound: pending request ids ever drawn                   *)
  Tokens,       (* claim tokens; a sessionclient.Client draws a fresh one  *)
  NoToken       (* claim_token IS NULL                                     *)

ASSUME BoundAssumption == MaxMsgs \in Nat /\ MaxReqs \in Nat
ASSUME TokenAssumption == NoToken \notin Tokens

VARIABLES
  last,         (* id of the newest user message row                       *)
  delivery,     (* delivery_state of each row                              *)
  token,        (* claim_token of each row                                 *)
  held,         (* rows whose metadata has the key overseer_held           *)
  reserved,     (* rows inserted by ReservePendingInputResponse            *)
  answers,      (* the question the row answers; 0: a plain message        *)
  snapshot,     (* held_request_snapshot of each row: request id and phase *)
  seq,          (* delivery_sequence of each row; 0: NULL                  *)
  nseq,         (* last value of conversation_delivery_sequence            *)
  request,      (* pending_request_id; 0: no request is pending            *)
  nreq,         (* request ids drawn so far                                *)
  asks,         (* the question the pending request asks; 0: none          *)
  nask,         (* questions asked so far                                  *)
  retired,      (* history: questions cleared or overwritten unanswered    *)
  phase         (* agent_sessions.phase; "ended" is succeeded or failed    *)

sessionVars == <<last, delivery, token, held, reserved, answers, snapshot,
                 seq, nseq, request, nreq, asks, nask, retired, phase>>
rowVars     == <<last, delivery, token, held, reserved, answers, snapshot, seq, nseq>>
requestVars == <<request, nreq, asks, nask, retired, phase>>

Msgs     == 1..MaxMsgs
Reqs     == 1..MaxReqs
States   == {"absent", "pending", "claimed", "completed", "cancelled"}
Phases   == {"running", "waiting", "ended"}

SessionTypeOK ==
  /\ last \in 0..MaxMsgs
  /\ delivery \in [Msgs -> States]
  /\ token \in [Msgs -> Tokens \cup {NoToken}]
  /\ held \in [Msgs -> BOOLEAN]
  /\ reserved \in [Msgs -> BOOLEAN]
  /\ answers \in [Msgs -> 0..MaxReqs]
  /\ snapshot \in [Msgs -> [id : 0..MaxReqs, phase : Phases]]
  /\ seq \in [Msgs -> Nat]
  /\ nseq \in Nat
  /\ request \in 0..MaxReqs
  /\ nreq \in 0..MaxReqs
  /\ asks \in 0..MaxReqs
  /\ nask \in 0..MaxReqs
  /\ retired \in SUBSET Reqs
  /\ phase \in Phases

SessionInit ==
  /\ last = 0
  /\ delivery = [m \in Msgs |-> "absent"]
  /\ token    = [m \in Msgs |-> NoToken]
  /\ held     = [m \in Msgs |-> FALSE]
  /\ reserved = [m \in Msgs |-> FALSE]
  /\ answers  = [m \in Msgs |-> 0]
  /\ snapshot = [m \in Msgs |-> [id |-> 0, phase |-> "waiting"]]
  /\ seq      = [m \in Msgs |-> 0]
  /\ nseq = 0
  /\ request = 0
  /\ nreq = 0
  /\ asks = 0
  /\ nask = 0
  /\ retired = {}
  /\ phase = "running"

-----------------------------------------------------------------------------
(* The queue of user messages.                                             *)

(* One INSERT of a user row; the lifecycle trigger makes it pending.       *)
InsertRow(isHeld, q) ==
  /\ last < MaxMsgs
  /\ last' = last + 1
  /\ delivery' = [delivery EXCEPT ![last + 1] = "pending"]
  /\ held'     = [held EXCEPT ![last + 1] = isHeld]
  /\ reserved' = [reserved EXCEPT ![last + 1] = isHeld]
  /\ answers'  = [answers EXCEPT ![last + 1] = q]
  /\ snapshot' = [snapshot EXCEPT ![last + 1] = IF isHeld THEN [id |-> request, phase |-> phase] ELSE @]
  /\ UNCHANGED <<token, seq, nseq>>

(* Mutation: only the held row itself is invisible, not what follows it.   *)
OwnHoldOnly(m) == ~held[m]

(* PollNewUserMessages shows a pending row only before the earliest row    *)
(* that still carries overseer_held.                                       *)
BeforeHolds(m) == \A h \in 1..m : ~held[h]
Polled(m)      == delivery[m] = "pending" /\ BeforeHolds(m)

AppendMessage == InsertRow(FALSE, 0) /\ UNCHANGED requestVars

AppendUserMessageIfActive == phase # "ended" /\ AppendMessage

(* A pending row is won by the token; a row the token already owns is won  *)
(* again without a change.  claimed_at and delivery_sequence keep the      *)
(* value of an earlier claim.                                              *)
Wins(t, m) == delivery[m] = "pending" \/ (delivery[m] = "claimed" /\ token[m] = t)

(* Mutation: the place is counted from the delivered rows.                 *)
CountedSeq(m) == Cardinality({n \in Msgs : delivery[n] \in {"claimed", "completed"}}) + 1

NextSeq(m) == IF seq[m] = 0 THEN nseq + 1 ELSE seq[m]

ClaimUserMessage(t, m) ==
  /\ BeforeHolds(m)
  /\ Wins(t, m)
  /\ delivery' = [delivery EXCEPT ![m] = "claimed"]
  /\ token'    = [token EXCEPT ![m] = t]
  /\ seq'      = [seq EXCEPT ![m] = NextSeq(m)]
  /\ nseq'     = IF seq[m] = 0 THEN nseq + 1 ELSE nseq
  /\ UNCHANGED <<last, held, reserved, answers, snapshot>>
  /\ UNCHANGED requestVars

Owned(t) == {m \in Msgs : delivery[m] = "claimed" /\ token[m] = t}

CompleteClaims(t) ==
  /\ delivery' = [m \in Msgs |-> IF m \in Owned(t) THEN "completed" ELSE delivery[m]]
  /\ token'    = [m \in Msgs |-> IF m \in Owned(t) THEN NoToken ELSE token[m]]
  /\ UNCHANGED <<last, held, reserved, answers, snapshot, seq, nseq>>
  /\ UNCHANGED requestVars

Stolen(t) == {m \in Msgs : delivery[m] = "claimed" /\ token[m] # t}

(* Mutation: recovery clears the delivery order of what it hands back.     *)
RecoverWithoutPlace(t) ==
  /\ delivery' = [m \in Msgs |-> IF m \in Stolen(t) THEN "pending" ELSE delivery[m]]
  /\ token'    = [m \in Msgs |-> IF m \in Stolen(t) THEN NoToken ELSE token[m]]
  /\ seq'      = [m \in Msgs |-> IF m \in Stolen(t) THEN 0 ELSE seq[m]]
  /\ UNCHANGED <<last, held, reserved, answers, snapshot, nseq>>
  /\ UNCHANGED requestVars

(* Mutation: the dead runner's token stays on the row.                     *)
RecoverKeepingToken(t) ==
  /\ delivery' = [m \in Msgs |-> IF m \in Stolen(t) THEN "pending" ELSE delivery[m]]
  /\ UNCHANGED <<last, token, held, reserved, answers, snapshot, seq, nseq>>
  /\ UNCHANGED requestVars

RecoverClaimedUserMessages(t) ==
  /\ delivery' = [m \in Msgs |-> IF m \in Stolen(t) THEN "pending" ELSE delivery[m]]
  /\ token'    = [m \in Msgs |-> IF m \in Stolen(t) THEN NoToken ELSE token[m]]
  /\ UNCHANGED <<last, held, reserved, answers, snapshot, seq, nseq>>
  /\ UNCHANGED requestVars

CancelUndeliveredUserMessage(m) ==
  /\ delivery[m] = "pending"
  /\ delivery' = [delivery EXCEPT ![m] = "cancelled"]
  /\ UNCHANGED <<last, token, held, reserved, answers, snapshot, seq, nseq>>
  /\ UNCHANGED requestVars

-----------------------------------------------------------------------------
(* The pending input request.                                              *)

(* The trigger maintain_pending_request_id gives every update that leaves  *)
(* an input type behind an id of its own, whatever id the update names.    *)
Publish(q) ==
  /\ nreq < MaxReqs
  /\ nreq' = nreq + 1
  /\ request' = nreq + 1
  /\ asks' = q

Retire == retired' = IF asks = 0 THEN retired ELSE retired \cup {asks}

(* SetPendingQuestion and SetPendingAction: a new question replaces        *)
(* whatever was pending.                                                   *)
SetPending ==
  /\ Publish(nask + 1)
  /\ nask' = nask + 1
  /\ Retire
  /\ phase' = "waiting"
  /\ UNCHANGED rowVars

(* ClearPendingQuestion and ClearPendingAction: unconditional.             *)
ClearPending ==
  /\ request' = 0
  /\ asks' = 0
  /\ Retire
  /\ phase' = "running"
  /\ UNCHANGED <<rowVars, nreq, nask>>

ClearPendingInputIfID(r) ==
  /\ request = r
  /\ r # 0
  /\ ClearPending

Consume ==
  /\ request' = 0
  /\ asks' = 0
  /\ phase' = "running"
  /\ UNCHANGED <<nreq, nask, retired>>

(* Mutation: any pending request takes the answer.                         *)
AnswerWhatever(r) ==
  /\ phase # "ended"
  /\ request # 0
  /\ r # 0
  /\ InsertRow(FALSE, asks)
  /\ Consume

AnswerPendingInput(r) ==
  /\ phase # "ended"
  /\ request = r
  /\ r # 0
  /\ InsertRow(FALSE, asks)
  /\ Consume

(* Mutation: the response is reserved but the request stays pending.       *)
ReserveWithoutConsume(r) ==
  /\ request = r
  /\ r # 0
  /\ InsertRow(TRUE, asks)
  /\ UNCHANGED requestVars

ReservePendingInputResponse(r) ==
  /\ request = r
  /\ r # 0
  /\ InsertRow(TRUE, asks)
  /\ Consume

(* The row is matched by id and delivery_id alone, whatever its state.     *)
ReleasePendingInputResponse(m) ==
  /\ reserved[m]
  /\ held' = [held EXCEPT ![m] = FALSE]
  /\ UNCHANGED <<last, delivery, token, reserved, answers, snapshot, seq, nseq>>
  /\ UNCHANGED requestVars

CancelPendingInputResponse(m) ==
  /\ reserved[m]
  /\ delivery' = [delivery EXCEPT ![m] = "cancelled"]
  /\ held'     = [held EXCEPT ![m] = FALSE]
  /\ UNCHANGED <<last, token, reserved, answers, snapshot, seq, nseq>>
  /\ UNCHANGED requestVars

(* The rows held since before the cutoff: created_at grows with the id, so *)
(* they are the held rows up to some row k, the newest of them.            *)
Expired(k) == {h \in 1..k : held[h]}

(* Mutation: the restored question overwrites a newer one.                 *)
ReaskOverNewer(k) ==
  /\ Publish(answers[k])
  /\ phase' = snapshot[k].phase
  /\ UNCHANGED <<nask, retired>>

(* The question of the newest expired hold is asked again, under the phase *)
(* of its snapshot, unless a newer request is pending.                     *)
Reask(k) ==
  /\ request = 0
  /\ Publish(answers[k])
  /\ phase' = snapshot[k].phase
  /\ UNCHANGED <<nask, retired>>

(* Mutation: an expired hold is handed to the agent instead of cancelled.  *)
RecoverByRelease(k) ==
  /\ held[k]
  /\ held' = [h \in Msgs |-> held[h] /\ h \notin Expired(k)]
  /\ \/ Reask(k)
     \/ request # 0 /\ UNCHANGED requestVars
  /\ UNCHANGED <<last, delivery, token, reserved, answers, snapshot, seq, nseq>>

(* Mutation: the hold is cancelled and its question forgotten.             *)
RecoverAndForget(k) ==
  /\ held[k]
  /\ delivery' = [h \in Msgs |-> IF h \in Expired(k) THEN "cancelled" ELSE delivery[h]]
  /\ held' = [h \in Msgs |-> held[h] /\ h \notin Expired(k)]
  /\ UNCHANGED <<last, token, reserved, answers, snapshot, seq, nseq>>
  /\ UNCHANGED requestVars

RecoverExpiredHeldInputResponses(k) ==
  /\ held[k]
  /\ delivery' = [h \in Msgs |-> IF h \in Expired(k) THEN "cancelled" ELSE delivery[h]]
  /\ held' = [h \in Msgs |-> held[h] /\ h \notin Expired(k)]
  /\ \/ Reask(k)
     \/ request # 0 /\ UNCHANGED requestVars
  /\ UNCHANGED <<last, token, reserved, answers, snapshot, seq, nseq>>

UpdatePhase(ph) == phase' = ph /\ UNCHANGED <<rowVars, request, nreq, asks, nask, retired>>

-----------------------------------------------------------------------------
SessionNext ==
  \/ AppendMessage
  \/ AppendUserMessageIfActive
  \/ \E t \in Tokens, m \in Msgs : ClaimUserMessage(t, m)
  \/ \E t \in Tokens : CompleteClaims(t)
  \/ \E t \in Tokens : RecoverClaimedUserMessages(t)
  \/ \E m \in Msgs : CancelUndeliveredUserMessage(m)
  \/ SetPending
  \/ ClearPending
  \/ \E r \in Reqs : ClearPendingInputIfID(r)
  \/ \E r \in Reqs : AnswerPendingInput(r)
  \/ \E r \in Reqs : ReservePendingInputResponse(r)
  \/ \E m \in Msgs : ReleasePendingInputResponse(m)
  \/ \E m \in Msgs : CancelPendingInputResponse(m)
  \/ \E m \in Msgs : RecoverExpiredHeldInputResponses(m)
  \/ \E ph \in Phases : UpdatePhase(ph)

SessionSpec == SessionInit /\ [][SessionNext]_sessionVars

-----------------------------------------------------------------------------
(* Properties.                                                             *)

(* A row carries a claim token exactly while it is claimed, save that a    *)
(* reserved response may be cancelled under its claimant's feet: no other  *)
(* path lets a token outlive its claim, so CompleteClaims and the recovery *)
(* sweep between them always account for every claimed row.                *)
ClaimsAreOwned ==
  \A m \in Msgs :
    /\ delivery[m] = "claimed" => token[m] # NoToken
    /\ token[m] # NoToken => delivery[m] = "claimed" \/ (delivery[m] = "cancelled" /\ reserved[m])

(* delivery_sequence is the order in which the conversation shows user     *)
(* messages: no two rows share a place, and every delivered row has one,   *)
(* however often it was claimed, handed back and claimed again.            *)
TranscriptOrder ==
  /\ \A m \in Msgs : delivery[m] \in {"claimed", "completed"} => seq[m] # 0
  /\ \A m \in Msgs : seq[m] <= nseq
  /\ \A m, n \in Msgs : seq[m] = seq[n] /\ seq[m] # 0 => m = n

(* Live(m): the row is, or may still become, input to the agent.           *)
Live(m) == delivery[m] \in {"pending", "claimed", "completed"}

(* One decision per question: of the user's answers, the overseer's held   *)
(* or released responses and the plain clears of one question, at most one *)
(* stands, and while the question is open none does, even though an        *)
(* expired hold asks a consumed question again under another id.           *)
OneDecisionPerQuestion ==
  /\ \A m, n \in Msgs :
       Live(m) /\ Live(n) /\ answers[m] = answers[n] /\ answers[m] # 0 => m = n
  /\ \A m \in Msgs : Live(m) /\ answers[m] # 0 => answers[m] # asks /\ answers[m] \notin retired
  /\ asks \notin retired

(* Nothing sent after a held response, and not the response itself, has    *)
(* reached a runner: the agent never sees a later message before the       *)
(* decision it may depend on is settled.                                   *)
HoldsBlockTheQueue ==
  \A h, m \in Msgs : held[h] /\ h <= m => seq[m] = 0 /\ delivery[m] \in {"absent", "pending", "cancelled"}

(* While a response is held its question is out of everyone's hands: not   *)
(* open, not retired, and every other response to it is cancelled for      *)
(* good.  This is what lets recovery ask the question again without        *)
(* reopening a decision somebody else already made.                        *)
HoldsOwnTheirQuestion ==
  \A h \in Msgs : held[h] =>
    /\ answers[h] # 0
    /\ answers[h] # asks
    /\ answers[h] \notin retired
    /\ \A m \in Msgs \ {h} :
         answers[m] = answers[h] => delivery[m] = "cancelled" /\ ~held[m]

(* Rows beyond the newest id are blank, and every request id in use was    *)
(* drawn: the bookkeeping the inductive invariant needs.                   *)
RowsAllocated ==
  /\ \A m \in Msgs : m > last <=> delivery[m] = "absent"
  /\ \A m \in Msgs : m > last => ~held[m] /\ ~reserved[m] /\ answers[m] = 0 /\ seq[m] = 0
  /\ request <= nreq
  /\ request = 0 <=> asks = 0
  /\ asks <= nask
  /\ nask <= nreq
  /\ \A m \in Msgs : answers[m] <= nask
  /\ \A q \in retired : q <= nask

SessionInv ==
  /\ SessionTypeOK
  /\ RowsAllocated
  /\ ClaimsAreOwned
  /\ TranscriptOrder
  /\ HoldsBlockTheQueue
  /\ HoldsOwnTheirQuestion
  /\ OneDecisionPerQuestion

(* A withdrawn message never comes back and a delivered one is never       *)
(* handed out again; and a claim that is recovered from a dead runner and  *)
(* claimed again keeps its place in the conversation.                      *)
StaysSettled(m) ==
  /\ delivery[m] = "cancelled" => delivery'[m] = "cancelled"
  /\ delivery[m] = "completed" => delivery'[m] \in {"completed", "cancelled"}

KeepsPlace(m) == seq[m] # 0 => seq'[m] = seq[m]

RowsKeepTheirHistory == [][\A m \in Msgs : StaysSettled(m) /\ KeepsPlace(m)]_sessionVars

(* What the comment of ReservePendingInputResponse says of the recovery of *)
(* an expired hold, "this exact request is restored": the id that becomes  *)
(* pending is the one the hold consumed.                                   *)
RestoresTheExactRequest ==
  [][\A k \in Msgs : request = 0 /\ RecoverExpiredHeldInputResponses(k) =>
       request' = snapshot[k].id]_sessionVars
=============================================================================
