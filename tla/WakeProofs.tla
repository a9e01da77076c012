----------------------------- MODULE WakeProofs -----------------------------
(***************************************************************************)
(* Proofs that the wake protocol keeps its safety properties for every     *)
(* number of callers and every bound on retries, crashes and requests.     *)
(*                                                                         *)
(* The inductive invariant is WakeInv.  What a caller does moves the       *)
(* counter up or sets lowered, and leaves handled and settled alone, so a  *)
(* kept message stays kept.  What the controller does either leaves both   *)
(* alone too or dismisses everything stored so far, and StoredFirst says   *)
(* that this is everybody who may rely on being kept.                      *)
(***************************************************************************)
EXTENDS WakeRefinement, TLAPS

(* The new run satisfies the invariant. *)
LEMMA WakeInitInv == WakeInit => WakeInv
<1> SUFFICES ASSUME WakeInit PROVE WakeInv
  OBVIOUS
<1> USE CallerAssumption DEF WakeInit
<1>1. WakeTypeOK
  BY DEF WakeTypeOK, CallSteps, Reconciles, Wakeable, Ended
<1>2. \A c \in Callers : In(c, "idle")
  BY DEF In
<1>3. StoredFirst
  BY <1>2 DEF StoredFirst, In
<1>4. KeysKept
  BY <1>2 DEF KeysKept, Reached, In, Callers
<1>5. OthersKept
  BY <1>2 DEF OthersKept, In, Callers
<1> QED
  BY <1>1, <1>3, <1>4, <1>5 DEF WakeInv

-----------------------------------------------------------------------------
(* The two ways in which a step preserves the promises.                    *)

(* A step of the controller, or of the run, that settles nothing or all. *)
LEMMA ControllerKeeps ==
  ASSUME WakeInv, CallersQuiet, WakeTypeOK',
         UNCHANGED <<handled, settled>> \/ (handled' = wakeRequests /\ settled' = stored),
         phase' = "cancelled" => raised' \/ ~Outstanding'
  PROVE  WakeInv'
<1> USE CallerAssumption DEF CallersQuiet, session, In
<1>1. StoredFirst'
  BY DEF WakeInv, StoredFirst
<1>2. ASSUME ~lowered' PROVE handled' <= wakeRequests'
  BY <1>2 DEF WakeInv, WakeTypeOK
<1>3. ASSUME NEW c \in stored, Kept(c) PROVE Kept(c)'
  BY <1>3 DEF Kept, Outstanding
<1>4. ASSUME ~lowered' PROVE KeysKept'
  <2>1. \A k \in Keyed : Reached(k)' <=> Reached(k)
    BY DEF Reached
  <2>2. \A k \in Keyed : Reached(k) => k \in stored
    BY DEF Reached, WakeInv, StoredFirst
  <2> QED
    BY <1>3, <1>4, <2>1, <2>2 DEF WakeInv, KeysKept
<1>5. ASSUME ~lowered' PROVE OthersKept'
  <2>1. \A d \in Once : slot = d \/ In(d, "bump") => d \in stored
    BY DEF WakeInv, StoredFirst, Callers
  <2>2. \A c \in Plain \cup Once : In(c, "done") => c \in stored
    BY DEF WakeInv, StoredFirst, Callers
  <2> QED
    BY <1>3, <1>5, <2>1, <2>2 DEF WakeInv, OthersKept
<1> QED
  BY <1>1, <1>2, <1>4, <1>5 DEF WakeInv

(* A step that does not lower the counter forgets no message. *)
LEMMA CallerKeeps ==
  ASSUME WakeTypeOK, Quiet, wakeRequests' \in Nat, wakeRequests' >= wakeRequests,
         NEW c, Kept(c)
  PROVE  Kept(c)'
  BY DEF WakeTypeOK, Quiet, Kept, Outstanding

(* A write that raises the counter leaves a wake outstanding. *)
LEMMA RaiseKeepsAll ==
  ASSUME WakeTypeOK, Quiet, handled <= wakeRequests,
         wakeRequests' \in Nat, wakeRequests' > wakeRequests, NEW c
  PROVE  Kept(c)'
  BY DEF WakeTypeOK, Quiet, Kept, Outstanding

(* Whatever is written after a stop, a wake it leaves outstanding is new. *)
LEMMA WriteAfterStop ==
  ASSUME WakeInv, Quiet, NEW n \in Nat, WriteCounter(n)
  PROVE  phase' = "cancelled" => raised' \/ ~Outstanding'
<1> SUFFICES ASSUME phase' = "cancelled" PROVE raised' \/ ~Outstanding'
  OBVIOUS
<1>1. phase = "cancelled"
  BY DEF Quiet
<1>2. CASE n > wakeRequests
  BY <1>1, <1>2, Zenon DEF WriteCounter
<1>3. CASE raised
  BY <1>3, Zenon DEF WriteCounter
<1>4. CASE ~raised /\ ~(n > wakeRequests)
  <2>1. ~Outstanding
    BY <1>1, <1>4, Zenon DEF WakeInv
  <2>2. handled' = handled /\ wakeRequests' = n
    BY DEF Quiet, WriteCounter
  <2> QED
    BY <1>4, <2>1, <2>2 DEF WakeInv, WakeTypeOK, Outstanding
<1> QED
  BY <1>2, <1>3, <1>4

-----------------------------------------------------------------------------
(* The callers: one lemma per action, one step per conjunct.               *)

(* A step of one caller leaves the calls well formed. *)
LEMMA TurnTyped ==
  ASSUME WakeTypeOK, NEW c, NEW step \in CallSteps, Turn(c, step)
  PROVE  call' \in [Callers -> [step : CallSteps, seen : Nat, outdated : BOOLEAN]]
  BY DEF WakeTypeOK, Turn, Rest

(* A keyed caller that has just read the counter is not outdated. *)
LEMMA KeyReadInv ==
  ASSUME NEW k \in Keyed, WakeInv, KeyRead(k)
  PROVE  WakeInv'
<1> USE CallerAssumption DEF WakeInv, KeyRead, Quiet, session, limits, In, Rest
<1>1. WakeTypeOK'
  BY DEF WakeTypeOK, CallSteps, Callers
<1>2. \A c \in Callers \ {k} : call'[c] = call[c]
  BY DEF WakeTypeOK
<1>3. /\ call'[k].step \in {"reserve", "refused"}
      /\ call'[k].step = "reserve" => call'[k].seen = wakeRequests
  BY DEF WakeTypeOK, Callers
<1>4. StoredFirst'
  BY <1>2, <1>3 DEF StoredFirst
<1>5. ASSUME ~lowered' PROVE KeysKept'
  BY <1>2, <1>3, <1>5 DEF WakeTypeOK, KeysKept, Kept, Reached, Outstanding, Callers
<1>6. ASSUME ~lowered' PROVE OthersKept'
  BY <1>2, <1>3, <1>6 DEF OthersKept, Kept, Outstanding, Callers
<1>7. phase' = "cancelled" => raised' \/ ~Outstanding'
  BY DEF Outstanding
<1> QED
  BY <1>1, <1>4, <1>5, <1>6, <1>7

(* A new target is above the counter unless the caller is outdated, so a   *)
(* key is kept from the moment the counter reaches its target.             *)
LEMMA KeyReserveInv ==
  ASSUME NEW k \in Keyed, WakeInv, KeyReserve(k)
  PROVE  WakeInv'
<1> USE CallerAssumption DEF WakeInv, KeyReserve, Quiet, limits, Turn, In, Rest
<1>1. WakeTypeOK'
  <2>1. target' \in [Keyed -> Nat]
    BY DEF session, WakeTypeOK, Callers
  <2>2. stored \subseteq stored' /\ stored' \subseteq Callers
    BY DEF session, WakeTypeOK, Callers
  <2>3. raced' \subseteq Keyed
    BY DEF session, WakeTypeOK
  <2> QED
    BY <2>1, <2>2, <2>3 DEF WakeTypeOK, CallSteps, Callers
<1>2. \A c \in Callers \ {k} : call'[c] = call[c]
  BY DEF WakeTypeOK
<1>3. call'[k].step = "patch" /\ k \in Callers /\ k \notin Plain \cup Once
  BY DEF WakeTypeOK, Callers
<1>4. CASE target[k] # 0
  <2>1. UNCHANGED <<target, stored, raced>>
    BY <1>4 DEF session
  <2>2. StoredFirst'
    BY <1>2, <1>3, <1>4, <2>1 DEF StoredFirst
  <2>3. ASSUME ~lowered' PROVE KeysKept'
    BY <1>2, <1>3, <2>1, <2>3 DEF WakeTypeOK, KeysKept, Kept, Reached, Outstanding, Callers
  <2>4. ASSUME ~lowered' PROVE OthersKept'
    BY <1>2, <1>3, <2>1, <2>4 DEF OthersKept, Kept, Outstanding, Callers
  <2>5. phase' = "cancelled" => raised' \/ ~Outstanding'
    BY DEF Outstanding
  <2> QED
    BY <1>1, <2>2, <2>3, <2>4, <2>5
<1>5. CASE target[k] = 0
  <2>1. PICK n \in Nat : LeastTarget(n, call[k].seen) /\ target' = [target EXCEPT ![k] = n]
    BY <1>5 DEF WakeTypeOK, Callers
  <2>2. /\ n > call[k].seen
        /\ \A j \in Keyed : n > target[j]
    BY <2>1 DEF LeastTarget
  <2>3. /\ target'[k] = n
        /\ \A j \in Keyed \ {k} : target'[j] = target[j]
    BY <2>1 DEF WakeTypeOK
  <2>4. stored' = stored \cup {k} /\ raced \subseteq raced'
    BY <1>5
  <2>5. StoredFirst'
    BY <1>2, <1>3, <2>2, <2>3, <2>4 DEF StoredFirst, WakeTypeOK
  <2>6. ASSUME ~lowered' PROVE KeysKept'
    <3>1. KeysKept
      BY <2>6
    <3>2. k \notin raced' => ~Reached(k)'
      <4>1. ASSUME ~call[k].outdated PROVE n > wakeRequests
        BY <1>5, <2>2, <3>1, <4>1 DEF KeysKept, WakeTypeOK, Callers
      <4>2. k \notin raced' => ~call[k].outdated
        BY <1>5
      <4> QED
        BY <2>3, <4>1, <4>2 DEF Reached, WakeTypeOK
    <3>3. raises'[k] = 0
      BY <1>5, <3>1 DEF KeysKept, Reached
    <3>4. ASSUME NEW j \in Keyed \ {k}
          PROVE  In(j, "reserve")' /\ ~call'[j].outdated =>
                   wakeRequests' <= call'[j].seen \/ \E i \in Keyed : wakeRequests' <= target'[i]
      <4> SUFFICES ASSUME In(j, "reserve"), ~call[j].outdated, ~(wakeRequests <= call[j].seen)
                   PROVE  \E i \in Keyed : wakeRequests' <= target'[i]
        BY <1>2 DEF Callers
      <4>1. PICK i \in Keyed : wakeRequests <= target[i]
        BY <3>1 DEF KeysKept
      <4> QED
        BY <2>2, <2>3, <4>1 DEF WakeTypeOK
    <3>5. ASSUME NEW j \in Keyed \ {k}
          PROVE  /\ j \notin raced' /\ Reached(j)' => Kept(j)'
                 /\ In(j, "done")' => Reached(j)'
                 /\ raises'[j] = 0 \/ (raises'[j] = 1 /\ Reached(j)')
      BY <1>2, <2>3, <2>4, <3>1 DEF KeysKept, Reached, Kept, Outstanding, Callers
    <3> QED
      BY <1>3, <3>2, <3>3, <3>4, <3>5 DEF KeysKept
  <2>7. ASSUME ~lowered' PROVE OthersKept'
    BY <1>2, <1>3, <2>7 DEF OthersKept, Kept, Outstanding, Callers
  <2>8. phase' = "cancelled" => raised' \/ ~Outstanding'
    BY DEF Outstanding
  <2> QED
    BY <1>1, <2>5, <2>6, <2>7, <2>8
<1> QED
  BY <1>4, <1>5

(* A key that is patched either finds its target reached or raises the     *)
(* counter, which leaves a wake outstanding.                               *)
LEMMA KeyPatchInv ==
  ASSUME NEW k \in Keyed, WakeInv, KeyPatch(k)
  PROVE  WakeInv'
<1> USE CallerAssumption DEF WakeInv, KeyPatch, Turn, In, Rest
<1>1. \A c \in Callers \ {k} : call'[c] = call[c]
  BY DEF WakeTypeOK
<1>2. call'[k].step \in {"done", "refused"} /\ k \in Callers /\ k \notin Plain \cup Once
  BY DEF WakeTypeOK, Callers
<1>3. k \in stored /\ target[k] # 0
  BY DEF StoredFirst, Callers
<1>4. UNCHANGED <<handled, settled, phase, retryCount, asked, reconcile, crashes, requests,
                  slot, target, stored, raced>>
  BY DEF Quiet, limits, session
<1>5. StoredFirst'
  BY <1>1, <1>2, <1>3, <1>4 DEF StoredFirst
<1>6. call' \in [Callers -> [step : CallSteps, seen : Nat, outdated : BOOLEAN]]
  <2>1. Turn(k, "done") \/ Turn(k, "refused")
    OBVIOUS
  <2>2. "done" \in CallSteps /\ "refused" \in CallSteps
    BY DEF CallSteps
  <2> QED
    BY <2>1, <2>2, TurnTyped
<1>7. CASE UNCHANGED <<wakeRequests, raises, raised, lowered>>
  <2>1. WakeTypeOK'
    BY <1>4, <1>7, <1>6 DEF WakeTypeOK
  <2>2. call'[k].step = "done" => wakeRequests >= target[k]
    BY <1>2, <1>3, <1>7 DEF WriteCounter, WakeTypeOK
  <2>3. ASSUME ~lowered' PROVE KeysKept'
    BY <1>1, <1>2, <1>3, <1>4, <1>7, <2>2, <2>3
    DEF WakeTypeOK, KeysKept, Kept, Reached, Outstanding, Callers
  <2>4. ASSUME ~lowered' PROVE OthersKept'
    BY <1>1, <1>2, <1>4, <1>7, <2>4 DEF OthersKept, Kept, Outstanding, Callers
  <2>5. phase' = "cancelled" => raised' \/ ~Outstanding'
    BY <1>4, <1>7 DEF Outstanding
  <2> QED
    BY <1>4, <1>5, <1>7, <2>1, <2>3, <2>4, <2>5
<1>8. CASE wakeRequests < target[k] /\ WriteCounter(target[k]) /\ raises' = [raises EXCEPT ![k] = @ + 1]
  <2>1. WakeTypeOK'
    <3>1. wakeRequests' \in Nat /\ raises' \in [Keyed -> Nat]
      BY <1>8 DEF WakeTypeOK, WriteCounter
    <3>2. raised' \in BOOLEAN /\ lowered' \in BOOLEAN
      BY <1>8 DEF WriteCounter
    <3> QED
      BY <1>4, <1>6, <3>1, <3>2 DEF WakeTypeOK
  <2>2. wakeRequests' = target[k] /\ wakeRequests' > wakeRequests
    BY <1>8 DEF WriteCounter
  <2>3. ASSUME ~lowered' PROVE ~lowered /\ handled <= wakeRequests
    BY <1>8, <2>3 DEF WriteCounter
  <2>4. ASSUME ~lowered', NEW c PROVE Kept(c)'
    BY <1>4, <2>2, <2>3, <2>4 DEF WakeTypeOK, Kept, Outstanding
  <2>5. ASSUME ~lowered' PROVE KeysKept'
    <3>1. \A j \in Keyed : Reached(j) => Reached(j)'
      BY <1>4, <2>1, <2>2 DEF Reached, WakeTypeOK
    <3>2. Reached(k)' /\ ~Reached(k)
      BY <1>3, <1>4, <1>8, <2>2 DEF Reached, WakeTypeOK
    <3>3. raises'[k] = 1 /\ \A j \in Keyed \ {k} : raises'[j] = raises[j]
      BY <1>8, <2>3, <2>5, <3>2 DEF KeysKept, WakeTypeOK
    <3>4. \E j \in Keyed : wakeRequests' <= target'[j]
      BY <1>4, <2>2 DEF WakeTypeOK
    <3> QED
      BY <1>1, <1>2, <2>3, <2>4, <2>5, <3>1, <3>2, <3>3, <3>4 DEF KeysKept, Callers
  <2>6. ASSUME ~lowered' PROVE OthersKept'
    BY <2>4, <2>6 DEF OthersKept
  <2>7. ASSUME ~lowered' PROVE handled' <= wakeRequests'
    BY <1>4, <2>2, <2>3, <2>7 DEF WakeTypeOK
  <2>8. Quiet
    BY DEF KeyPatch
  <2>9. phase' = "cancelled" => raised' \/ ~Outstanding'
    BY <1>8, <2>8, WriteAfterStop DEF WakeTypeOK
  <2> QED
    BY <1>5, <2>1, <2>5, <2>6, <2>7, <2>9
<1> QED
  BY <1>7, <1>8

(* A plain message is stored before its caller bumps the counter. *)
LEMMA PlainAppendInv ==
  ASSUME NEW p \in Plain, WakeInv, PlainAppend(p)
  PROVE  WakeInv'
<1> USE CallerAssumption DEF WakeInv, PlainAppend, Quiet, limits, Turn, In, Rest
<1>1. WakeTypeOK'
  BY DEF WakeTypeOK, CallSteps, Callers
<1>2. \A c \in Callers \ {p} : call'[c] = call[c]
  BY DEF WakeTypeOK
<1>3. call'[p].step = "bump" /\ p \in Callers /\ p \notin Keyed \cup Once
  BY DEF WakeTypeOK, Callers
<1>4. StoredFirst'
  BY <1>2, <1>3 DEF StoredFirst
<1>5. ASSUME ~lowered' PROVE KeysKept'
  BY <1>2, <1>3, <1>5 DEF KeysKept, Kept, Reached, Outstanding, Callers
<1>6. ASSUME ~lowered' PROVE OthersKept'
  BY <1>2, <1>3, <1>6 DEF OthersKept, Kept, Outstanding, Callers
<1>7. phase' = "cancelled" => raised' \/ ~Outstanding'
  BY DEF Outstanding
<1> QED
  BY <1>1, <1>4, <1>5, <1>6, <1>7

(* A delivery finds its annotation, and is kept, or stores its message. *)
LEMMA OnceDeliverInv ==
  ASSUME NEW d \in Once, WakeInv, OnceDeliver(d)
  PROVE  WakeInv'
<1> USE CallerAssumption DEF WakeInv, OnceDeliver, Quiet, limits, Turn, In, Rest
<1>1. WakeTypeOK'
  <2>1. call' \in [Callers -> [step : CallSteps, seen : Nat, outdated : BOOLEAN]]
    <3>1. Turn(d, "done") \/ Turn(d, "fetch")
      OBVIOUS
    <3>2. "done" \in CallSteps /\ "fetch" \in CallSteps
      BY DEF CallSteps
    <3> QED
      BY <3>1, <3>2, TurnTyped
  <2>2. stored' \subseteq Callers /\ stored \subseteq stored'
    BY DEF WakeTypeOK, Callers
  <2> QED
    BY <2>1, <2>2 DEF WakeTypeOK
<1>2. \A c \in Callers \ {d} : call'[c] = call[c]
  BY DEF WakeTypeOK
<1>3. /\ d \in Callers /\ d \notin Keyed \cup Plain /\ d # NoDelivery
      /\ \/ call'[d].step = "done" /\ slot = d
         \/ call'[d].step = "fetch"
      /\ stored \subseteq stored' /\ stored' \subseteq stored \cup {d}
      /\ call'[d].step = "fetch" => d \in stored'
  BY DEF WakeTypeOK, Callers
<1>4. StoredFirst'
  BY <1>2, <1>3 DEF StoredFirst
<1>5. ASSUME ~lowered' PROVE KeysKept'
  BY <1>2, <1>3, <1>5 DEF KeysKept, Kept, Reached, Outstanding, Callers
<1>6. ASSUME ~lowered' PROVE OthersKept'
  BY <1>2, <1>3, <1>6 DEF OthersKept, Kept, Outstanding, Callers
<1>7. phase' = "cancelled" => raised' \/ ~Outstanding'
  BY DEF Outstanding
<1> QED
  BY <1>1, <1>4, <1>5, <1>6, <1>7

(* A delivery that finds no annotation notes the counter. *)
LEMMA OnceFetchInv ==
  ASSUME NEW d \in Once, WakeInv, OnceFetch(d)
  PROVE  WakeInv'
<1> USE CallerAssumption DEF WakeInv, OnceFetch, Quiet, limits, session, In, Rest
<1>1. WakeTypeOK'
  BY DEF WakeTypeOK, CallSteps, Callers
<1>2. \A c \in Callers \ {d} : call'[c] = call[c]
  BY DEF WakeTypeOK
<1>3. /\ d \in Callers /\ d \notin Keyed \cup Plain
      /\ \/ call'[d].step = "done" /\ slot = d
         \/ call'[d].step = "bump" /\ call'[d].seen = wakeRequests
  BY DEF WakeTypeOK, Callers
<1>4. StoredFirst'
  BY <1>2, <1>3 DEF StoredFirst
<1>5. ASSUME ~lowered' PROVE KeysKept'
  BY <1>2, <1>3, <1>5 DEF KeysKept, Kept, Reached, Outstanding, Callers
<1>6. ASSUME ~lowered' PROVE OthersKept'
  BY <1>2, <1>3, <1>6 DEF WakeTypeOK, OthersKept, Kept, Outstanding, Callers
<1>7. phase' = "cancelled" => raised' \/ ~Outstanding'
  BY DEF Outstanding
<1> QED
  BY <1>1, <1>4, <1>5, <1>6, <1>7

(* A write without a key rewrites the other calls' outdated marks only. *)
LEMMA OutdatingCalls ==
  ASSUME WakeTypeOK, NEW c \in Callers, Outdating(c, "done")
  PROVE  /\ call' \in [Callers -> [step : CallSteps, seen : Nat, outdated : BOOLEAN]]
         /\ call'[c] = Rest("done")
         /\ \A d \in Callers \ {c} :
              /\ call'[d].step = call[d].step
              /\ call'[d].seen = call[d].seen
              /\ call'[d].step = "reserve" => call'[d].outdated
<1>1. \A d \in Callers : call[d] \in [step : CallSteps, seen : Nat, outdated : BOOLEAN]
  BY DEF WakeTypeOK
<1>2. Rest("done") \in [step : CallSteps, seen : Nat, outdated : BOOLEAN]
  BY DEF Rest, CallSteps
<1>3. ASSUME NEW d \in Callers \ {c}
      PROVE  /\ call'[d] \in [step : CallSteps, seen : Nat, outdated : BOOLEAN]
             /\ call'[d].step = call[d].step
             /\ call'[d].seen = call[d].seen
             /\ call'[d].step = "reserve" => call'[d].outdated
  BY <1>1 DEF Outdating, In
<1>4. call'[c] = Rest("done") /\ DOMAIN call' = Callers
  BY DEF Outdating
<1>5. call' = [d \in Callers |-> call'[d]]
  BY DEF Outdating
<1> QED
  BY <1>2, <1>3, <1>4, <1>5

(* What an unkeyed write leaves alone, and that it makes every key draw anew. *)
LEMMA UnkeyedWriteInv ==
  ASSUME NEW c \in Plain \cup Once, NEW n \in Nat, WakeInv, Quiet,
         In(c, "bump"), Outdating(c, "done"), WriteCounter(n),
         UNCHANGED <<session, raced, raises>>,
         slot' = slot \/ (c \in Once /\ slot' = c),
         c \in Plain => n > wakeRequests,
         c \in Once => n = call[c].seen + 1
  PROVE  WakeInv'
<1> USE CallerAssumption DEF session, limits
<1>1. c \in Callers /\ c \notin Keyed
  BY DEF Callers
<1>2. /\ call' \in [Callers -> [step : CallSteps, seen : Nat, outdated : BOOLEAN]]
      /\ call'[c].step = "done"
      /\ \A d \in Callers \ {c} :
           /\ call'[d].step = call[d].step
           /\ call'[d].seen = call[d].seen
           /\ call'[d].step = "reserve" => call'[d].outdated
  BY <1>1, OutdatingCalls DEF WakeInv, Rest
<1>3. c \in stored
  BY <1>1 DEF WakeInv, StoredFirst, In
<1>4. WakeTypeOK'
  <2>1. raised' \in BOOLEAN /\ lowered' \in BOOLEAN
    BY DEF WriteCounter
  <2>2. wakeRequests' \in Nat /\ slot' \in Once \cup {NoDelivery}
    BY DEF WriteCounter, WakeInv, WakeTypeOK
  <2> QED
    BY <1>2, <2>1, <2>2 DEF WakeInv, WakeTypeOK, Quiet
<1>5. StoredFirst'
  BY <1>1, <1>2, <1>3 DEF WakeInv, StoredFirst
<1>6. ASSUME ~lowered' PROVE /\ ~lowered /\ n >= wakeRequests /\ wakeRequests' = n
                            /\ handled <= wakeRequests /\ KeysKept /\ OthersKept
  <2>1. ~lowered /\ ~(n < wakeRequests) /\ wakeRequests' = n
    BY <1>6, Zenon DEF WriteCounter
  <2>2. handled <= wakeRequests /\ KeysKept /\ OthersKept
    BY <2>1, Zenon DEF WakeInv
  <2>3. wakeRequests \in Nat
    BY DEF WakeInv, WakeTypeOK
  <2> QED
    BY <2>1, <2>2, <2>3
<1>7. ASSUME ~lowered', NEW d, Kept(d) PROVE Kept(d)'
  BY <1>6, <1>7, CallerKeeps DEF WakeInv
<1>8. ASSUME ~lowered', n > wakeRequests, NEW d PROVE Kept(d)'
  BY <1>6, <1>8, RaiseKeepsAll DEF WakeInv
<1>9. ASSUME ~lowered' PROVE Kept(c)'
  <2>1. CASE n > wakeRequests
    BY <1>8, <1>9, <2>1
  <2>2. CASE ~(n > wakeRequests)
    <3>1. c \in Once /\ call[c].seen < wakeRequests
      BY <1>2, <1>6, <1>9, <2>2 DEF WakeInv, WakeTypeOK, Callers
    <3>2. Kept(c)
      BY <1>6, <1>9, <3>1 DEF OthersKept
    <3> QED
      BY <1>7, <1>9, <3>2
  <2> QED
    BY <2>1, <2>2
<1>10. ASSUME ~lowered' PROVE KeysKept'
  <2>1. ASSUME NEW k \in Keyed, Reached(k) PROVE Reached(k)'
    BY <1>6, <1>10, <2>1 DEF Reached, WakeInv, WakeTypeOK
  <2>2. ASSUME NEW k \in Keyed, Reached(k)', k \notin raced PROVE Kept(k)'
    <3>1. CASE n > wakeRequests
      BY <1>8, <1>10, <3>1
    <3>2. CASE ~(n > wakeRequests)
      <4>1. Reached(k)
        BY <1>6, <1>10, <2>2, <3>2 DEF Reached, WakeInv, WakeTypeOK
      <4> QED
        BY <1>6, <1>7, <1>10, <2>2, <4>1 DEF KeysKept
    <3> QED
      BY <3>1, <3>2
  <2>3. ASSUME NEW k \in Keyed
        PROVE  /\ call'[k].step = call[k].step
               /\ call'[k].step = "reserve" => call'[k].outdated
    BY <1>1, <1>2 DEF Callers
  <2>4. raises' = raises /\ raced' = raced
    OBVIOUS
  <2>5. ASSUME NEW k \in Keyed
        PROVE  /\ k \notin raced' /\ Reached(k)' => Kept(k)'
               /\ In(k, "done")' => Reached(k)'
               /\ raises'[k] = 0 \/ (raises'[k] = 1 /\ Reached(k)')
    <3>1. k \notin raced' /\ Reached(k)' => Kept(k)'
      BY <2>2, <2>4
    <3>2. In(k, "done")' => Reached(k)'
      <4>1. In(k, "done") => Reached(k)
        BY <1>6, <1>10 DEF KeysKept
      <4>2. In(k, "done")' => In(k, "done")
        BY <2>3 DEF In
      <4> QED
        BY <2>1, <4>1, <4>2
    <3>3. raises'[k] = 0 \/ (raises'[k] = 1 /\ Reached(k)')
      BY <1>6, <1>10, <2>1, <2>4 DEF KeysKept
    <3> QED
      BY <3>1, <3>2, <3>3
  <2> QED
    BY <2>3, <2>5 DEF KeysKept, In
<1>11. ASSUME ~lowered' PROVE OthersKept'
  <2>1. ASSUME NEW d \in Plain \cup Once, In(d, "done")' PROVE Kept(d)'
    BY <1>2, <1>6, <1>7, <1>9, <1>11, <2>1 DEF OthersKept, In, Callers
  <2>2. ASSUME NEW d \in Once, slot' = d PROVE Kept(d)'
    BY <1>6, <1>7, <1>9, <1>11, <2>2 DEF OthersKept
  <2>3. ASSUME NEW d \in Once, In(d, "bump")', call'[d].seen < wakeRequests' PROVE Kept(d)'
    <3>1. CASE n > wakeRequests
      BY <1>8, <1>11, <3>1
    <3>2. CASE ~(n > wakeRequests)
      <4>1. In(d, "bump") /\ call[d].seen < wakeRequests
        BY <1>2, <1>6, <1>11, <2>3, <3>2 DEF In, Callers, WakeInv, WakeTypeOK
      <4> QED
        BY <1>6, <1>7, <1>11, <4>1 DEF OthersKept
    <3> QED
      BY <3>1, <3>2
  <2> QED
    BY <2>1, <2>2, <2>3 DEF OthersKept
<1>12. ASSUME ~lowered' PROVE handled' <= wakeRequests'
  BY <1>6, <1>12 DEF WakeInv, WakeTypeOK, Quiet
<1>13. phase' = "cancelled" => raised' \/ ~Outstanding'
  BY WriteAfterStop
<1> QED
  BY <1>4, <1>5, <1>10, <1>11, <1>12, <1>13 DEF WakeInv

(* An increment under the optimistic lock. *)
LEMMA PlainBumpInv ==
  ASSUME NEW p \in Plain, WakeInv, PlainBump(p)
  PROVE  WakeInv'
<1>1. wakeRequests + 1 \in Nat /\ wakeRequests + 1 > wakeRequests
  BY DEF WakeInv, WakeTypeOK
<1>2. p \notin Once
  BY CallerAssumption
<1> QED
  BY <1>1, <1>2, UnkeyedWriteInv DEF PlainBump

(* The unlocked patch: it lowers the counter, or repeats it, or raises it. *)
LEMMA OncePatchInv ==
  ASSUME NEW d \in Once, WakeInv, OncePatch(d)
  PROVE  WakeInv'
<1>1. call[d].seen + 1 \in Nat
  BY DEF WakeInv, WakeTypeOK, Callers
<1>2. d \notin Plain
  BY CallerAssumption
<1> QED
  BY <1>1, <1>2, UnkeyedWriteInv DEF OncePatch

(* Trying again starts from the first step. *)
LEMMA RestartInv ==
  ASSUME NEW c \in Callers, WakeInv, Restart(c)
  PROVE  WakeInv'
<1> USE CallerAssumption DEF WakeInv, Restart, object, session, wakeHist
<1>1. "idle" \in CallSteps /\ call' \in [Callers -> [step : CallSteps, seen : Nat, outdated : BOOLEAN]]
  BY TurnTyped DEF CallSteps
<1>2. WakeTypeOK'
  BY <1>1 DEF WakeTypeOK, Breaks
<1>3. call'[c].step = "idle" /\ \A d \in Callers \ {c} : call'[d] = call[d]
  BY DEF WakeTypeOK, Turn, Rest
<1>4. StoredFirst'
  BY <1>3 DEF StoredFirst
<1>5. ASSUME ~lowered' PROVE KeysKept'
  BY <1>3, <1>5 DEF KeysKept, Kept, Reached, Outstanding, In, Callers
<1>6. ASSUME ~lowered' PROVE OthersKept'
  BY <1>3, <1>6 DEF OthersKept, Kept, Outstanding, In, Callers
<1>7. phase' = "cancelled" => raised' \/ ~Outstanding'
  BY DEF Outstanding
<1> QED
  BY <1>2, <1>4, <1>5, <1>6, <1>7

-----------------------------------------------------------------------------
(* The run and its controller.                                             *)

(* A run that ends by itself settles nothing. *)
LEMMA RunEndsInv ==
  ASSUME WakeInv, RunEnds
  PROVE  WakeInv'
<1> USE DEF RunEnds
<1>1. CallersQuiet
  OBVIOUS
<1>2. WakeTypeOK'
  BY DEF WakeInv, WakeTypeOK, CallersQuiet, session, limits, Wakeable, Ended
<1>3. UNCHANGED <<handled, settled>> \/ (handled' = wakeRequests /\ settled' = stored)
  OBVIOUS
<1>4. phase' = "cancelled" => raised' \/ ~Outstanding'
  OBVIOUS
<1> QED
  BY <1>1, <1>2, <1>3, <1>4, ControllerKeeps

(* Nor does a run that is resumed. *)
LEMMA ResumePausedInv ==
  ASSUME WakeInv, ResumePaused
  PROVE  WakeInv'
<1> USE DEF ResumePaused
<1>1. CallersQuiet
  OBVIOUS
<1>2. WakeTypeOK'
  BY DEF WakeInv, WakeTypeOK, CallersQuiet, session, limits, Wakeable
<1>3. UNCHANGED <<handled, settled>> \/ (handled' = wakeRequests /\ settled' = stored)
  OBVIOUS
<1>4. phase' = "cancelled" => raised' \/ ~Outstanding'
  OBVIOUS
<1> QED
  BY <1>1, <1>2, <1>3, <1>4, ControllerKeeps

(* A request for a terminal phase. *)
LEMMA AskTerminationInv ==
  ASSUME WakeInv, AskTermination
  PROVE  WakeInv'
<1> USE DEF AskTermination
<1>1. CallersQuiet
  OBVIOUS
<1>2. WakeTypeOK'
  BY DEF WakeInv, WakeTypeOK, CallersQuiet, session, limits, Ended
<1>3. UNCHANGED <<handled, settled>> \/ (handled' = wakeRequests /\ settled' = stored)
  OBVIOUS
<1>4. phase' = "cancelled" => raised' \/ ~Outstanding'
  BY DEF WakeInv, CallersQuiet, Outstanding
<1> QED
  BY <1>1, <1>2, <1>3, <1>4, ControllerKeeps

(* The controller notices it. *)
LEMMA SeeTerminationInv ==
  ASSUME NEW ph \in {"cancelled", "succeeded"}, WakeInv, SeeTermination(ph)
  PROVE  WakeInv'
<1> USE DEF SeeTermination
<1>1. CallersQuiet
  OBVIOUS
<1>2. WakeTypeOK'
  BY DEF WakeInv, WakeTypeOK, CallersQuiet, session, limits, Reconciles, Clear
<1>3. UNCHANGED <<handled, settled>> \/ (handled' = wakeRequests /\ settled' = stored)
  OBVIOUS
<1>4. phase' = "cancelled" => raised' \/ ~Outstanding'
  BY DEF WakeInv, CallersQuiet, Outstanding
<1> QED
  BY <1>1, <1>2, <1>3, <1>4, ControllerKeeps

(* A stop dismisses every message stored before it. *)
LEMMA TerminateInv ==
  ASSUME NEW ph \in {"cancelled", "succeeded"}, WakeInv, Terminate(ph)
  PROVE  WakeInv'
<1> USE DEF Terminate
<1>1. CallersQuiet
  OBVIOUS
<1>2. WakeTypeOK'
  BY DEF WakeInv, WakeTypeOK, CallersQuiet, session, limits, Reconciles, Clear, Wakeable, Ended
<1>3. UNCHANGED <<handled, settled>> \/ (handled' = wakeRequests /\ settled' = stored)
  BY DEF CallersQuiet, session
<1>4. phase' = "cancelled" => raised' \/ ~Outstanding'
  <2>1. CASE phase \in Ended
    BY <2>1 DEF WakeInv, CallersQuiet, Outstanding
  <2>2. CASE phase \notin Ended
    BY <2>2 DEF WakeInv, WakeTypeOK, CallersQuiet, Outstanding
  <2> QED
    BY <2>1, <2>2
<1> QED
  BY <1>1, <1>2, <1>3, <1>4, ControllerKeeps

(* The request is done. *)
LEMMA ClearTerminationInv ==
  ASSUME NEW ph \in {"cancelled", "succeeded"}, WakeInv, ClearTermination(ph)
  PROVE  WakeInv'
<1> USE DEF ClearTermination
<1>1. CallersQuiet
  OBVIOUS
<1>2. WakeTypeOK'
  BY DEF WakeInv, WakeTypeOK, CallersQuiet, session, limits, Reconciles
<1>3. UNCHANGED <<handled, settled>> \/ (handled' = wakeRequests /\ settled' = stored)
  OBVIOUS
<1>4. phase' = "cancelled" => raised' \/ ~Outstanding'
  BY DEF WakeInv, CallersQuiet, Outstanding
<1> QED
  BY <1>1, <1>2, <1>3, <1>4, ControllerKeeps

(* The controller notices a wake. *)
LEMMA SeeWakeInv ==
  ASSUME WakeInv, SeeWake
  PROVE  WakeInv'
<1> USE DEF SeeWake
<1>1. CallersQuiet
  OBVIOUS
<1>2. WakeTypeOK'
  BY DEF WakeInv, WakeTypeOK, CallersQuiet, session, limits, Reconciles
<1>3. UNCHANGED <<handled, settled>> \/ (handled' = wakeRequests /\ settled' = stored)
  OBVIOUS
<1>4. phase' = "cancelled" => raised' \/ ~Outstanding'
  BY DEF WakeInv, CallersQuiet, Outstanding
<1> QED
  BY <1>1, <1>2, <1>3, <1>4, ControllerKeeps

(* A refusal dismisses every message stored so far. *)
LEMMA RefuseWakeInv ==
  ASSUME WakeInv, RefuseWake
  PROVE  WakeInv'
<1> USE DEF RefuseWake
<1>1. CallersQuiet
  OBVIOUS
<1>2. WakeTypeOK'
  BY DEF WakeInv, WakeTypeOK, CallersQuiet, session, limits, Reconciles
<1>3. UNCHANGED <<handled, settled>> \/ (handled' = wakeRequests /\ settled' = stored)
  OBVIOUS
<1>4. phase' = "cancelled" => raised' \/ ~Outstanding'
  <2>1. CASE phase = "failed"
    BY <2>1
  <2>2. CASE phase # "failed"
    BY <2>2 DEF WakeInv, CallersQuiet, Outstanding
  <2> QED
    BY <2>1, <2>2
<1> QED
  BY <1>1, <1>2, <1>3, <1>4, ControllerKeeps

(* An attempt reads every message stored so far. *)
LEMMA StartAttemptInv ==
  ASSUME WakeInv, StartAttempt
  PROVE  WakeInv'
<1> USE DEF StartAttempt
<1>1. CallersQuiet
  OBVIOUS
<1>2. WakeTypeOK'
  <2>1. CASE Outstanding /\ phase \in Wakeable
    <3>1. wakeRequests \in Nat /\ retryCount \in Nat
      BY DEF WakeInv, WakeTypeOK
    <3>2. handled' \in Nat /\ retryCount' \in Nat
      BY <2>1, <3>1
    <3>3. phase' = "running" /\ reconcile' \in Reconciles /\ settled' = stored /\ raised' = FALSE
      BY <2>1 DEF Reconciles
    <3> QED
      BY <3>2, <3>3 DEF WakeInv, WakeTypeOK, CallersQuiet, session, limits
  <2>2. CASE ~(Outstanding /\ phase \in Wakeable)
    BY <2>2 DEF WakeInv, WakeTypeOK, CallersQuiet, session, limits, Reconciles
  <2> QED
    BY <2>1, <2>2
<1>3. UNCHANGED <<handled, settled>> \/ (handled' = wakeRequests /\ settled' = stored)
  OBVIOUS
<1>4. phase' = "cancelled" => raised' \/ ~Outstanding'
  <2>1. CASE Outstanding /\ phase \in Wakeable
    BY <2>1
  <2>2. CASE ~(Outstanding /\ phase \in Wakeable)
    BY <2>2 DEF WakeInv, CallersQuiet, Outstanding
  <2> QED
    BY <2>1, <2>2
<1> QED
  BY <1>1, <1>2, <1>3, <1>4, ControllerKeeps

(* A reconcile that breaks off settles nothing. *)
LEMMA ReconcileBreaksInv ==
  ASSUME WakeInv, ReconcileBreaks
  PROVE  WakeInv'
<1> USE DEF ReconcileBreaks
<1>1. CallersQuiet
  OBVIOUS
<1>2. WakeTypeOK'
  <2>1. crashes' \in Nat /\ reconcile' \in Reconciles
    <3>1. crashes \in Nat
      BY DEF WakeInv, WakeTypeOK
    <3> QED
      BY <3>1 DEF Reconciles, Breaks
  <2> QED
    BY <2>1 DEF WakeInv, WakeTypeOK, CallersQuiet, session
<1>3. UNCHANGED <<handled, settled>> \/ (handled' = wakeRequests /\ settled' = stored)
  OBVIOUS
<1>4. phase' = "cancelled" => raised' \/ ~Outstanding'
  BY DEF WakeInv, CallersQuiet, Outstanding
<1> QED
  BY <1>1, <1>2, <1>3, <1>4, ControllerKeeps

-----------------------------------------------------------------------------
(* Every step of the protocol, and its promises.                           *)

LEMMA WakeStepInv == WakeInv /\ [WakeNext]_wakeVars => WakeInv'
<1> SUFFICES ASSUME WakeInv, [WakeNext]_wakeVars PROVE WakeInv'
  OBVIOUS
<1>1. CASE CallerNext
  BY <1>1, KeyReadInv, KeyReserveInv, KeyPatchInv, PlainAppendInv, PlainBumpInv,
     OnceDeliverInv, OnceFetchInv, OncePatchInv, RestartInv
  DEF CallerNext
<1>2. CASE RunEnds \/ ResumePaused \/ AskTermination \/ ReconcileBreaks
  BY <1>2, RunEndsInv, ResumePausedInv, AskTerminationInv, ReconcileBreaksInv
<1>3. CASE Reconcile
  BY <1>3, SeeTerminationInv, TerminateInv, ClearTerminationInv, SeeWakeInv, RefuseWakeInv,
     StartAttemptInv
  DEF Reconcile
<1>4. CASE UNCHANGED wakeVars
  <2>1. CallersQuiet /\ UNCHANGED <<handled, settled, phase, retryCount, asked, reconcile,
                                   crashes, requests, raised, lowered>>
    BY <1>4 DEF wakeVars, object, session, limits, wakeHist, CallersQuiet
  <2>2. WakeTypeOK'
    BY <2>1 DEF WakeInv, WakeTypeOK, CallersQuiet, session
  <2>3. phase' = "cancelled" => raised' \/ ~Outstanding'
    BY <2>1 DEF WakeInv, CallersQuiet, Outstanding
  <2> QED
    BY <2>1, <2>2, <2>3, ControllerKeeps
<1> QED
  BY <1>1, <1>2, <1>3, <1>4 DEF WakeNext

(* The inductive invariant holds of every behaviour. *)
THEOREM WakeInvariance == WakeSpec => []WakeInv
  BY WakeInitInv, WakeStepInv, PTL DEF WakeSpec

(* Counter, intents, annotation and calls keep their types: above all the  *)
(* run never leaves the phases of the API.                                 *)
THEOREM WakeTypes == WakeSpec => []WakeTypeOK
<1>1. WakeInv => WakeTypeOK
  BY DEF WakeInv
<1> QED
  BY <1>1, WakeInvariance, PTL

(* WakeAgentRun, WakeAgentRunOnce and the keyed wakes forget no message    *)
(* they reported as delivered, outside the two races that NoLostWake names.*)
THEOREM NoWakeLost == WakeSpec => []NoLostWake
<1>1. WakeInv => NoLostWake
  <2> SUFFICES ASSUME WakeInv, ~lowered, NEW c \in Callers \ raced, In(c, "done")
               PROVE  Kept(c)
    BY DEF NoLostWake, Kept
  <2>1. KeysKept /\ OthersKept
    BY DEF WakeInv
  <2>2. CASE c \in Keyed
    BY <2>1, <2>2 DEF KeysKept
  <2>3. CASE c \in Plain \cup Once
    BY <2>1, <2>3 DEF OthersKept
  <2> QED
    BY <2>2, <2>3 DEF Callers
<1> QED
  BY <1>1, WakeInvariance, PTL

(* wakeAgentRunIdempotent counts a key once, however often it is retried.  *)
THEOREM KeysCountOnce == WakeSpec => []KeyCountedOnce
<1>1. WakeInv => KeyCountedOnce
  <2> SUFFICES ASSUME WakeInv, ~lowered, NEW k \in Keyed PROVE raises[k] <= 1
    BY DEF KeyCountedOnce
  <2>1. raises[k] = 0 \/ raises[k] = 1
    BY DEF WakeInv, KeysKept
  <2> QED
    BY <2>1
<1> QED
  BY <1>1, WakeInvariance, PTL

(* handleWakeRequest resumes a cancelled run only for a wake that was      *)
(* counted after the stop.                                                 *)
THEOREM StopWins == WakeSpec => StopSupersedes
<1>1. ASSUME WakeInv, [WakeNext]_wakeVars, phase = "cancelled", phase' # phase
      PROVE  raised
  <2>1. ~UNCHANGED wakeVars
    BY <1>1 DEF wakeVars, object
  <2>2. ~CallerNext
    BY <1>1 DEF CallerNext, KeyRead, KeyReserve, KeyPatch, PlainAppend, PlainBump,
       OnceDeliver, OnceFetch, OncePatch, Restart, Quiet, object
  <2>3. ~(RunEnds \/ ResumePaused \/ AskTermination \/ ReconcileBreaks)
    BY <1>1 DEF RunEnds, ResumePaused, AskTermination, ReconcileBreaks
  <2>4. Reconcile
    BY <1>1, <2>1, <2>2, <2>3 DEF WakeNext
  <2>5. StartAttempt
    BY <1>1, <2>4 DEF Reconcile, SeeTermination, Terminate, ClearTermination, SeeWake,
       RefuseWake, Ended
  <2>6. Outstanding
    BY <1>1, <2>5 DEF StartAttempt
  <2> QED
    BY <1>1, <2>6 DEF WakeInv
<1>2. WakeInv /\ [WakeNext]_wakeVars => [phase = "cancelled" /\ phase' # phase => raised]_wakeVars
  BY <1>1
<1> QED
  BY <1>2, WakeInvariance, PTL DEF WakeSpec, StopSupersedes

-----------------------------------------------------------------------------
(* The protocol implements Wake.                                           *)

(* What a step of the run or its controller leaves alone. *)
LEMMA ToldStays == ASSUME CallersQuiet PROVE UNCHANGED <<stored, lowered, ToldOf>>
  BY DEF CallersQuiet, session, ToldOf, In

(* A message is put into the session before its caller is done. *)
LEMMA SendStep ==
  ASSUME Quiet, NEW c \in Callers, stored' = stored \cup {c},
         UNCHANGED <<wakeRequests, lowered, ToldOf>>
  PROVE  Promised!Next
<1>1. Promised!Send(c)
  BY DEF Promised!Send, Quiet, Outstanding, StateOf
<1> QED
  BY <1>1 DEF Promised!Next

(* A call that is over, or that has raised the counter, keeps the promise  *)
(* because the invariant holds after it.                                   *)
LEMMA PromiseStep ==
  ASSUME WakeInv, WakeInv', Quiet, NEW c \in Callers, c \in stored, stored' = stored,
         wakeRequests' >= wakeRequests, ToldOf' \in {ToldOf, ToldOf \cup {c}},
         ~lowered, lowered' = lowered
  PROVE  Promised!Next
<1>1. Outstanding => Outstanding'
  BY DEF WakeInv, WakeTypeOK, Quiet, Outstanding
<1>2. KeysKept' /\ OthersKept'
  BY DEF WakeInv
<1>3. c \in ToldOf' => c \notin raced' /\ In(c, "done")'
  BY DEF ToldOf
<1>4. c \in ToldOf' => c \in settled \/ Outstanding'
  <2>1. c \in ToldOf' => Kept(c)'
    BY <1>2, <1>3 DEF KeysKept, OthersKept, Callers
  <2> QED
    BY <2>1 DEF Kept, Quiet
<1>5. UNCHANGED <<settled, StateOf>>
  BY DEF Quiet, StateOf
<1>6. Promised!Promise(c)
  BY <1>1, <1>4, <1>5 DEF Promised!Promise
<1> QED
  BY <1>6 DEF Promised!Next

(* Everybody else's calls end as they did. *)
LEMMA ToldByTurn ==
  ASSUME WakeTypeOK, NEW c \in Callers, NEW step \in CallSteps, Turn(c, step), UNCHANGED raced
  PROVE  ToldOf' = IF step = "done" THEN ToldOf \cup ({c} \ raced) ELSE ToldOf \ {c}
  BY DEF WakeTypeOK, Turn, Rest, ToldOf, In

LEMMA ToldByOutdating ==
  ASSUME WakeTypeOK, NEW c \in Callers, Outdating(c, "done"), UNCHANGED raced
  PROVE  ToldOf' = ToldOf \cup ({c} \ raced)
<1>1. \A d \in Callers : In(d, "done")' <=> d = c \/ In(d, "done")
  BY OutdatingCalls DEF In, Rest
<1> QED
  BY <1>1 DEF ToldOf

(* A step that no part of Wake can tell from standing still. *)
Unseen == UNCHANGED <<stored, settled, Outstanding, ToldOf, StateOf, lowered>>

(* The callers, one action after the other.  Nothing is owed to anybody in *)
(* a step that lowers the counter.                                         *)
LEMMA KeyedImplement ==
  ASSUME WakeInv, WakeInv', ~lowered', NEW k \in Keyed,
         KeyRead(k) \/ KeyReserve(k) \/ KeyPatch(k)
  PROVE  Promised!Next \/ Unseen
<1> USE DEF Unseen
<1>0. WakeTypeOK /\ k \in Callers /\ Quiet
  BY DEF WakeInv, Callers, KeyRead, KeyReserve, KeyPatch
<1>1. UNCHANGED <<settled, StateOf>> /\ (UNCHANGED wakeRequests => UNCHANGED Outstanding)
  BY <1>0 DEF Quiet, StateOf, Outstanding
<1>2. CASE KeyRead(k)
  <2>1. UNCHANGED ToldOf
    BY <1>0, <1>2 DEF KeyRead, WakeTypeOK, ToldOf, In, Rest
  <2> QED
    BY <1>1, <1>2, <2>1 DEF KeyRead, session
<1>3. CASE KeyReserve(k)
  <2>1. ToldOf' = ToldOf
    BY <1>0, <1>3 DEF KeyReserve, WakeTypeOK, ToldOf, In, Rest, Turn
  <2>2. UNCHANGED <<wakeRequests, lowered>>
    BY <1>3 DEF KeyReserve
  <2>3. CASE stored' = stored \cup {k}
    BY <1>0, <2>1, <2>2, <2>3, SendStep
  <2>4. CASE stored' = stored
    BY <1>1, <2>1, <2>2, <2>4
  <2> QED
    BY <1>3, <2>3, <2>4 DEF KeyReserve, session
<1>4. CASE KeyPatch(k)
  <2>1. k \in stored /\ k \notin ToldOf
    BY <1>0, <1>4 DEF KeyPatch, WakeInv, StoredFirst, In, ToldOf
  <2>2. UNCHANGED <<stored, raced>> /\ lowered' = lowered /\ wakeRequests' >= wakeRequests
    BY <1>0, <1>4 DEF KeyPatch, session, WriteCounter, WakeTypeOK
  <2>3. CASE Turn(k, "done")
    <3>1. ToldOf' \in {ToldOf, ToldOf \cup {k}}
      BY <1>0, <2>2, <2>3, ToldByTurn DEF CallSteps
    <3> QED
      BY <1>0, <2>1, <2>2, <3>1, PromiseStep
  <2>4. CASE Turn(k, "refused") /\ UNCHANGED wakeRequests
    <3>1. ToldOf' = ToldOf \ {k}
      BY <1>0, <2>2, <2>4, ToldByTurn DEF CallSteps
    <3> QED
      BY <1>1, <2>1, <2>2, <2>4, <3>1
  <2> QED
    BY <1>4, <2>3, <2>4 DEF KeyPatch
<1> QED
  BY <1>2, <1>3, <1>4

LEMMA PlainImplement ==
  ASSUME WakeInv, WakeInv', ~lowered', NEW c \in Plain, PlainAppend(c) \/ PlainBump(c)
  PROVE  Promised!Next
<1>0. WakeTypeOK /\ c \in Callers /\ Quiet
  BY DEF WakeInv, Callers, PlainAppend, PlainBump
<1>1. CASE PlainAppend(c)
  <2>1. ToldOf' = ToldOf
    BY <1>0, <1>1 DEF PlainAppend, WakeTypeOK, ToldOf, In, Rest, Turn
  <2> QED
    BY <1>0, <1>1, <2>1, SendStep DEF PlainAppend
<1>2. CASE PlainBump(c)
  <2>1. c \in stored /\ UNCHANGED <<stored, raced>>
    BY <1>0, <1>2 DEF PlainBump, WakeInv, StoredFirst, In, session
  <2>2. lowered' = lowered /\ wakeRequests' >= wakeRequests
    BY <1>0, <1>2 DEF PlainBump, WriteCounter, WakeTypeOK
  <2>3. ToldOf' \in {ToldOf, ToldOf \cup {c}}
    BY <1>0, <1>2, <2>1, ToldByOutdating DEF PlainBump
  <2> QED
    BY <1>0, <2>1, <2>2, <2>3, PromiseStep
<1> QED
  BY <1>1, <1>2

LEMMA OnceImplement ==
  ASSUME WakeInv, WakeInv', ~lowered', NEW d \in Once,
         OnceDeliver(d) \/ OnceFetch(d) \/ OncePatch(d)
  PROVE  Promised!Next \/ Unseen
<1> USE DEF Unseen
<1>0. WakeTypeOK /\ d \in Callers /\ Quiet
  BY DEF WakeInv, Callers, OnceDeliver, OnceFetch, OncePatch
<1>1. CASE OnceDeliver(d)
  <2>1. UNCHANGED <<wakeRequests, raced>> /\ lowered' = lowered
    BY <1>1 DEF OnceDeliver
  <2>2. CASE slot = d
    <3>1. d \in stored /\ stored' = stored
      BY <1>1, <2>2, CallerAssumption DEF OnceDeliver, WakeInv, StoredFirst
    <3>2. ToldOf' \in {ToldOf, ToldOf \cup {d}}
      BY <1>0, <1>1, <2>1, <2>2, ToldByTurn DEF OnceDeliver, CallSteps
    <3> QED
      BY <1>0, <2>1, <3>1, <3>2, PromiseStep DEF WakeTypeOK
  <2>3. CASE slot # d
    <3>1. ToldOf' = ToldOf
      BY <1>0, <1>1, <2>3 DEF OnceDeliver, WakeTypeOK, ToldOf, In, Rest, Turn
    <3> QED
      BY <1>0, <1>1, <2>1, <2>3, <3>1, SendStep DEF OnceDeliver
  <2> QED
    BY <2>2, <2>3
<1>2. CASE OnceFetch(d)
  <2>1. d \in stored /\ stored' = stored
    BY <1>0, <1>2 DEF OnceFetch, WakeInv, StoredFirst, In, session
  <2>2. UNCHANGED <<wakeRequests, raced>> /\ lowered' = lowered
    BY <1>2 DEF OnceFetch
  <2>3. CASE slot = d
    <3>1. ToldOf' \in {ToldOf, ToldOf \cup {d}}
      BY <1>0, <1>2, <2>2, <2>3 DEF OnceFetch, WakeTypeOK, ToldOf, In, Rest
    <3> QED
      BY <1>0, <2>1, <2>2, <3>1, PromiseStep DEF WakeTypeOK
  <2>4. CASE slot # d
    <3>1. ToldOf' = ToldOf
      BY <1>0, <1>2, <2>2, <2>4 DEF OnceFetch, WakeTypeOK, ToldOf, In, Rest
    <3> QED
      BY <1>0, <2>1, <2>2, <3>1 DEF Quiet, StateOf, Outstanding
  <2> QED
    BY <2>3, <2>4
<1>3. CASE OncePatch(d)
  <2>1. d \in stored /\ UNCHANGED <<stored, raced>>
    BY <1>0, <1>3 DEF OncePatch, WakeInv, StoredFirst, In, session
  <2>2. lowered' = lowered /\ wakeRequests' >= wakeRequests
    <3>1. wakeRequests \in Nat /\ call[d].seen \in Nat /\ lowered \in BOOLEAN
      BY <1>0 DEF WakeTypeOK
    <3>2. WriteCounter(call[d].seen + 1)
      BY <1>3 DEF OncePatch
    <3>3. ~lowered /\ ~(call[d].seen + 1 < wakeRequests)
      BY <3>2 DEF WriteCounter
    <3>4. wakeRequests' >= wakeRequests
      BY <3>1, <3>2, <3>3 DEF WriteCounter
    <3>5. lowered = FALSE /\ lowered' = FALSE
      BY <3>1, <3>2, <3>3 DEF WriteCounter
    <3> QED
      BY <3>4, <3>5
  <2>3. ToldOf' \in {ToldOf, ToldOf \cup {d}}
    BY <1>0, <1>3, <2>1, ToldByOutdating DEF OncePatch
  <2> QED
    BY <1>0, <2>1, <2>2, <2>3, PromiseStep
<1> QED
  BY <1>1, <1>2, <1>3

LEMMA RestartImplements ==
  ASSUME WakeInv, NEW c \in Callers, Restart(c)
  PROVE  Promised!Next
<1>1. ToldOf' = ToldOf \ {c}
  BY ToldByTurn DEF Restart, wakeHist, WakeInv, CallSteps
<1>2. Promised!AskAgain(c)
  BY <1>1 DEF Promised!AskAgain, Restart, object, session, wakeHist, Outstanding, StateOf
<1> QED
  BY <1>2 DEF Promised!Next

(* The run and its controller. *)
LEMMA RunImplements ==
  ASSUME WakeInv, CallersQuiet,
         RunEnds \/ ResumePaused \/ AskTermination \/ ReconcileBreaks \/ Reconcile
  PROVE  Promised!Next \/ Unseen
<1> USE ToldStays DEF Unseen
<1>0. WakeTypeOK /\ UNCHANGED wakeRequests
  BY DEF WakeInv, CallersQuiet
<1>1. CASE RunEnds
  <2>1. Promised!Rest
    BY <1>1, <1>0 DEF RunEnds, Promised!Rest, StateOf, Outstanding
  <2> QED
    BY <2>1 DEF Promised!Next
<1>2. CASE ResumePaused
  <2>1. Promised!Rest
    BY <1>2, <1>0 DEF ResumePaused, Promised!Rest, StateOf, Outstanding
  <2> QED
    BY <2>1 DEF Promised!Next
<1>3. CASE AskTermination \/ ReconcileBreaks
  BY <1>3, <1>0 DEF AskTermination, ReconcileBreaks, StateOf, Outstanding
<1>4. ASSUME NEW ph \in {"cancelled", "succeeded"}, SeeTermination(ph) \/ ClearTermination(ph)
      PROVE  Unseen
  BY <1>4, <1>0 DEF SeeTermination, ClearTermination, StateOf, Outstanding
<1>5. ASSUME NEW ph \in {"cancelled", "succeeded"}, Terminate(ph)
      PROVE  Promised!Next \/ Unseen
  <2>1. CASE phase \in Ended
    BY <1>5, <1>0, <2>1 DEF Terminate, StateOf, Outstanding
  <2>2. CASE phase \notin Ended /\ ph = "cancelled"
    <3>1. Promised!Cancel
      BY <1>5, <1>0, <2>2 DEF Terminate, Promised!Cancel, Promised!Dispose, StateOf, Outstanding,
         Ended, Wakeable, WakeTypeOK
    <3> QED
      BY <3>1 DEF Promised!Next
  <2>3. CASE phase \notin Ended /\ ph = "succeeded"
    <3>1. Promised!Rest
      BY <1>5, <1>0, <2>3 DEF Terminate, Promised!Rest, StateOf, Outstanding, Ended, Wakeable,
         WakeTypeOK
    <3> QED
      BY <3>1 DEF Promised!Next
  <2> QED
    BY <2>1, <2>2, <2>3
<1>6. CASE SeeWake
  BY <1>6, <1>0 DEF SeeWake, StateOf, Outstanding
<1>7. CASE RefuseWake
  <2>1. CASE phase = "failed" /\ Outstanding
    <3>1. Promised!Refuse
      BY <1>7, <1>0, <2>1 DEF RefuseWake, Promised!Refuse, Promised!Dispose, StateOf, Outstanding,
         WakeTypeOK
    <3> QED
      BY <3>1 DEF Promised!Next
  <2> QED
    BY <1>7, <1>0, <2>1 DEF RefuseWake, StateOf, Outstanding
<1>8. CASE StartAttempt
  <2>1. CASE Outstanding /\ phase \in Wakeable
    <3>1. Promised!Attempt
      BY <1>8, <1>0, <2>1 DEF StartAttempt, Promised!Attempt, Promised!Dispose, StateOf,
         Outstanding, Ended, Wakeable, WakeTypeOK
    <3> QED
      BY <3>1 DEF Promised!Next
  <2> QED
    BY <1>8, <1>0, <2>1 DEF StartAttempt, StateOf, Outstanding
<1> QED
  BY <1>1, <1>2, <1>3, <1>4, <1>5, <1>6, <1>7, <1>8 DEF Reconcile

LEMMA WakeStepImplements ==
  ASSUME WakeInv, [WakeNext]_wakeVars
  PROVE  [Promised!Next]_(Promised!vars)
<1>0. WakeInv'
  BY WakeStepInv
<1>1. SUFFICES Promised!Next \/ Unseen
  BY DEF Unseen, Promised!vars
<1>2. CASE UNCHANGED wakeVars
  BY <1>2 DEF wakeVars, object, session, wakeHist, Unseen, Outstanding, StateOf, ToldOf, In
<1>3. CASE lowered'
  BY <1>3 DEF Promised!Next
<1>4. CASE CallerNext /\ ~lowered'
  BY <1>0, <1>4, KeyedImplement, PlainImplement, OnceImplement, RestartImplements DEF CallerNext
<1>5. CASE RunEnds \/ ResumePaused \/ AskTermination \/ ReconcileBreaks \/ Reconcile
  <2>1. CallersQuiet
    BY <1>5 DEF RunEnds, ResumePaused, AskTermination, ReconcileBreaks, Reconcile,
       SeeTermination, Terminate, ClearTermination, SeeWake, RefuseWake, StartAttempt
  <2> QED
    BY <1>5, <2>1, RunImplements
<1> QED
  BY <1>2, <1>3, <1>4, <1>5 DEF WakeNext

(* The callers of wake.go, the run and its controller together keep what   *)
(* Wake promises, whatever is interleaved, breaks off and is tried again.  *)
THEOREM WakesImplemented == WakeSpec => ImplementsWake
<1>1. WakeInit => Promised!Init
  BY DEF WakeInit, Promised!Init, Outstanding, StateOf, ToldOf, In
<1>2. WakeInv /\ [WakeNext]_wakeVars => [Promised!Next]_(Promised!vars)
  BY WakeStepImplements
<1> QED
  BY <1>1, <1>2, WakeInvariance, PTL DEF WakeSpec, ImplementsWake, Promised!Spec

(* Who was told has sent, and what was disposed of was sent. *)
PromiseInv ==
  lowered \/ (ToldOf \subseteq stored /\ settled \subseteq stored /\ Promised!NobodyForgotten)

(* What Wake promises its senders follows from its steps alone: whoever    *)
(* implements it forgets no caller that was told of success (NoLostWake).  *)
THEOREM PromiseIsKept == ImplementsWake => []NoLostWake
<1>1. Promised!Init => PromiseInv
  BY DEF Promised!Init, PromiseInv, Promised!NobodyForgotten
<1>2. ASSUME PromiseInv, [Promised!Next]_(Promised!vars) PROVE PromiseInv'
  <2>1. CASE lowered'
    BY <2>1 DEF PromiseInv
  <2>2. CASE UNCHANGED Promised!vars
    BY <1>2, <2>2 DEF PromiseInv, Promised!NobodyForgotten, Promised!vars
  <2>3. ASSUME NEW s \in Callers, Promised!Send(s) \/ Promised!Promise(s) \/ Promised!AskAgain(s)
        PROVE  PromiseInv'
    BY <1>2, <2>3 DEF PromiseInv, Promised!NobodyForgotten, Promised!Send, Promised!Promise,
       Promised!AskAgain
  <2>4. CASE Promised!Attempt \/ Promised!Refuse \/ Promised!Cancel
    BY <1>2, <2>4 DEF PromiseInv, Promised!NobodyForgotten, Promised!Attempt, Promised!Refuse,
       Promised!Cancel, Promised!Dispose
  <2>5. CASE Promised!Rest
    BY <1>2, <2>5 DEF PromiseInv, Promised!NobodyForgotten, Promised!Rest
  <2> QED
    BY <1>2, <2>1, <2>2, <2>3, <2>4, <2>5 DEF Promised!Next
<1>3. PromiseInv => NoLostWake
  BY DEF PromiseInv, Promised!NobodyForgotten, NoLostWake, ToldOf
<1> QED
  BY <1>1, <1>2, <1>3, PTL DEF ImplementsWake, Promised!Spec

-----------------------------------------------------------------------------
(* Where the two races come from: both take a caller without a key.        *)

LEMMA LockedWritesRaise ==
  ASSUME Once = {}, WakeInv, [WakeNext]_wakeVars
  PROVE  wakeRequests' >= wakeRequests /\ (~lowered => ~lowered')
<1>0. WakeTypeOK
  BY DEF WakeInv
<1>1. ASSUME NEW k \in Keyed, KeyPatch(k)
      PROVE  wakeRequests' >= wakeRequests /\ (~lowered => ~lowered')
  <2>1. wakeRequests \in Nat /\ target[k] \in Nat /\ lowered \in BOOLEAN
    BY <1>0 DEF WakeTypeOK
  <2>2. CASE UNCHANGED <<wakeRequests, lowered>>
    BY <2>1, <2>2
  <2>3. CASE wakeRequests < target[k] /\ WriteCounter(target[k])
    BY <2>1, <2>3 DEF WriteCounter
  <2> QED
    BY <1>1, <2>2, <2>3 DEF KeyPatch
<1>2. ASSUME NEW c \in Plain, PlainBump(c)
      PROVE  wakeRequests' >= wakeRequests /\ (~lowered => ~lowered')
  BY <1>0, <1>2 DEF PlainBump, WriteCounter, WakeTypeOK
<1>3. ASSUME UNCHANGED <<wakeRequests, lowered>>
      PROVE  wakeRequests' >= wakeRequests /\ (~lowered => ~lowered')
  BY <1>0, <1>3 DEF WakeTypeOK
<1>4. CASE UNCHANGED wakeVars
  BY <1>3, <1>4 DEF wakeVars, object, wakeHist
<1>5. CASE CallerNext
  BY <1>1, <1>2, <1>3, <1>5 DEF CallerNext, KeyRead, KeyReserve, PlainAppend, Restart, object,
     wakeHist
<1>6. CASE RunEnds \/ ResumePaused \/ AskTermination \/ ReconcileBreaks \/ Reconcile
  <2>1. CallersQuiet
    BY <1>6 DEF RunEnds, ResumePaused, AskTermination, ReconcileBreaks, Reconcile,
       SeeTermination, Terminate, ClearTermination, SeeWake, RefuseWake, StartAttempt
  <2> QED
    BY <1>3, <2>1 DEF CallersQuiet
<1> QED
  BY <1>4, <1>5, <1>6 DEF WakeNext

(* The one write that is not locked is the patch of WakeAgentRunOnce:      *)
(* without such callers spec.wakeRequests is the monotonic counter that    *)
(* agentrun_types.go calls it.                                             *)
THEOREM LockedCounterIsMonotonic == Once = {} => (WakeSpec => CounterIsMonotonic)
<1> SUFFICES ASSUME Once = {} PROVE WakeSpec => CounterIsMonotonic
  OBVIOUS
<1>1. WakeInv /\ [WakeNext]_wakeVars => [wakeRequests' >= wakeRequests]_wakeVars
  BY LockedWritesRaise
<1> QED
  BY <1>1, WakeInvariance, PTL DEF WakeSpec, CounterIsMonotonic

(* Keyed callers alone never outdate one another. *)
NoRace == ~lowered /\ raced = {} /\ \A c \in Callers : ~call[c].outdated

LEMMA NoRaceStep ==
  ASSUME Plain = {}, Once = {}, WakeInv, NoRace, [WakeNext]_wakeVars
  PROVE  NoRace'
<1>0. WakeTypeOK /\ ~lowered'
  BY LockedWritesRaise DEF NoRace, WakeInv
<1>1. ASSUME UNCHANGED <<raced, call>> PROVE NoRace'
  BY <1>0, <1>1 DEF NoRace
<1>2. ASSUME NEW c \in Callers, NEW step \in CallSteps, Turn(c, step), UNCHANGED raced PROVE NoRace'
  BY <1>0, <1>2 DEF NoRace, Turn, Rest, WakeTypeOK
<1>3. ASSUME NEW k \in Keyed, KeyRead(k) \/ KeyReserve(k) \/ KeyPatch(k) PROVE NoRace'
  <2>1. k \in Callers
    BY DEF Callers
  <2>2. CASE KeyRead(k)
    BY <1>0, <2>1, <2>2 DEF KeyRead, NoRace, Rest, WakeTypeOK
  <2>3. CASE KeyReserve(k)
    <3>1. UNCHANGED raced
      BY <2>1, <2>3 DEF KeyReserve, NoRace
    <3> QED
      BY <1>2, <2>1, <2>3, <3>1 DEF KeyReserve, CallSteps
  <2>4. CASE KeyPatch(k)
    BY <1>2, <2>1, <2>4 DEF KeyPatch, CallSteps
  <2> QED
    BY <1>3, <2>2, <2>3, <2>4
<1>4. CASE CallerNext
  BY <1>2, <1>3, <1>4 DEF CallerNext, Restart, wakeHist, CallSteps
<1>5. CASE RunEnds \/ ResumePaused \/ AskTermination \/ ReconcileBreaks \/ Reconcile
  <2>1. CallersQuiet
    BY <1>5 DEF RunEnds, ResumePaused, AskTermination, ReconcileBreaks, Reconcile,
       SeeTermination, Terminate, ClearTermination, SeeWake, RefuseWake, StartAttempt
  <2> QED
    BY <1>1, <2>1 DEF CallersQuiet
<1>6. CASE UNCHANGED wakeVars
  BY <1>1, <1>6 DEF wakeVars, wakeHist
<1> QED
  BY <1>4, <1>5, <1>6 DEF WakeNext

(* When all wakes of a run carry keys, nobody who was told of success is   *)
(* forgotten, with no exception left.                                      *)
THEOREM KeyedCallersAreNeverForgotten ==
  Plain = {} /\ Once = {} => (WakeSpec => [](\A c \in Callers : In(c, "done") => Kept(c)))
<1> SUFFICES ASSUME Plain = {}, Once = {}
             PROVE  WakeSpec => [](\A c \in Callers : In(c, "done") => Kept(c))
  OBVIOUS
<1>1. WakeInit => NoRace
  BY DEF WakeInit, NoRace
<1>2. WakeInv /\ NoRace /\ [WakeNext]_wakeVars => NoRace'
  BY NoRaceStep
<1>3. WakeInv /\ NoRace => \A c \in Callers : In(c, "done") => Kept(c)
  BY DEF NoRace, WakeInv, KeysKept, Callers
<1> QED
  BY <1>1, <1>2, <1>3, WakeInvariance, PTL DEF WakeSpec
=============================================================================
