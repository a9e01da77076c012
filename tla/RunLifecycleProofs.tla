------------------------- MODULE RunLifecycleProofs -------------------------
(***************************************************************************)
(* Proofs about the life of a run for every capacity, every number of      *)
(* rivals below it and any number of requests, failures and old reads.     *)
(*                                                                         *)
(* That an ended run stays ended needs no more than the type invariant:    *)
(* every write of a reconcile looks at the current object first.  The      *)
(* capacity needs SlotInv: what the copies, of the reconcile and of the    *)
(* cache, still say of the object (Tidy, Keeping), and that a claim is     *)
(* only created while the rivals leave room for it (Entitled).  That no    *)
(* compute is left needs LeftInv: compute is on record under the current   *)
(* attempt, or about to be (Backed), and a drain leaves none (Spent).  The *)
(* Effects lemmas say what each step leaves of the fields of the run.      *)
(*                                                                         *)
(* Together with why a request or a run is given up (AskInv, Doom) these   *)
(* are LifeInv, under which every step is one of RunLife: the Step lemmas  *)
(* take the steps of RunLife, the Maps lemmas find one for each action.    *)
(* NotedStep says where a request may be noted.                            *)
(***************************************************************************)
EXTENDS RunLifeRefinement, TLAPS

(* The type invariant in two parts: where the reconcile is, and the rest.  *)
CallOK ==
  /\ seen \in Runs
  /\ step \in {"watch", "drain", "write", "clear", "count", "create", "record", "refs"}
  /\ job \in Jobs
  /\ hidden \subseteq {"claim", "pod"}
  /\ events \in Nat

KubeOK ==
  /\ rivals \in 0..Cap
  /\ claim \in {"none", "new", "bound", "ending"}
  /\ pod \in {"none", "starting", "up", "over", "ending"}
  /\ made \in Nat
  /\ strays \in Nat
  /\ overseer \in {"idle", "waiting", "running"}
  /\ lag \in SUBSET Runs /\ asking \subseteq Asks
  /\ excused \subseteq Flaws

(* Together with run they are the type invariant.                          *)
LEMMA Parts == RunTypeOK <=> run \in Runs /\ CallOK /\ KubeOK
BY DEF RunTypeOK, CallOK, KubeOK

(* The object a run starts with.                                           *)
LEMMA NewRunTyped == NewRun \in Runs
BY DEF NewRun, Runs, Phases, Startup

LEMMA FirstRun ==
  ASSUME RunInit
  PROVE  /\ run \in Runs /\ run.phase = "pending" /\ run.queue = "other" /\ run.sandbox = FALSE
         /\ run.attempt = 0 /\ run.asked = {} /\ run.wake \in BOOLEAN
<1>1. CASE run = NewRun
  BY <1>1 DEF NewRun, Runs, Phases, Startup
<1>2. CASE run = [NewRun EXCEPT !.wake = TRUE]
  BY <1>2 DEF NewRun, Runs, Phases, Startup
<1> QED
  BY <1>1, <1>2 DEF RunInit

(* The initial states are well typed.                                      *)
LEMMA TypeInit == RunInit => RunTypeOK
<1> SUFFICES ASSUME RunInit PROVE RunTypeOK
  OBVIOUS
<1>1. run \in Runs /\ seen \in Runs /\ lag \in SUBSET Runs /\ asking \subseteq Asks
  BY NewRunTyped, FirstRun DEF RunInit
<1>2. CallOK
  BY <1>1 DEF RunInit, CallOK, Jobs
<1>3. KubeOK
  BY <1>1, LifecycleAssumption DEF RunInit, KubeOK, Flaws
<1> QED
  BY <1>1, <1>2, <1>3, Parts

(* The three ways a reconcile moves on keep its part well typed.           *)
LEMMA GotoTyped ==
  ASSUME CallOK, NEW s \in {"drain", "write", "clear", "count", "create", "record", "refs"},
         NEW j \in Jobs, Goto(s, j)
  PROVE  CallOK'
BY DEF CallOK, Goto

(* It ends, for good or by a break.                                        *)
LEMMA StopTyped ==
  ASSUME CallOK, Stop, UNCHANGED events \/ Spend
  PROVE  CallOK'
BY NewRunTyped, LifecycleAssumption DEF CallOK, Stop, Spend, Jobs

(* It returns.                                                             *)
LEMMA ReturnTyped ==
  ASSUME CallOK, Return
  PROVE  CallOK'
BY StopTyped DEF Return

(* A patch of well-typed fields leaves a well-typed object.                *)
LEMMA Updated ==
  ASSUME NEW r \in Runs, NEW ph \in Phases, NEW q \in {"other", "resuming", "provisioning"},
         NEW b \in BOOLEAN, NEW w \in BOOLEAN, NEW A \in SUBSET Asks, NEW n \in Nat
  PROVE  /\ [r EXCEPT !.phase = ph] \in Runs
         /\ [r EXCEPT !.queue = q] \in Runs
         /\ [r EXCEPT !.sandbox = b] \in Runs
         /\ [r EXCEPT !.attempt = @ + 1] \in Runs
         /\ [r EXCEPT !.wake = w] \in Runs
         /\ [r EXCEPT !.asked = A] \in Runs
         /\ [r EXCEPT !.restarts = @ + 1] \in Runs
         /\ [r EXCEPT !.restarted = n] \in Runs
         /\ [r EXCEPT !.phase = ph, !.queue = q] \in Runs
         /\ [r EXCEPT !.phase = ph, !.asked = A] \in Runs
         /\ [r EXCEPT !.phase = ph, !.queue = q, !.sandbox = b] \in Runs
         /\ [r EXCEPT !.phase = ph, !.queue = q, !.sandbox = b, !.wake = w] \in Runs
<1>1. [r EXCEPT !.phase = ph] \in Runs
  BY DEF Runs
<1>2. [r EXCEPT !.queue = q] \in Runs
  BY DEF Runs
<1>3. [r EXCEPT !.sandbox = b] \in Runs
  BY DEF Runs
<1>4. [r EXCEPT !.attempt = @ + 1] \in Runs
  BY DEF Runs
<1>5. [r EXCEPT !.wake = w] \in Runs
  BY DEF Runs
<1>6. [r EXCEPT !.asked = A] \in Runs
  BY DEF Runs
<1>7. [r EXCEPT !.restarts = @ + 1] \in Runs
  BY DEF Runs
<1>8. [r EXCEPT !.restarted = n] \in Runs
  BY DEF Runs
<1>9. [r EXCEPT !.phase = ph, !.queue = q] \in Runs
  BY DEF Runs
<1>10. [r EXCEPT !.phase = ph, !.asked = A] \in Runs
  BY DEF Runs
<1>11. [r EXCEPT !.phase = ph, !.queue = q, !.sandbox = b] \in Runs
  BY DEF Runs
<1>12. [r EXCEPT !.phase = ph, !.queue = q, !.sandbox = b, !.wake = w] \in Runs
  BY DEF Runs
<1> QED
  BY <1>1, <1>2, <1>3, <1>4, <1>5, <1>6, <1>7, <1>8, <1>9, <1>10, <1>11, <1>12

(* So do the two that begin an attempt.                                    *)
LEMMA Renewed ==
  ASSUME NEW r \in Runs
  PROVE  /\ Reset(r) \in Runs
         /\ [r EXCEPT !.sandbox = FALSE, !.attempt = @ + 1,
                      !.phase = "provisioning", !.queue = "resuming"] \in Runs
<1> DEFINE s == [r EXCEPT !.attempt = @ + 1]
<1>1. s \in Runs
  BY DEF Runs
<1>2. /\ [s EXCEPT !.phase = "pending", !.queue = "other", !.sandbox = FALSE] \in Runs
      /\ [s EXCEPT !.phase = "provisioning", !.queue = "resuming", !.sandbox = FALSE] \in Runs
  BY <1>1, Updated DEF Phases, Startup
<1>3. /\ Reset(r) = [s EXCEPT !.phase = "pending", !.queue = "other", !.sandbox = FALSE]
      /\ [s EXCEPT !.phase = "provisioning", !.queue = "resuming", !.sandbox = FALSE]
          = [r EXCEPT !.sandbox = FALSE, !.attempt = @ + 1,
                      !.phase = "provisioning", !.queue = "resuming"]
  BY DEF Reset, Runs
<1> QED
  BY <1>2, <1>3

(* What the type says of the fields of a run.                              *)
LEMMA FieldsTyped ==
  ASSUME NEW r \in Runs
  PROVE  /\ r.phase \in Phases /\ r.sandbox \in BOOLEAN /\ r.wake \in BOOLEAN
         /\ r.asked \in SUBSET Asks /\ r.attempt \in Nat /\ r.restarts \in Nat
         /\ r.queue \in {"other", "resuming", "provisioning"}
BY DEF Runs

(* A phase written by anybody else.                                        *)
LEMMA WriteTyped ==
  ASSUME run \in Runs, NEW ph \in Phases, WritePhase(ph)
  PROVE  run' \in Runs
<1>1. PICK q \in {run.queue, "other"} : run' = [run EXCEPT !.phase = ph, !.queue = q]
  BY DEF WritePhase
<1>2. q \in {"other", "resuming", "provisioning"}
  BY FieldsTyped
<1> QED
  BY <1>1, <1>2 DEF Runs

(* Every step leaves a well-typed run,                                     *)
LEMMA RunTyped ==
  ASSUME RunTypeOK, [RunNext]_runVars
  PROVE  run' \in Runs
<1>0. run \in Runs /\ seen \in Runs
  BY DEF RunTypeOK
<1> USE <1>0
<1>1. CASE Delete
  BY <1>1, Updated, FieldsTyped DEF Delete, Phases, Startup, Ended
<1>2. CASE Terminate("cancelled")
  BY <1>2, Updated, FieldsTyped DEF Terminate, Phases, Startup, Ended
<1>3. CASE Terminate("succeeded")
  BY <1>3, Updated, FieldsTyped DEF Terminate, Phases, Startup, Ended
<1>4. CASE ClearRequest
  BY <1>4, Updated, FieldsTyped DEF ClearRequest, Phases, Startup, Ended
<1>5. CASE WakeUp
  BY <1>5, Updated, FieldsTyped, Renewed DEF WakeUp, Phases, Startup, Ended
<1>6. CASE Exhaust
  BY <1>6, Updated, FieldsTyped DEF Exhaust, Phases, Startup, Ended
<1>7. CASE Restart
  <2> DEFINE r == IF Stopped(run) \/ job = "refuse" THEN run ELSE Reset(run)
  <2>1. r \in Runs
    BY Renewed
  <2>2. run' = [r EXCEPT !.restarted = seen.restarts]
    BY <1>7 DEF Restart
  <2> QED
    BY <2>1, <2>2, FieldsTyped DEF Runs
<1>8. CASE Resume
  <2>1. CASE run' = IF run.phase # "paused" THEN run ELSE [run EXCEPT !.sandbox = FALSE]
    BY <2>1 DEF Runs
  <2>2. CASE run' = [run EXCEPT !.sandbox = FALSE, !.attempt = @ + 1,
                                !.phase = "provisioning", !.queue = "resuming"]
    BY <2>2, Renewed
  <2> QED
    BY <1>8, <2>1, <2>2 DEF Resume
<1>9. CASE Sweep
  BY <1>9, Updated, FieldsTyped DEF Sweep, Phases, Startup, Ended
<1>10. CASE SyncRefs
  BY <1>10, Updated, FieldsTyped DEF SyncRefs, Phases, Startup, Ended
<1>11. CASE Promote
  BY <1>11, Updated, FieldsTyped DEF Promote, Phases, Startup, Ended
<1>12. CASE Conclude("succeed", "succeeded")
  BY <1>12, Updated, FieldsTyped DEF Conclude, Phases, Startup, Ended
<1>13. CASE Conclude("fail", "failed")
  BY <1>13, Updated, FieldsTyped DEF Conclude, Phases, Startup, Ended
<1>14. CASE Conclude("pause", "paused")
  BY <1>14, Updated, FieldsTyped DEF Conclude, Phases, Startup, Ended
<1>15. CASE Admit
  BY <1>15, Updated, FieldsTyped DEF Admit, Phases, Startup, Ended
<1>16. CASE Refuse
  <2>1. CASE run' = [run EXCEPT !.phase = "pending", !.queue = "other"]
    BY <2>1 DEF Runs, Phases, Startup
  <2>2. CASE run' = run
    BY <2>2
  <2> QED
    BY <1>16, <2>1, <2>2 DEF Refuse
<1>17. CASE Record
  BY <1>17, Updated, FieldsTyped DEF Record, Phases, Startup, Ended
<1>18. CASE WorkerWrites
  BY <1>18, WriteTyped DEF WorkerWrites, Phases, Ended
<1>19. CASE OverseerWrites
  BY <1>19, WriteTyped DEF OverseerWrites, RunTypeOK, Phases
<1>20. CASE ParentCancels
  BY <1>20, WriteTyped DEF ParentCancels, Phases, Ended
<1>21. CASE ParentRetries
  BY <1>21, Updated, FieldsTyped DEF ParentRetries, Phases, Startup, Ended
<1>22. CASE Ask
  <2>1. PICK ask \in Asks : run' = [run EXCEPT !.asked = @ \cup {ask}]
    BY <1>22 DEF Ask, RunTypeOK
  <2> QED
    BY <2>1 DEF Runs
<1>23. CASE AskMore
  <2>1. CASE run' = [run EXCEPT !.wake = TRUE]
    BY <2>1 DEF Runs
  <2>2. CASE run' = [run EXCEPT !.restarts = @ + 1]
    BY <2>2 DEF Runs
  <2> QED
    BY <1>23, <2>1, <2>2 DEF AskMore
<1>24. CASE UNCHANGED run
  BY <1>24
<1>25. CASE \/ Dispatch \/ Create \/ Drain \/ Break \/ Provide
           \/ RivalAdmitted \/ RivalEnds \/ OverseerReads \/ AskReads
  BY <1>25
     DEF Dispatch, Create, Drain, Break, RivalAdmitted, RivalEnds, Provide, PodStarts,
         PodMoves, Collect, PodGoes, ClaimGoes, KubeQuiet, Delay, CatchUp, OverseerReads, AskReads
<1> QED
  BY <1>1, <1>2, <1>3, <1>4, <1>5, <1>6, <1>7, <1>8, <1>9, <1>10, <1>11, <1>12, <1>13,
     <1>14, <1>15, <1>16, <1>17, <1>18, <1>19, <1>20, <1>21, <1>22, <1>23, <1>24, <1>25
     DEF RunNext, Reconcile, Finish, Others, runVars

(* a well-typed position of the reconcile,                                 *)
LEMMA CallTyped ==
  ASSUME RunTypeOK, [RunNext]_runVars
  PROVE  CallOK'
<1>0. CallOK
  BY Parts
<1> USE <1>0
<1>1. CASE Admit
  BY <1>1, GotoTyped, ReturnTyped, StopTyped DEF Admit, Jobs, Asks
<1>2. CASE Refuse
  BY <1>2, GotoTyped, ReturnTyped, StopTyped DEF Refuse, Jobs, Asks
<1>3. CASE Create
  BY <1>3, GotoTyped, ReturnTyped, StopTyped DEF Create, Jobs, Asks
<1>4. CASE Record
  BY <1>4, GotoTyped, ReturnTyped, StopTyped DEF Record, Jobs, Asks
<1>5. CASE Drain
  BY <1>5, GotoTyped, ReturnTyped, StopTyped DEF Drain, Drained, CallOK, Jobs, Asks
<1>6. CASE Delete
  BY <1>6, GotoTyped, ReturnTyped, StopTyped DEF Delete, Jobs, Asks
<1>7. CASE Terminate("cancelled")
  BY <1>7, GotoTyped, ReturnTyped, StopTyped DEF Terminate, Jobs, Asks
<1>8. CASE Terminate("succeeded")
  BY <1>8, GotoTyped, ReturnTyped, StopTyped DEF Terminate, Jobs, Asks
<1>9. CASE ClearRequest
  BY <1>9, GotoTyped, ReturnTyped, StopTyped DEF ClearRequest, Jobs, Asks
<1>10. CASE WakeUp
  BY <1>10, GotoTyped, ReturnTyped, StopTyped DEF WakeUp, Jobs, Asks
<1>11. CASE Exhaust
  BY <1>11, GotoTyped, ReturnTyped, StopTyped DEF Exhaust, Jobs, Asks
<1>12. CASE Restart
  BY <1>12, GotoTyped, ReturnTyped, StopTyped DEF Restart, Jobs, Asks
<1>13. CASE Resume
  BY <1>13, GotoTyped, ReturnTyped, StopTyped DEF Resume, Jobs, Asks
<1>14. CASE Sweep
  BY <1>14, GotoTyped, ReturnTyped, StopTyped DEF Sweep, Jobs, Asks
<1>15. CASE SyncRefs
  BY <1>15, GotoTyped, ReturnTyped, StopTyped DEF SyncRefs, CallOK, Jobs, Asks
<1>16. CASE Promote
  BY <1>16, GotoTyped, ReturnTyped, StopTyped DEF Promote, Jobs, Asks
<1>17. CASE Conclude("succeed", "succeeded")
  BY <1>17, GotoTyped, ReturnTyped, StopTyped DEF Conclude, Jobs, Asks
<1>18. CASE Conclude("fail", "failed")
  BY <1>18, GotoTyped, ReturnTyped, StopTyped DEF Conclude, Jobs, Asks
<1>19. CASE Conclude("pause", "paused")
  BY <1>19, GotoTyped, ReturnTyped, StopTyped DEF Conclude, Jobs, Asks
<1>20. CASE Break
  BY <1>20, GotoTyped, ReturnTyped, StopTyped DEF Break, Jobs, Asks
<1>21. CASE Dispatch
  <2>1. seen' \in Runs
    BY <1>21 DEF Dispatch, Cached, RunTypeOK
  <2>2. hidden' \subseteq {"claim", "pod"} /\ events' \in Nat
    BY <1>21, LifecycleAssumption DEF Dispatch, Unseen, Spend, CallOK
  <2>3. step' \in {"drain", "write", "clear", "refs", "count"} /\ job' \in Jobs
    BY <1>21
       DEF Dispatch, SeeTermination, SeeWake, SeeRestart, SeeStopped, Monitor, Observed,
           Provision, Jobs, Asks
  <2> QED
    BY <2>1, <2>2, <2>3 DEF CallOK
<1>22. CASE UNCHANGED call /\ UNCHANGED events
  BY <1>22 DEF call, CallOK
<1>23. CASE UNCHANGED call /\ Spend
  BY <1>23, LifecycleAssumption DEF call, Spend, CallOK
<1>24. CASE Provide \/ Others
  BY <1>24, <1>23, <1>22
     DEF Provide, PodStarts, PodMoves, Collect, PodGoes, ClaimGoes, KubeQuiet, Delay, CatchUp,
     Others,
         RivalAdmitted, RivalEnds, WorkerWrites, OverseerReads, AskReads, OverseerWrites,
         ParentCancels, ParentRetries, Ask, AskMore, Outsider, call
<1>25. CASE UNCHANGED runVars
  BY <1>25, <1>22 DEF runVars
<1> QED
  BY <1>1, <1>2, <1>3, <1>4, <1>5, <1>6, <1>7, <1>8, <1>9, <1>10, <1>11, <1>12, <1>13,
     <1>14, <1>15, <1>16, <1>17, <1>18, <1>19, <1>20, <1>21, <1>22, <1>23, <1>24, <1>25
     DEF RunNext, Reconcile, Finish

(* well-typed compute and counters,                                        *)
LEMMA KubeTyped ==
  ASSUME RunTypeOK, [RunNext]_runVars
  PROVE  KubeOK'
<1>0. KubeOK /\ seen \in Runs /\ Cap \in Nat /\ run \in Runs
  BY Parts, LifecycleAssumption DEF CallOK
<1> USE <1>0
<1>1. CASE Dispatch \/ Refuse \/ Record \/ Finish
  <2>1. /\ UNCHANGED <<rivals, claim, pod, made, strays, overseer, asking>>
        /\ lag' \in {lag, {}} /\ excused' \subseteq excused \cup {"unrecorded"}
    BY <1>1
       DEF Dispatch, Unseen, Refuse, Record, Finish, Writes, Delete, Terminate, ClearRequest,
           WakeUp, Exhaust, Restart, Resume, Sweep, SyncRefs, Promote, Conclude, Note, kube, calls
  <2> QED
    BY <2>1 DEF KubeOK, Flaws
<1>2. CASE Admit \/ Break
  BY <1>2 DEF Admit, Break, Note, Flaws, KubeOK, kube, calls
<1>3. CASE Create
  BY <1>3, FieldsTyped DEF Create, Note, Flaws, KubeOK, calls
<1>4. CASE Drain
  <2>1. excused' \subseteq excused \cup {"missed"}
    BY <1>4 DEF Drain, Note
  <2>2. /\ claim' \in {"none", "new", "bound", "ending"}
        /\ UNCHANGED <<lag, rivals, made, overseer, asking>>
    BY <1>4 DEF Drain, KubeOK, calls
  <2>3. \/ UNCHANGED <<pod, strays>>
        \/ pod' = "ending" /\ UNCHANGED strays
        \/ pod' = "none" /\ strays' = strays + 1
    BY <1>4 DEF Drain
  <2> QED
    BY <2>1, <2>2, <2>3 DEF KubeOK, Flaws
<1>5. CASE RivalAdmitted \/ RivalEnds
  BY <1>5 DEF RivalAdmitted, RivalEnds, SlotsUsed, KubeOK, kube, calls
<1>6. CASE Provide
  <2>1. CASE Delay \/ CatchUp
    BY <2>1 DEF Delay, CatchUp, KubeOK, kube, calls
  <2>2. CASE ~(Delay \/ CatchUp)
    BY <1>6, <2>2 DEF Provide, PodStarts, PodMoves, Collect, PodGoes, ClaimGoes, KubeQuiet, KubeOK,
       calls
  <2> QED
    BY <2>1, <2>2
<1>7. CASE WorkerWrites
  BY <1>7 DEF WorkerWrites, WritePhase, Note, Flaws, KubeOK, calls
<1>8. CASE OverseerReads \/ AskReads \/ OverseerWrites \/ ParentCancels
  BY <1>8
     DEF OverseerReads, AskReads, OverseerWrites, ParentCancels, WritePhase, Outsider, Note,
         Flaws, KubeOK, kube, calls
<1>9. CASE ParentRetries \/ Ask \/ AskMore
  BY <1>9 DEF ParentRetries, Ask, AskMore, Outsider, Flaws, KubeOK, kube, calls
<1>10. CASE UNCHANGED runVars
  BY <1>10 DEF runVars, kube, calls, KubeOK
<1> QED
  BY <1>1, <1>2, <1>3, <1>4, <1>5, <1>6, <1>7, <1>8, <1>9, <1>10
     DEF RunNext, Reconcile, Others

(* and so keeps the type invariant.                                        *)
LEMMA TypeStep ==
  ASSUME RunTypeOK, [RunNext]_runVars
  PROVE  RunTypeOK'
BY RunTyped, CallTyped, KubeTyped DEF RunTypeOK, CallOK, KubeOK

(* What a step may leave of the fields that capacity is about. *)
Becomes(ph, q, b, n) ==
  run'.phase = ph /\ run'.queue = q /\ run'.sandbox = b /\ run'.attempt = n

Same == Becomes(run.phase, run.queue, run.sandbox, run.attempt)

(* Admission reserves, queues, records or refreshes.                       *)
LEMMA AdmissionEffects ==
  ASSUME run \in Runs
  PROVE  /\ Admit => \/ Same
                     \/ ~Stopped(run) /\ ~run.sandbox
                        /\ Becomes(run.phase, "provisioning", run.sandbox, run.attempt)
         /\ Refuse => \/ Same
                      \/ ~Stopped(run) /\ Becomes("pending", "other", run.sandbox, run.attempt)
         /\ Record => \/ Same
                      \/ Current /\ Becomes(run.phase, run.queue, TRUE, run.attempt)
                      \/ Current /\ ~Stopped(run) /\ Becomes("admitted", "other", TRUE, run.attempt)
         /\ SyncRefs => \/ Same
                        \/ Current /\ ~Stopped(run) /\ Becomes(run.phase, run.queue, TRUE, run.attempt)
<1>1. Admit => \/ Same
               \/ ~Stopped(run) /\ ~run.sandbox
                  /\ Becomes(run.phase, "provisioning", run.sandbox, run.attempt)
  BY DEF Admit, Same, Becomes, Runs
<1>2. Refuse => \/ Same
                \/ ~Stopped(run) /\ Becomes("pending", "other", run.sandbox, run.attempt)
  BY DEF Refuse, Same, Becomes, Runs
<1>3. Record => \/ Same
                \/ Current /\ Becomes(run.phase, run.queue, TRUE, run.attempt)
                \/ Current /\ ~Stopped(run) /\ Becomes("admitted", "other", TRUE, run.attempt)
  BY DEF Record, Same, Becomes, Runs
<1>4. SyncRefs => \/ Same
                  \/ Current /\ ~Stopped(run) /\ Becomes(run.phase, run.queue, TRUE, run.attempt)
  BY DEF SyncRefs, Same, Becomes, Runs
<1> QED
  BY <1>1, <1>2, <1>3, <1>4

(* The writes that stop a run: none of them leads back.                    *)
LEMMA StopEffects ==
  ASSUME run \in Runs
  PROVE  /\ Delete => run'.phase = "gone" /\ run'.attempt = run.attempt
         /\ \A ph \in {"cancelled", "succeeded"} : Terminate(ph) =>
              run'.phase \in Ended /\ run'.sandbox = FALSE /\ run'.attempt = run.attempt
              /\ (run.phase \in Ended => run'.phase = run.phase)
         /\ ClearRequest => Same
         /\ Sweep => Same \/ Becomes(run.phase, run.queue, FALSE, run.attempt)
         /\ \A j \in Jobs, ph \in Phases : Conclude(j, ph) =>
              \/ Same
              \/ Current /\ ~Stopped(run) /\ Becomes(ph, "other", run.sandbox, run.attempt)
<1>1. Delete => run'.phase = "gone" /\ run'.attempt = run.attempt
  BY DEF Delete, Runs
<1>2. ASSUME NEW ph \in {"cancelled", "succeeded"}, Terminate(ph)
      PROVE  run'.phase \in Ended /\ run'.sandbox = FALSE /\ run'.attempt = run.attempt
             /\ (run.phase \in Ended => run'.phase = run.phase)
  BY <1>2 DEF Terminate, Runs, Ended
<1>3. ClearRequest => Same
  BY DEF ClearRequest, Same, Becomes, Runs
<1>4. Sweep => Same \/ Becomes(run.phase, run.queue, FALSE, run.attempt)
  BY DEF Sweep, Same, Becomes, Runs
<1>5. ASSUME NEW j \in Jobs, NEW ph \in Phases, Conclude(j, ph)
      PROVE  \/ Same
             \/ Current /\ ~Stopped(run) /\ Becomes(ph, "other", run.sandbox, run.attempt)
  BY <1>5 DEF Conclude, Same, Becomes, Runs
<1> QED
  BY <1>1, <1>2, <1>3, <1>4, <1>5

(* The writes that let it go on: a wake is consumed, the rest starts from  *)
(* a run that has not ended.                                               *)
LEMMA GoOnEffects ==
  ASSUME run \in Runs
  PROVE  /\ WakeUp => \/ Same
                      \/ /\ run.wake /\ ~run'.wake /\ Stopped(run)
                         /\ Becomes("pending", "other", FALSE, run.attempt + 1)
         /\ Exhaust => Same
         /\ Restart => \/ Same
                       \/ job = "restart" /\ ~Stopped(run)
                          /\ Becomes("pending", "other", FALSE, run.attempt + 1)
         /\ Resume => \/ Same
                      \/ run.phase = "paused" /\ Becomes("paused", run.queue, FALSE, run.attempt)
                      \/ run.phase = "paused"
                         /\ Becomes("provisioning", "resuming", FALSE, run.attempt + 1)
         /\ Promote => \/ Same
                       \/ Current /\ run.phase \in Startup \cup {"running"}
                          /\ Becomes("running", "other", run.sandbox, run.attempt)
<1>1. WakeUp => \/ Same
                \/ /\ run.wake /\ ~run'.wake /\ Stopped(run)
                   /\ Becomes("pending", "other", FALSE, run.attempt + 1)
  BY DEF WakeUp, Reset, Same, Becomes, Runs
<1>2. Exhaust => Same
  BY DEF Exhaust, Same, Becomes, Runs
<1>3. Restart => \/ Same
                 \/ job = "restart" /\ ~Stopped(run)
                          /\ Becomes("pending", "other", FALSE, run.attempt + 1)
  BY DEF Restart, Reset, Writes, Same, Becomes, Runs
<1>4. Resume => \/ Same
                \/ run.phase = "paused" /\ Becomes("paused", run.queue, FALSE, run.attempt)
                \/ run.phase = "paused"
                   /\ Becomes("provisioning", "resuming", FALSE, run.attempt + 1)
  BY DEF Resume, Same, Becomes, Runs
<1>5. Promote => \/ Same
                 \/ Current /\ run.phase \in Startup \cup {"running"}
                    /\ Becomes("running", "other", run.sandbox, run.attempt)
  BY DEF Promote, Same, Becomes, Runs
<1> QED
  BY <1>1, <1>2, <1>3, <1>4, <1>5

(* The writes of everyone else.                                            *)
LEMMA OutsideEffects ==
  ASSUME run \in Runs
  PROVE  /\ \A ph \in Phases : WritePhase(ph) =>
              run'.phase = ph /\ run'.sandbox = run.sandbox /\ run'.attempt = run.attempt
         /\ ParentRetries => Becomes("pending", "other", FALSE, run.attempt)
         /\ Ask \/ AskMore => Same
<1>1. ASSUME NEW ph \in Phases, WritePhase(ph)
      PROVE  run'.phase = ph /\ run'.sandbox = run.sandbox /\ run'.attempt = run.attempt
  BY <1>1 DEF WritePhase, Runs
<1>2. ParentRetries => Becomes("pending", "other", FALSE, run.attempt)
  BY DEF ParentRetries, Becomes, Runs
<1>3. Ask \/ AskMore => Same
  BY DEF Ask, AskMore, Same, Becomes, Runs
<1> QED
  BY <1>1, <1>2, <1>3

(* A step out of an ended phase consumes a wake or is an overruling write. *)
LEMMA WokenStep ==
  ASSUME RunTypeOK, [RunNext]_runVars,
         run.phase \in Ended, run'.phase \notin Ended \cup {"gone"}
  PROVE  \/ WakeUp /\ run.wake /\ ~run'.wake /\ run'.attempt = run.attempt + 1
         \/ "overruled" \in excused'
<1>0. run \in Runs /\ Stopped(run) /\ run.phase \notin Startup \cup {"running", "paused"}
  BY DEF RunTypeOK, Stopped, Ended, Startup
<1> USE <1>0
<1>1. CASE Admit \/ Refuse \/ Record \/ SyncRefs
  BY <1>1, AdmissionEffects DEF Same, Becomes
<1>2. CASE Delete \/ Terminate("cancelled") \/ Terminate("succeeded") \/ ClearRequest \/ Sweep
  BY <1>2, StopEffects DEF Same, Becomes
<1>3. CASE \/ Conclude("succeed", "succeeded") \/ Conclude("fail", "failed")
           \/ Conclude("pause", "paused")
  BY <1>3, StopEffects DEF Same, Becomes, Jobs, Phases, Ended
<1>4. CASE WakeUp \/ Exhaust \/ Restart \/ Resume \/ Promote
  BY <1>4, GoOnEffects DEF Same, Becomes
<1>5. CASE WorkerWrites \/ OverseerWrites \/ ParentCancels
  <2>1. PICK ph \in Phases : WritePhase(ph)
    BY <1>5 DEF WorkerWrites, OverseerWrites, ParentCancels, RunTypeOK, Phases, Ended
  <2> QED
    BY <2>1 DEF WritePhase, Note, Overruling
<1>6. CASE ParentRetries \/ Ask \/ AskMore
  BY <1>6, OutsideEffects DEF Same, Becomes, ParentRetries
<1>7. CASE UNCHANGED run
  BY <1>7
<1> QED
  BY <1>1, <1>2, <1>3, <1>4, <1>5, <1>6, <1>7
     DEF RunNext, Reconcile, Finish, Dispatch, Create, Drain, Break, Provide, PodStarts,
         PodMoves, Collect, PodGoes, ClaimGoes, KubeQuiet, Delay, CatchUp, Others, RivalAdmitted,
         RivalEnds, OverseerReads, AskReads, runVars

(* The copies that a reconcile holds, or may still be given.               *)
Copies == lag \cup (IF step = "watch" THEN {} ELSE {seen})

(* A copy is never of a later attempt; only a run seen with its sandbox is *)
(* promoted, only an ended one swept, only a paused one resumed; a deleted *)
(* one is left.                                                            *)
Tidy ==
  /\ \A c \in lag \cup {seen} : c.attempt <= run.attempt
  /\ step = "refs" \/ job = "run" => seen.sandbox /\ ~Stopped(seen)
  /\ job = "ended" => seen.phase \in Ended
  /\ job = "paused" => seen.phase = "paused"
  /\ run.phase = "gone" => step = "watch"

(* While an attempt goes on no copy of it shows it ended, and once it had  *)
(* a sandbox it keeps one, unless it pauses.                               *)
Kept(c, r) ==
  c.attempt = r.attempt /\ r.phase \notin Ended \cup {"gone"} =>
    /\ c.phase \notin Ended
    /\ c.sandbox /\ ~Stopped(c) => r.sandbox \/ r.phase = "paused"

Keeping == \A c \in Copies : Kept(c, run)

(* A claim is created while the rivals leave room for it.                  *)
Entitled == step \in {"create", "record"} /\ run.phase \notin Ended => rivals < Cap

(* The inductive invariant behind SlotsWithinCap.                          *)
SlotInv ==
  /\ RunTypeOK /\ Tidy
  /\ Excused("overruled") \/ Keeping
  /\ Excused("overruled") \/ Excused("slipped") \/ (SlotsUsed <= Cap /\ Entitled)

(* The attempt never goes back.                                            *)
LEMMA AttemptGrows ==
  ASSUME RunTypeOK, [RunNext]_runVars
  PROVE  run'.attempt = run.attempt \/ run'.attempt = run.attempt + 1
<1>0. run \in Runs /\ run.attempt \in Nat
  BY FieldsTyped DEF RunTypeOK
<1> USE <1>0
<1>1. CASE Admit \/ Refuse \/ Record \/ SyncRefs
  BY <1>1, AdmissionEffects DEF Same, Becomes
<1>2. CASE Delete \/ Terminate("cancelled") \/ Terminate("succeeded") \/ ClearRequest \/ Sweep
  BY <1>2, StopEffects DEF Same, Becomes
<1>3. CASE \/ Conclude("succeed", "succeeded") \/ Conclude("fail", "failed")
           \/ Conclude("pause", "paused")
  BY <1>3, StopEffects DEF Same, Becomes, Jobs, Phases, Ended
<1>4. CASE WakeUp \/ Exhaust \/ Restart \/ Resume \/ Promote
  BY <1>4, GoOnEffects DEF Same, Becomes
<1>5. CASE WorkerWrites \/ OverseerWrites \/ ParentCancels
  <2>1. PICK ph \in Phases : WritePhase(ph)
    BY <1>5 DEF WorkerWrites, OverseerWrites, ParentCancels, RunTypeOK, Phases, Ended
  <2> QED
    BY <2>1, OutsideEffects
<1>6. CASE ParentRetries \/ Ask \/ AskMore
  BY <1>6, OutsideEffects DEF Same, Becomes
<1>7. CASE UNCHANGED run
  BY <1>7
<1> QED
  BY <1>1, <1>2, <1>3, <1>4, <1>5, <1>6, <1>7
     DEF RunNext, Reconcile, Finish, Dispatch, Create, Drain, Break, Provide, PodStarts,
         PodMoves, Collect, PodGoes, ClaimGoes, KubeQuiet, Delay, CatchUp, Others, RivalAdmitted,
         RivalEnds, OverseerReads, AskReads, runVars

(* A reconcile under way ends or goes on with the same copy. *)
Ends ==
  /\ job' = "none"
  /\ step' = "watch" /\ seen' = NewRun

GoesOn ==
  /\ seen' = seen
  /\ job' \in {job, "none", "fail", "stale", "cancelled", "succeeded"}
  /\ step' \in {"drain", "write", "clear", "create", "record"}

(* The steps of a reconcile after its reads.                               *)
Working ==
  \/ Admit \/ Refuse \/ Create \/ Record \/ Drain
  \/ Finish \/ Break

(* Both ways to stop are an end.                                           *)
LEMMA Ending == Return \/ Stop => Ends
BY DEF Return, Stop, Ends

(* A reconcile ends or goes on with its copy.                              *)
LEMMA CallEffects ==
  ASSUME Working
  PROVE  step # "watch" /\ (Ends \/ GoesOn)
<1> USE Ending
<1>1. CASE Admit \/ Refuse \/ Create \/ Record \/ SyncRefs
  BY <1>1 DEF Admit, Refuse, Create, Record, SyncRefs, Goto, GoesOn
<1>2. CASE Drain \/ Break
  BY <1>2 DEF Drain, Drained, Break, Goto, GoesOn
<1>3. CASE Delete \/ Terminate("cancelled") \/ Terminate("succeeded") \/ ClearRequest \/ Sweep
  BY <1>3 DEF Delete, Terminate, ClearRequest, Sweep, Writes, Goto, GoesOn
<1>4. CASE WakeUp \/ Exhaust \/ Restart \/ Resume \/ Promote
  BY <1>4 DEF WakeUp, Exhaust, Restart, Resume, Promote, Writes
<1>5. CASE \/ Conclude("succeed", "succeeded") \/ Conclude("fail", "failed")
           \/ Conclude("pause", "paused")
  BY <1>5 DEF Conclude, Writes
<1> QED
  BY <1>1, <1>2, <1>3, <1>4, <1>5 DEF Working, Finish

(* Nobody else moves the reconcile.                                        *)
LEMMA OutsideCall == Provide \/ Others => UNCHANGED <<seen, step, job>>
BY DEF Provide, PodStarts, PodMoves, Collect, PodGoes, ClaimGoes, KubeQuiet, Delay, CatchUp, call,
       Others, RivalAdmitted, RivalEnds, WorkerWrites, OverseerReads, AskReads, OverseerWrites,
       ParentCancels, ParentRetries, Ask, AskMore, Outsider

(* The four kinds of steps.                                                *)
LEMMA Split == RunNext <=> Dispatch \/ Working \/ Provide \/ Others
BY DEF RunNext, Reconcile, Working

(* Nobody else begins an attempt or deletes the run.                       *)
LEMMA OutsideKeeps ==
  ASSUME RunTypeOK, Others
  PROVE  /\ run'.attempt = run.attempt
         /\ run'.phase = "gone" => run.phase = "gone"
<1>0. run \in Runs
  BY DEF RunTypeOK
<1>1. CASE WorkerWrites \/ OverseerWrites \/ ParentCancels
  <2>1. PICK ph \in Phases \ {"gone"} : WritePhase(ph)
    BY <1>1 DEF WorkerWrites, OverseerWrites, ParentCancels, RunTypeOK, Phases, Ended
  <2> QED
    BY <1>0, <2>1, OutsideEffects
<1>2. CASE ParentRetries \/ Ask \/ AskMore
  BY <1>0, <1>2, OutsideEffects DEF Same, Becomes
<1>3. CASE UNCHANGED run
  BY <1>3
<1> QED
  BY <1>1, <1>2, <1>3 DEF Others, RivalAdmitted, RivalEnds, OverseerReads, AskReads

(* Only Delete deletes it.                                                 *)
LEMMA GoneStep ==
  ASSUME RunTypeOK, Working, run.phase # "gone", run'.phase = "gone"
  PROVE  Delete
<1>0. run \in Runs
  BY DEF RunTypeOK
<1> USE <1>0
<1>1. CASE Admit \/ Refuse \/ Record \/ SyncRefs
  BY <1>1, AdmissionEffects DEF Same, Becomes
<1>2. CASE Terminate("cancelled") \/ Terminate("succeeded") \/ ClearRequest \/ Sweep
  BY <1>2, StopEffects DEF Same, Becomes, Ended
<1>3. CASE \/ Conclude("succeed", "succeeded") \/ Conclude("fail", "failed")
           \/ Conclude("pause", "paused")
  BY <1>3, StopEffects DEF Same, Becomes, Jobs, Phases, Ended
<1>4. CASE WakeUp \/ Exhaust \/ Restart \/ Resume \/ Promote
  BY <1>4, GoOnEffects DEF Same, Becomes
<1>5. CASE UNCHANGED run
  BY <1>5
<1> QED
  BY <1>1, <1>2, <1>3, <1>4, <1>5 DEF Working, Finish, Create, Drain, Break

(* Where the copies of a step come from.                                   *)
LEMMA CopyStep ==
  ASSUME [RunNext]_runVars
  PROVE  /\ \A c \in lag' \cup {seen'} : c \in lag \cup {seen, run, NewRun}
         /\ \A c \in Copies' : c \in Copies \/ (c = run /\ run' = run)
<1>1. CASE Dispatch
  <2>1. run' = run /\ lag' \in {lag, {}} /\ seen' \in Cached
    BY <1>1 DEF Dispatch, Unseen
  <2> QED
    BY <2>1 DEF Cached, Copies
<1>2. CASE Working
  <2>1. lag' = lag
    BY <1>2 DEF Working, Admit, Refuse, Create, Record, Drain, Break, Finish, Writes, Delete,
       Terminate, ClearRequest, WakeUp, Exhaust, Restart, Resume, Sweep, SyncRefs, Promote,
       Conclude
  <2>2. step # "watch" /\ (seen' = seen \/ (step' = "watch" /\ seen' = NewRun))
    BY <1>2, CallEffects DEF Ends, GoesOn
  <2> QED
    BY <2>1, <2>2 DEF Copies
<1>3. CASE Provide \/ Others
  <2>1. UNCHANGED <<seen, step>>
    BY <1>3, OutsideCall
  <2>2. lag' \in {lag, {}} \/ (lag' = {run} /\ run' = run)
    BY <1>3 DEF Provide, PodStarts, PodMoves, Collect, PodGoes, ClaimGoes, KubeQuiet, Delay,
       CatchUp, Others, RivalAdmitted, RivalEnds, WorkerWrites, OverseerReads, AskReads,
       OverseerWrites, ParentCancels, ParentRetries, Ask, AskMore, Outsider
  <2> QED
    BY <2>1, <2>2 DEF Copies
<1>4. CASE UNCHANGED runVars
  BY <1>4 DEF runVars, call, Copies
<1> QED
  BY <1>1, <1>2, <1>3, <1>4, Split

(* What a reconcile starts for is what the copy shows.                     *)
LEMMA Started ==
  ASSUME Dispatch
  PROVE  /\ run' = run /\ run.phase # "gone" /\ step = "watch" /\ seen' \in Cached
         /\ step' = "refs" \/ job' = "run" => seen'.sandbox /\ ~Stopped(seen')
         /\ job' = "ended" => seen'.phase \in Ended
         /\ job' = "paused" => seen'.phase = "paused"
         /\ step' = "refs" => job' \in {"none", "run", "succeed", "fail"}
         /\ step' = "clear" => seen'.phase \in Ended /\ job' \in seen'.asked
         /\ job' \in {"cancelled", "succeeded"} => step' = "clear" \/ seen'.phase \notin Ended
         /\ job' = "gone" => "gone" \in seen'.asked /\ step' # "clear"
         /\ step' = "write" /\ job' \in Asks \cup {"wake", "restart", "ended", "paused"} =>
              job' = "paused" /\ ~seen'.sandbox
         /\ step' \in {"drain", "write", "clear", "count", "refs"}
<1>1. PICK r \in Cached :
        /\ seen' = r
        /\ \/ SeeTermination(r) \/ SeeWake(r) \/ SeeRestart(r) \/ SeeStopped(r)
           \/ Monitor(r) \/ Provision(r)
  BY DEF Dispatch
<1>2. run' = run /\ run.phase # "gone" /\ step = "watch"
  BY DEF Dispatch
<1>3. CASE SeeTermination(r)
  BY <1>1, <1>2, <1>3 DEF SeeTermination, First, Asks
<1>4. CASE SeeWake(r) \/ SeeRestart(r)
  BY <1>1, <1>2, <1>4 DEF SeeWake, SeeRestart, Asks
<1>5. CASE SeeStopped(r)
  BY <1>1, <1>2, <1>5 DEF SeeStopped, Stopped, Asks
<1>6. CASE Monitor(r)
  BY <1>1, <1>2, <1>6 DEF Monitor, Observed, Asks
<1>7. CASE Provision(r)
  BY <1>1, <1>2, <1>7 DEF Provision, Asks
<1> QED
  BY <1>1, <1>3, <1>4, <1>5, <1>6, <1>7

(* Tidy is inductive with the type invariant.                              *)
LEMMA TidyStep ==
  ASSUME RunTypeOK, Tidy, [RunNext]_runVars
  PROVE  Tidy'
<1>0. \A c \in lag' \cup {seen'} : c.attempt <= run'.attempt
  <2> SUFFICES ASSUME NEW c \in lag' \cup {seen'} PROVE c.attempt <= run'.attempt
    OBVIOUS
  <2>1. run.attempt \in Nat /\ (run'.attempt = run.attempt \/ run'.attempt = run.attempt + 1)
    BY FieldsTyped, AttemptGrows DEF RunTypeOK
  <2>2. c \in Runs /\ c.attempt \in Nat
    BY CopyStep, NewRunTyped, FieldsTyped DEF RunTypeOK
  <2>3. c.attempt <= run.attempt
    BY <2>1, CopyStep DEF Tidy, NewRun
  <2> QED
    BY <2>1, <2>2, <2>3
<1>1. CASE Dispatch
  BY <1>0, <1>1, Started DEF Tidy, Stopped
<1>2. CASE Working
  <2>1. step # "watch" /\ (Ends \/ GoesOn) /\ run.phase # "gone"
    BY <1>2, CallEffects DEF Tidy
  <2>2. run'.phase = "gone" => step' = "watch"
    BY <1>2, <2>1, GoneStep, Ending DEF Delete, Ends
  <2>3. step' # "refs" /\ (job' \in {"run", "ended", "paused"} => job' = job /\ seen' = seen)
    BY <2>1 DEF Ends, GoesOn
  <2> QED
    BY <1>0, <2>2, <2>3 DEF Tidy, Stopped
<1>3. CASE Provide \/ Others
  <2>1. UNCHANGED <<seen, step, job>>
    BY <1>3, OutsideCall
  <2>2. run'.phase = "gone" => run.phase = "gone"
    <3>1. CASE Others
      BY <3>1, OutsideKeeps
    <3>2. CASE Provide
      BY <3>2 DEF Provide, PodStarts, PodMoves, Collect, PodGoes, ClaimGoes, KubeQuiet, Delay,
         CatchUp
    <3> QED
      BY <1>3, <3>1, <3>2
  <2> QED
    BY <1>0, <2>1, <2>2 DEF Tidy, Stopped
<1>4. CASE UNCHANGED runVars
  BY <1>0, <1>4 DEF runVars, call, Tidy, Stopped
<1> QED
  BY <1>1, <1>2, <1>3, <1>4, Split

(* A run once overruled or slipped stays excused from the capacity.        *)
LEMMA FlawsStay ==
  ASSUME [RunNext]_runVars
  PROVE  /\ "overruled" \in excused => "overruled" \in excused'
         /\ "slipped" \in excused => "slipped" \in excused'
<1>1. CASE Dispatch \/ Refuse \/ Create \/ Record \/ Finish
  BY <1>1
     DEF Dispatch, Refuse, Create, Record, Finish, Writes, Delete, Terminate,
         ClearRequest, WakeUp, Exhaust, Restart, Resume, Sweep, SyncRefs, Promote,
         Conclude, Note
<1>2. CASE Admit \/ Break \/ Drain
  BY <1>2 DEF Admit, Break, Drain, Note
<1>3. CASE Provide
  BY <1>3 DEF Provide, PodStarts, PodMoves, Collect, PodGoes, ClaimGoes, KubeQuiet, Delay, CatchUp
<1>4. CASE Others
  BY <1>4
     DEF Others, RivalAdmitted, RivalEnds, WorkerWrites, OverseerReads, AskReads, OverseerWrites,
         ParentCancels, ParentRetries, Ask, AskMore, WritePhase, Note
<1>5. CASE UNCHANGED runVars
  BY <1>5 DEF runVars
<1> QED
  BY <1>1, <1>2, <1>3, <1>4, <1>5 DEF RunNext, Reconcile

(* A deleted run is not written any more.                                  *)
LEMMA OutsideStaysGone ==
  ASSUME Others, run.phase = "gone"
  PROVE  run' = run
BY DEF Others, RivalAdmitted, RivalEnds, WorkerWrites, OverseerReads, AskReads, OverseerWrites,
       ParentCancels, ParentRetries, Ask, AskMore, WritePhase

(* A deleted run stays so, and no reconcile works on it.                   *)
LEMMA GoneStays ==
  ASSUME Tidy, [RunNext]_runVars, run.phase = "gone"
  PROVE  run' = run /\ ~Working
<1>1. ~Working
  BY CallEffects DEF Tidy
<1> QED
  BY <1>1, Split, OutsideStaysGone
     DEF Dispatch, Provide, PodStarts, PodMoves, Collect, PodGoes, ClaimGoes, KubeQuiet, Delay,
         CatchUp, runVars

(* The sandbox of an attempt that goes on is dropped where it pauses, and  *)
(* by the parent, who then overrules the controller.                       *)
LEMMA SandboxStays ==
  ASSUME RunTypeOK, Tidy, Keeping, [RunNext]_runVars, "overruled" \notin excused',
         run'.attempt = run.attempt, run'.phase \notin Ended \cup {"gone"},
         run.phase \notin Ended \cup {"gone"}, run.sandbox \/ run.phase = "paused"
  PROVE  run'.sandbox \/ run'.phase = "paused"
<1>0. run \in Runs /\ run.attempt \in Nat /\ run.attempt # run.attempt + 1
  BY FieldsTyped DEF RunTypeOK
<1>1. CASE Admit \/ Refuse \/ Record \/ SyncRefs
  BY <1>0, <1>1, AdmissionEffects DEF Same, Becomes, Stopped
<1>2. CASE Delete \/ Terminate("cancelled") \/ Terminate("succeeded") \/ ClearRequest
  BY <1>0, <1>2, StopEffects DEF Same, Becomes
<1>3. CASE \/ Conclude("succeed", "succeeded") \/ Conclude("fail", "failed")
           \/ Conclude("pause", "paused")
  BY <1>0, <1>3, StopEffects DEF Same, Becomes, Jobs, Phases, Ended, Stopped
<1>4. CASE WakeUp \/ Exhaust \/ Restart \/ Resume \/ Promote
  BY <1>0, <1>4, GoOnEffects DEF Same, Becomes, Startup
<1>5. CASE Sweep
  <2>1. seen \in Copies /\ seen.phase \in Ended
    BY <1>5 DEF Sweep, Writes, Copies, Tidy
  <2>2. ~Current
    BY <2>1 DEF Keeping, Kept, Current
  <2>3. run' = run
    BY <1>5, <2>2 DEF Sweep
  <2> QED
    BY <2>3
<1>6. CASE WorkerWrites \/ OverseerWrites \/ ParentCancels
  <2>1. PICK ph \in Phases : WritePhase(ph)
    BY <1>6 DEF WorkerWrites, OverseerWrites, ParentCancels, RunTypeOK, Phases, Ended
  <2>2. run'.sandbox = run.sandbox /\ run'.phase = ph
    BY <1>0, <2>1, OutsideEffects
  <2>3. ~(run.phase = "paused" /\ ~run.sandbox /\ ~Stopped(run'))
    BY <2>1 DEF WritePhase, Note, Overruling
  <2> QED
    BY <2>2, <2>3 DEF Stopped
<1>7. ~ParentRetries
  BY DEF ParentRetries, Consumes, Stopped
<1>8. CASE Ask \/ AskMore
  BY <1>0, <1>8, OutsideEffects DEF Same, Becomes
<1>9. CASE UNCHANGED run
  BY <1>9
<1> QED
  BY <1>1, <1>2, <1>3, <1>4, <1>5, <1>6, <1>7, <1>8, <1>9
     DEF RunNext, Reconcile, Finish, Dispatch, Create, Drain, Break, Provide, PodStarts,
         PodMoves, Collect, PodGoes, ClaimGoes, KubeQuiet, Delay, CatchUp, Others, RivalAdmitted,
         RivalEnds, OverseerReads, AskReads, runVars

(* So every copy goes on being kept.                                       *)
LEMMA KeepingStep ==
  ASSUME RunTypeOK, Tidy, Keeping, [RunNext]_runVars, "overruled" \notin excused'
  PROVE  Keeping'
<1>1. ASSUME NEW c \in Copies'
      PROVE  Kept(c, run')
  <2>1. CASE c = run /\ run' = run
    BY <2>1 DEF Kept, Stopped
  <2>2. CASE c \in Copies
    <3> SUFFICES ASSUME c.attempt = run'.attempt, run'.phase \notin Ended \cup {"gone"}
                 PROVE  /\ c.phase \notin Ended
                        /\ c.sandbox /\ ~Stopped(c) => run'.sandbox \/ run'.phase = "paused"
      BY DEF Kept
    <3>1. run.attempt \in Nat /\ c.attempt <= run.attempt
          /\ (run'.attempt = run.attempt \/ run'.attempt = run.attempt + 1)
      BY <2>2, FieldsTyped, AttemptGrows DEF RunTypeOK, Copies, Tidy
    <3>2. run'.attempt = run.attempt
      BY <3>1
    <3>3. run.phase \notin Ended
      BY <3>1, <3>2, WokenStep
    <3>4. run.phase # "gone"
      BY GoneStays
    <3>5. /\ c.phase \notin Ended
          /\ c.sandbox /\ ~Stopped(c) => run.sandbox \/ run.phase = "paused"
      BY <2>2, <3>2, <3>3, <3>4 DEF Keeping, Kept
    <3> QED
      BY <3>2, <3>3, <3>4, <3>5, SandboxStays
  <2> QED
    BY <2>1, <2>2, CopyStep
<1> QED
  BY <1>1 DEF Keeping

(* Neither excuse of the capacity applies.                                 *)
Fair == "overruled" \notin excused /\ "slipped" \notin excused

(* runConsumesAdmissionSlot of the object after the step.                  *)
LEMMA Consuming ==
  Consumes(run)' <=> /\ run'.phase \notin Ended \cup {"gone"}
                     /\ run'.sandbox \/ run'.queue # "resuming"
                     /\ \/ run'.phase \in {"admitted", "provisioning", "running", "waiting"}
                        \/ run'.sandbox
                        \/ run'.queue = "provisioning"
BY DEF Consumes

(* A run comes to hold a slot only when the rivals leave room. *)
LEMMA ReconcileConsumes ==
  ASSUME SlotInv, Working, Fair', Consumes(run)', ~Consumes(run)
  PROVE  rivals < Cap
<1>0. run \in Runs /\ RunTypeOK /\ Tidy /\ Keeping /\ Entitled /\ Fair /\ run.phase # "gone"
  <2>1. Fair
    BY FlawsStay, Split DEF Fair
  <2> QED
    BY <2>1, CallEffects DEF SlotInv, Fair, Excused, RunTypeOK, Tidy
<1> USE <1>0, Consuming
<1>1. CASE Admit
  <2>1. run.phase \notin Ended
    BY <1>1, AdmissionEffects DEF Same, Becomes, Consumes, Stopped
  <2>2. ~Consumes(seen)
    BY <1>1, <2>1 DEF Admit, Note, Fair
  <2> QED
    BY <1>1, <2>2 DEF Admit, Granted
<1>2. CASE Refuse
  BY <1>2, AdmissionEffects DEF Same, Becomes, Consumes, Stopped
<1>3. CASE Record
  <2>1. run.phase \notin Ended
    BY <1>3, AdmissionEffects DEF Same, Becomes, Consumes, Stopped
  <2> QED
    BY <1>3, <2>1 DEF Record, Entitled
<1>4. ASSUME seen.sandbox, ~Stopped(seen), ~Stopped(run), Current, step # "watch"
      PROVE  FALSE
  BY <1>4 DEF Keeping, Kept, Copies, Current, Stopped, Consumes
<1>5. CASE SyncRefs
  <2>1. step = "refs" /\ seen.sandbox /\ ~Stopped(seen)
    BY <1>5 DEF SyncRefs, Tidy
  <2> QED
    BY <1>4, <1>5, <2>1, AdmissionEffects DEF Same, Becomes, Consumes
<1>6. CASE Promote
  <2>1. step = "write" /\ seen.sandbox /\ ~Stopped(seen)
    BY <1>6 DEF Promote, Writes, Tidy
  <2> QED
    BY <1>4, <1>6, <2>1, GoOnEffects DEF Same, Becomes, Consumes, Stopped, Startup, Ended
<1>7. CASE Delete \/ Terminate("cancelled") \/ Terminate("succeeded") \/ ClearRequest \/ Sweep
  BY <1>7, StopEffects DEF Same, Becomes, Consumes
<1>8. CASE \/ Conclude("succeed", "succeeded") \/ Conclude("fail", "failed")
           \/ Conclude("pause", "paused")
  BY <1>8, StopEffects DEF Same, Becomes, Consumes, Jobs, Phases, Ended, Stopped
<1>9. CASE WakeUp \/ Exhaust \/ Restart \/ Resume
  BY <1>9, GoOnEffects DEF Same, Becomes, Consumes, Ended
<1>10. CASE UNCHANGED run
  BY <1>10 DEF Consumes
<1> QED
  BY <1>1, <1>2, <1>3, <1>5, <1>6, <1>7, <1>8, <1>9, <1>10
  DEF Working, Finish, Create, Drain, Break

(* Nobody else takes a slot without overruling the controller.             *)
LEMMA OutsideConsumes ==
  ASSUME RunTypeOK, Others, "overruled" \notin excused', Consumes(run)'
  PROVE  Consumes(run)
<1>0. run \in Runs
  BY DEF RunTypeOK
<1>1. CASE WorkerWrites \/ OverseerWrites \/ ParentCancels
  BY <1>1
     DEF WorkerWrites, OverseerWrites, ParentCancels, WritePhase, Note, Overruling,
         Consumes
<1>2. ~ParentRetries
  BY <1>0, OutsideEffects, Consuming DEF Becomes
<1>3. CASE Ask \/ AskMore
  BY <1>0, <1>3, OutsideEffects, Consuming DEF Same, Becomes, Consumes
<1>4. CASE UNCHANGED run
  BY <1>4 DEF Consumes
<1> QED
  BY <1>1, <1>2, <1>3, <1>4 DEF Others, RivalAdmitted, RivalEnds, OverseerReads, AskReads

(* A reconcile is between its grant and the recorded claim only after the  *)
(* grant.                                                                  *)
LEMMA OnlyAfterTheGrant ==
  ASSUME Working, step' \in {"create", "record"}
  PROVE  (Admit /\ step = "count") \/ (Create /\ step = "create")
BY DEF Working, Return, Stop, Admit, Refuse, Create, Record, Drain, Drained, Break,
       Finish, Delete, Terminate, ClearRequest, WakeUp, Exhaust, Restart, Resume, Sweep,
       SyncRefs, Promote, Conclude, Writes, Goto

(* Nobody else brings it there.                                            *)
LEMMA LockedSteps ==
  ASSUME RunNext, step' \in {"create", "record"}
  PROVE  Admit \/ (Create /\ step = "create") \/ (Provide \/ Others)
<1>1. CASE Dispatch
  BY <1>1
     DEF Dispatch, SeeTermination, SeeWake, SeeRestart, SeeStopped, Monitor, Provision
<1>2. CASE Working
  BY <1>2, OnlyAfterTheGrant
<1> QED
  BY <1>1, <1>2, Split

(* The grant leaves room, and the lock keeps it until the claim is on      *)
(* record.                                                                 *)
LEMMA EntitledStep ==
  ASSUME SlotInv, RunNext, Fair', run'.phase \notin Ended, step' \in {"create", "record"}
  PROVE  rivals' < Cap
<1>0. /\ RunTypeOK /\ Tidy /\ Entitled /\ SlotsUsed <= Cap
      /\ run \in Runs /\ rivals \in Nat /\ Cap \in Nat
  BY FlawsStay, LifecycleAssumption DEF SlotInv, Fair, Excused, RunTypeOK
<1>1. CASE Admit
  <2>1. run'.phase = run.phase /\ rivals' = rivals
    BY <1>0, <1>1, AdmissionEffects DEF Same, Becomes, Admit
  <2>2. CASE Consumes(run)
    BY <1>0, <2>1, <2>2 DEF SlotsUsed
  <2>3. CASE ~Consumes(run)
    BY <1>1, <2>1, <2>3 DEF Admit, Note, Fair, Granted
  <2> QED
    BY <2>2, <2>3
<1>2. CASE Create /\ step = "create"
  BY <1>0, <1>2 DEF Create, Entitled
<1>3. CASE Provide
  BY <1>0, <1>3, OutsideCall DEF Entitled, Provide, PodStarts, PodMoves, Collect, PodGoes,
       ClaimGoes, KubeQuiet, Delay, CatchUp
<1>4. CASE Others
  <2>1. step' = step /\ seen' = seen
    BY <1>4, OutsideCall
  <2>2. run.phase \notin Ended
    <3>1. run'.attempt # run.attempt + 1 /\ (run'.phase = "gone" => run.phase = "gone")
      BY <1>0, <1>4, FieldsTyped, OutsideKeeps
    <3> QED
      BY <1>0, <3>1, WokenStep DEF Fair, Ended
  <2>3. rivals < Cap
    BY <1>0, <2>1, <2>2 DEF Entitled
  <2>4. rivals' = rivals \/ (rivals > 0 /\ rivals' = rivals - 1)
    BY <1>4, <2>1
       DEF Others, RivalAdmitted, Locked, RivalEnds, WorkerWrites, OverseerReads, AskReads,
           OverseerWrites, ParentCancels, ParentRetries, Ask, AskMore, Outsider
  <2> QED
    BY <1>0, <2>3, <2>4
<1> QED
  BY <1>1, <1>2, <1>3, <1>4, LockedSteps
(* No step takes a slot beyond the capacity.                               *)
LEMMA SlotsStep ==
  ASSUME SlotInv, RunNext, Fair'
  PROVE  SlotsUsed' <= Cap
<1>0. /\ RunTypeOK /\ SlotsUsed <= Cap /\ rivals \in Nat /\ Cap \in Nat
      /\ SlotsUsed' = rivals' + (IF Consumes(run)' THEN 1 ELSE 0)
  BY FlawsStay, LifecycleAssumption DEF SlotInv, Fair, Excused, RunTypeOK, SlotsUsed
<1>1. CASE Dispatch
  <2>1. UNCHANGED <<run, rivals>>
    BY <1>1 DEF Dispatch
  <2> QED
    BY <1>0, <2>1 DEF SlotsUsed, Consumes
<1>2. CASE Working
  <2>1. rivals' = rivals
    BY <1>2
       DEF Working, Admit, Refuse, Create, Record, Drain, Break, Finish, Delete,
           Terminate, ClearRequest, WakeUp, Exhaust, Restart, Resume, Sweep, SyncRefs,
           Promote, Conclude, Writes
  <2>2. Consumes(run)' => Consumes(run) \/ rivals < Cap
    BY <1>2, ReconcileConsumes
  <2> QED
    BY <1>0, <2>1, <2>2 DEF SlotsUsed
<1>3. CASE Provide
  <2>1. UNCHANGED <<run, rivals>>
    BY <1>3 DEF Provide, PodStarts, PodMoves, Collect, PodGoes, ClaimGoes, KubeQuiet, Delay, CatchUp
  <2> QED
    BY <1>0, <2>1 DEF SlotsUsed, Consumes
<1>4. CASE Others
  <2>1. Consumes(run)' => Consumes(run)
    BY <1>0, <1>4, OutsideConsumes DEF Fair
  <2>2. CASE RivalAdmitted
    <3>1. run' = run /\ rivals' = rivals + 1 /\ SlotsUsed < Cap
      BY <2>2 DEF RivalAdmitted
    <3> QED
      BY <1>0, <2>1, <3>1 DEF SlotsUsed
  <2>3. CASE ~RivalAdmitted
    <3>1. rivals' = rivals \/ (rivals > 0 /\ rivals' = rivals - 1)
      BY <1>4, <2>3 DEF Others, RivalEnds, WorkerWrites, OverseerReads, AskReads, OverseerWrites,
           ParentCancels, ParentRetries, Ask, AskMore, Outsider
    <3> QED
      BY <1>0, <2>1, <3>1 DEF SlotsUsed
  <2> QED
    BY <2>2, <2>3
<1> QED
  BY <1>1, <1>2, <1>3, <1>4, Split

(* A pending run holds no slot.                                            *)
LEMMA SlotInvInit == RunInit => SlotInv
<1> SUFFICES ASSUME RunInit PROVE SlotInv
  OBVIOUS
<1>1. RunTypeOK
  BY TypeInit
<1>2. Tidy /\ Keeping /\ Entitled
  BY FirstRun, LifecycleAssumption DEF RunInit, NewRun, Tidy, Keeping, Copies, Entitled
<1>3. SlotsUsed <= Cap
  <2>1. ~Consumes(run)
    BY FirstRun DEF Consumes
  <2> QED
    BY <2>1, LifecycleAssumption DEF RunInit, SlotsUsed
<1> QED
  BY <1>1, <1>2, <1>3 DEF SlotInv

(* SlotInv is inductive.                                                   *)
LEMMA SlotInvStep == SlotInv /\ [RunNext]_runVars => SlotInv'
<1> SUFFICES ASSUME SlotInv, [RunNext]_runVars PROVE SlotInv'
  OBVIOUS
<1>0. RunTypeOK /\ Tidy
  BY DEF SlotInv
<1>1. RunTypeOK' /\ Tidy'
  BY <1>0, TypeStep, TidyStep
<1>2. Excused("overruled")' \/ Keeping'
  BY <1>0, FlawsStay, KeepingStep DEF SlotInv, Excused
<1>3. Excused("overruled")' \/ Excused("slipped")' \/ (SlotsUsed' <= Cap /\ Entitled')
  <2> SUFFICES ASSUME Fair' PROVE SlotsUsed' <= Cap /\ Entitled'
    BY DEF Fair, Excused
  <2>1. CASE RunNext
    BY <2>1, SlotsStep, EntitledStep DEF Entitled
  <2>2. CASE UNCHANGED runVars
    <3>1. UNCHANGED <<run, rivals, step, excused>>
      BY <2>2 DEF runVars, call
    <3>2. SlotsUsed <= Cap /\ Entitled
      BY <3>1 DEF SlotInv, Fair, Excused
    <3> QED
      BY <3>1, <3>2 DEF SlotsUsed, Consumes, Entitled
  <2> QED
    BY <2>1, <2>2
<1> QED
  BY <1>1, <1>2, <1>3 DEF SlotInv

(* Type correctness of the run, its compute and the reconcile.             *)
THEOREM RunTypes == RunSpec => []RunTypeOK
<1>1. RunTypeOK /\ [RunNext]_runVars => RunTypeOK'
  BY TypeStep
<1> QED
  BY TypeInit, <1>1, PTL DEF RunSpec

(* The capacity of the profile is never granted twice, for every capacity  *)
(* and any number of failed reconciles, restarts, resumes and wakes.       *)
THEOREM CapacityHolds == RunSpec => []SlotsWithinCap
<1>1. SlotInv => SlotsWithinCap
  BY DEF SlotInv, SlotsWithinCap
<1> QED
  BY SlotInvInit, SlotInvStep, <1>1, PTL DEF RunSpec

(* An ended run goes on only for a wake it consumes, whoever writes in     *)
(* whichever order, unless someone else overrules the controller.          *)
THEOREM EndedStaysEnded == RunSpec => StoppedUntilWoken
<1>1. RunTypeOK /\ [RunNext]_runVars
      => [run.phase \in Ended /\ run'.phase \notin Ended \cup {"gone"} =>
            (run.wake /\ ~run'.wake) \/ Excused("overruled")']_runVars
  BY WokenStep DEF Excused
<1> QED
  BY RunTypes, <1>1, PTL DEF RunSpec, StoppedUntilWoken

(* No compute, and none to come. *)
Idle == claim \in {"none", "ending"} /\ pod = "none"

(* What a reconcile drains the compute for.                                *)
Drains == Asks \cup {"wake", "restart", "ended", "paused"}

(* Only a copy of a run that goes on is stopped.                           *)
Doing ==
  /\ step = "refs" => job \in {"none", "run", "succeed", "fail"}
  /\ step \in {"drain", "write"} /\ job \in {"cancelled", "succeeded"} => seen.phase \notin Ended

(* Compute is on record, or about to be, under the current attempt; a      *)
(* drain that is over has left none.                                       *)
Backed == (run.sandbox \/ (step = "record" /\ Current)) /\ made = run.attempt /\ run.phase # "gone"
Spent  == step = "write" /\ job \in Drains => job = "paused" /\ ~seen.sandbox

(* The inductive invariant behind OneWorkerAtATime and NothingLeftBehind.  *)
LeftInv ==
  /\ RunTypeOK /\ Tidy /\ Doing
  /\ Leaky \/ Idle \/ (Backed /\ Spent)

(* A reconcile drains only what it was to drain, and clears only what it   *)
(* has stopped.                                                            *)
LEMMA WorkingGoesOn ==
  ASSUME Working, step' # "watch"
  PROVE  /\ seen' = seen /\ step # "watch"
         /\ step' \in {"drain", "write"} /\ job' \in {"cancelled", "succeeded"} =>
              job' = job /\ step \in {"drain", "refs"}
         /\ step' = "clear" => Terminate("cancelled") \/ Terminate("succeeded")
<1>1. seen' = seen /\ step # "watch"
  BY CallEffects DEF Ends, GoesOn
<1>2. ~(Return \/ Stop)
  BY Ending DEF Ends
<1>3. \/ Admit /\ step' = "create"
      \/ Refuse /\ job' = "fail" /\ step' = "write"
      \/ Create /\ step' \in {"record", "drain", "write"} /\ job' \in {"none", "stale", "fail"}
      \/ Drain /\ step = "drain" /\ step' = "write" /\ job' = job
      \/ SyncRefs /\ step = "refs" /\ step' = "write" /\ job' = job
      \/ (Terminate("cancelled") \/ Terminate("succeeded")) /\ step' = "clear"
  <2>1. CASE Admit \/ Refuse
    BY <1>2, <2>1 DEF Admit, Refuse, Goto
  <2>2. CASE Create \/ Record
    BY <1>2, <2>2 DEF Create, Record, Goto
  <2>3. CASE Drain
    BY <1>2, <2>3 DEF Drain, Drained, Goto
  <2>4. CASE Break \/ Delete \/ ClearRequest \/ WakeUp \/ Exhaust \/ Restart
    BY <1>2, <2>4 DEF Break, Delete, ClearRequest, WakeUp, Exhaust, Restart
  <2>5. CASE Terminate("cancelled") \/ Terminate("succeeded")
    BY <2>5 DEF Terminate, Goto
  <2>6. CASE Resume \/ Sweep \/ SyncRefs \/ Promote
    BY <1>2, <2>6 DEF Resume, Sweep, SyncRefs, Promote, Goto
  <2>7. CASE \/ Conclude("succeed", "succeeded") \/ Conclude("fail", "failed")
             \/ Conclude("pause", "paused")
    BY <1>2, <2>7 DEF Conclude
  <2> QED
    BY <2>1, <2>2, <2>3, <2>4, <2>5, <2>6, <2>7 DEF Working, Finish
<1> QED
  BY <1>1, <1>3

(* Doing is inductive.                                                     *)
LEMMA DoingStep ==
  ASSUME Doing, [RunNext]_runVars
  PROVE  Doing'
<1>1. CASE Dispatch
  BY <1>1, Started DEF Doing
<1>2. CASE Working
  <2>1. CASE step' = "watch"
    BY <2>1 DEF Doing
  <2>2. CASE step' # "watch"
    <3>1. step' # "refs"
      BY <1>2, CallEffects DEF Ends, GoesOn
    <3> QED
      BY <1>2, <2>2, <3>1, WorkingGoesOn DEF Doing
  <2> QED
    BY <2>1, <2>2
<1>3. CASE Provide \/ Others \/ UNCHANGED runVars
  <2>1. UNCHANGED <<seen, step, job>>
    BY <1>3, OutsideCall DEF runVars, call
  <2> QED
    BY <2>1 DEF Doing
<1> QED
  BY <1>1, <1>2, <1>3, Split

(* An excuse is only taken back by a drain that sees that nothing is left. *)
LEMMA Repaired ==
  ASSUME RunNext, Leaky, ~Leaky'
  PROVE  Idle'
<1>1. CASE Drain
  <2>1. \/ UNCHANGED excused
        \/ \E b \in BOOLEAN : Note("missed", b)
        \/ pod = "none" /\ claim = "none" /\ UNCHANGED <<claim, pod>>
    BY <1>1 DEF Drain
  <2> QED
    BY <2>1 DEF Leaky, Excused, Note, Idle
<1>2. CASE Dispatch \/ Refuse \/ Create \/ Record \/ Finish
  BY <1>2
     DEF Dispatch, Refuse, Create, Record, Finish, Writes, Delete, Terminate,
         ClearRequest, WakeUp, Exhaust, Restart, Resume, Sweep, SyncRefs, Promote,
         Conclude, Note, Leaky, Excused
<1>3. CASE Admit \/ Break
  BY <1>3 DEF Admit, Break, Note, Leaky, Excused
<1>4. CASE Provide
  BY <1>4
     DEF Provide, PodStarts, PodMoves, Collect, PodGoes, ClaimGoes, KubeQuiet, Delay, CatchUp,
     Leaky,
         Excused
<1>5. CASE Others
  BY <1>5
     DEF Others, RivalAdmitted, RivalEnds, WorkerWrites, OverseerReads, AskReads, OverseerWrites,
         ParentCancels, ParentRetries, Ask, AskMore, WritePhase, Note, Leaky, Excused
<1> QED
  BY <1>1, <1>2, <1>3, <1>4, <1>5 DEF RunNext, Reconcile

(* Compute comes only from a claim that a reconcile creates.               *)
LEMMA IdleStays ==
  ASSUME RunNext, Idle, ~Idle'
  PROVE  Create /\ claim = "none" /\ claim' = "new"
<1>1. CASE Create
  BY <1>1 DEF Create, Idle
<1>2. CASE Dispatch \/ Admit \/ Refuse \/ Record \/ Finish \/ Break
  BY <1>2
     DEF Dispatch, Admit, Refuse, Record, Break, Finish, Writes, Delete, Terminate,
         ClearRequest, WakeUp, Exhaust, Restart, Resume, Sweep, SyncRefs, Promote,
         Conclude, kube, Idle
<1>3. CASE Drain
  BY <1>3 DEF Drain, PodSeen, Idle
<1>4. CASE Provide
  BY <1>4 DEF Provide, PodStarts, PodMoves, Collect, PodGoes, ClaimGoes, Delay, CatchUp, kube, Idle
<1>5. CASE Others
  BY <1>5
     DEF Others, RivalAdmitted, RivalEnds, WorkerWrites, OverseerReads, AskReads, OverseerWrites,
         ParentCancels, ParentRetries, Ask, AskMore, Outsider, kube, Idle
<1> QED
  BY <1>1, <1>2, <1>3, <1>4, <1>5 DEF RunNext, Reconcile

(* The reads of a reconcile: nobody stops a run again without its drain.   *)
LEMMA DispatchLeft ==
  ASSUME Backed, Dispatch
  PROVE  Backed' /\ Spent'
<1>1. run.sandbox /\ UNCHANGED <<run, made>>
  BY DEF Dispatch, Backed, kube
<1> QED
  BY <1>1, Started DEF Backed, Spent, Drains

(* A claim is created for the current attempt, and recorded next.          *)
LEMMA CreateLeft ==
  ASSUME Tidy, Create, claim = "none", claim' = "new", ~Leaky'
  PROVE  Backed' /\ Spent'
<1>1. Current /\ run.phase # "gone"
  BY DEF Create, Note, Leaky, Excused, Tidy
<1>2. step' = "record" /\ made' = seen.attempt /\ seen' = seen /\ run' = run
  BY DEF Create, Goto
<1> QED
  BY <1>1, <1>2 DEF Current, Backed, Spent

(* A drain that is over has seen the compute end, or missed it.            *)
LEMMA DrainLeaves ==
  ASSUME Drain, step' = "write"
  PROVE  Idle' \/ Excused("missed")'
<1>1. ~PodSeen
  BY DEF Drain, Return, Stop
<1>2. CASE ClaimSeen
  BY <1>1, <1>2 DEF Drain, Return, Stop, Note, Idle, Excused
<1>3. CASE ~ClaimSeen
  BY <1>1, <1>3 DEF Drain, Note, Idle, Excused
<1> QED
  BY <1>2, <1>3

(* While there is compute, a reconcile keeps it on record.                 *)
LEMMA WorkingLeft ==
  ASSUME RunTypeOK, Tidy, Doing, Backed, Spent, Working, ~Leaky', ~Idle'
  PROVE  Backed' /\ Spent'
<1>0. run \in Runs /\ run.phase # "gone" /\ made = run.attempt
  BY DEF RunTypeOK, Backed
<1>2. CASE Admit \/ Refuse
  <2>1. step = "count" /\ made' = made
    BY <1>2 DEF Admit, Refuse, kube
  <2>2. run.sandbox
    BY <2>1 DEF Backed
  <2>3. Spent'
    BY <1>2 DEF Admit, Refuse, Goto, Return, Stop, Spent, Drains, Asks
  <2> QED
    BY <1>0, <1>2, <2>1, <2>2, <2>3, AdmissionEffects DEF Same, Becomes, Backed
<1>3. CASE Create
  <2>1. CASE UNCHANGED <<claim, made>>
    <3>1. run.sandbox /\ run' = run
      BY <1>3 DEF Create, Backed
    <3>2. Spent'
      BY <1>3, Ending DEF Create, Goto, Spent, Drains, Asks, Ends
    <3> QED
      BY <1>0, <2>1, <3>1, <3>2 DEF Backed
  <2> QED
    BY <1>3, <2>1, CreateLeft DEF Create
<1>4. CASE Record
  <2>1. made' = made /\ Ends
    BY <1>4, Ending DEF Record, kube
  <2>2. run'.sandbox
    BY <1>0, <1>4, <2>1 DEF Record, Runs, Backed
  <2>3. Spent'
    BY <2>1 DEF Ends, Spent
  <2> QED
    BY <1>0, <1>4, <2>1, <2>2, <2>3, AdmissionEffects DEF Same, Becomes, Backed
<1>5. CASE Drain
  <2>1. run.sandbox /\ UNCHANGED <<run, made>>
    BY <1>5 DEF Drain, Backed
  <2>2. Spent'
    BY <1>5, DrainLeaves DEF Leaky, Spent
  <2> QED
    BY <1>0, <2>1, <2>2 DEF Backed
<1>6. CASE Break
  <2>1. UNCHANGED <<run, made>> /\ step # "record" /\ step' = "watch"
    BY <1>6 DEF Break, Note, Leaky, Excused, Stop, kube
  <2> QED
    BY <1>0, <2>1 DEF Backed, Spent
<1>7. CASE Finish
  <2>1. step # "record" /\ made' = made
    BY <1>7 DEF Finish, Writes, Delete, Terminate, ClearRequest, WakeUp, Exhaust, Restart,
         Resume, Sweep, SyncRefs, Promote, Conclude, kube
  <2>2. run.sandbox
    BY <2>1 DEF Backed
  <2>3. ASSUME NEW j \in Drains \ {"paused"} PROVE ~Writes(j)
    BY <2>3 DEF Writes, Spent
  <2>4. CASE Delete \/ Terminate("cancelled") \/ Terminate("succeeded") \/ WakeUp \/ Sweep
    BY <2>3, <2>4 DEF Delete, Terminate, WakeUp, Sweep, Drains, Asks
  <2>5. CASE ClearRequest \/ Exhaust \/ Restart \/ Resume
    <3>1. ASSUME Resume PROVE Same
      <4>1. ~seen.sandbox
        BY <3>1 DEF Resume, Spent, Drains
      <4>2. run.phase # "paused"
        BY <2>2, <3>1, <4>1 DEF Resume, Note, Leaky, Excused
      <4>3. run' = run
        BY <3>1, <4>2 DEF Resume
      <4> QED
        BY <4>3 DEF Same, Becomes
    <3>2. Same
      BY <1>0, <2>3, <2>5, <3>1, StopEffects, GoOnEffects DEF Restart, Writes, Drains
    <3>3. Ends
      BY <2>5, Ending DEF ClearRequest, Exhaust, Restart, Resume
    <3> QED
      BY <1>0, <2>1, <2>2, <3>2, <3>3 DEF Same, Becomes, Backed, Spent, Ends
  <2>6. CASE SyncRefs
    <3>1. Spent'
      BY <2>6, Ending DEF SyncRefs, Doing, Goto, Spent, Drains, Asks, Ends
    <3> QED
      BY <1>0, <2>1, <2>2, <2>6, <3>1, AdmissionEffects DEF Same, Becomes, Backed
  <2>7. CASE \/ Promote \/ Conclude("succeed", "succeeded") \/ Conclude("fail", "failed")
             \/ Conclude("pause", "paused")
    <3>1. Ends
      BY <2>7, Ending DEF Promote, Conclude
    <3>2. run'.sandbox = run.sandbox /\ run'.attempt = run.attempt /\ run'.phase # "gone"
      BY <1>0, <2>7, GoOnEffects, StopEffects DEF Same, Becomes, Jobs, Phases, Ended
    <3> QED
      BY <1>0, <2>1, <2>2, <3>1, <3>2 DEF Backed, Spent, Ends
  <2> QED
    BY <1>7, <2>4, <2>5, <2>6, <2>7 DEF Finish
<1> QED
  BY <1>2, <1>3, <1>4, <1>5, <1>6, <1>7 DEF Working

(* So does everyone else, but for the retry of the parent.                 *)
LEMMA OutsideLeft ==
  ASSUME RunTypeOK, Backed, Spent, Provide \/ Others, ~Leaky', ~Idle'
  PROVE  Backed' /\ Spent'
<1>0. run \in Runs /\ UNCHANGED <<seen, step, job>>
  BY OutsideCall DEF RunTypeOK
<1>1. Spent'
  BY <1>0 DEF Spent
<1>2. made' = made
  BY DEF Provide, PodStarts, PodMoves, Collect, PodGoes, ClaimGoes, KubeQuiet, Delay, CatchUp,
     Others, RivalAdmitted, RivalEnds, WorkerWrites, OverseerReads, AskReads, OverseerWrites,
     ParentCancels, ParentRetries, Ask, AskMore, Outsider, kube
<1>3. ASSUME run'.sandbox = run.sandbox, run'.attempt = run.attempt, run'.phase # "gone"
      PROVE  Backed' /\ Spent'
  BY <1>0, <1>1, <1>2, <1>3 DEF Backed, Current
<1>4. CASE UNCHANGED run
  BY <1>3, <1>4 DEF Backed
<1>5. CASE WorkerWrites \/ OverseerWrites \/ ParentCancels
  <2>1. PICK ph \in Phases \ {"gone"} : WritePhase(ph)
    BY <1>5 DEF WorkerWrites, OverseerWrites, ParentCancels, RunTypeOK, Phases, Ended
  <2> QED
    BY <1>0, <1>3, <2>1, OutsideEffects
<1>6. ~ParentRetries
  BY DEF ParentRetries, Leaky, Excused, Outsider, kube, Idle
<1>7. CASE Ask \/ AskMore
  BY <1>0, <1>3, <1>7, OutsideEffects DEF Same, Becomes, Backed
<1> QED
  BY <1>1, <1>4, <1>5, <1>6, <1>7
     DEF Provide, PodStarts, PodMoves, Collect, PodGoes, ClaimGoes, KubeQuiet, Delay, CatchUp,
         Others, RivalAdmitted, RivalEnds, OverseerReads, AskReads

(* A pending run has no compute.                                           *)
LEMMA LeftInvInit == RunInit => LeftInv
BY TypeInit, SlotInvInit DEF SlotInv, RunInit, LeftInv, Doing, Idle

(* LeftInv is inductive.                                                   *)
LEMMA LeftInvStep == LeftInv /\ [RunNext]_runVars => LeftInv'
<1> SUFFICES ASSUME LeftInv, [RunNext]_runVars PROVE LeftInv'
  OBVIOUS
<1>1. RunTypeOK' /\ Tidy' /\ Doing'
  BY TypeStep, TidyStep, DoingStep DEF LeftInv
<1>2. Leaky' \/ Idle' \/ (Backed' /\ Spent')
  <2> SUFFICES ASSUME ~Leaky', ~Idle' PROVE Backed' /\ Spent'
    OBVIOUS
  <2>1. CASE UNCHANGED runVars
    BY <2>1
       DEF LeftInv, runVars, call, kube, Leaky, Excused, Idle, Backed, Spent, Current
  <2>2. CASE RunNext /\ ~Leaky
    <3>1. CASE Idle
      <4>1. Create /\ claim = "none" /\ claim' = "new"
        BY <2>2, <3>1, IdleStays
      <4> QED
        BY <4>1, CreateLeft DEF LeftInv
    <3>2. CASE ~Idle
      BY <2>2, <3>2, Split, DispatchLeft, WorkingLeft, OutsideLeft DEF LeftInv
    <3> QED
      BY <3>1, <3>2
  <2> QED
    BY <2>1, <2>2, Repaired
<1> QED
  BY <1>1, <1>2 DEF LeftInv

(* No pod outlives its attempt: OneWorkerAtATime for every capacity and    *)
(* any number of requests, failures and stale reads.                       *)
THEOREM WorkersEndWithTheirAttempt == RunSpec => []OneWorkerAtATime
<1>1. LeftInv => OneWorkerAtATime
  BY DEF LeftInv, Leaky, Idle, Backed, OneWorkerAtATime
<1> QED
  BY LeftInvInit, LeftInvStep, <1>1, PTL DEF RunSpec

(* No stopped run leaves compute that its object does not name:            *)
(* NothingLeftBehind, likewise.                                            *)
THEOREM ComputeStaysOnRecord == RunSpec => []NothingLeftBehind
<1>1. LeftInv => NothingLeftBehind
  BY DEF LeftInv, Leaky, Idle, Backed, NothingLeftBehind
<1> QED
  BY LeftInvInit, LeftInvStep, <1>1, PTL DEF RunSpec

(* The run is over, or someone overruled the controller. *)
Over == Excused("overruled") \/ run.phase \in Ended \cup {"gone"}

(* The inductive invariant behind StopsAreNotDropped: a request is cleared *)
(* when the run is over, or when the copy of the pass showed it on a run   *)
(* that was.                                                               *)
AskInv ==
  /\ RunTypeOK /\ Tidy
  /\ step = "clear" => Over \/ (seen.phase \in Ended /\ job \in seen.asked)

(* Only a wake makes a run go on.                                          *)
LEMMA OverStays ==
  ASSUME RunTypeOK, Tidy, Over, [RunNext]_runVars, ~WakeUp
  PROVE  Over'
<1>1. CASE Excused("overruled")
  BY <1>1, FlawsStay DEF Over, Excused
<1>2. CASE run.phase \in Ended
  BY <1>2, WokenStep DEF Over, Excused
<1>3. CASE run.phase = "gone"
  BY <1>3, GoneStays DEF Over
<1> QED
  BY <1>1, <1>2, <1>3 DEF Over

(* AskInv is inductive.                                                    *)
LEMMA AskInvStep == AskInv /\ [RunNext]_runVars => AskInv'
<1> SUFFICES ASSUME AskInv, [RunNext]_runVars, step' = "clear"
             PROVE  Over' \/ (seen'.phase \in Ended /\ job' \in seen'.asked)
  BY TypeStep, TidyStep DEF AskInv
<1>1. CASE Dispatch
  BY <1>1, Started
<1>2. CASE Working
  <2>1. Terminate("cancelled") \/ Terminate("succeeded")
    BY <1>2, WorkingGoesOn
  <2> QED
    BY <2>1, StopEffects DEF AskInv, RunTypeOK, Over
<1>3. CASE Provide \/ Others \/ UNCHANGED runVars
  <2>1. UNCHANGED <<seen, step, job>>
    BY <1>3, OutsideCall DEF runVars, call
  <2>2. ~WakeUp
    BY <2>1 DEF WakeUp, Writes
  <2> QED
    BY <2>1, <2>2, OverStays DEF AskInv
<1> QED
  BY <1>1, <1>2, <1>3, Split

(* Only the end of a stop and a deletion take a request off the object.    *)
LEMMA AskedStays ==
  ASSUME run \in Runs, [RunNext]_runVars
  PROVE  run.asked \subseteq run'.asked \/ Delete \/ ClearRequest
<1>1. CASE Admit \/ Refuse \/ Record \/ SyncRefs
  BY <1>1 DEF Admit, Refuse, Record, SyncRefs, Runs
<1>2. CASE Terminate("cancelled") \/ Terminate("succeeded") \/ Sweep
  BY <1>2 DEF Terminate, Sweep, Runs
<1>3. CASE WakeUp \/ Exhaust \/ Restart
  BY <1>3 DEF WakeUp, Exhaust, Restart, Reset, Runs
<1>4. CASE Resume \/ Promote
  BY <1>4 DEF Resume, Promote, Runs
<1>5. CASE \/ Conclude("succeed", "succeeded") \/ Conclude("fail", "failed")
           \/ Conclude("pause", "paused")
  BY <1>5 DEF Conclude, Runs
<1>6. CASE WorkerWrites \/ OverseerWrites \/ ParentCancels
  <2>1. PICK ph : WritePhase(ph)
    BY <1>6 DEF WorkerWrites, OverseerWrites, ParentCancels
  <2> QED
    BY <2>1 DEF WritePhase, Runs
<1>7. CASE ParentRetries \/ AskMore
  BY <1>7 DEF ParentRetries, AskMore, Runs
<1>8. CASE Ask
  <2>1. PICK ask : run' = [run EXCEPT !.asked = @ \cup {ask}]
    BY <1>8 DEF Ask
  <2> QED
    BY <2>1 DEF Runs
<1>9. CASE UNCHANGED run
  BY <1>9
<1> QED
  BY <1>1, <1>2, <1>3, <1>4, <1>5, <1>6, <1>7, <1>8, <1>9
     DEF RunNext, Reconcile, Finish, Dispatch, Create, Drain, Break, Provide, PodStarts,
         PodMoves, Collect, PodGoes, ClaimGoes, KubeQuiet, Delay, CatchUp, Others, RivalAdmitted,
         RivalEnds, OverseerReads, AskReads, runVars

(* A request is forgotten only by a run that is over, or by a pass whose   *)
(* copy showed it on a run that was: StopsAreNotDropped, for any number of *)
(* failed reconciles, wakes and restarts and any delay of the cache.       *)
THEOREM RequestsAreKept == RunSpec => StopsAreNotDropped
<1>1. RunInit => AskInv
  BY TypeInit, SlotInvInit DEF SlotInv, RunInit, AskInv
<1>2. ASSUME AskInv, [RunNext]_runVars
      PROVE  \/ run.asked \subseteq run'.asked \cup Settled
             \/ run.phase \in Ended \/ run'.phase = "gone" \/ Excused("overruled")
  <2>1. CASE Delete
    BY <1>2, <2>1, StopEffects DEF AskInv, RunTypeOK
  <2>2. CASE ClearRequest
    <3>1. step = "clear" /\ run'.asked = run.asked \ {job}
      BY <2>2 DEF ClearRequest, AskInv, RunTypeOK, Runs
    <3>2. run.phase # "gone"
      BY <1>2, <3>1 DEF AskInv, Tidy
    <3>3. CASE Over
      BY <3>2, <3>3 DEF Over
    <3>4. CASE seen.phase \in Ended /\ job \in seen.asked
      BY <3>1, <3>4 DEF Settled
    <3> QED
      BY <1>2, <3>1, <3>3, <3>4 DEF AskInv
  <2> QED
    BY <1>2, <2>1, <2>2, AskedStays DEF AskInv, RunTypeOK
<1>3. AskInv /\ [RunNext]_runVars
      => [\/ run.asked \subseteq run'.asked \cup Settled
          \/ run.phase \in Ended \/ run'.phase = "gone" \/ Excused("overruled")]_runVars
  BY <1>2
<1> QED
  BY <1>1, AskInvStep, <1>3, PTL DEF RunSpec, StopsAreNotDropped

(* A run is deleted because that was asked for, and no claim is of an      *)
(* attempt still to come.                                                  *)
Doom ==
  /\ job = "gone" => "gone" \in run.asked /\ step # "clear"
  /\ \A c \in Copies : "gone" \in c.asked => "gone" \in run.asked \/ run.phase = "gone"
  /\ made <= run.attempt

(* Doom is inductive.                                                      *)
LEMMA DoomStep ==
  ASSUME RunTypeOK, Tidy, Doom, [RunNext]_runVars
  PROVE  Doom'
<1>0. run \in Runs /\ {made, seen.attempt, run.attempt} \subseteq Nat
  BY FieldsTyped DEF RunTypeOK
<1>1. made' <= run'.attempt
  <2>1. made' = made \/ made' = seen.attempt
    BY DEF RunNext, Reconcile, Finish, Dispatch, Admit, Refuse, Record, Create, Drain, Writes,
       Delete, Terminate, ClearRequest, WakeUp, Exhaust, Restart, Resume, Sweep, SyncRefs, Promote,
       Conclude, Break, Provide, PodStarts, PodMoves, Collect, PodGoes, ClaimGoes, KubeQuiet,
       Delay, CatchUp, Others, RivalAdmitted, RivalEnds, WorkerWrites, OverseerReads, AskReads,
       OverseerWrites, ParentCancels, ParentRetries, Ask, AskMore, Outsider, kube, runVars
  <2>2. made <= run.attempt /\ seen.attempt <= run.attempt
    BY DEF Doom, Tidy
  <2> QED
    BY <1>0, <2>1, <2>2, AttemptGrows
<1>2. "gone" \in run.asked => "gone" \in run'.asked \/ Delete
  BY <1>0, AskedStays DEF ClearRequest, Doom, Runs
<1>3. \A c \in Copies' : "gone" \in c.asked => "gone" \in run'.asked \/ run'.phase = "gone"
  <2> SUFFICES ASSUME NEW c \in Copies', "gone" \in c.asked
               PROVE  "gone" \in run'.asked \/ run'.phase = "gone"
    OBVIOUS
  <2>1. CASE c = run /\ run' = run
    BY <2>1
  <2>2. CASE c \in Copies
    <3>1. "gone" \in run.asked \/ run.phase = "gone"
      BY <2>2 DEF Doom
    <3>2. Delete => run'.phase = "gone"
      BY <1>0, StopEffects
    <3> QED
      BY <1>2, <3>1, <3>2, GoneStays
  <2> QED
    BY <2>1, <2>2, CopyStep
<1>4. job' = "gone" => "gone" \in run'.asked /\ step' # "clear"
  <2>1. CASE Dispatch
    <3>1. run' = run /\ run.phase # "gone" /\ (seen' \in lag \/ seen' = run)
          /\ (job' = "gone" => "gone" \in seen'.asked /\ step' # "clear")
      BY <2>1, Started DEF Cached
    <3> QED
      BY <3>1 DEF Doom, Copies
  <2>2. CASE Working
    <3> SUFFICES ASSUME job' = "gone" PROVE "gone" \in run'.asked /\ step' # "clear"
      OBVIOUS
    <3>1. job = "gone" /\ step' # "watch"
      BY <2>2, CallEffects DEF Ends, GoesOn
    <3>2. ~Delete
      BY <3>1, Ending DEF Delete, Ends
    <3>3. step' # "clear"
      BY <2>2, <3>1, WorkingGoesOn DEF Terminate, Goto
    <3> QED
      BY <1>2, <3>1, <3>2, <3>3 DEF Doom
  <2>3. CASE Provide \/ Others \/ UNCHANGED runVars
    <3>1. UNCHANGED <<seen, step, job>>
      BY <2>3, OutsideCall DEF runVars, call
    <3>2. ~Delete
      BY <3>1, Ending DEF Delete, Writes, Ends
    <3> QED
      BY <1>2, <3>1, <3>2 DEF Doom
  <2> QED
    BY <2>1, <2>2, <2>3, Split
<1> QED
  BY <1>1, <1>3, <1>4 DEF Doom

(* What RunLife has noted was noted before, or is asked of an ended run.   *)
LEMMA NotedStep ==
  ASSUME Doing, [RunNext]_runVars
  PROVE  Promised!Noted
<1> SUFFICES ASSUME NEW ask \in NotedAsked'
             PROVE  ask \in NotedAsked \/ (Life = "ended" /\ ask \in run.asked)
  BY DEF Promised!Noted
<1>1. ASSUME NEW c \in lag \cup {run}, c.phase \in Ended, ask \in c.asked
      PROVE  ask \in NotedAsked \/ (Life = "ended" /\ ask \in run.asked)
  BY <1>1 DEF NotedAsked, Life
<1>2. CASE \E c \in lag' : c.phase \in Ended /\ ask \in c.asked
  <2>1. lag' \subseteq lag \cup {run}
    BY DEF RunNext, Reconcile, Dispatch, Unseen, Admit, Refuse, Create, Record, Drain, Break,
       Finish, Writes, Delete, Terminate, ClearRequest, WakeUp, Exhaust, Restart, Resume, Sweep,
       SyncRefs, Promote, Conclude, Provide, PodStarts, PodMoves, Collect, PodGoes, ClaimGoes,
       KubeQuiet, Delay, CatchUp, Others, RivalAdmitted, RivalEnds, WorkerWrites, OverseerReads,
       AskReads, OverseerWrites, ParentCancels, ParentRetries, Ask, AskMore, Outsider, runVars
  <2> QED
    BY <1>1, <1>2, <2>1
<1>3. CASE ask \in Settled'
  <2>1. step' = "clear" /\ seen'.phase \in Ended /\ ask = job' /\ ask \in seen'.asked
    BY <1>3 DEF Settled
  <2>2. CASE Dispatch
    BY <1>1, <2>1, <2>2, Started DEF Cached
  <2>3. ~Working
    BY <2>1, WorkingGoesOn DEF Terminate, Writes, Doing
  <2>4. CASE Provide \/ Others \/ UNCHANGED runVars
    <3>1. UNCHANGED <<seen, step, job>>
      BY <2>4, OutsideCall DEF runVars, call
    <3> QED
      BY <2>1, <3>1 DEF NotedAsked, Settled
  <2> QED
    BY <2>2, <2>3, <2>4, Split
<1> QED
  BY <1>2, <1>3 DEF NotedAsked

(* The excuses as RunLife knows them.                                      *)
LEMMA Knowing ==
  /\ excused' = excused => Known' = Known
  /\ excused \subseteq excused' => Known \subseteq Known'
  /\ "leaky" \in Known <=> Leaky
  /\ "leaky" \in Known' <=> Leaky'
  /\ "overruled" \in Known <=> Excused("overruled")
  /\ "overruled" \in Known' <=> Excused("overruled")'
BY DEF Known, Leaky, Excused

(* Neither the attempt, nor who works on it, nor an excuse changes.        *)
Quiet == run'.attempt = run.attempt /\ AtWork' = AtWork /\ excused' = excused

SameWishes == run'.asked = run.asked /\ run'.wake = run.wake

(* A step that no part of RunLife but its notes can tell from standing     *)
(* still.                                                                  *)
LEMMA UnmovedStep ==
  ASSUME Life' = Life, SameWishes, Quiet, OnHand' = OnHand
  PROVE  Promised!Act
BY Knowing
   DEF Quiet, SameWishes, Promised!Act, Promised!Slip, Promised!Worsen, Promised!wishes,
   Promised!work

(* Nobody is at work on what is off the record, unless an excuse applies.  *)
LEMMA Released ==
  ASSUME LeftInv', AtWork' = AtWork, OnHand' = "free" \/ run'.phase = "gone"
  PROVE  Promised!Nobody
<1>1. Leaky' \/ pod' = "none"
  BY DEF LeftInv, Idle, Backed, OnHand
<1> QED
  BY <1>1, Knowing DEF Promised!Nobody, AtWork

(* A worker goes on record.                                                *)
LEMMA KeepStep ==
  ASSUME Life # "gone", Life' = Life, SameWishes, run'.attempt = run.attempt, AtWork' = AtWork,
         OnHand' = "held", excused \subseteq excused'
  PROVE  Promised!Keep
BY Knowing DEF Promised!Keep, Promised!Worsen, Promised!wishes, SameWishes

(* The record is freed: LeftInv says that nobody is at work by now.        *)
LEMMA GiveUpStep ==
  ASSUME LeftInv', Life' = Life, SameWishes, run'.attempt = run.attempt, OnHand' = "free",
         AtWork' = AtWork, excused \subseteq excused'
  PROVE  Promised!GiveUp
BY Released, Knowing
   DEF Promised!GiveUp, Promised!Frees, Promised!Worsen, Promised!wishes, SameWishes

(* An attempt begins with a free record.                                   *)
LEMMA BeginStep ==
  ASSUME LeftInv', Life # "gone", Life' = "open", run'.asked = run.asked,
         run'.wake \in {run.wake, FALSE}, Life = "ended" => run.wake = TRUE /\ run'.wake = FALSE,
         run'.attempt = run.attempt + 1, OnHand' = "free", AtWork' = AtWork,
         excused \subseteq excused'
  PROVE  Promised!Begin
BY Released, Knowing DEF Promised!Begin, Promised!Frees, Promised!Worsen, Promised!Unwake

(* An open run ends.                                                       *)
LEMMA EndStep ==
  ASSUME Life = "open", Life' = "ended", run'.asked = run.asked,
         run'.wake \in {run.wake, FALSE}, Quiet,
         OnHand' = OnHand \/ (LeftInv' /\ OnHand' = "free")
  PROVE  Promised!End
BY Released, Knowing DEF Promised!End, Promised!Frees, Promised!Unwake, Quiet

(* Requests are forgotten.                                                 *)
LEMMA SettleStep ==
  ASSUME Life = "ended" \/ Excused("overruled") \/ run.asked \subseteq run'.asked \cup NotedAsked,
         Life' = Life, run'.asked \subseteq run.asked,
         run'.wake \in {run.wake, FALSE}, Quiet, OnHand' = OnHand
  PROVE  Promised!Settle
BY Knowing DEF Promised!Settle, Promised!Unwake, Promised!work, Quiet

(* An ended run is revived by others.                                      *)
LEMMA ReviveStep ==
  ASSUME Life = "ended", Life' = "open", SameWishes, run'.attempt = run.attempt,
         OnHand' = OnHand \/ (LeftInv' /\ OnHand' = "free"), AtWork' = AtWork,
         Excused("overruled")', excused \subseteq excused'
  PROVE  Promised!Revive
BY Released, Knowing
   DEF Promised!Revive, Promised!Frees, Promised!Worsen, Promised!wishes, SameWishes

(* Only the excuses change.                                                *)
LEMMA SlipStep ==
  ASSUME Life' = Life, SameWishes, run'.attempt = run.attempt, OnHand' = OnHand,
         AtWork' = AtWork, excused \subseteq excused'
  PROVE  Promised!Slip
BY Knowing DEF Promised!Slip, Promised!Worsen, Promised!wishes, Promised!work, SameWishes

(* The wishes that a step leaves.                                          *)
LEMMA Wishes ==
  ASSUME run \in Runs
  PROVE  /\ Admit \/ Refuse \/ Record \/ SyncRefs => SameWishes
         /\ Sweep \/ Restart \/ Resume \/ Promote => SameWishes
         /\ \A j, ph : Conclude(j, ph) => SameWishes
         /\ \A ph : Terminate(ph) =>
              run'.asked = run.asked /\ run'.wake \in {run.wake, FALSE}
              /\ (run.phase \in Ended => run'.wake = run.wake)
         /\ WakeUp => run'.asked = run.asked
                      /\ (run'.wake = run.wake \/ (run.wake = TRUE /\ run'.wake = FALSE))
         /\ Exhaust => \/ SameWishes
                       \/ run.phase = "failed" /\ run'.asked = run.asked /\ run'.wake = FALSE
         /\ ClearRequest => run'.asked \subseteq run.asked /\ run'.wake = run.wake
         /\ \A ph : WritePhase(ph) => SameWishes
         /\ ParentRetries => SameWishes
<1>1. Admit \/ Refuse \/ Record \/ SyncRefs => SameWishes
  BY DEF Admit, Refuse, Record, SyncRefs, SameWishes, Runs
<1>2. Sweep \/ Restart \/ Resume \/ Promote => SameWishes
  BY DEF Sweep, Restart, Reset, Resume, Promote, SameWishes, Runs
<1>3. \A j, ph : Conclude(j, ph) => SameWishes
  BY DEF Conclude, SameWishes, Runs
<1>4. ASSUME NEW ph, Terminate(ph)
      PROVE  run'.asked = run.asked /\ run'.wake \in {run.wake, FALSE}
             /\ (run.phase \in Ended => run'.wake = run.wake)
  BY <1>4 DEF Terminate, Runs
<1>5. WakeUp => run'.asked = run.asked
                /\ (run'.wake = run.wake \/ (run.wake = TRUE /\ run'.wake = FALSE))
  <2>1. CASE run.wake /\ Stopped(run)
    BY <2>1, FieldsTyped DEF WakeUp, Reset, Runs
  <2>2. CASE ~(run.wake /\ Stopped(run))
    <3>1. WakeUp => run' = run
      BY <2>2 DEF WakeUp
    <3> QED
      BY <3>1
  <2> QED
    BY <2>1, <2>2
<1>6. Exhaust => \/ SameWishes
                 \/ run.phase = "failed" /\ run'.asked = run.asked /\ run'.wake = FALSE
  BY DEF Exhaust, SameWishes, Runs
<1>7. ClearRequest => run'.asked \subseteq run.asked /\ run'.wake = run.wake
  BY DEF ClearRequest, Runs
<1>8. \A ph : WritePhase(ph) => SameWishes
  BY DEF WritePhase, SameWishes, Runs
<1>9. ParentRetries => SameWishes
  BY DEF ParentRetries, SameWishes, Runs
<1> QED
  BY <1>1, <1>2, <1>3, <1>4, <1>5, <1>6, <1>7, <1>8, <1>9

(* The inductive invariant behind the refinement, at both ends of a step.  *)
LifeInv == LeftInv /\ AskInv /\ Doom

(* Nothing that a reconcile writes touches compute or takes back an        *)
(* excuse, and it holds a claim only between Create and Record.                           *)
LEMMA WritesQuietly ==
  ASSUME Refuse \/ Record \/ Finish
  PROVE  AtWork' = AtWork /\ excused \subseteq excused' /\ step' # "record"
         /\ (Finish => step # "record") /\ step # "watch"
<1>1. AtWork' = AtWork /\ excused \subseteq excused'
  BY DEF Refuse, Record, Finish, Writes, Delete, Terminate, ClearRequest, WakeUp, Exhaust,
         Restart, Resume, Sweep, SyncRefs, Promote, Conclude, Note, kube, AtWork
<1>2. step' # "record"
  BY DEF Refuse, Record, Finish, Writes, Delete, Terminate, ClearRequest, WakeUp, Exhaust,
         Restart, Resume, Sweep, SyncRefs, Promote, Conclude, Goto, Return, Stop
<1>3. (Finish => step # "record") /\ step # "watch"
  BY DEF Refuse, Record, Finish, Writes, Delete, Terminate, ClearRequest, WakeUp, Exhaust,
         Restart, Resume, Sweep, SyncRefs, Promote, Conclude
<1> QED
  BY <1>1, <1>2, <1>3

(* Admission and provisioning.                                             *)
LEMMA AdmissionMaps ==
  ASSUME LifeInv, LifeInv', Dispatch \/ Admit \/ Refuse \/ Record \/ Create
  PROVE  Promised!Act
<1>0. run \in Runs /\ (run.phase = "gone" => step = "watch")
  BY DEF LifeInv, LeftInv, RunTypeOK, Tidy
<1>1. CASE Dispatch
  <2>1. run' = run /\ step' # "record" /\ step # "record" /\ AtWork' = AtWork /\ excused' = excused
    BY <1>1, Started DEF Dispatch, kube, AtWork
  <2> QED
    BY <2>1, UnmovedStep DEF Life, SameWishes, Quiet, OnHand
<1>2. CASE Admit
  <2>1. step = "count" /\ step' = "create" /\ AtWork' = AtWork /\ excused \subseteq excused'
    BY <1>2 DEF Admit, Goto, Note, kube, AtWork
  <2>2. run'.phase = run.phase /\ run'.sandbox = run.sandbox /\ run'.attempt = run.attempt
        /\ SameWishes
    BY <1>0, <1>2, AdmissionEffects, Wishes DEF Same, Becomes
  <2>3. Promised!Slip
    BY <2>1, <2>2, SlipStep DEF Life, OnHand
  <2> QED
    BY <2>3 DEF Promised!Act
<1>3. CASE Refuse
  <2>1. step = "count" /\ excused' = excused
    BY <1>3 DEF Refuse
  <2>2. \/ Same
        \/ ~Stopped(run) /\ Becomes("pending", "other", run.sandbox, run.attempt)
    BY <1>0, <1>3, AdmissionEffects
  <2>3. Life' = Life /\ OnHand' = OnHand
    BY <1>0, <1>3, <2>1, <2>2, WritesQuietly DEF Same, Becomes, Stopped, Life, OnHand, Ended
  <2> QED
    BY <1>0, <1>3, <2>1, <2>2, <2>3, Wishes, WritesQuietly, UnmovedStep DEF Same, Becomes, Quiet
<1>4. CASE Record
  <2>1. step = "record" /\ excused' = excused /\ (~Current => run' = run)
    BY <1>4 DEF Record
  <2>2. run'.sandbox = TRUE \/ run' = run
    BY <1>0, <1>4, <2>1 DEF Record, Runs
  <2>3. run'.attempt = run.attempt
        /\ (run'.phase = run.phase \/ (~Stopped(run) /\ run'.phase = "admitted"))
    BY <1>0, <1>4, AdmissionEffects DEF Same, Becomes
  <2>4. Life' = Life /\ (OnHand' = OnHand \/ OnHand' = "free")
    BY <1>0, <2>1, <2>2, <2>3 DEF Stopped, Life, OnHand, Ended
  <2>5. CASE OnHand' = OnHand
    BY <1>0, <1>4, <2>1, <2>3, <2>4, <2>5, Wishes, WritesQuietly, UnmovedStep DEF Quiet
  <2>6. CASE OnHand' = "free"
    <3>1. Promised!GiveUp
      BY <1>0, <1>4, <2>1, <2>3, <2>4, <2>6, Wishes, WritesQuietly, GiveUpStep DEF LifeInv
    <3> QED
      BY <3>1 DEF Promised!Act
  <2> QED
    BY <2>4, <2>5, <2>6
<1>5. CASE Create
  <2>1. run' = run /\ pod' = pod /\ step = "create" /\ Life # "gone" /\ Life' = Life /\ SameWishes
    BY <1>0, <1>5 DEF Create, Life, Ended, SameWishes
  <2>2. CASE step' # "record"
    <3>1. made' = made /\ excused' = excused
      BY <1>5, <2>2 DEF Create, Goto
    <3> QED
      BY <2>1, <2>2, <3>1, UnmovedStep DEF Quiet, OnHand, AtWork
  <2>3. CASE step' = "record"
    <3>1. \/ made' = made /\ excused \subseteq excused'
          \/ made' = seen.attempt /\ Note("unrecorded", ~Current)
      BY <1>5, <2>3 DEF Create, Note
    <3>2. excused \subseteq excused'
      BY <3>1 DEF Note
    <3>3. CASE AtWork' = AtWork
      <4>1. Promised!Keep
        BY <2>1, <2>3, <3>2, <3>3, KeepStep DEF OnHand
      <4> QED
        BY <4>1 DEF Promised!Act
    <3>4. CASE AtWork' # AtWork
      <4>1. pod # "none" /\ AtWork' = {seen.attempt} /\ made # seen.attempt
            /\ Note("unrecorded", ~Current)
        BY <2>1, <3>1, <3>4 DEF AtWork
      <4>3. "leaky" \in Known'
        <5>1. Leaky'
          <6>1. CASE Current
            BY <3>2, <4>1, <6>1 DEF LifeInv, LeftInv, Idle, Backed, Current, Leaky, Excused
          <6>2. CASE ~Current
            BY <4>1, <6>2 DEF Note, Leaky, Excused
          <6> QED
            BY <6>1, <6>2
        <5> QED
          BY <5>1, Knowing
      <4>4. seen.attempt \in 0..run.attempt
        BY FieldsTyped DEF LifeInv, LeftInv, Tidy, RunTypeOK
      <4>5. Promised!Keep
        BY <2>1, <2>3, <3>2, <4>1, <4>3, <4>4, Knowing
           DEF Promised!Keep, Promised!Worsen, Promised!wishes, SameWishes, OnHand
      <4> QED
        BY <4>5 DEF Promised!Act
    <3> QED
      BY <3>3, <3>4
  <2> QED
    BY <2>2, <2>3
<1> QED
  BY <1>1, <1>2, <1>3, <1>4, <1>5

(* Drains and broken passes.                                               *)
LEMMA DrainMaps ==
  ASSUME LifeInv, LifeInv', Drain \/ Break
  PROVE  Promised!Act
<1>1. run' = run /\ made' = made /\ step' # "record"
  BY Ending DEF Drain, Drained, Break, Goto, Ends, kube
<1>2. CASE Drain
  <2>1. OnHand' = OnHand
    BY <1>1, <1>2 DEF Drain, OnHand
  <2>2. CASE AtWork' # AtWork
    <3>1. pod' = "none" /\ excused' = excused
      BY <1>1, <1>2, <2>2 DEF Drain, PodSeen, AtWork
    <3>2. Promised!Leave
      BY <1>1, <2>1, <3>1, Knowing DEF Promised!Leave, Promised!wishes, AtWork, Life
    <3> QED
      BY <3>2 DEF Promised!Act
  <2>3. CASE AtWork' = AtWork /\ excused \subseteq excused'
    <3>1. Promised!Slip
      BY <1>1, <2>1, <2>3, SlipStep DEF Life, SameWishes
    <3> QED
      BY <3>1 DEF Promised!Act
  <2>4. CASE ~(excused \subseteq excused')
    <3>1. pod = "none" /\ pod' = "none" /\ excused' = excused \ {"missed", "unrecorded"}
      BY <1>2, <2>4 DEF Drain, Note
    <3>2. Known' = Known \ {"leaky"}
      BY <3>1 DEF Known, Leaky, Excused
    <3>3. Promised!Mend
      BY <1>1, <2>1, <3>1, <3>2 DEF Promised!Mend, Promised!wishes, Promised!work, AtWork, Life
    <3> QED
      BY <3>3 DEF Promised!Act
  <2> QED
    BY <2>2, <2>3, <2>4
<1>3. CASE Break
  <2>1. AtWork' = AtWork /\ excused \subseteq excused' /\ Life' = Life /\ SameWishes
    BY <1>1, <1>3 DEF Break, Note, kube, AtWork, Life, SameWishes
  <2>2. OnHand' = OnHand \/ OnHand' = "free"
    BY <1>1 DEF OnHand
  <2>3. Promised!Slip \/ Promised!GiveUp
    BY <1>1, <2>1, <2>2, SlipStep, GiveUpStep DEF LifeInv
  <2> QED
    BY <2>3 DEF Promised!Act
<1> QED
  BY <1>2, <1>3

(* A write that drops the sandbox, or changes nothing.                     *)
LEMMA DropMaps ==
  ASSUME LifeInv', step # "record", step' # "record", AtWork' = AtWork, excused \subseteq excused',
         SameWishes, run'.attempt = run.attempt, Life' = Life,
         run'.sandbox \in {run.sandbox, FALSE}
  PROVE  Promised!Act
<1>1. CASE run'.sandbox = run.sandbox
  <2>1. Promised!Slip
    BY <1>1, SlipStep DEF OnHand
  <2> QED
    BY <2>1 DEF Promised!Act
<1>2. CASE run'.sandbox = FALSE
  <2>1. Promised!GiveUp
    BY <1>2, GiveUpStep DEF OnHand, LifeInv
  <2> QED
    BY <2>1 DEF Promised!Act
<1> QED
  BY <1>1, <1>2

(* A write that begins an attempt.                                         *)
LEMMA RenewalMaps ==
  ASSUME LifeInv', step # "record", step' # "record", AtWork' = AtWork, excused \subseteq excused',
         run.phase # "gone", run'.phase \notin Ended \cup {"gone"}, ~run'.sandbox,
         run'.attempt = run.attempt + 1, run'.asked = run.asked,
         \/ run'.wake = run.wake /\ run.phase \notin Ended
         \/ run.wake = TRUE /\ run'.wake = FALSE
  PROVE  Promised!Act
<1>1. Life # "gone" /\ Life' = "open" /\ OnHand' = "free" /\ (Life = "ended" => run.phase \in Ended)
  BY DEF Life, OnHand
<1>2. Promised!Begin
  BY <1>1, BeginStep DEF LifeInv
<1> QED
  BY <1>2 DEF Promised!Act

(* The writes of a reconcile that end or delete the run.                   *)
LEMMA EndingMaps ==
  ASSUME LifeInv, LifeInv',
         \/ Delete \/ Terminate("cancelled") \/ Terminate("succeeded") \/ ClearRequest \/ Sweep
         \/ Conclude("succeed", "succeeded") \/ Conclude("fail", "failed") \/ Conclude("pause", "paused")
  PROVE  Promised!Act
<1>0. /\ run \in Runs /\ run.phase # "gone" /\ step # "record" /\ step' # "record"
      /\ AtWork' = AtWork /\ excused' = excused
  <2>1. excused' = excused
    BY DEF Delete, Terminate, ClearRequest, Sweep, Conclude, Writes
  <2> QED
    BY <2>1, WritesQuietly DEF LifeInv, LeftInv, RunTypeOK, Tidy, Finish
<1>1. CASE Delete
  <2>1. "gone" \in run.asked /\ step = "write"
    BY <1>1 DEF Delete, Writes, LifeInv, Doom
  <2>2. run' = [run EXCEPT !.phase = "gone", !.asked = {}]
    BY <1>1 DEF Delete
  <2>3. /\ run'.phase = "gone" /\ run'.asked = {} /\ run'.wake = run.wake
        /\ run'.attempt = run.attempt /\ run'.sandbox = run.sandbox
    BY <1>0, <2>2 DEF Runs
  <2>4. Life' = "gone" /\ OnHand' = OnHand
    BY <1>0, <2>3 DEF Life, OnHand, Ended
  <2>5. Promised!Nobody /\ Known' = Known
    BY <1>0, <2>3, Released, Knowing DEF LifeInv
  <2>6. Promised!Delete
    BY <1>0, <2>1, <2>3, <2>4, <2>5 DEF Promised!Delete, Promised!work
  <2> QED
    BY <2>6 DEF Promised!Act
<1>2. ASSUME NEW ph \in {"cancelled", "succeeded"}, Terminate(ph)
      PROVE  Promised!Act
  <2>1. /\ run'.phase \in Ended /\ run'.sandbox = FALSE /\ run'.attempt = run.attempt
        /\ (run.phase \in Ended => run'.phase = run.phase)
        /\ run'.asked = run.asked /\ run'.wake \in {run.wake, FALSE}
        /\ (run.phase \in Ended => run'.wake = run.wake)
    BY <1>0, <1>2, StopEffects, Wishes
  <2>2. OnHand' = "free" /\ Life' = "ended" /\ Life = IF run.phase \in Ended THEN "ended" ELSE "open"
    BY <1>0, <2>1 DEF OnHand, Life
  <2>3. CASE run.phase \in Ended
    <3>1. Promised!GiveUp
      BY <1>0, <2>1, <2>2, <2>3, GiveUpStep DEF LifeInv, SameWishes
    <3> QED
      BY <3>1 DEF Promised!Act
  <2>4. CASE run.phase \notin Ended
    <3>1. Promised!End
      BY <1>0, <2>1, <2>2, <2>4, EndStep DEF LifeInv, Quiet
    <3> QED
      BY <3>1 DEF Promised!Act
  <2> QED
    BY <2>3, <2>4
<1>3. CASE ClearRequest
  <2>1. Same /\ run'.asked \subseteq run.asked /\ run'.wake = run.wake
    BY <1>0, <1>3, StopEffects, Wishes
  <2>2. Life' = Life /\ OnHand' = OnHand
    BY <1>0, <2>1 DEF Same, Becomes, Life, OnHand
  <2>3. Life = "ended" \/ Excused("overruled") \/ run.asked \subseteq run'.asked \cup NotedAsked
    <3>1. step = "clear" /\ run'.asked = run.asked \ {job}
      BY <1>0, <1>3 DEF ClearRequest, Runs
    <3>2. CASE Over
      BY <1>0, <3>2 DEF Over, Life
    <3>3. CASE seen.phase \in Ended /\ job \in seen.asked
      BY <3>1, <3>3 DEF NotedAsked, Settled
    <3> QED
      BY <3>1, <3>2, <3>3 DEF LifeInv, AskInv
  <2>4. Promised!Settle
    BY <1>0, <2>1, <2>2, <2>3, SettleStep DEF Same, Becomes, Quiet
  <2> QED
    BY <2>4 DEF Promised!Act
<1>4. CASE Sweep
  <2>1. Same \/ Becomes(run.phase, run.queue, FALSE, run.attempt)
    BY <1>0, <1>4, StopEffects
  <2>2. SameWishes
    BY <1>0, <1>4, Wishes
  <2> QED
    BY <1>0, <2>1, <2>2, DropMaps DEF Same, Becomes, Life
<1>5. ASSUME NEW j \in Jobs, NEW ph \in {"succeeded", "failed", "paused"}, Conclude(j, ph)
      PROVE  Promised!Act
  <2>1. \/ Same
        \/ Current /\ ~Stopped(run) /\ Becomes(ph, "other", run.sandbox, run.attempt)
    BY <1>0, <1>5, StopEffects DEF Phases, Ended
  <2>2. SameWishes
    BY <1>0, <1>5, Wishes
  <2>3. run'.attempt = run.attempt /\ run'.sandbox = run.sandbox /\ OnHand' = OnHand
    BY <1>0, <2>1 DEF Same, Becomes, OnHand
  <2>4. CASE Life' = Life
    BY <1>0, <2>2, <2>3, <2>4, DropMaps
  <2>5. CASE Life' # Life
    <3>1. Life = "open" /\ Life' = "ended"
      BY <1>0, <2>1, <2>5 DEF Same, Becomes, Stopped, Life, Ended
    <3>2. Promised!End
      BY <1>0, <2>2, <2>3, <3>1, EndStep DEF SameWishes, Quiet
    <3> QED
      BY <3>2 DEF Promised!Act
  <2> QED
    BY <2>4, <2>5
<1> QED
  BY <1>1, <1>2, <1>3, <1>4, <1>5 DEF Jobs, Asks

(* The writes that let it go on.                                           *)
LEMMA GoingOnMaps ==
  ASSUME LifeInv, LifeInv', WakeUp \/ Exhaust \/ Restart \/ Resume \/ SyncRefs \/ Promote
  PROVE  Promised!Act
<1>0. /\ run \in Runs /\ run.phase # "gone" /\ step # "record" /\ step' # "record"
      /\ AtWork' = AtWork /\ excused \subseteq excused'
  BY WritesQuietly DEF LifeInv, LeftInv, RunTypeOK, Tidy, Finish
<1>1. CASE WakeUp
  <2>1. CASE run.wake /\ Stopped(run)
    <3>1. run' = [Reset(run) EXCEPT !.wake = FALSE]
      BY <1>1, <2>1 DEF WakeUp
    <3>2. /\ run'.phase = "pending" /\ run'.sandbox = FALSE /\ run'.attempt = run.attempt + 1
          /\ run'.asked = run.asked /\ run'.wake = FALSE /\ run.wake = TRUE
      BY <1>0, <2>1, <3>1, FieldsTyped DEF Reset, Runs
    <3> QED
      BY <1>0, <3>2, RenewalMaps DEF Ended
  <2>2. CASE ~(run.wake /\ Stopped(run))
    <3>1. run' = run
      BY <1>1, <2>2 DEF WakeUp
    <3> QED
      BY <1>0, <3>1, DropMaps DEF SameWishes, Life
  <2> QED
    BY <2>1, <2>2
<1>2. CASE Exhaust
  <2>1. Same
    BY <1>0, <1>2, GoOnEffects
  <2>2. CASE SameWishes
    BY <1>0, <2>1, <2>2, DropMaps DEF Same, Becomes, Life
  <2>3. CASE run.phase = "failed" /\ run'.asked = run.asked /\ run'.wake = FALSE
    <3>1. Life = "ended" /\ Life' = Life /\ OnHand' = OnHand /\ excused' = excused
      BY <1>0, <1>2, <2>1, <2>3 DEF Exhaust, Writes, Same, Becomes, Life, OnHand, Ended
    <3>2. Promised!Settle
      BY <1>0, <2>1, <2>3, <3>1, SettleStep DEF Same, Becomes, Quiet
    <3> QED
      BY <3>2 DEF Promised!Act
  <2> QED
    BY <1>0, <1>2, <2>2, <2>3, Wishes
<1>3. CASE Restart
  <2>1. \/ Same
        \/ ~Stopped(run) /\ Becomes("pending", "other", FALSE, run.attempt + 1)
    BY <1>0, <1>3, GoOnEffects
  <2>2. SameWishes
    BY <1>0, <1>3, Wishes
  <2>3. CASE Same
    BY <1>0, <2>2, <2>3, DropMaps DEF Same, Becomes, Life
  <2>4. CASE ~Stopped(run) /\ Becomes("pending", "other", FALSE, run.attempt + 1)
    BY <1>0, <2>2, <2>4, RenewalMaps DEF SameWishes, Stopped, Becomes, Ended
  <2> QED
    BY <2>1, <2>3, <2>4
<1>4. CASE Resume
  <2>1. \/ Same
        \/ run.phase = "paused" /\ Becomes("paused", run.queue, FALSE, run.attempt)
        \/ run.phase = "paused" /\ Becomes("provisioning", "resuming", FALSE, run.attempt + 1)
    BY <1>0, <1>4, GoOnEffects
  <2>2. SameWishes
    BY <1>0, <1>4, Wishes
  <2>3. CASE \/ Same
             \/ run.phase = "paused" /\ Becomes("paused", run.queue, FALSE, run.attempt)
    BY <1>0, <2>2, <2>3, DropMaps DEF Same, Becomes, Life
  <2>4. CASE run.phase = "paused" /\ Becomes("provisioning", "resuming", FALSE, run.attempt + 1)
    BY <1>0, <2>2, <2>4, RenewalMaps DEF SameWishes, Becomes, Ended
  <2> QED
    BY <2>1, <2>3, <2>4
<1>5. CASE SyncRefs
  <2>1. Same \/ Becomes(run.phase, run.queue, TRUE, run.attempt)
    BY <1>0, <1>5, AdmissionEffects
  <2>2. SameWishes
    BY <1>0, <1>5, Wishes
  <2>3. CASE Same
    BY <1>0, <2>2, <2>3, DropMaps DEF Same, Becomes, Life
  <2>4. CASE Becomes(run.phase, run.queue, TRUE, run.attempt)
    <3>1. Life # "gone" /\ Life' = Life /\ OnHand' = "held"
      BY <1>0, <2>4 DEF Becomes, Life, OnHand, Ended
    <3>2. Promised!Keep
      BY <1>0, <2>2, <2>4, <3>1, KeepStep DEF Becomes, Quiet
    <3> QED
      BY <3>2 DEF Promised!Act
  <2> QED
    BY <2>1, <2>3, <2>4
<1>6. CASE Promote
  <2>1. \/ Same
        \/ run.phase \in Startup \cup {"running"} /\ Becomes("running", "other", run.sandbox, run.attempt)
    BY <1>0, <1>6, GoOnEffects
  <2>2. SameWishes
    BY <1>0, <1>6, Wishes
  <2>3. Life' = Life
    BY <1>0, <2>1 DEF Same, Becomes, Startup, Life, Ended
  <2> QED
    BY <1>0, <2>1, <2>2, <2>3, DropMaps DEF Same, Becomes
<1> QED
  BY <1>1, <1>2, <1>3, <1>4, <1>5, <1>6

(* The sandbox provider: a pod starts on record or excused, and goes.      *)
LEMMA ProvideMaps ==
  ASSUME LifeInv, Provide
  PROVE  Promised!Act
<1>1. /\ run' = run /\ step' = step /\ excused' = excused /\ made' = made
      /\ Life' = Life /\ OnHand' = OnHand /\ SameWishes
  BY DEF Provide, PodStarts, PodMoves, Collect, PodGoes, ClaimGoes, KubeQuiet, Delay, CatchUp, call,
         kube, Life, OnHand, SameWishes
<1>2. CASE PodMoves \/ Collect \/ ClaimGoes \/ Delay \/ CatchUp
  <2>1. AtWork' = AtWork
    BY <1>1, <1>2 DEF PodMoves, Collect, ClaimGoes, Delay, CatchUp, kube, AtWork
  <2> QED
    BY <1>1, <2>1, UnmovedStep DEF Quiet
<1>3. CASE PodStarts
  <2>1. AtWork = {} /\ AtWork' = {made} /\ ~Idle
    BY <1>1, <1>3 DEF PodStarts, AtWork, Idle
  <2>2. \/ "leaky" \in Known
        \/ OnHand = "held" /\ made = run.attempt /\ Life # "gone"
    BY <2>1, Knowing DEF LifeInv, LeftInv, Backed, OnHand, Life, Ended
  <2>3. made \in 0..run.attempt
    BY FieldsTyped DEF LifeInv, LeftInv, Doom, RunTypeOK
  <2>4. Promised!Work
    BY <1>1, <2>1, <2>2, <2>3, Knowing DEF Promised!Work, Promised!wishes, SameWishes
  <2> QED
    BY <2>4 DEF Promised!Act
<1>4. CASE PodGoes
  <2>1. Promised!Leave
    BY <1>1, <1>4, Knowing DEF PodGoes, AtWork, Promised!Leave, Promised!wishes, SameWishes
  <2> QED
    BY <2>1 DEF Promised!Act
<1> QED
  BY <1>2, <1>3, <1>4 DEF Provide

(* Everyone else: a stop, a revival, a slip of the record or a wish.       *)
LEMMA OthersMap ==
  ASSUME LifeInv, LifeInv', Others
  PROVE  Promised!Act
<1>0. run \in Runs /\ step' = step /\ AtWork' = AtWork
  BY OutsideCall
     DEF LifeInv, LeftInv, RunTypeOK, Others, RivalAdmitted, RivalEnds, WorkerWrites,
         OverseerReads, AskReads, OverseerWrites, ParentCancels, ParentRetries, Ask, AskMore,
         Outsider,
         kube, AtWork
<1>1. CASE RivalAdmitted \/ RivalEnds \/ OverseerReads \/ AskReads
  <2>1. run' = run /\ excused' = excused
    BY <1>1 DEF RivalAdmitted, RivalEnds, OverseerReads, AskReads
  <2> QED
    BY <1>0, <2>1, UnmovedStep DEF Life, SameWishes, Quiet, OnHand
<1>2. CASE WorkerWrites \/ OverseerWrites \/ ParentCancels
  <2>1. PICK ph \in Phases \ {"gone"} : WritePhase(ph)
    BY <1>2 DEF WorkerWrites, OverseerWrites, ParentCancels, LifeInv, LeftInv, RunTypeOK, Phases,
       Ended
  <2>2. /\ run'.phase = ph /\ run'.attempt = run.attempt /\ OnHand' = OnHand /\ SameWishes
        /\ run.phase # "gone" /\ excused \subseteq excused'
    BY <1>0, <2>1, OutsideEffects, Wishes DEF WritePhase, Note, OnHand
  <2>3. CASE run.phase \in Ended /\ ph \notin Ended
    <3>1. "overruled" \in excused'
      BY <2>1, <2>2, <2>3 DEF WritePhase, Note, Overruling
    <3>2. Promised!Revive
      BY <1>0, <2>2, <2>3, <3>1, ReviveStep DEF Life, Excused
    <3> QED
      BY <3>2 DEF Promised!Act
  <2>4. CASE run.phase \notin Ended /\ ph \in Ended
    <3>1. excused' = excused
      BY <2>1, <2>2, <2>4 DEF WritePhase, Note, Overruling, Consumes, Stopped
    <3>2. Promised!End
      BY <1>0, <2>2, <2>4, <3>1, EndStep DEF Life, SameWishes, Quiet
    <3> QED
      BY <3>2 DEF Promised!Act
  <2>5. CASE run.phase \in Ended <=> ph \in Ended
    <3>1. Promised!Slip
      BY <1>0, <2>2, <2>5, SlipStep DEF Life
    <3> QED
      BY <3>1 DEF Promised!Act
  <2> QED
    BY <2>3, <2>4, <2>5
<1>3. CASE ParentRetries
  <2>1. /\ Becomes("pending", "other", FALSE, run.attempt) /\ SameWishes
        /\ run.phase # "gone" /\ excused \subseteq excused'
        /\ (run.phase \in Ended => "overruled" \in excused')
    BY <1>0, <1>3, OutsideEffects, Wishes DEF ParentRetries, Stopped
  <2>2. Life' = "open" /\ (OnHand' = OnHand \/ OnHand' = "free")
    BY <1>0, <2>1 DEF Becomes, Life, OnHand, Ended
  <2>3. CASE run.phase \in Ended
    <3>1. Promised!Revive
      BY <1>0, <2>1, <2>2, <2>3, ReviveStep DEF Becomes, LifeInv, Life, Excused
    <3> QED
      BY <3>1 DEF Promised!Act
  <2>4. CASE run.phase \notin Ended
    <3>1. Promised!Slip \/ Promised!GiveUp
      BY <1>0, <2>1, <2>2, <2>4, SlipStep, GiveUpStep DEF Becomes, LifeInv, Life
    <3> QED
      BY <3>1 DEF Promised!Act
  <2> QED
    BY <2>3, <2>4
<1>4. CASE Ask \/ AskMore
  <2>1. /\ Same /\ run.phase # "gone" /\ excused' = excused
        /\ run.asked \subseteq run'.asked /\ run'.asked \subseteq Asks
        /\ run'.wake \in {run.wake, TRUE}
    <3>1. Same /\ run.phase # "gone" /\ excused' = excused
      BY <1>0, <1>4, OutsideEffects DEF Ask, AskMore
    <3>2. CASE Ask
      <4>1. PICK ask \in Asks : run' = [run EXCEPT !.asked = @ \cup {ask}]
        BY <3>2 DEF Ask, LifeInv, LeftInv, RunTypeOK
      <4> QED
        BY <1>0, <3>1, <4>1, FieldsTyped DEF Runs
    <3>3. CASE AskMore
      BY <1>0, <3>1, <3>3, FieldsTyped DEF AskMore, Runs
    <3> QED
      BY <1>4, <3>2, <3>3
  <2>2. Life # "gone" /\ Life' = Life /\ OnHand' = OnHand
    BY <1>0, <2>1 DEF Same, Becomes, Life, OnHand, Ended
  <2>3. Promised!Request
    BY <1>0, <2>1, <2>2, Knowing DEF Same, Becomes, Promised!Request, Promised!work
  <2> QED
    BY <2>3 DEF Promised!Act
<1> QED
  BY <1>1, <1>2, <1>3, <1>4 DEF Others

(* Doom holds of a pending run.                                            *)
LEMMA DoomInit == RunInit => Doom
<1> SUFFICES ASSUME RunInit PROVE Doom
  OBVIOUS
<1>1. Copies = {} /\ job = "none" /\ made = 0
  BY DEF RunInit, Copies
<1> QED
  BY <1>1, FirstRun DEF Doom

(* LifeInv is inductive.                                                   *)
LEMMA LifeInvHolds == RunSpec => []LifeInv
<1>1. RunInit => LifeInv
  BY LeftInvInit, DoomInit DEF LifeInv, LeftInv, RunInit, AskInv
<1>2. LifeInv /\ [RunNext]_runVars => LifeInv'
  BY LeftInvStep, AskInvStep, DoomStep DEF LifeInv, LeftInv
<1> QED
  BY <1>1, <1>2, PTL DEF RunSpec

(* Whatever passes fail, read an old copy or meet a foreign write, the     *)
(* controller takes a run only through the steps of RunLife.               *)
THEOREM RunLifeImplemented == RunSpec => ImplementsRunLife
<1>1. RunInit => Promised!Init
  <2> SUFFICES ASSUME RunInit PROVE Promised!Init
    OBVIOUS
  <2>1. NotedAsked = {} /\ AtWork = {} /\ Known = {}
    BY DEF RunInit, NotedAsked, Settled, AtWork, Known, Leaky, Excused
  <2>2. Life = "open" /\ OnHand = "free"
    BY FirstRun DEF RunInit, Life, OnHand, Ended
  <2> QED
    BY <2>1, <2>2, FirstRun DEF Promised!Init
<1>2. LifeInv /\ LifeInv' /\ [RunNext]_runVars => [Promised!Next]_Promised!vars
  <2> SUFFICES ASSUME LifeInv, LifeInv', [RunNext]_runVars PROVE Promised!Act
    BY NotedStep DEF Promised!Next, LifeInv, LeftInv
  <2>1. CASE UNCHANGED runVars
    BY <2>1, UnmovedStep DEF runVars, call, kube, Life, SameWishes, Quiet, OnHand, AtWork
  <2>2. CASE Dispatch \/ Admit \/ Refuse \/ Record \/ Create
    BY <2>2, AdmissionMaps
  <2>3. CASE Drain \/ Break
    BY <2>3, DrainMaps
  <2>4. CASE Finish
    BY <2>4, EndingMaps, GoingOnMaps DEF Finish
  <2>5. CASE Provide
    BY <2>5, ProvideMaps
  <2>6. CASE Others
    BY <2>6, OthersMap
  <2> QED
    BY <2>1, <2>2, <2>3, <2>4, <2>5, <2>6 DEF RunNext, Reconcile
<1> QED
  BY LifeInvHolds, <1>1, <1>2, PTL DEF RunSpec, ImplementsRunLife, Promised!Spec

(* From the steps of RunLife alone: nobody works on an attempt that is     *)
(* over, off the record or on a run that is gone.                          *)
THEOREM LifeHasOneWorker == ImplementsRunLife => []Promised!OneWorker
<1>1. Promised!Init => Promised!OneWorker
  BY DEF Promised!Init, Promised!OneWorker
<1>2. Promised!OneWorker /\ [Promised!Next]_Promised!vars => Promised!OneWorker'
  <2> SUFFICES ASSUME Promised!OneWorker, [Promised!Next]_Promised!vars PROVE Promised!OneWorker'
    OBVIOUS
  <2>1. CASE Promised!Request \/ Promised!Settle \/ Promised!Slip \/ Promised!Mend
    BY <2>1 DEF Promised!Request, Promised!Settle, Promised!Slip, Promised!Mend,
       Promised!Worsen, Promised!wishes, Promised!work, Promised!OneWorker
  <2>2. CASE Promised!Begin \/ Promised!Delete \/ Promised!GiveUp
    BY <2>2 DEF Promised!Begin, Promised!Delete, Promised!GiveUp, Promised!Frees,
       Promised!Nobody, Promised!Worsen, Promised!work, Promised!OneWorker
  <2>3. CASE Promised!End \/ Promised!Revive
    BY <2>3 DEF Promised!End, Promised!Revive, Promised!Frees, Promised!Worsen,
       Promised!Nobody, Promised!wishes, Promised!OneWorker
  <2>4. CASE Promised!Keep \/ Promised!Work \/ Promised!Leave
    BY <2>4 DEF Promised!Keep, Promised!Worsen, Promised!Work, Promised!Leave, Promised!OneWorker
  <2>5. CASE UNCHANGED Promised!vars
    BY <2>5 DEF Promised!vars, Promised!work, Promised!OneWorker
  <2> QED
    BY <2>1, <2>2, <2>3, <2>4, <2>5 DEF Promised!Next, Promised!Act
<1> QED
  BY <1>1, <1>2, PTL DEF ImplementsRunLife, Promised!Spec

(* Likewise: an ended run stays ended until a wake or a revival, and a     *)
(* request is forgotten only by a run that is over, or was when somebody   *)
(* noted the request.                                                      *)
THEOREM LifeEndsHold == ImplementsRunLife => Promised!EndsHold
<1> DEFINE Held ==
      /\ Life = "ended" /\ Life' = "open" =>
           (run.wake = TRUE /\ (run.wake)' = FALSE) \/ "overruled" \in Known'
      /\ \/ run.asked \subseteq (run.asked)' \cup NotedAsked
         \/ Life = "ended" \/ Life' = "gone" \/ "overruled" \in Known
<1>1. Promised!Next => Held
  <2>1. Promised!Request \/ Promised!Slip \/ Promised!Mend => Held
    BY DEF Promised!Request, Promised!Slip, Promised!Mend, Promised!wishes
  <2>2. Promised!Begin \/ Promised!End \/ Promised!Settle => Held
    BY DEF Promised!Begin, Promised!End, Promised!Settle
  <2>3. Promised!Delete \/ Promised!Revive => Held
    BY DEF Promised!Delete, Promised!Revive, Promised!wishes
  <2>4. Promised!Keep \/ Promised!GiveUp \/ Promised!Work \/ Promised!Leave => Held
    BY DEF Promised!Keep, Promised!GiveUp, Promised!Work, Promised!Leave, Promised!wishes
  <2> QED
    BY <2>1, <2>2, <2>3, <2>4 DEF Promised!Next, Promised!Act
<1>2. [Promised!Next]_Promised!vars => [Held]_Promised!vars
  BY <1>1
<1> QED
  BY <1>2, PTL DEF ImplementsRunLife, Promised!Spec, Promised!EndsHold
=============================================================================
