-------------------------- MODULE RunLifeRefinement --------------------------
(***************************************************************************)
(* The AgentRun controller implements RunLife: a run with a terminal phase *)
(* has ended, its worker is its pod, and what is on record is the sandbox  *)
(* in the status, or the claim a reconcile holds and is about to record.   *)
(* What is noted is what a lagging cache, or the copy of a pass that is    *)
(* about to clear it, shows to be asked of a run that is over.             *)
(***************************************************************************)
EXTENDS RunLifecycle

Life   == IF run.phase \in Ended THEN "ended" ELSE IF run.phase = "gone" THEN "gone" ELSE "open"
OnHand == IF run.sandbox \/ step = "record" THEN "held" ELSE "free"
AtWork == IF pod = "none" THEN {} ELSE {made}

NotedAsked == Settled \cup UNION {r.asked : r \in {c \in lag : c.phase \in Ended}}

(* Either excuse of the compute applies.                                   *)
Leaky == Excused("missed") \/ Excused("unrecorded")
Known == (excused \cap {"overruled"}) \cup (IF Leaky THEN {"leaky"} ELSE {})

Promised == INSTANCE RunLife WITH
  Requests <- Asks, life <- Life, asked <- run.asked, woken <- run.wake, noted <- NotedAsked,
  attempt <- run.attempt, record <- OnHand, working <- AtWork, flaws <- Known

(* Whatever passes fail, read an old copy or meet a foreign write, a run   *)
(* only takes the steps of RunLife.                                        *)
ImplementsRunLife == Promised!Spec
=============================================================================
