-------------------------------- MODULE Wake --------------------------------
(***************************************************************************)
(* What waking a run promises those who send it messages, free of          *)
(* counters, keys, annotations and retries.  A wake that is owed is        *)
(* answered by an attempt, a refusal or a stop, each of which disposes of  *)
(* everything sent before it.  A sender is told of success only when its   *)
(* message has been disposed of or a wake is owed; a run that has ended    *)
(* goes on only for a wake that is owed, and a stop leaves none.           *)
(*                                                                         *)
(* The promise has one way out (void), after which it binds nobody.        *)
(***************************************************************************)

CONSTANT Senders

VARIABLES
  sent,         (* senders whose message is in the session                 *)
  read,         (* of those, the ones that were disposed of                *)
  owed,         (* a wake is owed                                          *)
  told,         (* senders that were told of success                       *)
  state,        (* of the run                                              *)
  void          (* the promise is off                                      *)

vars == <<sent, read, owed, told, state, void>>

Init ==
  /\ sent = {} /\ read = {} /\ told = {}
  /\ owed = FALSE /\ state = "running" /\ void = FALSE

Send(s) ==
  /\ sent' = sent \cup {s}
  /\ UNCHANGED <<read, owed, told, state, void>>

(* A call may raise a wake, and may tell its sender that all is well.      *)
Promise(s) ==
  /\ s \in sent
  /\ owed => owed'
  /\ told' \in {told, told \cup {s}}
  /\ s \in told' => s \in read \/ owed'
  /\ UNCHANGED <<sent, read, state, void>>

(* A sender that is not sure of the answer asks again.                     *)
AskAgain(s) ==
  /\ told' = told \ {s}
  /\ UNCHANGED <<sent, read, owed, state, void>>

Dispose == read' = sent /\ owed' = FALSE /\ UNCHANGED <<sent, told, void>>

Attempt == owed /\ state # "running" /\ state' = "running" /\ Dispose
Refuse  == owed /\ state = "ended" /\ UNCHANGED state /\ Dispose
Cancel  == state \in {"running", "paused"} /\ state' = "cancelled" /\ Dispose

Rest ==
  /\ \/ state = "running" /\ state' \in {"paused", "ended"}
     \/ state = "paused" /\ state' = "ended"
     \/ state = "paused" /\ ~owed /\ state' = "running"
  /\ UNCHANGED <<sent, read, owed, told, void>>

Next ==
  \/ void'
  \/ \E s \in Senders : Send(s) \/ Promise(s) \/ AskAgain(s)
  \/ Attempt \/ Refuse \/ Cancel \/ Rest

Spec == Init /\ [][Next]_vars

(* Nobody who was told of success is forgotten.                            *)
NobodyForgotten == void \/ \A s \in told : s \in read \/ owed
=============================================================================
