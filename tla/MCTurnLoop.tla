------------------------------ MODULE MCTurnLoop ------------------------------
(* TLC instance of the turn loop: pods are numbered, as are messages.      *)
EXTENDS TurnLoop
=============================================================================
