------------------------ MODULE MCMaintainerDispatch ------------------------
(* TLC instance of the dispatch ledger, and the mutants its properties have *)
(* to catch.                                                               *)
EXTENDS MaintainerDispatch, TLC

Symmetry == Permutations(Items)
=============================================================================
