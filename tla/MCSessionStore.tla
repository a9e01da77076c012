--------------------------- MODULE MCSessionStore ---------------------------
(* TLC instance of the session store under its most general client.        *)
EXTENDS SessionStore, TLC

Symmetry == Permutations(Tokens)
=============================================================================
