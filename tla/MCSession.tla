------------------------------ MODULE MCSession ------------------------------
(***************************************************************************)
(* Two tabs of one browser with two calls in flight between them. Tokens   *)
(* are alike, drawn in any order.                                          *)
(***************************************************************************)
EXTENDS SessionClient, TLC

DrawAny(S) == S

Symmetry == Permutations(Tokens) \cup Permutations(Tabs) \cup Permutations(Calls)
=============================================================================
