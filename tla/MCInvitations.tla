--------------------------- MODULE MCInvitations ---------------------------
(***************************************************************************)
(* Invitations on small sets of requests, invitations and tokens.          *)
(***************************************************************************)
EXTENDS Invitations, TLC

\* Requests, invitation ids and tokens are each alike.
Symmetry == Permutations(Requests) \cup Permutations(Invites) \cup Permutations(Tokens)
=============================================================================
