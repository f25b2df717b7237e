---------------------------- MODULE RefreshTokens ----------------------------
(***************************************************************************)
(* The refresh tokens of one user on the server:                           *)
(*   services/auth.py, repositories/refresh_token.py, api/v1/auth.py       *)
(*                                                                         *)
(* live is what is_valid accepts of the committed refresh_tokens table:    *)
(* tokens that were stored, not revoked, and not past expires_at. A        *)
(* handler is one transaction and one step, but for refresh: it looks the  *)
(* token up (IsValid) and writes later (Rotate).                           *)
(* A token that nobody holds any more may be drawn again: a new token is   *)
(* one that nobody knows, and that is all its users can tell. known is     *)
(* who may still be presented; the rows of all others are forgotten.       *)
(***************************************************************************)
CONSTANTS
  Tokens,  \* refresh tokens
  None     \* no token

ASSUME NoneAssumption == None \notin Tokens

VARIABLE live

IsValid(t) == t \in live

\* login stores the token it issues.
Issue(t, known) == live' = (live \cap known) \cup {t}

\* refresh, after its lookup: revoke the old token, whatever it is by now (the
\* result of revoke is not looked at), and store the new one. One commit.
Rotate(old, new, known) == live' = ((live \cap known) \ {old}) \cup {new}

\* logout: revoke the token of the body, if there is one.
Revoke(t) == live' = live \ {t}

\* expires_at of a refresh token goes by.
PassDue(t) == t \in live /\ live' = live \ {t}
=============================================================================
