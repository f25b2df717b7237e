------------------------------- MODULE Subject -------------------------------
(***************************************************************************)
(* What a pure service is given. The modules of pure services state what   *)
(* they promise of subject; a checking module draws its values.            *)
(***************************************************************************)
VARIABLE subject

Is(kind) == subject.kind = kind
=============================================================================
