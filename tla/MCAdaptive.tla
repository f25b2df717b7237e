----------------------------- MODULE MCAdaptive -----------------------------
(***************************************************************************)
(* Five questions, the second and third of one level.                      *)
(***************************************************************************)
EXTENDS AdaptiveQuestions

MCLevel(q) == <<1, 2, 2, 3, 4>>[q]
=============================================================================
