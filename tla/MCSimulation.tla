---------------------------- MODULE MCSimulation ----------------------------
(***************************************************************************)
(* Simulation on small sets of requests, workers and executions.           *)
(***************************************************************************)
EXTENDS Simulation, TLC

\* Requests are alike, and so are execution ids (safety runs only).
Symmetry == Permutations(Requests) \cup Permutations(Execs)
=============================================================================
