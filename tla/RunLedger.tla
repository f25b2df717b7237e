------------------------------ MODULE RunLedger ------------------------------
(***************************************************************************)
(* What the simulation subsystem promises about the durable rows of        *)
(* simulation_executions for one scenario, whatever the requests, workers  *)
(* and the broker do: a run is filed once, with the configuration it       *)
(* evaluated; afterwards its configuration never changes; the only thing   *)
(* that may happen to it is that a queued run is cancelled; all runs go    *)
(* together, when the scenario is deleted, and none is filed after that.   *)
(*                                                                         *)
(* Simulation implements this specification (Simulation!Ledger).           *)
(***************************************************************************)
CONSTANTS Execs, Configs

VARIABLES ledger, open

NotFiled == [status |-> "none"]

FiledStatus == {"queued", "completed", "failed"}

Filed(e) == ledger[e].status # "none"

Init == /\ ledger = [e \in Execs |-> NotFiled]
        /\ open = TRUE

\* A run appears: queued for a worker, or already evaluated inside the request.
File(e) ==
  /\ open
  /\ ~ Filed(e)
  /\ \E s \in FiledStatus, c \in Configs :
       ledger' = [ledger EXCEPT ![e] = [status |-> s, config |-> c]]
  /\ UNCHANGED open

\* A recruiter cancels a run that no engine has finished.
Cancel(e) ==
  /\ Filed(e)
  /\ ledger[e].status = "queued"
  /\ ledger' = [ledger EXCEPT ![e] = [status |-> "cancelled", config |-> @.config]]
  /\ UNCHANGED open

\* The scenario is deleted and takes its runs with it.
Purge ==
  /\ open
  /\ open' = FALSE
  /\ ledger' = [e \in Execs |-> NotFiled]

Next == Purge \/ \E e \in Execs : File(e) \/ Cancel(e)

Spec == Init /\ [][Next]_<<ledger, open>>
=============================================================================
