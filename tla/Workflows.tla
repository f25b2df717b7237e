------------------------------ MODULE Workflows ------------------------------
(***************************************************************************)
(* One workflow of the in-memory engine and the requests that drive it:    *)
(*   ai_core/workflow_engine.py, api/v1/agent.py                           *)
(*                                                                         *)
(* The engine is one object in one event loop: a step here is what a       *)
(* coroutine does between two awaits. execute_next_step awaits the tool,   *)
(* and any other request may run meanwhile.                                *)
(***************************************************************************)
EXTENDS Naturals

CONSTANTS
  Length,       \* how many steps the workflow has
  Gated,        \* the steps created with confirmation_required
  Simulated,    \* the steps whose tool has no handler
  Executors     \* bound: requests that may await a tool together

ASSUME LengthAssumption == Length \in Nat
ASSUME StepsAssumption == Gated \subseteq 1..Length /\ Simulated \subseteq 1..Length

VARIABLES
  workflow,   \* the Workflow: status, current_step (from 1 here) and its steps
  awaiting,   \* the step whose tool a request awaits, 0 for none
  together   \* history: two requests awaited tools at the same time

workflowVars == <<workflow, awaiting, together>>

Steps == 1..Length
StepStatus == {"pending", "awaiting_confirmation", "running", "completed", "failed"}
WorkflowStatus == {"pending", "running", "paused", "completed", "failed", "cancelled"}

WorkflowInit ==
  /\ workflow = [status  |-> "pending",
                 current |-> 1,
                 step    |-> [i \in Steps |-> "pending"],
                 gate    |-> [i \in Steps |-> i \in Gated]]  \* confirmation_required
  /\ awaiting = [r \in Executors |-> 0]
  /\ together = FALSE

SetStep(wf, i, status) == [wf EXCEPT !.step[i] = status]

\* After a step: current_step += 1, and completed past the last.
Advanced(wf, i) ==
  LET next == wf.current + 1
  IN [wf EXCEPT !.step[i] = "completed",
                !.current = next,
                !.status = IF next > Length THEN "completed" ELSE @]

\* A plausible bug: a workflow that is already running is not paused.
NeedsConfirmation_NotRunning(wf, i) ==
  wf.gate[i] /\ wf.step[i] = "pending" /\ wf.status # "running"

NeedsConfirmation(wf, i) == wf.gate[i] /\ wf.step[i] = "pending"

\* execute_next_step on workflow wf, up to its first await.
ExecuteNextStep(r, wf) ==
  LET i == wf.current
  IN \/ /\ i > Length
        /\ workflow' = [wf EXCEPT !.status = "completed"]
        /\ UNCHANGED <<awaiting, together>>
     \/ /\ i <= Length
        /\ wf.step[i] = "awaiting_confirmation"
        /\ workflow' = wf
        /\ UNCHANGED <<awaiting, together>>
     \/ /\ i <= Length
        /\ NeedsConfirmation(wf, i)
        /\ workflow' = [SetStep(wf, i, "awaiting_confirmation") EXCEPT !.status = "paused"]
        /\ UNCHANGED <<awaiting, together>>
     \/ /\ i <= Length
        /\ wf.step[i] # "awaiting_confirmation"
        /\ ~ NeedsConfirmation(wf, i)
        /\ LET running == [SetStep(wf, i, "running") EXCEPT !.status = "running"]
           IN IF i \in Simulated
              THEN /\ workflow' = Advanced(running, i)
                   /\ UNCHANGED <<awaiting, together>>
              ELSE /\ workflow' = running
                   /\ awaiting' = [awaiting EXCEPT ![r] = i]
                   /\ together' = (together \/ \E s \in Executors : awaiting[s] # 0)

\* POST /workflows/{id}/execute
Execute(r) == awaiting[r] = 0 /\ ExecuteNextStep(r, workflow)

\* POST /workflows/{id}/confirm; past the last step steps[current_step] raises IndexError.
Confirm(r) ==
  LET i == workflow.current
  IN /\ awaiting[r] = 0
     /\ i <= Length
     /\ workflow.step[i] = "awaiting_confirmation"
     /\ ExecuteNextStep(r, [workflow EXCEPT !.step[i] = "pending", !.gate[i] = FALSE,
                                            !.status = "running"])

\* POST /workflows/{id}/cancel: only the status.
Cancel ==
  /\ workflow' = [workflow EXCEPT !.status = "cancelled"]
  /\ UNCHANGED <<awaiting, together>>

ToolReturns(r) ==
  /\ awaiting[r] # 0
  /\ workflow' = Advanced(workflow, awaiting[r])
  /\ awaiting' = [awaiting EXCEPT ![r] = 0]
  /\ UNCHANGED together

\* A plausible bug: a failed step is passed over.
ToolFails_PassedOver(r) ==
  /\ awaiting[r] # 0
  /\ workflow' = [Advanced(workflow, awaiting[r]) EXCEPT !.step[awaiting[r]] = "failed",
                                                         !.status = "failed"]
  /\ awaiting' = [awaiting EXCEPT ![r] = 0]
  /\ UNCHANGED together

ToolFails(r) ==
  /\ awaiting[r] # 0
  /\ workflow' = [SetStep(workflow, awaiting[r], "failed") EXCEPT !.status = "failed"]
  /\ awaiting' = [awaiting EXCEPT ![r] = 0]
  /\ UNCHANGED together

WorkflowNext ==
  \/ Cancel
  \/ \E r \in Executors :
       \/ Execute(r) \/ Confirm(r)
       \/ ToolReturns(r) \/ ToolFails(r)

WorkflowSpec == WorkflowInit /\ [][WorkflowNext]_workflowVars

----------------------------------------------------------------------------
\* A gated step has not been started unless it was confirmed while it waited for that:
\* retries after a failure, overlapping calls that skip steps, and a cancel in between
\* never get a tool with a gate to run unconfirmed.
GatesHold ==
  /\ \A i \in Steps :
       workflow.gate[i] => workflow.step[i] \in {"pending", "awaiting_confirmation"}
  /\ \A r \in Executors : awaiting[r] \in Gated => ~ workflow.gate[awaiting[r]]

\* "Each step once, in order" is lost in one way only: as long as no two requests awaited
\* tools together, everything before current_step is completed, everything after it is
\* untouched, and completed means that all of it is.
SequentialUnlessOverlapped ==
  ~ together =>
    /\ \A i \in Steps : i < workflow.current => workflow.step[i] = "completed"
    /\ \A i \in Steps : i > workflow.current => workflow.step[i] = "pending"
    /\ workflow.status = "completed" => \A i \in Steps : workflow.step[i] = "completed"
=============================================================================
