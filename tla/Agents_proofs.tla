---------------------------- MODULE Agents_proofs ----------------------------
(*************************************************************************)
(* The workflows of agents, the calls of the LLM providers and the       *)
(* adaptive questions; for any number of steps, requests, providers and  *)
(* questions.                                                            *)
(*************************************************************************)
EXTENDS Workflows, LLMRouter, AdaptiveQuestions, WellFoundedInduction, TLAPS

\* Workflows.

Workflow ==
  [status : WorkflowStatus, current : Nat \ {0},
   step : [Steps -> StepStatus], gate : [Steps -> BOOLEAN]]

\* The steps of wf whose gate is closed are untouched.
Untouched(wf) ==
  \A i \in Steps : wf.gate[i] => wf.step[i] \in {"pending", "awaiting_confirmation"}

\* A step whose tool is awaited has been confirmed if it had to be, and it has a handler.
AwaitedIsOpen(wf) ==
  \A r \in Executors : awaiting[r] # 0 => ~ wf.gate[awaiting[r]] /\ awaiting[r] \notin Simulated

\* Until two requests await tools together: only the current step is awaited, by one
\* request, the steps before it are completed and those after it pending; "completed" is
\* written past the last one, and only there.
InSequence(wf) ==
  /\ \A r \in Executors :
       awaiting[r] # 0 => awaiting[r] = wf.current /\ \A s \in Executors \ {r} : awaiting[s] = 0
  /\ \A i \in Steps : i < wf.current => wf.step[i] = "completed"
  /\ \A i \in Steps : i > wf.current => wf.step[i] = "pending"
  /\ wf.status = "completed" => wf.current > Length

\* The invariant, of the stored workflow or of the one that confirm passes on.
Sound(wf) == wf \in Workflow /\ Untouched(wf) /\ AwaitedIsOpen(wf) /\ (~ together => InSequence(wf))

WorkflowInv ==
  /\ awaiting \in [Executors -> Steps \cup {0}]
  /\ together \in BOOLEAN
  /\ Sound(workflow)

LEMMA InvGivesProperties == WorkflowInv => GatesHold /\ SequentialUnlessOverlapped
<1> SUFFICES ASSUME WorkflowInv PROVE GatesHold /\ SequentialUnlessOverlapped
  OBVIOUS
<1>1. GatesHold
  BY StepsAssumption DEF WorkflowInv, Sound, Untouched, AwaitedIsOpen, GatesHold, Steps
<1>2. SequentialUnlessOverlapped
  BY LengthAssumption
     DEF WorkflowInv, Sound, Workflow, InSequence, SequentialUnlessOverlapped, Steps
<1> QED BY <1>1, <1>2

LEMMA InitWorkflow == WorkflowInit => WorkflowInv
<1> SUFFICES ASSUME WorkflowInit PROVE WorkflowInv
  OBVIOUS
<1>1. workflow.gate \in [Steps -> BOOLEAN] /\ workflow.step \in [Steps -> StepStatus]
  BY DEF WorkflowInit, StepStatus
<1>2. workflow \in Workflow
  BY <1>1 DEF WorkflowInit, Workflow, WorkflowStatus
<1>3. \A i \in Steps : workflow.step[i] = "pending"
  BY DEF WorkflowInit
<1>4. workflow.current = 1 /\ workflow.status = "pending"
  BY DEF WorkflowInit
<1>5. awaiting \in [Executors -> Steps \cup {0}] /\ \A r \in Executors : awaiting[r] = 0
  BY DEF WorkflowInit
<1>6. Untouched(workflow) /\ AwaitedIsOpen(workflow)
  BY <1>3, <1>5 DEF Untouched, AwaitedIsOpen
<1>7. InSequence(workflow)
  BY <1>3, <1>4, <1>5 DEF InSequence, Steps
<1> QED BY <1>2, <1>5, <1>6, <1>7 DEF WorkflowInit, WorkflowInv, Sound

\* A workflow with another step, place and status is one.
LEMMA WorkflowWith ==
  ASSUME NEW wf \in Workflow, NEW step \in [Steps -> StepStatus], NEW n \in Nat \ {0},
         NEW status \in WorkflowStatus
  PROVE  [wf EXCEPT !.step = step, !.current = n, !.status = status] \in Workflow
BY DEF Workflow

\* Completing step i, which is open and, in sequence, the current one.
LEMMA AdvancedIsWorkflow ==
  ASSUME NEW wf \in Workflow, Untouched(wf), NEW i \in Steps, ~ wf.gate[i]
  PROVE  /\ Advanced(wf, i) \in Workflow /\ Untouched(Advanced(wf, i))
         /\ Advanced(wf, i).gate = wf.gate
         /\ Advanced(wf, i).current = wf.current + 1
         /\ Advanced(wf, i).step = [wf.step EXCEPT ![i] = "completed"]
         /\ Advanced(wf, i).status =
              IF wf.current + 1 > Length THEN "completed" ELSE wf.status
<1> DEFINE after == Advanced(wf, i)
<1>1. /\ after.gate = wf.gate
      /\ after.current = wf.current + 1
      /\ after.step = [wf.step EXCEPT ![i] = "completed"]
      /\ after.status = IF wf.current + 1 > Length THEN "completed" ELSE wf.status
  BY DEF Advanced, Workflow
<1>r. after = [wf EXCEPT !.step = after.step, !.current = after.current, !.status = after.status]
  BY DEF Advanced, Workflow
<1> HIDE DEF after
<1>2. after.step \in [Steps -> StepStatus] /\ \A j \in Steps \ {i} : after.step[j] = wf.step[j]
  BY <1>1 DEF Workflow, StepStatus
<1>3. after.status \in WorkflowStatus /\ after.current \in Nat \ {0}
  BY <1>1 DEF Workflow, WorkflowStatus
<1>4. after \in Workflow
  <2> DEFINE made == [wf EXCEPT !.step = after.step, !.current = after.current,
                                !.status = after.status]
  <2>1. made \in Workflow
    BY <1>2, <1>3, WorkflowWith, Zenon
  <2> HIDE DEF made
  <2>2. after = made
    BY <1>r DEF made
  <2> QED BY <2>1, <2>2
<1>5. Untouched(after)
  BY <1>1, <1>2 DEF Untouched
<1> QED BY <1>1, <1>4, <1>5 DEF after

LEMMA AdvancedInSequence ==
  ASSUME NEW wf \in Workflow, wf.current \in Steps,
         \A j \in Steps : j < wf.current => wf.step[j] = "completed",
         \A j \in Steps : j > wf.current => wf.step[j] = "pending",
         wf.status # "completed", Untouched(wf), ~ wf.gate[wf.current]
  PROVE  LET after == Advanced(wf, wf.current)
         IN /\ \A j \in Steps : j < after.current => after.step[j] = "completed"
            /\ \A j \in Steps : j > after.current => after.step[j] = "pending"
            /\ after.status = "completed" => after.current > Length
<1> DEFINE after == Advanced(wf, wf.current)
<1>1. /\ after.current = wf.current + 1
      /\ after.step = [wf.step EXCEPT ![wf.current] = "completed"]
      /\ after.status = IF wf.current + 1 > Length THEN "completed" ELSE wf.status
  BY AdvancedIsWorkflow
<1> HIDE DEF after
<1>2. wf.current \in Nat /\ Length \in Nat /\ wf.step \in [Steps -> StepStatus]
  BY LengthAssumption DEF Workflow
<1>3. (\A j \in Steps : j < after.current => after.step[j] = "completed")
      /\ (\A j \in Steps : j > after.current => after.step[j] = "pending")
  BY <1>1, <1>2 DEF Steps
<1>4. after.status = "completed" => after.current > Length
  BY <1>1, <1>2
<1> QED BY <1>3, <1>4 DEF after

\* What confirm passes on is as sound as what it found.
LEMMA ConfirmedIsSound ==
  ASSUME WorkflowInv, workflow.current <= Length,
         workflow.step[workflow.current] = "awaiting_confirmation"
  PROVE  Sound([workflow EXCEPT !.step[workflow.current] = "pending",
                                !.gate[workflow.current] = FALSE,
                                !.status = "running"])
<1> DEFINE wf == [workflow EXCEPT !.step[workflow.current] = "pending",
                                  !.gate[workflow.current] = FALSE,
                                  !.status = "running"]
<1>1. workflow \in Workflow /\ workflow.current \in Steps /\ Untouched(workflow)
      /\ AwaitedIsOpen(workflow) /\ (~ together => InSequence(workflow))
  BY LengthAssumption DEF WorkflowInv, Sound, Workflow, Steps
<1>2. /\ wf \in Workflow /\ wf.current = workflow.current /\ wf.status = "running"
      /\ wf.step = [workflow.step EXCEPT ![workflow.current] = "pending"]
      /\ wf.gate = [workflow.gate EXCEPT ![workflow.current] = FALSE]
  BY <1>1 DEF Workflow, WorkflowStatus, StepStatus
<1> HIDE DEF wf
<1>3. /\ wf.step \in [Steps -> StepStatus] /\ wf.gate \in [Steps -> BOOLEAN]
      /\ \A i \in Steps \ {workflow.current} :
           wf.step[i] = workflow.step[i] /\ (wf.gate[i] <=> workflow.gate[i])
      /\ wf.step[workflow.current] = "pending" /\ ~ wf.gate[workflow.current]
  BY <1>1, <1>2 DEF Workflow
<1>4. Untouched(wf)
  BY <1>1, <1>3 DEF Untouched
<1>5. AwaitedIsOpen(wf)
  <2> SUFFICES ASSUME NEW r \in Executors, awaiting[r] # 0
               PROVE  ~ wf.gate[awaiting[r]] /\ awaiting[r] \notin Simulated
    BY DEF AwaitedIsOpen
  <2>1. awaiting[r] \in Steps
    BY DEF WorkflowInv
  <2>2. ~ workflow.gate[awaiting[r]] /\ awaiting[r] \notin Simulated
    BY <1>1 DEF AwaitedIsOpen
  <2> QED BY <1>3, <2>1, <2>2
<1>6. ~ together => InSequence(wf)
  <2> SUFFICES ASSUME ~ together PROVE InSequence(wf)
    OBVIOUS
  <2>1. InSequence(workflow)
    BY <1>1
  <2>2. \A i \in Steps : i < wf.current \/ i > wf.current => wf.step[i] = workflow.step[i]
    BY <1>1, <1>2, <1>3, LengthAssumption DEF Steps
  <2> QED BY <1>2, <2>1, <2>2 DEF InSequence
<1> QED BY <1>2, <1>4, <1>5, <1>6 DEF Sound, wf

\* A call of execute_next_step, on a sound workflow, by a request that awaits nothing.
LEMMA ExecuteStep ==
  ASSUME WorkflowInv, NEW wf, Sound(wf), NEW r \in Executors, awaiting[r] = 0,
         ExecuteNextStep(r, wf)
  PROVE  WorkflowInv'
<1> DEFINE i == wf.current
<1>t. wf \in Workflow /\ i \in Nat \ {0} /\ Length \in Nat
  BY LengthAssumption DEF Sound, Workflow
<1>1. CASE i > Length /\ workflow' = [wf EXCEPT !.status = "completed"]
           /\ UNCHANGED <<awaiting, together>>
  BY <1>1, <1>t
     DEF WorkflowInv, Sound, Workflow, WorkflowStatus, Untouched, AwaitedIsOpen, InSequence
<1>2. CASE workflow' = wf /\ UNCHANGED <<awaiting, together>>
  BY <1>2 DEF WorkflowInv, Sound, AwaitedIsOpen, InSequence, Untouched
<1>3. CASE /\ i <= Length
           /\ NeedsConfirmation(wf, i)
           /\ workflow' = [SetStep(wf, i, "awaiting_confirmation") EXCEPT !.status = "paused"]
           /\ UNCHANGED <<awaiting, together>>
  <2>1. /\ workflow' \in Workflow /\ workflow'.gate = wf.gate
        /\ workflow'.current = i /\ workflow'.status = "paused"
        /\ workflow'.step = [wf.step EXCEPT ![i] = "awaiting_confirmation"]
    BY <1>3, <1>t DEF SetStep, Workflow, WorkflowStatus, StepStatus
  <2>2. Untouched(workflow)'
    BY <2>1, <1>t DEF Sound, Untouched, Workflow
  <2>3. AwaitedIsOpen(workflow)' /\ (~ together => InSequence(workflow)')
    BY <1>3, <2>1, <1>t DEF Sound, AwaitedIsOpen, InSequence, Steps, Workflow
  <2> QED BY <1>3, <2>1, <2>2, <2>3 DEF WorkflowInv, Sound
<1>4. CASE /\ i <= Length
           /\ wf.step[i] # "awaiting_confirmation"
           /\ ~ NeedsConfirmation(wf, i)
           /\ LET running == [SetStep(wf, i, "running") EXCEPT !.status = "running"]
              IN IF i \in Simulated
                 THEN workflow' = Advanced(running, i) /\ UNCHANGED <<awaiting, together>>
                 ELSE /\ workflow' = running
                      /\ awaiting' = [awaiting EXCEPT ![r] = i]
                      /\ together' = (together \/ \E s \in Executors : awaiting[s] # 0)
  <2> DEFINE running == [SetStep(wf, i, "running") EXCEPT !.status = "running"]
  <2>1. i \in Steps /\ ~ wf.gate[i]
    BY <1>4, <1>t DEF Steps, NeedsConfirmation, Sound, Untouched, Workflow
  <2>2. /\ running \in Workflow /\ Untouched(running)
        /\ running.gate = wf.gate /\ running.current = i /\ running.status = "running"
        /\ \A j \in Steps \ {i} : running.step[j] = wf.step[j]
    BY <2>1, <1>t DEF Sound, Untouched, Workflow, WorkflowStatus, StepStatus, SetStep
  <2> HIDE DEF running
  <2>3. CASE i \in Simulated
    <3>1. workflow' = Advanced(running, i) /\ UNCHANGED <<awaiting, together>>
      BY <1>4, <2>3 DEF running
    <3>2. workflow' \in Workflow /\ Untouched(workflow)' /\ workflow'.gate = wf.gate
      BY <3>1, <2>1, <2>2, AdvancedIsWorkflow DEF Untouched
    <3>3. AwaitedIsOpen(workflow)'
      BY <3>1, <3>2 DEF Sound, AwaitedIsOpen
    <3>4. ASSUME ~ together PROVE InSequence(workflow)'
      <4>1. \A s \in Executors : awaiting[s] = 0
        BY <3>4, <2>3 DEF Sound, InSequence, AwaitedIsOpen
      <4>2. /\ \A j \in Steps : j < running.current => running.step[j] = "completed"
            /\ \A j \in Steps : j > running.current => running.step[j] = "pending"
        BY <3>4, <2>1, <2>2, <1>t DEF Sound, InSequence, Steps
      <4>3. /\ \A j \in Steps : j < workflow'.current => workflow'.step[j] = "completed"
            /\ \A j \in Steps : j > workflow'.current => workflow'.step[j] = "pending"
            /\ workflow'.status = "completed" => workflow'.current > Length
        BY <4>2, <3>1, <2>1, <2>2, AdvancedInSequence
      <4> QED BY <4>1, <4>3, <3>1 DEF InSequence
    <3> QED BY <3>1, <3>2, <3>3, <3>4 DEF WorkflowInv, Sound
  <2>4. CASE i \notin Simulated
    <3>1. /\ workflow' = running
          /\ awaiting' = [awaiting EXCEPT ![r] = i]
          /\ together' = (together \/ \E s \in Executors : awaiting[s] # 0)
      BY <1>4, <2>4 DEF running
    <3>2. awaiting' \in [Executors -> Steps \cup {0}] /\ together' \in BOOLEAN
      BY <3>1, <2>1 DEF WorkflowInv
    <3>3. workflow' \in Workflow /\ Untouched(workflow)'
      BY <3>1, <2>2 DEF Untouched
    <3>4. AwaitedIsOpen(workflow)'
      BY <3>1, <2>1, <2>2, <2>4 DEF Sound, AwaitedIsOpen, WorkflowInv
    <3>5. ASSUME ~ together' PROVE InSequence(workflow)'
      <4>1. ~ together /\ \A s \in Executors : awaiting[s] = 0
        BY <3>5, <3>1 DEF WorkflowInv
      <4>2. \A s \in Executors :
              awaiting'[s] # 0 => awaiting'[s] = workflow'.current
                                  /\ \A q \in Executors \ {s} : awaiting'[q] = 0
        BY <4>1, <3>1, <2>2 DEF WorkflowInv
      <4>3. /\ \A j \in Steps : j < workflow'.current => workflow'.step[j] = "completed"
            /\ \A j \in Steps : j > workflow'.current => workflow'.step[j] = "pending"
        BY <4>1, <3>1, <2>1, <2>2, <1>t DEF Sound, InSequence, Steps
      <4>4. workflow'.status # "completed"
        BY <3>1, <2>2
      <4> QED BY <4>2, <4>3, <4>4 DEF InSequence
    <3> QED BY <3>2, <3>3, <3>4, <3>5 DEF WorkflowInv, Sound
  <2> QED BY <2>3, <2>4
<1> QED BY <1>1, <1>2, <1>3, <1>4 DEF ExecuteNextStep

LEMMA ToolStep ==
  ASSUME WorkflowInv, NEW r \in Executors, ToolReturns(r) \/ ToolFails(r)
  PROVE  WorkflowInv'
<1> DEFINE i == awaiting[r]
<1>t. /\ workflow \in Workflow /\ Untouched(workflow) /\ i \in Steps
      /\ ~ workflow.gate[i] /\ Length \in Nat
  BY LengthAssumption DEF WorkflowInv, Sound, AwaitedIsOpen, ToolReturns, ToolFails
<1>a. /\ awaiting' = [awaiting EXCEPT ![r] = 0] /\ together' = together
      /\ awaiting' \in [Executors -> Steps \cup {0}]
  BY DEF ToolReturns, ToolFails, WorkflowInv
<1>1. CASE ToolReturns(r)
  <2>1. workflow' = Advanced(workflow, i)
    BY <1>1 DEF ToolReturns
  <2>2. workflow' \in Workflow /\ Untouched(workflow)' /\ workflow'.gate = workflow.gate
    BY <2>1, <1>t, AdvancedIsWorkflow DEF Untouched
  <2>3. AwaitedIsOpen(workflow)'
    BY <2>2, <1>a DEF WorkflowInv, Sound, AwaitedIsOpen
  <2>4. ASSUME ~ together PROVE InSequence(workflow)'
    <3>1. i = workflow.current /\ \A s \in Executors : awaiting'[s] = 0
      BY <2>4, <1>t, <1>a DEF WorkflowInv, Sound, InSequence, ToolReturns, ToolFails, Steps
    <3>2. workflow.status # "completed"
      BY <3>1, <2>4, <1>t DEF WorkflowInv, Sound, InSequence, Steps
    <3>3. /\ \A j \in Steps : j < workflow'.current => workflow'.step[j] = "completed"
          /\ \A j \in Steps : j > workflow'.current => workflow'.step[j] = "pending"
          /\ workflow'.status = "completed" => workflow'.current > Length
      BY <3>1, <3>2, <2>1, <2>4, <1>t, AdvancedInSequence DEF WorkflowInv, Sound, InSequence
    <3> QED BY <3>1, <3>3 DEF InSequence
  <2> QED BY <1>a, <2>2, <2>3, <2>4 DEF WorkflowInv, Sound
<1>2. CASE ToolFails(r)
  <2>1. /\ workflow' \in Workflow /\ workflow'.gate = workflow.gate
        /\ workflow'.current = workflow.current /\ workflow'.status = "failed"
        /\ workflow'.step = [workflow.step EXCEPT ![i] = "failed"]
    BY <1>2, <1>t DEF ToolFails, SetStep, Workflow, WorkflowStatus, StepStatus
  <2>2. Untouched(workflow)'
    BY <2>1, <1>t DEF Untouched, Workflow
  <2>3. AwaitedIsOpen(workflow)'
    BY <2>1, <1>a DEF WorkflowInv, Sound, AwaitedIsOpen
  <2>4. ASSUME ~ together PROVE InSequence(workflow)'
    <3>1. i = workflow.current /\ \A s \in Executors : awaiting'[s] = 0
      BY <2>4, <1>t, <1>a DEF WorkflowInv, Sound, InSequence, ToolReturns, ToolFails, Steps
    <3> QED BY <3>1, <2>1, <2>4, <1>t DEF WorkflowInv, Sound, InSequence, Steps, Workflow
  <2> QED BY <1>a, <2>1, <2>2, <2>3, <2>4 DEF WorkflowInv, Sound
<1> QED BY <1>1, <1>2

LEMMA WorkflowStep == ASSUME WorkflowInv, [WorkflowNext]_workflowVars PROVE WorkflowInv'
<1>1. CASE Cancel
  BY <1>1 DEF Cancel, WorkflowInv, Sound, Workflow, WorkflowStatus, Untouched, AwaitedIsOpen,
              InSequence
<1>2. ASSUME NEW r \in Executors, Execute(r) PROVE WorkflowInv'
  BY <1>2, ExecuteStep DEF Execute, WorkflowInv
<1>3. ASSUME NEW r \in Executors, Confirm(r) PROVE WorkflowInv'
  BY <1>3, ExecuteStep, ConfirmedIsSound DEF Confirm
<1>4. ASSUME NEW r \in Executors, ToolReturns(r) \/ ToolFails(r) PROVE WorkflowInv'
  BY <1>4, ToolStep
<1>5. CASE UNCHANGED workflowVars
  BY <1>5 DEF workflowVars, WorkflowInv, Sound, Untouched, AwaitedIsOpen, InSequence
<1> QED BY <1>1, <1>2, <1>3, <1>4, <1>5 DEF WorkflowNext

LEMMA WorkflowInvariance == WorkflowSpec => []WorkflowInv
<1>1. WorkflowInv /\ [WorkflowNext]_workflowVars => WorkflowInv'
  BY WorkflowStep
<1> QED BY <1>1, InitWorkflow, PTL DEF WorkflowSpec

\* No retry, cancel or overlap of any number of requests gets a gated tool to run
\* unconfirmed.
THEOREM GatesHoldAlways == WorkflowSpec => []GatesHold
<1>1. WorkflowInv => GatesHold
  BY InvGivesProperties
<1> QED BY <1>1, WorkflowInvariance, PTL

\* Only requests that awaited tools together can take steps out of order.
THEOREM SequentialHolds == WorkflowSpec => []SequentialUnlessOverlapped
<1>1. WorkflowInv => SequentialUnlessOverlapped
  BY InvGivesProperties
<1> QED BY <1>1, WorkflowInvariance, PTL

----------------------------------------------------------------------------
\* Calls of the LLM providers.

LEMMA LeastOf ==
  ASSUME NEW S \in SUBSET Nat, S # {}
  PROVE  \E m \in S : \A n \in S : m <= n
<1>1. \E m \in S : \A n \in S : ~ (<<n, m>> \in OpToRel(<, Nat))
  BY NatLessThanWellFounded, WFMin
<1>2. ASSUME NEW m \in Nat, NEW n \in Nat, n < m PROVE <<n, m>> \in OpToRel(<, Nat)
  BY <1>2, Zenon DEF OpToRel
<1>3. \E m \in S : \A n \in S : ~ (n < m)
  BY <1>1, <1>2, Zenon
<1> QED BY <1>3

\* The record of a call.
Call == [phase : {"idle", "sent", "done"}, list : SUBSET (1..Providers), at : 0..Providers,
         attempt : Nat, failed : BOOLEAN, output : Seq(Output)]

\* Parts of answers only, of providers before the given one, in the order of the list.
PartsBefore(out, before) ==
  /\ \A i \in 1..Len(out) : ~ out[i].whole /\ out[i].from # 0 /\ out[i].from < before
  /\ \A i, j \in 1..Len(out) : i < j => out[i].from < out[j].from

\* What a call in flight has given its caller; nothing if it is a chat.
Fragments(c, r, before) == PartsBefore(r.output, before) /\ (c \in Chats => r.output = <<>>)

\* The pieces of output in the order of the list, the fallback last.
InTurn(out) ==
  \A i, j \in 1..Len(out) :
    i < j => out[i].from # 0 /\ (out[j].from # 0 => out[i].from < out[j].from)

\* A call that is done, as AnsweredInTurn says.
Answers(c, r) ==
  LET out == r.output
      fallback == Len(out) > 0 /\ out[Len(out)].from = 0
  IN /\ fallback <=> (r.failed \/ r.list = {})
     /\ fallback => out[Len(out)].whole /\ \A p \in r.list : p <= r.at
     /\ \A i \in 1..Len(out) : out[i].whole => i = Len(out)
     /\ InTurn(out)
     /\ \A i \in 1..Len(out) : out[i].from <= r.at
     /\ c \in Chats => Len(out) = 1 /\ out[1].whole

\* What every call is, in each of its phases.
CallInv(c, r) ==
  /\ r \in Call
  /\ r.phase = "idle" => r.output = <<>> /\ r.list = {}
  /\ r.phase = "sent" => r.at \in r.list /\ Fragments(c, r, r.at)
  /\ r.phase = "done" => Answers(c, r)

RouterInv == 
  /\ DOMAIN route = Conversations
  /\ \A c \in Conversations : CallInv(c, route[c])

LEMMA MinOf ==
  ASSUME NEW S \in SUBSET (1..Providers), S # {}
  PROVE  Min(S) \in S /\ \A n \in S : Min(S) <= n
<1>1. S \subseteq Nat
  BY ProvidersAssumption
<1>2. \E m \in S : \A n \in S : m <= n
  BY <1>1, LeastOf
<1> QED BY <1>2 DEF Min

LEMMA FromNat ==
  ASSUME NEW out \in Seq(Output), NEW i \in 1..Len(out)
  PROVE  out[i].from \in Nat /\ out[i].whole \in BOOLEAN
<1>1. out[i] \in Output
  OBVIOUS
<1> QED BY <1>1, ProvidersAssumption DEF Output

\* One more piece, of a provider that none of the pieces before is of, or of the fallback.
LEMMA OneMore ==
  ASSUME NEW out \in Seq(Output), NEW piece \in Output, NEW before \in Nat,
         PartsBefore(out, before), piece.from = 0 \/ before <= piece.from
  PROVE  LET new == Append(out, piece)
         IN /\ new \in Seq(Output) /\ Len(new) = Len(out) + 1 /\ Len(out) \in Nat
            /\ new[Len(new)] = piece
            /\ \A i \in 1..Len(out) : new[i] = out[i]
            /\ \A i \in 1..Len(new) : i = Len(new) \/ i \in 1..Len(out)
            /\ InTurn(new)
<1> DEFINE new == Append(out, piece)
           n == Len(out)
<1>1. /\ new \in Seq(Output) /\ Len(new) = n + 1 /\ n \in Nat /\ new[n + 1] = piece
      /\ \A i \in 1..n : new[i] = out[i]
  OBVIOUS
<1>2. piece.from \in Nat
  BY ProvidersAssumption DEF Output
<1>3. \A i \in 1..n : out[i].from \in Nat
  BY FromNat
<1> HIDE DEF new, n
<1>4. InTurn(new)
  <2> SUFFICES ASSUME NEW i \in 1..n + 1, NEW j \in 1..n + 1, i < j
               PROVE  new[i].from # 0 /\ (new[j].from # 0 => new[i].from < new[j].from)
    BY <1>1 DEF InTurn
  <2>1. i \in 1..n /\ new[i] = out[i] /\ out[i].from # 0 /\ out[i].from < before
    BY <1>1 DEF PartsBefore, n
  <2>2. CASE j \in 1..n
    <3>1. new[j] = out[j] /\ out[i].from < out[j].from
      BY <1>1, <2>1, <2>2 DEF PartsBefore, n
    <3> QED BY <2>1, <3>1
  <2>3. CASE j = n + 1
    BY <1>1, <1>2, <1>3, <2>1, <2>3
  <2> QED BY <1>1, <2>2, <2>3
<1> QED BY <1>1, <1>4 DEF new, n

\* A call in flight that is concluded with the answer of its provider, or with the
\* fallback when it has no provider left, has ended as it should.
LEMMA Concludes ==
  ASSUME NEW c \in Conversations, NEW r \in Call, NEW from \in 0..Providers,
         NEW before \in Nat, Fragments(c, r, before), before <= r.at + 1,
         from # 0 => before = from /\ from = r.at /\ r.at \in r.list,
         from = 0 => (r.failed \/ r.list = {}) /\ \A p \in r.list : p <= r.at
  PROVE  CallInv(c, Concluded(r, from))
<1> DEFINE new == Concluded(r, from)
           answer == [from |-> from, whole |-> TRUE]
<1>1. answer \in Output /\ answer.from = from /\ answer.whole
  BY DEF Output
<1> HIDE DEF answer
<1>2. r.output \in Seq(Output) /\ r.at \in Nat /\ before \in Nat /\ from \in Nat
  BY ProvidersAssumption DEF Call
<1> DEFINE out == Append(r.output, answer)
           n == Len(r.output)
<1>3. /\ out \in Seq(Output) /\ Len(out) = n + 1 /\ n \in Nat
      /\ out[Len(out)] = answer
      /\ \A i \in 1..n : out[i] = r.output[i]
      /\ \A i \in 1..Len(out) : i = Len(out) \/ i \in 1..n
      /\ InTurn(out)
  BY <1>1, <1>2, OneMore DEF Fragments
<1> HIDE DEF out
<1>4. /\ new \in Call /\ new.phase = "done" /\ new.list = r.list /\ new.at = r.at
      /\ new.failed = (r.failed /\ from = 0)
      /\ new.output = out
  <2>1. new = [r EXCEPT !.phase = "done", !.failed = @ /\ from = 0, !.output = out]
    BY Zenon DEF Concluded, answer, out
  <2> HIDE DEF new
  <2>2. (r.failed /\ from = 0) \in BOOLEAN
    OBVIOUS
  <2> QED BY <1>3, <2>1, <2>2 DEF Call
<1> HIDE DEF new
<1>5. Answers(c, new)
  <2> DEFINE fallback == Len(out) > 0 /\ out[Len(out)].from = 0
  <2>1. fallback <=> from = 0
    BY <1>1, <1>3
  <2>2. fallback <=> (new.failed \/ new.list = {})
    BY <1>4, <2>1, Zenon
  <2>3. fallback => out[Len(out)].whole /\ \A p \in new.list : p <= new.at
    BY <1>1, <1>3, <1>4, <2>1, Zenon
  <2>4. \A i \in 1..Len(out) : out[i].whole => i = Len(out)
    BY <1>3 DEF Fragments, PartsBefore
  <2>5. \A i \in 1..Len(out) : out[i].from <= new.at
    <3> SUFFICES ASSUME NEW i \in 1..Len(out) PROVE out[i].from <= r.at
      BY <1>4
    <3>1. CASE i = Len(out)
      BY <1>1, <1>2, <1>3, <3>1
    <3>2. CASE i \in 1..n
      <4>1. out[i].from < before /\ out[i].from \in Nat
        BY <1>2, <1>3, <3>2, FromNat DEF Fragments, PartsBefore
      <4> QED BY <1>2, <4>1
    <3> QED BY <1>3, <3>1, <3>2
  <2>6. c \in Chats => Len(out) = 1 /\ out[1].whole
    <3> SUFFICES ASSUME c \in Chats PROVE Len(out) = 1 /\ out[1].whole
      OBVIOUS
    <3>1. n = 0
      BY DEF Fragments
    <3>2. Len(out) = 1
      BY <1>3, <3>1
    <3> QED BY <1>1, <1>3, <3>2, Zenon
  <2> HIDE DEF fallback
  <2>7. fallback <=> (Len(out) > 0 /\ out[Len(out)].from = 0)
    BY DEF fallback
  <2> QED BY <1>3, <1>4, <2>2, <2>3, <2>4, <2>5, <2>6, <2>7, Zenon DEF Answers
<1> QED BY <1>4, <1>5 DEF CallInv, new

\* A call in flight moves on to a later provider of its list, or to the fallback.
LEMMA MovesOn ==
  ASSUME NEW c \in Conversations, NEW r \in Call, r.phase = "sent", r.at \in r.list,
         Fragments(c, r, r.at + 1)
  PROVE  CallInv(c, NextProvider(r))
<1> DEFINE rest == {p \in r.list : p > r.at}
           failed == [r EXCEPT !.failed = TRUE]
<1>1. r.list \subseteq 1..Providers /\ r.at \in 1..Providers /\ r.output \in Seq(Output)
  BY DEF Call
<1>0. /\ failed \in Call /\ failed.phase = "sent" /\ failed.at = r.at /\ failed.list = r.list
      /\ failed.output = r.output /\ failed.failed
  BY DEF Call
<1>2. CASE rest = {}
  <2>1. NextProvider(r) = Concluded(failed, 0)
    BY <1>2 DEF NextProvider
  <2> HIDE DEF failed
  <2>2. \A p \in failed.list : p <= failed.at
    BY <1>0, <1>1, <1>2, ProvidersAssumption
  <2>3. r.at + 1 \in Nat /\ 0 \in 0..Providers /\ r.at + 1 <= failed.at + 1
    BY <1>0, <1>1, ProvidersAssumption
  <2>4. Fragments(c, failed, r.at + 1)
    BY <1>0 DEF Fragments
  <2> QED BY <1>0, <2>1, <2>2, <2>3, <2>4, Concludes
<1>3. CASE rest # {}
  <2> DEFINE next == Min(rest)
             new == [failed EXCEPT !.at = next, !.attempt = 1]
  <2>1. NextProvider(r) = new
    BY <1>3, Zenon DEF NextProvider
  <2> HIDE DEF failed
  <2>2. next \in rest
    BY <1>1, <1>3, MinOf
  <2> HIDE DEF next
  <2>0. next \in 0..Providers /\ next \in r.list
    BY <1>1, <2>2, ProvidersAssumption
  <2>3. /\ new \in Call /\ new.phase = "sent" /\ new.list = r.list /\ new.at = next
        /\ new.output = r.output
    <3> HIDE DEF rest
    <3> QED BY <1>0, <2>0 DEF Call
  <2> HIDE DEF new
  <2>4. r.at + 1 <= next /\ next \in 1..Providers /\ next \in new.list
    BY <1>1, <2>2, <2>3, ProvidersAssumption
  <2>5. Fragments(c, new, next)
    <3>1. \A i \in 1..Len(r.output) : r.output[i].from \in Nat
      BY <1>1, FromNat
    <3> QED BY <1>1, <2>3, <2>4, <3>1, ProvidersAssumption DEF Fragments, PartsBefore
  <2> QED BY <2>1, <2>3, <2>4, <2>5 DEF CallInv
<1> QED BY <1>2, <1>3

\* The same attempt again, or the next provider.
LEMMA Retries ==
  ASSUME NEW c \in Conversations, NEW r \in Call, r.phase = "sent", CallInv(c, r)
  PROVE  CallInv(c, Retry(r)) /\ CallInv(c, NextProvider(r))
<1>1. r.at \in r.list /\ Fragments(c, r, r.at) /\ r.at \in 1..Providers /\ r.output \in Seq(Output)
  BY DEF CallInv, Call
<1>2. Fragments(c, r, r.at + 1)
  <2>1. \A i \in 1..Len(r.output) : r.output[i].from \in Nat
    BY <1>1, FromNat
  <2> QED BY <1>1, <2>1, ProvidersAssumption DEF Fragments, PartsBefore
<1>3. CallInv(c, NextProvider(r))
  BY <1>1, <1>2, MovesOn
<1>4. CASE r.attempt < MaxRetries
  <2> DEFINE new == [r EXCEPT !.failed = TRUE, !.attempt = @ + 1]
  <2>1. Retry(r) = new
    BY <1>4 DEF Retry
  <2>2. /\ new \in Call /\ new.phase = "sent" /\ new.list = r.list /\ new.at = r.at
        /\ new.output = r.output
    <3>1. r.attempt + 1 \in Nat
      BY DEF Call
    <3>2. new = [r EXCEPT !.failed = TRUE, !.attempt = r.attempt + 1]
      BY Zenon
    <3> QED BY <3>1, <3>2 DEF Call
  <2> HIDE DEF new
  <2>3. Fragments(c, new, new.at)
    BY <1>1, <2>2 DEF Fragments
  <2> QED BY <1>1, <1>3, <2>1, <2>2, <2>3 DEF CallInv
<1>5. CASE ~ (r.attempt < MaxRetries)
  BY <1>3, <1>5, Zenon DEF Retry
<1> QED BY <1>4, <1>5

\* The step of one call leaves the others as they are.
LEMMA OneCall ==
  ASSUME RouterInv, NEW c \in Conversations, NEW r, CallInv(c, r), SetRoute(c, r)
  PROVE  RouterInv'
<1>1. /\ DOMAIN route' = Conversations /\ route'[c] = r
      /\ \A d \in Conversations \ {c} : route'[d] = route[d]
  BY DEF RouterInv, SetRoute
<1>2. ASSUME NEW d \in Conversations PROVE CallInv(d, route'[d])
  BY <1>1, Zenon DEF RouterInv
<1> QED BY <1>1, <1>2, Zenon DEF RouterInv, CallInv

\* A call that starts is sent to the first provider of its list, or answered at once.
LEMMA StartStep ==
  ASSUME RouterInv, NEW c \in Conversations, StartConversation(c)
  PROVE  RouterInv'
<1> DEFINE r == route[c]
<1>1. /\ r \in Call /\ r.phase = "idle" /\ r.output = <<>> /\ r.list = {}
  BY DEF RouterInv, CallInv, StartConversation
<1>2. HealthyOrAll \subseteq 1..Providers
  BY DEF HealthyOrAll
<1>3. ASSUME NEW before PROVE Fragments(c, r, before)
  BY <1>1 DEF Fragments, PartsBefore
<1>0. r.at \in Nat
  BY <1>1, ProvidersAssumption DEF Call
<1>4. CASE HealthyOrAll = {}
  <2>1. CallInv(c, Concluded(r, 0))
    <3>1. 0 \in 0..Providers /\ 0 \in Nat /\ 0 <= r.at + 1
      BY <1>0, ProvidersAssumption
    <3> QED BY <1>1, <1>3, <3>1, Concludes
  <2>2. SetRoute(c, Concluded(r, 0))
    BY <1>4 DEF StartConversation
  <2> QED BY <2>1, <2>2, OneCall
<1>5. CASE HealthyOrAll # {}
  <2> DEFINE first == Min(HealthyOrAll)
             new == [r EXCEPT !.phase = "sent", !.list = HealthyOrAll, !.at = first]
  <2>1. SetRoute(c, new)
    BY <1>5, Zenon DEF StartConversation
  <2>2. first \in HealthyOrAll
    BY <1>2, <1>5, MinOf
  <2> HIDE DEF first
  <2>3. /\ new \in Call /\ new.phase = "sent" /\ new.list = HealthyOrAll /\ new.at = first
        /\ new.output = <<>>
    <3>1. first \in 0..Providers /\ HealthyOrAll \in SUBSET (1..Providers)
      BY <1>2, <2>2, ProvidersAssumption
    <3> QED BY <1>1, <3>1 DEF Call
  <2> HIDE DEF new
  <2>4. CallInv(c, new)
    BY <2>2, <2>3 DEF CallInv, Fragments, PartsBefore
  <2> QED BY <2>1, <2>4, OneCall
<1> QED BY <1>4, <1>5

\* A call that is in flight, as the steps of chat and stream_chat find it.
LEMMA FlightFacts ==
  ASSUME RouterInv, NEW c \in Conversations, InFlight(c)
  PROVE  /\ route[c] \in Call /\ route[c].phase = "sent" /\ CallInv(c, route[c])
         /\ Current(c) = route[c].at /\ Current(c) \in 1..Providers
         /\ Current(c) \in route[c].list /\ Fragments(c, route[c], Current(c))
<1>1. route[c] \in Call /\ route[c].phase = "sent" /\ CallInv(c, route[c])
  BY DEF RouterInv, InFlight, CallInv
<1> QED BY <1>1 DEF CallInv, Call, Current

\* The provider of the call answers it.
LEMMA AnsweredBy ==
  ASSUME RouterInv, NEW c \in Conversations, InFlight(c)
  PROVE  CallInv(c, Concluded(route[c], Current(c)))
<1>1. /\ Current(c) \in 0..Providers /\ Current(c) # 0 /\ Current(c) \in Nat
      /\ Current(c) = route[c].at /\ Current(c) <= route[c].at + 1
  BY FlightFacts, ProvidersAssumption
<1> QED BY <1>1, FlightFacts, Concludes

LEMMA ChatStepKeeps ==
  ASSUME RouterInv, NEW c \in Chats, ChatStep(c)
  PROVE  RouterInv'
<1>1. c \in Conversations /\ InFlight(c)
  BY DEF Conversations, ChatStep, ChatAnswered, ChatEmpty, ChatFailed, ChatRefused
<1>2. /\ CallInv(c, Concluded(route[c], Current(c)))
      /\ CallInv(c, Retry(route[c])) /\ CallInv(c, NextProvider(route[c]))
  BY <1>1, FlightFacts, AnsweredBy, Retries
<1>3. \/ SetRoute(c, Concluded(route[c], Current(c)))
      \/ SetRoute(c, Retry(route[c]))
      \/ SetRoute(c, NextProvider(route[c]))
  BY DEF ChatStep, ChatAnswered, ChatEmpty, ChatFailed, ChatRefused
<1> QED BY <1>1, <1>2, <1>3, OneCall

\* A stream of the current provider that leaves no more than a part with the caller.
LEMMA LeavesPart ==
  ASSUME RouterInv, NEW c \in Streams, InFlight(c), NEW part \in Parts(c)
  PROVE  LET out == route[c].output \o part
         IN out \in Seq(Output) /\ PartsBefore(out, route[c].at + 1)
<1> DEFINE fragment == [from |-> Current(c), whole |-> FALSE]
           old == route[c].output
           at == route[c].at
<1>1. /\ at = Current(c) /\ at \in Nat /\ at # 0 /\ at \in 1..Providers
      /\ old \in Seq(Output) /\ PartsBefore(old, at)
  <2>1. c \in Conversations
    BY DEF Conversations
  <2> QED BY <2>1, FlightFacts, ProvidersAssumption DEF Call, Fragments
<1>2. fragment \in Output /\ ~ fragment.whole /\ fragment.from = at
  BY <1>1, ProvidersAssumption DEF Output
<1>0. part = <<>> \/ part = <<fragment>>
  BY DEF Parts
<1> HIDE DEF fragment, old, at
<1>3. \A i \in 1..Len(old) : old[i].from \in Nat
  BY <1>1, FromNat
<1>4. PartsBefore(old, at + 1)
  BY <1>1, <1>3 DEF PartsBefore
<1>5. CASE part = <<>>
  <2>1. old \o part = old
    BY <1>1, <1>5
  <2> QED BY <1>1, <1>4, <2>1 DEF old, at
<1>6. CASE part = <<fragment>>
  <2> DEFINE new == Append(old, fragment)
             n == Len(old)
  <2>1. old \o part = new
    BY <1>1, <1>2, <1>6
  <2>2. /\ new \in Seq(Output) /\ Len(new) = n + 1 /\ n \in Nat /\ new[Len(new)] = fragment
        /\ \A i \in 1..n : new[i] = old[i]
        /\ \A i \in 1..Len(new) : i = Len(new) \/ i \in 1..n
        /\ InTurn(new)
    <3>1. at <= fragment.from
      BY <1>1, <1>2
    <3> QED BY <1>1, <1>2, <3>1, OneMore
  <2> HIDE DEF new
  <2>3. \A i \in 1..Len(new) : ~ new[i].whole /\ new[i].from # 0 /\ new[i].from < at + 1
    <3> SUFFICES ASSUME NEW i \in 1..Len(new)
                 PROVE  ~ new[i].whole /\ new[i].from # 0 /\ new[i].from < at + 1
      OBVIOUS
    <3>1. CASE i = Len(new)
      BY <1>1, <1>2, <2>2, <3>1
    <3>2. CASE i \in 1..n
      <4>1. new[i] = old[i]
        BY <2>2, <3>2
      <4>2. ~ old[i].whole /\ old[i].from # 0 /\ old[i].from < at + 1
        BY <1>4, <3>2 DEF PartsBefore
      <4> QED BY <4>1, <4>2, Zenon
    <3> QED BY <2>2, <3>1, <3>2
  <2>4. \A i, j \in 1..Len(new) : i < j => new[i].from < new[j].from
    BY <2>2, <2>3 DEF InTurn
  <2> QED BY <2>1, <2>2, <2>3, <2>4, Zenon DEF PartsBefore, old, at
<1> QED BY <1>0, <1>5, <1>6

LEMMA StreamStepKeeps ==
  ASSUME RouterInv, NEW c \in Streams, StreamStep(c)
  PROVE  RouterInv'
<1> DEFINE r == route[c]
<1>1. c \in Conversations /\ InFlight(c) /\ c \notin Chats
  BY CallsAssumption DEF Conversations, StreamStep, StreamEnds, StreamFails
<1>2. /\ r \in Call /\ r.phase = "sent" /\ r.at = Current(c) /\ r.at \in 1..Providers /\ r.at \in r.list
      /\ r.at \in Nat
  BY <1>1, FlightFacts, ProvidersAssumption
<1>3. CallInv(c, Concluded(r, Current(c)))
  BY <1>1, AnsweredBy
<1>4. ASSUME NEW part \in Parts(c)
      PROVE  CallInv(c, NextProvider([r EXCEPT !.output = @ \o part]))
  <2> DEFINE broken == [r EXCEPT !.output = @ \o part]
             out == r.output \o part
  <2>1. out \in Seq(Output) /\ PartsBefore(out, r.at + 1)
    BY <1>1, LeavesPart
  <2> HIDE DEF out
  <2>2. broken = [r EXCEPT !.output = out]
    BY Zenon DEF out
  <2> HIDE DEF broken, r
  <2>3. /\ broken \in Call /\ broken.phase = "sent" /\ broken.at = r.at /\ broken.list = r.list
        /\ broken.output = out
    BY <1>2, <2>1, <2>2 DEF Call
  <2>4. Fragments(c, broken, broken.at + 1)
    BY <1>1, <2>1, <2>3 DEF Fragments
  <2>5. CallInv(c, NextProvider(broken))
    BY <1>1, <1>2, <2>3, <2>4, MovesOn
  <2> QED BY <2>5 DEF broken
<1>5. ASSUME NEW part \in Parts(c)
      PROVE  CallInv(c, [r EXCEPT !.phase = "done", !.failed = FALSE, !.output = @ \o part])
  <2> DEFINE new == [r EXCEPT !.phase = "done", !.failed = FALSE, !.output = @ \o part]
             out == r.output \o part
  <2>1. out \in Seq(Output) /\ PartsBefore(out, r.at + 1)
    BY <1>1, LeavesPart
  <2> HIDE DEF out
  <2>2. new = [r EXCEPT !.phase = "done", !.failed = FALSE, !.output = out]
    BY Zenon DEF out
  <2> HIDE DEF new, r
  <2>3. /\ new \in Call /\ new.phase = "done" /\ new.at = r.at /\ new.list = r.list
        /\ new.failed = FALSE /\ new.output = out
    BY <1>2, <2>1, <2>2 DEF Call
  <2>4. \A i \in 1..Len(out) : ~ out[i].whole /\ out[i].from # 0 /\ out[i].from < r.at + 1
    BY <2>1 DEF PartsBefore
  <2>5. \A i \in 1..Len(out) : out[i].from \in Nat
    BY <2>1, FromNat
  <2>6. ~ (Len(out) > 0 /\ out[Len(out)].from = 0)
    BY <2>1, <2>4
  <2>7. ~ (new.failed \/ new.list = {})
    BY <1>2, <2>3
  <2>8. \A i \in 1..Len(out) : out[i].whole => i = Len(out)
    BY <2>4
  <2>9. \A i \in 1..Len(out) : out[i].from <= new.at
    BY <1>2, <2>3, <2>4, <2>5
  <2>10. InTurn(out)
    BY <2>1, <2>4 DEF InTurn, PartsBefore
  <2>11. Answers(c, new)
    BY <1>1, <2>3, <2>6, <2>7, <2>8, <2>9, <2>10, Zenon DEF Answers
  <2>12. CallInv(c, new)
    BY <2>3, <2>11 DEF CallInv
  <2> QED BY <2>12 DEF new
<1>6. CASE StreamEnds(c)
  BY <1>1, <1>3, <1>5, <1>6, OneCall DEF StreamEnds
<1>7. CASE StreamFails(c)
  BY <1>1, <1>4, <1>7, OneCall DEF StreamFails
<1> QED BY <1>6, <1>7 DEF StreamStep

\* However the calls interleave, whatever providers fail and whatever parts of answers reach
\* the callers before: a failure never ends a call, the fallback does after all of the list
\* has failed; a chat ends with one whole answer; and a stream with pieces in the order of
\* the list, none but the last of them whole.
THEOREM AnsweredInTurnHolds == RouterSpec => []AnsweredInTurn
<1>1. RouterInit => RouterInv
  <2> SUFFICES ASSUME RouterInit PROVE RouterInv
    OBVIOUS
  <2>1. NotStarted \in Call
    BY ProvidersAssumption DEF NotStarted, Call
  <2>2. \A c \in Conversations : route[c] = NotStarted
    BY DEF RouterInit
  <2> QED BY <2>1, <2>2 DEF RouterInit, RouterInv, CallInv, NotStarted
<1>2. RouterInv /\ [RouterNext]_routerVars => RouterInv'
  <2> SUFFICES ASSUME RouterInv, [RouterNext]_routerVars PROVE RouterInv'
    OBVIOUS
  <2>1. CASE UNCHANGED routerVars
    BY <2>1 DEF routerVars, RouterInv, CallInv
  <2> QED BY <2>1, StartStep, ChatStepKeeps, StreamStepKeeps DEF RouterNext
<1>3. RouterInv => AnsweredInTurn
  <2> SUFFICES ASSUME RouterInv, NEW c \in Conversations, route[c].phase = "done"
               PROVE  Answers(c, route[c]) /\ DOMAIN route[c].output = 1..Len(route[c].output)
    BY Zenon DEF AnsweredInTurn, Answers, InTurn
  <2>1. CallInv(c, route[c])
    BY Zenon DEF RouterInv
  <2>2. route[c] \in Call /\ Answers(c, route[c])
    BY <2>1, Zenon DEF CallInv
  <2>3. route[c].output \in Seq(Output)
    BY <2>2 DEF Call
  <2> QED BY <2>2, <2>3
<1> QED BY <1>1, <1>2, <1>3, PTL DEF RouterSpec

----------------------------------------------------------------------------
\* Adaptive questions.

Answer == [question : 1..Size, correct : BOOLEAN]

AdaptiveInv ==
  /\ log \in Seq(Answer)
  /\ offered \in 0..Size
  /\ NeverStalls

\* An open question is picked as long as there is one.
LEMMA PicksOpen ==
  ASSUME NEW done, NEW current \in 1..4, NEW streak
  PROVE  LET next == PickNextQuestion(done, current, TRUE, streak)
         IN IF Remaining(done) = {} THEN next = 0 ELSE next \in Remaining(done)
<1> DEFINE target == NextDifficulty(current, TRUE, streak)
           Distance(q) == IF Level(q) < target THEN target - Level(q) ELSE Level(q) - target
           nearest == {q \in Remaining(done) : \A p \in Remaining(done) : Distance(q) <= Distance(p)}
           next == PickNextQuestion(done, current, TRUE, streak)
<1>1. next = IF nearest = {} THEN 0 ELSE Min(nearest)
  BY DEF PickNextQuestion
<1>2. target \in Nat
  BY DEF NextDifficulty
<1> HIDE DEF target
<1>3. Remaining(done) \subseteq Nat /\ \A q \in Remaining(done) : Distance(q) \in Nat
  BY <1>2, SizeAssumption, LevelAssumption DEF Remaining
<1>4. ASSUME Remaining(done) # {} PROVE nearest # {}
  <2> DEFINE Distances == {Distance(q) : q \in Remaining(done)}
  <2> HIDE DEF Distance
  <2>1. PICK d \in Distances : \A e \in Distances : d <= e
    BY <1>3, <1>4, LeastOf
  <2> QED BY <2>1
<1>5. nearest # {} => Min(nearest) \in nearest
  <2> SUFFICES ASSUME nearest # {} PROVE Min(nearest) \in nearest
    OBVIOUS
  <2>1. \E m \in nearest : \A n \in nearest : m <= n
    BY <1>3, LeastOf
  <2> HIDE DEF nearest
  <2> QED BY <2>1 DEF Min
<1>6. nearest \subseteq Remaining(done)
  OBVIOUS
<1> HIDE DEF nearest, next
<1> QED BY <1>1, <1>4, <1>5, <1>6 DEF next

\* After every answer of an adaptive assessment an open question is offered, until none is
\* left, whatever the levels of the questions and the order in which they are answered.
THEOREM NeverStallsHolds == AdaptiveSpec => []NeverStalls
<1>1. AdaptiveInit => AdaptiveInv
  <2> SUFFICES ASSUME AdaptiveInit PROVE AdaptiveInv
    OBVIOUS
  <2>1. log = <<>> /\ offered = 1 /\ Answered = {} /\ 1 \in 1..Size
    BY SizeAssumption DEF AdaptiveInit, Answered
  <2> QED BY <2>1 DEF AdaptiveInv, NeverStalls, Remaining
<1>2. AdaptiveInv /\ [AdaptiveNext]_adaptiveVars => AdaptiveInv'
  <2> SUFFICES ASSUME AdaptiveInv, [AdaptiveNext]_adaptiveVars PROVE AdaptiveInv'
    OBVIOUS
  <2>1. ASSUME NEW q \in 1..Size, NEW correct \in BOOLEAN, SubmitAnswer(q, correct)
        PROVE  AdaptiveInv'
    <3> DEFINE answer == [question |-> q, correct |-> correct]
               done == Answered \cup {q}
    <3>1. /\ log' = Append(log, answer)
          /\ offered' = PickNextQuestion(done, Level(q), TRUE, CurrentStreak(log'))
      BY <2>1 DEF SubmitAnswer
    <3>2. answer \in Answer /\ answer.question = q
      BY DEF Answer
    <3> HIDE DEF answer
    <3>3. log' \in Seq(Answer)
      BY <3>1, <3>2 DEF AdaptiveInv
    <3>4. Answered' = done
      <4>1. /\ DOMAIN log' = DOMAIN log \cup {Len(log) + 1} /\ log'[Len(log) + 1] = answer
            /\ \A i \in DOMAIN log : log'[i] = log[i]
        BY <3>1, <3>2 DEF AdaptiveInv
      <4> QED BY <3>2, <4>1 DEF Answered
    <3>5. IF Remaining(done) = {} THEN offered' = 0 ELSE offered' \in Remaining(done)
      BY <3>1, LevelAssumption, PicksOpen
    <3>6. 0 \notin Answered'
      <4>1. \A a \in Answer : a.question \in 1..Size
        BY DEF Answer
      <4>2. \A i \in DOMAIN log' : log'[i] \in Answer
        BY <3>3
      <4> QED BY <4>1, <4>2, SizeAssumption DEF Answered
    <3>7. Remaining(done) \subseteq 1..Size /\ 0 \notin Remaining(done) /\ Remaining(done) \cap done = {}
      BY SizeAssumption DEF Remaining
    <3>8. NeverStalls'
      <4>1. (Remaining(Answered))' = Remaining(done)
        BY <3>4 DEF Remaining
      <4> HIDE DEF done
      <4> QED BY <3>4, <3>5, <3>6, <3>7, <4>1 DEF NeverStalls
    <3>9. offered' \in 0..Size
      BY <3>5, <3>7, SizeAssumption
    <3> QED BY <3>3, <3>8, <3>9 DEF AdaptiveInv
  <2>2. CASE UNCHANGED adaptiveVars
    BY <2>2 DEF adaptiveVars, AdaptiveInv, NeverStalls, Answered, Remaining
  <2> QED BY <2>1, <2>2 DEF AdaptiveNext
<1>3. AdaptiveInv => NeverStalls
  BY DEF AdaptiveInv
<1> QED BY <1>1, <1>2, <1>3, PTL DEF AdaptiveSpec
===============================================================================
