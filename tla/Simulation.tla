----------------------------- MODULE Simulation -----------------------------
(***************************************************************************)
(* The life of one simulation scenario and of its executions:              *)
(*   services/simulation/simulation_service.py  (create, update, delete)   *)
(*   services/simulation/execution_service.py   (run, execute, cancel)     *)
(*   services/simulation/scheduler.py, workers/tasks.py (Celery)           *)
(*   db/session.py  (one transaction per request)                          *)
(*                                                                         *)
(* scenario and executions are the COMMITTED rows. A request or a worker   *)
(* is a process with one database session: it reads committed rows         *)
(* (READ COMMITTED), keeps what it read in session[p], takes the row locks *)
(* its UPDATE, INSERT and DELETE statements take, and its writes become    *)
(* visible together when it commits. Steps of one session that only add    *)
(* writes to rows it has already locked are merged with the next step.     *)
(* Scenarios do not share state, so one scenario stands for all of them.   *)
(***************************************************************************)
EXTENDS Naturals

CONSTANTS
  Requests,     \* HTTP requests that may be in flight together
  Workers,      \* Celery worker processes
  Execs,        \* execution ids (uuid4, never drawn twice)
  MaxVersion,   \* bound on config_version: edits stop there
  Faults,       \* TRUE when a session may be lost to a crash or an exception
  None          \* no lock owner, no execution

ASSUME ProcessAssumption == Requests \cap Workers = {}
ASSUME NoneAssumption == None \notin Requests \cup Workers \cup Execs
ASSUME VersionAssumption == MaxVersion \in Nat \ {0}
ASSUME FaultsAssumption == Faults \in BOOLEAN

VARIABLES
  scenario,     \* the committed simulation_scenarios row
  executions,   \* the committed simulation_executions rows
  issued,       \* execution ids already drawn
  queue,        \* run_simulation messages waiting in the broker
  scenarioLock, \* the session that holds the row lock of the scenario
  runLock,      \* for each execution, the session that holds its row lock
  session       \* the session of each process

vars == <<scenario, executions, issued, queue, scenarioLock, runLock, session>>

Procs == Requests \cup Workers

(***************************************************************************)
(* Rows.                                                                   *)
(***************************************************************************)
Status == {"draft", "ready", "queued", "running", "completed", "failed", "cancelled"}

EditableStates == {"draft", "cancelled"}
RunnableStates == {"ready", "completed", "failed"}
ActiveStatuses == {"queued", "running"}

\* simulation_config and config_version are written together; of the content
\* only the verdict of SimulationConfigurationValidator matters here.
Config == [version : 1..MaxVersion, valid : BOOLEAN]

ScenarioRow == [status : Status \cup {"gone"}, config : Config]

NoRun == [status |-> "none"]
Run == [status : Status, config : Config]

Exists == scenario.status # "gone"
RunExists(e) == executions[e].status # "none"

HasActive == \E e \in Execs : executions[e].status \in ActiveStatuses

(***************************************************************************)
(* Sessions.                                                               *)
(***************************************************************************)
Phase == {"idle",
          "update",                                  \* PATCH: row read
          "run", "checked", "dispatched",            \* POST run
          "cancelScenario", "cancelExecution",       \* POST cancel
          "delete", "deleteRuns",                    \* DELETE
          "taken", "marked", "scoring"}              \* worker

ConfigPatch == {"keep", "valid", "invalid"}
StatusPatch == {"keep", "draft", "ready", "cancelled"}
Patch == [config : ConfigPatch, status : StatusPatch]
NoPatch == [config |-> "keep", status |-> "keep"]

Session == [phase : Phase,
            row   : ScenarioRow,       \* the scenario as this session read it
            run   : Execs \cup {None}, \* the execution it works on
            patch : Patch]             \* the body of a PATCH

NoRow == [status |-> "gone", config |-> [version |-> 1, valid |-> FALSE]]
Idle == [phase |-> "idle", row |-> NoRow, run |-> None, patch |-> NoPatch]

Begin(p, phase, e, patch) ==
  session' = [session EXCEPT ![p] =
                [phase |-> phase, row |-> scenario, run |-> e, patch |-> patch]]

GoTo(p, phase) == session' = [session EXCEPT ![p].phase = phase]

\* COMMIT or ROLLBACK: the session ends and gives its row locks back.
Close_LocksKept(p) ==
  /\ session' = [session EXCEPT ![p] = Idle]
  /\ UNCHANGED <<scenarioLock, runLock>>

Close(p) ==
  /\ session' = [session EXCEPT ![p] = Idle]
  /\ scenarioLock' = IF scenarioLock = p THEN None ELSE scenarioLock
  /\ runLock' = [e \in Execs |-> IF runLock[e] = p THEN None ELSE runLock[e]]

Rollback(p) ==
  /\ Close(p)
  /\ UNCHANGED <<scenario, executions, issued, queue>>

(***************************************************************************)
(* create_scenario: a draft at version 1, valid or not.                    *)
(***************************************************************************)
Init ==
  /\ \E v \in BOOLEAN :
       scenario = [status |-> "draft", config |-> [version |-> 1, valid |-> v]]
  /\ executions = [e \in Execs |-> NoRun]
  /\ issued = {}
  /\ queue = {}
  /\ scenarioLock = None
  /\ runLock = [e \in Execs |-> None]
  /\ session = [p \in Procs |-> Idle]

(***************************************************************************)
(* update_scenario.                                                        *)
(***************************************************************************)
AllowedTransitions(status) ==
  CASE status = "draft"     -> {"ready", "cancelled"}
    [] status = "ready"     -> {"draft", "cancelled"}
    [] status = "cancelled" -> {"draft", "ready"}
    [] OTHER                -> {}

EffectiveConfig_DoubleBump(row, patch) ==
  IF patch.config = "keep"
  THEN row.config
  ELSE [version |-> row.config.version + 2, valid |-> patch.config = "valid"]

\* apply.get("simulation_config") or scenario.simulation_config
EffectiveConfig(row, patch) ==
  IF patch.config = "keep"
  THEN row.config
  ELSE [version |-> row.config.version + 1, valid |-> patch.config = "valid"]

UpdateRead(r) ==
  /\ session[r].phase = "idle"
  /\ scenario.status \in EditableStates
  /\ \E patch \in Patch :
       /\ patch # NoPatch
       /\ patch.status = "keep" \/ patch.status \in AllowedTransitions(scenario.status)
       /\ patch.status = "ready" => EffectiveConfig(scenario, patch).valid
       /\ patch.config = "keep" \/ scenario.config.version < MaxVersion
       /\ Begin(r, "update", None, patch)
  /\ UNCHANGED <<scenario, executions, issued, queue, scenarioLock, runLock>>

\* UPDATE simulation_scenarios SET <patched columns> WHERE id = ... ; commit.
\* The values come from the row as it was read; the WHERE does not look at it.
UpdateCommit(r) ==
  /\ session[r].phase = "update"
  /\ scenarioLock = None
  /\ Exists
  /\ LET row == session[r].row
         patch == session[r].patch
     IN scenario' = [status |-> IF patch.status = "keep" THEN scenario.status ELSE patch.status,
                     config |-> IF patch.config = "keep" THEN scenario.config
                                ELSE EffectiveConfig(row, patch)]
  /\ Close(r)
  /\ UNCHANGED <<executions, issued, queue>>

(***************************************************************************)
(* run_scenario and its route.                                             *)
(***************************************************************************)
\* Ids no execution has had and no other session has in hand.
FreshIds == {e \in Execs \ issued : \A p \in Procs : session[p].run # e}

RunRead(r) ==
  /\ session[r].phase = "idle"
  /\ scenario.status \in RunnableStates
  /\ \E e \in FreshIds : Begin(r, "run", e, NoPatch)
  /\ UNCHANGED <<scenario, executions, issued, queue, scenarioLock, runLock>>

\* has_active, then the validator on the configuration read before.
RunCheck_TrustsReady(r) ==
  /\ session[r].phase = "run"
  /\ ~ HasActive
  /\ GoTo(r, "checked")
  /\ UNCHANGED <<scenario, executions, issued, queue, scenarioLock, runLock>>

RunCheck(r) ==
  /\ session[r].phase = "run"
  /\ ~ HasActive
  /\ session[r].row.config.valid
  /\ GoTo(r, "checked")
  /\ UNCHANGED <<scenario, executions, issued, queue, scenarioLock, runLock>>

RunRefused(r) ==
  /\ session[r].phase = "run"
  /\ HasActive \/ ~ session[r].row.config.valid
  /\ Rollback(r)

\* INSERT the execution, UPDATE the scenario, hand the message to the broker:
\* all of it before the request commits.
RunDispatch(r) ==
  /\ session[r].phase = "checked"
  /\ scenarioLock = None
  /\ Exists
  /\ issued' = issued \cup {session[r].run}
  /\ queue' = queue \cup {session[r].run}
  /\ scenarioLock' = r
  /\ GoTo(r, "dispatched")
  /\ UNCHANGED <<scenario, executions, runLock>>

RunCommit(r) ==
  /\ session[r].phase = "dispatched"
  /\ executions' = [executions EXCEPT ![session[r].run] =
                      [status |-> "queued", config |-> session[r].row.config]]
  /\ scenario' = [scenario EXCEPT !.status = "queued"]
  /\ Close(r)
  /\ UNCHANGED <<issued, queue>>

\* No broker, or the dispatch failed: execute() runs in the same session, and
\* the execution is queued, running and finished within one transaction.
RunInline(r) ==
  /\ session[r].phase = "checked"
  /\ scenarioLock = None
  /\ Exists
  /\ issued' = issued \cup {session[r].run}
  /\ \E outcome \in {"completed", "failed"} :
       /\ executions' = [executions EXCEPT ![session[r].run] =
                           [status |-> outcome, config |-> session[r].row.config]]
       /\ scenario' = [scenario EXCEPT !.status = outcome]
  /\ Close(r)
  /\ UNCHANGED queue

(***************************************************************************)
(* cancel_execution. The flush writes the scenario before the execution    *)
(* (parent before child), and the scenario only if its status as read was  *)
(* not already "cancelled": the ORM writes changed columns.                *)
(***************************************************************************)
CancelRead(r) ==
  /\ session[r].phase = "idle"
  /\ Exists
  /\ \E e \in Execs :
       /\ executions[e].status \in ActiveStatuses
       /\ Begin(r, IF scenario.status = "cancelled" THEN "cancelExecution"
                                                    ELSE "cancelScenario", e, NoPatch)
  /\ UNCHANGED <<scenario, executions, issued, queue, scenarioLock, runLock>>

CancelScenario(r) ==
  /\ session[r].phase = "cancelScenario"
  /\ scenarioLock = None
  /\ Exists
  /\ scenarioLock' = r
  /\ GoTo(r, "cancelExecution")
  /\ UNCHANGED <<scenario, executions, issued, queue, runLock>>

CancelCommit_ScenarioForgotten(r) ==
  /\ session[r].phase = "cancelExecution"
  /\ RunExists(session[r].run)
  /\ runLock[session[r].run] = None
  /\ executions' = [executions EXCEPT ![session[r].run].status = "cancelled"]
  /\ Close(r)
  /\ UNCHANGED <<scenario, issued, queue>>

CancelCommit(r) ==
  /\ session[r].phase = "cancelExecution"
  /\ RunExists(session[r].run)
  /\ runLock[session[r].run] = None
  /\ executions' = [executions EXCEPT ![session[r].run].status = "cancelled"]
  /\ scenario' = IF session[r].row.status = "cancelled" THEN scenario
                 ELSE [scenario EXCEPT !.status = "cancelled"]
  /\ Close(r)
  /\ UNCHANGED <<issued, queue>>

(***************************************************************************)
(* delete_scenario: one DELETE; the foreign keys cascade to the runs.      *)
(***************************************************************************)
DeleteRead(r) ==
  /\ session[r].phase = "idle"
  /\ scenario.status \in EditableStates
  /\ Begin(r, "delete", None, NoPatch)
  /\ UNCHANGED <<scenario, executions, issued, queue, scenarioLock, runLock>>

DeleteScenario(r) ==
  /\ session[r].phase = "delete"
  /\ scenarioLock = None
  /\ Exists
  /\ scenarioLock' = r
  /\ GoTo(r, "deleteRuns")
  /\ UNCHANGED <<scenario, executions, issued, queue, runLock>>

DeleteCommit(r) ==
  /\ session[r].phase = "deleteRuns"
  /\ \A e \in Execs : runLock[e] = None
  /\ scenario' = [scenario EXCEPT !.status = "gone"]
  /\ executions' = [e \in Execs |-> NoRun]
  /\ Close(r)
  /\ UNCHANGED <<issued, queue>>

\* The row went away while the request waited: not found, a foreign key
\* violation, or an UPDATE that matches no row.
RequestMiss(r) ==
  /\ session[r].phase \in {"update", "checked", "cancelScenario", "cancelExecution", "delete"}
  /\ ~ Exists
  /\ Rollback(r)

(***************************************************************************)
(* The worker: run_simulation calls execute() in a session of its own and  *)
(* never commits it.                                                       *)
(***************************************************************************)
TakeRun(w) ==
  /\ session[w].phase = "idle"
  /\ \E e \in queue :
       /\ executions[e].status \in {"queued", "failed"}
       /\ Begin(w, "taken", e, NoPatch)
       /\ queue' = queue \ {e}
  /\ UNCHANGED <<scenario, executions, issued, scenarioLock, runLock>>

\* Not found (not committed yet, or deleted), or a status execute() returns on.
TakeStale(w) ==
  /\ session[w].phase = "idle"
  /\ \E e \in queue :
       /\ executions[e].status \notin {"queued", "failed"}
       /\ queue' = queue \ {e}
  /\ UNCHANGED <<scenario, executions, issued, scenarioLock, runLock, session>>

\* UPDATE the execution to running, then read the scenario.
MarkRun(w) ==
  /\ session[w].phase = "taken"
  /\ RunExists(session[w].run)
  /\ runLock[session[w].run] = None
  /\ runLock' = [runLock EXCEPT ![session[w].run] = w]
  /\ session' = [session EXCEPT ![w].phase = "marked", ![w].row = scenario]
  /\ UNCHANGED <<scenario, executions, issued, queue, scenarioLock>>

MarkMiss(w) ==
  /\ session[w].phase = "taken"
  /\ ~ RunExists(session[w].run)
  /\ Rollback(w)

\* UPDATE the scenario to running, unless it was read as cancelled.
MarkScenario(w) ==
  /\ session[w].phase = "marked"
  /\ \/ /\ session[w].row.status = "cancelled"
        /\ UNCHANGED scenarioLock
     \/ /\ session[w].row.status # "cancelled"
        /\ scenarioLock = None
        /\ scenarioLock' = w
  /\ GoTo(w, "scoring")
  /\ UNCHANGED <<scenario, executions, issued, queue, runLock>>

\* The candidates are scored and the results flushed; both rows are set to
\* completed, which needs the lock of the scenario; then the session closes
\* without a commit and all of it is rolled back.
WorkerEnds_ProgressCommitted(w) ==
  /\ session[w].phase = "scoring"
  /\ scenarioLock \in {None, w}
  /\ executions' = [executions EXCEPT ![session[w].run].status = "running"]
  /\ Close(w)
  /\ UNCHANGED <<scenario, issued, queue>>

WorkerEnds(w) ==
  /\ session[w].phase = "scoring"
  /\ scenarioLock \in {None, w}
  /\ Rollback(w)

(***************************************************************************)
(* Failures.                                                               *)
(***************************************************************************)
\* An exception, a lost connection, a killed process, the failure branch of
\* execute() in a worker: whatever the session wrote is rolled back.
Abort(p) ==
  /\ Faults
  /\ session[p].phase # "idle"
  /\ Rollback(p)

WaitsForScenario(w) ==
  /\ scenarioLock \notin {None, w}
  /\ \/ session[w].phase = "marked" /\ session[w].row.status # "cancelled"
     \/ session[w].phase = "scoring"

WaitsForRun(r, e) ==
  \/ session[r].phase = "cancelExecution" /\ session[r].run = e
  \/ session[r].phase = "deleteRuns" /\ RunExists(e)

\* r holds the scenario and waits for a run, whose holder w waits for the
\* scenario: requests lock parent first, the worker locks the child first.
Deadlocked(r, w) ==
  /\ scenarioLock = r
  /\ \E e \in Execs : runLock[e] = w /\ WaitsForRun(r, e)
  /\ WaitsForScenario(w)

\* PostgreSQL aborts one transaction of the cycle.
BreakDeadlock(r, w) ==
  /\ Deadlocked(r, w)
  /\ Rollback(r) \/ Rollback(w)

RequestStep(r) ==
  \/ UpdateRead(r) \/ UpdateCommit(r)
  \/ RunRead(r) \/ RunCheck(r) \/ RunRefused(r)
  \/ RunDispatch(r) \/ RunCommit(r) \/ RunInline(r)
  \/ CancelRead(r) \/ CancelScenario(r) \/ CancelCommit(r)
  \/ DeleteRead(r) \/ DeleteScenario(r) \/ DeleteCommit(r)
  \/ RequestMiss(r)

WorkerStep(w) ==
  \/ TakeRun(w) \/ TakeStale(w) \/ MarkRun(w) \/ MarkMiss(w)
  \/ MarkScenario(w) \/ WorkerEnds(w)

Next ==
  \/ \E r \in Requests : RequestStep(r)
  \/ \E w \in Workers : WorkerStep(w)
  \/ \E r \in Requests, w \in Workers : BreakDeadlock(r, w)
  \/ \E p \in Procs : Abort(p)

Spec == Init /\ [][Next]_vars

(***************************************************************************)
(* Fairness. A request that has begun goes on (asyncio keeps scheduling    *)
(* its coroutine), a worker goes on and keeps polling, PostgreSQL grants   *)
(* row locks in the order they were asked for (hence strong fairness of    *)
(* the steps that wait for one) and runs its deadlock detector. Nothing    *)
(* obliges a user to send a request, and nothing obliges a fault.          *)
(***************************************************************************)
RequestContinues(r) ==
  \/ UpdateCommit(r)
  \/ RunCheck(r) \/ RunRefused(r) \/ RunDispatch(r) \/ RunCommit(r) \/ RunInline(r)
  \/ CancelScenario(r) \/ CancelCommit(r)
  \/ DeleteScenario(r) \/ DeleteCommit(r)
  \/ RequestMiss(r)

Fairness ==
  /\ \A r \in Requests : SF_vars(RequestContinues(r))
  /\ \A w \in Workers : SF_vars(WorkerStep(w))
  /\ \A r \in Requests, w \in Workers : WF_vars(BreakDeadlock(r, w))

FairSpec == Spec /\ Fairness

(***************************************************************************)
(* Properties.                                                             *)
(***************************************************************************)
\* Every row, lock and session has its type.
TypeOK ==
  /\ scenario \in ScenarioRow
  /\ executions \in [Execs -> {NoRun} \cup Run]
  /\ issued \in SUBSET Execs
  /\ queue \in SUBSET Execs
  /\ scenarioLock \in Procs \cup {None}
  /\ runLock \in [Execs -> Procs \cup {None}]
  /\ session \in [Procs -> Session]

\* A scenario that shows "queued" has a queued execution. Without one nothing
\* could ever move it again: it can be neither edited nor deleted nor run, and
\* there is no execution left to cancel. (_require_editable, run_scenario's
\* guards and cancel_execution's guard; cancels race with runs and edits.)
NeverWedged ==
  scenario.status = "queued" => \E e \in Execs : executions[e].status = "queued"

\* Whatever edits race with it, an execution was only ever filed for a
\* configuration the validator accepted (run_scenario validates again, and
\* has to: see ReadyIsVerified).
SnapshotsVerified ==
  \A e \in Execs : RunExists(e) => executions[e].config.valid

\* The durable executions obey the abstract ledger: in particular a worker
\* never changes one, and a snapshot never changes after it was filed.
Ledger == INSTANCE RunLedger WITH ledger <- executions, open <- Exists, Configs <- Config

LedgerSpec == Ledger!Spec

\* Every session ends, although requests and workers lock the two rows in
\* opposite orders.
SessionsEnd ==
  \A p \in Procs : session[p].phase # "idle" ~> session[p].phase = "idle"

(***************************************************************************)
(* What the repository says of the program and the program does not do.    *)
(***************************************************************************)
\* "This simulation already has a queued or running execution." (the 409 of
\* run_scenario; README: "409 on a duplicate active run").
SingleActive ==
  \A d, e \in Execs :
    executions[d].status \in ActiveStatuses /\ executions[e].status \in ActiveStatuses => d = e

\* "ready scenarios are treated as immutable, verified configurations"
\* (comment in update_scenario).
ReadyIsVerified == scenario.status = "ready" => scenario.config.valid

\* README: ready -> queued -> running -> completed (via the execution engine):
\* a committed run whose message waits in the broker is finished by a worker.
QueuedIsExecuted ==
  \A e \in Execs :
    executions[e].status = "queued" /\ e \in queue ~> executions[e].status # "queued"
=============================================================================
