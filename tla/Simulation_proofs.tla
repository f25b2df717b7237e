-------------------------- MODULE Simulation_proofs --------------------------
(***************************************************************************)
(* Theorems about Simulation, for every number of requests, workers and    *)
(* executions.                                                             *)
(***************************************************************************)
EXTENDS Simulation, TLAPS

(***************************************************************************)
(* The inductive invariant. What a session may rely on between two of its  *)
(* steps: which locks its phase implies, that the id it drew is still its  *)
(* own, what can have happened to the execution it is about to cancel.     *)
(***************************************************************************)
\* An edit that was accepted may still bump the version it read.
EditsBounded ==
  \A p \in Procs :
    session[p].phase = "update" /\ session[p].patch.config # "keep" =>
      session[p].row.config.version < MaxVersion

\* These phases hold the lock of the scenario, which therefore is not deleted.
HoldsScenario(p) ==
  \/ session[p].phase \in {"dispatched", "deleteRuns"}
  \/ session[p].phase = "cancelExecution" /\ session[p].row.status # "cancelled"

LocksHeld ==
  \A p \in Procs :
    /\ HoldsScenario(p) => scenarioLock = p /\ Exists
    /\ session[p].phase = "cancelScenario" => session[p].row.status # "cancelled"

Reserving == {"run", "checked", "dispatched"}

\* Ids are unique, and runs exist only while their scenario does.
IdsUnique ==
  /\ \A e \in Execs : RunExists(e) => e \in issued /\ Exists
  /\ \A p \in Procs :
       /\ session[p].phase \in Reserving => session[p].run \in Execs /\ ~ RunExists(session[p].run)
       /\ session[p].phase \in {"run", "checked"} => session[p].run \notin issued
       /\ session[p].phase = "dispatched" => session[p].run \in issued
  /\ \A p, q \in Procs :
       session[p].phase \in Reserving /\ session[q].phase \in Reserving
         /\ session[p].run = session[q].run => p = q

Cancelling == {"cancelScenario", "cancelExecution"}

\* Between the read and the write of a cancel, the execution can only have
\* been cancelled by somebody else, or deleted with the scenario.
TargetsStable ==
  \A p \in Procs :
    session[p].phase \in Cancelling =>
      /\ session[p].run \in Execs
      /\ Exists => executions[session[p].run].status \in {"queued", "cancelled"}

Verified ==
  /\ \A e \in Execs : RunExists(e) =>
       /\ executions[e].config.valid
       /\ executions[e].status \in {"queued", "completed", "failed", "cancelled"}
  /\ \A p \in Procs : session[p].phase \in {"checked", "dispatched"} => session[p].row.config.valid

\* p is going to cancel e without touching the scenario.
Skips(p, e) ==
  /\ session[p].phase = "cancelExecution"
  /\ session[p].row.status = "cancelled"
  /\ session[p].run = e

\* The queued execution behind a queued scenario is not the target of a
\* cancel that would leave the scenario queued.
QueuedHasRun ==
  scenario.status = "queued" =>
    \E e \in Execs : /\ executions[e].status = "queued"
                     /\ \A p \in Procs : ~ Skips(p, e)

IInv ==
  TypeOK /\ EditsBounded /\ LocksHeld /\ IdsUnique /\ TargetsStable /\ Verified /\ QueuedHasRun

(***************************************************************************)
(* Type correctness.                                                       *)
(***************************************************************************)
LEMMA NoneIsNoProcess == None \notin Procs /\ None \notin Execs
BY NoneAssumption DEF Procs

LEMMA IdleType == Idle \in Session
BY VersionAssumption
   DEF Idle, Session, NoRow, NoPatch, ScenarioRow, Config, Patch, Phase, ConfigPatch, StatusPatch

LEMMA BeginType ==
  ASSUME TypeOK, NEW p \in Procs, NEW ph \in Phase, NEW e \in Execs \cup {None},
         NEW patch \in Patch, Begin(p, ph, e, patch)
  PROVE  session' \in [Procs -> Session]
<1>1. [phase |-> ph, row |-> scenario, run |-> e, patch |-> patch] \in Session
  BY DEF TypeOK, Session
<1>2. QED
  BY <1>1 DEF TypeOK, Begin

LEMMA GoToType ==
  ASSUME TypeOK, NEW p \in Procs, NEW ph \in Phase, GoTo(p, ph)
  PROVE  session' \in [Procs -> Session]
BY DEF TypeOK, GoTo, Session

LEMMA CloseType ==
  ASSUME TypeOK, NEW p \in Procs, Close(p)
  PROVE  /\ session' \in [Procs -> Session]
         /\ scenarioLock' \in Procs \cup {None}
         /\ runLock' \in [Execs -> Procs \cup {None}]
BY IdleType DEF TypeOK, Close

LEMMA RollbackType ==
  ASSUME TypeOK, NEW p \in Procs, Rollback(p)
  PROVE  TypeOK'
BY CloseType DEF TypeOK, Rollback

LEMMA PatchType == NoPatch \in Patch
BY DEF NoPatch, Patch, ConfigPatch, StatusPatch

LEMMA ReadType ==
  ASSUME TypeOK, NEW p \in Procs, NEW ph \in Phase, NEW e \in Execs \cup {None},
         NEW patch \in Patch, Begin(p, ph, e, patch),
         UNCHANGED <<scenario, executions, issued, scenarioLock, runLock>>,
         queue' \in SUBSET Execs
  PROVE  TypeOK'
BY BeginType DEF TypeOK

LEMMA TypeStep ==
  ASSUME TypeOK, EditsBounded, IdsUnique, TargetsStable, [Next]_vars
  PROVE  TypeOK'
<1>1. ASSUME NEW r \in Requests, RequestStep(r)
      PROVE  TypeOK'
  <2>0. r \in Procs
    BY DEF Procs
  <2>1. CASE UpdateRead(r)
    <3>1. PICK patch \in Patch : Begin(r, "update", None, patch)
      BY <2>1 DEF UpdateRead
    <3>2. QED
      BY <2>1, <2>0, <3>1, ReadType DEF UpdateRead, TypeOK, Phase
  <2>2. CASE UpdateCommit(r)
    <3>1. session[r] \in Session
      BY <2>0 DEF TypeOK
    <3>2. EffectiveConfig(session[r].row, session[r].patch) \in Config \/ session[r].patch.config = "keep"
      BY <3>1, <2>2, <2>0, VersionAssumption
      DEF EffectiveConfig, EditsBounded, UpdateCommit, Session, ScenarioRow, Config, Patch
    <3>3. scenario' \in ScenarioRow
      BY <3>1, <3>2, <2>2
      DEF UpdateCommit, ScenarioRow, TypeOK, Session, Patch, StatusPatch, Status
    <3>4. QED
      BY <2>2, <2>0, <3>3, CloseType DEF UpdateCommit, TypeOK
  <2>3. CASE RunRead(r)
    <3>1. PICK e \in FreshIds : Begin(r, "run", e, NoPatch)
      BY <2>3 DEF RunRead
    <3>2. QED
      BY <2>3, <2>0, <3>1, ReadType, PatchType DEF RunRead, TypeOK, Phase, FreshIds
  <2>4. CASE RunCheck(r)
    BY <2>4, <2>0, GoToType DEF RunCheck, TypeOK, Phase
  <2>5. CASE RunRefused(r)
    BY <2>5, <2>0, RollbackType DEF RunRefused
  <2>6. CASE RunDispatch(r)
    <3>1. session[r].run \in Execs
      BY <2>6, <2>0 DEF RunDispatch, IdsUnique, Reserving
    <3>2. QED
      BY <2>6, <2>0, <3>1, GoToType DEF RunDispatch, TypeOK, Phase
  <2>7. CASE RunCommit(r)
    <3>1. session[r].row.config \in Config
      BY <2>7, <2>0 DEF TypeOK, Session, ScenarioRow
    <3>2. executions' \in [Execs -> {NoRun} \cup Run]
      BY <2>7, <3>1 DEF RunCommit, TypeOK, Run, Status
    <3>3. scenario' \in ScenarioRow
      BY <2>7 DEF RunCommit, TypeOK, ScenarioRow, Status
    <3>4. QED
      BY <2>7, <2>0, <3>2, <3>3, CloseType DEF RunCommit, TypeOK
  <2>8. CASE RunInline(r)
    <3>1. session[r].row.config \in Config
      BY <2>8, <2>0 DEF TypeOK, Session, ScenarioRow
    <3>2. session[r].run \in Execs
      BY <2>8, <2>0 DEF RunInline, IdsUnique, Reserving
    <3>3. PICK outcome \in {"completed", "failed"} :
            /\ executions' = [executions EXCEPT ![session[r].run] =
                                [status |-> outcome, config |-> session[r].row.config]]
            /\ scenario' = [scenario EXCEPT !.status = outcome]
      BY <2>8 DEF RunInline
    <3>4. executions' \in [Execs -> {NoRun} \cup Run]
      BY <3>1, <3>3 DEF TypeOK, Run, Status
    <3>5. scenario' \in ScenarioRow
      BY <3>3 DEF TypeOK, ScenarioRow, Status
    <3>6. QED
      BY <2>8, <2>0, <3>2, <3>4, <3>5, CloseType DEF RunInline, TypeOK
  <2>9. CASE CancelRead(r)
    <3>1. PICK e \in Execs :
            Begin(r, IF scenario.status = "cancelled" THEN "cancelExecution" ELSE "cancelScenario",
                  e, NoPatch)
      BY <2>9 DEF CancelRead
    <3>2. QED
      BY <2>9, <2>0, <3>1, ReadType, PatchType DEF CancelRead, TypeOK, Phase
  <2>10. CASE CancelScenario(r)
    BY <2>10, <2>0, GoToType DEF CancelScenario, TypeOK, Phase
  <2>11. CASE CancelCommit(r)
    <3>1. session[r].run \in Execs
      BY <2>11, <2>0 DEF CancelCommit, TargetsStable, Cancelling
    <3>2. executions[session[r].run] \in Run
      BY <2>11, <3>1 DEF CancelCommit, TypeOK, RunExists, NoRun
    <3>3. [executions[session[r].run] EXCEPT !.status = "cancelled"] \in Run
      BY <3>2 DEF Run, Status
    <3>4. executions' \in [Execs -> {NoRun} \cup Run]
      BY <2>11, <3>3 DEF CancelCommit, TypeOK
    <3>5. scenario' \in ScenarioRow
      BY <2>11 DEF CancelCommit, TypeOK, ScenarioRow, Status
    <3>6. QED
      BY <2>11, <2>0, <3>4, <3>5, CloseType DEF CancelCommit, TypeOK
  <2>12. CASE DeleteRead(r)
    BY <2>12, <2>0, ReadType, PatchType DEF DeleteRead, TypeOK, Phase
  <2>13. CASE DeleteScenario(r)
    BY <2>13, <2>0, GoToType DEF DeleteScenario, TypeOK, Phase
  <2>14. CASE DeleteCommit(r)
    <3>1. scenario' \in ScenarioRow /\ executions' \in [Execs -> {NoRun} \cup Run]
      BY <2>14 DEF DeleteCommit, TypeOK, ScenarioRow
    <3>2. QED
      BY <2>14, <2>0, <3>1, CloseType DEF DeleteCommit, TypeOK
  <2>15. CASE RequestMiss(r)
    BY <2>15, <2>0, RollbackType DEF RequestMiss
  <2> QED
    BY <1>1, <2>1, <2>2, <2>3, <2>4, <2>5, <2>6, <2>7, <2>8, <2>9, <2>10, <2>11, <2>12, <2>13, <2>14, <2>15 DEF RequestStep
<1>2. ASSUME NEW w \in Workers, WorkerStep(w)
      PROVE  TypeOK'
  <2>0. w \in Procs
    BY DEF Procs
  <2>1. CASE TakeRun(w)
    <3>1. PICK e \in queue : Begin(w, "taken", e, NoPatch) /\ queue' = queue \ {e}
      BY <2>1 DEF TakeRun
    <3>2. QED
      BY <2>1, <2>0, <3>1, ReadType, PatchType DEF TakeRun, TypeOK, Phase
  <2>2. CASE TakeStale(w)
    BY <2>2, <2>0 DEF TakeStale, TypeOK
  <2>3. CASE MarkRun(w)
    <3>1. [session[w] EXCEPT !.phase = "marked", !.row = scenario] \in Session
      BY <2>0 DEF TypeOK, Session, Phase
    <3>2. QED
      BY <2>3, <2>0, <3>1 DEF MarkRun, TypeOK
  <2>4. CASE MarkMiss(w)
    BY <2>4, <2>0, RollbackType DEF MarkMiss
  <2>5. CASE MarkScenario(w)
    BY <2>5, <2>0, GoToType DEF MarkScenario, TypeOK, Phase
  <2>6. CASE WorkerEnds(w)
    BY <2>6, <2>0, RollbackType DEF WorkerEnds
  <2> QED
    BY <1>2, <2>1, <2>2, <2>3, <2>4, <2>5, <2>6 DEF WorkerStep
<1>3. ASSUME NEW p \in Procs, Rollback(p)
      PROVE  TypeOK'
  BY <1>3, RollbackType
<1>4. CASE UNCHANGED vars
  BY <1>4 DEF TypeOK, vars
<1> QED
  <2>1. ASSUME NEW r \in Requests, NEW w \in Workers, BreakDeadlock(r, w)
        PROVE  TypeOK'
    BY <2>1, <1>3 DEF BreakDeadlock, Procs
  <2>2. ASSUME NEW p \in Procs, Abort(p)
        PROVE  TypeOK'
    BY <2>2, <1>3 DEF Abort
  <2> QED
    BY <1>1, <1>2, <1>4, <2>1, <2>2 DEF Next

LEMMA EditsBoundedStep ==
  ASSUME TypeOK, EditsBounded, [Next]_vars
  PROVE  EditsBounded'
<1>1. ASSUME NEW r \in Requests, RequestStep(r)
      PROVE  EditsBounded'
  <2>0. r \in Procs
    BY DEF Procs
  <2>1. CASE UpdateRead(r)
    BY <2>1, <2>0 DEF UpdateRead, Begin, EditsBounded, TypeOK
  <2>2. CASE UpdateCommit(r)
    BY <2>2, <2>0 DEF UpdateCommit, Close, Idle, EditsBounded, TypeOK
  <2>3. CASE RunRead(r)
    BY <2>3, <2>0 DEF RunRead, Begin, EditsBounded, TypeOK
  <2>4. CASE RunCheck(r)
    BY <2>4, <2>0 DEF RunCheck, GoTo, EditsBounded, TypeOK
  <2>5. CASE RunRefused(r)
    BY <2>5, <2>0 DEF RunRefused, Rollback, Close, Idle, EditsBounded, TypeOK
  <2>6. CASE RunDispatch(r)
    BY <2>6, <2>0 DEF RunDispatch, GoTo, EditsBounded, TypeOK
  <2>7. CASE RunCommit(r)
    BY <2>7, <2>0 DEF RunCommit, Close, Idle, EditsBounded, TypeOK
  <2>8. CASE RunInline(r)
    BY <2>8, <2>0 DEF RunInline, Close, Idle, EditsBounded, TypeOK
  <2>9. CASE CancelRead(r)
    BY <2>9, <2>0 DEF CancelRead, Begin, EditsBounded, TypeOK
  <2>10. CASE CancelScenario(r)
    BY <2>10, <2>0 DEF CancelScenario, GoTo, EditsBounded, TypeOK
  <2>11. CASE CancelCommit(r)
    BY <2>11, <2>0 DEF CancelCommit, Close, Idle, EditsBounded, TypeOK
  <2>12. CASE DeleteRead(r)
    BY <2>12, <2>0 DEF DeleteRead, Begin, EditsBounded, TypeOK
  <2>13. CASE DeleteScenario(r)
    BY <2>13, <2>0 DEF DeleteScenario, GoTo, EditsBounded, TypeOK
  <2>14. CASE DeleteCommit(r)
    BY <2>14, <2>0 DEF DeleteCommit, Close, Idle, EditsBounded, TypeOK
  <2>15. CASE RequestMiss(r)
    BY <2>15, <2>0 DEF RequestMiss, Rollback, Close, Idle, EditsBounded, TypeOK
  <2> QED
    BY <1>1, <2>1, <2>2, <2>3, <2>4, <2>5, <2>6, <2>7, <2>8, <2>9, <2>10, <2>11, <2>12, <2>13, <2>14, <2>15 DEF RequestStep
<1>2. ASSUME NEW w \in Workers, WorkerStep(w)
      PROVE  EditsBounded'
  <2>0. w \in Procs
    BY DEF Procs
  <2>1. CASE TakeRun(w)
    BY <2>1, <2>0 DEF TakeRun, Begin, EditsBounded, TypeOK
  <2>2. CASE TakeStale(w)
    BY <2>2, <2>0 DEF TakeStale, EditsBounded, TypeOK
  <2>3. CASE MarkRun(w)
    BY <2>3, <2>0 DEF MarkRun, EditsBounded, TypeOK
  <2>4. CASE MarkMiss(w)
    BY <2>4, <2>0 DEF MarkMiss, Rollback, Close, Idle, EditsBounded, TypeOK
  <2>5. CASE MarkScenario(w)
    BY <2>5, <2>0 DEF MarkScenario, GoTo, EditsBounded, TypeOK
  <2>6. CASE WorkerEnds(w)
    BY <2>6, <2>0 DEF WorkerEnds, Rollback, Close, Idle, EditsBounded, TypeOK
  <2> QED
    BY <1>2, <2>1, <2>2, <2>3, <2>4, <2>5, <2>6 DEF WorkerStep
<1>3. ASSUME NEW p \in Procs, Rollback(p)
      PROVE  EditsBounded'
  BY <1>3 DEF Rollback, Close, Idle, EditsBounded, TypeOK
<1>4. CASE UNCHANGED vars
  BY <1>4 DEF vars, EditsBounded, TypeOK
<1> QED
  <2>1. ASSUME NEW r \in Requests, NEW w \in Workers, BreakDeadlock(r, w)
        PROVE  EditsBounded'
    BY <2>1, <1>3 DEF BreakDeadlock, Procs
  <2>2. ASSUME NEW p \in Procs, Abort(p)
        PROVE  EditsBounded'
    BY <2>2, <1>3 DEF Abort
  <2> QED
    BY <1>1, <1>2, <1>4, <2>1, <2>2 DEF Next

LEMMA LocksHeldStep ==
  ASSUME TypeOK, LocksHeld, [Next]_vars
  PROVE  LocksHeld'
<1>1. ASSUME NEW r \in Requests, RequestStep(r)
      PROVE  LocksHeld'
  <2>0. r \in Procs
    BY DEF Procs
  <2>1. CASE UpdateRead(r)
    BY <2>1, <2>0 DEF UpdateRead, Begin, LocksHeld, HoldsScenario, TypeOK, Exists
  <2>2. CASE UpdateCommit(r)
    <3>1. session[r].patch.status \in StatusPatch
      BY <2>0 DEF TypeOK, Session, Patch
    <3>2. Exists'
      BY <2>2, <3>1 DEF UpdateCommit, Exists, StatusPatch
    <3>3. scenarioLock = None
      BY <2>2 DEF UpdateCommit
    <3>4. \A p \in Procs : ~ HoldsScenario(p)
      BY <3>3, NoneIsNoProcess DEF LocksHeld
    <3>5. QED
      BY <2>2, <2>0, <3>4 DEF UpdateCommit, Close, Idle, LocksHeld, HoldsScenario, TypeOK
  <2>3. CASE RunRead(r)
    BY <2>3, <2>0 DEF RunRead, Begin, LocksHeld, HoldsScenario, TypeOK, Exists
  <2>4. CASE RunCheck(r)
    BY <2>4, <2>0 DEF RunCheck, GoTo, LocksHeld, HoldsScenario, TypeOK, Exists
  <2>5. CASE RunRefused(r)
    BY <2>5, <2>0 DEF RunRefused, Rollback, Close, Idle, LocksHeld, HoldsScenario, TypeOK, Exists
  <2>6. CASE RunDispatch(r)
    BY <2>6, <2>0, NoneIsNoProcess DEF RunDispatch, GoTo, LocksHeld, HoldsScenario, TypeOK, Exists
  <2>7. CASE RunCommit(r)
    BY <2>7, <2>0 DEF RunCommit, Close, Idle, LocksHeld, HoldsScenario, TypeOK, Exists
  <2>8. CASE RunInline(r)
    BY <2>8, <2>0 DEF RunInline, Close, Idle, LocksHeld, HoldsScenario, TypeOK, Exists
  <2>9. CASE CancelRead(r)
    BY <2>9, <2>0 DEF CancelRead, Begin, LocksHeld, HoldsScenario, TypeOK, Exists
  <2>10. CASE CancelScenario(r)
    BY <2>10, <2>0, NoneIsNoProcess DEF CancelScenario, GoTo, LocksHeld, HoldsScenario, TypeOK, Exists
  <2>11. CASE CancelCommit(r)
    BY <2>11, <2>0 DEF CancelCommit, Close, Idle, LocksHeld, HoldsScenario, TypeOK, Exists
  <2>12. CASE DeleteRead(r)
    BY <2>12, <2>0 DEF DeleteRead, Begin, LocksHeld, HoldsScenario, TypeOK, Exists
  <2>13. CASE DeleteScenario(r)
    BY <2>13, <2>0, NoneIsNoProcess DEF DeleteScenario, GoTo, LocksHeld, HoldsScenario, TypeOK, Exists
  <2>14. CASE DeleteCommit(r)
    BY <2>14, <2>0 DEF DeleteCommit, Close, Idle, LocksHeld, HoldsScenario, TypeOK, Exists
  <2>15. CASE RequestMiss(r)
    BY <2>15, <2>0 DEF RequestMiss, Rollback, Close, Idle, LocksHeld, HoldsScenario, TypeOK, Exists
  <2> QED
    BY <1>1, <2>1, <2>2, <2>3, <2>4, <2>5, <2>6, <2>7, <2>8, <2>9, <2>10, <2>11, <2>12, <2>13, <2>14, <2>15 DEF RequestStep
<1>2. ASSUME NEW w \in Workers, WorkerStep(w)
      PROVE  LocksHeld'
  <2>0. w \in Procs
    BY DEF Procs
  <2>1. CASE TakeRun(w)
    BY <2>1, <2>0 DEF TakeRun, Begin, LocksHeld, HoldsScenario, TypeOK, Exists
  <2>2. CASE TakeStale(w)
    BY <2>2, <2>0 DEF TakeStale, LocksHeld, HoldsScenario, TypeOK, Exists
  <2>3. CASE MarkRun(w)
    BY <2>3, <2>0 DEF MarkRun, LocksHeld, HoldsScenario, TypeOK, Exists
  <2>4. CASE MarkMiss(w)
    BY <2>4, <2>0 DEF MarkMiss, Rollback, Close, Idle, LocksHeld, HoldsScenario, TypeOK, Exists
  <2>5. CASE MarkScenario(w)
    BY <2>5, <2>0, NoneIsNoProcess DEF MarkScenario, GoTo, LocksHeld, HoldsScenario, TypeOK, Exists
  <2>6. CASE WorkerEnds(w)
    BY <2>6, <2>0 DEF WorkerEnds, Rollback, Close, Idle, LocksHeld, HoldsScenario, TypeOK, Exists
  <2> QED
    BY <1>2, <2>1, <2>2, <2>3, <2>4, <2>5, <2>6 DEF WorkerStep
<1>3. ASSUME NEW p \in Procs, Rollback(p)
      PROVE  LocksHeld'
  BY <1>3 DEF Rollback, Close, Idle, LocksHeld, HoldsScenario, TypeOK, Exists
<1>4. CASE UNCHANGED vars
  BY <1>4 DEF vars, LocksHeld, HoldsScenario, TypeOK, Exists
<1> QED
  <2>1. ASSUME NEW r \in Requests, NEW w \in Workers, BreakDeadlock(r, w)
        PROVE  LocksHeld'
    BY <2>1, <1>3 DEF BreakDeadlock, Procs
  <2>2. ASSUME NEW p \in Procs, Abort(p)
        PROVE  LocksHeld'
    BY <2>2, <1>3 DEF Abort
  <2> QED
    BY <1>1, <1>2, <1>4, <2>1, <2>2 DEF Next

LEMMA IdsUniqueStep ==
  ASSUME TypeOK, LocksHeld, IdsUnique, [Next]_vars
  PROVE  IdsUnique'
<1>1. ASSUME NEW r \in Requests, RequestStep(r)
      PROVE  IdsUnique'
  <2>0. r \in Procs
    BY DEF Procs
  <2>1. CASE UpdateRead(r)
    BY <2>1, <2>0 DEF UpdateRead, Begin, IdsUnique, Reserving, RunExists, TypeOK, Exists
  <2>2. CASE UpdateCommit(r)
    <3>1. session[r].patch.status \in StatusPatch
      BY <2>0 DEF TypeOK, Session, Patch
    <3>2. Exists'
      BY <2>2, <3>1 DEF UpdateCommit, Exists, StatusPatch
    <3>3. QED
      BY <2>2, <2>0, <3>2 DEF UpdateCommit, Close, Idle, IdsUnique, Reserving, RunExists, TypeOK
  <2>3. CASE RunRead(r)
    <3>1. PICK e \in FreshIds : Begin(r, "run", e, NoPatch)
      BY <2>3 DEF RunRead
    <3>2. e \in Execs /\ e \notin issued /\ ~ RunExists(e)
      BY DEF FreshIds, IdsUnique
    <3>3. \A p \in Procs : session[p].run # e
      BY DEF FreshIds
    <3>4. \A p \in Procs : session'[p] = IF p = r
             THEN [phase |-> "run", row |-> scenario, run |-> e, patch |-> NoPatch]
             ELSE session[p]
      BY <3>1, <2>0 DEF Begin, TypeOK
    <3>5. QED
      BY <2>3, <3>2, <3>3, <3>4 DEF RunRead, IdsUnique, Reserving, RunExists, Exists
  <2>4. CASE RunCheck(r)
    BY <2>4, <2>0 DEF RunCheck, GoTo, IdsUnique, Reserving, RunExists, TypeOK, Exists
  <2>5. CASE RunRefused(r)
    BY <2>5, <2>0 DEF RunRefused, Rollback, Close, Idle, IdsUnique, Reserving, RunExists, TypeOK, Exists
  <2>6. CASE RunDispatch(r)
    BY <2>6, <2>0 DEF RunDispatch, GoTo, IdsUnique, Reserving, RunExists, TypeOK, Exists
  <2>7. CASE RunCommit(r)
    BY <2>7, <2>0 DEF RunCommit, Close, Idle, IdsUnique, Reserving, RunExists, TypeOK, Exists
  <2>8. CASE RunInline(r)
    BY <2>8, <2>0 DEF RunInline, Close, Idle, IdsUnique, Reserving, RunExists, TypeOK, Exists
  <2>9. CASE CancelRead(r)
    BY <2>9, <2>0 DEF CancelRead, Begin, IdsUnique, Reserving, RunExists, TypeOK, Exists
  <2>10. CASE CancelScenario(r)
    BY <2>10, <2>0 DEF CancelScenario, GoTo, IdsUnique, Reserving, RunExists, TypeOK, Exists
  <2>11. CASE CancelCommit(r)
    BY <2>11, <2>0 DEF CancelCommit, Close, Idle, IdsUnique, Reserving, RunExists, TypeOK, Exists
  <2>12. CASE DeleteRead(r)
    BY <2>12, <2>0 DEF DeleteRead, Begin, IdsUnique, Reserving, RunExists, TypeOK, Exists
  <2>13. CASE DeleteScenario(r)
    BY <2>13, <2>0 DEF DeleteScenario, GoTo, IdsUnique, Reserving, RunExists, TypeOK, Exists
  <2>14. CASE DeleteCommit(r)
    <3>1. \A e \in Execs : ~ RunExists(e)'
      BY <2>14 DEF DeleteCommit, RunExists, NoRun
    <3>2. QED
      BY <2>14, <2>0, <3>1 DEF DeleteCommit, Close, Idle, IdsUnique, Reserving, TypeOK
  <2>15. CASE RequestMiss(r)
    BY <2>15, <2>0 DEF RequestMiss, Rollback, Close, Idle, IdsUnique, Reserving, RunExists, TypeOK, Exists
  <2> QED
    BY <1>1, <2>1, <2>2, <2>3, <2>4, <2>5, <2>6, <2>7, <2>8, <2>9, <2>10, <2>11, <2>12, <2>13, <2>14, <2>15 DEF RequestStep
<1>2. ASSUME NEW w \in Workers, WorkerStep(w)
      PROVE  IdsUnique'
  <2>0. w \in Procs
    BY DEF Procs
  <2>1. CASE TakeRun(w)
    BY <2>1, <2>0 DEF TakeRun, Begin, IdsUnique, Reserving, RunExists, TypeOK, Exists
  <2>2. CASE TakeStale(w)
    BY <2>2, <2>0 DEF TakeStale, IdsUnique, Reserving, RunExists, TypeOK, Exists
  <2>3. CASE MarkRun(w)
    BY <2>3, <2>0 DEF MarkRun, IdsUnique, Reserving, RunExists, TypeOK, Exists
  <2>4. CASE MarkMiss(w)
    BY <2>4, <2>0 DEF MarkMiss, Rollback, Close, Idle, IdsUnique, Reserving, RunExists, TypeOK, Exists
  <2>5. CASE MarkScenario(w)
    BY <2>5, <2>0 DEF MarkScenario, GoTo, IdsUnique, Reserving, RunExists, TypeOK, Exists
  <2>6. CASE WorkerEnds(w)
    BY <2>6, <2>0 DEF WorkerEnds, Rollback, Close, Idle, IdsUnique, Reserving, RunExists, TypeOK, Exists
  <2> QED
    BY <1>2, <2>1, <2>2, <2>3, <2>4, <2>5, <2>6 DEF WorkerStep
<1>3. ASSUME NEW p \in Procs, Rollback(p)
      PROVE  IdsUnique'
  BY <1>3 DEF Rollback, Close, Idle, IdsUnique, Reserving, RunExists, TypeOK, Exists
<1>4. CASE UNCHANGED vars
  BY <1>4 DEF vars, IdsUnique, Reserving, RunExists, TypeOK, Exists
<1> QED
  <2>1. ASSUME NEW r \in Requests, NEW w \in Workers, BreakDeadlock(r, w)
        PROVE  IdsUnique'
    BY <2>1, <1>3 DEF BreakDeadlock, Procs
  <2>2. ASSUME NEW p \in Procs, Abort(p)
        PROVE  IdsUnique'
    BY <2>2, <1>3 DEF Abort
  <2> QED
    BY <1>1, <1>2, <1>4, <2>1, <2>2 DEF Next

LEMMA TargetsStableStep ==
  ASSUME TypeOK, LocksHeld, IdsUnique, TargetsStable, Verified, [Next]_vars
  PROVE  TargetsStable'
<1>1. ASSUME NEW r \in Requests, RequestStep(r)
      PROVE  TargetsStable'
  <2>0. r \in Procs
    BY DEF Procs
  <2>1. CASE UpdateRead(r)
    BY <2>1, <2>0 DEF UpdateRead, Begin, TargetsStable, Cancelling, TypeOK, Exists
  <2>2. CASE UpdateCommit(r)
    BY <2>2, <2>0 DEF UpdateCommit, Close, Idle, TargetsStable, Cancelling, TypeOK, Exists
  <2>3. CASE RunRead(r)
    BY <2>3, <2>0 DEF RunRead, Begin, TargetsStable, Cancelling, TypeOK, Exists
  <2>4. CASE RunCheck(r)
    BY <2>4, <2>0 DEF RunCheck, GoTo, TargetsStable, Cancelling, TypeOK, Exists
  <2>5. CASE RunRefused(r)
    BY <2>5, <2>0 DEF RunRefused, Rollback, Close, Idle, TargetsStable, Cancelling, TypeOK, Exists
  <2>6. CASE RunDispatch(r)
    BY <2>6, <2>0 DEF RunDispatch, GoTo, TargetsStable, Cancelling, TypeOK, Exists
  <2>7. CASE RunCommit(r)
    <3>1. session[r].run \in Execs
      BY <2>7, <2>0 DEF RunCommit, IdsUnique, Reserving
    <3>2. Exists
      BY <2>7, <2>0 DEF RunCommit, LocksHeld, HoldsScenario
    <3>3. \A p \in Procs : session[p].phase \in Cancelling =>
             executions'[session[p].run].status \in {"queued", "cancelled"}
      BY <2>7, <3>1, <3>2 DEF RunCommit, TargetsStable, TypeOK
    <3>4. QED
      BY <2>7, <2>0, <3>3 DEF RunCommit, Close, Idle, TargetsStable, Cancelling, TypeOK
  <2>8. CASE RunInline(r)
    <3>1. session[r].run \in Execs /\ executions[session[r].run].status = "none"
      BY <2>8, <2>0 DEF RunInline, IdsUnique, Reserving, RunExists
    <3>2. PICK outcome \in {"completed", "failed"} :
            executions' = [executions EXCEPT ![session[r].run] =
                             [status |-> outcome, config |-> session[r].row.config]]
      BY <2>8 DEF RunInline
    <3>3. \A p \in Procs : session[p].phase \in Cancelling =>
             executions'[session[p].run].status \in {"queued", "cancelled"}
      BY <2>8, <3>1, <3>2 DEF RunInline, TargetsStable, TypeOK
    <3>4. QED
      BY <2>8, <2>0, <3>3 DEF RunInline, Close, Idle, TargetsStable, Cancelling, TypeOK
  <2>9. CASE CancelRead(r)
    <3>1. PICK e \in Execs, ph \in Cancelling :
            executions[e].status \in ActiveStatuses /\ Begin(r, ph, e, NoPatch)
      BY <2>9 DEF CancelRead, Cancelling
    <3>2. executions[e].status = "queued"
      BY <3>1 DEF Verified, RunExists, ActiveStatuses
    <3>3. QED
      BY <2>9, <2>0, <3>1, <3>2 DEF CancelRead, Begin, TargetsStable, Cancelling, TypeOK, Exists
  <2>10. CASE CancelScenario(r)
    BY <2>10, <2>0 DEF CancelScenario, GoTo, TargetsStable, Cancelling, TypeOK, Exists
  <2>11. CASE CancelCommit(r)
    <3>1. session[r].run \in Execs
      BY <2>11, <2>0 DEF CancelCommit, TargetsStable, Cancelling
    <3>2. \A e \in Execs : executions'[e].status =
             IF e = session[r].run THEN "cancelled" ELSE executions[e].status
      BY <2>11, <3>1 DEF CancelCommit, TypeOK, RunExists, Run, NoRun
    <3>3. Exists /\ Exists'
      BY <2>11, <3>1 DEF CancelCommit, Exists, IdsUnique, TypeOK, ScenarioRow
    <3>4. QED
      BY <2>11, <2>0, <3>2, <3>3 DEF CancelCommit, Close, Idle, TargetsStable, Cancelling, TypeOK
  <2>12. CASE DeleteRead(r)
    BY <2>12, <2>0 DEF DeleteRead, Begin, TargetsStable, Cancelling, TypeOK, Exists
  <2>13. CASE DeleteScenario(r)
    BY <2>13, <2>0 DEF DeleteScenario, GoTo, TargetsStable, Cancelling, TypeOK, Exists
  <2>14. CASE DeleteCommit(r)
    BY <2>14, <2>0 DEF DeleteCommit, Close, Idle, TargetsStable, Cancelling, TypeOK, Exists
  <2>15. CASE RequestMiss(r)
    BY <2>15, <2>0 DEF RequestMiss, Rollback, Close, Idle, TargetsStable, Cancelling, TypeOK, Exists
  <2> QED
    BY <1>1, <2>1, <2>2, <2>3, <2>4, <2>5, <2>6, <2>7, <2>8, <2>9, <2>10, <2>11, <2>12, <2>13, <2>14, <2>15 DEF RequestStep
<1>2. ASSUME NEW w \in Workers, WorkerStep(w)
      PROVE  TargetsStable'
  <2>0. w \in Procs
    BY DEF Procs
  <2>1. CASE TakeRun(w)
    BY <2>1, <2>0 DEF TakeRun, Begin, TargetsStable, Cancelling, TypeOK, Exists
  <2>2. CASE TakeStale(w)
    BY <2>2, <2>0 DEF TakeStale, TargetsStable, Cancelling, TypeOK, Exists
  <2>3. CASE MarkRun(w)
    BY <2>3, <2>0 DEF MarkRun, TargetsStable, Cancelling, TypeOK, Exists
  <2>4. CASE MarkMiss(w)
    BY <2>4, <2>0 DEF MarkMiss, Rollback, Close, Idle, TargetsStable, Cancelling, TypeOK, Exists
  <2>5. CASE MarkScenario(w)
    BY <2>5, <2>0 DEF MarkScenario, GoTo, TargetsStable, Cancelling, TypeOK, Exists
  <2>6. CASE WorkerEnds(w)
    BY <2>6, <2>0 DEF WorkerEnds, Rollback, Close, Idle, TargetsStable, Cancelling, TypeOK, Exists
  <2> QED
    BY <1>2, <2>1, <2>2, <2>3, <2>4, <2>5, <2>6 DEF WorkerStep
<1>3. ASSUME NEW p \in Procs, Rollback(p)
      PROVE  TargetsStable'
  BY <1>3 DEF Rollback, Close, Idle, TargetsStable, Cancelling, TypeOK, Exists
<1>4. CASE UNCHANGED vars
  BY <1>4 DEF vars, TargetsStable, Cancelling, TypeOK, Exists
<1> QED
  <2>1. ASSUME NEW r \in Requests, NEW w \in Workers, BreakDeadlock(r, w)
        PROVE  TargetsStable'
    BY <2>1, <1>3 DEF BreakDeadlock, Procs
  <2>2. ASSUME NEW p \in Procs, Abort(p)
        PROVE  TargetsStable'
    BY <2>2, <1>3 DEF Abort
  <2> QED
    BY <1>1, <1>2, <1>4, <2>1, <2>2 DEF Next

LEMMA VerifiedStep ==
  ASSUME TypeOK, Verified, IdsUnique, TargetsStable, [Next]_vars
  PROVE  Verified'
<1>1. ASSUME NEW r \in Requests, RequestStep(r)
      PROVE  Verified'
  <2>0. r \in Procs
    BY DEF Procs
  <2>1. CASE UpdateRead(r)
    BY <2>1, <2>0 DEF UpdateRead, Begin, Verified, RunExists, TypeOK
  <2>2. CASE UpdateCommit(r)
    BY <2>2, <2>0 DEF UpdateCommit, Close, Idle, Verified, RunExists, TypeOK
  <2>3. CASE RunRead(r)
    BY <2>3, <2>0 DEF RunRead, Begin, Verified, RunExists, TypeOK
  <2>4. CASE RunCheck(r)
    BY <2>4, <2>0 DEF RunCheck, GoTo, Verified, RunExists, TypeOK
  <2>5. CASE RunRefused(r)
    BY <2>5, <2>0 DEF RunRefused, Rollback, Close, Idle, Verified, RunExists, TypeOK
  <2>6. CASE RunDispatch(r)
    BY <2>6, <2>0 DEF RunDispatch, GoTo, Verified, RunExists, TypeOK
  <2>7. CASE RunCommit(r)
    BY <2>7, <2>0 DEF RunCommit, Close, Idle, Verified, RunExists, TypeOK
  <2>8. CASE RunInline(r)
    BY <2>8, <2>0 DEF RunInline, Close, Idle, Verified, RunExists, TypeOK
  <2>9. CASE CancelRead(r)
    BY <2>9, <2>0 DEF CancelRead, Begin, Verified, RunExists, TypeOK
  <2>10. CASE CancelScenario(r)
    BY <2>10, <2>0 DEF CancelScenario, GoTo, Verified, RunExists, TypeOK
  <2>11. CASE CancelCommit(r)
    BY <2>11, <2>0 DEF CancelCommit, Close, Idle, Verified, RunExists, TypeOK
  <2>12. CASE DeleteRead(r)
    BY <2>12, <2>0 DEF DeleteRead, Begin, Verified, RunExists, TypeOK
  <2>13. CASE DeleteScenario(r)
    BY <2>13, <2>0 DEF DeleteScenario, GoTo, Verified, RunExists, TypeOK
  <2>14. CASE DeleteCommit(r)
    BY <2>14, <2>0 DEF DeleteCommit, Close, Idle, Verified, RunExists, NoRun, TypeOK
  <2>15. CASE RequestMiss(r)
    BY <2>15, <2>0 DEF RequestMiss, Rollback, Close, Idle, Verified, RunExists, TypeOK
  <2> QED
    BY <1>1, <2>1, <2>2, <2>3, <2>4, <2>5, <2>6, <2>7, <2>8, <2>9, <2>10, <2>11, <2>12, <2>13, <2>14, <2>15 DEF RequestStep
<1>2. ASSUME NEW w \in Workers, WorkerStep(w)
      PROVE  Verified'
  <2>0. w \in Procs
    BY DEF Procs
  <2>1. CASE TakeRun(w)
    BY <2>1, <2>0 DEF TakeRun, Begin, Verified, RunExists, TypeOK
  <2>2. CASE TakeStale(w)
    BY <2>2, <2>0 DEF TakeStale, Verified, RunExists, TypeOK
  <2>3. CASE MarkRun(w)
    BY <2>3, <2>0 DEF MarkRun, Verified, RunExists, TypeOK
  <2>4. CASE MarkMiss(w)
    BY <2>4, <2>0 DEF MarkMiss, Rollback, Close, Idle, Verified, RunExists, TypeOK
  <2>5. CASE MarkScenario(w)
    BY <2>5, <2>0 DEF MarkScenario, GoTo, Verified, RunExists, TypeOK
  <2>6. CASE WorkerEnds(w)
    BY <2>6, <2>0 DEF WorkerEnds, Rollback, Close, Idle, Verified, RunExists, TypeOK
  <2> QED
    BY <1>2, <2>1, <2>2, <2>3, <2>4, <2>5, <2>6 DEF WorkerStep
<1>3. ASSUME NEW p \in Procs, Rollback(p)
      PROVE  Verified'
  BY <1>3 DEF Rollback, Close, Idle, Verified, RunExists, TypeOK
<1>4. CASE UNCHANGED vars
  BY <1>4 DEF vars, Verified, RunExists, TypeOK
<1> QED
  <2>1. ASSUME NEW r \in Requests, NEW w \in Workers, BreakDeadlock(r, w)
        PROVE  Verified'
    BY <2>1, <1>3 DEF BreakDeadlock, Procs
  <2>2. ASSUME NEW p \in Procs, Abort(p)
        PROVE  Verified'
    BY <2>2, <1>3 DEF Abort
  <2> QED
    BY <1>1, <1>2, <1>4, <2>1, <2>2 DEF Next

LEMMA QueuedHasRunStep ==
  ASSUME TypeOK, LocksHeld, IdsUnique, TargetsStable, Verified, QueuedHasRun, [Next]_vars
  PROVE  QueuedHasRun'
<1>1. ASSUME NEW r \in Requests, RequestStep(r)
      PROVE  QueuedHasRun'
  <2>0. r \in Procs
    BY DEF Procs
  <2>1. CASE UpdateRead(r)
    BY <2>1, <2>0 DEF UpdateRead, Begin, QueuedHasRun, Skips, TypeOK
  <2>2. CASE UpdateCommit(r)
    <3>1. session[r].patch.status \in StatusPatch
      BY <2>0 DEF TypeOK, Session, Patch
    <3>2. scenario'.status = "queued" => scenario.status = "queued"
      BY <2>2, <3>1 DEF UpdateCommit, StatusPatch
    <3>3. QED
      BY <2>2, <2>0, <3>2 DEF UpdateCommit, Close, Idle, QueuedHasRun, Skips, TypeOK
  <2>3. CASE RunRead(r)
    BY <2>3, <2>0 DEF RunRead, Begin, QueuedHasRun, Skips, TypeOK
  <2>4. CASE RunCheck(r)
    BY <2>4, <2>0 DEF RunCheck, GoTo, QueuedHasRun, Skips, TypeOK
  <2>5. CASE RunRefused(r)
    BY <2>5, <2>0 DEF RunRefused, Rollback, Close, Idle, QueuedHasRun, Skips, TypeOK
  <2>6. CASE RunDispatch(r)
    BY <2>6, <2>0 DEF RunDispatch, GoTo, QueuedHasRun, Skips, TypeOK
  <2>7. CASE RunCommit(r)
    <3>1. PICK e \in Execs : e = session[r].run /\ ~ RunExists(e)
      BY <2>7, <2>0 DEF RunCommit, IdsUnique, Reserving
    <3>2. Exists
      BY <2>7, <2>0 DEF RunCommit, LocksHeld, HoldsScenario
    <3>3. \A p \in Procs : ~ Skips(p, e)
      BY <3>1, <3>2 DEF Skips, TargetsStable, Cancelling, RunExists
    <3>4. executions'[e].status = "queued"
      BY <2>7, <3>1 DEF RunCommit, TypeOK
    <3>5. \A p \in Procs : ~ Skips(p, e)'
      BY <2>7, <2>0, <3>3 DEF RunCommit, Close, Idle, Skips, TypeOK
    <3>6. QED
      BY <3>4, <3>5 DEF QueuedHasRun
  <2>8. CASE RunInline(r)
    BY <2>8, <2>0 DEF RunInline, Close, Idle, QueuedHasRun, Skips, TypeOK
  <2>9. CASE CancelRead(r)
    BY <2>9, <2>0 DEF CancelRead, Begin, QueuedHasRun, Skips, TypeOK
  <2>10. CASE CancelScenario(r)
    <3>1. session[r].row.status # "cancelled"
      BY <2>10, <2>0 DEF CancelScenario, LocksHeld
    <3>2. QED
      BY <2>10, <2>0, <3>1 DEF CancelScenario, GoTo, QueuedHasRun, Skips, TypeOK
  <2>11. CASE CancelCommit(r)
    BY <2>11, <2>0 DEF CancelCommit, Close, Idle, QueuedHasRun, Skips, TypeOK
  <2>12. CASE DeleteRead(r)
    BY <2>12, <2>0 DEF DeleteRead, Begin, QueuedHasRun, Skips, TypeOK
  <2>13. CASE DeleteScenario(r)
    BY <2>13, <2>0 DEF DeleteScenario, GoTo, QueuedHasRun, Skips, TypeOK
  <2>14. CASE DeleteCommit(r)
    BY <2>14, <2>0 DEF DeleteCommit, Close, Idle, QueuedHasRun, Skips, TypeOK
  <2>15. CASE RequestMiss(r)
    BY <2>15, <2>0 DEF RequestMiss, Rollback, Close, Idle, QueuedHasRun, Skips, TypeOK
  <2> QED
    BY <1>1, <2>1, <2>2, <2>3, <2>4, <2>5, <2>6, <2>7, <2>8, <2>9, <2>10, <2>11, <2>12, <2>13, <2>14, <2>15 DEF RequestStep
<1>2. ASSUME NEW w \in Workers, WorkerStep(w)
      PROVE  QueuedHasRun'
  <2>0. w \in Procs
    BY DEF Procs
  <2>1. CASE TakeRun(w)
    BY <2>1, <2>0 DEF TakeRun, Begin, QueuedHasRun, Skips, TypeOK
  <2>2. CASE TakeStale(w)
    BY <2>2, <2>0 DEF TakeStale, QueuedHasRun, Skips, TypeOK
  <2>3. CASE MarkRun(w)
    BY <2>3, <2>0 DEF MarkRun, QueuedHasRun, Skips, TypeOK
  <2>4. CASE MarkMiss(w)
    BY <2>4, <2>0 DEF MarkMiss, Rollback, Close, Idle, QueuedHasRun, Skips, TypeOK
  <2>5. CASE MarkScenario(w)
    BY <2>5, <2>0 DEF MarkScenario, GoTo, QueuedHasRun, Skips, TypeOK
  <2>6. CASE WorkerEnds(w)
    BY <2>6, <2>0 DEF WorkerEnds, Rollback, Close, Idle, QueuedHasRun, Skips, TypeOK
  <2> QED
    BY <1>2, <2>1, <2>2, <2>3, <2>4, <2>5, <2>6 DEF WorkerStep
<1>3. ASSUME NEW p \in Procs, Rollback(p)
      PROVE  QueuedHasRun'
  BY <1>3 DEF Rollback, Close, Idle, QueuedHasRun, Skips, TypeOK
<1>4. CASE UNCHANGED vars
  BY <1>4 DEF vars, QueuedHasRun, Skips, TypeOK
<1> QED
  <2>1. ASSUME NEW r \in Requests, NEW w \in Workers, BreakDeadlock(r, w)
        PROVE  QueuedHasRun'
    BY <2>1, <1>3 DEF BreakDeadlock, Procs
  <2>2. ASSUME NEW p \in Procs, Abort(p)
        PROVE  QueuedHasRun'
    BY <2>2, <1>3 DEF Abort
  <2> QED
    BY <1>1, <1>2, <1>4, <2>1, <2>2 DEF Next

LEMMA InvInit == Init => IInv
<1> SUFFICES ASSUME Init PROVE IInv
  OBVIOUS
<1>1. TypeOK
  BY IdleType, VersionAssumption DEF Init, TypeOK, ScenarioRow, Config, Status
<1>2. \A p \in Procs : session[p] = Idle
  BY DEF Init
<1>3. EditsBounded /\ LocksHeld
  BY <1>2 DEF EditsBounded, LocksHeld, HoldsScenario, Idle
<1>4. IdsUnique /\ TargetsStable /\ Verified
  BY <1>2 DEF Init, IdsUnique, TargetsStable, Verified, RunExists, NoRun, Reserving, Cancelling, Idle
<1>5. QueuedHasRun
  BY DEF Init, QueuedHasRun
<1>6. QED
  BY <1>1, <1>3, <1>4, <1>5 DEF IInv

LEMMA InvStep == IInv /\ [Next]_vars => IInv'
BY TypeStep, EditsBoundedStep, LocksHeldStep, IdsUniqueStep, TargetsStableStep,
   VerifiedStep, QueuedHasRunStep
DEF IInv

\* The inductive invariant holds in every reachable state.
THEOREM Invariance == Spec => []IInv
BY InvInit, InvStep, PTL DEF Spec

\* Every row, lock and session keeps its type.
THEOREM TypeCorrect == Spec => []TypeOK
<1>1. IInv => TypeOK
  BY DEF IInv
<1>2. QED
  BY <1>1, Invariance, PTL

\* A queued scenario always has a queued execution: no interleaving of
\* run, cancel, edit and delete leaves it stuck.
THEOREM NeverWedgedHolds == Spec => []NeverWedged
<1>1. IInv => NeverWedged
  BY DEF IInv, QueuedHasRun, NeverWedged
<1>2. QED
  BY <1>1, Invariance, PTL

\* Only verified configurations are ever executed.
THEOREM SnapshotsVerifiedHolds == Spec => []SnapshotsVerified
<1>1. IInv => SnapshotsVerified
  BY DEF IInv, Verified, SnapshotsVerified
<1>2. QED
  BY <1>1, Invariance, PTL

(***************************************************************************)
(* Refinement: the durable executions implement RunLedger.                 *)
(***************************************************************************)
LEMMA LedgerInit == Init => Ledger!Init
BY DEF Init, Ledger!Init, Exists, NoRun, Ledger!NotFiled

LEMMA LedgerRunCommit ==
  ASSUME IInv, NEW r \in Requests, RunCommit(r)
  PROVE  Ledger!Next
<1> r \in Procs
  BY DEF Procs
<1>1. PICK e \in Execs : e = session[r].run /\ ~ RunExists(e)
  BY DEF IInv, RunCommit, IdsUnique, Reserving
<1>2. PICK c \in Config : c = session[r].row.config
  BY DEF IInv, TypeOK, Session, ScenarioRow
<1>3. Exists /\ Exists'
  BY DEF IInv, RunCommit, LocksHeld, HoldsScenario, Exists, TypeOK, ScenarioRow
<1>4. executions' = [executions EXCEPT ![e] = [status |-> "queued", config |-> c]]
  BY <1>1, <1>2 DEF RunCommit
<1>5. Ledger!File(e)
  BY <1>1, <1>3, <1>4 DEF Ledger!File, Ledger!Filed, Ledger!FiledStatus, RunExists
<1>6. QED
  BY <1>5 DEF Ledger!Next

LEMMA LedgerRunInline ==
  ASSUME IInv, NEW r \in Requests, RunInline(r)
  PROVE  Ledger!Next
<1> r \in Procs
  BY DEF Procs
<1>1. PICK e \in Execs : e = session[r].run /\ ~ RunExists(e)
  BY DEF IInv, RunInline, IdsUnique, Reserving
<1>2. PICK c \in Config : c = session[r].row.config
  BY DEF IInv, TypeOK, Session, ScenarioRow
<1>3. PICK outcome \in {"completed", "failed"} :
        /\ executions' = [executions EXCEPT ![e] = [status |-> outcome, config |-> c]]
        /\ scenario' = [scenario EXCEPT !.status = outcome]
  BY <1>1, <1>2 DEF RunInline
<1>4. Exists /\ Exists'
  BY <1>3 DEF IInv, RunInline, Exists, TypeOK, ScenarioRow
<1>5. Ledger!File(e)
  BY <1>1, <1>3, <1>4 DEF Ledger!File, Ledger!Filed, Ledger!FiledStatus, RunExists
<1>6. QED
  BY <1>5 DEF Ledger!Next

\* A cancel either cancels a queued execution or finds it cancelled already.
LEMMA LedgerCancelCommit ==
  ASSUME IInv, NEW r \in Requests, CancelCommit(r)
  PROVE  Ledger!Next \/ UNCHANGED <<executions, Exists>>
<1> r \in Procs
  BY DEF Procs
<1>1. PICK e \in Execs : e = session[r].run
  BY DEF IInv, CancelCommit, TargetsStable, Cancelling
<1>2. RunExists(e) /\ Exists
  BY <1>1 DEF IInv, CancelCommit, IdsUnique
<1>3. executions[e] \in Run /\ executions[e].status \in {"queued", "cancelled"}
  BY <1>1, <1>2 DEF IInv, CancelCommit, TypeOK, RunExists, NoRun, TargetsStable, Cancelling
<1>4. Exists'
  BY <1>2 DEF IInv, CancelCommit, Exists, TypeOK, ScenarioRow
<1>5. executions' = [executions EXCEPT ![e] =
                       [status |-> "cancelled", config |-> executions[e].config]]
  <2>1. [executions[e] EXCEPT !.status = "cancelled"] =
          [status |-> "cancelled", config |-> executions[e].config]
    BY <1>3 DEF Run
  <2>2. executions' = [executions EXCEPT ![e] = [executions[e] EXCEPT !.status = "cancelled"]]
    BY <1>1 DEF CancelCommit
  <2>3. QED
    BY <2>1, <2>2
<1>6. CASE executions[e].status = "queued"
  <2>1. Ledger!Cancel(e)
    BY <1>2, <1>4, <1>5, <1>6 DEF Ledger!Cancel, Ledger!Filed
  <2>2. QED
    BY <2>1 DEF Ledger!Next
<1>7. CASE executions[e].status = "cancelled"
  <2>1. [status |-> "cancelled", config |-> executions[e].config] = executions[e]
    BY <1>3, <1>7 DEF Run
  <2>2. executions' = executions
    BY <1>5, <2>1 DEF IInv, TypeOK
  <2>3. QED
    BY <2>2, <1>2, <1>4
<1>8. QED
  BY <1>3, <1>6, <1>7

LEMMA LedgerDeleteCommit ==
  ASSUME IInv, NEW r \in Requests, DeleteCommit(r)
  PROVE  Ledger!Next
<1> r \in Procs
  BY DEF Procs
<1>1. Exists
  BY DEF IInv, DeleteCommit, LocksHeld, HoldsScenario
<1>2. ~ Exists'
  BY DEF IInv, DeleteCommit, Exists, TypeOK, ScenarioRow
<1>3. Ledger!Purge
  BY <1>1, <1>2 DEF Ledger!Purge, DeleteCommit, NoRun, Ledger!NotFiled
<1>4. QED
  BY <1>3 DEF Ledger!Next

\* Everything else leaves the executions, and the scenario's existence, alone;
\* a worker in particular.
LEMMA LedgerStutter ==
  ASSUME IInv, [Next]_vars,
         \A r \in Requests :
           ~ RunCommit(r) /\ ~ RunInline(r) /\ ~ CancelCommit(r) /\ ~ DeleteCommit(r)
  PROVE  UNCHANGED <<executions, Exists>>
<1>1. ASSUME NEW r \in Requests, RequestStep(r)
      PROVE  UNCHANGED <<executions, Exists>>
  <2>1. CASE UpdateCommit(r)
    <3>1. session[r].patch.status \in StatusPatch
      BY DEF IInv, TypeOK, Session, Patch, Procs
    <3>2. QED
      BY <2>1, <3>1 DEF UpdateCommit, Exists, StatusPatch
  <2>2. CASE UNCHANGED <<scenario, executions>>
    BY <2>2 DEF Exists
  <2>3. QED
    BY <1>1, <2>1, <2>2
    DEF RequestStep, UpdateRead, RunRead, RunCheck, RunRefused, RunDispatch, CancelRead,
        CancelScenario, DeleteRead, DeleteScenario, RequestMiss, Rollback
<1>2. ASSUME NEW w \in Workers, WorkerStep(w)
      PROVE  UNCHANGED <<executions, Exists>>
  BY <1>2 DEF WorkerStep, TakeRun, TakeStale, MarkRun, MarkMiss, MarkScenario, WorkerEnds,
              Rollback, Exists
<1>3. ASSUME NEW p, Rollback(p)
      PROVE  UNCHANGED <<executions, Exists>>
  BY <1>3 DEF Rollback, Exists
<1>4. CASE UNCHANGED vars
  BY <1>4 DEF vars, Exists
<1>5. QED
  BY <1>1, <1>2, <1>3, <1>4 DEF Next, BreakDeadlock, Abort

LEMMA LedgerStep ==
  ASSUME IInv, [Next]_vars
  PROVE  [Ledger!Next]_<<executions, Exists>>
BY LedgerRunCommit, LedgerRunInline, LedgerCancelCommit, LedgerDeleteCommit, LedgerStutter

\* The durable executions are a ledger: filed once, immutable but for a
\* cancel, gone only with their scenario, and never touched by a worker.
THEOREM ImplementsLedger == Spec => LedgerSpec
<1>1. Init => Ledger!Init
  BY LedgerInit
<1>2. IInv /\ [Next]_vars => [Ledger!Next]_<<executions, Exists>>
  BY LedgerStep
<1>3. QED
  BY <1>1, <1>2, Invariance, PTL DEF Spec, LedgerSpec, Ledger!Spec
=============================================================================
