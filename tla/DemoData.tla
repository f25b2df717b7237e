------------------------------- MODULE DemoData -------------------------------
(***************************************************************************)
(* Generation of demonstration data in background tasks, and its reset:    *)
(*   services/demo/demo_service.py, api/v1/demo.py                         *)
(*                                                                         *)
(* A run generates its rows stage by stage; the rows of a stage commit     *)
(* when the next one starts. Which ids a run made is stored with the run   *)
(* only when it completes: a reset finds users by the domain of their      *)
(* addresses, jobs by their recruiters, and companies and documents by     *)
(* those stored ids. It reads everything first and deletes afterwards.     *)
(* All foreign keys cascade.                                               *)
(***************************************************************************)
EXTENDS Naturals, Sequences

CONSTANTS
  MaxRuns,     \* bound: runs
  Scenarios    \* demo scenarios, told apart by the names of their companies

ASSUME RunsAssumption == MaxRuns \in Nat

DemoRuns == 1..MaxRuns   \* in the order in which they are created

VARIABLES
  runs,       \* demo_runs
  rows,       \* what was generated and is committed, by run and kind
  task,       \* the background task of each run: the stage it is at, 0 for none
  reset,      \* the reset request
  disturbed   \* history: a task committed something during a reset

demoVars == <<runs, rows, task, reset, disturbed>>

\* Stages with rows of their own; of users, recruiters are those that jobs belong to.
Stage == <<"companies", "recruiters", "candidates", "jobs", "documents">>
Kind == {Stage[i] : i \in DOMAIN Stage}
LastStage == Len(Stage)

NoRun == [status |-> "none", tracked |-> FALSE]
Existing == {r \in DemoRuns : runs[r].status \notin {"none", "deleted"}}
Tracked == {r \in Existing : runs[r].tracked}
NoReset == [phase |-> "idle"]

DemoInit ==
  /\ runs = [r \in DemoRuns |-> NoRun]
  /\ rows = {}
  /\ task = [r \in DemoRuns |-> 0]
  /\ reset = NoReset
  /\ disturbed = FALSE

SetRun(r, run) == runs' = [runs EXCEPT ![r] = run]
SetTask(r, stage) == task' = [task EXCEPT ![r] = stage]

\* POST /generate: the run is committed, and its task starts.
Generate(r, s) ==
  /\ runs[r] = NoRun
  /\ \A q \in DemoRuns : q < r => runs[q] # NoRun
  /\ SetRun(r, [status |-> "queued", tracked |-> FALSE, scenario |-> s])
  /\ SetTask(r, 1)
  /\ UNCHANGED <<rows, reset, disturbed>>

\* The rows of a stage violate a unique constraint: names of companies are.
Collides(r, kind) ==
  kind = "companies" /\ \E q \in DemoRuns \ {r} :
    <<q, "companies">> \in rows /\ runs[q].scenario = runs[r].scenario

\* What a task commits, when its UPDATE of the run finds the row.
CommitRows(r, kinds) ==
  /\ r \in Existing
  /\ rows' = rows \cup {<<r, k>> : k \in kinds}
  /\ disturbed' = (disturbed \/ reset.phase = "read")
  /\ UNCHANGED reset

\* _progress of the next stage.
StageCommit(r) ==
  /\ task[r] \in 1..LastStage - 1
  /\ ~ Collides(r, Stage[task[r]])
  /\ CommitRows(r, {Stage[task[r]]})
  /\ SetRun(r, [runs[r] EXCEPT !.status = "running"])
  /\ SetTask(r, task[r] + 1)

\* A plausible bug: the documents are committed before the run has its ids.
Complete_Later(r) ==
  /\ task[r] = LastStage
  /\ CommitRows(r, {"documents"})
  /\ IF <<r, "documents">> \in rows
     THEN SetRun(r, [runs[r] EXCEPT !.status = "completed", !.tracked = TRUE]) /\ SetTask(r, 0)
     ELSE UNCHANGED <<runs, task>>

\* The documents, the ids and the status in one commit.
Complete(r) ==
  /\ task[r] = LastStage
  /\ CommitRows(r, {"documents"})
  /\ SetRun(r, [runs[r] EXCEPT !.status = "completed", !.tracked = TRUE])
  /\ SetTask(r, 0)

\* An exception of Python's: the handler commits the status, and with it what the stage has
\* flushed so far.
Fails(r) ==
  /\ task[r] \in 1..LastStage - 1
  /\ \E kinds \in SUBSET {Stage[task[r]]} :
       /\ \A k \in kinds : ~ Collides(r, k)
       /\ CommitRows(r, kinds)
  /\ SetRun(r, [runs[r] EXCEPT !.status = "failed"])
  /\ SetTask(r, 0)

\* A statement fails, the run is gone, or the server stops. After a failed flush the commit
\* of the handler fails as well: nothing is written, and the status stays what it was.
Breaks(r) ==
  /\ task[r] # 0
  /\ SetTask(r, 0)
  /\ UNCHANGED <<runs, rows, reset, disturbed>>

----------------------------------------------------------------------------
\* POST /reset

\* A plausible bug: only the users of completed runs are looked for.
ResetRead_TrackedUsers ==
  LET users == {x \in rows : x[2] \in {"recruiters", "candidates"} /\ x[1] \in Tracked}
      jobs == {x \in rows : x[2] = "jobs" /\ <<x[1], "recruiters">> \in users}
  IN /\ reset.phase # "read"
     /\ reset' = [phase |-> "read", runs |-> Existing, tracked |-> Tracked,
                  found |-> users \cup jobs
                    \cup {x \in rows : x[2] = "documents" /\ x[1] \in Tracked}]
     /\ UNCHANGED <<runs, rows, task, disturbed>>

ResetRead ==
  LET users == {x \in rows : x[2] \in {"recruiters", "candidates"}}
      jobs == {x \in rows : x[2] = "jobs" /\ (x[1] \in Tracked \/ <<x[1], "recruiters">> \in users)}
  IN /\ reset.phase # "read"
     /\ reset' = [phase |-> "read", runs |-> Existing, tracked |-> Tracked,
                  found |-> users \cup jobs
                    \cup {x \in rows : x[2] = "documents" /\ x[1] \in Tracked}]
     /\ UNCHANGED <<runs, rows, task, disturbed>>

\* The companies of the runs that have ids, or all companies if there is no such run.
ResetCommit ==
  /\ reset.phase = "read"
  /\ rows' = {x \in rows \ reset.found :
                /\ x[2] = "companies" => reset.tracked # {} /\ x[1] \notin reset.tracked
                /\ x[2] = "jobs" => <<x[1], "recruiters">> \notin reset.found}
  /\ runs' = [r \in DemoRuns |->
                IF r \in reset.runs THEN [runs[r] EXCEPT !.status = "deleted"] ELSE runs[r]]
  /\ reset' = [phase |-> "done"]
  /\ UNCHANGED <<task, disturbed>>

ResetFails ==
  /\ reset.phase = "read"
  /\ reset' = NoReset
  /\ UNCHANGED <<runs, rows, task, disturbed>>

DemoNext ==
  \/ \E r \in DemoRuns :
       \/ \E s \in Scenarios : Generate(r, s)
       \/ StageCommit(r) \/ Complete(r) \/ Fails(r) \/ Breaks(r)
  \/ ResetRead \/ ResetCommit \/ ResetFails

DemoSpec == DemoInit /\ [][DemoNext]_demoVars

----------------------------------------------------------------------------
\* Runs that are gone leave nothing behind, however they ended and whenever a reset came,
\* but for companies of a run that never completed, deleted along with one that did: these a
\* later reset finds. Only a task that commits during a reset escapes it.
NothingIsStranded ==
  ~ disturbed =>
    \A x \in rows : x[1] \in Existing \/ (x[2] = "companies" /\ ~ runs[x[1]].tracked)
=============================================================================
