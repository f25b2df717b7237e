------------------------------ MODULE CareerState ------------------------------
(***************************************************************************)
(* What the agents of skill2job keep of a candidate: the profile state and *)
(* the progress at a module of training.                                   *)
(*   skill2job/profile/agent.py, adapters/profile_state_adapter.py,        *)
(*   adapters/candidate_adapter.py, training/agent.py, service.py          *)
(*                                                                         *)
(* A request reads its rows (a Read action) and commits later (a Commit):  *)
(* language models are asked between the two. An UPDATE names the columns  *)
(* whose value the handler changed from the one it read, so the columns    *)
(* that upsert hands back unchanged are not written. Unique keys hold at   *)
(* the commit.                                                             *)
(*   db/session.py serves two databases. The column completed_at is a      *)
(* DateTime without a zone and both handlers write a time with one: the    *)
(* driver of PostgreSQL (the default; asyncpg) refuses it at the flush,    *)
(* that of SQLite (the tests; aiosqlite) stores it.                        *)
(***************************************************************************)
EXTENDS Naturals

CONSTANTS
  MaxCareerRequests,  \* bound: requests
  Skills              \* the skills that a review adds

ASSUME CareerBounds == MaxCareerRequests \in Nat

VARIABLES
  database,  \* that of DATABASE_URL: it stays what it is
  profile,   \* the candidate's skills, and the row of skill2job_profile_states
  lesson,    \* the row of skill2job_training_progress of one module
  careerOps  \* the requests, made or not

careerVars == <<database, profile, lesson, careerOps>>

CareerRequests == 1..MaxCareerRequests
Never == 0  \* no row, no dossier or no time yet

\* Of VALID_EVIDENCE_STATES.
Evidence == {"not_started", "in_progress", "completed", "practiced"}

CareerInit ==
  /\ database \in {"postgresql", "sqlite"}
  /\ profile = [skills |-> {}, stored |-> FALSE, dossier |-> Never, corrections |-> {}]
  /\ lesson = [stored |-> FALSE, status |-> "in_progress", evidence |-> "not_started",
               hours |-> {}, completed |-> Never]
  /\ careerOps = [r \in CareerRequests |-> [phase |-> "idle"]]

\* The next request reads; during collects the requests that commit before it does.
Reads(r, request) ==
  /\ careerOps[r].phase = "idle"
  /\ \A s \in CareerRequests : s < r => careerOps[s].phase # "idle"
  /\ careerOps' = [careerOps EXCEPT ![r] =
       [phase |-> "read", request |-> request, profile |-> profile, lesson |-> lesson,
        during |-> {}]]
  /\ UNCHANGED <<profile, lesson>>

Pending(r, op) == careerOps[r].phase = "read" /\ careerOps[r].request.op = op

Finishes(r, phase) ==
  LET beside == {s \in CareerRequests \ {r} : careerOps[s].phase = "read" /\ phase = "done"}
  IN careerOps' = [s \in CareerRequests |->
       IF s = r THEN [careerOps[r] EXCEPT !.phase = phase]
       ELSE IF s \in beside THEN [careerOps[s] EXCEPT !.during = @ \cup {r}]
       ELSE careerOps[s]]

\* A flush failed, on a unique key or on a value: get_db rolls back all of the request.
RollsBack(r) == Finishes(r, "failed") /\ UNCHANGED <<profile, lesson>>

----------------------------------------------------------------------------
\* POST /profile/agent/review: the skill is added unless the candidate has it, and an entry
\* is appended to the corrections that were read.

ReviewRead(r) == \E skill \in Skills : Reads(r, [op |-> "review", skill |-> skill])

ReviewCommit(r) ==
  LET seen == careerOps[r].profile
      added == {careerOps[r].request.skill} \ seen.skills
  IN /\ Pending(r, "review")
     /\ IF added \cap profile.skills # {} \/ seen.stored # profile.stored
        THEN RollsBack(r)
        ELSE /\ profile' = [profile EXCEPT !.skills = @ \cup added,
                                           !.stored = TRUE,
                                           !.corrections = seen.corrections \cup {r}]
             /\ Finishes(r, "done")
             /\ UNCHANGED lesson

\* build_dossier: it passes the corrections through to upsert.

DossierRead(r) == Reads(r, [op |-> "dossier"])

\* A plausible bug: upsert writes every column, as the upserts of the other agents do.
DossierCommit_AllColumns(r) ==
  LET seen == careerOps[r].profile
  IN /\ Pending(r, "dossier")
     /\ IF seen.stored # profile.stored
        THEN RollsBack(r)
        ELSE /\ profile' = [profile EXCEPT !.stored = TRUE, !.dossier = r,
                                           !.corrections = seen.corrections]
             /\ Finishes(r, "done")
             /\ UNCHANGED lesson

DossierCommit(r) ==
  LET seen == careerOps[r].profile
  IN /\ Pending(r, "dossier")
     /\ IF seen.stored # profile.stored
        THEN RollsBack(r)
        ELSE /\ profile' = [profile EXCEPT !.stored = TRUE, !.dossier = r]
             /\ Finishes(r, "done")
             /\ UNCHANGED lesson

----------------------------------------------------------------------------
\* POST /training/progress and POST /learning/progress, for a module of the plan.

\* What a request makes of the row it read, or inserts if it read none.
Completed(r, seen) ==
  IF careerOps[r].request.status = "completed"
  THEN [seen EXCEPT !.stored = TRUE, !.status = "completed", !.completed = r]
  ELSE [seen EXCEPT !.stored = TRUE]

Updated(r, seen) ==
  LET evidence == careerOps[r].request.evidence
  IN [stored |-> TRUE,
      evidence |-> evidence,
      status |-> IF evidence = "in_progress" \/ (~ seen.stored /\ evidence = "not_started")
                 THEN seen.status ELSE evidence,
      hours |-> IF careerOps[r].request.hours THEN seen.hours \cup {r} ELSE seen.hours,
      completed |-> IF evidence = "completed" /\ seen.completed = Never THEN r ELSE seen.completed]

\* The time of a completion is among what is written.
Refused(seen, result) == database = "postgresql" /\ result.completed # seen.completed

Store(r, Result(_, _)) ==
  LET seen == careerOps[r].lesson
      result == Result(r, seen)
  IN IF seen.stored # lesson.stored \/ Refused(seen, result)
     THEN RollsBack(r)
     ELSE /\ lesson' = [column \in DOMAIN lesson |->
                          IF result[column] # seen[column] THEN result[column] ELSE lesson[column]]
          /\ Finishes(r, "done")
          /\ UNCHANGED profile

CompleteRead(r) ==
  \E status \in {"completed", "in_progress"} : Reads(r, [op |-> "complete", status |-> status])
CompleteCommit(r) == Pending(r, "complete") /\ Store(r, Completed)

UpdateRead(r) ==
  \E evidence \in Evidence, hours \in BOOLEAN :
    Reads(r, [op |-> "update", evidence |-> evidence, hours |-> hours])
UpdateCommit(r) == Pending(r, "update") /\ Store(r, Updated)

----------------------------------------------------------------------------
CareerNext ==
  /\ UNCHANGED database
  /\ \E r \in CareerRequests :
       \/ ReviewRead(r) \/ ReviewCommit(r)
       \/ DossierRead(r) \/ DossierCommit(r)
       \/ CompleteRead(r) \/ CompleteCommit(r)
       \/ UpdateRead(r) \/ UpdateCommit(r)

CareerSpec == CareerInit /\ [][CareerNext]_careerVars

----------------------------------------------------------------------------
Done(op) == {r \in CareerRequests : careerOps[r].phase = "done" /\ careerOps[r].request.op = op}

\* s read before r committed and committed after it.
OverwrittenBy(r, S) == \E s \in S : r \in careerOps[s].during

Completes(r) ==
  LET request == careerOps[r].request
  IN \/ request.op = "complete" /\ request.status = "completed"
     \/ request.op = "update" /\ request.evidence = "completed"

\* What the candidate records is kept whatever runs beside it: an entry of a review is lost
\* only to another review that overlapped it, and reported hours only to such a report,
\* never to a dossier or a completion; a request fails only beside another, but for a
\* completion on PostgreSQL, which fails alone (training/agent.py:400); and a module is never
\* complete without the time of its completion.
NothingIsLostAlone ==
  LET reports == {r \in Done("update") : careerOps[r].request.hours}
  IN /\ \A r \in Done("review") :
          r \in profile.corrections \/ OverwrittenBy(r, Done("review"))
     /\ \A r \in reports : r \in lesson.hours \/ OverwrittenBy(r, reports)
     /\ \A r \in CareerRequests : careerOps[r].phase = "failed" =>
          careerOps[r].during # {} \/ (database = "postgresql" /\ Completes(r))
     /\ lesson.status = "completed" => lesson.completed # Never
=============================================================================
