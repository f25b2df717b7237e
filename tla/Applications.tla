----------------------------- MODULE Applications -----------------------------
(***************************************************************************)
(* A job and the application of one candidate for it:                      *)
(*   services/jobs/candidate_job_service.py, recruiter_job_service.py,     *)
(*   api/v1/candidate_jobs.py, recruiter_jobs.py                           *)
(*                                                                         *)
(* A request begins a transaction, reads, and commits later. A row gets as *)
(* created_at the time at which its transaction began, not the time at     *)
(* which it is written, and notifications are listed by created_at.        *)
(***************************************************************************)
EXTENDS Naturals, FiniteSets

CONSTANT MaxActs   \* bound: requests

ASSUME ActsAssumption == MaxActs \in Nat

Acts == 1..MaxActs   \* requests, in the order in which their transactions begin

VARIABLES
  posting,      \* status of the job, "none" once it is deleted
  application,  \* status of the application, and the request that wrote it
  notices,      \* notifications of the candidate: which request sent them, what they say
  acts,         \* the requests
  late          \* history: a status was written by a request that began before one that had written

applicationVars == <<posting, application, notices, acts, late>>

Decisions == {"hired", "rejected"}
\* What a recruiter may set, from anything: under_review stands for all that decides nothing.
Settable == {"under_review", "hired", "rejected", "withdrawn"}
Postings == {"draft", "published", "closed"}   \* archived is as closed

NoApplication == [status |-> "none", by |-> 0]

ApplicationInit ==
  /\ posting = "draft"
  /\ application = NoApplication
  /\ notices = {}
  /\ acts = [a \in Acts |-> [op |-> "idle"]]
  /\ late = FALSE

Begins(a) == acts[a].op = "idle" /\ \A b \in Acts : b < a => acts[b].op # "idle"
Open(a, act) == acts' = [acts EXCEPT ![a] = act]
Over(a) == acts' = [acts EXCEPT ![a] = [op |-> "done"]]
Undone(a) == Over(a) /\ UNCHANGED <<posting, application, notices, late>>

\* change_job_status and update_job: a job may go from any status to any other.
SetPosting(a, status) ==
  /\ Begins(a)
  /\ posting # "none"
  /\ posting' = status
  /\ Over(a) /\ UNCHANGED <<application, notices, late>>

\* delete_job, with its applications.
DeletePosting(a) ==
  /\ Begins(a)
  /\ posting # "none"
  /\ posting' = "none"
  /\ application' = NoApplication
  /\ Over(a) /\ UNCHANGED <<notices, late>>

\* apply: once, for a published job.
ApplyRead(a) ==
  /\ Begins(a)
  /\ application = NoApplication
  /\ posting = "published"
  /\ Open(a, [op |-> "apply"])
  /\ UNCHANGED <<posting, application, notices, late>>

\* The insert fails on uq_job_candidate or on job_id.
ApplyCommit(a) ==
  /\ acts[a].op = "apply"
  /\ IF application # NoApplication \/ posting = "none"
     THEN Undone(a)
     ELSE /\ application' = [status |-> "applied", by |-> a]
          /\ Over(a) /\ UNCHANGED <<posting, notices, late>>

\* A plausible bug: withdrawing is refused only after a rejection.
WithdrawRead_Hired(a) ==
  /\ Begins(a)
  /\ application.status \notin {"none", "rejected"}
  /\ Open(a, [op |-> "withdraw", seen |-> application])
  /\ UNCHANGED <<posting, application, notices, late>>

\* withdraw_application, of one that is not decided.
WithdrawRead(a) ==
  /\ Begins(a)
  /\ application.status \notin {"none"} \cup Decisions
  /\ Open(a, [op |-> "withdraw", seen |-> application])
  /\ UNCHANGED <<posting, application, notices, late>>

\* The UPDATE does not look at the status again.
WithdrawCommit(a) ==
  /\ acts[a].op = "withdraw"
  /\ IF application = NoApplication
     THEN Undone(a)
     ELSE /\ application' = [status |-> "withdrawn", by |-> a]
          /\ Over(a) /\ UNCHANGED <<posting, notices, late>>

\* update_application_status
StatusRead(a, status) ==
  /\ Begins(a)
  /\ application # NoApplication
  /\ Open(a, [op |-> "status", status |-> status])
  /\ UNCHANGED <<posting, application, notices, late>>

\* A plausible bug: only a decision is notified.
StatusCommit_Decisions(a) ==
  /\ acts[a].op = "status"
  /\ IF application = NoApplication
     THEN Undone(a)
     ELSE /\ application' = [status |-> acts[a].status, by |-> a]
          /\ notices' = IF acts[a].status \in Decisions
                        THEN notices \cup {[at |-> a, says |-> acts[a].status]} ELSE notices
          /\ late' = (late \/ \E n \in notices : n.at > a)
          /\ Over(a) /\ UNCHANGED posting

\* The status and the notification of the candidate, or neither if the row is gone.
StatusCommit(a) ==
  /\ acts[a].op = "status"
  /\ IF application = NoApplication
     THEN Undone(a)
     ELSE /\ application' = [status |-> acts[a].status, by |-> a]
          /\ notices' = notices \cup {[at |-> a, says |-> acts[a].status]}
          /\ late' = (late \/ \E n \in notices : n.at > a)
          /\ Over(a) /\ UNCHANGED posting

ApplicationNext ==
  \E a \in Acts :
    \/ \E status \in Postings : SetPosting(a, status)
    \/ DeletePosting(a)
    \/ ApplyRead(a) \/ ApplyCommit(a)
    \/ WithdrawRead(a) \/ WithdrawCommit(a)
    \/ \E status \in Settable : StatusRead(a, status)
    \/ StatusCommit(a)

ApplicationSpec == ApplicationInit /\ [][ApplicationNext]_applicationVars

----------------------------------------------------------------------------
NewestNotice == CHOOSE n \in notices : \A m \in notices : m.at <= n.at

\* The newest notification a candidate finds tells the status that a recruiter gave the
\* application last, unless a request that had begun earlier was written later.
NewestNoticeIsTrue ==
  application.status \notin {"none", "applied", "withdrawn"} /\ ~ late =>
    notices # {} /\ NewestNotice.says = application.status

\* A candidate takes a decision back only when withdrawing had passed its check before the
\* decision was written.
DecisionsStand ==
  [][application.status \in Decisions /\ application'.status = "withdrawn" =>
       \A a \in Acts : acts[a].op = "withdraw" /\ acts'[a].op = "done" =>
         acts[a].seen # application]_applicationVars
=============================================================================
