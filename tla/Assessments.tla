----------------------------- MODULE Assessments -----------------------------
(***************************************************************************)
(* The attempts of one candidate at one published assessment:              *)
(*   services/assessment/assessment_service.py, api/v1/assessments.py      *)
(*                                                                         *)
(* A request reads its rows (a Read action) and commits later (a Commit):  *)
(* grading, which may run code in a sandbox, lies between the two. UPDATEs *)
(* name only the columns a handler assigned, so requests overwrite one     *)
(* another column by column. Unique constraints hold at the commit.        *)
(* Requests of others neither read nor write these rows (_own_attempt).    *)
(***************************************************************************)
EXTENDS Naturals, FiniteSets

CONSTANTS
  MaxAttempts,      \* bound: attempt rows
  MaxRequests,      \* bound: requests
  Questions,        \* the questions of the assessment
  AllowedAttempts   \* assessment.allowed_attempts

ASSUME BoundsAssumption == MaxAttempts \in Nat /\ MaxRequests \in Nat
ASSUME AllowedAssumption == AllowedAttempts \in 1..MaxAttempts
ASSUME QuestionsAssumption == IsFiniteSet(Questions)

Attempts == 1..MaxAttempts   \* in the order of their inserts
Requests == 1..MaxRequests   \* in the order of their arrival

VARIABLES
  attempts,  \* candidate_assessments, with their answers and their result
  requests   \* the requests, made or not

vars == <<attempts, requests>>

Finished == {"completed", "expired"}
Status == {"none", "in_progress"} \cup Finished
Operation == {"start", "open", "answer", "event", "finish"}
Phase == {"idle", "read", "done", "refused"}

Attempt ==
  [status  : Status,
   number  : 0..MaxAttempts,  \* attempt_number
   due     : BOOLEAN,                     \* expires_at is past
   index   : 0..(Cardinality(Questions)), \* current_index
   answers : SUBSET Questions,            \* its rows of candidate_assessment_answers
   events  : SUBSET Requests,             \* integrity_events, by the report that wrote it
   graded  : BOOLEAN,                     \* it has a row in assessment_results
   counted : SUBSET Questions,            \* the answers that row was computed from
   racing  : SUBSET Questions]            \* history: answers being graded at that time

NoAttempt ==
  [status |-> "none", number |-> 0, due |-> FALSE, index |-> 0, answers |-> {},
   events |-> {}, graded |-> FALSE, counted |-> {}, racing |-> {}]

Started == {a \in Attempts : attempts[a].status # "none"}

Init ==
  /\ attempts = [a \in Attempts |-> NoAttempt]
  /\ requests = [r \in Requests |-> [phase |-> "idle"]]

\* The next request that arrives.
Arrives(r) ==
  /\ requests[r].phase = "idle"
  /\ \A s \in Requests : s < r => requests[s].phase # "idle"
Has(r, op) == requests[r].phase = "read" /\ requests[r].op = op
Answer(r, phase) == requests' = [requests EXCEPT ![r] = [phase |-> phase]]
Write(a, row) == attempts' = [attempts EXCEPT ![a] = row]

\* get_db rolls back what a handler did before it raised.
Refuse(r) == Answer(r, "refused") /\ UNCHANGED attempts

\* The service loads the attempt; what it sees of it stays in the session.
Read(r, op, a, q) ==
  /\ Arrives(r)
  /\ a \in Started
  /\ requests' = [requests EXCEPT ![r] =
       [phase |-> "read", op |-> op, attempt |-> a, question |-> q, row |-> attempts[a]]]
  /\ UNCHANGED attempts

Seen(r) == requests[r].row
Target(r) == requests[r].attempt

\* Answers to attempt a whose requests have passed their checks.
BeingGraded(a) ==
  {requests[r].question : r \in {s \in Requests : Has(s, "answer") /\ Target(s) = a}}

----------------------------------------------------------------------------
\* POST /{assessment_id}/start

StartRead(r) ==
  LET used == Cardinality(Started)
  IN /\ Arrives(r)
     /\ IF used >= AllowedAttempts
        THEN Answer(r, "refused")
        ELSE requests' = [requests EXCEPT ![r] =
               [phase |-> "read", op |-> "start", number |-> used + 1]]
     /\ UNCHANGED attempts

Insert(a, number) ==
  /\ \A b \in Attempts : b < a => b \in Started
  /\ Write(a, [NoAttempt EXCEPT !.status = "in_progress", !.number = number])

\* A plausible bug: without the constraint.
StartCommit_NotUnique(r) ==
  /\ Has(r, "start")
  /\ \E a \in Attempts \ Started : Insert(a, requests[r].number)
  /\ Answer(r, "done")

\* The insert fails on UniqueConstraint("assessment_id", "candidate_id", "attempt_number").
StartCommit(r) ==
  /\ Has(r, "start")
  /\ IF \E a \in Started : attempts[a].number = requests[r].number
     THEN Refuse(r)
     ELSE /\ \E a \in Attempts \ Started : Insert(a, requests[r].number)
          /\ Answer(r, "done")

----------------------------------------------------------------------------
\* finalize, with the answers committed by then: the insert of a second result fails on
\* its unique attempt_id, and takes the status it had written with it.

\* A plausible bug: the result row is overwritten if it exists (session.get by attempt_id).
Grade_Again(r, status) ==
  LET a == Target(r)
  IN /\ Write(a, [attempts[a] EXCEPT !.status = status,
                                     !.graded = TRUE,
                                     !.counted = attempts[a].answers,
                                     !.racing = BeingGraded(a)])
     /\ Answer(r, "done")

Grade(r, status) ==
  LET a == Target(r)
  IN IF attempts[a].graded
     THEN Refuse(r)
     ELSE /\ Write(a, [attempts[a] EXCEPT !.status = status,
                                          !.graded = TRUE,
                                          !.counted = attempts[a].answers,
                                          !.racing = BeingGraded(a)])
          /\ Answer(r, "done")

\* _auto_expire_guard saw an open attempt past its time.
SawDue(r) == Seen(r).status = "in_progress" /\ Seen(r).due

FinishRead(r) == \E a \in Started : Read(r, "finish", a, "")

FinishCommit(r) ==
  /\ Has(r, "finish")
  /\ IF Seen(r).status \in Finished
     THEN Answer(r, "done") /\ UNCHANGED attempts
     ELSE Grade(r, "completed")

\* GET of the attempt, and code/run: both only look, and expire what is due.
OpenRead(r) == \E a \in Started : Read(r, "open", a, "")

OpenCommit(r) ==
  /\ Has(r, "open")
  /\ IF SawDue(r)
     THEN Grade(r, "expired")
     ELSE Answer(r, "done") /\ UNCHANGED attempts

----------------------------------------------------------------------------
\* POST /{attempt_id}/answer and code/submit. An attempt that is due is finalised and the
\* request then fails: the finalisation is rolled back with it.

\* A plausible bug: the status is not looked at.
AnswerRead_Finished(r) ==
  \E a \in Started, q \in Questions :
    IF q \in attempts[a].answers
    THEN Arrives(r) /\ Refuse(r)
    ELSE Read(r, "answer", a, q)

AnswerRead(r) ==
  \E a \in Started, q \in Questions :
    IF \/ attempts[a].status # "in_progress"
       \/ attempts[a].due
       \/ q \in attempts[a].answers
    THEN Arrives(r) /\ Refuse(r)
    ELSE Read(r, "answer", a, q)

\* A plausible bug: a repeated answer replaces the first and is counted again.
AnswerCommit_Upsert(r) ==
  LET a == Target(r)
  IN /\ Has(r, "answer")
     /\ Write(a, [attempts[a] EXCEPT !.answers = @ \cup {requests[r].question},
                                     !.index = @ + 1])
     /\ Answer(r, "done")

\* The insert fails on UniqueConstraint("attempt_id", "question_id").
AnswerCommit(r) ==
  LET a == Target(r)
      q == requests[r].question
  IN /\ Has(r, "answer")
     /\ IF q \in attempts[a].answers
        THEN Refuse(r)
        ELSE /\ Write(a, [attempts[a] EXCEPT !.answers = @ \cup {q},
                                             !.index = Seen(r).index + 1])
             /\ Answer(r, "done")

----------------------------------------------------------------------------
\* POST /{attempt_id}/integrity: the list is read, extended and written back.

EventRead(r) == \E a \in Started : Read(r, "event", a, "")

EventCommit(r) ==
  /\ Has(r, "event")
  /\ Write(Target(r), [attempts[Target(r)] EXCEPT !.events = Seen(r).events \cup {r}])
  /\ Answer(r, "done")

----------------------------------------------------------------------------
\* The time of an attempt runs out; nothing on the server notices.
TimePasses(a) ==
  /\ attempts[a].status = "in_progress"
  /\ ~ attempts[a].due
  /\ Write(a, [attempts[a] EXCEPT !.due = TRUE])
  /\ UNCHANGED requests

Next ==
  \/ \E r \in Requests :
       \/ StartRead(r) \/ StartCommit(r)
       \/ OpenRead(r) \/ OpenCommit(r)
       \/ AnswerRead(r) \/ AnswerCommit(r)
       \/ EventRead(r) \/ EventCommit(r)
       \/ FinishRead(r) \/ FinishCommit(r)
  \/ \E a \in Attempts : TimePasses(a)

Spec == Init /\ [][Next]_vars

----------------------------------------------------------------------------
Request ==
  [phase : {"idle", "done", "refused"}]
    \cup [phase : {"read"}, op : {"start"}, number : 1..AllowedAttempts]
    \cup [phase : {"read"}, op : {"open", "event", "finish"}, attempt : Attempts,
          question : {""}, row : Attempt]
    \cup [phase : {"read"}, op : {"answer"}, attempt : Attempts,
          question : Questions, row : Attempt]

\* The rows have their types, and current_index, incremented from stale reads, lags
\* behind the answers but never passes them.
TypeOK ==
  /\ attempts \in [Attempts -> Attempt]
  /\ requests \in [Requests -> Request]
  /\ \A a \in Attempts : attempts[a].index <= Cardinality(attempts[a].answers)

\* Concurrent starts that counted the same attempts cannot take the candidate past
\* allowed_attempts: the attempts are numbered 1, 2, ... without a gap or a repetition.
AttemptsAreLimited ==
  /\ Cardinality(Started) <= AllowedAttempts
  /\ {attempts[a].number : a \in Started} = 1..Cardinality(Started)

\* An attempt is finished exactly when it has its result, and every answer of a finished
\* attempt is in the result, except one that was being graded when the result was
\* computed: the route had checked the status before it.
OnlyRacingAnswersAreLost ==
  \A a \in Attempts :
    /\ attempts[a].graded <=> attempts[a].status \in Finished
    /\ attempts[a].graded => attempts[a].answers \subseteq attempts[a].counted \cup attempts[a].racing

\* Once there is a result neither it nor the status changes, whichever of finish, expiry
\* and the candidate's other requests arrive later.
VerdictIsFinal ==
  [][\A a \in Attempts :
       attempts[a].graded =>
         /\ attempts'[a].status = attempts[a].status
         /\ attempts'[a].counted = attempts[a].counted]_vars
=============================================================================
