-------------------------- MODULE Assessments_proofs --------------------------
(***************************************************************************)
(* Theorems about Assessments, for any number of attempts and requests and *)
(* any finite set of questions.                                            *)
(***************************************************************************)
EXTENDS Assessments, FiniteSetTheorems, TLAPS

Reading(r) == requests[r].phase = "read"

\* What a request that has read its rows may rely on until it commits: its attempt is there,
\* with at least the answers it saw; a start has counted no more attempts than there are.
Held ==
  \A r \in Requests :
    Reading(r) =>
      IF requests[r].op = "start"
      THEN requests[r].number <= Cardinality(Started) + 1
      ELSE /\ Target(r) \in Started
           /\ Seen(r).index <= Cardinality(Seen(r).answers)
           /\ Seen(r).answers \subseteq attempts[Target(r)].answers

\* Answers that were let in before an attempt was graded are among those it notes as racing.
RacingIsNoted ==
  \A r \in Requests :
    Has(r, "answer") /\ attempts[Target(r)].graded =>
      requests[r].question \in attempts[Target(r)].racing

AssessmentInv ==
  TypeOK /\ Held /\ RacingIsNoted /\ AttemptsAreLimited /\ OnlyRacingAnswersAreLost

----------------------------------------------------------------------------
LEMMA StartedIsFinite ==
  /\ IsFiniteSet(Attempts)
  /\ IsFiniteSet(Started)
  /\ Cardinality(Started) \in Nat
<1>1. IsFiniteSet(Attempts)
  BY FS_Interval, BoundsAssumption DEF Attempts
<1>2. Started \subseteq Attempts
  BY DEF Started
<1> QED BY <1>1, <1>2, FS_Subset, FS_CardinalityType

LEMMA AnswersAreFinite ==
  ASSUME NEW S, S \subseteq Questions
  PROVE  IsFiniteSet(S) /\ Cardinality(S) \in Nat /\ Cardinality(S) <= Cardinality(Questions)
         /\ Cardinality(Questions) \in Nat
BY QuestionsAssumption, FS_Subset, FS_CardinalityType

LEMMA NoAttemptType == NoAttempt \in Attempt
BY BoundsAssumption, AnswersAreFinite DEF NoAttempt, Attempt, Status, Finished

LEMMA InitAssessment == Init => AssessmentInv
<1> SUFFICES ASSUME Init PROVE AssessmentInv
  OBVIOUS
<1>1. Started = {}
  BY DEF Init, Started, NoAttempt
<1>2. TypeOK
  BY NoAttemptType, FS_EmptySet DEF Init, TypeOK, Request, NoAttempt
<1>3. Held /\ RacingIsNoted
  BY DEF Init, Held, RacingIsNoted, Reading, Has
<1>4. AttemptsAreLimited
  BY <1>1, FS_EmptySet, AllowedAssumption DEF AttemptsAreLimited
<1>5. OnlyRacingAnswersAreLost
  BY DEF Init, OnlyRacingAnswersAreLost, NoAttempt, Finished
<1> QED BY <1>2, <1>3, <1>4, <1>5 DEF AssessmentInv

----------------------------------------------------------------------------
\* Requests only end.
Ending ==
  /\ requests' \in [Requests -> Request]
  /\ \A s \in Requests : requests'[s] = requests[s] \/ ~ Reading(s)'

LEMMA AnswerEnds ==
  ASSUME AssessmentInv, NEW r \in Requests, NEW phase \in {"done", "refused"}, Answer(r, phase)
  PROVE  Ending
<1>1. [phase |-> phase] \in Request
  BY DEF Request
<1> QED BY <1>1 DEF AssessmentInv, TypeOK, Answer, Ending, Reading

LEMMA StandStill == AssessmentInv /\ UNCHANGED vars => AssessmentInv'
BY DEF vars, AssessmentInv, TypeOK, Held, RacingIsNoted, AttemptsAreLimited,
       OnlyRacingAnswersAreLost, Started, Reading, Has, Target, Seen

LEMMA EndStep == ASSUME AssessmentInv, Ending, UNCHANGED attempts PROVE AssessmentInv'
<1>1. TypeOK' /\ AttemptsAreLimited' /\ OnlyRacingAnswersAreLost' /\ Started' = Started
  BY DEF AssessmentInv, TypeOK, Ending, AttemptsAreLimited, OnlyRacingAnswersAreLost, Started
<1>2. Held'
  BY <1>1 DEF AssessmentInv, Held, Ending, Reading, Target, Seen
<1>3. RacingIsNoted'
  BY DEF AssessmentInv, RacingIsNoted, Ending, Has, Reading, Target
<1> QED BY <1>1, <1>2, <1>3 DEF AssessmentInv

\* An attempt is rewritten while requests end: it keeps its number and its answers.
LEMMA RewriteStep ==
  ASSUME AssessmentInv, Ending, NEW a \in Started, NEW row \in Attempt, Write(a, row),
         row.status # "none", row.number = attempts[a].number,
         attempts[a].answers \subseteq row.answers,
         row.index <= Cardinality(row.answers),
         row.graded <=> row.status \in Finished,
         row.graded => row.answers \subseteq row.counted \cup row.racing,
         \A s \in Requests :
           Has(s, "answer")' /\ Target(s) = a /\ row.graded => requests[s].question \in row.racing
  PROVE  AssessmentInv'
<1>1. a \in Attempts /\ attempts' = [attempts EXCEPT ![a] = row]
  BY DEF Started, Write
<1>2. /\ attempts'[a] = row
      /\ \A b \in Attempts \ {a} : attempts'[b] = attempts[b]
      /\ attempts' \in [Attempts -> Attempt]
  BY <1>1 DEF AssessmentInv, TypeOK
<1>3. Started' = Started /\ \A b \in Attempts : attempts'[b].number = attempts[b].number
  BY <1>2 DEF Started
<1>4. TypeOK'
  BY <1>2 DEF AssessmentInv, TypeOK, Ending
<1>5. Held'
  <2> SUFFICES ASSUME NEW r \in Requests, Reading(r)'
               PROVE  IF requests'[r].op = "start"
                      THEN requests'[r].number <= Cardinality(Started') + 1
                      ELSE /\ Target(r)' \in Started'
                           /\ Seen(r)'.index <= Cardinality(Seen(r)'.answers)
                           /\ Seen(r)'.answers \subseteq attempts'[Target(r)'].answers
    BY DEF Held
  <2>1. requests'[r] = requests[r] /\ Reading(r)
    BY DEF Ending, Reading
  <2>2. \A b \in Attempts : attempts[b].answers \subseteq attempts'[b].answers
    BY <1>2
  <2> QED BY <2>1, <2>2, <1>3 DEF AssessmentInv, Held, Target, Seen, Started
<1>6. RacingIsNoted'
  <2> SUFFICES ASSUME NEW r \in Requests, Has(r, "answer")', attempts'[Target(r)'].graded
               PROVE  requests'[r].question \in attempts'[Target(r)'].racing
    BY DEF RacingIsNoted
  <2>1. requests'[r] = requests[r] /\ Has(r, "answer") /\ Target(r)' = Target(r)
    BY DEF Ending, Reading, Has, Target
  <2>2. Target(r) \in Attempts
    BY <2>1 DEF AssessmentInv, Held, Reading, Has, Started
  <2>3. CASE Target(r) = a
    BY <2>1, <2>3, <1>2
  <2>4. CASE Target(r) # a
    BY <2>1, <2>2, <2>4, <1>2 DEF AssessmentInv, RacingIsNoted
  <2> QED BY <2>3, <2>4
<1>7. AttemptsAreLimited'
  BY <1>3 DEF AssessmentInv, AttemptsAreLimited, Started
<1>8. OnlyRacingAnswersAreLost'
  BY <1>2 DEF AssessmentInv, OnlyRacingAnswersAreLost
<1> QED BY <1>4, <1>5, <1>6, <1>7, <1>8 DEF AssessmentInv

----------------------------------------------------------------------------
\* The actions that rewrite an attempt.

LEMMA AttemptOf ==
  ASSUME AssessmentInv, NEW r \in Requests, Reading(r), requests[r].op # "start"
  PROVE  /\ Target(r) \in Started /\ Target(r) \in Attempts
         /\ attempts[Target(r)] \in Attempt /\ attempts[Target(r)].status # "none"
         /\ Seen(r) \in Attempt
         /\ requests[r].op = "answer" => requests[r].question \in Questions
<1>1. Target(r) \in Started
  BY DEF AssessmentInv, Held
<1>2. requests[r] \in Request
  BY DEF AssessmentInv, TypeOK
<1>3. /\ requests[r].row \in Attempt
      /\ requests[r].op = "answer" => requests[r].question \in Questions
  BY <1>2 DEF Request, Reading
<1> QED BY <1>1, <1>3 DEF AssessmentInv, TypeOK, Started, Seen

LEMMA GradeStep ==
  ASSUME AssessmentInv, NEW r \in Requests, Reading(r), requests[r].op # "start",
         requests[r].op # "answer", NEW status \in Finished, Grade(r, status)
  PROVE  AssessmentInv'
<1> DEFINE a == Target(r)
           row == [attempts[a] EXCEPT !.status = status, !.graded = TRUE,
                                      !.counted = attempts[a].answers, !.racing = BeingGraded(a)]
<1>1. CASE attempts[a].graded
  BY <1>1, AnswerEnds, EndStep DEF Grade, Refuse
<1>2. CASE ~ attempts[a].graded
  <2>1. Write(a, row) /\ Answer(r, "done")
    BY <1>2 DEF Grade
  <2>2. a \in Started /\ a \in Attempts /\ attempts[a] \in Attempt
    BY AttemptOf
  <2>3. BeingGraded(a) \subseteq Questions
    BY AttemptOf DEF BeingGraded, Has, Reading
  <2>4. /\ row \in Attempt /\ row.status = status /\ row.number = attempts[a].number
        /\ row.answers = attempts[a].answers /\ row.index = attempts[a].index
        /\ row.graded = TRUE /\ row.counted = row.answers /\ row.racing = BeingGraded(a)
    BY <2>2, <2>3 DEF Attempt, Status
  <2>5. row.status # "none" /\ row.status \in Finished
    BY <2>4 DEF Finished
  <2>6. row.index <= Cardinality(row.answers)
    BY <2>2, <2>4 DEF AssessmentInv, TypeOK
  <2>7. Ending
    BY <2>1, AnswerEnds
  <2>8. \A s \in Requests :
          Has(s, "answer")' /\ Target(s) = a => requests[s].question \in row.racing
    BY <2>4, <2>7 DEF Ending, Has, Reading, BeingGraded
  <2> HIDE DEF row
  <2> QED BY <2>1, <2>2, <2>4, <2>5, <2>6, <2>7, <2>8, RewriteStep
<1> QED BY <1>1, <1>2

LEMMA FinishStep == ASSUME AssessmentInv, NEW r \in Requests, FinishCommit(r) PROVE AssessmentInv'
<1>1. CASE Seen(r).status \in Finished
  BY <1>1, AnswerEnds, EndStep DEF FinishCommit
<1>2. CASE Seen(r).status \notin Finished
  BY <1>2, GradeStep DEF FinishCommit, Has, Reading, Finished
<1> QED BY <1>1, <1>2

LEMMA OpenStep == ASSUME AssessmentInv, NEW r \in Requests, OpenCommit(r) PROVE AssessmentInv'
<1>1. CASE ~ SawDue(r)
  BY <1>1, AnswerEnds, EndStep DEF OpenCommit
<1>2. CASE SawDue(r)
  BY <1>2, GradeStep DEF OpenCommit, Has, Reading, Finished
<1> QED BY <1>1, <1>2

\* The index of a stale read plus one counts no more than the answers with the new one.
LEMMA AnswerStep == ASSUME AssessmentInv, NEW r \in Requests, AnswerCommit(r) PROVE AssessmentInv'
<1> DEFINE a == Target(r)
           q == requests[r].question
           row == [attempts[a] EXCEPT !.answers = @ \cup {q}, !.index = Seen(r).index + 1]
<1>1. CASE q \in attempts[a].answers
  BY <1>1, AnswerEnds, EndStep DEF AnswerCommit, Refuse
<1>2. CASE q \notin attempts[a].answers
  <2>1. Write(a, row) /\ Answer(r, "done") /\ Has(r, "answer")
    BY <1>2 DEF AnswerCommit
  <2>2. a \in Started /\ a \in Attempts /\ attempts[a] \in Attempt /\ q \in Questions
        /\ attempts[a].status # "none" /\ Seen(r) \in Attempt
    BY <2>1, AttemptOf DEF Has, Reading
  <2>3. Seen(r).index + 1 <= Cardinality(attempts[a].answers \cup {q})
    <3>1. Seen(r).index <= Cardinality(Seen(r).answers) /\ Seen(r).answers \subseteq attempts[a].answers
      BY <2>1 DEF AssessmentInv, Held, Has, Reading
    <3>2. IsFiniteSet(attempts[a].answers)
      BY <2>2, AnswersAreFinite DEF Attempt
    <3>3. Cardinality(Seen(r).answers) <= Cardinality(attempts[a].answers)
      BY <3>1, <3>2, FS_Subset
    <3>4. Cardinality(attempts[a].answers \cup {q}) = Cardinality(attempts[a].answers) + 1
      BY <3>2, <1>2, FS_AddElement
    <3>5. /\ Seen(r).index \in Nat
          /\ Cardinality(Seen(r).answers) \in Nat /\ Cardinality(attempts[a].answers) \in Nat
      BY <2>2, AnswersAreFinite DEF Attempt
    <3> QED BY <3>1, <3>3, <3>4, <3>5
  <2>4. /\ attempts[a].answers \cup {q} \subseteq Questions
        /\ Seen(r).index + 1 \in 0..Cardinality(Questions)
    <3>1. attempts[a].answers \cup {q} \subseteq Questions
      BY <2>2 DEF Attempt
    <3>2. /\ Cardinality(attempts[a].answers \cup {q}) <= Cardinality(Questions)
          /\ Cardinality(attempts[a].answers \cup {q}) \in Nat /\ Cardinality(Questions) \in Nat
      BY <3>1, AnswersAreFinite
    <3>3. Seen(r).index \in Nat
      BY <2>2, AnswersAreFinite DEF Attempt
    <3> QED BY <3>1, <3>2, <3>3, <2>3
  <2>5. /\ row \in Attempt /\ row.status = attempts[a].status /\ row.number = attempts[a].number
        /\ row.answers = attempts[a].answers \cup {q} /\ row.index = Seen(r).index + 1
        /\ row.graded = attempts[a].graded /\ row.counted = attempts[a].counted
        /\ row.racing = attempts[a].racing
    BY <2>2, <2>4 DEF Attempt
  <2>6. row.graded => q \in row.racing
    BY <2>1, <2>5 DEF AssessmentInv, RacingIsNoted
  <2>7. /\ row.graded <=> row.status \in Finished
        /\ row.graded => row.answers \subseteq row.counted \cup row.racing
    BY <2>2, <2>5, <2>6 DEF AssessmentInv, OnlyRacingAnswersAreLost
  <2>8. Ending
    BY <2>1, AnswerEnds
  <2>9. \A s \in Requests :
          Has(s, "answer")' /\ Target(s) = a /\ row.graded => requests[s].question \in row.racing
    BY <2>5, <2>8 DEF AssessmentInv, RacingIsNoted, Ending, Has, Reading
  <2> HIDE DEF row
  <2> QED BY <2>1, <2>2, <2>3, <2>5, <2>7, <2>8, <2>9, RewriteStep
<1> QED BY <1>1, <1>2

\* What was written before and changes neither answers nor verdict.
LEMMA AsideStep ==
  ASSUME AssessmentInv, Ending, NEW a \in Started, NEW events \in SUBSET Requests,
         NEW due \in BOOLEAN,
         Write(a, [attempts[a] EXCEPT !.events = events, !.due = due])
  PROVE  AssessmentInv'
<1> DEFINE row == [attempts[a] EXCEPT !.events = events, !.due = due]
<1>1. a \in Attempts /\ attempts[a] \in Attempt /\ attempts[a].status # "none"
  BY DEF AssessmentInv, TypeOK, Started
<1>2. /\ row \in Attempt /\ row.status = attempts[a].status /\ row.number = attempts[a].number
      /\ row.answers = attempts[a].answers /\ row.index = attempts[a].index
      /\ row.graded = attempts[a].graded /\ row.counted = attempts[a].counted
      /\ row.racing = attempts[a].racing
  BY <1>1 DEF Attempt
<1>3. \A s \in Requests :
        Has(s, "answer")' /\ Target(s) = a /\ row.graded => requests[s].question \in row.racing
  BY <1>2 DEF AssessmentInv, RacingIsNoted, Ending, Has, Reading
<1>4. /\ row.index <= Cardinality(row.answers)
      /\ row.graded <=> row.status \in Finished
      /\ row.graded => row.answers \subseteq row.counted \cup row.racing
  BY <1>1, <1>2 DEF AssessmentInv, TypeOK, OnlyRacingAnswersAreLost
<1> HIDE DEF row
<1> QED BY <1>1, <1>2, <1>3, <1>4, RewriteStep DEF row

LEMMA EventStep == ASSUME AssessmentInv, NEW r \in Requests, EventCommit(r) PROVE AssessmentInv'
<1> DEFINE a == Target(r)
<1>1. a \in Started /\ attempts[a] \in Attempt /\ Seen(r) \in Attempt
  BY AttemptOf DEF EventCommit, Has, Reading
<1>2. Seen(r).events \cup {r} \in SUBSET Requests /\ attempts[a].due \in BOOLEAN
  BY <1>1 DEF Attempt
<1>3. [attempts[a] EXCEPT !.events = Seen(r).events \cup {r}]
        = [attempts[a] EXCEPT !.events = Seen(r).events \cup {r}, !.due = attempts[a].due]
  BY <1>1 DEF Attempt
<1>4. Ending
  BY AnswerEnds DEF EventCommit
<1> QED BY <1>1, <1>2, <1>3, <1>4, AsideStep DEF EventCommit

LEMMA TimeStep == ASSUME AssessmentInv, NEW a \in Attempts, TimePasses(a) PROVE AssessmentInv'
<1>1. a \in Started /\ attempts[a] \in Attempt /\ attempts[a].events \in SUBSET Requests
  BY DEF TimePasses, Started, AssessmentInv, TypeOK, Attempt
<1>2. [attempts[a] EXCEPT !.due = TRUE] = [attempts[a] EXCEPT !.events = attempts[a].events, !.due = TRUE]
  BY <1>1 DEF Attempt
<1>3. Ending
  BY DEF TimePasses, AssessmentInv, TypeOK, Ending
<1> QED BY <1>1, <1>2, <1>3, AsideStep DEF TimePasses

----------------------------------------------------------------------------
\* The actions that read, and the start of an attempt.

\* A request begins: it holds the rows as they are.
LEMMA ReadStep ==
  ASSUME AssessmentInv, NEW r \in Requests, NEW op \in Operation, NEW a \in Started,
         NEW q \in Questions \cup {""}, Read(r, op, a, q),
         \/ op \in {"open", "event", "finish"} /\ q = ""
         \/ op = "answer" /\ q \in Questions /\ attempts[a].status = "in_progress"
  PROVE  AssessmentInv'
<1> DEFINE request == [phase |-> "read", op |-> op, attempt |-> a, question |-> q, row |-> attempts[a]]
<1>1. requests' = [requests EXCEPT ![r] = request] /\ UNCHANGED attempts
  BY DEF Read
<1>2. a \in Attempts /\ attempts[a] \in Attempt
  BY DEF Started, AssessmentInv, TypeOK
<1>3. request \in Request
  BY <1>2 DEF Request
<1>4. TypeOK' /\ AttemptsAreLimited' /\ OnlyRacingAnswersAreLost' /\ Started' = Started
  BY <1>1, <1>3 DEF AssessmentInv, TypeOK, AttemptsAreLimited, OnlyRacingAnswersAreLost, Started
<1>5. requests'[r] = request /\ \A s \in Requests \ {r} : requests'[s] = requests[s]
  BY <1>1, <1>3 DEF AssessmentInv, TypeOK
<1>r. requests'[r].op = op /\ requests'[r].attempt = a /\ requests'[r].row = attempts[a]
  <2>1. request.op = op /\ request.attempt = a /\ request.row = attempts[a]
    OBVIOUS
  <2> HIDE DEF request
  <2> QED BY <2>1, <1>5
<1> HIDE DEF request
<1>6. Held'
  <2> SUFFICES ASSUME NEW s \in Requests, Reading(s)'
               PROVE  IF requests'[s].op = "start"
                      THEN requests'[s].number <= Cardinality(Started') + 1
                      ELSE /\ Target(s)' \in Started'
                           /\ Seen(s)'.index <= Cardinality(Seen(s)'.answers)
                           /\ Seen(s)'.answers \subseteq attempts'[Target(s)'].answers
    BY DEF Held
  <2>1. CASE s = r
    <3>1. requests'[s].op # "start" /\ Target(s)' = a /\ Seen(s)' = attempts[a]
      BY <2>1, <1>r DEF Target, Seen
    <3>2. attempts[a].index <= Cardinality(attempts[a].answers)
      BY <1>2 DEF AssessmentInv, TypeOK
    <3> QED BY <3>1, <3>2, <1>1, <1>4
  <2>2. CASE s # r
    <3>1. requests'[s] = requests[s] /\ Reading(s)
      BY <2>2, <1>5 DEF Reading
    <3>2. Target(s)' = Target(s) /\ Seen(s)' = Seen(s)
      BY <3>1 DEF Target, Seen
    <3> QED BY <3>1, <3>2, <1>1, <1>4 DEF AssessmentInv, Held
  <2> QED BY <2>1, <2>2
<1>7. RacingIsNoted'
  <2> SUFFICES ASSUME NEW s \in Requests, Has(s, "answer")', attempts'[Target(s)'].graded
               PROVE  requests'[s].question \in attempts'[Target(s)'].racing
    BY DEF RacingIsNoted
  <2>1. CASE s = r
    <3>1. attempts[a].graded /\ attempts[a].status = "in_progress"
      BY <2>1, <1>1, <1>r DEF Has, Target
    <3> QED BY <3>1, <1>2 DEF AssessmentInv, OnlyRacingAnswersAreLost, Finished
  <2>2. CASE s # r
    BY <2>2, <1>1, <1>5 DEF AssessmentInv, RacingIsNoted, Has, Target
  <2> QED BY <2>1, <2>2
<1> QED BY <1>4, <1>6, <1>7 DEF AssessmentInv

LEMMA AnswerReadStep == ASSUME AssessmentInv, NEW r \in Requests, AnswerRead(r) PROVE AssessmentInv'
<1> PICK a \in Started, q \in Questions :
      IF attempts[a].status # "in_progress" \/ attempts[a].due \/ q \in attempts[a].answers
      THEN Arrives(r) /\ Refuse(r)
      ELSE Read(r, "answer", a, q)
  BY DEF AnswerRead
<1>1. CASE Refuse(r)
  BY <1>1, AnswerEnds, EndStep DEF Refuse
<1>2. CASE Read(r, "answer", a, q) /\ attempts[a].status = "in_progress"
  BY <1>2, ReadStep DEF Operation
<1> QED BY <1>1, <1>2

LEMMA LookStep ==
  ASSUME AssessmentInv, NEW r \in Requests, OpenRead(r) \/ EventRead(r) \/ FinishRead(r)
  PROVE  AssessmentInv'
BY ReadStep DEF OpenRead, EventRead, FinishRead, Operation

LEMMA StartReadStep == ASSUME AssessmentInv, NEW r \in Requests, StartRead(r) PROVE AssessmentInv'
<1> DEFINE used == Cardinality(Started)
           request == [phase |-> "read", op |-> "start", number |-> used + 1]
<1>1. CASE Answer(r, "refused") /\ UNCHANGED attempts
  BY <1>1, AnswerEnds, EndStep
<1>2. CASE used < AllowedAttempts /\ requests' = [requests EXCEPT ![r] = request]
           /\ UNCHANGED attempts
  <2>1. used \in Nat /\ used + 1 \in 1..AllowedAttempts
    BY <1>2, StartedIsFinite, AllowedAssumption, BoundsAssumption
  <2>2. request \in Request
    BY <2>1 DEF Request
  <2>3. TypeOK' /\ AttemptsAreLimited' /\ OnlyRacingAnswersAreLost' /\ Started' = Started
    BY <1>2, <2>2 DEF AssessmentInv, TypeOK, AttemptsAreLimited, OnlyRacingAnswersAreLost, Started
  <2>4. requests'[r] = request /\ \A s \in Requests \ {r} : requests'[s] = requests[s]
    BY <1>2, <2>2 DEF AssessmentInv, TypeOK
  <2>5. Held'
    BY <1>2, <2>1, <2>3, <2>4 DEF AssessmentInv, Held, Reading, Target, Seen
  <2>6. RacingIsNoted'
    BY <1>2, <2>4 DEF AssessmentInv, RacingIsNoted, Has, Target
  <2> QED BY <2>3, <2>5, <2>6 DEF AssessmentInv
<1> QED
  BY <1>1, <1>2, StartedIsFinite, AllowedAssumption, BoundsAssumption DEF StartRead

\* A start that is let in gets the number after the last: what it counted may be fewer than
\* there are, but then its number is taken.
LEMMA StartStep == ASSUME AssessmentInv, NEW r \in Requests, StartCommit(r) PROVE AssessmentInv'
<1> DEFINE number == requests[r].number
<1>1. CASE \E a \in Started : attempts[a].number = number
  BY <1>1, AnswerEnds, EndStep DEF StartCommit, Refuse
<1>2. ASSUME NEW a \in Attempts \ Started, Insert(a, number), Answer(r, "done"),
             \A b \in Started : attempts[b].number # number
      PROVE  AssessmentInv'
  <2> DEFINE row == [NoAttempt EXCEPT !.status = "in_progress", !.number = number]
  <2>1. number \in 1..AllowedAttempts /\ number <= Cardinality(Started) + 1
    <3>1. requests[r] \in Request /\ requests[r].phase = "read" /\ requests[r].op = "start"
      BY DEF AssessmentInv, TypeOK, StartCommit, Has
    <3>2. requests[r].number \in 1..AllowedAttempts
      BY <3>1 DEF Request
    <3> QED BY <3>1, <3>2 DEF AssessmentInv, Held, Reading
  <2>2. number = Cardinality(Started) + 1
    BY <1>2, <2>1, StartedIsFinite, AllowedAssumption, BoundsAssumption
       DEF AssessmentInv, AttemptsAreLimited
  <2>3. row \in Attempt
    <3>1. number \in 0..MaxAttempts
      BY <2>1, AllowedAssumption, BoundsAssumption
    <3>2. "in_progress" \in Status
      BY DEF Status
    <3> QED BY <3>1, <3>2, NoAttemptType DEF Attempt
  <2>4. /\ row.status = "in_progress" /\ row.number = number /\ row.answers = {}
        /\ row.index = 0 /\ row.graded = FALSE
    BY DEF NoAttempt
  <2> HIDE DEF row
  <2>5. attempts' = [attempts EXCEPT ![a] = row]
    BY <1>2 DEF Insert, Write, row
  <2>6. /\ attempts'[a] = row /\ attempts' \in [Attempts -> Attempt]
        /\ \A b \in Attempts \ {a} : attempts'[b] = attempts[b]
    BY <2>3, <2>5 DEF AssessmentInv, TypeOK
  <2>7. Started' = Started \cup {a}
    BY <2>4, <2>6 DEF Started
  <2>8. Cardinality(Started') = Cardinality(Started) + 1
    BY <1>2, <2>7, StartedIsFinite, FS_AddElement
  <2>9. Ending
    BY <1>2, AnswerEnds
  <2>10. TypeOK'
    <3>1. row.index <= Cardinality(row.answers)
      BY <2>4, FS_EmptySet
    <3>2. \A b \in Attempts : attempts'[b].index <= Cardinality(attempts'[b].answers)
      BY <3>1, <2>6 DEF AssessmentInv, TypeOK
    <3> QED BY <3>2, <2>6, <2>9 DEF TypeOK, Ending
  <2>11. \A s \in Requests : Reading(s)' =>
           /\ requests'[s] = requests[s] /\ Reading(s)
           /\ requests[s].op # "start" => Target(s) \in Started /\ Target(s) \in Attempts \ {a}
    BY <1>2, <2>9 DEF Ending, Reading, AssessmentInv, Held, Started
  <2>12. Held'
    <3> SUFFICES ASSUME NEW s \in Requests, Reading(s)'
                 PROVE  IF requests'[s].op = "start"
                        THEN requests'[s].number <= Cardinality(Started') + 1
                        ELSE /\ Target(s)' \in Started'
                             /\ Seen(s)'.index <= Cardinality(Seen(s)'.answers)
                             /\ Seen(s)'.answers \subseteq attempts'[Target(s)'].answers
      BY DEF Held
    <3>1. CASE requests[s].op = "start"
      <4>1. requests[s].number \in Nat /\ requests[s].number <= Cardinality(Started) + 1
        <5>1. requests[s] \in Request /\ requests[s].phase = "read"
          BY <2>11 DEF AssessmentInv, TypeOK, Reading
        <5>2. requests[s].number \in 1..AllowedAttempts
          BY <5>1, <3>1 DEF Request
        <5> QED BY <5>2, <2>11, <3>1 DEF AssessmentInv, Held
      <4> QED BY <4>1, <2>8, <2>11, <3>1, StartedIsFinite
    <3>2. CASE requests[s].op # "start"
      BY <3>2, <2>6, <2>7, <2>11 DEF AssessmentInv, Held, Target, Seen
    <3> QED BY <3>1, <3>2
  <2>13. RacingIsNoted'
    BY <2>6, <2>11 DEF AssessmentInv, RacingIsNoted, Has, Reading, Target
  <2>14. AttemptsAreLimited'
    <3>1. {attempts'[b].number : b \in Started'} = {attempts[b].number : b \in Started} \cup {number}
      BY <1>2, <2>4, <2>6, <2>7 DEF Started
    <3>2. {attempts[b].number : b \in Started} = 1..Cardinality(Started)
      BY DEF AssessmentInv, AttemptsAreLimited
    <3>3. (1..Cardinality(Started)) \cup {number} = 1..(Cardinality(Started) + 1)
      BY <2>2, StartedIsFinite
    <3> QED BY <3>1, <3>2, <3>3, <2>1, <2>2, <2>8 DEF AttemptsAreLimited
  <2>15. OnlyRacingAnswersAreLost'
    BY <2>4, <2>6 DEF AssessmentInv, OnlyRacingAnswersAreLost, Finished
  <2> QED BY <2>10, <2>12, <2>13, <2>14, <2>15 DEF AssessmentInv
<1> QED BY <1>1, <1>2 DEF StartCommit

----------------------------------------------------------------------------
LEMMA AssessmentStep == ASSUME AssessmentInv, [Next]_vars PROVE AssessmentInv'
<1>1. ASSUME NEW r \in Requests, StartRead(r) \/ StartCommit(r) PROVE AssessmentInv'
  BY <1>1, StartReadStep, StartStep
<1>2. ASSUME NEW r \in Requests, OpenRead(r) \/ EventRead(r) \/ FinishRead(r) PROVE AssessmentInv'
  BY <1>2, LookStep
<1>3. ASSUME NEW r \in Requests, AnswerRead(r) \/ AnswerCommit(r) PROVE AssessmentInv'
  BY <1>3, AnswerReadStep, AnswerStep
<1>4. ASSUME NEW r \in Requests, OpenCommit(r) \/ EventCommit(r) \/ FinishCommit(r)
      PROVE  AssessmentInv'
  BY <1>4, OpenStep, EventStep, FinishStep
<1>5. ASSUME NEW a \in Attempts, TimePasses(a) PROVE AssessmentInv'
  BY <1>5, TimeStep
<1>6. CASE UNCHANGED vars
  BY <1>6, StandStill
<1> QED BY <1>1, <1>2, <1>3, <1>4, <1>5, <1>6 DEF Next

LEMMA AssessmentInvariance == Spec => []AssessmentInv
<1>1. AssessmentInv /\ [Next]_vars => AssessmentInv'
  BY AssessmentStep
<1> QED BY <1>1, InitAssessment, PTL DEF Spec

\* The rows have their types, and current_index never passes the answers.
THEOREM TypeCorrect == Spec => []TypeOK
<1>1. AssessmentInv => TypeOK
  BY DEF AssessmentInv
<1> QED BY <1>1, AssessmentInvariance, PTL

\* No number of concurrent starts gets past allowed_attempts.
THEOREM AttemptsAreLimitedHolds == Spec => []AttemptsAreLimited
<1>1. AssessmentInv => AttemptsAreLimited
  BY DEF AssessmentInv
<1> QED BY <1>1, AssessmentInvariance, PTL

\* Every answer of a finished attempt counts, but for those being graded at that time.
THEOREM OnlyRacingAnswersAreLostHolds == Spec => []OnlyRacingAnswersAreLost
<1>1. AssessmentInv => OnlyRacingAnswersAreLost
  BY DEF AssessmentInv
<1> QED BY <1>1, AssessmentInvariance, PTL

----------------------------------------------------------------------------
\* What a step may do to the verdict on attempt a.
Kept(a) ==
  attempts[a].graded =>
    attempts'[a].status = attempts[a].status /\ attempts'[a].counted = attempts[a].counted

LEMMA GradeKeeps ==
  ASSUME AssessmentInv, NEW r \in Requests, NEW status, Grade(r, status), NEW a \in Attempts
  PROVE  Kept(a)
BY DEF AssessmentInv, TypeOK, Grade, Refuse, Write, Kept

LEMMA CommitKeeps ==
  ASSUME AssessmentInv, NEW r \in Requests, NEW a \in Attempts,
         AnswerCommit(r) \/ EventCommit(r)
  PROVE  Kept(a)
<1>1. attempts[a] \in Attempt
  BY DEF AssessmentInv, TypeOK
<1>2. CASE AnswerCommit(r)
  <2>1. CASE UNCHANGED attempts
    BY <2>1 DEF Kept
  <2>2. ASSUME NEW b, NEW S, NEW n,
               Write(b, [attempts[b] EXCEPT !.answers = S, !.index = n])
        PROVE  Kept(a)
    <3>1. CASE a = b
      BY <1>1, <2>2, <3>1 DEF Write, AssessmentInv, TypeOK, Kept, Attempt
    <3>2. CASE a # b
      BY <2>2, <3>2 DEF Write, AssessmentInv, TypeOK, Kept
    <3> QED BY <3>1, <3>2
  <2> QED BY <1>2, <2>1, <2>2 DEF AnswerCommit, Refuse
<1>3. CASE EventCommit(r)
  BY <1>1, <1>3 DEF EventCommit, Write, AssessmentInv, TypeOK, Kept, Attempt
<1> QED BY <1>2, <1>3

LEMMA StartKeeps ==
  ASSUME AssessmentInv, NEW r \in Requests, NEW a \in Attempts, StartCommit(r)
  PROVE  Kept(a)
<1>1. CASE UNCHANGED attempts
  BY <1>1 DEF Kept
<1>2. ASSUME NEW b \in Attempts \ Started, Insert(b, requests[r].number) PROVE Kept(a)
  <2>1. ~ attempts[b].graded
    BY DEF AssessmentInv, OnlyRacingAnswersAreLost, Started, Finished
  <2>2. a # b => attempts'[a] = attempts[a]
    BY <1>2 DEF Insert, Write, AssessmentInv, TypeOK
  <2> QED BY <2>1, <2>2 DEF Kept
<1> QED BY <1>1, <1>2 DEF StartCommit, Refuse

LEMMA VerdictStep ==
  ASSUME AssessmentInv, [Next]_vars, NEW a \in Attempts PROVE Kept(a)
<1>1. CASE UNCHANGED attempts
  BY <1>1 DEF Kept
<1>2. ASSUME NEW r \in Requests, AnswerRead(r) \/ OpenRead(r) \/ EventRead(r) \/ FinishRead(r)
                                  \/ StartRead(r)
      PROVE  UNCHANGED attempts
  BY <1>2 DEF AnswerRead, OpenRead, EventRead, FinishRead, StartRead, Read, Refuse
<1>3. ASSUME NEW r \in Requests, OpenCommit(r) \/ FinishCommit(r) PROVE Kept(a)
  BY <1>1, <1>3, GradeKeeps DEF OpenCommit, FinishCommit
<1>4. ASSUME NEW r \in Requests, AnswerCommit(r) \/ EventCommit(r) \/ StartCommit(r) PROVE Kept(a)
  BY <1>4, CommitKeeps, StartKeeps
<1>5. ASSUME NEW b \in Attempts, TimePasses(b) PROVE Kept(a)
  BY <1>5 DEF TimePasses, Write, AssessmentInv, TypeOK, Attempt, Kept
<1> QED BY <1>1, <1>2, <1>3, <1>4, <1>5 DEF Next, vars

\* Once there is a result, no later request changes it or the status.
THEOREM VerdictIsFinalHolds == Spec => VerdictIsFinal
<1>1. AssessmentInv /\ [Next]_vars =>
        [\A a \in Attempts :
           attempts[a].graded =>
             /\ attempts'[a].status = attempts[a].status
             /\ attempts'[a].counted = attempts[a].counted]_vars
  BY VerdictStep DEF Kept
<1> QED BY <1>1, AssessmentInvariance, PTL DEF Spec, VerdictIsFinal
=============================================================================
