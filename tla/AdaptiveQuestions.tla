-------------------------- MODULE AdaptiveQuestions --------------------------
(***************************************************************************)
(* The question offered after each answer of an adaptive assessment:       *)
(*   services/assessment/adaptive.py and its caller in                     *)
(*   services/assessment/assessment_service.py                             *)
(***************************************************************************)
EXTENDS Integers, Sequences, SequencesExt, FiniteSetsExt

CONSTANTS
  Size,     \* how many questions the assessment has; 1..Size is their order_index
  Level(_)  \* the difficulty of a question, as its place on DIFFICULTY_LADDER

ASSUME SizeAssumption == Size \in Nat \ {0}
ASSUME LevelAssumption == \A q \in 1..Size : Level(q) \in 1..4

VARIABLES
  log,     \* the answers, in the order they were given: the question, and if it was right
  offered  \* next_question of the last response; 0 for None

adaptiveVars == <<log, offered>>

Answered == {log[i].question : i \in DOMAIN log}
Remaining(done) == (1..Size) \ done

AdaptiveInit == log = <<>> /\ offered = 1

\* next_difficulty
NextDifficulty(current, wasCorrect, streak) ==
  IF ~ wasCorrect THEN IF current = 1 THEN 1 ELSE current - 1
  ELSE IF streak >= 2 /\ current < 4 THEN current + 1
  ELSE current

\* _current_streak: how many of the last answers in a row are right.
CurrentStreak(answers) ==
  LET wrong == {i \in DOMAIN answers : ~ answers[i].correct}
  IN Len(answers) - (IF wrong = {} THEN 0 ELSE Max(wrong))

\* A plausible bug: the question just answered is not yet among the answered ones (the map is read first).
PickNextQuestion_Stale(done, current, lastCorrect, streak) ==
  LET target == NextDifficulty(current, lastCorrect, streak)
      open == (1..Size) \ Answered
      Distance(q) == IF Level(q) < target THEN target - Level(q) ELSE Level(q) - target
      nearest == {q \in open : \A p \in open : Distance(q) <= Distance(p)}
  IN IF nearest = {} THEN 0 ELSE Min(nearest)

\* pick_next_question: the nearest to the target, and the first of those; 0 if none is left.
PickNextQuestion(done, current, lastCorrect, streak) ==
  LET target == NextDifficulty(current, lastCorrect, streak)
      Distance(q) == IF Level(q) < target THEN target - Level(q) ELSE Level(q) - target
      nearest == {q \in Remaining(done) :
                    \A p \in Remaining(done) : Distance(q) <= Distance(p)}
  IN IF nearest = {} THEN 0 ELSE Min(nearest)

\* submit_answer: last_correct is not the verdict but the answer's row, which is true as a
\* Boolean whatever the verdict says.
SubmitAnswer(q, correct) ==
  LET answers == Append(log, [question |-> q, correct |-> correct])
  IN /\ q \notin Answered
     /\ log' = answers
     /\ offered' = PickNextQuestion(Answered \cup {q}, Level(q), TRUE, CurrentStreak(answers))

\* The candidate may answer any question, not only the one offered.
AdaptiveNext == \E q \in 1..Size, correct \in BOOLEAN : SubmitAnswer(q, correct)

AdaptiveSpec == AdaptiveInit /\ [][AdaptiveNext]_adaptiveVars

----------------------------------------------------------------------------
AnsweredJustNow == Last(log').question

\* "The assessment never stalls" (adaptive.py:40): after every answer, in whatever order the
\* candidate picked the questions, one that is still open is offered, until none is left.
NeverStalls ==
  /\ offered = 0 <=> Remaining(Answered) = {}
  /\ offered \notin Answered

\* "A wrong answer steps DOWN" (adaptive.py:4): after one, if an easier question is left, the
\* one offered is easier.
WrongStepsDown ==
  [][(~ Last(log').correct
       /\ \E q \in Remaining(Answered \cup {AnsweredJustNow}) :
            Level(q) = Level(AnsweredJustNow) - 1)
       => Level(offered') < Level(AnsweredJustNow)]_adaptiveVars
=============================================================================
