--------------------------- MODULE AssessmentScoring ---------------------------
(***************************************************************************)
(* How an attempt is graded:                                               *)
(*   services/assessment/graders.py and scoring.py                         *)
(*                                                                         *)
(* Of an answer only what the graders count is kept: the right option, the *)
(* tests passed, the keywords of the rubric it names, its words, whether   *)
(* it is structured. Scores are in 1/10000 of a question, marks in         *)
(* hundredths of a point.                                                  *)
(***************************************************************************)
EXTENDS Arithmetic, Subject

Objective == {"choice", "code_output"}

Graded(score, correct) == [score |-> score, correct |-> correct]

\* grade_objective: half a mark for half of the expected output.
GradeObjective(a) ==
  CASE a.given = "right" -> Graded(10000, TRUE)
    [] a.given = "half" -> Graded(5000, FALSE)
    [] a.given = "wrong" -> Graded(0, FALSE)

\* grade_coding_from_run; a run that ended early has no tests.
GradeCoding(a) ==
  IF a.tests = 0 THEN Graded(0, FALSE)
  ELSE Graded(100 * Round(100 * a.passed, a.tests), a.passed = a.tests)

\* grade_debugging: keywords, a fix, and words up to eighty.
GradeDebugging(a) ==
  LET of == Greatest(a.keywords, 1)
      percent == 55 * 80 * a.hits + 30 * Least(a.words, 80) * of
                   + (IF a.structured /\ a.words > 12 THEN 1400 * of ELSE 0)
      all == 80 * of
  IN IF a.words = 0 THEN Graded(0, FALSE)
     ELSE Graded(100 * Least(Round(percent, all), 100), percent >= 70 * all)

\* grade_subjective: the rubric, or 120 words without one, depth up to 150 words, and
\* presentation.
GradeSubjective(a) ==
  LET of == IF a.keywords = 0 THEN 120 ELSE a.keywords
      covered == IF a.keywords = 0 THEN Least(a.words, 120) ELSE a.hits
      score == Round(6500 * 150 * covered + 2300 * Least(a.words, 150) * of
                       + (IF a.structured THEN 900 ELSE 525) * 150 * of,
                     150 * of)
  IN IF a.words = 0 THEN Graded(0, FALSE) ELSE Graded(score, score >= 7000)

\* AssessmentService._evaluate
GradeAnswer(a) ==
  CASE a.type \in Objective -> GradeObjective(a)
    [] a.type = "coding" -> GradeCoding(a)
    [] a.type = "debugging" -> GradeDebugging(a)
    [] a.type = "subjective" -> GradeSubjective(a)

\* A plausible bug: a wrong answer costs the mark, however much of it was right.
Earned_Replaced(a, negative) ==
  LET graded == GradeAnswer(a)
      earned == a.points * graded.score
  IN IF ~ graded.correct /\ a.type \in Objective
     THEN Greatest(- 100 * negative * (1 + graded.score \div 5000), - 10000 * a.points) ELSE earned

\* What an answer earns: a wrong objective one costs the mark, down to its points.
Earned(a, negative) ==
  LET graded == GradeAnswer(a)
      earned == a.points * graded.score
  IN IF ~ graded.correct /\ a.type \in Objective
     THEN Greatest(earned - 100 * negative, - 10000 * a.points) ELSE earned

\* The score of the answers given, in hundredths of a percent; questions without an answer
\* do not count.
Overall(answers, negative) ==
  LET possible == SumOver(answers, LAMBDA a : a.points)
      earned == SumOver(answers, LAMBDA a :
                  IF negative = 0 THEN Greatest(Earned(a, negative), 0) ELSE Earned(a, negative))
  IN IF possible = 0 THEN 0 ELSE Greatest(Round(earned, possible), 0)

\* The percentage of a section is not cut off at zero.
SectionPercentage(answers, negative, section) ==
  LET possible == SumOver(answers, LAMBDA a : IF a.type = section THEN a.points ELSE 0)
      earned == SumOver(answers, LAMBDA a : IF a.type = section THEN Earned(a, negative) ELSE 0)
  IN IF possible = 0 THEN 0 ELSE Round(earned, possible)

\* The mean of the answers on a skill, marks not counted.
SkillPercentage(answers, skill) ==
  LET count == CountIn(answers, LAMBDA a : a.skill = skill)
      total == SumOver(answers, LAMBDA a : IF a.skill = skill THEN GradeAnswer(a).score ELSE 0)
  IN IF count = 0 THEN 0 ELSE Round(total, count)

Accuracy(answers) ==
  IF answers = <<>> THEN 0
  ELSE Round(10000 * CountIn(answers, LAMBDA a : GradeAnswer(a).correct), Len(answers))

\* The recommendation, as its place from "reject" to "strong_hire".
Recommendation(overall, passing) ==
  IF overall >= 8500 THEN 3 ELSE IF overall >= 7000 THEN 2
  ELSE IF overall >= 100 * passing THEN 1 ELSE 0

----------------------------------------------------------------------------
\* Answers that are better in one respect.
Improved(a) ==
  CASE a.type = "choice" -> {[a EXCEPT !.given = "right"]}
    [] a.type = "code_output" ->
         {[a EXCEPT !.given = g] : g \in IF a.given = "wrong" THEN {"half", "right"} ELSE {"right"}}
    [] a.type = "coding" -> {[a EXCEPT !.passed = Least(@ + 1, a.tests)]}
    [] a.type \in {"debugging", "subjective"} ->
         {[a EXCEPT !.hits = Least(@ + 1, a.keywords), !.words = @ + 1],
          [a EXCEPT !.words = @ + 40], [a EXCEPT !.structured = a.words > 0]}

\* Whatever the marks for wrong answers and the score to pass, a better answer, or one more
\* right one, never lowers the score, a section, a skill, the accuracy or the recommendation;
\* the score is a percentage even where sections are negative.
BetterAnswersHelp ==
  Is("attempt") =>
    LET answers == subject.answers
        Better(after) ==
          /\ Overall(after, subject.negative) >= Overall(answers, subject.negative)
          /\ Overall(after, subject.negative) <= 10000
          /\ Recommendation(Overall(after, subject.negative), subject.passing)
               >= Recommendation(Overall(answers, subject.negative), subject.passing)
          /\ Accuracy(after) >= Accuracy(answers)
          /\ \A i \in DOMAIN answers :
               /\ SectionPercentage(after, subject.negative, answers[i].type)
                    >= SectionPercentage(answers, subject.negative, answers[i].type)
               /\ SkillPercentage(after, answers[i].skill) >= SkillPercentage(answers, answers[i].skill)
    IN /\ \A i \in DOMAIN answers : \A a \in Improved(answers[i]) :
            Better([answers EXCEPT ![i] = a])
       /\ Better(Append(answers, [type |-> "choice", points |-> 1, skill |-> "sql", given |-> "right"]))
=============================================================================
