------------------------------ MODULE FitEngine ------------------------------
(***************************************************************************)
(* The evidence-grounded fit of a resume to a job:                         *)
(*   services/screening/fit_engine.py                                      *)
(*                                                                         *)
(* Of the texts only this is kept: in which places of the resume each      *)
(* required skill is found, which share of a responsibility's terms some   *)
(* sentence repeats, the months of each employment, and whether it is      *)
(* relevant to the job. Credits and weights are integers: credits in       *)
(* tenths, weights in hundredths.                                          *)
(***************************************************************************)
EXTENDS Arithmetic, Subject

Missing == -1

\* Where CandidateEvidenceIndex looks for a skill.
Place == {"experience", "project", "certification", "education", "skills",
          "text",      \* a literal mention in the raw text
          "related",   \* not found, but a similar skill is known
          "passage"}   \* only a passage ranked by the embeddings has it

Weight(component) ==
  CASE component = "required" -> 45 [] component = "experience" -> 25
    [] component = "responsibilities" -> 15 [] component = "preferred" -> 15

StatusCredit(status) ==
  CASE status = "match" -> 10 [] status \in {"partial", "unknown"} -> 5 [] status = "gap" -> 0

ResponsibilityCredit(alignment) ==
  CASE alignment = "strong" -> 10 [] alignment = "moderate" -> 7
    [] alignment = "weak" -> 4 [] alignment = "none" -> 1

\* A plausible bug: the skills section is looked at first.
MapSingleSkill_SectionFirst(found, anyData) ==
  IF "skills" \in found THEN "partial"
  ELSE IF found \cap {"experience", "project", "certification"} # {} THEN "match"
  ELSE IF found # {} THEN "partial"
  ELSE IF anyData THEN "gap" ELSE "unknown"

\* _map_single_skill: its status. No mention anywhere is a gap if there is a resume at all.
MapSingleSkill(found, anyData) ==
  IF found \cap {"experience", "project", "certification"} # {} THEN "match"
  ELSE IF found # {} THEN "partial"
  ELSE IF anyData THEN "gap" ELSE "unknown"

\* _align_experience, over sequences of [months, relevant]; years are tenths, as rounded.
AlignExperience(jobs, minYears) ==
  LET dated == \E i \in DOMAIN jobs : jobs[i].months # Missing
      months == SumOver(jobs, LAMBDA j : IF j.relevant /\ j.months # Missing THEN j.months ELSE 0)
      years == Round(10 * months, 12)
  IN IF minYears = Missing \/ ~ dated THEN "unknown"
     ELSE IF years > 0 /\ years >= 10 * minYears THEN "match"
     ELSE "partial"   \* too little, or only the total is enough

\* _align_responsibilities: the best overlap with a structured sentence, or with a sentence
\* of the raw text; both in percent.
AlignResponsibility(best, raw) ==
  IF best < 25
  THEN IF raw >= 25 THEN "weak" ELSE "none"
  ELSE IF best >= 45 THEN "strong" ELSE IF best >= 35 THEN "moderate" ELSE "weak"

\* _analyze_education_requirement: by the score of the degrees, or a degree in the raw text.
EducationStatus(degrees, score, inText, anyData) ==
  IF ~ degrees
  THEN IF inText THEN "partial" ELSE IF anyData THEN "gap" ELSE "unknown"
  ELSE IF score >= 100 THEN "match" ELSE IF score >= 65 THEN "partial" ELSE "gap"

\* What is asked, and what the resume says of it.
Statuses(skills, anyData) ==
  [i \in DOMAIN skills |-> MapSingleSkill(skills[i], anyData)]

\* _compute_overall: how much a component asks for, and the credits for that together.
Components == <<"required", "experience", "responsibilities", "preferred">>

Items(doc, component) ==
  CASE component = "required" -> Len(doc.required)
    [] component = "experience" -> IF doc.minYears = Missing THEN 0 ELSE 1
    [] component = "responsibilities" -> Len(doc.responsibilities)
    [] component = "preferred" -> Len(doc.preferred)

Credit(doc, component) ==
  CASE component = "required" -> SumOver(Statuses(doc.required, doc.anyData), StatusCredit)
    [] component = "experience" -> StatusCredit(AlignExperience(doc.jobs, doc.minYears))
    [] component = "responsibilities" ->
         SumOver(doc.responsibilities, LAMBDA r : ResponsibilityCredit(AlignResponsibility(r.best, r.raw)))
    [] component = "preferred" -> SumOver(Statuses(doc.preferred, doc.anyData), StatusCredit)

\* A component without items has no weight.
ActiveWeight(doc, component) == IF Items(doc, component) = 0 THEN 0 ELSE Weight(component)

\* The weighted mean of the credits per item, in percent, over a common denominator.
Divisor(doc, component) == Greatest(Items(doc, component), 1)
Common(doc) == Divisor(doc, "required") * Divisor(doc, "responsibilities") * Divisor(doc, "preferred")

Score(doc) ==
  LET total == SumOver(Components, LAMBDA c : ActiveWeight(doc, c))
      credits == SumOver(Components, LAMBDA c :
                   ActiveWeight(doc, c) * (Common(doc) \div Divisor(doc, c)) * Credit(doc, c))
  IN IF total = 0 THEN 0 ELSE Round(10 * credits, total * Common(doc))

Classification(doc) ==
  LET statuses == Statuses(doc.required \o doc.preferred, doc.anyData)
      evaluable == CountIn(statuses, LAMBDA s : s # "unknown")
      score == Score(doc)
  IN IF ~ doc.anyData \/ 2 * evaluable < Len(statuses) THEN "insufficient_evidence"
     ELSE IF score >= 80 THEN "strong_match"
     ELSE IF score >= 65 THEN "good_match"
     ELSE IF score >= 45 THEN "partial_match"
     ELSE "low_match"

----------------------------------------------------------------------------
\* The same resume with one more piece of evidence.
Enriched(doc) ==
  (UNION {{[doc EXCEPT ![level][i] = @ \cup {p}] : p \in Place, i \in DOMAIN doc[level]} :
            level \in {"required", "preferred"}})
  \cup {[doc EXCEPT !.jobs = Append(@, [months |-> m, relevant |-> b])] :
          m \in {Missing, 1, 12, 60}, b \in BOOLEAN}
  \cup (UNION {{[doc EXCEPT !.responsibilities[i].best = Greatest(@, 45)],
                [doc EXCEPT !.responsibilities[i].raw = Greatest(@, 25)]} :
                  i \in DOMAIN doc.responsibilities})

\* More evidence in a resume never lowers its score, although a find in a better place hides
\* those in others, relevant employments replace the total, and raw text is read only where
\* the sections say nothing; and the score stays between 0 and 100.
EvidenceHelps ==
  Is("fit") =>
    LET score == Score(subject.doc)
    IN /\ score \in 0..100
       /\ subject.doc.anyData => \A better \in Enriched(subject.doc) : Score(better) >= score
=============================================================================
