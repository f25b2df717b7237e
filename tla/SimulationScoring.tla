--------------------------- MODULE SimulationScoring ---------------------------
(***************************************************************************)
(* The scores and ranks of a simulation: simulation/evaluation.py, the     *)
(* parts of screening/matching_engine.py it calls, and the result rows of  *)
(* simulation/execution_service.py.                                        *)
(*                                                                         *)
(* A configuration has weights in thousandths, a threshold, a shortlist    *)
(* size and requirements; a candidate is numbered in the order of ids.     *)
(* Years are tenths. Which of the names of skills in configurations, as    *)
(* they are spelt, a candidate's skills match, or a technology of a        *)
(* project does, and the similarity of the texts, are data of the          *)
(* candidate: skill_matches knows parts of names, synonyms and relations.  *)
(***************************************************************************)
EXTENDS Arithmetic, FiniteSets, Subject

Unset == -1

Dimensions == {"skill", "experience", "education", "project", "certification",
               "location", "employment_type", "semantic"}

\* calculate_skill_match: the score; the matches of both lists are counted in one list, of
\* which the first ones pass for the mandatory ones.
SkillScore(has, mandatory, preferred) ==
  LET matched == CountIn(mandatory \o preferred, LAMBDA s : s \in has)
      first == Least(matched, Len(mandatory))
      m == Greatest(Len(mandatory), 1)
      p == Greatest(Len(preferred), 1)
  IN IF mandatory \o preferred = <<>> THEN 100
     ELSE Least((80 * first * p + 20 * (matched - first) * m) \div (m * p), 100)

\* The scale of both kinds of requirement.
YearsScore(years, minimum) ==
  IF years >= 10 * minimum THEN 100
  ELSE IF 10 * years >= 80 * minimum THEN 85
  ELSE IF 10 * years >= 50 * minimum THEN 60
  ELSE IF 10 * years >= 30 * minimum THEN 40 ELSE 20

\* evaluate_experience: the structured range, or the number in the job's text.
ExperienceScore(years, want) ==
  LET range == IF want.min = Unset THEN 100 ELSE YearsScore(years, want.min)
  IN IF want.min # Unset \/ want.max # Unset
     THEN IF want.max # Unset /\ years > 10 * want.max THEN Least(range, 50) ELSE range
     ELSE IF want.text <= 0 THEN 80 ELSE YearsScore(years, want.text)

\* evaluate_education, over ranks of degrees; 0 is no level.
EducationScore(degrees, want) ==
  LET best == IF degrees = {} THEN 0 ELSE CHOOSE d \in degrees : \A e \in degrees : e <= d
      Below(level) == IF level - best = 1 THEN 65 ELSE 30
  IN IF want.level # 0
     THEN IF want.requirement = "optional" THEN 80
          ELSE IF best >= want.level THEN 100
          ELSE IF want.requirement = "preferred" THEN 65 ELSE Below(want.level)
     ELSE IF want.text = 0 THEN 80
          ELSE IF degrees = {} THEN 20
          ELSE IF best >= want.text THEN 100 ELSE Below(want.text)

\* A plausible bug: the share of the technologies that are asked for.
ProjectScore_PerTechnology(projects, technologies, mandatory) ==
  LET asked == CountIn(technologies, LAMBDA t : \E i \in DOMAIN mandatory : mandatory[i] \in t)
  IN IF projects = 0 THEN 10
     ELSE Least(15 * projects, 60)
            + (IF technologies = <<>> \/ mandatory = <<>> THEN 0
               ELSE Least((40 * asked) \div Len(technologies), 40))

\* calculate_project_match, of the names that every technology matches
ProjectScore(projects, technologies, mandatory) ==
  LET asked == CountIn(technologies, LAMBDA t : \E i \in DOMAIN mandatory : mandatory[i] \in t)
  IN IF projects = 0 THEN 10
     ELSE Least(15 * projects, 60)
            + (IF technologies = <<>> \/ mandatory = <<>> THEN 0
               ELSE Least((40 * asked) \div Len(mandatory), 40))

LocationScore(place) ==
  CASE place = "unknown" -> 60 [] place \in {"remote", "city"} -> 100
    [] place = "country" -> 70 [] place = "elsewhere" -> 30

EmploymentScore(preference) ==
  CASE preference = "none" -> 70 [] preference = "same" -> 100 [] preference = "other" -> 40

\* calculate_overall_score: truncated, not rounded.
OverallScore(dimensions, weights) ==
  LET weighted == SumOver(<<"skill", "experience", "education", "project", "certification",
                            "location", "employment_type", "semantic">>,
                          LAMBDA d : weights[d] * dimensions[d])
  IN Clamp(weighted \div 1000, 0, 100)

\* evaluate_configuration. With nothing asked for, the matched skills are the candidate's own.
Evaluate(candidate, config) ==
  LET want == config.requirements
      dimensions ==
        [skill |-> SkillScore(candidate.has, want.mandatory, want.preferred),
         experience |-> ExperienceScore(candidate.years, want.experience),
         education |-> EducationScore(candidate.degrees, want.education),
         project |-> ProjectScore(candidate.projects, candidate.technologies, want.mandatory),
         certification |-> 70,   \* no certifications are asked for
         location |-> LocationScore(candidate.place),
         employment_type |-> EmploymentScore(candidate.preference),
         semantic |-> candidate.semantic[config.name]]
      overall == OverallScore(dimensions, config.weights)
      mandatory == {want.mandatory[i] : i \in DOMAIN want.mandatory}
      preferred == {want.preferred[i] : i \in DOMAIN want.preferred}
      asked == mandatory \cup preferred
  IN [overall |-> overall, dimensions |-> dimensions,
      matched |-> IF asked = {} THEN candidate.has ELSE candidate.has \cap asked,
      missingRequired |-> mandatory \ candidate.has,
      missingPreferred |-> preferred \ candidate.has,
      qualified |-> overall >= config.threshold]

\* A plausible bug: equal scores share a rank.
Rank_Shared(scores, c) ==
  1 + Cardinality({d \in DOMAIN scores : scores[d] > scores[c]})

\* build_rankings: by score, then by id.
Rank(scores, c) ==
  1 + Cardinality({d \in DOMAIN scores : scores[d] > scores[c] \/ (scores[d] = scores[c] /\ d < c)})

\* _build_result_rows, for candidates in the order of their ids.
ResultRows(candidates, baseline, simulation) ==
  LET base == [c \in DOMAIN candidates |-> Evaluate(candidates[c], baseline)]
      sim == [c \in DOMAIN candidates |-> Evaluate(candidates[c], simulation)]
      Half(evaluations, config, c) ==
        LET rank == Rank([d \in DOMAIN candidates |-> evaluations[d].overall], c)
        IN [score |-> evaluations[c].overall, rank |-> rank,
            qualified |-> evaluations[c].qualified, listed |-> rank <= config.shortlist,
            matched |-> evaluations[c].matched,
            missingRequired |-> evaluations[c].missingRequired,
            missingPreferred |-> evaluations[c].missingPreferred]
  IN [c \in DOMAIN candidates |->
        [baseline |-> Half(base, baseline, c), simulation |-> Half(sim, simulation, c)]]

ScoreChange(row) == row.simulation.score - row.baseline.score
RankChange(row) == row.baseline.rank - row.simulation.rank

----------------------------------------------------------------------------
\* A candidate with one more skill, degree, or project.
Grown(candidate, skills) ==
  {[candidate EXCEPT !.has = @ \cup {s}] : s \in skills}
  \cup {[candidate EXCEPT !.degrees = @ \cup {d}] : d \in {4, 6}}
  \cup {[candidate EXCEPT !.projects = @ + 1, !.technologies = @ \o t] :
          t \in {<<>>, <<{}>>} \cup {<<{s}>> : s \in skills}}

\* What candidates learn is never held against them: with one more skill, degree or project,
\* asked for or not, no score falls and no rank is lost.
LearningHelps ==
  Is("simulation") =>
    LET Overall(candidate) == Evaluate(candidate, subject.simulation).overall
        before == [c \in DOMAIN subject.candidates |-> Overall(subject.candidates[c])]
    IN \A c \in DOMAIN subject.candidates :
         \A better \in Grown(subject.candidates[c], subject.skills) :
           LET after == [before EXCEPT ![c] = Overall(better)]
           IN after[c] >= before[c] /\ Rank(after, c) <= Rank(before, c)
=============================================================================
