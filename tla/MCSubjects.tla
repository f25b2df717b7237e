------------------------------ MODULE MCSubjects ------------------------------
(***************************************************************************)
(* The values that the pure services are given.                            *)
(***************************************************************************)
EXTENDS FitEngine, RankingImpact, ChangeReports, AssessmentScoring, LearningPlan

UpTo(n, S) == UNION {[1..k -> S] : k \in 0..n}

FitDocs ==
  LET finds == {{}, {"skills"}, {"experience"}, {"related"}}
      jobs == {<<>>} \cup {<<[months |-> m, relevant |-> TRUE]>> : m \in {Missing, 30}}
                \cup {<<[months |-> 6, relevant |-> TRUE], [months |-> 30, relevant |-> FALSE]>>}
      duties == UpTo(1, {[best |-> 10, raw |-> 0], [best |-> 10, raw |-> 30],
                         [best |-> 30, raw |-> 0], [best |-> 40, raw |-> 30]})
  IN [required : UpTo(2, finds), preferred : UpTo(1, {{}, {"skills"}}), anyData : {TRUE},
      minYears : {Missing, 2}, jobs : jobs, responsibilities : duties]
     \cup [required : UpTo(1, {{}}), preferred : UpTo(1, {{}}), anyData : {FALSE},
           minYears : {Missing, 2}, jobs : {<<>>}, responsibilities : UpTo(1, {[best |-> 0, raw |-> 0]})]

----------------------------------------------------------------------------
\* Pools of candidates between them near the bounds of the scales; configurations of two
\* skills, with the defaults of the platform or a few others. A part of a name may match one
\* spelling of a skill and not the other, as SQL does PostgreSQL and not Postgres.
Name(skill, spelling, capital) == [skill |-> skill, spelling |-> spelling, capital |-> capital]
A == Name("a", 1, FALSE)
B == Name("b", 1, FALSE)
Spelt(name) == {name, [name EXCEPT !.capital = TRUE]}
OtherA == Name("a", 2, FALSE)
OtherB == Name("b", 2, FALSE)
AnyA == Spelt(A) \cup {OtherA}
AnyB == Spelt(B) \cup {OtherB}

Person(has, years, degrees, technologies, semantic) ==
  [has |-> has, years |-> years, degrees |-> degrees, projects |-> Len(technologies),
   technologies |-> technologies, place |-> "city", preference |-> "none",
   semantic |-> [baseline |-> semantic, simulation |-> semantic]]

Pools ==
  {<<Person({}, 0, {}, <<>>, 0), Person(AnyA, 25, {4}, <<AnyA, {}>>, 40),
     Person(AnyA \cup AnyB, 50, {5}, <<AnyB>>, 80), Person(AnyB, 20, {4}, <<AnyA>>, 40)>>,
   <<Person(AnyB, 25, {3}, <<AnyB>>, 40), Person(Spelt(A) \cup {OtherB}, 25, {3}, <<Spelt(A)>>, 40),
     Person(AnyA, 45, {3, 5}, <<AnyA, AnyB, AnyA>>, 70)>>}

DefaultWeights ==
  [skill |-> 300, experience |-> 200, education |-> 150, project |-> 100, certification |-> 100,
   location |-> 50, employment_type |-> 50, semantic |-> 50]
Settings ==   \* weights, threshold, and the shortlist, whose default of ten is two of four here
  {<<DefaultWeights, 70, 2>>, <<DefaultWeights, 60, 1>>,
   <<[DefaultWeights EXCEPT !.skill = 450, !.education = 0], 70, 2>>,
   <<[DefaultWeights EXCEPT !.skill = 0, !.experience = 500, !.semantic = 51], 60, 2>>,
   <<[DefaultWeights EXCEPT !.skill = 400], 70, 2>>}

Years(min, max, text) == [min |-> min, max |-> max, text |-> text]
Degree(level, requirement, text) == [level |-> level, requirement |-> requirement, text |-> text]
Snapshots ==   \* experience and education as a job states them
  {<<Years(Unset, Unset, 3), Degree(0, "required", 4)>>,
   <<Years(Unset, Unset, 0), Degree(0, "required", 4)>>}
Asked ==       \* and as a scenario does
  Snapshots \cup {<<Years(Unset, Unset, 3), Degree(0, "required", 0)>>,
                  <<Years(2, 4, 3), Degree(5, "required", 0)>>,
                  <<Years(2, Unset, 0), Degree(5, "preferred", 0)>>}
SkillLists ==  \* some with a skill by another name
  {<< <<>>, <<>> >>, << <<A>>, <<B>> >>, << <<B, A>>, <<>> >>, << <<B>>, <<A>> >>,
   << <<>>, <<A, B>> >>, << <<A>>, <<B, OtherA>> >>, << <<OtherA>>, <<B>> >>,
   << <<B>>, <<[A EXCEPT !.capital = TRUE]>> >>, << <<OtherB, A>>, <<>> >>}
Config(name, weights, threshold, shortlist, skills, asked) ==
  [name |-> name, weights |-> weights, threshold |-> threshold, shortlist |-> shortlist,
   requirements |-> [mandatory |-> skills[1], preferred |-> skills[2],
                     experience |-> asked[1], education |-> asked[2]]]

\* Either the settings change or the texts do; the skills may with both.
Simulations ==
  LET plain == <<DefaultWeights, 70, 2>>
  IN {[kind |-> "simulation", skills |-> {A, B}, candidates |-> pool,
       baseline |-> Config("baseline", DefaultWeights, 70, 2, base, snapshot),
       simulation |-> Config("simulation", scenario[1][1], scenario[1][2], scenario[1][3],
                             lists, scenario[2])] :
        pool \in Pools, base \in {<< <<A>>, <<B>> >>, << <<B, A>>, <<>> >>},
        snapshot \in Snapshots, lists \in SkillLists,
        scenario \in {<<set, text>> : set \in Settings, text \in Snapshots}
                       \cup {<<plain, asked>> : asked \in Asked}}

----------------------------------------------------------------------------
Answers ==
  [type : {"choice"}, points : {1, 3}, skill : {"sql"}, given : {"right", "wrong"}]
  \cup [type : {"code_output"}, points : {1}, skill : {"python"}, given : {"right", "half", "wrong"}]
  \cup [type : {"coding"}, points : {2}, skill : {"python"}, passed : {0, 2}, tests : {3}]
  \cup [type : {"coding"}, points : {0}, skill : {"python"}, passed : {0}, tests : {0}]
  \cup [type : {"subjective"}, points : {0}, skill : {"sql"}, hits : {0}, keywords : {0},
         words : {0, 100}, structured : {FALSE}]
  \cup [type : {"debugging", "subjective"}, points : {2}, skill : {"sql"}, hits : {0, 2},
         keywords : {3}, words : {0, 70}, structured : BOOLEAN]

Attempted == [kind : {"attempt"}, answers : UpTo(2, Answers), negative : {0, 50, 200}, passing : {60, 80}]

----------------------------------------------------------------------------
\* Jobs of a platform that ranks by learned models. A resource may cover two of the skills,
\* and of the two for machine learning the free one is the longer.
PlanSkills == {"python", "statistics", "machine learning", "linear algebra", "deep learning"}

Resource(skills, free, coverage, hours) ==
  [skills |-> skills, free |-> free, coverage |-> coverage, hours |-> hours]

Catalogues ==
  {<<Resource({"statistics", "probability"}, TRUE, 8, statistics),
     Resource({"machine learning"}, FALSE, 9, 30), Resource({"machine learning"}, TRUE, 8, learning),
     Resource({"deep learning", "machine learning"}, ~ free, 8, 50),
     Resource({"python"}, TRUE, 7, 15), Resource({"python"}, free, 8, python)>> :
      python \in {0, 40}, statistics \in {5, 40}, learning \in {0, 60}, free \in BOOLEAN}

Orders == {<<"deep learning", "machine learning", "statistics", "linear algebra", "python">>,
           <<"linear algebra", "python", "deep learning", "statistics", "machine learning">>,
           <<"python", "probability", "machine learning", "statistics">>}

Plans ==
  [kind : {"plan"}, required : Orders, known : SUBSET PlanSkills, catalogue : Catalogues,
   hoursPerWeek : {0, 10, 25}, freeOnly : BOOLEAN]

----------------------------------------------------------------------------
SubjectKinds == {"fit", "simulation", "attempt", "plan"}

SubjectsOf(kind) ==
  CASE kind = "fit" -> [kind : {"fit"}, doc : FitDocs]
    [] kind = "simulation" -> Simulations
    [] kind = "attempt" -> Attempted
    [] kind = "plan" -> Plans
=============================================================================
