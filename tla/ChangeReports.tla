----------------------------- MODULE ChangeReports -----------------------------
(***************************************************************************)
(* The two reports of what a scenario changes: the builder's               *)
(*   simulation/change_detection.py                                        *)
(* and the analysis of its requirements                                    *)
(*   simulation/requirement_impact_analyzer.py                             *)
(* with the validator between them, configuration_validator.py. A name of  *)
(* a skill has a skill that it stands for, a spelling, and capitals or     *)
(* not: these modules compare skills by their canonical names, while the   *)
(* scores match names as they are spelt. Labels are compared by what they  *)
(* are made of.                                                            *)
(***************************************************************************)
EXTENDS SimulationScoring

Elements(list) == {list[i] : i \in DOMAIN list}

\* normalize_skill, and lower()
Canonical(name) == name.skill
Lowered(name) == <<name.skill, name.spelling>>

\* The skills of a list of names, and the last of its names of a skill.
SkillsIn(list) == {Canonical(list[i]) : i \in DOMAIN list}
Named(list, skill) ==
  list[CHOOSE i \in DOMAIN list :
         /\ Canonical(list[i]) = skill
         /\ \A j \in DOMAIN list : Canonical(list[j]) = skill => j <= i]

----------------------------------------------------------------------------
TotalWeight(config) ==
  SumOver(<<"skill", "experience", "education", "project", "certification", "location",
            "employment_type", "semantic">>, LAMBDA d : config.weights[d])

\* Why SimulationConfigurationValidator files an issue of a field, and the fields with one.
Flawed(config, f) ==
  LET want == config.requirements
      years == want.experience
      Repeats(list) == Cardinality(SkillsIn(list)) # Len(list)
  IN \/ /\ f = "weights"
        /\ TotalWeight(config) \notin 999..1001 \/ \E d \in Dimensions : config.weights[d] \notin 0..1000
     \/ f = "threshold" /\ config.threshold \notin 0..100
     \/ f = "shortlist" /\ config.shortlist \notin 1..500
     \/ f = "mandatory" /\ Repeats(want.mandatory)
     \/ f = "preferred" /\ Repeats(want.preferred)
     \/ f = "overlap" /\ SkillsIn(want.mandatory) \cap SkillsIn(want.preferred) # {}
     \/ f = "experience" /\ years.min # Unset /\ years.max # Unset /\ years.max < years.min

Issues(config) ==
  {f \in {"weights", "threshold", "shortlist", "mandatory", "preferred", "overlap", "experience"} :
     Flawed(config, f)}

----------------------------------------------------------------------------
\* experience_label and education_label: the structured requirement, or else the text.
ExperienceLabel(want) ==
  IF want.min # Unset \/ want.max # Unset THEN <<want.min, want.max>> ELSE <<want.text, Unset>>

EducationLabel(want) ==
  IF want.level # 0 THEN <<want.level, want.requirement>> ELSE <<want.text, "required">>

\* Skills that moved, as a list names them.
Move(list, skills, from, to) ==
  {[name |-> Named(list, s), from |-> from, to |-> to] : s \in skills}

\* _diff_skills
DiffSkills(baseline, scenario) ==
  LET before == baseline.requirements
      after == scenario.requirements
      bm == SkillsIn(before.mandatory)
      bp == SkillsIn(before.preferred)
      sm == SkillsIn(after.mandatory)
      sp == SkillsIn(after.preferred)
  IN Move(after.mandatory, sm \ (bm \cup bp), "none", "mandatory")
     \cup Move(before.mandatory, bm \ (sm \cup sp), "mandatory", "none")
     \cup Move(after.preferred, sp \ (bp \cup bm), "none", "preferred")
     \cup Move(before.preferred, bp \ (sp \cup sm), "preferred", "none")
     \cup Move(after.preferred, (sp \cap bm) \ sm, "mandatory", "preferred")
     \cup Move(after.mandatory, (sm \cap bp) \ sp, "preferred", "mandatory")

\* A plausible bug: the row of the education is left out.
Changes_NoEducation(baseline, scenario) ==
  LET before == baseline.requirements
      after == scenario.requirements
  IN [weights |-> {d \in Dimensions : baseline.weights[d] # scenario.weights[d]},
      fields |-> {f \in {"threshold", "shortlist", "experience"} :
                    \/ f = "threshold" /\ baseline.threshold # scenario.threshold
                    \/ f = "shortlist" /\ baseline.shortlist # scenario.shortlist
                    \/ /\ f = "experience"
                       /\ ExperienceLabel(before.experience) # ExperienceLabel(after.experience)},
      skills |-> DiffSkills(baseline, scenario)]

\* compute_changes: the fields and skills that changed.
Changes(baseline, scenario) ==
  LET before == baseline.requirements
      after == scenario.requirements
  IN [weights |-> {d \in Dimensions : baseline.weights[d] # scenario.weights[d]},
      fields |-> {f \in {"threshold", "shortlist", "experience", "education"} :
                    \/ f = "threshold" /\ baseline.threshold # scenario.threshold
                    \/ f = "shortlist" /\ baseline.shortlist # scenario.shortlist
                    \/ /\ f = "experience"
                       /\ ExperienceLabel(before.experience) # ExperienceLabel(after.experience)
                    \/ /\ f = "education"
                       /\ EducationLabel(before.education) # EducationLabel(after.education)},
      skills |-> DiffSkills(baseline, scenario)]

NoChanges == [weights |-> {}, fields |-> {}, skills |-> {}]

----------------------------------------------------------------------------
\* A plausible bug: only what was never asked for can have been added.
IdentifySkillChanges_NoPromotion(baseline, simulation) ==
  LET before == baseline.requirements
      after == simulation.requirements
      bm == SkillsIn(before.mandatory)
      bp == SkillsIn(before.preferred)
      sm == SkillsIn(after.mandatory)
      sp == SkillsIn(after.preferred)
      Anew(m, p, skills) ==
        {s \in skills : s \in SkillsIn(m) => Lowered(Named(m, s)) # Lowered(Named(p, s))}
  IN Move(after.mandatory, sm \ (bm \cup bp), "none", "mandatory")
     \cup Move(before.mandatory, bm \ (sm \cup sp), "mandatory", "none")
     \cup Move(after.preferred, (sp \cap bm) \ bp, "mandatory", "preferred")
     \cup Move(after.preferred, Anew(after.mandatory, after.preferred, sp \ (bm \cup bp)),
               "none", "preferred")
     \cup Move(before.preferred, Anew(before.mandatory, before.preferred, bp \ (sm \cup sp)),
               "preferred", "none")

\* _identify_skill_changes: added, removed, promoted and demoted skills; of a skill in both
\* lists under one name the mandatory entry is reported.
IdentifySkillChanges(baseline, simulation) ==
  LET before == baseline.requirements
      after == simulation.requirements
      bm == SkillsIn(before.mandatory)
      bp == SkillsIn(before.preferred)
      sm == SkillsIn(after.mandatory)
      sp == SkillsIn(after.preferred)
      Anew(m, p, skills) ==
        {s \in skills : s \in SkillsIn(m) => Lowered(Named(m, s)) # Lowered(Named(p, s))}
  IN Move(after.mandatory, sm \ (bm \cup bp), "none", "mandatory")
     \cup Move(before.mandatory, bm \ (sm \cup sp), "mandatory", "none")
     \cup Move(after.mandatory, (sm \cap bp) \ bm, "preferred", "mandatory")
     \cup Move(after.preferred, (sp \cap bm) \ bp, "mandatory", "preferred")
     \cup Move(after.preferred, Anew(after.mandatory, after.preferred, sp \ (bm \cup bp)),
               "none", "preferred")
     \cup Move(before.preferred, Anew(before.mandatory, before.preferred, bp \ (sm \cup sp)),
               "preferred", "none")

\* _check_skill_satisfied: a skill the configuration does not name counts as satisfied.
SkillSatisfied(half, name, mandatory) ==
  LET missing == IF mandatory THEN half.missingRequired ELSE half.missingPreferred
  IN \/ \E s \in half.matched : Canonical(s) = Canonical(name)
     \/ \A s \in missing : Canonical(s) # Canonical(name)

\* _check_experience_satisfied and _check_education_satisfied: structured requirements only.
ExperienceSatisfied(years, want) ==
  /\ want.min # Unset => years >= 10 * want.min
  /\ want.max # Unset => years <= 10 * want.max

EducationSatisfied(degrees, want) ==
  want.level = 0 \/ want.requirement = "optional" \/ \E d \in degrees : d >= want.level

\* _compute_candidate_impacts: the changes that turn a row's satisfaction; a removed skill
\* counts as satisfied on both sides. Whether a skill is mandatory is asked by its name as
\* the change has it, so a side that spells it otherwise is taken not to have it there.
Affecting(row, candidate, baseline, simulation) ==
  LET before == baseline.requirements
      after == simulation.requirements
      years == candidate.years
  IN [skills |->
        {c \in IdentifySkillChanges(baseline, simulation) :
           /\ c.to # "none"
           /\ SkillSatisfied(row.baseline, c.name, c.name \in Elements(before.mandatory))
                # SkillSatisfied(row.simulation, c.name, c.name \in Elements(after.mandatory))},
      fields |->
        {f \in {"experience", "education"} :
           \/ /\ f = "experience"
              /\ ExperienceSatisfied(years, before.experience)
                   # ExperienceSatisfied(years, after.experience)
           \/ /\ f = "education"
              /\ EducationSatisfied(candidate.degrees, before.education)
                   # EducationSatisfied(candidate.degrees, after.education)}]

----------------------------------------------------------------------------
Structured(config) ==
  [experience |-> config.requirements.experience.min # Unset
                    \/ config.requirements.experience.max # Unset,
   education |-> config.requirements.education.level # 0]

SameTexts == \A c \in DOMAIN subject.candidates :
  subject.candidates[c].semantic.baseline = subject.candidates[c].semantic.simulation

NamesAskedFor(config) == Elements(config.requirements.mandatory) \cup Elements(config.requirements.preferred)

\* Of the names of one skill that either side asks for, a candidate matches all or none, and
\* so does every technology.
Alike(matching, names) ==
  \A x, y \in names : Canonical(x) = Canonical(y) => (x \in matching <=> y \in matching)
Indifferent(candidate) ==
  LET names == NamesAskedFor(subject.baseline) \cup NamesAskedFor(subject.simulation)
  IN /\ Alike(candidate.has, names)
     /\ \A i \in DOMAIN candidate.technologies : Alike(candidate.technologies[i], names)

\* A scenario that the builder reports as unchanged changes nothing for a candidate who
\* matches all spellings of a skill or none: score and qualification stay, and if all are
\* like that, ranks and shortlist. A skill that is only respelt is not reported, and moves
\* those who match one spelling and not the other. The job of the baseline has no skill
\* twice, and both sides state experience and education in the same form: a text and a
\* structured requirement with one label are reported as equal, and are not scored alike.
UnreportedIsHarmless ==
  Is("simulation") =>
    ( /\ Issues(subject.simulation) = {}
      /\ Issues(subject.baseline) = {}
      /\ Structured(subject.baseline) = Structured(subject.simulation)
      /\ SameTexts
      /\ Changes(subject.baseline, subject.simulation) = NoChanges
      => \A c \in DOMAIN subject.candidates :
           LET row == ResultRows(subject.candidates, subject.baseline, subject.simulation)[c]
           IN /\ Indifferent(subject.candidates[c]) =>
                   /\ row.baseline.score = row.simulation.score
                   /\ row.baseline.qualified = row.simulation.qualified
              /\ (\A d \in DOMAIN subject.candidates : Indifferent(subject.candidates[d])) =>
                   /\ row.baseline.rank = row.simulation.rank
                   /\ row.baseline.listed = row.simulation.listed )

\* Both reports tell of the same skills, by the same names. Whom the second counts as affected
\* by a skill, the baseline did not ask for it by that name; and the candidate does not match
\* that name, or else another name of the skill that the baseline preferred. (A demotion under
\* another name counts also those who lacked the skill before.)
ReportsAgree ==
  Is("simulation") /\ Issues(subject.simulation) = {} /\ Issues(subject.baseline) = {} =>
    /\ DiffSkills(subject.baseline, subject.simulation)
         = IdentifySkillChanges(subject.baseline, subject.simulation)
    /\ \A c \in DOMAIN subject.candidates :
         LET has == subject.candidates[c].has
             row == ResultRows(subject.candidates, subject.baseline, subject.simulation)[c]
             turned == Affecting(row, subject.candidates[c], subject.baseline, subject.simulation)
         IN \A change \in turned.skills :
              /\ change.name \notin NamesAskedFor(subject.baseline)
              /\ change.name \in has =>
                   \E name \in Elements(subject.baseline.requirements.preferred) \ has :
                     Canonical(name) = Canonical(change.name)
=============================================================================
