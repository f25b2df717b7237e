----------------------------- MODULE LearningPlan -----------------------------
(***************************************************************************)
(* The plan that makes a candidate ready for a job, and how long it takes: *)
(*   skill2job/training/time_to_ready.py, TimeToReadyEngine                *)
(*                                                                         *)
(* A subject of this service has the skills that the job requires, in      *)
(* order and without repetitions; the set of those that the candidate has; *)
(* the catalogue of resources; the hours of a week; and freeOnly. Weeks    *)
(* are in tenths. A resource has skills, free, coverage (in tenths) and    *)
(* hours, zero for unstated.                                               *)
(***************************************************************************)
EXTENDS Arithmetic, SequencesExt, Subject

\* _SKILL_DEPENDENCIES
Dependencies(skill) ==
  CASE skill = "machine learning" -> {"python", "statistics", "linear algebra"}
    [] skill = "deep learning" -> {"python", "machine learning", "linear algebra"}
    [] skill = "scikit-learn" -> {"python", "machine learning", "statistics"}
    [] skill \in {"tensorflow", "pytorch", "model evaluation"} -> {"python", "machine learning"}
    [] skill \in {"statistics", "numpy", "fastapi"} -> {"python"}
    [] skill = "probability" -> {"statistics"}
    [] skill = "pandas" -> {"python", "numpy"}
    [] skill \in {"apache spark", "apache airflow"} -> {"python", "sql"}
    [] skill = "apache kafka" -> {"java"}
    [] skill = "kubernetes" -> {"docker", "linux"}
    [] skill = "docker" -> {"linux"}
    [] skill \in {"terraform", "aws"} -> {"cloud computing"}
    [] skill = "react" -> {"javascript", "html", "css"}
    [] skill = "django" -> {"python", "html"}
    [] skill = "node.js" -> {"javascript"}
    [] OTHER -> {}

\* missing_skills, in the order of s.required; _build_gaps gives all of them one importance,
\* as each counts one job, so that its sort leaves them in this order.
Gaps(s) == ToSet(s.required) \ s.known

----------------------------------------------------------------------------
\* _best_resource_for_skill: free ones first, then coverage, then the shorter one; the
\* first of the catalogue if they are equal.

CanTeach(resource, skill, freeOnly) == skill \in resource.skills /\ (freeOnly => resource.free)

Duration(resource) == IF resource.hours = 0 THEN 999 ELSE resource.hours

Better(a, b) ==
  \/ a.free /\ ~ b.free
  \/ /\ a.free = b.free
     /\ a.coverage > b.coverage \/ (a.coverage = b.coverage /\ Duration(a) < Duration(b))

\* The resource for a skill, if there is one, as a set of at most one place in the catalogue.
BestResource(s, skill) ==
  LET able == {i \in DOMAIN s.catalogue : CanTeach(s.catalogue[i], skill, s.freeOnly)}
  IN {i \in able : \A j \in able \ {i} :
        IF j < i THEN Better(s.catalogue[i], s.catalogue[j])
        ELSE ~ Better(s.catalogue[j], s.catalogue[i])}

\* The weeks of a step, from twenty hours if the resource states none.
StepWeeks(s, i) ==
  LET hours == IF s.catalogue[i].hours = 0 THEN 20 ELSE s.catalogue[i].hours
  IN Round(10 * hours, IF s.hoursPerWeek > 0 THEN s.hoursPerWeek ELSE 10)

----------------------------------------------------------------------------
\* _build_learning_plan, as the rounds of its while loop. A skill is ready when what it
\* depends on is scheduled or no gap; if none is ready the first of the remaining is taken.

\* A plausible bug: the dependencies are not looked at.
Ready_Unordered(s, scheduled) == Gaps(s) \ scheduled

Ready(s, scheduled) ==
  LET remaining == Gaps(s) \ scheduled
      ready == {skill \in remaining : Dependencies(skill) \cap Gaps(s) \subseteq scheduled}
      first == {i \in DOMAIN s.required : /\ s.required[i] \in remaining
                                          /\ \A j \in 1..(i - 1) : s.required[j] \notin remaining}
  IN IF ready # {} THEN ready ELSE {s.required[i] : i \in first}

\* scheduled, after each round of the loop. Once nothing remains it stays as it is.
Scheduled(s) ==
  LET scheduled[n \in 0..Len(s.required)] ==
        IF n = 0 THEN {}
        ELSE LET before == scheduled[n - 1] IN before \cup Ready(s, before)
  IN scheduled

\* The skills of each round.
Rounds(s) ==
  LET scheduled == Scheduled(s)
  IN [n \in 1..Len(s.required) |-> scheduled[n] \ scheduled[n - 1]]

\* The steps. A skill without a resource is scheduled and has no step; a round of one skill
\* has no parallel_group.
Plan(s) ==
  LET rounds == Rounds(s)
      step(skill, n) ==
        {[skill |-> skill, round |-> n, weeks |-> StepWeeks(s, i),
          parallel |-> Cardinality(rounds[n]) > 1] : i \in BestResource(s, skill)}
  IN UNION {UNION {step(skill, n) : skill \in rounds[n]} : n \in DOMAIN rounds}

\* _calculate_parallel_weeks: the longest step of each group, and every step in none.
SumOfWeeks(steps) == SumFunction([step \in steps |-> step.weeks])

ParallelWeeks(plan) ==
  LET group(n) == {step \in plan : step.parallel /\ step.round = n}
      groups == {step.round : step \in {x \in plan : x.parallel}}
  IN SumFunction([n \in groups |-> Max({step.weeks : step \in group(n)})])
       + SumOfWeeks({step \in plan : ~ step.parallel})

----------------------------------------------------------------------------
\* The weeks of the longest chain of gaps each of which needs the one before, from chains of
\* one gap to chains of them all.
Chains(s, plan) ==
  LET own == [skill \in Gaps(s) |-> SumOfWeeks({step \in plan : step.skill = skill})]
      chain[n \in 0..Len(s.required)] ==
        IF n = 0 THEN own
        ELSE LET before == chain[n - 1]
             IN [skill \in Gaps(s) |->
                   own[skill] + Max({0} \cup {before[d] : d \in Dependencies(skill) \cap Gaps(s)})]
  IN chain[Len(s.required)]

ChainWeeks(s, plan) == Max({0} \cup {Chains(s, plan)[skill] : skill \in Gaps(s)})

Teachable(s, skill) == \E i \in DOMAIN s.catalogue : CanTeach(s.catalogue[i], skill, s.freeOnly)

\* A plan teaches each missing skill that something teaches, once, after the skills that
\* it depends on and never beside one of them; and the weeks it is said to take allow for
\* the longest chain of dependencies and are no more than the steps take one by one.
PlanIsFeasible ==
  Is("plan") =>
    LET plan == Plan(subject)
        weeks == ParallelWeeks(plan)
    IN /\ \A skill \in Gaps(subject) :
            Cardinality({step \in plan : step.skill = skill}) = IF Teachable(subject, skill) THEN 1 ELSE 0
       /\ \A step, other \in plan :
            other.skill \in Dependencies(step.skill) => other.round < step.round
       /\ ChainWeeks(subject, plan) <= weeks
       /\ weeks <= SumOfWeeks(plan)
=============================================================================
