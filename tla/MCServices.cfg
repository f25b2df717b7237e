SPECIFICATION ServicesSpec
CONSTANTS
  MaxAttempts = 3
  MaxRequests = 4
  Questions = {q1, q2}
  AllowedAttempts = 2
  Contents = {x, y}
  MaxResumeRequests = 3
  MaxFitRequests = 3
  Length = 4
  Gated = {2, 4}
  Simulated = {3}
  Executors = {e1, e2}
  Size = 5
  Level <- MCLevel
  MaxRuns = 2
  Scenarios = {s1, s2}
  Topics = {a1, a2}
  MaxTalks = 4
  MaxActs = 6
  Applicants <- MCApplicants
  MaxScreenings = 3
  MatchScores = {0, 1}
  MaxRecognisers = 2
  MaxCalls = 2
  MaxCareerRequests = 3
  Skills = {k1}
SYMMETRY Symmetry
INVARIANTS
  TypeOK
  AttemptsAreLimited
  OnlyRacingAnswersAreLost
  NeverStalls
  GatesHold
  SequentialUnlessOverlapped
  ResumesInOrder
  ServedIsCurrent
  EvidenceHelps
  LearningHelps
  ImpactAddsUp
  
  ReportsAgree
  BetterAnswersHelp
  NothingIsStranded
  CountedOnce
  CardKeepsNotes
  NewestNoticeIsTrue
  RankingsInOrder
  NoDeadEnd
  
  PlanIsFeasible
PROPERTIES
  VerdictIsFinal
  DecisionsStand
CHECK_DEADLOCK FALSE
