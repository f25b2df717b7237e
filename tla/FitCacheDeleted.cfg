SPECIFICATION FitSpec
CONSTANTS
  Contents = {x, y}
  MaxResumeRequests = 2
  MaxFitRequests = 1
INVARIANT
  NothingFromDeletedResumes
CHECK_DEADLOCK FALSE
