SPECIFICATION FairSpec
CONSTANTS
  t1 = t1
  r1 = r1
  r2 = r2
  c1 = c1
  none = none
  Tasks = {t1}
  Runs = {r1, r2}
  Callers = {c1}
  NoTask = none
  Workers = 1
  MaxFailures = 2
  MaxRounds = 2
  MaxOccurrences = 1
  Kinds <- TwoKinds
  MaxCalls = 2
  MaxCrashes = 1
INVARIANTS
  TypeOK
  OccurrenceRunsOnce
  ApprovalRunsOnce
  ActiveTasksAreGoing
PROPERTIES
  StopStands
  EveryTaskSettles
CHECK_DEADLOCK FALSE
