SPECIFICATION FairSpec
CONSTANTS
  LastMessage = 2
  MaxReplays = 1
  Slots = 1
  LastRequest = 4
  MaxRestarts = 1
  MaxResets = 1
INVARIANTS
  TypeOK
  TurnRunsOnce
PROPERTIES
  RowLeavesAnswered
  EveryMessageSettles
CHECK_DEADLOCK FALSE
