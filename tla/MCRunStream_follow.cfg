SPECIFICATION FairSpec
CONSTANTS
  a = a
  b = b
  Clients = {a}
  Sender = a
  Span = 16
  MaxChunks = 2
  MaxFaults = 1
INVARIANTS
  TypeOK
  FollowersShowTheReply
  CutoverIsClean
PROPERTIES
  EveryClientIsTold
CHECK_DEADLOCK FALSE
