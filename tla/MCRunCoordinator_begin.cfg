SPECIFICATION Spec
CONSTANTS
  r1 = r1
  r2 = r2
  r3 = r3
  s1 = s1
  Runs = {r1, r2, r3}
  Sessions = {s1}
  SessionOf <- OneSession
  NoRun = NoRun
  RecoveryAttempts = 1
  RecoveryTotal = 2
  MaxCheckpoint = 0
  MaxCrashes = 0
  MaxStoreErrors = 0
SYMMETRY RunSymmetry
INVARIANTS
  OneRunPerSession
PROPERTIES
  InSendOrder
  NoAttemptAfterStop
