SPECIFICATION Spec
CONSTANTS
  r1 = r1
  r2 = r2
  r3 = r3
  s1 = s1
  Runs = {r1, r2}
  Sessions = {s1}
  SessionOf <- OneSession
  NoRun = NoRun
  RecoveryAttempts = 1
  RecoveryTotal = 1
  MaxCheckpoint = 1
  MaxCrashes = 1
  MaxStoreErrors = 0
INVARIANTS
  OneAttemptPerSession
