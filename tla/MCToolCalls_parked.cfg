SPECIFICATION Spec
CONSTANTS
  rA = rA
  rB = rB
  s1 = s1
  s2 = s2
  w1 = w1
  w2 = w2
  b1 = b1
  b2 = b2
  d1 = d1
  i1 = i1
  q1 = q1
  w3 = w3
  opW = opW
  opB = opB
  opX = opX
  NoCall = NoCall
  NoRun = NoRun
  Runs = {rA, rB}
  Sessions = {s1}
  Calls = {b1, b2}
  Ops = {opB}
  SessionOf <- OneSession
  RunOf <- BrowserRuns
  OpOf <- BrowserOps
  KindOf <- BrowserKinds
  ParentOf <- TopLevel
  MaxReads = 1
  MaxSubagents = 1
  MaxCrashes = 1
  MaxStoreErrors = 0
INVARIANTS
  ParkedCallRunsAgain
CHECK_DEADLOCK FALSE
