--------------------- MODULE RunCoordinatorLifecycleProofs ---------------------
(***************************************************************************)
(* No attempt starts past a recovery cap, RunCoordinator implements        *)
(* RunLifecycle, and a resumed attempt gets its input exactly when it has  *)
(* to, for every set of runs and sessions and every value of the caps and  *)
(* bounds.                                                                 *)
(*                                                                         *)
(* The counters of a row are read when an attempt is scheduled and again   *)
(* when it starts; between the two only one continuation holds the run     *)
(* (IInv), so it is enough that whatever is opened is within the caps      *)
(* (CapsInv).  For the refinement, every step either leaves the table      *)
(* alone or writes the row of one run, as one step of the lifecycle.       *)
(***************************************************************************)
EXTENDS RunCoordinatorRowProofs

\* The run is in the live map, or about to be put there by its `begin`.
Opened(r) == status[r] # "absent" \/ phase[r] = "created"

InCaps(r) == row[r].attempts <= RecoveryAttempts /\ row[r].generation <= RecoveryTotal

\* The run waits in the live map, or is about to, or is just being dequeued.
Queues(r) ==
  \/ status[r] = "queued"
  \/ work[r] = "dequeuing"
  \/ phase[r] = "created" /\ rule[r] # "start"

\* A run that waits has a row that waits; one that has not started has spent
\* nothing; one that is open is within the caps; one that is being deferred has
\* an attempt left.
CapsInv ==
  \A r \in Runs :
    /\ Queues(r) => row[r].status = "queued"
    /\ row[r].status \in {"absent", "queued"} =>
         row[r].generation = 0 /\ row[r].attempts = 0
    /\ Opened(r) => InCaps(r)
    /\ work[r] = "deferring" => row[r].attempts < RecoveryAttempts

\* Nothing is spent in the empty table.
LEMMA InitCaps == Init => CapsInv
<1> SUFFICES ASSUME Init, NEW r \in Runs
             PROVE  /\ row[r].generation = 0 /\ row[r].attempts = 0
                    /\ ~Opened(r) /\ ~Queues(r) /\ work[r] # "deferring"
  BY DEF CapsInv
<1>1. row[r] = NoRow /\ status[r] = "absent" /\ phase[r] = "unsent" /\ work[r] = "none"
  BY DEF Init
<1>2. QED
  BY <1>1 DEF NoRow, Opened, Queues

-----------------------------------------------------------------------------
(* Steps that write no row *)

\* Such a step opens, and queues, only a queued orphan, and defers only within the cap.
CapsQuiet ==
  /\ row' = row
  /\ \A r \in Runs : /\ Opened(r)' => Opened(r) \/ row[r].status = "queued"
                     /\ Queues(r)' => Queues(r) \/ row[r].status = "queued"
  /\ \A r \in Runs : work'[r] = "deferring" =>
       work[r] = "deferring" \/ row[r].attempts < RecoveryAttempts

\* It keeps the counters within the caps.
LEMMA CapsQuietKeeps ==
  ASSUME CapsInv, CapsQuiet
  PROVE  CapsInv'
  BY CapsAssumption DEF CapsInv, CapsQuiet, InCaps

\* Ending some runs queues none.
LEMMA FinalizeQueues ==
  ASSUME IInv, NEW S, NEW out, Finalize(S, out)
  PROVE  \A r \in Runs : status'[r] = "queued" => status[r] = "queued"
  BY DEF IInv, TypeOK, Finalize, FinalizeIn

\* Taking a run dequeues one that was queued; it starts no deferral.
LEMMA TakeQueues ==
  ASSUME IInv, NEW s, NEW st \in [Runs -> Active \cup {"absent"}],
         Take(NextQueued(s, st), st)
  PROVE  \A r \in Runs : /\ work'[r] = "deferring" => work[r] = "deferring"
                         /\ status'[r] = "queued" => st[r] = "queued"
                         /\ work'[r] = "dequeuing" =>
                              work[r] = "dequeuing" \/ st[r] = "queued"
<1>0. arrival \in [Runs -> Nat] /\ work \in [Runs -> Work]
  BY DEF IInv, TypeOK
<1>1. CASE NextQueued(s, st) = NoRun
  BY <1>0, <1>1, RunsAssumption DEF Take
<1>2. CASE NextQueued(s, st) # NoRun
  BY <1>0, <1>2, NextQueuedIsIdle DEF Take
<1>3. QED
  BY <1>1, <1>2

\* begin, but for its insert, and the stops.
LEMMA CapsBegin ==
  ASSUME IInv, NEW r \in Runs,
         \/ \E m \in Multitask : Begin(r, m)
         \/ TakeTurn(r) \/ CancelNext(r) \/ GraceOver(r) \/ CreateFails(r)
         \/ OpenSuperseded(r) \/ OpenAndStart(r) \/ OpenQueued(r) \/ BeginReturns(r)
         \/ StopRun(r) \/ (\E s \in Sessions : StopSession(s) \/ StopAll(s))
  PROVE  CapsQuiet
<1>0. /\ phase \in [Runs -> Phases]
      /\ status \in [Runs -> Active \cup {"absent"}]
      /\ work \in [Runs -> Work]
      /\ rule \in [Runs -> Rules]
  BY DEF IInv, TypeOK
<1>1. ASSUME NEW S, NEW out, Finalize(S, out), row' = row, work' = work,
             \A x \in Runs : phase'[x] = "created" => phase[x] = "created" /\ rule'[x] = rule[x]
      PROVE  CapsQuiet
  BY <1>1, FinalizeHolds, FinalizeQueues DEF CapsQuiet, Opened, Queues
<1>2. ASSUME NEW decision, Admit(r, decision), row' = row
      PROVE  CapsQuiet
  BY <1>0, <1>2 DEF CapsQuiet, Opened, Queues, Admit, coord
<1>3. ASSUME Supersede(r), row' = row
      PROVE  CapsQuiet
  BY <1>0, <1>1, <1>2, <1>3 DEF Supersede
<1>4. CASE TakeTurn(r) \/ CancelNext(r) \/ GraceOver(r)
  BY <1>2, <1>3, <1>4 DEF TakeTurn, CancelNext, GraceOver, BeginFrame
<1>5. CASE \E m \in Multitask : Begin(r, m)
  BY <1>0, <1>5 DEF Begin, CapsQuiet, Opened, Queues, coord
<1>6. CASE CreateFails(r) \/ BeginReturns(r)
  BY <1>0, <1>6 DEF CreateFails, BeginReturns, CapsQuiet, Opened, Queues, coord
<1>7. CASE OpenSuperseded(r)
  BY <1>0, <1>7 DEF OpenSuperseded, FinalizeIn, CapsQuiet, Opened, Queues
<1>8. CASE OpenAndStart(r)
  BY <1>0, <1>8 DEF OpenAndStart, CapsQuiet, Opened, Queues
<1>9. CASE OpenQueued(r)
  <2> DEFINE opened == [status EXCEPT ![r] = "queued"]
  <2>1. opened \in [Runs -> Active \cup {"absent"}]
    BY <1>0 DEF Active
  <2>2. Take(NextQueued(SessionOf[r], opened), opened)
    BY <1>9 DEF OpenQueued
  <2> HIDE DEF opened
  <2>3. \A x \in Runs : /\ status'[x] # "absent" => opened[x] # "absent"
                        /\ status'[x] = "queued" => opened[x] = "queued"
                        /\ work'[x] = "dequeuing" =>
                             work[x] = "dequeuing" \/ opened[x] = "queued"
                        /\ work'[x] = "deferring" => work[x] = "deferring"
    BY <2>1, <2>2, TakeHolds, TakeQueues
  <2>4. \A x \in Runs : /\ opened[x] # "absent" => Opened(x)
                        /\ opened[x] = "queued" => Queues(x)
    BY <1>0, <1>9 DEF OpenQueued, Opened, Queues, opened
  <2>5. /\ row' = row
        /\ \A x \in Runs : phase'[x] = "created" =>
              phase[x] = "created" /\ rule'[x] = rule[x]
    BY <1>0, <1>9 DEF OpenQueued
  <2>6. QED
    BY <2>3, <2>4, <2>5 DEF CapsQuiet, Opened, Queues
<1>10. CASE StopRun(r) \/ (\E s \in Sessions : StopSession(s) \/ StopAll(s))
  BY <1>1, <1>10 DEF StopSession, StopAll, StopRun, StopFrame
<1>11. QED
  BY <1>4, <1>5, <1>6, <1>7, <1>8, <1>9, <1>10

\* Attempts, where they write no row: the deferral is decided within the cap.
LEMMA CapsAttempt ==
  ASSUME IInv, NEW r \in Runs,
         \/ DequeueFails(r) \/ EnterGraph(r) \/ AttemptCheckpoints(r)
         \/ \E out \in Terminal : AttemptEnds(r, out)
         \/ AttemptDefers(r) \/ DeferFails(r) \/ ResumeDue(r) \/ ResumeFails(r)
  PROVE  CapsQuiet
<1>0. /\ work \in [Runs -> Work]
      /\ row[r].attempts \in Nat
  BY DEF IInv, TypeOK, Row
<1>1. ASSUME NEW out, Finish(r, out), row' = row, phase' = phase, rule' = rule
      PROVE  CapsQuiet
  BY <1>0, <1>1, FinalizeHolds, FinalizeQueues DEF Finish, CapsQuiet, Opened, Queues
<1>2. ASSUME row' = row, status' = status, phase' = phase, rule' = rule,
             NEW w \in Work \ {"dequeuing"}, work' = [work EXCEPT ![r] = w],
             w = "deferring" => row[r].attempts < RecoveryAttempts
      PROVE  CapsQuiet
  BY <1>0, <1>2 DEF CapsQuiet, Opened, Queues
<1>3. CASE DequeueFails(r) \/ (\E out \in Terminal : AttemptEnds(r, out)) \/ DeferFails(r)
  BY <1>1, <1>3 DEF DequeueFails, AttemptEnds, DeferFails, RunFrame, begins
<1>4. CASE EnterGraph(r) \/ ResumeDue(r)
  BY <1>2, <1>4 DEF EnterGraph, ResumeDue, RunFrame, begins, Work
<1>5. CASE AttemptCheckpoints(r)
  BY <1>5 DEF AttemptCheckpoints, coord, begins, CapsQuiet, Opened, Queues
<1>6. CASE AttemptDefers(r)
  BY <1>0, <1>1, <1>2, <1>6, CapsAssumption DEF AttemptDefers, RunFrame, begins, Work
<1>7. CASE ResumeFails(r)
  BY <1>1, <1>2, <1>7 DEF ResumeFails, RunFrame, begins, Work
<1>8. QED
  BY <1>3, <1>4, <1>5, <1>6, <1>7

\* The end of a run, a reset, and the scan where it writes nothing.
LEMMA CapsEnds ==
  ASSUME IInv,
         \/ \E r \in Runs : \/ CloseRowFails(r) \/ StartNext(r) \/ FinalizeReturns(r)
                            \/ ReopenQueued(r)
         \/ \E s \in Sessions : BootDequeue(s)
         \/ BootDone \/ RecoverFails \/ Crash
  PROVE  CapsQuiet
<1>0. /\ status \in [Runs -> Active \cup {"absent"}]
      /\ phase \in [Runs -> Phases]
      /\ rule \in [Runs -> Rules]
  BY DEF IInv, TypeOK
<1>1. ASSUME NEW r \in Runs, CloseRowFails(r) \/ FinalizeReturns(r)
      PROVE  CapsQuiet
  <2>1. phase[r] # "created"
    BY <1>1 DEF CloseRowFails, FinalizeReturns, IInv, Untouched
  <2>2. QED
    BY <1>0, <1>1, <2>1
    DEF CloseRowFails, FinalizeReturns, Forget, EndFrame, CapsQuiet, Opened, Queues
<1>2. ASSUME NEW s, Take(NextQueued(s, status), status), row' = row, phase' = phase,
             rule' = rule
      PROVE  CapsQuiet
  BY <1>0, <1>2, TakeHolds, TakeQueues DEF CapsQuiet, Opened, Queues
<1>3. ASSUME NEW r \in Runs, StartNext(r)
      PROVE  CapsQuiet
  BY <1>2, <1>3 DEF StartNext, EndFrame
<1>4. ASSUME NEW r \in Runs, ReopenQueued(r)
      PROVE  CapsQuiet
  BY <1>0, <1>4 DEF ReopenQueued, BootFrame, begins, CapsQuiet, Opened, Queues
<1>5. ASSUME NEW s \in Sessions, BootDequeue(s)
      PROVE  CapsQuiet
  BY <1>2, <1>5 DEF BootDequeue, begins
<1>6. CASE BootDone \/ RecoverFails
  BY <1>6 DEF BootDone, RecoverFails, begins, coord, CapsQuiet, Opened, Queues
<1>7. CASE Crash
  BY <1>0, <1>7 DEF Crash, CapsQuiet, Opened, Queues, Waiting
<1>8. QED
  BY <1>1, <1>3, <1>4, <1>5, <1>6, <1>7

-----------------------------------------------------------------------------
(* The steps that write a row *)

\* Such a step writes the row of r within the caps and leaves the others alone.
CapsWrites(r) ==
  /\ \A x \in Runs \ {r} : /\ row'[x] = row[x]
                           /\ Opened(x)' => Opened(x)
                           /\ Queues(x)' => Queues(x)
  /\ Queues(r)' => row'[r].status = "queued"
  /\ row'[r].status \in {"absent", "queued"} =>
       row'[r].generation = 0 /\ row'[r].attempts = 0
  /\ Opened(r)' => row'[r].attempts <= RecoveryAttempts
                     /\ row'[r].generation <= RecoveryTotal
  /\ \A x \in Runs : work'[x] = "deferring" => x # r /\ work[x] = "deferring"

\* It keeps the counters within the caps.
LEMMA CapsWritesKeep ==
  ASSUME CapsInv, NEW r \in Runs, CapsWrites(r)
  PROVE  CapsInv'
  BY DEF CapsInv, CapsWrites, InCaps

\* Every write stays within the caps.
LEMMA WritesInCaps ==
  ASSUME IInv, RowsActive, CapsInv, NEW r \in Runs,
         CreateRow(r) \/ DequeueWrite(r) \/ DeferWrite(r) \/ ResumeWrite(r)
           \/ CloseRow(r) \/ CloseOrphan(r) \/ ScheduleOrphan(r)
  PROVE  CapsWrites(r)
<1>0. /\ row \in [Runs -> Row]
      /\ status \in [Runs -> Active \cup {"absent"}]
      /\ phase \in [Runs -> Phases]
      /\ rule \in [Runs -> Rules]
      /\ work \in [Runs -> Work]
      /\ fin \in [Runs -> Ending]
      /\ outcome \in [Runs -> Terminal \cup {"none"}]
      /\ row[r].attempts \in Nat /\ row[r].generation \in Nat
      /\ fin[r] = "closing" => outcome[r] \in Terminal
  BY DEF IInv, TypeOK, Row
<1>1. ASSUME work[r] # "none"
      PROVE  InCaps(r) /\ phase[r] # "created" /\ status[r] \in Executing
  BY <1>1 DEF CapsInv, Opened, IInv, InFlightWorks, Untouched, Executing
<1>2. ASSUME NEW out, Finish(r, out), phase' = phase, rule' = rule
      PROVE  /\ \A x \in Runs \ {r} : /\ Opened(x)' => Opened(x)
                                      /\ Queues(x)' => Queues(x)
             /\ status'[r] = "absent" /\ work'[r] = "none"
             /\ \A x \in Runs : work'[x] = "deferring" => x # r /\ work[x] = "deferring"
  BY <1>0, <1>2 DEF Finish, Finalize, FinalizeIn, Opened, Queues
<1>3. \A x \in Executing \cup Terminal : x \notin {"absent", "queued"}
  BY DEF Executing, Terminal
<1>4. CASE CreateRow(r)
  <2>1. row'[r].attempts = 0 /\ row'[r].generation = 0
    BY <1>0, <1>4 DEF CreateRow, NoRow
  <2>2. work[r] = "none" /\ status[r] = "absent"
    BY <1>4 DEF CreateRow, IInv, Untouched, Unrecorded
  <2>3. rule[r] # "start" => row'[r].status = "queued"
    BY <1>0, <1>4 DEF CreateRow, NoRow
  <2>4. QED
    BY <1>0, <1>4, <2>1, <2>2, <2>3, CapsAssumption DEF CreateRow, coord, CapsWrites, Opened, Queues
<1>5. CASE DequeueWrite(r)
  <2>1. /\ row'[r].attempts = row[r].attempts
        /\ row'[r].generation = row[r].generation
        /\ row'[r].status = "running"
        /\ \A x \in Runs \ {r} : row'[x] = row[x]
    BY <1>0, <1>5 DEF DequeueWrite, Row
  <2>2. QED
    BY <1>0, <1>1, <1>2, <1>5, <2>1
    DEF DequeueWrite, RunFrame, begins, CapsWrites, Opened, Queues, InCaps, Executing
<1>6. CASE ResumeWrite(r)
  <2>1. /\ row'[r].attempts = row[r].attempts
        /\ row'[r].generation = row[r].generation
        /\ row'[r].status = "running"
        /\ \A x \in Runs \ {r} : row'[x] = row[x]
    BY <1>0, <1>6 DEF ResumeWrite, ResumeRow, Row
  <2>2. QED
    BY <1>0, <1>1, <1>2, <1>6, <2>1
    DEF ResumeWrite, RunFrame, begins, CapsWrites, Opened, Queues, InCaps
<1>7. CASE DeferWrite(r)
  <2>1. /\ row'[r].attempts = row[r].attempts + 1
        /\ row'[r].generation = row[r].generation
        /\ row'[r].status = "recovering"
        /\ \A x \in Runs \ {r} : row'[x] = row[x]
    BY <1>0, <1>7 DEF DeferWrite, Row
  <2>2. row[r].attempts + 1 <= RecoveryAttempts
    BY <1>0, <1>7, CapsAssumption DEF DeferWrite, CapsInv
  <2>3. QED
    BY <1>0, <1>1, <1>2, <1>7, <2>1, <2>2
    DEF DeferWrite, RunFrame, begins, CapsWrites, Opened, Queues, InCaps
<1>8. CASE CloseRow(r)
  <2>1. status[r] = "absent" /\ phase[r] # "created" /\ work[r] = "none"
    BY <1>8 DEF CloseRow, IInv, InFlightWorks, Untouched, Executing
  <2>2. row'[r].status \in Terminal
    BY <1>0, <1>8 DEF CloseRow, Row
  <2>3. QED
    BY <1>0, <1>3, <1>8, <2>1, <2>2 DEF CloseRow, Forget, EndFrame, CapsWrites, Opened, Queues
<1>9. CASE CloseOrphan(r) \/ ScheduleOrphan(r)
  <2>1. r \in orphans
    <3>1. arrival \in [Runs -> Nat] /\ orphans \subseteq Runs
      BY DEF IInv, TypeOK
    <3>2. QED
      BY <1>9, <3>1, FirstIsMember DEF CloseOrphan, ScheduleOrphan, NextOrphan
  <2>2. phase[r] # "created" /\ work[r] = "none"
    BY <2>1 DEF IInv, ScanFirst, Untouched, Waiting
  <2>3. CASE CloseOrphan(r)
    <3>1. row'[r].status \in Executing
      BY <1>0, <2>3 DEF CloseOrphan, Row
    <3>2. status'[r] = "absent"
      BY <1>0, <2>3 DEF CloseOrphan, FinalizeIn, Executing
    <3>3. QED
      BY <1>0, <1>3, <2>2, <2>3, <3>1, <3>2
      DEF CloseOrphan, FinalizeIn, BootFrame, begins, CapsWrites, Opened, Queues
  <2>4. CASE ScheduleOrphan(r)
    <3>1. /\ row'[r].attempts = Spent(r, cp[SessionOf[r]]) + 1
          /\ row'[r].generation = row[r].generation + 1
          /\ row'[r].status = "recovering"
      BY <1>0, <2>4 DEF ScheduleOrphan, Row
    <3>2. row'[r].attempts <= RecoveryAttempts /\ row'[r].generation <= RecoveryTotal
      BY <1>0, <2>4, <3>1, CapsAssumption DEF ScheduleOrphan, OutOfRecoveries, Spent
    <3>3. QED
      BY <1>0, <2>2, <2>4, <3>1, <3>2
      DEF ScheduleOrphan, BootFrame, begins, CapsWrites, Opened, Queues
  <2>5. QED
    BY <1>9, <2>3, <2>4
<1>10. QED
  BY <1>4, <1>5, <1>6, <1>7, <1>8, <1>9

\* CapsInv is inductive over IInv and RowsActive.
LEMMA CapsStep == IInv /\ RowsActive /\ CapsInv /\ [Next]_vars => CapsInv'
<1> SUFFICES ASSUME IInv, RowsActive, CapsInv, [Next]_vars
             PROVE  CapsInv'
  OBVIOUS
<1>1. CASE UNCHANGED vars
  BY <1>1, CapsQuietKeeps DEF vars, begins, coord, CapsQuiet, Opened, Queues
<1>2. CASE UserStep
  <2>1. ASSUME NEW s \in Sessions, StopSession(s) \/ StopAll(s)
        PROVE  CapsInv'
    <3>1. PICK r \in Runs : SessionOf[r] = s
      BY <2>1 DEF StopSession, StopAll, PendingBegins, LiveOf, live
    <3>2. QED
      BY <2>1, CapsBegin, CapsQuietKeeps
  <2>2. QED
    BY <1>2, <2>1, CapsBegin, CapsQuietKeeps DEF UserStep
<1>3. ASSUME NEW r \in Runs, BeginStep(r)
      PROVE  CapsInv'
  BY <1>3, CapsBegin, CapsQuietKeeps, WritesInCaps, CapsWritesKeep DEF BeginStep
<1>4. ASSUME NEW r \in Runs, RunStep(r) \/ AttemptCheckpoints(r)
      PROVE  CapsInv'
  BY <1>4, CapsAttempt, CapsEnds, CapsQuietKeeps, WritesInCaps, CapsWritesKeep DEF RunStep
<1>5. CASE BootStep \/ Crash
  BY <1>5, CapsEnds, CapsQuietKeeps, WritesInCaps, CapsWritesKeep DEF BootStep
<1>6. CASE StoreFault
  BY <1>6, CapsBegin, CapsAttempt, CapsEnds, CapsQuietKeeps DEF StoreFault
<1>7. CASE Idle
  BY <1>1, <1>7 DEF Idle
<1>8. QED
  BY <1>1, <1>2, <1>3, <1>4, <1>5, <1>6, <1>7 DEF Next

\* No attempt starts past either recovery cap, whatever resets and deferrals
\* come together (decideRecovery, decideOrphanRecovery, deferRun).
THEOREM CapsHold == Spec => []AttemptsWithinCaps
<1>1. IInv /\ CapsInv => AttemptsWithinCaps
  BY DEF IInv, InFlightWorks, CapsInv, Opened, InCaps, AttemptsWithinCaps, Executing
<1>2. IInv /\ RowsActive /\ CapsInv /\ [Next]_vars => RowsActive' /\ CapsInv'
  BY RowStep, CapsStep
<1>3. QED
  BY <1>1, <1>2, InitActive, InitCaps, Inductive, PTL DEF Spec

-----------------------------------------------------------------------------
(* The refinement *)

\* A checkpoint written is within the bound: a start is a point of Lifecycle.
PointsBounded == \A s \in Sessions : cp[s] \in 0..MaxCheckpoint

\* What the refinement needs of a state.
LInv == IInv /\ RowsActive /\ CapsInv /\ PointsBounded

\* Five statuses and the four terminal ones are read as four states.
LEMMA SeenStates ==
  /\ Seen("absent") = "absent"
  /\ Seen("queued") = "queued"
  /\ \A st \in Executing : Seen(st) = "executing"
  /\ \A st \in Terminal : Seen(st) = "closed"
  BY DEF Seen, Executing, Terminal

\* The empty table is the lifecycle's initial state.
LEMMA InitSeen == Init => Lifecycle!Init /\ PointsBounded
<1> SUFFICES ASSUME Init
             PROVE  Lifecycle!Init /\ PointsBounded
  OBVIOUS
<1>1. \A r \in Runs : row[r] = NoRow
  BY DEF Init
<1>2. Lifecycle!Init
  BY <1>1, SeenStates DEF Lifecycle!Init, SeenRecord, NoRow
<1>3. PointsBounded
  BY BoundsAssumption DEF Init, PointsBounded
<1>4. QED
  BY <1>2, <1>3

\* A step that leaves the table alone shows nothing.
LEMMA QuietIsUnseen == row' = row => UNCHANGED SeenRecord
  BY DEF SeenRecord

\* What is seen of a step that writes one row.
LEMMA SeenWrite ==
  ASSUME NEW r \in Runs, \A x \in Runs \ {r} : row'[x] = row[x]
  PROVE  /\ SeenRecord[r] = [state |-> Seen(row[r].status),
                             recoveries |-> row[r].generation,
                             start |-> row[r].start]
         /\ SeenRecord' = [SeenRecord EXCEPT ![r] =
              [state |-> Seen(row'[r].status), recoveries |-> row'[r].generation,
               start |-> row'[r].start]]
  BY DEF SeenRecord

\* A write that moves one row to a state and a start, and counts nothing.
LEMMA SeenMove ==
  ASSUME NEW r \in Runs, \A x \in Runs \ {r} : row'[x] = row[x],
         row'[r].generation = row[r].generation
  PROVE  SeenRecord' = [SeenRecord EXCEPT ![r].state = Seen(row'[r].status),
                                          ![r].start = row'[r].start]
  BY DEF SeenRecord

\* A write that moves one row to a state only.
LEMMA SeenState ==
  ASSUME NEW r \in Runs, \A x \in Runs \ {r} : row'[x] = row[x],
         row'[r].generation = row[r].generation, row'[r].start = row[r].start
  PROVE  SeenRecord' = [SeenRecord EXCEPT ![r].state = Seen(row'[r].status)]
  BY DEF SeenRecord

\* A write that counts one recovery of a row and leaves its state.
LEMMA SeenCount ==
  ASSUME NEW r \in Runs, \A x \in Runs \ {r} : row'[x] = row[x],
         row'[r].generation = row[r].generation + 1, row'[r].start = row[r].start,
         Seen(row'[r].status) = Seen(row[r].status)
  PROVE  SeenRecord' = [SeenRecord EXCEPT ![r].recoveries = @ + 1]
  BY DEF SeenRecord

\* A write of one row that a reader cannot tell.
LEMMA SeenSame ==
  ASSUME NEW r \in Runs, \A x \in Runs \ {r} : row'[x] = row[x],
         row'[r].generation = row[r].generation, row'[r].start = row[r].start,
         Seen(row'[r].status) = Seen(row[r].status)
  PROVE  UNCHANGED SeenRecord
  BY DEF SeenRecord

\* What each write is to a reader.
LEMMA WritesAreSeen ==
  ASSUME LInv, NEW r \in Runs,
         CreateRow(r) \/ DequeueWrite(r) \/ DeferWrite(r) \/ ResumeWrite(r)
           \/ CloseRow(r) \/ CloseOrphan(r) \/ ScheduleOrphan(r)
  PROVE  [Lifecycle!Next]_SeenRecord
<1>0. /\ row \in [Runs -> Row]
      /\ row[r].status \in Active \cup Terminal \cup {"absent"}
      /\ outcome \in [Runs -> Terminal \cup {"none"}]
      /\ fin[r] = "closing" => outcome[r] \in Terminal
      /\ cp[SessionOf[r]] \in 0..MaxCheckpoint
      /\ \A x \in Runs \ {r} : row'[x] = row[x]
  <2>1. Writes(r)
    BY RowWrites DEF LInv
  <2>2. QED
    BY <2>1, RunsAssumption DEF LInv, IInv, TypeOK, Row, PointsBounded, Writes
<1>1. SeenRecord[r].state = Seen(row[r].status)
  BY DEF SeenRecord
<1>2. CASE CreateRow(r)
  <2>1. row[r].status = "absent" /\ row[r].generation = 0
    BY <1>2 DEF CreateRow, LInv, IInv, Untouched, Unrecorded, CapsInv
  <2>2. /\ row'[r].generation = 0
        /\ row'[r].start = cp[SessionOf[r]]
        /\ row'[r].status \in {"running", "queued"}
    BY <1>0, <1>2 DEF CreateRow, NoRow
  <2>3. Seen(row'[r].status) \in Lifecycle!Open
    BY <2>2, SeenStates DEF Executing, Lifecycle!Open
  <2>4. Lifecycle!Record(r)
    BY <1>0, <1>1, <2>1, <2>2, <2>3, SeenMove, SeenStates DEF Lifecycle!Record
  <2>5. QED
    BY <2>4 DEF Lifecycle!Next
<1>3. CASE DequeueWrite(r)
  <2>1. /\ row'[r].generation = row[r].generation
        /\ row'[r].status = "running"
        /\ row'[r].start = cp[SessionOf[r]]
    BY <1>0, <1>3 DEF DequeueWrite, Row
  <2>2. row[r].status = "queued"
    BY <1>3 DEF DequeueWrite, LInv, CapsInv, Queues
  <2>3. Lifecycle!Start(r)
    BY <1>0, <1>1, <2>1, <2>2, SeenMove, SeenStates DEF Executing, Lifecycle!Start
  <2>4. QED
    BY <2>3 DEF Lifecycle!Next
<1>4. CASE DeferWrite(r) \/ ResumeWrite(r)
  <2>1. /\ row'[r].generation = row[r].generation
        /\ row'[r].start = row[r].start
        /\ row'[r].status \in Executing
    BY <1>0, <1>4 DEF DeferWrite, ResumeWrite, ResumeRow, Row, Executing
  <2>2. row[r].status \in Executing
    BY <1>4 DEF DeferWrite, ResumeWrite, LInv, IInv, InFlightWorks, RowsFollow
  <2>3. QED
    BY <1>0, <2>1, <2>2, SeenStates, SeenSame
<1>5. CASE CloseRow(r)
  <2>1. /\ row'[r].generation = row[r].generation
        /\ row'[r].start = row[r].start
        /\ row'[r].status \in Terminal
    BY <1>0, <1>5 DEF CloseRow, Row
  <2>2. row[r].status \in Active
    BY <1>5 DEF CloseRow, LInv, RowsActive, Held
  <2>3. Lifecycle!Close(r)
    BY <1>0, <1>1, <2>1, <2>2, SeenState, SeenStates DEF Active, Lifecycle!Close, Lifecycle!Open
  <2>4. QED
    BY <2>3 DEF Lifecycle!Next
<1>6. CASE CloseOrphan(r) \/ ScheduleOrphan(r)
  <2>1. /\ row'[r].generation = row[r].generation + 1
        /\ row'[r].start = row[r].start
        /\ row[r].status \in Executing
        /\ row'[r].status \in Executing
    BY <1>0, <1>6 DEF CloseOrphan, ScheduleOrphan, Row, Executing
  <2>2. Lifecycle!Recover(r)
    BY <1>0, <1>1, <2>1, SeenCount, SeenStates DEF Lifecycle!Recover
  <2>3. QED
    BY <2>2 DEF Lifecycle!Next
<1>7. QED
  BY <1>2, <1>3, <1>4, <1>5, <1>6

\* The checkpoints stay within the bound.
LEMMA PointsStep == IInv /\ PointsBounded /\ [Next]_vars => PointsBounded'
<1> SUFFICES ASSUME IInv, PointsBounded, [Next]_vars
             PROVE  PointsBounded'
  OBVIOUS
<1>1. CASE cp' = cp
  BY <1>1 DEF PointsBounded
<1>2. ASSUME NEW r \in Runs, AttemptCheckpoints(r)
      PROVE  PointsBounded'
  BY <1>2, BoundsAssumption DEF AttemptCheckpoints, PointsBounded, IInv, TypeOK
<1>3. CASE UNCHANGED vars \/ Idle
  BY <1>1, <1>3 DEF vars, Idle
<1>4. CASE UserStep
  BY <1>1, <1>4 DEF UserStep, Begin, StopRun, StopSession, StopAll, StopFrame
<1>5. ASSUME NEW r \in Runs, BeginStep(r)
      PROVE  PointsBounded'
  BY <1>1, <1>5 DEF BeginStep, TakeTurn, CancelNext, GraceOver, BeginFrame, CreateRow,
     OpenSuperseded, OpenAndStart, OpenQueued, BeginReturns
<1>6. ASSUME NEW r \in Runs, RunStep(r)
      PROVE  PointsBounded'
  BY <1>1, <1>6 DEF RunStep, DequeueWrite, EnterGraph, AttemptEnds, AttemptDefers,
     DeferWrite, CloseRow, StartNext, FinalizeReturns, EndFrame, ResumeDue, ResumeWrite
<1>7. CASE BootStep \/ Crash
  BY <1>1, <1>7 DEF BootStep, ReopenQueued, CloseOrphan, ScheduleOrphan, BootFrame,
     BootDequeue, BootDone, Crash
<1>8. CASE StoreFault
  BY <1>1, <1>8 DEF StoreFault, CreateFails, DequeueFails, DeferFails, CloseRowFails,
     EndFrame, ResumeFails, RecoverFails
<1>9. QED
  BY <1>2, <1>3, <1>4, <1>5, <1>6, <1>7, <1>8 DEF Next

\* Every step is one step of the lifecycle, or a stutter of it.
LEMMA LifecycleStep == LInv /\ [Next]_vars => [Lifecycle!Next]_SeenRecord
<1> SUFFICES ASSUME LInv, [Next]_vars
             PROVE  [Lifecycle!Next]_SeenRecord
  OBVIOUS
<1>0. IInv /\ RowsActive
  BY DEF LInv
<1>1. CASE row' = row
  BY <1>1, QuietIsUnseen
<1>2. CASE UNCHANGED vars \/ Idle
  BY <1>1, <1>2 DEF vars, Idle
<1>3. CASE UserStep
  BY <1>0, <1>1, <1>3, QuietBegin, QuietStops DEF UserStep, Quiet
<1>4. ASSUME NEW r \in Runs, BeginStep(r)
      PROVE  [Lifecycle!Next]_SeenRecord
  BY <1>0, <1>1, <1>4, QuietBegin, QuietOpen, WritesAreSeen DEF BeginStep, Quiet
<1>5. ASSUME NEW r \in Runs, RunStep(r) \/ AttemptCheckpoints(r)
      PROVE  [Lifecycle!Next]_SeenRecord
  BY <1>0, <1>1, <1>5, QuietAttempt, QuietEnds, WritesAreSeen DEF RunStep, Quiet
<1>6. CASE BootStep \/ Crash
  BY <1>0, <1>1, <1>6, QuietBoot, WritesAreSeen DEF BootStep, Quiet
<1>7. CASE StoreFault
  BY <1>0, <1>1, <1>7, QuietBegin, QuietAttempt, QuietEnds, QuietBoot DEF StoreFault, Quiet
<1>8. QED
  BY <1>2, <1>3, <1>4, <1>5, <1>6, <1>7 DEF Next

\* The coordinator implements the lifecycle the readers of the run table rely
\* on: a run is recorded once, waits at most once, keeps its start checkpoint
\* through every deferral, resume and recovery, and is closed for good
\* (run-store.ts createRun, updateRun; run-coordinator.ts).
THEOREM Refinement == Spec => ImplementsLifecycle
<1>1. LInv /\ [Next]_vars => RowsActive' /\ CapsInv' /\ PointsBounded'
  BY RowStep, CapsStep, PointsStep DEF LInv
<1>2. Spec => []LInv
  BY <1>1, InitActive, InitCaps, InitSeen, Inductive, PTL DEF Spec, LInv
<1>3. QED
  BY <1>2, InitSeen, LifecycleStep, PTL DEF Spec, ImplementsLifecycle, Lifecycle!Spec

-----------------------------------------------------------------------------
(* The input of a resumed attempt *)

\* What the table and the checkpoints say of r's input.  A run that has not
\* started wrote no checkpoint; a start is never ahead of the thread; while one
\* run of the session executes at a time, the thread has moved since r's start
\* exactly when r wrote a checkpoint; and the attempt was decided on that.
InputOf(r) ==
  /\ row[r].status \in {"absent", "queued"} => r \notin touched /\ r \notin resumed
  /\ row[r].start <= cp[SessionOf[r]]
  /\ row[r].status \in Executing /\ SessionOf[r] \notin overlapped =>
       (r \in touched <=> RunHasCheckpointed(r))
  /\ work[r] = "preparing" /\ SessionOf[r] \notin overlapped =>
       (r \in resumed <=> r \in touched)

InputInv == \A r \in Runs : InputOf(r)

\* The step changes neither what InputOf says of r nor what it says it of.
SameInput(r) ==
  /\ row'[r] = row[r] /\ cp'[SessionOf[r]] = cp[SessionOf[r]]
  /\ r \in touched' <=> r \in touched
  /\ r \in resumed' => r \in resumed
  /\ work'[r] = "preparing" => work[r] = "preparing" /\ (r \in resumed' <=> r \in resumed)
  /\ overlapped \subseteq overlapped'

\* Then it keeps InputOf(r).
LEMMA SameInputKeeps ==
  ASSUME NEW r \in Runs, InputOf(r), SameInput(r)
  PROVE  InputOf(r)'
  BY DEF InputOf, SameInput, RunHasCheckpointed, CheckpointAdvanced

\* Nothing has been written in the empty table.
LEMMA InitInput == Init => InputInv
<1> SUFFICES ASSUME Init, NEW r \in Runs
             PROVE  InputOf(r)
  BY DEF InputInv
<1>1. /\ row[r] = NoRow /\ cp[SessionOf[r]] = 0 /\ work[r] = "none"
      /\ touched = {} /\ resumed = {}
  BY RunsAssumption DEF Init
<1>2. QED
  BY <1>1 DEF InputOf, NoRow, Executing

\* begin, but for its insert, and the stops.
LEMMA InputBegin ==
  ASSUME NEW r \in Runs,
         \/ \E m \in Multitask : Begin(r, m)
         \/ TakeTurn(r) \/ CancelNext(r) \/ GraceOver(r) \/ CreateFails(r)
         \/ OpenSuperseded(r) \/ OpenAndStart(r) \/ OpenQueued(r) \/ BeginReturns(r)
         \/ StopRun(r) \/ (\E s \in Sessions : StopSession(s) \/ StopAll(s)),
         work \in [Runs -> Work]
  PROVE  \A x \in Runs : SameInput(x)
<1>1. CASE (\E m \in Multitask : Begin(r, m)) \/ CreateFails(r) \/ BeginReturns(r)
  BY <1>1 DEF Begin, CreateFails, BeginReturns, coord, history, SameInput
<1>2. CASE TakeTurn(r) \/ CancelNext(r) \/ GraceOver(r)
  <2>1. UNCHANGED <<row, cp, history>>
    BY <1>2 DEF TakeTurn, CancelNext, GraceOver, BeginFrame
  <2>2. UNCHANGED <<work, resumed>>
    BY <1>2 DEF TakeTurn, CancelNext, GraceOver, Admit, Supersede, coord
  <2>3. QED
    BY <2>1, <2>2 DEF history, SameInput
<1>3. CASE OpenSuperseded(r) \/ OpenAndStart(r)
  BY <1>3 DEF OpenSuperseded, OpenAndStart, history, SameInput
<1>4. CASE OpenQueued(r)
  BY <1>4 DEF OpenQueued, Take, history, SameInput
<1>5. CASE StopRun(r) \/ (\E s \in Sessions : StopSession(s) \/ StopAll(s))
  BY <1>5 DEF StopRun, StopSession, StopAll, StopFrame, history, SameInput
<1>6. QED
  BY <1>1, <1>2, <1>3, <1>4, <1>5

\* Attempts, where they write neither a row nor a checkpoint.
LEMMA InputAttempt ==
  ASSUME NEW r \in Runs, work \in [Runs -> Work],
         \/ DequeueFails(r) \/ EnterGraph(r)
         \/ \E out \in Terminal : AttemptEnds(r, out)
         \/ AttemptDefers(r) \/ DeferFails(r) \/ ResumeDue(r) \/ ResumeFails(r)
  PROVE  \A x \in Runs : SameInput(x)
<1>1. UNCHANGED <<row, cp, resumed, history>>
  BY DEF DequeueFails, EnterGraph, AttemptEnds, AttemptDefers, DeferFails, ResumeDue, ResumeFails
<1>2. \A x \in Runs : work'[x] = "preparing" => work[x] = "preparing"
  BY DEF DequeueFails, EnterGraph, AttemptEnds, AttemptDefers, DeferFails, ResumeDue,
     ResumeFails, Finish
<1>3. QED
  BY <1>1, <1>2 DEF history, SameInput

\* The end of a run and the scan, where they write no row, and a reset.
LEMMA InputEnds ==
  ASSUME IInv,
         \/ \E r \in Runs : \/ CloseRowFails(r) \/ StartNext(r) \/ FinalizeReturns(r)
                            \/ ReopenQueued(r)
         \/ \E s \in Sessions : BootDequeue(s)
         \/ BootDone \/ RecoverFails \/ Crash
  PROVE  \A x \in Runs : SameInput(x)
<1>0. work \in [Runs -> Work]
  BY DEF IInv, TypeOK
<1>1. ASSUME NEW r \in Runs, CloseRowFails(r)
      PROVE  \A x \in Runs : SameInput(x)
  <2>1. work[r] = "none"
    BY <1>1 DEF CloseRowFails, IInv, InFlightWorks, Executing
  <2>2. QED
    BY <1>1, <2>1 DEF CloseRowFails, Forget, EndFrame, SameInput
<1>2. ASSUME NEW r \in Runs, StartNext(r) \/ FinalizeReturns(r)
      PROVE  \A x \in Runs : SameInput(x)
  BY <1>2 DEF StartNext, Take, FinalizeReturns, EndFrame, SameInput
<1>3. ASSUME NEW r \in Runs, ReopenQueued(r)
      PROVE  \A x \in Runs : SameInput(x)
  BY <1>3 DEF ReopenQueued, BootFrame, history, SameInput
<1>4. ASSUME NEW s \in Sessions, BootDequeue(s)
      PROVE  \A x \in Runs : SameInput(x)
  BY <1>4 DEF BootDequeue, Take, history, SameInput
<1>5. CASE BootDone \/ RecoverFails
  BY <1>5 DEF BootDone, RecoverFails, coord, history, SameInput
<1>6. CASE Crash
  BY <1>6 DEF Crash, history, SameInput
<1>7. QED
  BY <1>1, <1>2, <1>3, <1>4, <1>5, <1>6

\* A write of a row: the start is taken from the thread before anything of the
\* run is in it, and a resume is decided by it.
LEMMA InputWrites ==
  ASSUME LInv, InputInv, NEW r \in Runs,
         CreateRow(r) \/ DequeueWrite(r) \/ DeferWrite(r) \/ ResumeWrite(r)
           \/ CloseRow(r) \/ CloseOrphan(r) \/ ScheduleOrphan(r)
  PROVE  InputInv'
<1>0. /\ row \in [Runs -> Row] /\ work \in [Runs -> Work]
      /\ cp' = cp /\ cp[SessionOf[r]] \in Nat
      /\ row[r].start \in Nat
      /\ outcome \in [Runs -> Terminal \cup {"none"}]
      /\ fin[r] = "closing" => outcome[r] \in Terminal
      /\ \A x \in Executing \cup Terminal : x \notin {"absent", "queued"}
      /\ \A x \in Executing : x \notin Terminal
      /\ overlapped \subseteq overlapped'
      /\ InputOf(r)
  <2>1. cp' = cp
    BY DEF CreateRow, DequeueWrite, DeferWrite, ResumeWrite, CloseRow, EndFrame, CloseOrphan,
       ScheduleOrphan, BootFrame
  <2>2. overlapped \subseteq overlapped'
    BY DEF CreateRow, DequeueWrite, DeferWrite, ResumeWrite, CloseRow, EndFrame, CloseOrphan,
       ScheduleOrphan, BootFrame, NoteOverlap, history
  <2>3. /\ row \in [Runs -> Row] /\ work \in [Runs -> Work]
        /\ cp[SessionOf[r]] \in Nat /\ outcome \in [Runs -> Terminal \cup {"none"}]
        /\ fin[r] = "closing" => outcome[r] \in Terminal
    BY RunsAssumption DEF LInv, IInv, TypeOK
  <2>4. QED
    BY <2>1, <2>2, <2>3 DEF Row, Executing, Terminal, InputInv
<1>1. \A x \in Runs \ {r} : SameInput(x)
  <2>1. \A x \in Runs \ {r} : row'[x] = row[x]
    BY RowWrites DEF LInv, Writes
  <2>2. \A x \in Runs \ {r} : (x \in touched' <=> x \in touched) /\ (x \in resumed' <=> x \in resumed)
    BY DEF CreateRow, DequeueWrite, DeferWrite, ResumeWrite, CloseRow, Forget, CloseOrphan,
       ScheduleOrphan, BootFrame, coord, history
  <2>3. \A x \in Runs \ {r} : work'[x] = "preparing" => work[x] = "preparing"
    BY <1>0 DEF CreateRow, DequeueWrite, DeferWrite, ResumeWrite, CloseRow, Forget, CloseOrphan,
       ScheduleOrphan, BootFrame, coord, Finish
  <2>4. QED
    BY <1>0, <2>1, <2>2, <2>3 DEF SameInput
<1>2. SUFFICES InputOf(r)'
  BY <1>1, SameInputKeeps DEF InputInv
<1>3. CASE CreateRow(r)
  <2>1. /\ row'[r].status \in {"running", "queued"}
        /\ row'[r].start = cp[SessionOf[r]]
    BY <1>0, <1>3 DEF CreateRow, NoRow
  <2>2. /\ row[r].status = "absent" /\ work[r] = "none"
        /\ touched' = touched /\ resumed' = resumed /\ work' = work
    BY <1>3 DEF CreateRow, coord, LInv, IInv, Untouched, Unrecorded
  <2>3. QED
    BY <1>0, <2>1, <2>2 DEF InputOf, RunHasCheckpointed, CheckpointAdvanced
<1>4. CASE DequeueWrite(r)
  <2>1. row'[r].status = "running" /\ row'[r].start = cp[SessionOf[r]]
    BY <1>0, <1>4 DEF DequeueWrite, Row
  <2>2. row[r].status = "queued"
    BY <1>4 DEF DequeueWrite, LInv, CapsInv, Queues
  <2>3. touched' = touched /\ resumed' = resumed
    BY <1>4 DEF DequeueWrite
  <2>4. QED
    BY <1>0, <2>1, <2>2, <2>3 DEF InputOf, RunHasCheckpointed, CheckpointAdvanced
<1>5. CASE DeferWrite(r) \/ ResumeWrite(r)
  <2>1. row'[r].status \in Executing /\ row'[r].start = row[r].start
    BY <1>0, <1>5 DEF DeferWrite, ResumeWrite, ResumeRow, Row, Executing
  <2>2. row[r].status \in Executing
    BY <1>5 DEF DeferWrite, ResumeWrite, LInv, IInv, InFlightWorks, RowsFollow
  <2>3. touched' = touched
    BY <1>5 DEF DeferWrite, ResumeWrite, history
  <2>4. work'[r] = "preparing" => (r \in resumed' <=> RunHasCheckpointed(r))
    BY <1>0, <1>5 DEF DeferWrite, ResumeWrite, Finish
  <2>5. RunHasCheckpointed(r)' <=> RunHasCheckpointed(r)
    BY <1>0, <2>1 DEF RunHasCheckpointed
  <2>6. QED
    BY <1>0, <2>1, <2>2, <2>3, <2>4, <2>5 DEF InputOf
<1>6. CASE CloseRow(r)
  <2>1. row'[r].status \in Terminal /\ row'[r].start = row[r].start
    BY <1>0, <1>6 DEF CloseRow, Row
  <2>2. work'[r] # "preparing"
    BY <1>6 DEF CloseRow, Forget, LInv, IInv, InFlightWorks, Executing
  <2>3. QED
    BY <1>0, <2>1, <2>2 DEF InputOf
<1>7. CASE CloseOrphan(r) \/ ScheduleOrphan(r)
  <2>1. /\ row[r].status \in Executing /\ row'[r].status \in Executing
        /\ row'[r].start = row[r].start
    BY <1>0, <1>7 DEF CloseOrphan, ScheduleOrphan, Row, Executing
  <2>2. UNCHANGED <<touched, resumed, work>>
    BY <1>7 DEF CloseOrphan, ScheduleOrphan, BootFrame, history
  <2>3. RunHasCheckpointed(r)' <=> RunHasCheckpointed(r)
    BY <1>0, <2>1 DEF RunHasCheckpointed
  <2>4. QED
    BY <1>0, <2>1, <2>2, <2>3 DEF InputOf
<1>8. QED
  BY <1>3, <1>4, <1>5, <1>6, <1>7

\* A checkpoint moves the thread under every run of the session: when it is not
\* the run's own, both rows execute and the overlap was noted.
LEMMA InputCheckpoint ==
  ASSUME IInv, InputInv, NEW r \in Runs, AttemptCheckpoints(r)
  PROVE  InputInv'
<1>0. /\ cp \in [Sessions -> Nat] /\ row \in [Runs -> Row] /\ SessionOf \in [Runs -> Sessions]
      /\ work[r] = "attempt" /\ row[r].status \in Executing
      /\ row' = row /\ work' = work /\ resumed' = resumed /\ overlapped' = overlapped
      /\ touched' = touched \cup {r}
  BY RunsAssumption
  DEF AttemptCheckpoints, coord, IInv, TypeOK, InFlightWorks, RowsFollow
<1>1. \A x \in Runs : /\ cp[SessionOf[x]] \in Nat
                      /\ cp'[SessionOf[x]] = IF SessionOf[x] = SessionOf[r]
                                               THEN cp[SessionOf[x]] + 1
                                               ELSE cp[SessionOf[x]]
  BY <1>0 DEF AttemptCheckpoints
<1> SUFFICES ASSUME NEW x \in Runs
             PROVE  InputOf(x)'
  BY DEF InputInv
<1>2. InputOf(x) /\ row[x].start \in Nat
  BY <1>0 DEF InputInv, Row
<1>3. CASE x = r
  BY <1>0, <1>1, <1>2, <1>3 DEF InputOf, RunHasCheckpointed, CheckpointAdvanced, Executing
<1>4. CASE x # r /\ SessionOf[x] = SessionOf[r]
  <2>1. row[x].status \in Executing => SessionOf[x] \in overlapped
    BY <1>0, <1>4 DEF IInv, OverlapNoted, Mates
  <2>2. QED
    BY <1>0, <1>1, <1>2, <1>4, <2>1 DEF InputOf
<1>5. CASE SessionOf[x] # SessionOf[r]
  <2>1. x # r
    BY <1>5
  <2>2. SameInput(x)
    BY <1>0, <1>1, <1>5, <2>1 DEF SameInput
  <2>3. QED
    BY <1>2, <2>2, SameInputKeeps
<1>6. QED
  BY <1>3, <1>4, <1>5

\* InputInv is inductive over LInv.
LEMMA InputStep == LInv /\ InputInv /\ [Next]_vars => InputInv'
<1> SUFFICES ASSUME LInv, InputInv, [Next]_vars
             PROVE  InputInv'
  OBVIOUS
<1>0. IInv /\ RowsActive /\ work \in [Runs -> Work]
  BY DEF LInv, IInv, TypeOK
<1>1. CASE \A x \in Runs : SameInput(x)
  BY <1>1, SameInputKeeps DEF InputInv
<1>2. CASE UNCHANGED vars \/ Idle
  BY <1>1, <1>2 DEF Idle, vars, coord, history, SameInput
<1>3. CASE UserStep
  <2>1. ASSUME NEW s \in Sessions, StopSession(s) \/ StopAll(s)
        PROVE  InputInv'
    <3>1. PICK r \in Runs : SessionOf[r] = s
      BY <2>1 DEF StopSession, StopAll, PendingBegins, LiveOf, live
    <3>2. QED
      BY <1>0, <1>1, <2>1, InputBegin
  <2>2. QED
    BY <1>0, <1>1, <1>3, <2>1, InputBegin DEF UserStep
<1>4. ASSUME NEW r \in Runs, BeginStep(r)
      PROVE  InputInv'
  BY <1>0, <1>1, <1>4, InputBegin, InputWrites DEF BeginStep
<1>5. ASSUME NEW r \in Runs, RunStep(r) \/ AttemptCheckpoints(r)
      PROVE  InputInv'
  BY <1>0, <1>1, <1>5, InputAttempt, InputEnds, InputWrites, InputCheckpoint DEF RunStep
<1>6. CASE BootStep \/ Crash
  BY <1>0, <1>1, <1>6, InputEnds, InputWrites DEF BootStep
<1>7. CASE StoreFault
  BY <1>0, <1>1, <1>7, InputBegin, InputAttempt, InputEnds DEF StoreFault
<1>8. QED
  BY <1>2, <1>3, <1>4, <1>5, <1>6, <1>7 DEF Next

\* A queued or recovered attempt gets the user's input exactly when the thread
\* does not have it yet, across deferrals, resumes and resets: never twice, and
\* never not at all (runHasCheckpointed in run-coordinator.ts).
THEOREM InputOnce == Spec => []ResumeMatchesInput
<1>1. InputInv => ResumeMatchesInput
  BY DEF InputInv, InputOf, ResumeMatchesInput
<1>2. LInv /\ [Next]_vars => RowsActive' /\ CapsInv' /\ PointsBounded'
  BY RowStep, CapsStep, PointsStep DEF LInv
<1>3. Spec => []LInv
  BY <1>2, InitActive, InitCaps, InitSeen, Inductive, PTL DEF Spec, LInv
<1>4. QED
  BY <1>1, <1>3, InitInput, InputStep, PTL DEF Spec

==============================================================================
