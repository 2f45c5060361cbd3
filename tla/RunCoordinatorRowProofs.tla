------------------------ MODULE RunCoordinatorRowProofs ------------------------
(***************************************************************************)
(* A closed row of `turn_runs` is never written again, and an active one   *)
(* is never forgotten, for every set of runs and sessions and every value  *)
(* of the caps and bounds.                                                 *)
(*                                                                         *)
(* A late write could only come from a continuation, a close or a `begin`  *)
(* that still holds the run, so it is enough that whatever holds a run     *)
(* holds one whose row is active (RowsActive).  That rests on IInv: only   *)
(* one of them holds a run at a time (InFlightWorks, Untouched).           *)
(***************************************************************************)
EXTENDS RunCoordinatorSafetyProofs

\* Something in memory is going to write r's row.
Held(r) == status[r] # "absent" \/ fin[r] = "closing" \/ phase[r] = "created"

RowsActive == \A r \in Runs : Held(r) => row[r].status \in Active

\* What a step must do to keep every terminal row.
RowsKept == \A r \in Runs : row[r].status \in Terminal => row'[r] = row[r]

\* No run is held in the empty object.
LEMMA InitActive == Init => RowsActive
  BY DEF Init, RowsActive, Held

-----------------------------------------------------------------------------
\* A step that writes no row and takes hold only of runs that were held, or
\* that the recovery scan visits.
Quiet ==
  /\ row' = row
  /\ \A r \in Runs : Held(r)' => Held(r) \/ r \in orphans

\* Such a step keeps every row, and every held run's row active.
LEMMA QuietKeeps ==
  ASSUME IInv, RowsActive, Quiet
  PROVE  RowsActive' /\ RowsKept
  BY DEF Quiet, RowsActive, RowsKept, IInv, Untouched

\* Ending some runs of the live map: they were held before.
LEMMA FinalizeHolds ==
  ASSUME IInv, NEW S, NEW out, Finalize(S, out)
  PROVE  \A r \in Runs : /\ status'[r] # "absent" => status[r] # "absent"
                         /\ fin'[r] = "closing" => Held(r)
  BY DEF IInv, TypeOK, Finalize, FinalizeIn, Held

\* Taking a queued run: it was live.
LEMMA TakeHolds ==
  ASSUME IInv, NEW s, NEW st \in [Runs -> Active \cup {"absent"}],
         Take(NextQueued(s, st), st)
  PROVE  \A r \in Runs : status'[r] # "absent" => st[r] # "absent"
<1>1. arrival \in [Runs -> Nat]
  BY DEF IInv, TypeOK
<1>2. CASE NextQueued(s, st) = NoRun
  BY <1>2, RunsAssumption DEF Take
<1>3. CASE NextQueued(s, st) # NoRun
  BY <1>1, <1>3, NextQueuedIsIdle DEF Take
<1>4. QED
  BY <1>2, <1>3

-----------------------------------------------------------------------------
(* begin and the stops *)

\* Every step of `begin` but the insert and the opening is quiet.
LEMMA QuietBegin ==
  ASSUME IInv, NEW r \in Runs,
         \/ \E m \in Multitask : Begin(r, m)
         \/ TakeTurn(r) \/ CancelNext(r) \/ GraceOver(r) \/ CreateFails(r)
         \/ BeginReturns(r)
  PROVE  Quiet
<1>0. phase \in [Runs -> Phases]
  BY DEF IInv, TypeOK
<1>1. ASSUME NEW decision, Admit(r, decision), row' = row
      PROVE  Quiet
  BY <1>0, <1>1 DEF Quiet, Held, Admit, coord
<1>2. ASSUME Supersede(r), row' = row
      PROVE  Quiet
  BY <1>0, <1>1, <1>2, FinalizeHolds DEF Supersede, Quiet, Held
<1>3. CASE TakeTurn(r) \/ CancelNext(r) \/ GraceOver(r)
  BY <1>1, <1>2, <1>3 DEF TakeTurn, CancelNext, GraceOver, BeginFrame
<1>4. CASE \E m \in Multitask : Begin(r, m)
  BY <1>0, <1>4 DEF Begin, Quiet, Held, coord
<1>5. CASE CreateFails(r) \/ BeginReturns(r)
  BY <1>0, <1>5 DEF CreateFails, BeginReturns, Quiet, Held, coord
<1>6. QED
  BY <1>3, <1>4, <1>5

\* Stops write no row themselves: finalize does, later.
LEMMA QuietStops ==
  ASSUME IInv, \/ \E s \in Sessions : StopSession(s) \/ StopAll(s)
               \/ \E r \in Runs : StopRun(r)
  PROVE  Quiet
<1>1. ASSUME NEW S, Finalize(S, "aborted"), StopFrame
      PROVE  Quiet
  BY <1>1, FinalizeHolds DEF Quiet, Held, StopFrame
<1>2. QED
  BY <1>1 DEF StopSession, StopAll, StopRun

\* The run is opened: its row was held by `begin` until here.
LEMMA QuietOpen ==
  ASSUME IInv, NEW r \in Runs,
         OpenSuperseded(r) \/ OpenAndStart(r) \/ OpenQueued(r)
  PROVE  Quiet
<1>0. /\ phase \in [Runs -> Phases]
      /\ status \in [Runs -> Active \cup {"absent"}]
      /\ fin \in [Runs -> Ending]
  BY DEF IInv, TypeOK
<1>1. CASE OpenSuperseded(r)
  BY <1>0, <1>1 DEF OpenSuperseded, FinalizeIn, Quiet, Held
<1>2. CASE OpenAndStart(r)
  BY <1>0, <1>2 DEF OpenAndStart, Quiet, Held
<1>3. CASE OpenQueued(r)
  <2> DEFINE opened == [status EXCEPT ![r] = "queued"]
  <2>1. opened \in [Runs -> Active \cup {"absent"}]
    BY <1>0 DEF Active
  <2>2. Take(NextQueued(SessionOf[r], opened), opened)
    BY <1>3 DEF OpenQueued
  <2>3. \A x \in Runs : status'[x] # "absent" => opened[x] # "absent"
    BY <2>1, <2>2, TakeHolds
  <2>4. \A x \in Runs : opened[x] # "absent" => Held(x)
    BY <1>0, <1>3 DEF OpenQueued, Held
  <2>5. \A x \in Runs : fin'[x] = fin[x] /\ (phase'[x] = "created" => phase[x] = "created")
    BY <1>0, <1>3 DEF OpenQueued
  <2>6. row' = row
    BY <1>3 DEF OpenQueued
  <2>7. QED
    BY <2>3, <2>4, <2>5, <2>6 DEF Quiet, Held
<1>4. QED
  BY <1>1, <1>2, <1>3

-----------------------------------------------------------------------------
(* Attempts, ends, the boot scan *)

\* Attempts write a row only where they dequeue, defer or resume.
LEMMA QuietAttempt ==
  ASSUME IInv, NEW r \in Runs,
         \/ DequeueFails(r) \/ EnterGraph(r) \/ AttemptCheckpoints(r)
         \/ \E out \in Terminal : AttemptEnds(r, out)
         \/ AttemptDefers(r) \/ DeferFails(r) \/ ResumeDue(r) \/ ResumeFails(r)
  PROVE  Quiet
<1>1. ASSUME NEW out, Finish(r, out), row' = row, phase' = phase
      PROVE  Quiet
  BY <1>1, FinalizeHolds DEF Finish, Quiet, Held
<1>2. ASSUME row' = row, status' = status, fin' = fin, phase' = phase
      PROVE  Quiet
  BY <1>2 DEF Quiet, Held
<1>3. QED
  BY <1>1, <1>2 DEF DequeueFails, EnterGraph, AttemptCheckpoints, AttemptEnds,
     AttemptDefers, DeferFails, ResumeDue, ResumeFails, RunFrame, begins, coord

\* What follows the close of a row, or its rejection, is quiet.
LEMMA QuietEnds ==
  ASSUME IInv, NEW r \in Runs,
         CloseRowFails(r) \/ StartNext(r) \/ FinalizeReturns(r)
  PROVE  Quiet
<1>0. /\ status \in [Runs -> Active \cup {"absent"}]
      /\ fin \in [Runs -> Ending]
  BY DEF IInv, TypeOK
<1>1. CASE CloseRowFails(r)
  BY <1>0, <1>1 DEF CloseRowFails, Forget, EndFrame, Quiet, Held
<1>2. CASE StartNext(r)
  <2>1. \A x \in Runs : status'[x] # "absent" => status[x] # "absent"
    BY <1>0, <1>2, TakeHolds DEF StartNext
  <2>2. QED
    BY <1>0, <1>2, <2>1 DEF StartNext, EndFrame, Quiet, Held
<1>3. CASE FinalizeReturns(r)
  BY <1>0, <1>3 DEF FinalizeReturns, EndFrame, Quiet, Held
<1>4. QED
  BY <1>1, <1>2, <1>3

\* So are a reset and the steps of the scan that store nothing.
LEMMA QuietBoot ==
  ASSUME IInv,
         \/ \E r \in Runs : ReopenQueued(r)
         \/ \E s \in Sessions : BootDequeue(s)
         \/ BootDone \/ RecoverFails \/ Crash
  PROVE  Quiet
<1>0. /\ status \in [Runs -> Active \cup {"absent"}]
      /\ phase \in [Runs -> Phases]
      /\ orphans \subseteq Runs
      /\ arrival \in [Runs -> Nat]
  BY DEF IInv, TypeOK
<1>1. ASSUME NEW r \in Runs, ReopenQueued(r)
      PROVE  Quiet
  <2>1. r \in orphans
    BY <1>0, <1>1, FirstIsMember DEF ReopenQueued, NextOrphan
  <2>2. QED
    BY <1>0, <1>1, <2>1 DEF ReopenQueued, BootFrame, begins, Quiet, Held
<1>2. ASSUME NEW s \in Sessions, BootDequeue(s)
      PROVE  Quiet
  <2>1. \A x \in Runs : status'[x] # "absent" => status[x] # "absent"
    BY <1>0, <1>2, TakeHolds DEF BootDequeue
  <2>2. QED
    BY <1>2, <2>1 DEF BootDequeue, begins, Quiet, Held
<1>3. CASE BootDone \/ RecoverFails
  BY <1>3 DEF BootDone, RecoverFails, begins, coord, Quiet, Held
<1>4. CASE Crash
  BY <1>0, <1>4 DEF Crash, Quiet, Held, Waiting
<1>5. QED
  BY <1>1, <1>2, <1>3, <1>4

-----------------------------------------------------------------------------
(* The steps that write a row *)

\* A step writes the row of r only, keeps it active unless it lets go of r, and
\* takes hold of no other run.
Writes(r) ==
  /\ row[r].status \notin Terminal
  /\ row'[r].status \in Active \/ ~Held(r)'
  /\ \A x \in Runs \ {r} : row'[x] = row[x] /\ (Held(x)' => Held(x))

\* A write of an open row keeps every closed one.
LEMMA WritesKeep ==
  ASSUME RowsActive, NEW r \in Runs, Writes(r)
  PROVE  RowsActive' /\ RowsKept
  BY DEF Writes, RowsActive, RowsKept

\* No status is both active and terminal.
LEMMA ActiveIsOpen == \A x \in Active : x \notin Terminal
  BY DEF Active, Executing, Terminal

\* Every step that writes a row writes one that is open.
LEMMA RowWrites ==
  ASSUME IInv, RowsActive, NEW r \in Runs,
         CreateRow(r) \/ DequeueWrite(r) \/ DeferWrite(r) \/ ResumeWrite(r)
           \/ CloseRow(r) \/ CloseOrphan(r) \/ ScheduleOrphan(r)
  PROVE  Writes(r)
<1>0. /\ row \in [Runs -> Row]
      /\ status \in [Runs -> Active \cup {"absent"}]
      /\ phase \in [Runs -> Phases]
      /\ fin \in [Runs -> Ending]
      /\ arrival \in [Runs -> Nat]
      /\ orphans \subseteq Runs
  BY DEF IInv, TypeOK
<1>1. CASE CreateRow(r)
  <2>1. row[r].status = "absent"
    BY <1>1 DEF IInv, Untouched, Unrecorded, CreateRow
  <2>2. row'[r].status \in Active
    BY <1>0, <1>1 DEF CreateRow, NoRow, Active, Executing
  <2>3. QED
    BY <1>0, <1>1, <2>1, <2>2 DEF CreateRow, coord, Writes, Held, Terminal
<1>2. ASSUME work[r] # "none"
      PROVE  row[r].status \in Active
  BY <1>2 DEF IInv, InFlightWorks, RowsActive, Held, Executing
<1>3. ASSUME NEW out, Finish(r, out)
      PROVE  \A x \in Runs \ {r} : status'[x] = status[x] /\ fin'[x] = fin[x]
  BY <1>3 DEF Finish, Finalize, FinalizeIn
<1>4. CASE DequeueWrite(r)
  <2>1. row[r].status \in Active
    BY <1>2, <1>4 DEF DequeueWrite
  <2>2. row'[r].status \in Active
    BY <1>0, <1>4 DEF DequeueWrite, Active, Executing, Row
  <2>3. \A x \in Runs \ {r} : status'[x] = status[x] /\ fin'[x] = fin[x]
    BY <1>3, <1>4 DEF DequeueWrite
  <2>4. QED
    BY <1>0, <1>4, <2>1, <2>2, <2>3, ActiveIsOpen
    DEF DequeueWrite, RunFrame, begins, Writes, Held
<1>5. CASE DeferWrite(r)
  <2>1. row[r].status \in Active
    BY <1>2, <1>5 DEF DeferWrite
  <2>2. row'[r].status \in Active
    BY <1>0, <1>5 DEF DeferWrite, Active, Executing, Row
  <2>3. \A x \in Runs \ {r} : status'[x] = status[x] /\ fin'[x] = fin[x]
    BY <1>0, <1>3, <1>5 DEF DeferWrite
  <2>4. QED
    BY <1>0, <1>5, <2>1, <2>2, <2>3, ActiveIsOpen
    DEF DeferWrite, RunFrame, begins, Writes, Held
<1>6. CASE ResumeWrite(r)
  <2>1. row[r].status \in Active
    BY <1>2, <1>6 DEF ResumeWrite, ResumeRow
  <2>2. row'[r].status \in Active
    BY <1>0, <1>6 DEF ResumeWrite, ResumeRow, Active, Executing, Row
  <2>3. \A x \in Runs \ {r} : status'[x] = status[x] /\ fin'[x] = fin[x]
    BY <1>0, <1>3, <1>6 DEF ResumeWrite, ResumeRow
  <2>4. QED
    BY <1>0, <1>6, <2>1, <2>2, <2>3, ActiveIsOpen
    DEF ResumeWrite, ResumeRow, RunFrame, begins, Writes, Held
<1>7. CASE CloseRow(r)
  <2>1. row[r].status \in Active
    BY <1>7 DEF CloseRow, RowsActive, Held
  <2>2. status[r] = "absent" /\ phase[r] # "created"
    BY <1>7 DEF CloseRow, IInv, InFlightWorks, Untouched
  <2>3. QED
    BY <1>0, <1>7, <2>1, <2>2, ActiveIsOpen DEF CloseRow, Forget, EndFrame, Writes, Held
<1>8. CASE CloseOrphan(r) \/ ScheduleOrphan(r)
  <2>1. row[r].status \in Active
    BY <1>8 DEF CloseOrphan, ScheduleOrphan, Active
  <2>2. CASE CloseOrphan(r)
    <3>1. row'[r].status \in Active
      BY <1>0, <2>1, <2>2 DEF CloseOrphan, Row
    <3>2. \A x \in Runs \ {r} : status'[x] = status[x] /\ fin'[x] = fin[x]
      BY <1>0, <2>2 DEF CloseOrphan, FinalizeIn
    <3>3. QED
      BY <1>0, <2>1, <2>2, <3>1, <3>2, ActiveIsOpen
      DEF CloseOrphan, BootFrame, begins, Writes, Held
  <2>3. CASE ScheduleOrphan(r)
    <3>1. row'[r].status \in Active
      BY <1>0, <2>3 DEF ScheduleOrphan, Row, Active, Executing
    <3>2. QED
      BY <1>0, <2>1, <2>3, <3>1, ActiveIsOpen
      DEF ScheduleOrphan, BootFrame, begins, Writes, Held
  <2>4. QED
    BY <1>8, <2>2, <2>3
<1>9. QED
  BY <1>1, <1>4, <1>5, <1>6, <1>7, <1>8

-----------------------------------------------------------------------------
(* The theorem *)

\* RowsActive is inductive over IInv, and no step writes a closed row.
LEMMA RowStep == IInv /\ RowsActive /\ [Next]_vars => RowsActive' /\ RowsKept
<1> SUFFICES ASSUME IInv, RowsActive, [Next]_vars
             PROVE  RowsActive' /\ RowsKept
  OBVIOUS
<1>1. CASE UNCHANGED vars
  BY <1>1, QuietKeeps DEF vars, begins, coord, Quiet, Held
<1>2. CASE UserStep
  BY <1>2, QuietBegin, QuietStops, QuietKeeps DEF UserStep
<1>3. ASSUME NEW r \in Runs, BeginStep(r)
      PROVE  RowsActive' /\ RowsKept
  BY <1>3, QuietBegin, QuietOpen, QuietKeeps, RowWrites, WritesKeep DEF BeginStep
<1>4. ASSUME NEW r \in Runs, RunStep(r) \/ AttemptCheckpoints(r)
      PROVE  RowsActive' /\ RowsKept
  BY <1>4, QuietAttempt, QuietEnds, QuietKeeps, RowWrites, WritesKeep DEF RunStep
<1>5. CASE BootStep \/ Crash
  BY <1>5, QuietBoot, QuietKeeps, RowWrites, WritesKeep DEF BootStep
<1>6. CASE StoreFault
  BY <1>6, QuietBegin, QuietAttempt, QuietEnds, QuietBoot, QuietKeeps DEF StoreFault
<1>7. CASE Idle
  BY <1>1, <1>7 DEF Idle
<1>8. QED
  BY <1>1, <1>2, <1>3, <1>4, <1>5, <1>6, <1>7 DEF Next

\* A row of `turn_runs` that was closed is never written again: no late
\* deferral, dequeue, resume or recovery revives a run reported as over
\* (startAttempt, defer, startNextQueued, resumeDue, recoverOrphans).
THEOREM ClosedRowsStay == Spec => TerminalIsFinal
<1>1. IInv /\ RowsActive /\ [Next]_vars =>
        [\A r \in Runs : row[r].status \in Terminal => row'[r] = row[r]]_vars
  BY RowStep DEF RowsKept
<1>2. IInv /\ RowsActive /\ IInv' /\ [Next]_vars => RowsActive'
  BY RowStep
<1>3. QED
  BY <1>1, <1>2, InitActive, Inductive, PTL DEF Spec, TerminalIsFinal

-----------------------------------------------------------------------------
(* No active row is forgotten *)

\* Something in memory is going to end r, or the scan to visit it.
Watched(r) ==
  r \in live \cup orphans \/ fin[r] = "closing" \/ phase[r] = "created"

\* What a step must do to leave no active row behind: a row it makes active is
\* watched, and one it stops watching is not active.
WatchKept ==
  /\ \A r \in Runs : row'[r].status \in Active => row[r].status \in Active \/ Watched(r)'
  /\ \A r \in Runs : Watched(r) => Watched(r)' \/ row'[r].status \notin Active
  /\ storeErrors' = storeErrors

\* Such a step keeps every active row in somebody's hands.
LEMMA WatchKeeps ==
  ASSUME ActiveRowsAreHeld, WatchKept
  PROVE  ActiveRowsAreHeld'
<1> SUFFICES ASSUME storeErrors' = 0, NEW r \in Runs, row'[r].status \in Active
             PROVE  Watched(r)'
  BY DEF ActiveRowsAreHeld, Watched
<1>1. storeErrors = 0
  BY DEF WatchKept
<1>2. row[r].status \in Active => Watched(r)
  BY <1>1 DEF ActiveRowsAreHeld, Watched
<1>3. QED
  BY <1>2 DEF WatchKept

\* A rejected write is one the claim excludes.
LEMMA FaultsKeep ==
  ASSUME IInv, StoreError
  PROVE  ActiveRowsAreHeld'
  BY DEF IInv, TypeOK, StoreError, ActiveRowsAreHeld

\* A run that finalize ends leaves the live map to be closed.
LEMMA FinalizeWatches ==
  ASSUME IInv, NEW st, NEW S, NEW out, FinalizeIn(st, S, out)
  PROVE  \A x \in Runs : /\ fin[x] = "closing" => fin'[x] = "closing"
                         /\ st[x] # "absent" => x \in live' \/ fin'[x] = "closing"
  BY DEF IInv, TypeOK, FinalizeIn, live

\* A dequeue takes no run out of the live map.
LEMMA TakeWatches ==
  ASSUME NEW q, NEW st, Take(q, st)
  PROVE  \A x \in Runs : st[x] # "absent" => x \in live'
  BY DEF Take, live

\* begin and the stops.
LEMMA WatchBegin ==
  ASSUME IInv, NEW r \in Runs,
         \/ \E m \in Multitask : Begin(r, m)
         \/ BeginStep(r) \/ StopRun(r)
         \/ \E s \in Sessions : StopSession(s) \/ StopAll(s)
  PROVE  WatchKept
<1>0. /\ phase \in [Runs -> Phases]
      /\ status \in [Runs -> Active \cup {"absent"}]
      /\ fin \in [Runs -> Ending]
  BY DEF IInv, TypeOK
<1>1. ASSUME NEW S, NEW out, Finalize(S, out), UNCHANGED <<row, orphans, storeErrors>>,
             \A x \in Runs : phase[x] = "created" => phase'[x] = "created"
      PROVE  WatchKept
  BY <1>1, FinalizeWatches DEF Finalize, WatchKept, Watched, live
<1>2. ASSUME NEW decision, Admit(r, decision), phase[r] # "created",
             UNCHANGED <<row, orphans, storeErrors>>
      PROVE  WatchKept
  BY <1>0, <1>2 DEF WatchKept, Watched, live, Admit, coord
<1>3. ASSUME Supersede(r), phase[r] # "created", UNCHANGED <<row, orphans, storeErrors>>
      PROVE  WatchKept
  BY <1>0, <1>1, <1>2, <1>3 DEF Supersede
<1>4. CASE TakeTurn(r) \/ CancelNext(r) \/ GraceOver(r)
  BY <1>2, <1>3, <1>4 DEF TakeTurn, CancelNext, GraceOver, BeginFrame, booting, faults
<1>5. CASE \E m \in Multitask : Begin(r, m)
  BY <1>0, <1>5 DEF Begin, WatchKept, Watched, live, coord, booting, faults
<1>6. CASE CreateRow(r)
  <2>1. \A x \in Runs \ {r} : row'[x] = row[x] /\ phase'[x] = phase[x]
    BY <1>0, <1>6 DEF CreateRow, IInv, TypeOK
  <2>2. phase'[r] = "created"
    BY <1>0, <1>6 DEF CreateRow
  <2>3. QED
    BY <1>6, <2>1, <2>2 DEF CreateRow, WatchKept, Watched, live, coord, booting, faults
<1>7. CASE OpenSuperseded(r)
  <2> DEFINE opened == [status EXCEPT ![r] = "queued"]
  <2>1. FinalizeIn(opened, {r}, "aborted")
    BY <1>7 DEF OpenSuperseded
  <2>2. opened[r] # "absent" /\ \A x \in Runs \ {r} : opened[x] = status[x]
    BY <1>0
  <2> HIDE DEF opened
  <2>3. \A x \in Runs : Watched(x) => Watched(x)'
    BY <1>0, <1>7, <2>1, <2>2, FinalizeWatches DEF OpenSuperseded, Watched, live, booting
  <2>4. QED
    BY <1>7, <2>3 DEF OpenSuperseded, WatchKept, faults
<1>8. CASE OpenAndStart(r)
  BY <1>0, <1>8 DEF OpenAndStart, WatchKept, Watched, live, booting, faults
<1>9. CASE OpenQueued(r)
  <2> DEFINE opened == [status EXCEPT ![r] = "queued"]
  <2>1. Take(NextQueued(SessionOf[r], opened), opened)
    BY <1>9 DEF OpenQueued
  <2>2. opened[r] # "absent" /\ \A x \in Runs \ {r} : opened[x] = status[x]
    BY <1>0
  <2> HIDE DEF opened
  <2>3. \A x \in Runs : Watched(x) => Watched(x)'
    BY <1>0, <1>9, <2>1, <2>2, TakeWatches DEF OpenQueued, Watched, live, booting
  <2>4. QED
    BY <1>9, <2>3 DEF OpenQueued, WatchKept, faults
<1>10. CASE BeginReturns(r)
  BY <1>0, <1>10 DEF BeginReturns, WatchKept, Watched, live, coord, booting, faults
<1>11. CASE StopRun(r) \/ (\E s \in Sessions : StopSession(s) \/ StopAll(s))
  BY <1>1, <1>11 DEF StopSession, StopAll, StopRun, StopFrame, booting, faults
<1>12. QED
  BY <1>4, <1>5, <1>6, <1>7, <1>8, <1>9, <1>10, <1>11 DEF BeginStep

\* Attempts, deferrals and resumes: the run stays in the live map, or is closed.
LEMMA WatchAttempt ==
  ASSUME IInv, NEW r \in Runs,
         \/ DequeueWrite(r) \/ EnterGraph(r) \/ AttemptCheckpoints(r)
         \/ \E out \in Terminal : AttemptEnds(r, out)
         \/ AttemptDefers(r) \/ DeferWrite(r) \/ ResumeDue(r) \/ ResumeWrite(r)
  PROVE  WatchKept
<1>0. /\ status \in [Runs -> Active \cup {"absent"}]
      /\ row \in [Runs -> Row]
      /\ work[r] # "none" => r \in live
  BY DEF IInv, TypeOK, InFlightWorks, Executing, live
<1>1. ASSUME \A x \in Runs \ {r} : row'[x] = row[x],
             row' = row \/ r \in live,
             UNCHANGED <<orphans, storeErrors, phase>>,
             \/ \E out : Finish(r, out)
             \/ fin' = fin /\ \A x \in Runs : status[x] # "absent" => status'[x] # "absent"
      PROVE  WatchKept
  <2>1. \A x \in Runs : /\ x \in live => x \in live' \/ fin'[x] = "closing"
                        /\ fin[x] = "closing" => fin'[x] = "closing"
    BY <1>1, FinalizeWatches DEF Finish, Finalize, live
  <2>2. QED
    BY <1>1, <2>1 DEF WatchKept, Watched
<1>2. CASE DequeueWrite(r)
  BY <1>0, <1>1, <1>2 DEF DequeueWrite, RunFrame, begins, booting, faults
<1>3. CASE DeferWrite(r)
  BY <1>0, <1>1, <1>3 DEF DeferWrite, RunFrame, begins, booting, faults
<1>4. CASE ResumeWrite(r)
  BY <1>0, <1>1, <1>4 DEF ResumeWrite, ResumeRow, RunFrame, begins, booting, faults
<1>5. CASE EnterGraph(r) \/ ResumeDue(r) \/ AttemptCheckpoints(r)
  BY <1>1, <1>5 DEF EnterGraph, ResumeDue, AttemptCheckpoints, RunFrame, begins, booting,
     coord, faults
<1>6. CASE AttemptDefers(r) \/ \E out \in Terminal : AttemptEnds(r, out)
  BY <1>1, <1>6 DEF AttemptDefers, AttemptEnds, RunFrame, begins, booting, faults
<1>7. QED
  BY <1>2, <1>3, <1>4, <1>5, <1>6

\* The end of a run and the boot scan.
LEMMA WatchEnds ==
  ASSUME IInv,
         \/ \E r \in Runs : \/ CloseRow(r) \/ StartNext(r) \/ FinalizeReturns(r)
                            \/ ReopenQueued(r) \/ CloseOrphan(r) \/ ScheduleOrphan(r)
         \/ \E s \in Sessions : BootDequeue(s)
         \/ BootDone
  PROVE  WatchKept
<1>0. /\ status \in [Runs -> Active \cup {"absent"}]
      /\ row \in [Runs -> Row]
      /\ fin \in [Runs -> Ending]
      /\ \A x \in Runs : fin[x] = "closing" => outcome[x] \in Terminal
  BY DEF IInv, TypeOK
<1>1. ASSUME NEW r \in Runs, CloseRow(r)
      PROVE  WatchKept
  <2>1. row'[r].status \notin Active /\ \A x \in Runs \ {r} : row'[x] = row[x] /\ fin'[x] = fin[x]
    BY <1>0, <1>1, ActiveIsOpen DEF CloseRow, Forget, Row
  <2>2. QED
    BY <1>1, <2>1 DEF CloseRow, Forget, EndFrame, booting, WatchKept, Watched, live
<1>2. ASSUME NEW r \in Runs, StartNext(r)
      PROVE  WatchKept
  BY <1>0, <1>2, TakeWatches DEF StartNext, EndFrame, booting, WatchKept, Watched, live
<1>3. ASSUME NEW r \in Runs, FinalizeReturns(r)
      PROVE  WatchKept
  BY <1>0, <1>3 DEF FinalizeReturns, EndFrame, booting, WatchKept, Watched, live
<1>4. ASSUME NEW r \in Runs, ReopenQueued(r)
      PROVE  WatchKept
  BY <1>0, <1>4 DEF ReopenQueued, NextOrphan, BootFrame, begins, faults, WatchKept, Watched, live
<1>5. ASSUME NEW r \in Runs, CloseOrphan(r)
      PROVE  WatchKept
  <2> DEFINE opened == [status EXCEPT ![r] = row[r].status]
  <2>1. FinalizeIn(opened, {r}, "interrupted")
    BY <1>5 DEF CloseOrphan
  <2>2. /\ opened[r] # "absent"
        /\ \A x \in Runs \ {r} : opened[x] = status[x] /\ row'[x] = row[x]
        /\ row[r].status \in Active
    BY <1>0, <1>5 DEF CloseOrphan, Executing, Active
  <2> HIDE DEF opened
  <2>3. \A x \in Runs : Watched(x) => Watched(x)'
    BY <1>0, <1>5, <2>1, <2>2, FinalizeWatches
    DEF CloseOrphan, NextOrphan, BootFrame, begins, Watched, live
  <2>4. QED
    BY <1>5, <2>2, <2>3 DEF CloseOrphan, BootFrame, faults, WatchKept
<1>6. ASSUME NEW r \in Runs, ScheduleOrphan(r)
      PROVE  WatchKept
  <2>1. r \in live' /\ \A x \in Runs \ {r} : row'[x] = row[x] /\ status'[x] = status[x]
    BY <1>0, <1>6 DEF ScheduleOrphan, live
  <2>2. QED
    BY <1>6, <2>1
    DEF ScheduleOrphan, NextOrphan, BootFrame, begins, faults, WatchKept, Watched, live
<1>7. ASSUME NEW s \in Sessions, BootDequeue(s)
      PROVE  WatchKept
  BY <1>7, TakeWatches DEF BootDequeue, begins, faults, WatchKept, Watched, live
<1>8. CASE BootDone
  BY <1>8 DEF BootDone, begins, coord, faults, WatchKept, Watched, live
<1>9. QED
  BY <1>1, <1>2, <1>3, <1>4, <1>5, <1>6, <1>7, <1>8

\* ActiveRowsAreHeld is inductive over IInv.
LEMMA HeldStep == IInv /\ ActiveRowsAreHeld /\ [Next]_vars => ActiveRowsAreHeld'
<1> SUFFICES ASSUME IInv, ActiveRowsAreHeld, [Next]_vars
             PROVE  ActiveRowsAreHeld'
  OBVIOUS
<1>1. CASE UNCHANGED vars \/ Idle
  BY <1>1, WatchKeeps DEF Idle, vars, begins, coord, booting, faults, WatchKept, Watched, live
<1>2. CASE UserStep
  <2>1. ASSUME NEW s \in Sessions, StopSession(s) \/ StopAll(s)
        PROVE  ActiveRowsAreHeld'
    <3>1. PICK r \in Runs : SessionOf[r] = s
      BY <2>1 DEF StopSession, StopAll, PendingBegins, LiveOf, live
    <3>2. QED
      BY <2>1, WatchBegin, WatchKeeps
  <2>2. QED
    BY <1>2, <2>1, WatchBegin, WatchKeeps DEF UserStep
<1>3. ASSUME NEW r \in Runs, BeginStep(r)
      PROVE  ActiveRowsAreHeld'
  BY <1>3, WatchBegin, WatchKeeps
<1>4. ASSUME NEW r \in Runs, RunStep(r) \/ AttemptCheckpoints(r)
      PROVE  ActiveRowsAreHeld'
  BY <1>4, WatchAttempt, WatchEnds, WatchKeeps DEF RunStep
<1>5. CASE BootStep
  BY <1>5, WatchEnds, WatchKeeps DEF BootStep
<1>6. CASE Crash
  BY <1>6 DEF Crash, ListActive, ActiveRowsAreHeld
<1>7. CASE StoreFault
  BY <1>7, FaultsKeep DEF StoreFault, CreateFails, DequeueFails, DeferFails, CloseRowFails,
     ResumeFails, RecoverFails
<1>8. QED
  BY <1>1, <1>2, <1>3, <1>4, <1>5, <1>6, <1>7 DEF Next

\* As long as no write was rejected, every row of `turn_runs` that is active is
\* in the live map, being opened or closed, or waiting for the boot scan: no
\* run stays busy for ever because nothing was going to end it (begin,
\* finalize, recoverOrphans).
THEOREM ActiveRowsHeld == Spec => []ActiveRowsAreHeld
<1>1. Init => ActiveRowsAreHeld
  BY DEF Init, ActiveRowsAreHeld, NoRow, Active, Executing
<1>2. QED
  BY <1>1, HeldStep, Inductive, PTL DEF Spec

================================================================================
