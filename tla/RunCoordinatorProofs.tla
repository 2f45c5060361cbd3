------------------------- MODULE RunCoordinatorProofs -------------------------
(***************************************************************************)
(* Theorems about RunCoordinator, for every set of runs and sessions and   *)
(* every value of the caps and bounds.                                     *)
(***************************************************************************)
EXTENDS RunCoordinator, WellFoundedInduction, TLAPS

-----------------------------------------------------------------------------
(* The order of the live map *)

\* Every nonempty set of naturals has a least element.
LEMMA LeastNat ==
  ASSUME NEW T, T \subseteq Nat, T # {}
  PROVE  \E x \in T : \A y \in T : x <= y
<1> DEFINE R == {ss \in Nat \X Nat : ss[1] < ss[2]}
<1>1. R = OpToRel(<, Nat)
  BY DEF OpToRel
<1>2. IsWellFoundedOn(R, Nat)
  BY <1>1, NatLessThanWellFounded
<1>3. PICK x \in T : \A y \in T : ~(<<y, x>> \in R)
  BY <1>2, WFMin
<1>4. ASSUME NEW y \in T, y < x
      PROVE  FALSE
  <2>1. <<y, x>> \in R
    BY <1>4
  <2>2. QED
    BY <2>1, <1>3
<1>5. QED
  BY <1>4

\* First picks a member of the set: the earliest by arrival.
LEMMA FirstIsMember ==
  ASSUME arrival \in [Runs -> Nat], NEW S, S \subseteq Runs, S # {}
  PROVE  /\ First(S) \in S
         /\ \A x \in S : arrival[First(S)] <= arrival[x]
<1> DEFINE T == {arrival[x] : x \in S}
<1>1. T \subseteq Nat /\ T # {}
  OBVIOUS
<1>2. PICK m \in T : \A y \in T : m <= y
  BY <1>1, LeastNat
<1>3. QED
  BY <1>2 DEF First

\* What startNextQueued takes is a queued run of an otherwise idle session.
LEMMA NextQueuedIsIdle ==
  ASSUME arrival \in [Runs -> Nat], NEW s, NEW st,
         NextQueued(s, st) # NoRun
  PROVE  /\ NextQueued(s, st) \in Runs
         /\ SessionOf[NextQueued(s, st)] = s
         /\ st[NextQueued(s, st)] = "queued"
         /\ \A r \in Runs : SessionOf[r] = s => st[r] \notin Executing
<1> DEFINE ready == {r \in Runs : SessionOf[r] = s /\ st[r] = "queued"}
<1>1. ready # {} /\ NextQueued(s, st) = First(ready)
  BY DEF NextQueued
<1>2. First(ready) \in ready
  BY <1>1, FirstIsMember
<1>3. QED
  BY <1>1, <1>2 DEF NextQueued

-----------------------------------------------------------------------------
(* Type correctness *)

\* The empty object is well typed.
LEMMA InitType == Init => TypeOK
  BY RunsAssumption DEF Init, TypeOK, NoRow, Row, Active, Executing, Terminal,
     Rules, Multitask, Decision, Phases, Waiting, Work, Ending

\* Types of the values the steps compute.
LEMMA HelperTypes ==
  ASSUME TypeOK, NEW r \in Runs
  PROVE  /\ Spent(r, cp[SessionOf[r]]) \in Nat
         /\ SessionOf[r] \in Sessions
         /\ cp[SessionOf[r]] \in Nat
         /\ row[r] \in Row
  BY RunsAssumption DEF TypeOK, Spent, Row

\* A message arrives: the new `begin` is typed.
LEMMA TypeBegin ==
  ASSUME TypeOK, NEW r \in Runs, NEW m \in Multitask, Begin(r, m)
  PROVE  TypeOK'
  BY DEF TypeOK, Begin, PendingBegins, Phases, Waiting, Rules, coord, booting,
     faults, history

\* Ending some of the runs of a live map, up to the first await.
LEMMA TypeFinalizeIn ==
  ASSUME TypeOK, NEW st \in [Runs -> Active \cup {"absent"}], NEW S,
         NEW out \in Terminal, FinalizeIn(st, S, out)
  PROVE  /\ status' \in [Runs -> Active \cup {"absent"}]
         /\ fin' \in [Runs -> Ending]
         /\ outcome' \in [Runs -> Terminal \cup {"none"}]
         /\ \A r \in Runs : fin'[r] = "closing" => outcome'[r] \in Terminal
  BY DEF TypeOK, FinalizeIn, Ending

\* An attempt ends its run, or finds it ended already.
LEMMA TypeFinish ==
  ASSUME TypeOK, NEW r \in Runs, NEW out \in Terminal, Finish(r, out)
  PROVE  /\ status' \in [Runs -> Active \cup {"absent"}]
         /\ inFlight' \subseteq Runs
         /\ work' \in [Runs -> Work]
         /\ fin' \in [Runs -> Ending]
         /\ outcome' \in [Runs -> Terminal \cup {"none"}]
         /\ \A x \in Runs : fin'[x] = "closing" => outcome'[x] \in Terminal
<1>1. status \in [Runs -> Active \cup {"absent"}]
  BY DEF TypeOK
<1>2. QED
  BY <1>1, TypeFinalizeIn DEF TypeOK, Finish, Finalize, Work

\* startNextQueued starts a queued run, or none.
LEMMA TypeTake ==
  ASSUME TypeOK, NEW q \in Runs \cup {NoRun},
         NEW st \in [Runs -> Active \cup {"absent"}], Take(q, st)
  PROVE  /\ status' \in [Runs -> Active \cup {"absent"}]
         /\ inFlight' \subseteq Runs
         /\ work' \in [Runs -> Work]
  BY DEF TypeOK, Take, Active, Executing, Work

\* The sets of runs the steps filter are sets of runs.
LEMMA SetsOfRuns ==
  ASSUME NEW s
  PROVE  /\ QueuedOf(s) \subseteq Runs /\ ExecutingOf(s) \subseteq Runs
         /\ LiveOf(s) \subseteq Runs /\ PendingBegins(s) \subseteq Runs
         /\ Behind(s) \subseteq Runs
  BY DEF QueuedOf, ExecutingOf, LiveOf, live, PendingBegins, Behind

\* The interrupt rule: `begin` ends the runs its message supersedes.
LEMMA TypeSupersede ==
  ASSUME TypeOK, NEW r \in Runs, Supersede(r),
         UNCHANGED <<row, cp, sent, arrival, superseded, alarm, booting, faults,
                     history>>
  PROVE  TypeOK'
<1> DEFINE s == SessionOf[r]
           q == First(QueuedOf(s))
           x == First(ExecutingOf(s))
<1>1. QueuedOf(s) # {} => q \in Runs
  BY SetsOfRuns, FirstIsMember DEF TypeOK
<1>2. ExecutingOf(s) # {} => x \in Runs
  BY SetsOfRuns, FirstIsMember DEF TypeOK
<1>3. "aborted" \in Terminal /\ status \in [Runs -> Active \cup {"absent"}]
  BY DEF Terminal, TypeOK
<1>4. CASE /\ QueuedOf(s) # {}
           /\ FinalizeIn(status, {q}, "aborted")
           /\ phase' = [phase EXCEPT ![r] = "cancelling"]
           /\ awaits' = [awaits EXCEPT ![r] = q]
           /\ UNCHANGED <<rule, inFlight, aborted, resumed, work, took>>
  <2> HIDE DEF s, q, x
  <2>1. QED
    BY <1>1, <1>3, <1>4, TypeFinalizeIn DEF TypeOK, Phases, Waiting, booting, faults,
       history
<1>5. CASE /\ ExecutingOf(s) # {}
           /\ aborted' = aborted \cup {x}
           /\ FinalizeIn(status, Closable({x}), "aborted")
           /\ phase' = [phase EXCEPT ![r] = "grace"]
           /\ awaits' = [awaits EXCEPT ![r] = NoRun]
           /\ UNCHANGED <<rule, inFlight, resumed, work, took>>
  <2> HIDE DEF s, q, x
  <2>1. QED
    BY <1>2, <1>3, <1>5, TypeFinalizeIn DEF TypeOK, Phases, Waiting, booting, faults,
       history
<1>6. CASE Admit(r, "start")
  BY <1>6 DEF TypeOK, Admit, Phases, Waiting, Rules, Decision, coord, booting,
     faults, history
<1>7. QED
  BY <1>4, <1>5, <1>6 DEF Supersede, Finalize

\* `begin` gets its turn, or comes back from cancelling a queued run.
LEMMA TypeTurn ==
  ASSUME TypeOK, NEW r \in Runs, TakeTurn(r) \/ CancelNext(r) \/ GraceOver(r)
  PROVE  TypeOK'
<1>1. CASE Supersede(r) /\ BeginFrame
  BY <1>1, TypeSupersede DEF BeginFrame
<1>2. CASE BeginFrame /\ \E d \in Decision : Admit(r, d)
  BY <1>2 DEF TypeOK, Admit, BeginFrame, Phases, Waiting, Rules, coord, booting,
     faults, history
<1>3. QED
  BY <1>1, <1>2 DEF TakeTurn, CancelNext, GraceOver, Decision

\* The insert of the run's row, stored or rejected.
LEMMA TypeCreate ==
  ASSUME TypeOK, NEW r \in Runs, CreateRow(r) \/ CreateFails(r)
  PROVE  TypeOK'
<1>1. cp[SessionOf[r]] \in Nat
  BY HelperTypes
<1>2. CASE CreateRow(r)
  BY <1>1, <1>2 DEF TypeOK, CreateRow, NoteOverlap, Phases, Waiting, Row, NoRow,
     Active, Executing, coord, booting, faults
<1>3. CASE CreateFails(r)
  BY <1>3 DEF TypeOK, CreateFails, StoreError, Phases, Waiting, Rules, coord,
     booting, history
<1>4. QED
  BY <1>2, <1>3

\* `begin` opens the run in the live map and returns.
LEMMA TypeOpen ==
  ASSUME TypeOK, NEW r \in Runs,
         OpenSuperseded(r) \/ OpenAndStart(r) \/ OpenQueued(r) \/ BeginReturns(r)
  PROVE  TypeOK'
<1> DEFINE opened == [status EXCEPT ![r] = "queued"]
           next   == NextQueued(SessionOf[r], opened)
<1>1. opened \in [Runs -> Active \cup {"absent"}] /\ "aborted" \in Terminal
  BY DEF TypeOK, Active, Terminal
<1>2. CASE OpenSuperseded(r)
  BY <1>1, <1>2, TypeFinalizeIn DEF TypeOK, OpenSuperseded, Phases, Waiting, booting,
     faults, history
<1>3. CASE OpenAndStart(r)
  BY <1>3 DEF TypeOK, OpenAndStart, Phases, Active, Executing, Work, booting,
     faults, history
<1>4. CASE OpenQueued(r)
  <2>1. next \in Runs \cup {NoRun}
    BY NextQueuedIsIdle DEF TypeOK
  <2>2. /\ Take(next, opened)
        /\ awaits' = [awaits EXCEPT ![r] = next]
        /\ phase' = [phase EXCEPT ![r] = "returning"]
        /\ UNCHANGED <<row, cp, sent, arrival, rule, superseded, aborted, resumed,
                       fin, outcome, took, alarm, booting, faults, history>>
    BY <1>4 DEF OpenQueued
  <2> HIDE DEF opened, next
  <2>3. QED
    BY <1>1, <2>1, <2>2, TypeTake DEF TypeOK, Phases, Waiting, booting, faults,
       history
<1>5. CASE BeginReturns(r)
  BY <1>5 DEF TypeOK, BeginReturns, Phases, coord, booting, faults, history
<1>6. QED
  BY <1>2, <1>3, <1>4, <1>5

\* The stops of a run, a session and a session with its queue.
LEMMA TypeStop ==
  ASSUME TypeOK, \/ \E s \in Sessions : StopSession(s) \/ StopAll(s)
                 \/ \E r \in Runs : StopRun(r)
  PROVE  TypeOK'
<1>1. "aborted" \in Terminal /\ status \in [Runs -> Active \cup {"absent"}]
  BY DEF Terminal, TypeOK
<1>2. ASSUME NEW s \in Sessions, StopSession(s)
      PROVE  TypeOK'
  <2>1. /\ superseded' = superseded \cup PendingBegins(s)
        /\ \E h : aborted' = aborted \cup (h \cap ExecutingOf(s))
        /\ \E S : FinalizeIn(status, S, "aborted")
        /\ StopFrame
    BY <1>2 DEF StopSession, Finalize
  <2>2. QED
    BY <1>1, <2>1, SetsOfRuns, TypeFinalizeIn DEF TypeOK, StopFrame, booting, faults,
       history
<1>3. ASSUME NEW s \in Sessions, StopAll(s)
      PROVE  TypeOK'
  BY <1>1, <1>3, SetsOfRuns, TypeFinalizeIn DEF TypeOK, StopAll, Finalize,
     StopFrame, booting, faults, history
<1>4. ASSUME NEW r \in Runs, StopRun(r)
      PROVE  TypeOK'
  BY <1>1, <1>4, SetsOfRuns, TypeFinalizeIn DEF TypeOK, StopRun, Finalize,
     StopFrame, booting, faults, history
<1>5. QED
  BY <1>2, <1>3, <1>4

\* An attempt, from the dequeue's write to its end or deferral.
LEMMA TypeAttempt ==
  ASSUME TypeOK, NEW r \in Runs,
         \/ DequeueWrite(r) \/ DequeueFails(r) \/ EnterGraph(r)
         \/ AttemptCheckpoints(r) \/ (\E out \in Terminal : AttemptEnds(r, out))
         \/ AttemptDefers(r) \/ DeferWrite(r) \/ DeferFails(r)
  PROVE  TypeOK'
<1>1. /\ "aborted" \in Terminal /\ Unanswered(r) \in Terminal
      /\ cp[SessionOf[r]] \in Nat /\ row[r] \in Row
      /\ SessionOf[r] \in Sessions
  BY HelperTypes DEF Terminal, Unanswered
<1>2. CASE DequeueWrite(r)
  <2>1. row' \in [Runs -> Row]
    BY <1>1, <1>2 DEF TypeOK, DequeueWrite, Row, Active, Executing
  <2>2. QED
    BY <1>1, <1>2, <2>1, TypeFinish DEF TypeOK, DequeueWrite, NoteOverlap, RunFrame,
       Work, begins, booting, faults
<1>3. CASE DequeueFails(r)
  BY <1>1, <1>3, TypeFinish DEF TypeOK, DequeueFails, StoreError, RunFrame, begins,
     booting, history
<1>4. CASE EnterGraph(r)
  BY <1>4 DEF TypeOK, EnterGraph, RunFrame, Work, begins, booting, faults, history
<1>5. CASE AttemptCheckpoints(r)
  <2>1. cp' \in [Sessions -> Nat] /\ touched' \subseteq Runs
    BY <1>1, <1>5 DEF TypeOK, AttemptCheckpoints
  <2>2. QED
    BY <1>5, <2>1 DEF TypeOK, AttemptCheckpoints, coord, begins, booting, faults
<1>6. ASSUME NEW out \in Terminal, AttemptEnds(r, out)
      PROVE  TypeOK'
  BY <1>6, TypeFinish DEF TypeOK, AttemptEnds, RunFrame, begins, booting, faults,
     history
<1>7. CASE AttemptDefers(r)
  BY <1>1, <1>7, TypeFinish DEF TypeOK, AttemptDefers, RunFrame, Work, begins,
     booting, faults, history
<1>8. CASE DeferWrite(r)
  <2>1. row' \in [Runs -> Row]
    BY <1>1, <1>8 DEF TypeOK, DeferWrite, Row, Active, Executing
  <2>2. QED
    BY <1>1, <1>8, <2>1, TypeFinish DEF TypeOK, DeferWrite, RunFrame, Work, Active,
       Executing, begins, booting, faults, history
<1>9. CASE DeferFails(r)
  BY <1>1, <1>9, TypeFinish DEF TypeOK, DeferFails, StoreError, RunFrame, begins,
     booting, history
<1>10. QED
  BY <1>2, <1>3, <1>4, <1>5, <1>6, <1>7, <1>8, <1>9

\* finalize: close the row, start the next run, return.
LEMMA TypeFinalize ==
  ASSUME TypeOK, NEW r \in Runs,
         CloseRow(r) \/ CloseRowFails(r) \/ StartNext(r) \/ FinalizeReturns(r)
  PROVE  TypeOK'
<1> DEFINE next == NextQueued(SessionOf[r], status)
<1>1. CASE CloseRow(r)
  <2>1. row' \in [Runs -> Row]
    <3>1. /\ row' = [row EXCEPT ![r] = [@ EXCEPT !.status = outcome[r]]]
          /\ outcome[r] \in Terminal
      BY <1>1 DEF TypeOK, CloseRow
    <3>2. [row[r] EXCEPT !.status = outcome[r]] \in Row
      BY <3>1 DEF TypeOK, Row
    <3> QED
      BY <3>1, <3>2 DEF TypeOK
  <2>2. QED
    BY <1>1, <2>1 DEF TypeOK, CloseRow, Forget, EndFrame, Ending, Rules, booting
<1>2. CASE CloseRowFails(r)
  BY <1>2 DEF TypeOK, CloseRowFails, StoreError, Forget, EndFrame, Ending, Rules,
     booting
<1>3. CASE StartNext(r)
  <2>1. next \in Runs \cup {NoRun}
    BY NextQueuedIsIdle DEF TypeOK
  <2>2. /\ Take(next, status)
        /\ fin' = [fin EXCEPT ![r] = IF next = NoRun THEN "none" ELSE "starting"]
        /\ took' = [took EXCEPT ![r] = next]
        /\ UNCHANGED <<row, rule, aborted, resumed, outcome, storeErrors, touched>>
        /\ EndFrame
    BY <1>3 DEF StartNext
  <2> HIDE DEF next
  <2>3. QED
    BY <2>1, <2>2, TypeTake DEF TypeOK, EndFrame, Ending, booting
<1>4. CASE FinalizeReturns(r)
  BY <1>4 DEF TypeOK, FinalizeReturns, EndFrame, Ending, booting
<1>5. QED
  BY <1>1, <1>2, <1>3, <1>4

\* A reset, a failed scan and the end of a scan.
LEMMA TypeReset ==
  ASSUME TypeOK, Crash \/ RecoverFails \/ BootDone
  PROVE  TypeOK'
<1>1. CASE Crash
  BY <1>1 DEF TypeOK, Crash, ListActive, Phases, Waiting, Rules, Active, Work,
     Ending, Terminal, history
<1>2. CASE RecoverFails
  BY <1>2 DEF TypeOK, RecoverFails, StoreError, begins, coord, history
<1>3. CASE BootDone
  BY <1>3 DEF TypeOK, BootDone, begins, coord, faults, history
<1>4. QED
  BY <1>1, <1>2, <1>3

\* recoverOrphans on one row, and its dequeue of a session.
LEMMA TypeRecover ==
  ASSUME TypeOK, \/ \E r \in Runs : ReopenQueued(r) \/ CloseOrphan(r) \/ ScheduleOrphan(r)
                 \/ \E s \in Sessions : BootDequeue(s)
  PROVE  TypeOK'
<1>1. ASSUME NEW r \in Runs, ReopenQueued(r)
      PROVE  TypeOK'
  BY <1>1 DEF TypeOK, ReopenQueued, NextOrphan, BootFrame, Active, begins, faults,
     history
<1>2. ASSUME NEW r \in Runs, CloseOrphan(r)
      PROVE  TypeOK'
  <2> DEFINE opened == [status EXCEPT ![r] = row[r].status]
  <2>1. row' \in [Runs -> Row]
    <3>1. row[r] \in Row
      BY HelperTypes
    <3>2. [row[r] EXCEPT !.generation = @ + 1] \in Row
      BY <3>1 DEF Row
    <3>3. QED
      BY <1>2, <3>2 DEF TypeOK, CloseOrphan
  <2>2. opened \in [Runs -> Active \cup {"absent"}] /\ "interrupted" \in Terminal
    BY <1>2 DEF TypeOK, CloseOrphan, Active, Terminal
  <2>3. FinalizeIn(opened, {r}, "interrupted") /\ bootAwaits' = r /\ BootFrame
        /\ orphans' \subseteq Runs
    BY <1>2 DEF CloseOrphan, NextOrphan, TypeOK
  <2> HIDE DEF opened
  <2>4. QED
    BY <2>1, <2>2, <2>3, TypeFinalizeIn DEF TypeOK, BootFrame, begins, faults, history
<1>3. ASSUME NEW r \in Runs, ScheduleOrphan(r)
      PROVE  TypeOK'
  <2>1. row' \in [Runs -> Row]
    <3> DEFINE at == cp[SessionOf[r]]
               spent == Spent(r, at) + 1
    <3>1. at \in Nat /\ spent \in Nat
      BY HelperTypes
    <3>2. row' = [row EXCEPT ![r].status = "recovering", ![r].attempts = spent,
                             ![r].generation = @ + 1, ![r].checkpoint = at]
      BY <1>3 DEF ScheduleOrphan
    <3> HIDE DEF at, spent
    <3>3. QED
      BY <3>1, <3>2 DEF TypeOK, Row, Active, Executing
  <2>2. QED
    BY <1>3, <2>1 DEF TypeOK, ScheduleOrphan, NextOrphan, BootFrame, Active, Executing,
       begins, faults, history
<1>4. ASSUME NEW s \in Sessions, BootDequeue(s)
      PROVE  TypeOK'
  <2> DEFINE next == NextQueued(s, status)
  <2>1. next \in Runs \cup {NoRun}
    BY NextQueuedIsIdle DEF TypeOK
  <2>2. /\ Take(next, status)
        /\ bootAwaits' = next
        /\ UNCHANGED <<row, cp, begins, aborted, resumed, fin, outcome, took, alarm,
                       boot, orphans, faults, history>>
    BY <1>4 DEF BootDequeue
  <2> HIDE DEF next
  <2>3. QED
    BY <2>1, <2>2, TypeTake DEF TypeOK, begins, faults, history
<1>5. QED
  BY <1>1, <1>2, <1>3, <1>4

\* resumeDue: the alarm, its write and its rejection.
LEMMA TypeResume ==
  ASSUME TypeOK, NEW r \in Runs, ResumeDue(r) \/ ResumeWrite(r) \/ ResumeFails(r)
  PROVE  TypeOK'
<1>1. "aborted" \in Terminal
  BY DEF Terminal
<1>2. CASE ResumeDue(r)
  BY <1>2 DEF TypeOK, ResumeDue, RunFrame, Work, begins, booting, faults, history
<1>3. CASE ResumeWrite(r)
  <2>1. row' \in [Runs -> Row]
    <3>1. row' = [row EXCEPT ![r].status = "running"]
      BY <1>3 DEF ResumeWrite, ResumeRow
    <3>2. "running" \in Active
      BY DEF Active, Executing
    <3> QED
      BY <3>1, <3>2 DEF TypeOK, Row
  <2>2. QED
    BY <1>1, <1>3, <2>1, TypeFinish DEF TypeOK, ResumeWrite, ResumeRow, RunFrame, Work, Active,
       Executing, begins, booting, faults, history
<1>4. CASE ResumeFails(r)
  BY <1>1, <1>4, TypeFinish DEF TypeOK, ResumeFails, StoreError, RunFrame, Work,
     begins, booting, history
<1>5. QED
  BY <1>2, <1>3, <1>4

\* Every step keeps the types.
LEMMA TypeStep == TypeOK /\ [Next]_vars => TypeOK'
<1> SUFFICES ASSUME TypeOK, [Next]_vars
             PROVE  TypeOK'
  OBVIOUS
<1>1. CASE UNCHANGED vars
  BY <1>1 DEF TypeOK, vars, begins, coord, booting, faults, history
<1>2. CASE UserStep
  BY <1>2, TypeBegin, TypeStop DEF UserStep
<1>3. ASSUME NEW r \in Runs, BeginStep(r)
      PROVE  TypeOK'
  BY <1>3, TypeTurn, TypeCreate, TypeOpen DEF BeginStep
<1>4. ASSUME NEW r \in Runs, RunStep(r) \/ AttemptCheckpoints(r)
      PROVE  TypeOK'
  BY <1>4, TypeAttempt, TypeFinalize, TypeResume DEF RunStep
<1>5. CASE BootStep \/ Crash
  BY <1>5, TypeRecover, TypeReset DEF BootStep
<1>6. CASE StoreFault
  BY <1>6, TypeCreate, TypeAttempt, TypeFinalize, TypeResume, TypeReset
     DEF StoreFault
<1>7. CASE Idle
  BY <1>1, <1>7 DEF Idle
<1>8. QED
  BY <1>1, <1>2, <1>3, <1>4, <1>5, <1>6, <1>7 DEF Next

\* TypeOK holds in every reachable state: the table, the live map and the
\* continuations of do/run-coordinator.ts hold only the values their types
\* allow, and a run being closed has the terminal status its row will get.
THEOREM TypeCorrect == Spec => []TypeOK
  BY InitType, TypeStep, PTL DEF Spec

=============================================================================
