---------------------- MODULE RunCoordinatorSafetyProofs ----------------------
(***************************************************************************)
(* OneRunPerSession, NoAttemptAfterStop and InSendOrder, for every set of  *)
(* runs and sessions and every value of the caps.                          *)
(*                                                                         *)
(* IInv (RunCoordinatorInv) is inductive.  The steps fall into a few       *)
(* shapes; one lemma per shape shows that it preserves IInv, and one that  *)
(* the actions have it.  StoppedInv and OrderInv are proved over the same  *)
(* shapes, and StartSteps says in which steps an attempt starts.           *)
(***************************************************************************)
EXTENDS RunCoordinatorInv, RunCoordinatorProofs

\* Nothing runs and nothing is scanned in the empty object.
LEMMA InitInv == Init => IInv
  BY InitType DEF Init, IInv, TurnsTaken, ScanFirst, Untouched, InFlightWorks,
     RowsFollow, StartsAlone, OverlapNoted, OneRunPerSession, live, NoRow, Active,
     Executing, Unrecorded, InTurn, Waiting

-----------------------------------------------------------------------------
(* What most steps leave alone *)

\* Turns and the scan depend on no row and no live run.
LEMMA TurnsKept ==
  ASSUME IInv, UNCHANGED <<sent, arrival, phase, boot, orphans>>
  PROVE  TurnsTaken' /\ ScanFirst'
  BY DEF IInv, TurnsTaken, ScanFirst, Mates

\* No row begins to execute, no run becomes busy before the scan has passed.
LEMMA OverlapKept ==
  ASSUME IInv, overlapped \subseteq overlapped', orphans' \subseteq orphans,
         \A x \in Runs : row'[x].status \in Executing => row[x].status \in Executing,
         orphans' # {} => \A x \in Runs : Busy(x)' => Busy(x)
  PROVE  OverlapNoted'
  BY DEF IInv, OverlapNoted, Mates

\* No run begins to execute in the live map, and no generation is lost.
LEMMA OneRunKept ==
  ASSUME IInv, overlapped \subseteq overlapped',
         \A x \in Runs : status'[x] \in Executing =>
           /\ status[x] \in Executing
           /\ row'[x].generation \in Nat
           /\ row'[x].generation >= row[x].generation
  PROVE  OneRunPerSession'
<1>1. \A x \in Runs : row[x].generation \in Nat
  BY DEF IInv, TypeOK, Row
<1>2. \A x \in Runs : status[x] \in Executing => x \in live
  BY DEF live, Executing
<1>3. QED
  BY <1>1, <1>2 DEF IInv, OneRunPerSession, live

-----------------------------------------------------------------------------
(* A step of one run's continuation *)

\* r executes; its continuation goes on, or ends with the run closing.
OwnStep(r) ==
  /\ UNCHANGED <<begins, booting>>
  /\ status[r] \in Executing
  /\ \A x \in Runs \ {r} : /\ row'[x] = row[x]
                           /\ status'[x] = status[x]
                           /\ work'[x] = work[x]
                           /\ fin'[x] = fin[x]
                           /\ x \in inFlight' <=> x \in inFlight
  /\ r \in inFlight' <=> work'[r] # "none"
  /\ row'[r].generation = row[r].generation
  /\ row[r].status \in Executing => row'[r].status \in Executing
  /\ \/ status'[r] = "absent" /\ work'[r] = "none"
     \/ /\ status'[r] \in Executing
        /\ fin'[r] = "none"
        /\ work'[r] # "dequeuing" => row'[r].status \in Executing
  /\ \/ /\ row'[r].status \in Executing => row[r].status \in Executing
        /\ UNCHANGED overlapped
     \/ NoteOverlap(r)

\* A step of the continuation of one run keeps IInv.
LEMMA OwnStepInv ==
  ASSUME IInv, TypeOK', NEW r \in Runs, OwnStep(r)
  PROVE  IInv'
<1>1. /\ fin[r] = "none" /\ r \notin orphans
      /\ phase[r] \notin Unrecorded \cup {"created"}
  BY DEF IInv, OwnStep, InFlightWorks, Untouched, Executing
<1>2. TurnsTaken' /\ ScanFirst'
  BY TurnsKept DEF OwnStep, begins, booting
<1>3. Untouched'
  BY <1>1 DEF IInv, Untouched, OwnStep, begins, booting
<1>4. InFlightWorks'
  BY DEF IInv, InFlightWorks, OwnStep, Executing
<1>5. RowsFollow'
  BY <1>1 DEF IInv, RowsFollow, OwnStep, begins, Executing
<1>6. StartsAlone'
  BY DEF IInv, StartsAlone, OwnStep, begins, Executing
<1>7. overlapped \subseteq overlapped'
  BY DEF OwnStep, NoteOverlap
<1>8. OverlapNoted'
  <2>1. \A x \in Runs : Busy(x)' => Busy(x)
    BY DEF OwnStep, Busy
  <2>2. CASE row'[r].status \in Executing => row[r].status \in Executing
    BY <1>7, <2>1, <2>2, OverlapKept DEF OwnStep, booting
  <2>3. CASE NoteOverlap(r)
    BY <1>1, <1>7, <2>1, <2>3, RunsAssumption DEF IInv, OverlapNoted, OwnStep,
       NoteOverlap, Mates, booting
  <2>4. QED
    BY <2>2, <2>3 DEF OwnStep
<1>9. OneRunPerSession'
  <2>1. \A x \in Runs : row[x].generation \in Nat
    BY DEF IInv, TypeOK, Row
  <2>2. QED
    BY <1>7, <2>1, OneRunKept DEF OwnStep
<1>10. QED
  BY <1>2, <1>3, <1>4, <1>5, <1>6, <1>8, <1>9 DEF IInv

\* Every step of an attempt, and of the awaits before it, has that shape.
LEMMA AttemptSteps ==
  ASSUME IInv, NEW r \in Runs,
         \/ DequeueWrite(r) \/ DequeueFails(r) \/ EnterGraph(r)
         \/ AttemptCheckpoints(r) \/ (\E out \in Terminal : AttemptEnds(r, out))
         \/ AttemptDefers(r) \/ DeferWrite(r) \/ DeferFails(r)
         \/ ResumeDue(r) \/ ResumeWrite(r) \/ ResumeFails(r)
  PROVE  OwnStep(r)
<1>0. \A x \in Runs : /\ x \in inFlight <=> work[x] # "none"
                      /\ work[x] # "none" => status[x] \in Executing
                      /\ status[x] \in Executing => fin[x] = "none"
                      /\ status[x] \in Executing /\ work[x] # "dequeuing" =>
                           row[x].status \in Executing
  BY DEF IInv, InFlightWorks, RowsFollow, Executing
<1>1. CASE DequeueWrite(r)
  BY <1>0, <1>1 DEF OwnStep, IInv, TypeOK, Row, DequeueWrite, RunFrame, Finish, Finalize,
     FinalizeIn, Executing
<1>2. CASE DequeueFails(r)
  BY <1>0, <1>2 DEF OwnStep, IInv, TypeOK, Row, DequeueFails, RunFrame, Finish, Finalize,
     FinalizeIn, Executing, history
<1>3. CASE EnterGraph(r)
  BY <1>0, <1>3 DEF OwnStep, IInv, TypeOK, EnterGraph, RunFrame, history
<1>4. CASE AttemptCheckpoints(r)
  BY <1>0, <1>4 DEF OwnStep, IInv, TypeOK, AttemptCheckpoints, coord
<1>5. ASSUME NEW out \in Terminal, AttemptEnds(r, out)
      PROVE  OwnStep(r)
  BY <1>0, <1>5 DEF OwnStep, IInv, TypeOK, AttemptEnds, RunFrame, Finish, Finalize,
     FinalizeIn, Executing, history
<1>6. CASE AttemptDefers(r)
  BY <1>0, <1>6 DEF OwnStep, IInv, TypeOK, AttemptDefers, RunFrame, Finish, Finalize,
     FinalizeIn, Executing, history
<1>7. CASE DeferWrite(r)
  BY <1>0, <1>7 DEF OwnStep, IInv, TypeOK, Row, DeferWrite, RunFrame, Finish, Finalize,
     FinalizeIn, Executing, history
<1>8. CASE DeferFails(r)
  BY <1>0, <1>8 DEF OwnStep, IInv, TypeOK, DeferFails, RunFrame, Finish, Finalize,
     FinalizeIn, Executing, history
<1>9. CASE ResumeDue(r)
  BY <1>0, <1>9 DEF OwnStep, IInv, TypeOK, ResumeDue, RunFrame, Executing, history
<1>10. CASE ResumeWrite(r)
  BY <1>0, <1>10 DEF OwnStep, IInv, TypeOK, Row, ResumeWrite, ResumeRow, RunFrame, Finish, Finalize,
     FinalizeIn, Executing, history
<1>11. CASE ResumeFails(r)
  BY <1>0, <1>11 DEF OwnStep, IInv, TypeOK, ResumeFails, RunFrame, Finish, Finalize,
     FinalizeIn, Executing, history
<1>12. QED
  BY <1>1, <1>2, <1>3, <1>4, <1>5, <1>6, <1>7, <1>8, <1>9, <1>10, <1>11

-----------------------------------------------------------------------------
(* The end of a run *)

\* r is past the live map: its row is closed and its memory dropped.
EndStep(r) ==
  /\ UNCHANGED <<sent, arrival, phase, superseded, status, inFlight, work, booting,
                 overlapped>>
  /\ fin[r] # "none"
  /\ \A x \in Runs \ {r} : row'[x] = row[x] /\ fin'[x] = fin[x] /\ rule'[x] = rule[x]
  /\ row'[r].generation = row[r].generation
  /\ row'[r] # row[r] => row'[r].status \in Terminal
  /\ rule'[r] \in {rule[r], "none"}

\* A step of the close of one run keeps IInv.
LEMMA EndStepInv ==
  ASSUME IInv, TypeOK', NEW r \in Runs, EndStep(r)
  PROVE  IInv'
<1>1. /\ status[r] = "absent" /\ work[r] = "none" /\ r \notin orphans
      /\ phase[r] \notin Unrecorded \cup {"created"}
  BY DEF IInv, EndStep, InFlightWorks, Untouched, Executing
<1>2. TurnsTaken' /\ ScanFirst'
  BY TurnsKept DEF EndStep, booting
<1>3. Untouched'
  BY <1>1 DEF IInv, Untouched, EndStep, booting
<1>4. InFlightWorks'
  BY <1>1 DEF IInv, InFlightWorks, EndStep
<1>5. RowsFollow'
  BY <1>1 DEF IInv, RowsFollow, EndStep, Executing
<1>6. StartsAlone'
  BY DEF IInv, StartsAlone, EndStep
<1>7. OverlapNoted'
  <2>1. \A x \in Runs : row'[x].status \in Executing => row[x].status \in Executing
    BY DEF EndStep, Terminal, Executing
  <2>2. \A x \in Runs : Busy(x)' => Busy(x)
    BY DEF EndStep, Busy
  <2>3. QED
    BY <2>1, <2>2, OverlapKept DEF EndStep, booting
<1>8. OneRunPerSession'
  <2>1. \A x \in Runs : row[x].generation \in Nat
    BY DEF IInv, TypeOK, Row
  <2>2. QED
    BY <2>1, OneRunKept DEF EndStep
<1>9. QED
  BY <1>2, <1>3, <1>4, <1>5, <1>6, <1>7, <1>8 DEF IInv

\* The steps of finalize have that shape.
LEMMA EndSteps ==
  ASSUME IInv, NEW r \in Runs, CloseRow(r) \/ CloseRowFails(r) \/ FinalizeReturns(r)
  PROVE  EndStep(r)
<1>1. CASE CloseRow(r)
  BY <1>1 DEF EndStep, IInv, TypeOK, Row, CloseRow, Forget, EndFrame, booting
<1>2. CASE CloseRowFails(r)
  BY <1>2 DEF EndStep, IInv, TypeOK, CloseRowFails, Forget, EndFrame, booting
<1>3. CASE FinalizeReturns(r)
  BY <1>3 DEF EndStep, IInv, TypeOK, FinalizeReturns, EndFrame, booting
<1>4. QED
  BY <1>1, <1>2, <1>3

-----------------------------------------------------------------------------
(* Ending other runs: a stop, or the turn of a new message *)

\* Runs that no continuation works on leave the live map; messages are
\* superseded.
Ends ==
  /\ UNCHANGED <<row, sent, arrival, inFlight, work, booting, overlapped>>
  /\ superseded \subseteq superseded'
  /\ boot = "up"
  /\ \A x \in Runs : \/ status'[x] = status[x] /\ fin'[x] = fin[x]
                     \/ /\ status'[x] = "absent"
                        /\ status[x] # "absent"
                        /\ work[x] = "none"

\* FinalizeIn of the live map itself, on runs out of flight.
LEMMA FinalizeEnds ==
  ASSUME IInv, NEW S, NEW out, \A x \in S : x \notin inFlight,
         Finalize(S, out)
  PROVE  \A x \in Runs : \/ status'[x] = status[x] /\ fin'[x] = fin[x]
                         \/ /\ status'[x] = "absent"
                            /\ status[x] # "absent"
                            /\ work[x] = "none"
  BY DEF IInv, InFlightWorks, TypeOK, Finalize, FinalizeIn

\* A queued run is out of flight.
LEMMA QueuedIsIdle ==
  ASSUME IInv, NEW s
  PROVE  \A x \in QueuedOf(s) : x \notin inFlight
  BY DEF IInv, InFlightWorks, QueuedOf, LiveOf, live, Executing

\* What Ends preserves, whatever becomes of the `begin` calls.
LEMMA EndsInv ==
  ASSUME IInv, Ends
  PROVE  InFlightWorks' /\ OverlapNoted' /\ OneRunPerSession'
<1>1. orphans' = {}
  BY DEF Ends, booting, IInv, ScanFirst
<1>2. InFlightWorks'
  BY DEF IInv, InFlightWorks, Ends, Executing
<1>3. OverlapNoted'
  BY <1>1, OverlapKept DEF Ends
<1>4. OneRunPerSession'
  <2>1. \A x \in Runs : row[x].generation \in Nat
    BY DEF IInv, TypeOK, Row
  <2>2. QED
    BY <2>1, OneRunKept DEF Ends, Executing
<1>5. QED
  BY <1>2, <1>3, <1>4

\* Stops end runs and move no `begin`.
LEMMA StopsInv ==
  ASSUME IInv, TypeOK', \/ \E s \in Sessions : StopSession(s) \/ StopAll(s)
                        \/ \E r \in Runs : StopRun(r)
  PROVE  IInv'
<1>1. Ends /\ UNCHANGED <<phase, rule>>
  <2>1. ASSUME NEW s \in Sessions, StopSession(s)
        PROVE  Ends /\ UNCHANGED <<phase, rule>>
    <3>1. \E S : (\A x \in S : x \notin inFlight) /\ Finalize(S, "aborted")
      <4> DEFINE left == LiveOf(s) \ Behind(s)
                 busy == ExecutingOf(s)
                 hit  == IF busy # {} THEN {First(busy)}
                         ELSE IF left # {} THEN {First(left)} ELSE {}
                 S    == Behind(s) \cup Closable(hit)
      <4>1. Finalize(S, "aborted")
        BY <2>1 DEF StopSession
      <4>2. \A x \in S : x \notin inFlight
        BY QueuedIsIdle DEF Behind, Closable
      <4>3. QED
        BY <4>1, <4>2
    <3>2. QED
      BY <2>1, <3>1, FinalizeEnds DEF Ends, StopSession, StopFrame, booting, history
  <2>2. ASSUME NEW s \in Sessions, StopAll(s)
        PROVE  Ends /\ UNCHANGED <<phase, rule>>
    BY <2>2, FinalizeEnds DEF Ends, StopAll, Closable, StopFrame, booting, history
  <2>3. ASSUME NEW r \in Runs, StopRun(r)
        PROVE  Ends /\ UNCHANGED <<phase, rule>>
    BY <2>3, FinalizeEnds DEF Ends, StopRun, Closable, StopFrame, booting, history
  <2>4. QED
    BY <2>1, <2>2, <2>3
<1>2. TurnsTaken' /\ ScanFirst'
  BY <1>1, TurnsKept DEF Ends, booting
<1>3. Untouched'
  BY <1>1 DEF IInv, Untouched, Ends, booting
<1>4. RowsFollow'
  BY <1>1 DEF IInv, RowsFollow, Ends, Executing
<1>5. StartsAlone'
  BY <1>1 DEF IInv, StartsAlone, Ends
<1>6. QED
  BY <1>1, <1>2, <1>3, <1>4, <1>5, EndsInv DEF IInv

\* The turn of r: it ends runs, waits, or goes on to create its row; alone
\* when it decides to start.
TurnStep(r) ==
  /\ Ends
  /\ UNCHANGED superseded
  /\ \A x \in Runs \ {r} : phase'[x] = phase[x] /\ rule'[x] = rule[x]
  /\ phase[r] \in {"waiting", "cancelling", "grace"}
  /\ phase[r] = "waiting" => HasTurn(r)
  /\ phase'[r] \in {"cancelling", "grace", "creating"}
  /\ phase'[r] = "creating" /\ rule'[r] = "start" /\ r \notin superseded =>
       LiveOf(SessionOf[r]) = {}

\* A step of the turn of one `begin` keeps IInv.
LEMMA TurnStepInv ==
  ASSUME IInv, TypeOK', NEW r \in Runs, TurnStep(r)
  PROVE  IInv'
<1>1. TurnsTaken'
  <2>1. \A x \in Runs : Mates(r, x) /\ phase[x] \in Waiting => arrival[r] < arrival[x]
    BY DEF IInv, TurnsTaken, TurnStep, InTurn, Waiting, Mates, HasTurn, PendingBegins
  <2>2. \A x \in Runs : Mates(x, r) => phase[x] \notin InTurn
    <3> SUFFICES ASSUME NEW x \in Runs, Mates(x, r), phase[x] \in InTurn
                 PROVE  FALSE
      OBVIOUS
    <3>1. arrival[x] < arrival[r]
      BY DEF IInv, TurnsTaken, TurnStep, Waiting
    <3>2. arrival[r] < arrival[x]
      BY <2>1 DEF Mates, InTurn
    <3>3. QED
      BY <3>1, <3>2 DEF IInv, TypeOK
  <2>3. QED
    BY <2>1, <2>2 DEF IInv, TurnsTaken, TurnStep, Ends, Mates, InTurn, Waiting
<1>2. ScanFirst'
  BY DEF IInv, ScanFirst, TurnStep, Ends, booting
<1>3. Untouched'
  BY DEF IInv, Untouched, TurnStep, Ends, booting, Unrecorded
<1>4. RowsFollow'
  BY DEF IInv, RowsFollow, TurnStep, Ends, Executing
<1>5. StartsAlone'
  BY DEF IInv, StartsAlone, TurnStep, Ends, LiveOf, live
<1>6. QED
  BY <1>1, <1>2, <1>3, <1>4, <1>5, EndsInv DEF IInv, TurnStep

\* The interrupt rule only ends runs, and `begin` decides to start
\* only in a session that has none left.
LEMMA SupersedeEnds ==
  ASSUME IInv, NEW r \in Runs, Supersede(r), BeginFrame, boot = "up"
  PROVE  /\ Ends
         /\ UNCHANGED superseded
         /\ \A x \in Runs \ {r} : phase'[x] = phase[x] /\ rule'[x] = rule[x]
         /\ phase'[r] \in {"cancelling", "grace", "creating"}
         /\ phase'[r] = "creating" => LiveOf(SessionOf[r]) = {}
<1> DEFINE s == SessionOf[r]
           q == First(QueuedOf(s))
           x == First(ExecutingOf(s))
<1>1. QueuedOf(s) # {} => q \in QueuedOf(s)
  BY SetsOfRuns, FirstIsMember DEF IInv, TypeOK
<1>2. CASE /\ QueuedOf(s) # {}
           /\ Finalize({q}, "aborted")
           /\ phase' = [phase EXCEPT ![r] = "cancelling"]
           /\ UNCHANGED <<rule, inFlight, work>>
  BY <1>1, <1>2, QueuedIsIdle, FinalizeEnds DEF Ends, BeginFrame, booting, history,
     IInv, TypeOK
<1>3. CASE /\ Finalize(Closable({x}), "aborted")
           /\ phase' = [phase EXCEPT ![r] = "grace"]
           /\ UNCHANGED <<rule, inFlight, work>>
  BY <1>3, FinalizeEnds DEF Ends, Closable, BeginFrame, booting, history, IInv, TypeOK
<1>4. CASE LiveOf(s) = {} /\ Admit(r, "start")
  BY <1>4 DEF Ends, Admit, BeginFrame, coord, booting, history, IInv, TypeOK
<1>5. QED
  BY <1>2, <1>3, <1>4 DEF Supersede

\* TakeTurn, CancelNext and GraceOver have the shape of TurnStep.
LEMMA TurnSteps ==
  ASSUME IInv, NEW r \in Runs, TakeTurn(r) \/ CancelNext(r) \/ GraceOver(r)
  PROVE  TurnStep(r)
<1>1. boot = "up"
  BY DEF IInv, ScanFirst, TakeTurn, CancelNext, GraceOver, Waiting
<1>2. CASE Supersede(r) /\ BeginFrame
  BY <1>1, <1>2, SupersedeEnds DEF TurnStep, TakeTurn, CancelNext, GraceOver
<1>3. ASSUME NEW d, Admit(r, d), BeginFrame,
             d = "start" /\ r \notin superseded => LiveOf(SessionOf[r]) = {}
      PROVE  TurnStep(r)
  BY <1>1, <1>3 DEF TurnStep, Ends, Admit, BeginFrame, coord, booting, history, IInv,
     TypeOK, TakeTurn, CancelNext, GraceOver
<1>4. QED
  BY <1>2, <1>3 DEF TakeTurn, CancelNext, GraceOver

-----------------------------------------------------------------------------
(* A message on its way to an open run *)

\* A message that arrives is last in its session's order.
LEMMA BeginInv ==
  ASSUME IInv, TypeOK', NEW r \in Runs, NEW m \in Multitask, Begin(r, m)
  PROVE  IInv'
<1>1. r \notin PendingBegins(SessionOf[r]) /\ phase[r] \notin Waiting
  BY DEF Begin, PendingBegins, Waiting
<1>2. TurnsTaken'
  BY <1>1 DEF IInv, TypeOK, TurnsTaken, Begin, Mates, InTurn
<1>3. ScanFirst'
  BY DEF IInv, TypeOK, ScanFirst, Begin, booting
<1>4. Untouched'
  BY DEF IInv, TypeOK, Untouched, Begin, coord, booting, Unrecorded
<1>5. InFlightWorks'
  BY DEF IInv, InFlightWorks, Begin, coord
<1>6. RowsFollow'
  BY DEF IInv, TypeOK, RowsFollow, Begin, coord
<1>7. StartsAlone'
  BY DEF IInv, TypeOK, StartsAlone, Begin, coord
<1>8. OverlapNoted'
  BY OverlapKept DEF Begin, Busy, coord, booting, history
<1>9. OneRunPerSession'
  BY DEF IInv, OneRunPerSession, live, Begin, coord, history
<1>10. QED
  BY <1>2, <1>3, <1>4, <1>5, <1>6, <1>7, <1>8, <1>9 DEF IInv

\* The insert of a row: the one step that may begin an overlap.
LEMMA CreateInv ==
  ASSUME IInv, TypeOK', NEW r \in Runs, CreateRow(r) \/ CreateFails(r)
  PROVE  IInv'
<1>1. phase[r] = "creating" /\ status[r] = "absent" /\ boot = "up" /\ orphans = {}
  BY DEF IInv, Untouched, ScanFirst, CreateRow, CreateFails, Unrecorded, Waiting
<1>2. /\ UNCHANGED <<sent, arrival, status, inFlight, work, fin, boot, orphans>>
      /\ \A x \in Runs \ {r} : /\ row'[x] = row[x]
                               /\ phase'[x] = phase[x]
                               /\ rule'[x] = rule[x]
                               /\ x \in superseded' <=> x \in superseded
      /\ phase'[r] \in {"created", "lost"}
      /\ overlapped \subseteq overlapped'
  BY DEF CreateRow, CreateFails, IInv, TypeOK, NoteOverlap, coord, booting, history
<1>3. CASE CreateRow(r)
  <2>1. /\ phase'[r] = "created" /\ rule' = rule /\ superseded' = superseded
        /\ row'[r].status \in {"running", "queued"}
        /\ rule[r] = "start" /\ r \notin superseded => row'[r].status = "running"
        /\ row'[r].status = "running" => NoteOverlap(r)
    BY <1>3 DEF CreateRow, IInv, TypeOK, NoRow
  <2>2. TurnsTaken' /\ ScanFirst'
    BY <1>1, <1>2, <2>1 DEF IInv, TurnsTaken, ScanFirst, Mates, InTurn, Waiting
  <2>3. Untouched'
    BY <1>1, <1>2, <2>1 DEF IInv, Untouched, Unrecorded
  <2>4. InFlightWorks'
    BY <1>2 DEF IInv, InFlightWorks
  <2>5. RowsFollow'
    BY <1>1, <1>2, <2>1 DEF IInv, RowsFollow, Executing
  <2>6. StartsAlone'
    BY <1>1, <1>2, <2>1 DEF IInv, StartsAlone
  <2>7. OverlapNoted'
    BY <1>1, <1>2, <2>1, RunsAssumption DEF IInv, OverlapNoted, NoteOverlap, Mates,
       Executing
  <2>8. OneRunPerSession'
    BY <1>1, <1>2 DEF IInv, OneRunPerSession, live
  <2>9. QED
    BY <2>2, <2>3, <2>4, <2>5, <2>6, <2>7, <2>8 DEF IInv
<1>4. CASE CreateFails(r)
  <2>1. phase'[r] = "lost" /\ row' = row
    BY <1>4 DEF CreateFails, IInv, TypeOK
  <2>2. TurnsTaken' /\ ScanFirst'
    BY <1>1, <1>2, <2>1 DEF IInv, TurnsTaken, ScanFirst, Mates, InTurn, Waiting
  <2>3. Untouched'
    BY <1>1, <1>2, <2>1 DEF IInv, Untouched, Unrecorded
  <2>4. InFlightWorks'
    BY <1>2 DEF IInv, InFlightWorks
  <2>5. RowsFollow'
    BY <1>1, <1>2, <2>1 DEF IInv, RowsFollow, Executing
  <2>6. StartsAlone'
    BY <1>1, <1>2, <2>1 DEF IInv, StartsAlone
  <2>7. OverlapNoted'
    BY <1>1, <1>2, <2>1, OverlapKept
  <2>8. OneRunPerSession'
    BY <1>1, <1>2, <2>1 DEF IInv, OneRunPerSession, live
  <2>9. QED
    BY <2>2, <2>3, <2>4, <2>5, <2>6, <2>7, <2>8 DEF IInv
<1>5. QED
  BY <1>3, <1>4

\* The only `begin` of its session past its turn: r.
LEMMA CreatedIsAlone ==
  ASSUME IInv, NEW r \in Runs, phase[r] = "created"
  PROVE  /\ \A x \in Runs : Mates(r, x) => phase[x] \notin InTurn
         /\ status[r] = "absent" /\ work[r] = "none" /\ fin[r] = "none"
         /\ boot = "up" /\ orphans = {} /\ r \notin inFlight
<1>1. ASSUME NEW x \in Runs, Mates(r, x), phase[x] \in InTurn
      PROVE  FALSE
  <2>1. arrival[r] < arrival[x] /\ arrival[x] < arrival[r]
    BY <1>1 DEF IInv, TurnsTaken, InTurn, Waiting, Mates
  <2>2. QED
    BY <2>1 DEF IInv, TypeOK
<1>2. QED
  BY <1>1 DEF IInv, Untouched, ScanFirst, InFlightWorks, Waiting

\* A run superseded while its row was inserted is never live.
LEMMA OpenSupersededInv ==
  ASSUME IInv, TypeOK', NEW r \in Runs, OpenSuperseded(r)
  PROVE  IInv'
<1> DEFINE opened == [status EXCEPT ![r] = "queued"]
<1>1. /\ phase[r] = "created" /\ status[r] = "absent" /\ work[r] = "none"
      /\ boot = "up" /\ orphans = {} /\ r \notin inFlight
  BY CreatedIsAlone DEF OpenSuperseded
<1>2. /\ UNCHANGED <<row, sent, arrival, rule, superseded, inFlight, work, boot, orphans,
                    overlapped>>
      /\ status' = status
      /\ \A x \in Runs \ {r} : fin'[x] = fin[x] /\ phase'[x] = phase[x]
      /\ phase'[r] = "returning"
  BY <1>1 DEF OpenSuperseded, FinalizeIn, IInv, TypeOK, booting, history
<1>3. TurnsTaken' /\ ScanFirst'
  BY <1>1, <1>2 DEF IInv, TurnsTaken, ScanFirst, Mates, InTurn, Waiting
<1>4. Untouched'
  BY <1>1, <1>2 DEF IInv, Untouched, Unrecorded
<1>5. InFlightWorks'
  BY <1>1, <1>2 DEF IInv, InFlightWorks
<1>6. RowsFollow'
  BY <1>1, <1>2 DEF IInv, RowsFollow
<1>7. StartsAlone'
  BY <1>1, <1>2 DEF IInv, StartsAlone
<1>8. OverlapNoted'
  BY <1>1, <1>2, OverlapKept
<1>9. OneRunPerSession'
  BY <1>1, <1>2 DEF IInv, OneRunPerSession, live
<1>10. QED
  BY <1>3, <1>4, <1>5, <1>6, <1>7, <1>8, <1>9 DEF IInv

\* A run started at once has its session to itself.
LEMMA OpenAndStartInv ==
  ASSUME IInv, TypeOK', NEW r \in Runs, OpenAndStart(r)
  PROVE  IInv'
<1>1. /\ phase[r] = "created" /\ rule[r] = "start" /\ r \notin superseded
      /\ \A x \in Runs : Mates(r, x) => phase[x] \notin InTurn
      /\ fin[r] = "none" /\ boot = "up" /\ orphans = {}
  BY CreatedIsAlone DEF OpenAndStart
<1>2. \A x \in Runs : SessionOf[x] = SessionOf[r] => status[x] = "absent"
  BY <1>1 DEF IInv, StartsAlone
<1>3. row[r].status \in Executing
  BY <1>1 DEF IInv, RowsFollow
<1>4. /\ UNCHANGED <<row, sent, arrival, rule, superseded, fin, boot, orphans,
                    overlapped>>
      /\ \A x \in Runs \ {r} : /\ status'[x] = status[x]
                               /\ work'[x] = work[x]
                               /\ phase'[x] = phase[x]
                               /\ x \in inFlight' <=> x \in inFlight
      /\ status'[r] = "running" /\ work'[r] = "attempt" /\ r \in inFlight'
      /\ phase'[r] = "returned"
  BY DEF OpenAndStart, IInv, TypeOK, booting, history
<1>5. TurnsTaken' /\ ScanFirst'
  BY <1>1, <1>4 DEF IInv, TurnsTaken, ScanFirst, Mates, InTurn, Waiting
<1>6. Untouched'
  BY <1>1, <1>4 DEF IInv, Untouched, Unrecorded
<1>7. InFlightWorks'
  BY <1>1, <1>4 DEF IInv, InFlightWorks, Executing
<1>8. RowsFollow'
  BY <1>3, <1>4 DEF IInv, RowsFollow
<1>9. StartsAlone'
  BY <1>1, <1>4 DEF IInv, StartsAlone, Mates, InTurn, Waiting
<1>10. OverlapNoted'
  BY <1>1, <1>4, OverlapKept
<1>11. OneRunPerSession'
  BY <1>2, <1>4 DEF IInv, OneRunPerSession, live, Executing
<1>12. QED
  BY <1>5, <1>6, <1>7, <1>8, <1>9, <1>10, <1>11 DEF IInv

\* The next `begin` of the session may take its turn.
LEMMA BeginReturnsInv ==
  ASSUME IInv, TypeOK', NEW r \in Runs, BeginReturns(r)
  PROVE  IInv'
<1>1. /\ UNCHANGED <<row, sent, arrival, rule, coord, boot, orphans, overlapped>>
      /\ \A x \in Runs \ {r} : /\ phase'[x] = phase[x]
                               /\ x \in superseded' <=> x \in superseded
      /\ phase'[r] = "returned"
  BY DEF BeginReturns, IInv, TypeOK, booting, history
<1>2. TurnsTaken' /\ ScanFirst'
  BY <1>1 DEF IInv, TurnsTaken, ScanFirst, Mates, InTurn, Waiting
<1>3. Untouched'
  BY <1>1 DEF IInv, Untouched, Unrecorded, coord
<1>4. InFlightWorks'
  BY <1>1 DEF IInv, InFlightWorks, coord
<1>5. RowsFollow'
  BY <1>1 DEF IInv, RowsFollow, coord
<1>6. StartsAlone'
  BY <1>1 DEF IInv, StartsAlone, coord
<1>7. OverlapNoted'
  BY <1>1, OverlapKept DEF coord, Busy
<1>8. OneRunPerSession'
  BY <1>1 DEF IInv, OneRunPerSession, live, coord
<1>9. QED
  BY <1>2, <1>3, <1>4, <1>5, <1>6, <1>7, <1>8 DEF IInv

-----------------------------------------------------------------------------
(* Taking the next queued run *)

\* A session's next queued run, if any, is taken from the live map st: the
\* map itself, or with the run that was just opened in it.
TakeStep(s, st) ==
  /\ UNCHANGED <<row, sent, arrival, superseded, rule, boot, orphans, overlapped>>
  /\ Take(NextQueued(s, st), st)
  /\ \A x \in Runs :
       \/ st[x] = status[x] /\ phase'[x] = phase[x]
       \/ st[x] = "queued" /\ phase[x] = "created" /\ phase'[x] = "returning"
  /\ \A x \in Runs : fin'[x] # "none" => fin[x] # "none"
  /\ orphans = {} \/ \E x \in Runs : SessionOf[x] = s /\ fin[x] # "none"

\* Taking a queued run of an idle session keeps IInv.
LEMMA TakeStepInv ==
  ASSUME IInv, TypeOK', NEW s \in Sessions,
         NEW st \in [Runs -> Active \cup {"absent"}], TakeStep(s, st)
  PROVE  IInv'
<1> DEFINE q == NextQueued(s, st)
<1>1. \/ q = NoRun
      \/ /\ q \in Runs /\ SessionOf[q] = s /\ st[q] = "queued"
         /\ \A x \in Runs : SessionOf[x] = s => st[x] \notin Executing
  BY NextQueuedIsIdle DEF IInv, TypeOK
<1>2. /\ UNCHANGED <<row, sent, arrival, superseded, rule, boot, orphans, overlapped>>
      /\ \A x \in Runs : status'[x] = IF x = q THEN "running" ELSE st[x]
      /\ \A x \in Runs : work'[x] = IF x = q THEN "dequeuing" ELSE work[x]
      /\ \A x \in Runs : x \in inFlight' <=> x \in inFlight \/ x = q
      /\ \A x \in Runs :
           \/ st[x] = status[x] /\ phase'[x] = phase[x]
           \/ st[x] = "queued" /\ phase[x] = "created" /\ phase'[x] = "returning"
      /\ \A x \in Runs : fin'[x] # "none" => fin[x] # "none"
      /\ orphans = {} \/ \E x \in Runs : SessionOf[x] = s /\ fin[x] # "none"
  BY RunsAssumption DEF TakeStep, Take
<1> HIDE DEF q
<1>3. \A x \in Runs : st[x] = "queued" =>
        /\ work[x] = "none" /\ fin[x] = "none" /\ x \notin inFlight
        /\ x \notin orphans
        /\ phase'[x] \notin Unrecorded \cup {"created"}
  BY <1>2 DEF IInv, Untouched, InFlightWorks, ScanFirst, Unrecorded, Waiting, Executing
<1>4. TurnsTaken' /\ ScanFirst'
  BY <1>2 DEF IInv, TurnsTaken, ScanFirst, Mates, InTurn, Waiting
<1>5. Untouched'
  BY <1>1, <1>2, <1>3, RunsAssumption DEF IInv, Untouched, Unrecorded
<1>6. InFlightWorks'
  BY <1>1, <1>2, <1>3, RunsAssumption DEF IInv, InFlightWorks, Untouched, Executing
<1>7. RowsFollow'
  BY <1>1, <1>2, <1>3, RunsAssumption DEF IInv, RowsFollow, Executing
<1>8. StartsAlone'
  <2> SUFFICES ASSUME NEW a \in Runs, NEW b \in Runs,
                      phase'[a] \in {"creating", "created"}, rule'[a] = "start",
                      a \notin superseded', SessionOf[a] = SessionOf[b]
               PROVE  status'[b] = "absent"
    BY DEF StartsAlone
  <2>1. phase[a] = phase'[a] /\ status[b] = "absent"
    BY <1>2 DEF IInv, StartsAlone
  <2>2. phase[b] = "created" => phase'[b] = "created"
    <3>1. CASE a = b
      BY <2>1, <3>1
    <3>2. CASE a # b
      <4>1. phase[b] \in InTurn => arrival[a] < arrival[b] /\ arrival[b] < arrival[a]
        BY <2>1, <3>2 DEF IInv, TurnsTaken, Mates, InTurn, Waiting
      <4>2. QED
        BY <4>1 DEF IInv, TypeOK, InTurn, Waiting
    <3>3. QED
      BY <3>1, <3>2
  <2>3. st[b] = "absent"
    BY <1>2, <2>1, <2>2
  <2>4. QED
    BY <1>1, <1>2, <2>3, RunsAssumption
<1>9. OverlapNoted'
  <2> SUFFICES ASSUME NEW a \in Runs, NEW b \in Runs, Mates(a, b),
                      row[a].status \in Executing,
                      row[b].status \in Executing \/ (a \in orphans /\ Busy(b)')
               PROVE  SessionOf[a] \in overlapped
    BY <1>2 DEF OverlapNoted
  <2>1. CASE row[b].status \in Executing \/ (a \in orphans /\ Busy(b))
    BY <2>1 DEF IInv, OverlapNoted
  <2>2. CASE a \in orphans /\ b = q
    <3>1. SessionOf[a] = s
      BY <1>1, <2>2, RunsAssumption DEF Mates
    <3>2. PICK x \in Runs : SessionOf[x] = s /\ fin[x] # "none"
      BY <1>2, <2>2
    <3>3. Mates(a, x) /\ Busy(x)
      BY <2>2, <3>1, <3>2 DEF IInv, Untouched, Mates, Busy
    <3>4. QED
      BY <2>2, <3>3 DEF IInv, OverlapNoted
  <2>3. b # q /\ Busy(b)' => Busy(b)
    BY <1>2 DEF Busy, Executing
  <2>4. QED
    BY <2>1, <2>2, <2>3
<1>10. OneRunPerSession'
  <2> SUFFICES ASSUME NEW a \in Runs, NEW b \in Runs, Mates(a, b),
                      status'[a] \in Executing, status'[b] \in Executing
               PROVE  /\ SessionOf[a] \in overlapped
                      /\ row[a].generation > 0 \/ row[b].generation > 0
    BY <1>2 DEF OneRunPerSession, live, Mates
  <2>1. a # q /\ b # q
    BY <1>1, <1>2, RunsAssumption DEF Mates
  <2>2. status[a] \in Executing /\ status[b] \in Executing
    BY <1>2, <2>1 DEF Executing
  <2>3. QED
    BY <2>2 DEF IInv, OneRunPerSession, live, Mates, Executing
<1>11. QED
  BY <1>4, <1>5, <1>6, <1>7, <1>8, <1>9, <1>10 DEF IInv

\* The three places that call startNextQueued take a run that way.
LEMMA TakeSteps ==
  ASSUME IInv, TypeOK', \/ \E r \in Runs : OpenQueued(r) \/ StartNext(r)
                        \/ \E s \in Sessions : BootDequeue(s)
  PROVE  IInv'
<1>1. ASSUME NEW r \in Runs, OpenQueued(r)
      PROVE  IInv'
  <2> DEFINE opened == [status EXCEPT ![r] = "queued"]
  <2>1. opened \in [Runs -> Active \cup {"absent"}] /\ SessionOf[r] \in Sessions
    BY RunsAssumption DEF IInv, TypeOK, Active
  <2>2. TakeStep(SessionOf[r], opened)
    BY <1>1, CreatedIsAlone DEF TakeStep, OpenQueued, IInv, TypeOK, booting, history
  <2>3. QED
    BY <2>1, <2>2, TakeStepInv
<1>2. ASSUME NEW r \in Runs, StartNext(r)
      PROVE  IInv'
  <2>1. status \in [Runs -> Active \cup {"absent"}] /\ SessionOf[r] \in Sessions
    BY RunsAssumption DEF IInv, TypeOK
  <2>2. TakeStep(SessionOf[r], status)
    BY <1>2 DEF TakeStep, StartNext, EndFrame, IInv, TypeOK, booting
  <2>3. QED
    BY <2>1, <2>2, TakeStepInv
<1>3. ASSUME NEW s \in Sessions, BootDequeue(s)
      PROVE  IInv'
  <2>1. status \in [Runs -> Active \cup {"absent"}]
    BY DEF IInv, TypeOK
  <2>2. TakeStep(s, status)
    BY <1>3 DEF TakeStep, BootDequeue, begins, history
  <2>3. QED
    BY <2>1, <2>2, TakeStepInv
<1>4. QED
  BY <1>1, <1>2, <1>3

-----------------------------------------------------------------------------
(* Reset and recovery *)

\* A reset leaves rows and arrivals, and puts every row before the scan.
LEMMA CrashInv ==
  ASSUME IInv, TypeOK', Crash
  PROVE  IInv'
<1>1. /\ UNCHANGED <<row, sent, arrival, overlapped>>
      /\ superseded' = {} /\ inFlight' = {} /\ orphans' = ListActive
      /\ boot' = "booting"
      /\ \A x \in Runs : /\ status'[x] = "absent" /\ work'[x] = "none"
                         /\ fin'[x] = "none" /\ rule'[x] = "none"
                         /\ phase'[x] \notin Waiting
                         /\ phase'[x] \in Unrecorded => phase[x] \in Unrecorded
  BY DEF Crash, history, Waiting, Unrecorded
<1>2. TurnsTaken' /\ ScanFirst'
  BY <1>1 DEF IInv, TurnsTaken, ScanFirst, InTurn
<1>3. Untouched'
  BY <1>1 DEF IInv, Untouched, ListActive
<1>4. InFlightWorks' /\ RowsFollow' /\ StartsAlone' /\ OneRunPerSession'
  BY <1>1 DEF InFlightWorks, RowsFollow, StartsAlone, OneRunPerSession, live, Executing
<1>5. OverlapNoted'
  BY <1>1 DEF IInv, OverlapNoted, Busy, Executing
<1>6. QED
  BY <1>2, <1>3, <1>4, <1>5 DEF IInv

\* The scan ends, complete or not.
LEMMA ScanEndsInv ==
  ASSUME IInv, TypeOK', RecoverFails \/ BootDone
  PROVE  IInv'
<1>1. /\ UNCHANGED <<row, begins, coord, overlapped>>
      /\ orphans' = {} /\ boot' = "up"
  BY DEF RecoverFails, BootDone, history
<1>2. TurnsTaken' /\ ScanFirst'
  BY <1>1 DEF IInv, TurnsTaken, ScanFirst, Mates, begins
<1>3. Untouched' /\ InFlightWorks' /\ RowsFollow' /\ StartsAlone' /\ OneRunPerSession'
  BY <1>1 DEF IInv, Untouched, InFlightWorks, RowsFollow, StartsAlone, OneRunPerSession,
     live, begins, coord
<1>4. OverlapNoted'
  BY <1>1, OverlapKept
<1>5. QED
  BY <1>2, <1>3, <1>4 DEF IInv

\* The scan visits r: opened again as queued or recovering, or being closed.
VisitStep(r) ==
  /\ UNCHANGED <<begins, inFlight, work, boot, overlapped>>
  /\ r \in orphans
  /\ orphans' = orphans \ {r}
  /\ \A x \in Runs \ {r} : /\ row'[x] = row[x]
                           /\ status'[x] = status[x]
                           /\ fin'[x] = fin[x]
  /\ row'[r].status \in Active
  /\ \/ /\ status'[r] = "queued"
        /\ fin'[r] = fin[r]
        /\ row' = row
     \/ /\ row[r].status \in Executing
        /\ row'[r].status \in Executing
        /\ \/ /\ status'[r] = "recovering" 
              /\ row'[r].generation > 0
              /\ fin'[r] = fin[r]
           \/ status'[r] = "absent"

\* The three visits of the scan have the shape of VisitStep.
LEMMA VisitSteps ==
  ASSUME IInv, NEW r \in Runs, ReopenQueued(r) \/ CloseOrphan(r) \/ ScheduleOrphan(r)
  PROVE  VisitStep(r)
<1>1. r \in orphans
  <2>1. PICK x : x \in orphans
    BY DEF ReopenQueued, CloseOrphan, ScheduleOrphan, NextOrphan
  <2>2. First(orphans) \in orphans
    BY <2>1, FirstIsMember DEF IInv, TypeOK
  <2>3. QED
    BY <2>2 DEF ReopenQueued, CloseOrphan, ScheduleOrphan, NextOrphan
<1>2. row[r] \in Row /\ row[r].generation \in Nat
  BY DEF IInv, TypeOK, Row
<1>3. CASE ReopenQueued(r)
  BY <1>1, <1>3 DEF VisitStep, ReopenQueued, NextOrphan, BootFrame, IInv, TypeOK, Active,
     history
<1>4. CASE CloseOrphan(r)
  BY <1>1, <1>2, <1>4 DEF VisitStep, CloseOrphan, NextOrphan, BootFrame, FinalizeIn, IInv,
     TypeOK, Row, Active, Executing, history
<1>5. CASE ScheduleOrphan(r)
  <2>1. /\ row'[r].status = "recovering"
        /\ row'[r].generation = row[r].generation + 1
        /\ \A x \in Runs \ {r} : row'[x] = row[x]
    BY <1>2, <1>5 DEF ScheduleOrphan, IInv, TypeOK, Row
  <2>2. QED
    BY <1>1, <1>2, <1>5, <2>1 DEF VisitStep, ScheduleOrphan, NextOrphan, BootFrame, IInv,
       TypeOK, Active, Executing, history
<1>6. QED
  BY <1>3, <1>4, <1>5

\* The scan visits one row: IInv holds of it from then on.
LEMMA VisitInv ==
  ASSUME IInv, TypeOK', NEW r \in Runs, VisitStep(r)
  PROVE  IInv'
<1>1. /\ status[r] = "absent" /\ fin[r] = "none" /\ work[r] = "none"
      /\ r \notin inFlight /\ boot # "up"
      /\ \A x \in Runs : phase[x] \notin Waiting
      /\ phase[r] \notin Unrecorded \cup {"created"}
  BY DEF IInv, VisitStep, Untouched, InFlightWorks, ScanFirst, Unrecorded, Waiting,
     Active, Executing
<1>2. TurnsTaken' /\ ScanFirst'
  BY <1>1 DEF IInv, TurnsTaken, ScanFirst, Mates, VisitStep, begins
<1>3. Untouched'
  BY <1>1 DEF IInv, Untouched, VisitStep, begins
<1>4. InFlightWorks'
  BY <1>1 DEF IInv, InFlightWorks, VisitStep
<1>5. RowsFollow'
  BY <1>1 DEF IInv, RowsFollow, VisitStep, begins, Executing, Waiting
<1>6. StartsAlone'
  BY <1>1 DEF IInv, StartsAlone, VisitStep, begins, Waiting
<1>7. OverlapNoted'
  <2> SUFFICES ASSUME NEW a \in Runs, NEW b \in Runs, Mates(a, b),
                      row'[a].status \in Executing,
                      row'[b].status \in Executing \/ (a \in orphans' /\ Busy(b)')
               PROVE  SessionOf[a] \in overlapped
    BY DEF OverlapNoted, VisitStep
  <2>1. row[a].status \in Executing
    BY DEF VisitStep
  <2>2. CASE row'[b].status \in Executing
    BY <2>1, <2>2 DEF VisitStep, IInv, OverlapNoted
  <2>3. CASE a \in orphans' /\ Busy(b)'
    <3>1. b # r => Busy(b)
      BY <2>3 DEF Busy, VisitStep
    <3>2. b = r => row[b].status \in Executing
      BY <1>1, <2>3 DEF Busy, VisitStep, Executing
    <3>3. QED
      BY <2>1, <2>3, <3>1, <3>2 DEF VisitStep, IInv, OverlapNoted
  <2>4. QED
    BY <2>2, <2>3
<1>8. OneRunPerSession'
  <2> SUFFICES ASSUME NEW a \in Runs, NEW b \in Runs, Mates(a, b),
                      status'[a] \in Executing, status'[b] \in Executing
               PROVE  /\ SessionOf[a] \in overlapped
                      /\ row'[a].generation > 0 \/ row'[b].generation > 0
    BY DEF OneRunPerSession, live, Mates, VisitStep
  <2>1. CASE a # r /\ b # r
    BY <2>1 DEF VisitStep, IInv, OneRunPerSession, live, Mates, Executing
  <2>2. ASSUME NEW x \in Runs, Mates(r, x), status'[r] \in Executing,
               status'[x] \in Executing
        PROVE  SessionOf[r] \in overlapped /\ row'[r].generation > 0
    <3>1. row[r].status \in Executing /\ row'[r].generation > 0 /\ Busy(x)
      BY <2>2 DEF VisitStep, Mates, Busy, Executing
    <3>2. QED
      BY <2>2, <3>1 DEF VisitStep, IInv, OverlapNoted
  <2>3. QED
    BY <2>1, <2>2 DEF Mates
<1>9. QED
  BY <1>2, <1>3, <1>4, <1>5, <1>6, <1>7, <1>8 DEF IInv

-----------------------------------------------------------------------------
(* The theorem *)

\* IInv is inductive.
LEMMA StepInv == IInv /\ [Next]_vars => IInv'
<1> SUFFICES ASSUME IInv, [Next]_vars
             PROVE  IInv'
  OBVIOUS
<1>0. TypeOK'
  BY TypeStep DEF IInv
<1>1. CASE UNCHANGED vars
  BY <1>0, <1>1 DEF IInv, TurnsTaken, ScanFirst, Untouched, InFlightWorks, RowsFollow,
     StartsAlone, OverlapNoted, OneRunPerSession, Busy, live, vars, begins, coord, booting,
     history
<1>2. CASE UserStep
  BY <1>0, <1>2, BeginInv, StopsInv DEF UserStep
<1>3. ASSUME NEW r \in Runs, BeginStep(r)
      PROVE  IInv'
  BY <1>0, <1>3, TurnSteps, TurnStepInv, CreateInv, OpenSupersededInv, OpenAndStartInv,
     TakeSteps, BeginReturnsInv DEF BeginStep
<1>4. ASSUME NEW r \in Runs, RunStep(r) \/ AttemptCheckpoints(r)
      PROVE  IInv'
  BY <1>0, <1>4, AttemptSteps, OwnStepInv, EndSteps, EndStepInv, TakeSteps DEF RunStep
<1>5. CASE BootStep \/ Crash
  BY <1>0, <1>5, VisitSteps, VisitInv, TakeSteps, ScanEndsInv, CrashInv DEF BootStep
<1>6. CASE StoreFault
  BY <1>0, <1>6, CreateInv, AttemptSteps, OwnStepInv, EndSteps, EndStepInv, ScanEndsInv
     DEF StoreFault
<1>7. CASE Idle
  BY <1>1, <1>7 DEF Idle
<1>8. QED
  BY <1>1, <1>2, <1>3, <1>4, <1>5, <1>6, <1>7 DEF Next

\* The strengthening holds in every reachable state of run-coordinator.ts.
THEOREM Inductive == Spec => []IInv
  BY InitInv, StepInv, PTL DEF Spec

\* At most one run of a session is past its queue, however sends, stops,
\* grace time-outs, deferrals, store errors and resets interleave; the one
\* exception needs a reset over a row that was still open when the next run
\* began (begin, startNextQueued, recoverOrphans, resumeDue).
THEOREM OneAtATime == Spec => []OneRunPerSession
<1>1. IInv => OneRunPerSession
  BY DEF IInv
<1>2. QED
  BY <1>1, Inductive, PTL

-----------------------------------------------------------------------------
(* Where attempts start *)

\* The steps that start an attempt, and that they look at the signal.
LEMMA StartSteps ==
  ASSUME TypeOK, Next, NEW r \in Runs, Starts(r)
  PROVE  \/ OpenAndStart(r)
         \/ (DequeueWrite(r) \/ ResumeWrite(r)) /\ r \notin aborted
<1>0. work \in [Runs -> Work]
  BY DEF TypeOK
<1>1. work' # work
  BY DEF Starts
<1>2. work'[r] \in {"preparing", "attempt"} /\ work[r] \notin {"preparing", "attempt"}
  BY DEF Starts
<1>3. ASSUME NEW x, NEW out, Finish(x, out)
      PROVE  FALSE
  BY <1>0, <1>2, <1>3 DEF Finish
<1>4. ASSUME NEW q, NEW st, Take(q, st)
      PROVE  FALSE
  BY <1>0, <1>2, <1>4 DEF Take
<1>5. ~UserStep /\ ~Idle
  BY <1>1 DEF UserStep, Begin, StopRun, StopSession, StopAll, StopFrame, Idle, vars, coord
<1>6. ~BootStep
  BY <1>1, <1>4 DEF BootStep, ReopenQueued, CloseOrphan, ScheduleOrphan, BootFrame,
     BootDequeue, BootDone, coord
<1>7. ~Crash
  BY <1>2 DEF Crash
<1>8. ~StoreFault
  <2>1. ASSUME NEW x \in Runs, ResumeFails(x)
        PROVE  FALSE
    BY <1>0, <1>2, <1>3, <2>1 DEF ResumeFails
  <2>2. QED
    BY <1>1, <1>3, <2>1 DEF StoreFault, CreateFails, DequeueFails, DeferFails,
       CloseRowFails, Forget, RecoverFails, coord
<1>9. PICK x \in Runs : BeginStep(x) \/ RunStep(x) \/ AttemptCheckpoints(x)
  BY <1>5, <1>6, <1>7, <1>8 DEF Next
<1>10. CASE BeginStep(x)
  <2>1. ~Supersede(x)
    BY <1>1 DEF Supersede, Admit, coord
  <2>2. OpenAndStart(x)
    BY <1>1, <1>4, <1>10, <2>1 DEF BeginStep, TakeTurn, CancelNext, GraceOver, Admit,
       CreateRow, OpenSuperseded, OpenQueued, BeginReturns, coord
  <2>3. x = r
    BY <1>0, <1>2, <2>2 DEF OpenAndStart
  <2>4. QED
    BY <2>2, <2>3
<1>11. CASE RunStep(x) \/ AttemptCheckpoints(x)
  <2>1. ASSUME NEW w, work' = [work EXCEPT ![x] = w]
        PROVE  x = r /\ w \in {"preparing", "attempt"}
    BY <1>0, <1>2, <2>1
  <2>2. ~EnterGraph(x) /\ ~ResumeDue(x) /\ ~AttemptCheckpoints(x)
    BY <1>1, <1>2, <2>1 DEF EnterGraph, ResumeDue, AttemptCheckpoints, coord
  <2>3. ~AttemptDefers(x) /\ ~DeferWrite(x) /\ \A out : ~AttemptEnds(x, out)
    BY <1>3, <2>1 DEF AttemptDefers, DeferWrite, AttemptEnds
  <2>4. ~CloseRow(x) /\ ~StartNext(x) /\ ~FinalizeReturns(x)
    BY <1>1, <1>4 DEF CloseRow, Forget, StartNext, FinalizeReturns
  <2>5. DequeueWrite(x) \/ ResumeWrite(x)
    BY <1>11, <2>2, <2>3, <2>4 DEF RunStep
  <2>6. x \notin aborted
    BY <1>3, <2>5 DEF DequeueWrite, ResumeWrite, Stopped
  <2>7. x = r
    BY <2>1, <2>5, <2>6, <1>3 DEF DequeueWrite, ResumeWrite
  <2>8. QED
    BY <2>5, <2>6, <2>7
<1>12. QED
  BY <1>9, <1>10, <1>11

-----------------------------------------------------------------------------
(* Stops *)

\* Only a run that was opened is told to stop.
StoppedInv == \A r \in Runs : r \in aborted => phase[r] \notin Unrecorded \cup {"created"}

\* What a step must do to keep that: it tells only executing runs to stop, and
\* leads no run back to its `begin`.
StoppedKept ==
  \A r \in Runs : /\ r \in aborted' => r \in aborted \/ status[r] \in Executing
                  /\ phase'[r] \in Unrecorded \cup {"created"} =>
                       phase[r] \in Unrecorded \cup {"created"}

\* Such a step keeps it: what executes is open.
LEMMA StoppedKeeps ==
  ASSUME IInv, StoppedInv, StoppedKept
  PROVE  StoppedInv'
<1>1. \A r \in Runs : status[r] \in Executing => phase[r] \notin Unrecorded \cup {"created"}
  BY DEF IInv, Untouched, Executing
<1>2. QED
  BY <1>1 DEF StoppedInv, StoppedKept

\* The steps of begin.
LEMMA StoppedBegin ==
  ASSUME IInv, NEW r \in Runs,
         BeginStep(r) \/ CreateFails(r) \/ \E m \in Multitask : Begin(r, m)
  PROVE  StoppedKept
<1>0. phase \in [Runs -> Phases] /\ aborted \subseteq Runs
  BY DEF IInv, TypeOK
<1>1. ASSUME aborted' = aborted, NEW p, phase' = [phase EXCEPT ![r] = p],
             p \in Unrecorded \cup {"created"} => phase[r] \in Unrecorded \cup {"created"}
      PROVE  StoppedKept
  BY <1>0, <1>1 DEF StoppedKept
<1>2. CASE TakeTurn(r) \/ CancelNext(r) \/ GraceOver(r)
  <2>1. phase[r] \in Unrecorded
    BY <1>2 DEF TakeTurn, CancelNext, GraceOver, Unrecorded
  <2>2. ASSUME NEW d, Admit(r, d)
        PROVE  StoppedKept
    BY <1>1, <2>1, <2>2 DEF Admit, coord
  <2>3. CASE Supersede(r)
    <3>1. \A x \in ExecutingOf(SessionOf[r]) : status[x] \in Executing
      BY DEF ExecutingOf
    <3>2. ExecutingOf(SessionOf[r]) # {} =>
            First(ExecutingOf(SessionOf[r])) \in ExecutingOf(SessionOf[r])
      BY SetsOfRuns, FirstIsMember DEF IInv, TypeOK
    <3>3. QED
      BY <1>0, <1>1, <2>1, <2>2, <2>3, <3>1, <3>2 DEF Supersede, StoppedKept
  <2>4. QED
    BY <1>2, <2>2, <2>3 DEF TakeTurn, CancelNext, GraceOver
<1>3. CASE CreateRow(r) \/ CreateFails(r)
  BY <1>1, <1>3 DEF CreateRow, CreateFails, Unrecorded, coord
<1>4. CASE OpenSuperseded(r) \/ OpenAndStart(r) \/ OpenQueued(r) \/ BeginReturns(r)
  BY <1>1, <1>4 DEF OpenSuperseded, OpenAndStart, OpenQueued, BeginReturns, Unrecorded, coord
<1>5. CASE \E m \in Multitask : Begin(r, m)
  BY <1>1, <1>5 DEF Begin, Unrecorded, coord
<1>6. QED
  BY <1>2, <1>3, <1>4, <1>5 DEF BeginStep

\* The stops: they signal runs that execute.
LEMMA StoppedStops ==
  ASSUME IInv, \/ \E s \in Sessions : StopSession(s) \/ StopAll(s)
               \/ \E r \in Runs : StopRun(r)
  PROVE  StoppedKept
<1>1. \A s : \A x \in ExecutingOf(s) : status[x] \in Executing
  BY DEF ExecutingOf
<1>2. QED
  BY <1>1 DEF StopSession, StopAll, StopRun, StopFrame, StoppedKept

\* StoppedInv is inductive over IInv.
LEMMA StoppedStep == IInv /\ StoppedInv /\ [Next]_vars => StoppedInv'
<1> SUFFICES ASSUME IInv, StoppedInv, [Next]_vars
             PROVE  StoppedInv'
  OBVIOUS
<1>1. StoppedKept
  <2>1. CASE UNCHANGED <<aborted, phase>>
    BY <2>1 DEF StoppedKept
  <2>2. CASE UNCHANGED vars \/ Idle
    BY <2>1, <2>2 DEF Idle, vars, begins, coord
  <2>3. CASE UserStep
    BY <2>3, StoppedBegin, StoppedStops DEF UserStep
  <2>4. ASSUME NEW r \in Runs, RunStep(r) \/ AttemptCheckpoints(r)
        PROVE  StoppedKept
    <3>1. CASE CloseRow(r)
      BY <3>1 DEF CloseRow, Forget, EndFrame, StoppedKept
    <3>2. CASE StartNext(r) \/ FinalizeReturns(r) \/ AttemptCheckpoints(r)
      BY <2>1, <3>2 DEF StartNext, FinalizeReturns, EndFrame, AttemptCheckpoints, begins, coord
    <3>3. CASE RunFrame
      BY <2>1, <3>3 DEF RunFrame, begins
    <3>4. QED
      BY <2>4, <3>1, <3>2, <3>3 DEF RunStep, DequeueWrite, EnterGraph, AttemptEnds,
         AttemptDefers, DeferWrite, ResumeDue, ResumeWrite
  <2>5. CASE BootStep
    BY <2>1, <2>5 DEF BootStep, ReopenQueued, CloseOrphan, ScheduleOrphan, BootFrame,
       BootDequeue, BootDone, begins, coord
  <2>6. CASE Crash
    BY <2>6 DEF Crash, StoppedKept, Unrecorded, Waiting
  <2>7. CASE StoreFault
    <3>1. ASSUME NEW r \in Runs, CloseRowFails(r)
          PROVE  StoppedKept
      BY <3>1 DEF CloseRowFails, Forget, EndFrame, StoppedKept
    <3>2. ASSUME NEW r \in Runs, DequeueFails(r) \/ DeferFails(r) \/ ResumeFails(r)
          PROVE  StoppedKept
      BY <2>1, <3>2 DEF DequeueFails, DeferFails, ResumeFails, RunFrame, begins
    <3>3. CASE RecoverFails
      BY <2>1, <3>3 DEF RecoverFails, begins, coord
    <3>4. QED
      BY <2>7, <3>1, <3>2, <3>3, StoppedBegin DEF StoreFault
  <2>8. QED
    BY <2>2, <2>3, <2>4, <2>5, <2>6, <2>7, StoppedBegin DEF Next
<1>2. QED
  BY <1>1, StoppedKeeps

\* A run that was stopped, or superseded before it was open, starts no attempt
\* in the same incarnation: the signal and the ticket are looked at after each
\* await (begin, startNextQueued, resumeDue; abortRun, abortSession).
THEOREM StopsHold == Spec => NoAttemptAfterStop
<1>1. ASSUME IInv, StoppedInv, Next, NEW r \in Runs, Starts(r)
      PROVE  r \notin aborted /\ (phase[r] = "created" => r \notin superseded)
  <2>1. CASE OpenAndStart(r)
    BY <1>1, <2>1 DEF OpenAndStart, StoppedInv
  <2>2. CASE work[r] # "none" /\ r \notin aborted
    BY <1>1, <2>2 DEF IInv, Untouched
  <2>3. QED
    BY <1>1, <2>1, <2>2, StartSteps DEF IInv, DequeueWrite, ResumeWrite
<1>2. IInv /\ StoppedInv /\ [Next]_vars =>
        [\A r \in Runs : Starts(r) =>
           /\ r \notin aborted
           /\ phase[r] = "created" => r \notin superseded]_vars
  BY <1>1
<1>3. Init => StoppedInv
  BY DEF Init, StoppedInv
<1>4. QED
  BY <1>2, <1>3, StoppedStep, Inductive, PTL DEF Spec, NoAttemptAfterStop

-----------------------------------------------------------------------------
(* The order of a session *)

\* A live run was sent before every message whose `begin` is unresolved.
LiveCameFirst ==
  \A a, b \in Runs :
    Mates(a, b) /\ phase[a] \in Waiting /\ status[b] # "absent" => arrival[b] < arrival[a]

\* The scan visits the rows in the order the messages were sent.
ScanInOrder ==
  \A o, b \in Runs :
    Mates(o, b) /\ o \in orphans /\ status[b] # "absent" => arrival[b] <= arrival[o]

\* No queued run was sent before one that executes for the first time.
QueueBehind ==
  \A a, b \in Runs :
    /\ Mates(a, b) /\ arrival[b] < arrival[a]
    /\ status[a] \in Executing /\ row[a].generation = 0
    => status[b] # "queued"

OrderInv == LiveCameFirst /\ ScanInOrder /\ QueueBehind

\* What keeps the order: no run is opened, queued or started, and no message
\* moves back before its turn.
OrderQuiet ==
  /\ arrival' = arrival
  /\ orphans' \subseteq orphans \/ \A b \in Runs : status'[b] = "absent"
  /\ \A a \in Runs : /\ phase'[a] \in Waiting => phase[a] \in Waiting
                     /\ status'[a] # "absent" => status[a] # "absent"
                     /\ status'[a] = "queued" => status[a] = "queued"
                     /\ status'[a] \in Executing /\ row'[a].generation = 0 =>
                          status[a] \in Executing /\ row[a].generation = 0

\* Such a step keeps it.
LEMMA OrderQuietKeeps ==
  ASSUME OrderInv, OrderQuiet
  PROVE  OrderInv'
<1>1. LiveCameFirst'
  BY DEF OrderInv, LiveCameFirst, OrderQuiet, Mates
<1>2. ScanInOrder'
  BY DEF OrderInv, ScanInOrder, OrderQuiet, Mates
<1>3. QueueBehind'
  BY DEF OrderInv, QueueBehind, OrderQuiet, Mates
<1>4. QED
  BY <1>1, <1>2, <1>3 DEF OrderInv

\* Most steps are quiet.
LEMMA OrderQuietSteps ==
  ASSUME IInv, NEW r \in Runs, OwnStep(r) \/ EndStep(r) \/ TurnStep(r)
  PROVE  OrderQuiet
<1>1. CASE OwnStep(r)
  BY <1>1 DEF OwnStep, begins, booting, OrderQuiet, Executing
<1>2. CASE EndStep(r)
  <2>1. \A x \in Runs : status[x] \in Executing => fin[x] = "none"
    BY DEF IInv, InFlightWorks, Executing
  <2>2. QED
    BY <1>2, <2>1 DEF EndStep, booting, OrderQuiet
<1>3. CASE TurnStep(r)
  <2>1. \A x \in Runs : status'[x] = status[x] \/ status'[x] = "absent"
    BY <1>3 DEF TurnStep, Ends
  <2>2. QED
    BY <1>3, <2>1 DEF TurnStep, Ends, booting, OrderQuiet, Executing, Waiting
<1>4. QED
  BY <1>1, <1>2, <1>3

\* What is taken is the first of the queue.
LEMMA NextQueuedIsFirst ==
  ASSUME arrival \in [Runs -> Nat], NEW s, NEW st, NextQueued(s, st) # NoRun,
         NEW x \in Runs, SessionOf[x] = s, st[x] = "queued"
  PROVE  arrival[NextQueued(s, st)] <= arrival[x]
<1> DEFINE ready == {y \in Runs : SessionOf[y] = s /\ st[y] = "queued"}
<1>1. NextQueued(s, st) = First(ready) /\ x \in ready
  BY DEF NextQueued
<1>2. QED
  BY <1>1, FirstIsMember

\* Taking the first of the queue keeps the order.
LEMMA TakeOrder ==
  ASSUME IInv, OrderInv, NEW s \in Sessions, NEW st \in [Runs -> Active \cup {"absent"}],
         TakeStep(s, st)
  PROVE  OrderInv'
<1> DEFINE q == NextQueued(s, st)
<1>1. arrival \in [Runs -> Nat]
  BY DEF IInv, TypeOK
<1>2. \/ q = NoRun
      \/ /\ q \in Runs /\ SessionOf[q] = s /\ st[q] = "queued"
         /\ \A x \in Runs : SessionOf[x] = s /\ st[x] = "queued" => arrival[q] <= arrival[x]
  BY <1>1, NextQueuedIsIdle, NextQueuedIsFirst
<1>3. /\ UNCHANGED <<row, arrival, orphans>>
      /\ \A x \in Runs : status'[x] = IF x = q THEN "running" ELSE st[x]
      /\ \A x \in Runs :
           \/ st[x] = status[x] /\ phase'[x] = phase[x]
           \/ st[x] = "queued" /\ phase[x] = "created" /\ phase'[x] = "returning"
  BY RunsAssumption DEF TakeStep, Take
<1> HIDE DEF q
<1>4. \A x \in Runs : /\ phase'[x] \in Waiting => phase[x] \in Waiting
                      /\ status'[x] # "absent" => st[x] # "absent"
                      /\ st[x] # status[x] => st[x] = "queued" /\ phase[x] = "created"
  BY <1>2, <1>3, RunsAssumption DEF Waiting
<1>5. \A a, b \in Runs : Mates(a, b) /\ phase[a] \in Waiting /\ st[b] # "absent" =>
        arrival[b] < arrival[a]
  BY <1>4 DEF OrderInv, LiveCameFirst, IInv, TurnsTaken, Mates, InTurn, Waiting
<1>6. LiveCameFirst'
  BY <1>3, <1>4, <1>5 DEF LiveCameFirst, Mates
<1>7. ScanInOrder'
  BY <1>3, <1>4 DEF OrderInv, ScanInOrder, IInv, ScanFirst, Mates, Waiting
<1>8. QueueBehind'
  <2> SUFFICES ASSUME NEW a \in Runs, NEW b \in Runs, Mates(a, b), arrival[b] < arrival[a],
                      status'[a] \in Executing, row[a].generation = 0, status'[b] = "queued"
               PROVE  FALSE
    BY <1>3 DEF QueueBehind, Mates
  <2>1. st[b] = "queued"
    BY <1>3
  <2>2. CASE a = q
    BY <1>1, <1>2, <2>1, <2>2, RunsAssumption DEF Mates
  <2>3. CASE a # q
    <3>1. status[a] \in Executing /\ status[a] # "absent"
      BY <1>3, <2>3 DEF Executing
    <3>2. CASE status[b] = "queued"
      BY <3>1, <3>2 DEF OrderInv, QueueBehind
    <3>3. CASE phase[b] = "created"
      <4>1. arrival[a] < arrival[b]
        BY <3>1, <3>3 DEF OrderInv, LiveCameFirst, Mates, Waiting
      <4>2. QED
        BY <1>1, <4>1
    <3>4. QED
      BY <1>4, <2>1, <3>2, <3>3
  <2>4. QED
    BY <2>2, <2>3
<1>9. QED
  BY <1>6, <1>7, <1>8 DEF OrderInv

\* The three places that call startNextQueued.
LEMMA TakesInOrder ==
  ASSUME IInv, OrderInv, \/ \E r \in Runs : OpenQueued(r) \/ StartNext(r)
                         \/ \E s \in Sessions : BootDequeue(s)
  PROVE  OrderInv'
<1>1. ASSUME NEW r \in Runs, OpenQueued(r)
      PROVE  OrderInv'
  <2> DEFINE opened == [status EXCEPT ![r] = "queued"]
  <2>1. opened \in [Runs -> Active \cup {"absent"}] /\ SessionOf[r] \in Sessions
    BY RunsAssumption DEF IInv, TypeOK, Active
  <2>2. TakeStep(SessionOf[r], opened)
    BY <1>1, CreatedIsAlone DEF TakeStep, OpenQueued, IInv, TypeOK, booting, history
  <2>3. QED
    BY <2>1, <2>2, TakeOrder
<1>2. ASSUME NEW r \in Runs, StartNext(r)
      PROVE  OrderInv'
  <2>1. status \in [Runs -> Active \cup {"absent"}] /\ SessionOf[r] \in Sessions
    BY RunsAssumption DEF IInv, TypeOK
  <2>2. TakeStep(SessionOf[r], status)
    BY <1>2 DEF TakeStep, StartNext, EndFrame, IInv, TypeOK, booting
  <2>3. QED
    BY <2>1, <2>2, TakeOrder
<1>3. ASSUME NEW s \in Sessions, BootDequeue(s)
      PROVE  OrderInv'
  <2>1. status \in [Runs -> Active \cup {"absent"}]
    BY DEF IInv, TypeOK
  <2>2. TakeStep(s, status)
    BY <1>3 DEF TakeStep, BootDequeue, begins, history
  <2>3. QED
    BY <2>1, <2>2, TakeOrder
<1>4. QED
  BY <1>1, <1>2, <1>3

\* The other steps of a message: it is the last of its session, and alone in it
\* when it starts.
LEMMA BeginOrder ==
  ASSUME IInv, OrderInv, NEW r \in Runs,
         \/ \E m \in Multitask : Begin(r, m)
         \/ CreateRow(r) \/ CreateFails(r) \/ OpenSuperseded(r) \/ OpenAndStart(r)
         \/ BeginReturns(r)
  PROVE  OrderInv'
<1>0. /\ phase \in [Runs -> Phases]
      /\ status \in [Runs -> Active \cup {"absent"}]
      /\ row \in [Runs -> Row]
      /\ arrival \in [Runs -> Nat]
      /\ sent \in Nat
  BY DEF IInv, TypeOK
<1>1. CASE \E m \in Multitask : Begin(r, m)
  <2>1. /\ UNCHANGED <<row, status, orphans>>
        /\ phase[r] = "unsent" /\ boot = "up"
        /\ \A x \in Runs \ {r} : arrival'[x] = arrival[x] /\ phase'[x] = phase[x]
        /\ arrival'[r] = sent + 1
    BY <1>0, <1>1 DEF Begin, coord, booting
  <2>2. status[r] = "absent" /\ orphans = {} /\ \A x \in Runs : arrival[x] <= sent
    BY <2>1 DEF IInv, Untouched, Unrecorded, ScanFirst, TurnsTaken
  <2>3. LiveCameFirst'
    BY <1>0, <2>1, <2>2 DEF OrderInv, LiveCameFirst, Mates
  <2>4. ScanInOrder'
    BY <2>1, <2>2 DEF ScanInOrder
  <2>5. QueueBehind'
    BY <2>1, <2>2 DEF OrderInv, QueueBehind, Mates, Executing
  <2>6. QED
    BY <2>3, <2>4, <2>5 DEF OrderInv
<1>2. CASE CreateRow(r) \/ CreateFails(r)
  <2>1. status[r] = "absent" /\ phase[r] = "creating"
    BY <1>2 DEF CreateRow, CreateFails, IInv, Untouched, Unrecorded
  <2>2. OrderQuiet
    BY <1>0, <1>2, <2>1 DEF CreateRow, CreateFails, coord, booting, OrderQuiet, Executing, Waiting
  <2>3. QED
    BY <2>2, OrderQuietKeeps
<1>3. CASE OpenSuperseded(r) \/ BeginReturns(r)
  <2>1. status' = status
    BY <1>0, <1>3, CreatedIsAlone DEF OpenSuperseded, BeginReturns, FinalizeIn, coord
  <2>2. OrderQuiet
    BY <1>0, <1>3, <2>1 DEF OpenSuperseded, BeginReturns, booting, OrderQuiet, Waiting
  <2>3. QED
    BY <2>2, OrderQuietKeeps
<1>4. CASE OpenAndStart(r)
  <2>1. /\ UNCHANGED <<row, arrival, orphans>>
        /\ phase[r] = "created" /\ phase'[r] = "returned" /\ status'[r] = "running"
        /\ \A x \in Runs \ {r} : status'[x] = status[x] /\ phase'[x] = phase[x]
    BY <1>0, <1>4 DEF OpenAndStart, booting
  <2>2. orphans = {} /\ \A x \in Runs : SessionOf[x] = SessionOf[r] => status[x] = "absent"
    BY <1>4, CreatedIsAlone DEF OpenAndStart, IInv, StartsAlone
  <2>3. \A x \in Runs : Mates(r, x) /\ phase[x] \in Waiting => arrival[r] < arrival[x]
    BY <2>1 DEF IInv, TurnsTaken, InTurn, Waiting, Mates
  <2>4. LiveCameFirst'
    BY <2>1, <2>3 DEF OrderInv, LiveCameFirst, Mates, Waiting
  <2>5. ScanInOrder'
    BY <2>1, <2>2 DEF ScanInOrder
  <2>6. QueueBehind'
    BY <2>1, <2>2 DEF OrderInv, QueueBehind, Mates
  <2>7. QED
    BY <2>4, <2>5, <2>6 DEF OrderInv
<1>5. QED
  BY <1>1, <1>2, <1>3, <1>4

\* Stops, a reset and the end of the scan open nothing.
LEMMA StopsInOrder ==
  ASSUME IInv, OrderInv,
         \/ \E s \in Sessions : StopSession(s) \/ StopAll(s)
         \/ \E r \in Runs : StopRun(r)
         \/ Crash \/ RecoverFails \/ BootDone
  PROVE  OrderInv'
<1>1. CASE Crash
  BY <1>1 DEF Crash, OrderInv, LiveCameFirst, ScanInOrder, QueueBehind, Executing
<1>2. CASE RecoverFails \/ BootDone
  BY <1>2, OrderQuietKeeps DEF RecoverFails, BootDone, begins, coord, OrderQuiet
<1>3. ASSUME NEW S, Finalize(S, "aborted"), StopFrame
      PROVE  OrderInv'
  <2>1. \A x \in Runs : status'[x] = status[x] \/ status'[x] = "absent"
    BY <1>3 DEF Finalize, FinalizeIn
  <2>2. OrderQuiet
    BY <1>3, <2>1 DEF StopFrame, booting, OrderQuiet, Executing
  <2>3. QED
    BY <2>2, OrderQuietKeeps
<1>4. QED
  BY <1>1, <1>2, <1>3 DEF StopSession, StopAll, StopRun

\* The scan opens the earliest of the rows it has not visited.
LEMMA VisitOrder ==
  ASSUME IInv, OrderInv, NEW r \in Runs,
         ReopenQueued(r) \/ CloseOrphan(r) \/ ScheduleOrphan(r)
  PROVE  OrderInv'
<1>1. VisitStep(r)
  BY VisitSteps
<1>2. /\ arrival' = arrival /\ phase' = phase /\ orphans' = orphans \ {r} /\ r \in orphans
      /\ \A x \in Runs \ {r} : row'[x] = row[x] /\ status'[x] = status[x]
      /\ status'[r] \in {"queued", "absent"} \/ row'[r].generation > 0
  BY <1>1 DEF VisitStep, begins
<1>3. /\ arrival \in [Runs -> Nat] /\ orphans \subseteq Runs
      /\ \A x \in orphans : arrival[r] <= arrival[x]
  BY FirstIsMember DEF IInv, TypeOK, ReopenQueued, CloseOrphan, ScheduleOrphan, NextOrphan
<1>4. \A x \in Runs : phase[x] \notin Waiting
  BY <1>2 DEF IInv, ScanFirst
<1>5. LiveCameFirst'
  BY <1>2, <1>4 DEF LiveCameFirst
<1>6. ScanInOrder'
  BY <1>2, <1>3 DEF OrderInv, ScanInOrder, Mates
<1>7. QueueBehind'
  <2> SUFFICES ASSUME NEW a \in Runs, NEW b \in Runs, Mates(a, b), arrival[b] < arrival[a],
                      status'[a] \in Executing, row'[a].generation = 0, status'[b] = "queued"
               PROVE  FALSE
    BY <1>2 DEF QueueBehind, Mates
  <2>1. a # r
    BY <1>2 DEF Executing
  <2>2. CASE b # r
    BY <1>2, <2>1, <2>2 DEF OrderInv, QueueBehind
  <2>3. CASE b = r
    <3>1. Mates(b, a) /\ b \in orphans /\ status[a] # "absent"
      BY <1>2, <2>1, <2>3 DEF Mates, Executing
    <3>2. arrival[a] <= arrival[b]
      BY <3>1 DEF OrderInv, ScanInOrder
    <3>3. QED
      BY <1>3, <3>2
  <2>4. QED
    BY <2>2, <2>3
<1>8. QED
  BY <1>5, <1>6, <1>7 DEF OrderInv

\* OrderInv is inductive over IInv.
LEMMA OrderStep == IInv /\ OrderInv /\ [Next]_vars => OrderInv'
<1> SUFFICES ASSUME IInv, OrderInv, [Next]_vars
             PROVE  OrderInv'
  OBVIOUS
<1>1. CASE UNCHANGED vars \/ Idle
  BY <1>1, OrderQuietKeeps DEF Idle, vars, begins, coord, booting, OrderQuiet
<1>2. CASE UserStep
  BY <1>2, BeginOrder, StopsInOrder DEF UserStep
<1>3. ASSUME NEW r \in Runs, BeginStep(r)
      PROVE  OrderInv'
  BY <1>3, TurnSteps, OrderQuietSteps, OrderQuietKeeps, BeginOrder, TakesInOrder DEF BeginStep
<1>4. ASSUME NEW r \in Runs, RunStep(r) \/ AttemptCheckpoints(r)
      PROVE  OrderInv'
  BY <1>4, AttemptSteps, EndSteps, OrderQuietSteps, OrderQuietKeeps, TakesInOrder DEF RunStep
<1>5. CASE BootStep \/ Crash
  BY <1>5, VisitOrder, TakesInOrder, StopsInOrder DEF BootStep
<1>6. CASE StoreFault
  BY <1>6, BeginOrder, AttemptSteps, EndSteps, OrderQuietSteps, OrderQuietKeeps, StopsInOrder
     DEF StoreFault
<1>7. QED
  BY <1>1, <1>2, <1>3, <1>4, <1>5, <1>6 DEF Next

\* The first attempt of a message never overtakes an earlier message of its
\* session that still waits in the queue: sends, stops, deferrals, resumes and
\* the reopening after a reset keep the order (beginInTurn, startNextQueued,
\* recoverOrphans).
THEOREM TurnsInOrder == Spec => InSendOrder
<1>1. ASSUME IInv, OrderInv, IInv', OrderInv', Next, NEW r \in Runs, Starts(r),
             row'[r].generation = 0, NEW x \in Runs, SessionOf[x] = SessionOf[r],
             arrival[x] < arrival[r]
      PROVE  status'[x] # "queued"
  <2>1. arrival' = arrival
    BY <1>1, StartSteps DEF IInv, OpenAndStart, DequeueWrite, ResumeWrite, RunFrame, begins
  <2>2. status'[r] \in Executing
    BY <1>1 DEF IInv, InFlightWorks, Starts
  <2>3. Mates(r, x)
    BY <1>1 DEF Mates, IInv, TypeOK
  <2>4. QED
    BY <1>1, <2>1, <2>2, <2>3 DEF OrderInv, QueueBehind, Mates
<1>2. IInv /\ OrderInv /\ IInv' /\ OrderInv' /\ [Next]_vars =>
        [\A r \in Runs : Starts(r) /\ row'[r].generation = 0 =>
           \A x \in Runs : SessionOf[x] = SessionOf[r] /\ arrival[x] < arrival[r]
                            => status'[x] # "queued"]_vars
  BY <1>1
<1>3. Init => OrderInv
  BY DEF Init, OrderInv, LiveCameFirst, ScanInOrder, QueueBehind, Executing
<1>4. QED
  BY <1>2, <1>3, OrderStep, Inductive, PTL DEF Spec, InSendOrder

=============================================================================
