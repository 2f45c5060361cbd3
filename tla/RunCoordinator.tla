--------------------------- MODULE RunCoordinator ---------------------------
(***************************************************************************)
(* The durable runs of one user object: do/run-coordinator.ts over the     *)
(* `turn_runs` table of do/run-store.ts.                                   *)
(*                                                                         *)
(* The object is single threaded: what happens between two awaits of the   *)
(* code is one step here, and every await that other code can run during   *)
(* is a state of its own.  `row` and `cp` survive a reset of the object;   *)
(* every other variable is the memory of one incarnation, or history.      *)
(*                                                                         *)
(* Abstracted: a checkpoint id is its ordinal (0 is "none"); a due time is *)
(* any later moment, so the back-off delays and the supersede grace are    *)
(* nondeterministic; the Map order of the live runs of a session is their  *)
(* arrival order, because `begin` serves a session one message at a time   *)
(* and `listActive` reopens rows oldest first.                             *)
(***************************************************************************)
EXTENDS Naturals

CONSTANTS
  Runs,             \* run ids, one per message
  Sessions,         \* chat sessions
  SessionOf,        \* the session each run's message is sent to
  NoRun,            \* no run: nothing is awaited
  RecoveryAttempts, \* config.recoveryAttempts: retries without progress
  RecoveryTotal,    \* config.recoveryTotalAttempts: recoveries in all
  MaxCheckpoint,    \* bound: checkpoints written per session
  MaxCrashes,       \* bound: resets of the object
  MaxStoreErrors    \* bound: rejected writes to the run table

ASSUME RunsAssumption ==
  /\ SessionOf \in [Runs -> Sessions]
  /\ NoRun \notin Runs

ASSUME CapsAssumption ==
  /\ RecoveryAttempts \in Nat
  /\ RecoveryTotal \in Nat

ASSUME BoundsAssumption ==
  /\ MaxCheckpoint \in Nat
  /\ MaxCrashes \in Nat
  /\ MaxStoreErrors \in Nat

VARIABLES
  row,        \* [Runs -> Row]: the turn_runs table
  cp,         \* [Sessions -> Nat]: the latest checkpoint of each thread
  sent,       \* how many messages have been sent
  arrival,    \* [Runs -> Nat]: the order the messages were sent in
  rule,       \* [Runs -> Rules]: the message's multitask rule, then the decision
  phase,      \* [Runs -> Phases]: where the `begin` call of the run is
  superseded, \* the `begin` tickets marked superseded
  awaits,     \* [Runs -> Runs or NoRun]: the run a `begin` call waits on
  status,     \* [Runs -> Active or "absent"]: record.status in the live map
  inFlight,   \* attemptInFlight
  aborted,    \* the runs whose abort signal fired
  resumed,    \* the attempts started as a resume (without new input)
  work,       \* [Runs -> Work]: the run's attempt, or the await before it
  fin,        \* [Runs -> Ending]: where the finalize call of the run is
  outcome,    \* [Runs -> terminal status or "none"]: what a closing run ends as
  took,       \* [Runs -> Runs or NoRun]: the run an ending run dequeued
  alarm,      \* the run the resumeDue loop is on, or NoRun
  boot,       \* "up", or "booting" while recoverOrphans runs
  orphans,    \* the rows recoverOrphans has not visited yet
  bootAwaits, \* the run recoverOrphans waits on, or NoRun
  crashes,    \* resets so far
  storeErrors,\* rejected writes so far
  touched,    \* history: runs whose attempt wrote a checkpoint
  overlapped  \* history: sessions where a run began over another's open row

begins == <<sent, arrival, rule, phase, superseded, awaits>>
coord  == <<status, inFlight, aborted, resumed, work, fin, outcome, took>>
booting == <<boot, orphans, bootAwaits>>
faults == <<crashes, storeErrors>>
history == <<touched, overlapped>>
vars   == <<row, cp, begins, coord, alarm, booting, faults, history>>

-----------------------------------------------------------------------------
Multitask == {"interrupt", "enqueue"}

\* What beginInTurn decides: start at once, queue, or queue only because the
\* superseded run outlived its grace (`queuedBehindSuperseded`).
Decision  == {"start", "queue", "behind"}
Rules     == Multitask \cup Decision \cup {"none"}

Executing == {"running", "recovering"}
Active    == Executing \cup {"queued"}
Terminal  == {"finished", "aborted", "interrupted", "failed"}

\* The awaits of `begin`: its turn, the queued runs it cancels, the grace of
\* the run it supersedes, the store; then the run is open (`returning`).
Waiting == {"waiting", "cancelling", "grace", "creating", "created", "returning"}
Phases  == Waiting \cup {"unsent", "returned", "lost"}

\* The continuation behind attemptInFlight, and the one of finalize.
Work   == {"none", "dequeuing", "preparing", "attempt", "deferring", "resuming"}
Ending == {"none", "closing", "ending", "starting"}

NoRow == [status |-> "absent", attempts |-> 0, generation |-> 0,
          checkpoint |-> 0, start |-> 0]

Row == [status : Active \cup Terminal \cup {"absent"}, attempts : Nat,
        generation : Nat, checkpoint : Nat, start : Nat]

Init ==
  /\ row = [r \in Runs |-> NoRow]
  /\ cp = [s \in Sessions |-> 0]
  /\ sent = 0
  /\ arrival = [r \in Runs |-> 0]
  /\ rule = [r \in Runs |-> "none"]
  /\ phase = [r \in Runs |-> "unsent"]
  /\ superseded = {}
  /\ awaits = [r \in Runs |-> NoRun]
  /\ status = [r \in Runs |-> "absent"]
  /\ inFlight = {}
  /\ aborted = {}
  /\ resumed = {}
  /\ work = [r \in Runs |-> "none"]
  /\ fin = [r \in Runs |-> "none"]
  /\ outcome = [r \in Runs |-> "none"]
  /\ took = [r \in Runs |-> NoRun]
  /\ alarm = NoRun
  /\ boot = "up"
  /\ orphans = {}
  /\ bootAwaits = NoRun
  /\ crashes = 0
  /\ storeErrors = 0
  /\ touched = {}
  /\ overlapped = {}

-----------------------------------------------------------------------------
(* Lookups *)

live           == {r \in Runs : status[r] # "absent"}
LiveOf(s)      == {r \in live : SessionOf[r] = s}
QueuedOf(s)    == {r \in LiveOf(s) : status[r] = "queued"}
ExecutingOf(s) == {r \in LiveOf(s) : status[r] \in Executing}

\* First of S in Map order.
First(S) == CHOOSE r \in S : \A x \in S : arrival[r] <= arrival[x]

\* The `begin` calls of s that have not resolved.
PendingBegins(s) == {r \in Runs : SessionOf[r] = s /\ phase[r] \in Waiting}

\* Mutants of HasTurn: no sessionTurns chain; superseded tickets never settle.
HasTurnUnserialized(r) == phase[r] = "waiting"
HasTurnSkipsSuperseded(r) ==
  /\ r \notin superseded
  /\ \A x \in PendingBegins(SessionOf[r]) \ {r} : arrival[r] < arrival[x]

\* Every earlier `begin` of the session has settled.
HasTurn(r) ==
  \A x \in PendingBegins(SessionOf[r]) \ {r} : arrival[r] < arrival[x]

\* An await on r's dequeue or on r's finalize has not resolved yet.
Moving(r) == r \in Runs /\ (fin[r] # "none" \/ work[r] = "dequeuing")

\* An unreadable or absent checkpoint (0) never counts as progress.
CheckpointAdvanced(since, current) == current # 0 /\ current # since

\* Mutant of RunHasCheckpointed: judged by the last attempt's checkpoint.
HasCheckpointedSinceRetry(r) ==
  CheckpointAdvanced(row[r].checkpoint, cp[SessionOf[r]])

\* The graph persisted something for r: the checkpoint moved since r's start.
RunHasCheckpointed(r) ==
  CheckpointAdvanced(row[r].start, cp[SessionOf[r]])

\* Mutant of ListActive: a query without the queued rows.
ListExecuting == {r \in Runs : row[r].status \in Executing}

\* listActive: the rows a reset left for the recovery scan.
ListActive == {r \in Runs : row[r].status \in Active}

\* decideRecovery: the attempts already spent without progress.
Spent(r, current) ==
  IF CheckpointAdvanced(row[r].checkpoint, current) THEN 0 ELSE row[r].attempts

\* Mutant of OutOfRecoveries: both caps off by one.
OutOfRecoveriesLate(r) ==
  \/ row[r].generation > RecoveryTotal
  \/ Spent(r, cp[SessionOf[r]]) > RecoveryAttempts

\* decideOrphanRecovery: close the run instead of scheduling an attempt.
OutOfRecoveries(r) ==
  \/ row[r].generation >= RecoveryTotal
  \/ Spent(r, cp[SessionOf[r]]) >= RecoveryAttempts

-----------------------------------------------------------------------------
(* Effects shared by several steps *)

\* Mutant of FinalizeIn: the closing patch misses the outcome.
FinalizeWithoutOutcome(st, S, out) ==
  LET ended == {r \in S : st[r] # "absent"}
  IN /\ status' = [r \in Runs |-> IF r \in ended THEN "absent" ELSE st[r]]
     /\ fin' = [r \in Runs |-> IF r \in ended THEN "closing" ELSE fin[r]]
     /\ UNCHANGED outcome

\* finalize, up to its first await, of every run of S still in the live map st.
FinalizeIn(st, S, out) ==
  LET ended == {r \in S : st[r] # "absent"}
  IN /\ status' = [r \in Runs |-> IF r \in ended THEN "absent" ELSE st[r]]
     /\ fin' = [r \in Runs |-> IF r \in ended THEN "closing" ELSE fin[r]]
     /\ outcome' = [r \in Runs |-> IF r \in ended THEN out ELSE outcome[r]]

Finalize(S, out) == FinalizeIn(status, S, out)

\* Mutant of Closable: a run is closed under the continuation it is in.
ClosableInFlight(S) == S

\* abortRun and cancelQueued close only what no continuation works on; the
\* others see the signal when their await resolves.
Closable(S) == S \ inFlight

\* Mutant of Stopped: the signal is not looked at after an await.
StoppedUnseen(r) == r \notin Runs

\* The abort signal fired while the continuation awaited.
Stopped(r) == r \in aborted

\* An attempt (or the step before it) is over: the run is closed.
Finish(r, out) ==
  /\ inFlight' = inFlight \ {r}
  /\ work' = [work EXCEPT ![r] = "none"]
  /\ Finalize({r}, out)

\* How a run ends that never got an answer.
Unanswered(r) == IF Stopped(r) THEN "aborted" ELSE "failed"

\* Mutants of NextQueued: the newest queued run; the queue is forgotten.
NextQueuedNewest(s, st) ==
  LET ready == {r \in Runs : SessionOf[r] = s /\ st[r] = "queued"}
  IN IF ready = {} \/ \E r \in Runs : SessionOf[r] = s /\ st[r] \in Executing
       THEN NoRun
       ELSE CHOOSE r \in ready : \A x \in ready : arrival[r] >= arrival[x]
NextQueuedForgotten(s, st) == NoRun

\* startNextQueued, up to its first await, on the live map st: the run it
\* takes, if any.
NextQueued(s, st) ==
  LET mine  == {r \in Runs : SessionOf[r] = s}
      ready == {r \in mine : st[r] = "queued"}
  IN IF ready = {} \/ \E r \in mine : st[r] \in Executing
       THEN NoRun
       ELSE First(ready)

\* The run q, if any, is taken: its session is busy from here on.
Take(q, st) ==
  /\ inFlight' = inFlight \cup ({q} \ {NoRun})
  /\ status' = [r \in Runs |-> IF r = q THEN "running" ELSE st[r]]
  /\ work' = [r \in Runs |-> IF r = q THEN "dequeuing" ELSE work[r]]

\* History: r's row becomes executing while another run's row still is.
NoteOverlap(r) ==
  overlapped' = overlapped \cup
    {s \in Sessions : s = SessionOf[r] /\ \E x \in Runs \ {r} :
       SessionOf[x] = s /\ row[x].status \in Executing}

\* A store write may be rejected, within the bound.
StoreError ==
  /\ storeErrors < MaxStoreErrors
  /\ storeErrors' = storeErrors + 1
  /\ UNCHANGED crashes

-----------------------------------------------------------------------------
(* begin *)

\* A message is sent.  Under `interrupt` it supersedes the session's `begin`
\* calls that have not resolved; its own ticket joins them.
Begin(r, m) ==
  /\ boot = "up"
  /\ phase[r] = "unsent"
  /\ phase' = [phase EXCEPT ![r] = "waiting"]
  /\ rule' = [rule EXCEPT ![r] = m]
  /\ sent' = sent + 1
  /\ arrival' = [arrival EXCEPT ![r] = sent + 1]
  /\ superseded' = IF m = "interrupt"
                     THEN superseded \cup PendingBegins(SessionOf[r])
                     ELSE superseded
  /\ UNCHANGED <<row, cp, awaits, coord, alarm, booting, faults, history>>

\* The message goes on to create its row.
Admit(r, decision) ==
  /\ phase' = [phase EXCEPT ![r] = "creating"]
  /\ rule' = [rule EXCEPT ![r] = decision]
  /\ awaits' = [awaits EXCEPT ![r] = NoRun]
  /\ UNCHANGED coord

\* The interrupt rule: cancel the next queued run and wait for it; when none
\* is left, abort the executing run and give it the grace to wind down.
Supersede(r) ==
  LET s == SessionOf[r]
      x == First(ExecutingOf(s))
  IN \/ /\ QueuedOf(s) # {}
        /\ Finalize({First(QueuedOf(s))}, "aborted")
        /\ phase' = [phase EXCEPT ![r] = "cancelling"]
        /\ awaits' = [awaits EXCEPT ![r] = First(QueuedOf(s))]
        /\ UNCHANGED <<rule, inFlight, aborted, resumed, work, took>>
     \/ /\ QueuedOf(s) = {}
        /\ ExecutingOf(s) # {}
        /\ aborted' = aborted \cup {x}
        /\ Finalize(Closable({x}), "aborted")
        /\ phase' = [phase EXCEPT ![r] = "grace"]
        /\ awaits' = [awaits EXCEPT ![r] = NoRun]
        /\ UNCHANGED <<rule, inFlight, resumed, work, took>>
     \/ /\ LiveOf(s) = {}
        /\ Admit(r, "start")

BeginFrame == UNCHANGED <<row, cp, sent, arrival, superseded, alarm, booting,
                          faults, history>>

\* beginInTurn up to its first await.
TakeTurn(r) ==
  /\ phase[r] = "waiting"
  /\ HasTurn(r)
  /\ \/ /\ r \in superseded \/ LiveOf(SessionOf[r]) = {}
        /\ Admit(r, "start")
     \/ /\ r \notin superseded
        /\ LiveOf(SessionOf[r]) # {}
        /\ rule[r] = "enqueue"
        /\ Admit(r, "queue")
     \/ /\ r \notin superseded
        /\ LiveOf(SessionOf[r]) # {}
        /\ rule[r] = "interrupt"
        /\ Supersede(r)
  /\ BeginFrame

\* The queued run it cancelled has ended: on with the loop.
CancelNext(r) ==
  /\ phase[r] = "cancelling"
  /\ ~Moving(awaits[r])
  /\ Supersede(r)
  /\ BeginFrame

\* The superseded run ended, the ticket was woken, or the grace passed: a run
\* still winding down is waited behind.
GraceOver(r) ==
  /\ phase[r] = "grace"
  /\ Admit(r, IF r \notin superseded /\ LiveOf(SessionOf[r]) # {}
                THEN "behind" ELSE "start")
  /\ BeginFrame

CreateRow(r) ==
  LET at      == cp[SessionOf[r]]
      started == rule[r] = "start" /\ r \notin superseded
  IN /\ phase[r] = "creating"
     /\ phase' = [phase EXCEPT ![r] = "created"]
     /\ row' = [row EXCEPT ![r] =
          [NoRow EXCEPT !.status = IF started THEN "running" ELSE "queued",
                        !.checkpoint = at, !.start = at]]
     /\ IF started THEN NoteOverlap(r) ELSE UNCHANGED overlapped
     /\ UNCHANGED <<cp, sent, arrival, rule, superseded, awaits, coord, alarm,
                    booting, faults, touched>>

\* The row could not be written: the message is refused.
CreateFails(r) ==
  /\ phase[r] = "creating"
  /\ StoreError
  /\ phase' = [phase EXCEPT ![r] = "lost"]
  /\ rule' = [rule EXCEPT ![r] = "none"]
  /\ superseded' = superseded \ {r}
  /\ UNCHANGED <<row, cp, sent, arrival, awaits, coord, alarm, booting, history>>

\* The row is written: from the check of the ticket to the start of the
\* attempt (or the dequeue) there is no await.
OpenSuperseded(r) ==
  /\ phase[r] = "created"
  /\ r \in superseded
  /\ FinalizeIn([status EXCEPT ![r] = "queued"], {r}, "aborted")
  /\ phase' = [phase EXCEPT ![r] = "returning"]
  /\ awaits' = [awaits EXCEPT ![r] = r]
  /\ UNCHANGED <<row, cp, sent, arrival, rule, superseded, inFlight, aborted,
                 resumed, work, took, alarm, booting, faults, history>>

OpenAndStart(r) ==
  /\ phase[r] = "created"
  /\ r \notin superseded
  /\ rule[r] = "start"
  /\ status' = [status EXCEPT ![r] = "running"]
  /\ inFlight' = inFlight \cup {r}
  /\ work' = [work EXCEPT ![r] = "attempt"]
  /\ phase' = [phase EXCEPT ![r] = "returned"]
  /\ UNCHANGED <<row, cp, sent, arrival, rule, superseded, awaits, aborted,
                 resumed, fin, outcome, took, alarm, booting, faults, history>>

OpenQueued(r) ==
  LET opened == [status EXCEPT ![r] = "queued"]
      next   == NextQueued(SessionOf[r], opened)
  IN /\ phase[r] = "created"
     /\ r \notin superseded
     /\ rule[r] # "start"
     /\ Take(next, opened)
     /\ phase' = [phase EXCEPT ![r] = "returning"]
     /\ awaits' = [awaits EXCEPT ![r] = next]
     /\ UNCHANGED <<row, cp, sent, arrival, rule, superseded, aborted, resumed,
                    fin, outcome, took, alarm, booting, faults, history>>

\* `begin` resolves and the session's next message gets its turn.
BeginReturns(r) ==
  /\ phase[r] = "returning"
  /\ ~Moving(awaits[r])
  /\ phase' = [phase EXCEPT ![r] = "returned"]
  /\ awaits' = [awaits EXCEPT ![r] = NoRun]
  /\ superseded' = superseded \ {r}
  /\ UNCHANGED <<row, cp, sent, arrival, rule, coord, alarm, booting, faults,
                 history>>

-----------------------------------------------------------------------------
(* Stop *)

StopFrame == UNCHANGED <<row, cp, sent, arrival, rule, phase, awaits, inFlight,
                         resumed, work, took, alarm, booting, faults, history>>

\* Queued only because the run its message superseded outlived the grace.
Behind(s) == {r \in QueuedOf(s) : rule[r] = "behind"}

\* abortSession: the session's current message, wherever it is.
StopSession(s) ==
  LET left == LiveOf(s) \ Behind(s)
      busy == ExecutingOf(s)
      hit  == IF busy # {} THEN {First(busy)}
              ELSE IF left # {} THEN {First(left)} ELSE {}
  IN /\ boot = "up"
     /\ PendingBegins(s) \cup LiveOf(s) # {}
     /\ superseded' = superseded \cup PendingBegins(s)
     /\ aborted' = aborted \cup (hit \cap busy)
     /\ Finalize(Behind(s) \cup Closable(hit), "aborted")
     /\ StopFrame

\* abortAllForSession: every run and every waiting message of the session.
StopAll(s) ==
  /\ boot = "up"
  /\ PendingBegins(s) \cup LiveOf(s) # {}
  /\ superseded' = superseded \cup PendingBegins(s)
  /\ aborted' = aborted \cup ExecutingOf(s)
  /\ Finalize(Closable(LiveOf(s)), "aborted")
  /\ StopFrame

\* abortById: exactly this run, never a later one.
StopRun(r) ==
  /\ boot = "up"
  /\ r \in live
  /\ aborted' = aborted \cup ({r} \cap ExecutingOf(SessionOf[r]))
  /\ Finalize(Closable({r}), "aborted")
  /\ UNCHANGED superseded
  /\ StopFrame

-----------------------------------------------------------------------------
(* Dequeue and attempt *)

RunFrame == UNCHANGED <<begins, aborted, took, booting>>

\* The dequeued run's start is written; an abort meanwhile closes it here.
DequeueWrite(r) ==
  LET at == cp[SessionOf[r]]
  IN /\ work[r] = "dequeuing"
     /\ row' = [row EXCEPT ![r].status = "running", ![r].checkpoint = at,
                           ![r].start = at]
     /\ IF Stopped(r)
          THEN Finish(r, "aborted")
          ELSE /\ work' = [work EXCEPT ![r] = "preparing"]
               /\ UNCHANGED <<status, inFlight, fin, outcome>>
     /\ NoteOverlap(r)
     /\ UNCHANGED <<cp, resumed, alarm, faults, touched>>
     /\ RunFrame

DequeueFails(r) ==
  /\ work[r] = "dequeuing"
  /\ StoreError
  /\ Finish(r, Unanswered(r))
  /\ UNCHANGED <<row, cp, resumed, alarm, history>>
  /\ RunFrame

\* A queued or recovered attempt passed the checks ahead of the graph.
EnterGraph(r) ==
  /\ work[r] = "preparing"
  /\ work' = [work EXCEPT ![r] = "attempt"]
  /\ UNCHANGED <<row, cp, status, inFlight, resumed, fin, outcome, alarm, faults,
                 history>>
  /\ RunFrame

\* The graph persists a step (the first one holds the run's input).
AttemptCheckpoints(r) ==
  /\ work[r] = "attempt"
  /\ cp[SessionOf[r]] < MaxCheckpoint
  /\ cp' = [cp EXCEPT ![SessionOf[r]] = @ + 1]
  /\ touched' = touched \cup {r}
  /\ UNCHANGED <<row, coord, begins, alarm, booting, faults, overlapped>>

\* The attempt answers, fails, or ends on its signal (or on the cancellation of
\* its channel request).
AttemptEnds(r, out) ==
  /\ work[r] \in {"preparing", "attempt"}
  /\ out \in {"finished", "failed", "aborted"}
  /\ Finish(r, out)
  /\ UNCHANGED <<row, cp, resumed, alarm, faults, history>>
  /\ RunFrame

\* An attempt that did not reach the graph asks to be retried (defer).
AttemptDefers(r) ==
  /\ work[r] = "preparing"
  /\ IF Stopped(r) \/ row[r].attempts >= RecoveryAttempts
       THEN Finish(r, Unanswered(r))
       ELSE /\ work' = [work EXCEPT ![r] = "deferring"]
            /\ UNCHANGED <<status, inFlight, fin, outcome>>
  /\ UNCHANGED <<row, cp, resumed, alarm, faults, history>>
  /\ RunFrame

DeferWrite(r) ==
  /\ work[r] = "deferring"
  /\ row' = [row EXCEPT ![r].status = "recovering", ![r].attempts = @ + 1]
  /\ IF Stopped(r)
       THEN Finish(r, "aborted")
       ELSE /\ inFlight' = inFlight \ {r}
            /\ status' = [status EXCEPT ![r] = "recovering"]
            /\ work' = [work EXCEPT ![r] = "none"]
            /\ UNCHANGED <<fin, outcome>>
  /\ UNCHANGED <<cp, resumed, alarm, faults, history>>
  /\ RunFrame

DeferFails(r) ==
  /\ work[r] = "deferring"
  /\ StoreError
  /\ Finish(r, Unanswered(r))
  /\ UNCHANGED <<row, cp, resumed, alarm, history>>
  /\ RunFrame

-----------------------------------------------------------------------------
(* Finalize *)

EndFrame == UNCHANGED <<cp, sent, arrival, phase, superseded, awaits, alarm,
                        booting, crashes, overlapped>>

\* The run's memory is dropped with its continuation.
Forget(r) ==
  /\ fin' = [fin EXCEPT ![r] = "ending"]
  /\ outcome' = [outcome EXCEPT ![r] = "none"]
  /\ rule' = [rule EXCEPT ![r] = "none"]
  /\ aborted' = aborted \ {r}
  /\ resumed' = resumed \ {r}
  /\ UNCHANGED <<status, inFlight, work, took>>

\* The terminal row and the cutover of the segments, in one transaction.
CloseRow(r) ==
  /\ fin[r] = "closing"
  /\ row' = [row EXCEPT ![r].status = outcome[r]]
  /\ touched' = touched \ {r}
  /\ Forget(r)
  /\ UNCHANGED storeErrors
  /\ EndFrame

\* The error is logged and the run ends all the same.
CloseRowFails(r) ==
  /\ fin[r] = "closing"
  /\ StoreError
  /\ Forget(r)
  /\ UNCHANGED <<row, touched>>
  /\ EndFrame

\* onRunEnded has resolved: the session's next queued run is taken.
StartNext(r) ==
  LET next == NextQueued(SessionOf[r], status)
  IN /\ fin[r] = "ending"
     /\ Take(next, status)
     /\ fin' = [fin EXCEPT ![r] = IF next = NoRun THEN "none" ELSE "starting"]
     /\ took' = [took EXCEPT ![r] = next]
     /\ UNCHANGED <<row, rule, aborted, resumed, outcome, storeErrors, touched>>
     /\ EndFrame

\* finalize resolves once the run it took is started (or ended).
FinalizeReturns(r) ==
  /\ fin[r] = "starting"
  /\ ~Moving(took[r])
  /\ fin' = [fin EXCEPT ![r] = "none"]
  /\ took' = [took EXCEPT ![r] = NoRun]
  /\ UNCHANGED <<row, rule, status, inFlight, aborted, resumed, work, outcome,
                 storeErrors, touched>>
  /\ EndFrame

-----------------------------------------------------------------------------
(* Reset and recovery *)

\* The object is reset: only the rows and the checkpoints are left.
Crash ==
  /\ crashes < MaxCrashes
  /\ crashes' = crashes + 1
  /\ phase' = [r \in Runs |-> IF phase[r] \in Waiting THEN "lost" ELSE phase[r]]
  /\ superseded' = {}
  /\ rule' = [r \in Runs |-> "none"]
  /\ awaits' = [r \in Runs |-> NoRun]
  /\ status' = [r \in Runs |-> "absent"]
  /\ inFlight' = {}
  /\ aborted' = {}
  /\ resumed' = {}
  /\ work' = [r \in Runs |-> "none"]
  /\ fin' = [r \in Runs |-> "none"]
  /\ outcome' = [r \in Runs |-> "none"]
  /\ took' = [r \in Runs |-> NoRun]
  /\ alarm' = NoRun
  /\ boot' = "booting"
  /\ orphans' = ListActive
  /\ bootAwaits' = NoRun
  /\ UNCHANGED <<row, cp, sent, arrival, storeErrors, history>>

\* recoverOrphans visits the next row.
NextOrphan(r) ==
  /\ boot = "booting"
  /\ orphans # {}
  /\ r = First(orphans)
  /\ ~Moving(bootAwaits)
  /\ orphans' = orphans \ {r}

BootFrame == UNCHANGED <<cp, begins, inFlight, aborted, resumed, work, took, alarm,
                         boot, faults, history>>

ReopenQueued(r) ==
  /\ NextOrphan(r)
  /\ row[r].status = "queued"
  /\ status' = [status EXCEPT ![r] = "queued"]
  /\ UNCHANGED <<row, fin, outcome, bootAwaits>>
  /\ BootFrame

\* Either cap is spent: the run is opened only to be closed.
CloseOrphan(r) ==
  /\ NextOrphan(r)
  /\ row[r].status \in Executing
  /\ OutOfRecoveries(r)
  /\ row' = [row EXCEPT ![r].generation = @ + 1]
  /\ FinalizeIn([status EXCEPT ![r] = row[r].status], {r}, "interrupted")
  /\ bootAwaits' = r
  /\ BootFrame

ScheduleOrphan(r) ==
  LET at == cp[SessionOf[r]]
  IN /\ NextOrphan(r)
     /\ row[r].status \in Executing
     /\ ~OutOfRecoveries(r)
     /\ row' = [row EXCEPT ![r].status = "recovering",
                           ![r].attempts = Spent(r, at) + 1,
                           ![r].generation = @ + 1,
                           ![r].checkpoint = at]
     /\ status' = [status EXCEPT ![r] = "recovering"]
     /\ UNCHANGED <<fin, outcome, bootAwaits>>
     /\ BootFrame

\* A store error ends the scan: the boot goes on without the rest.
RecoverFails ==
  /\ boot = "booting"
  /\ orphans # {}
  /\ ~Moving(bootAwaits)
  /\ StoreError
  /\ orphans' = {}
  /\ boot' = "up"
  /\ bootAwaits' = NoRun
  /\ UNCHANGED <<row, cp, begins, coord, alarm, history>>

\* Every row is visited: queued runs of idle sessions start, one by one.
BootDequeue(s) ==
  LET next == NextQueued(s, status)
  IN /\ boot = "booting"
     /\ orphans = {}
     /\ ~Moving(bootAwaits)
     /\ next # NoRun
     /\ Take(next, status)
     /\ bootAwaits' = next
     /\ UNCHANGED <<row, cp, begins, aborted, resumed, fin, outcome, took, alarm, boot,
                    orphans, faults, history>>

BootDone ==
  /\ boot = "booting"
  /\ orphans = {}
  /\ ~Moving(bootAwaits)
  /\ \A s \in Sessions : NextQueued(s, status) = NoRun
  /\ boot' = "up"
  /\ bootAwaits' = NoRun
  /\ UNCHANGED <<row, cp, begins, coord, alarm, orphans, faults, history>>

\* resumeDue takes the next recovering run whose time has come; the loop is
\* on one run at a time.
ResumeDue(r) ==
  /\ status[r] = "recovering"
  /\ r \notin inFlight
  /\ alarm # NoRun => ~Moving(alarm) /\ work[alarm] # "resuming"
  /\ alarm' = r
  /\ inFlight' = inFlight \cup {r}
  /\ work' = [work EXCEPT ![r] = "resuming"]
  /\ UNCHANGED <<row, cp, status, resumed, fin, outcome, faults, history>>
  /\ RunFrame

\* Mutant of ResumeRow: the resume moves the start checkpoint along.
ResumeRowRebased(r) ==
  row' = [row EXCEPT ![r].status = "running", ![r].start = cp[SessionOf[r]]]

ResumeRow(r) == row' = [row EXCEPT ![r].status = "running"]

\* The attempt resumes only when the graph persisted something for the run;
\* otherwise it runs fresh, with the input.
ResumeWrite(r) ==
  /\ work[r] = "resuming"
  /\ ResumeRow(r)
  /\ resumed' = IF RunHasCheckpointed(r) THEN resumed \cup {r} ELSE resumed \ {r}
  /\ IF Stopped(r)
       THEN Finish(r, "aborted")
       ELSE /\ status' = [status EXCEPT ![r] = "running"]
            /\ work' = [work EXCEPT ![r] = "preparing"]
            /\ UNCHANGED <<inFlight, fin, outcome>>
  /\ UNCHANGED <<cp, alarm, faults, history>>
  /\ RunFrame

\* The write is rejected: the next tick tries again.
ResumeFails(r) ==
  /\ work[r] = "resuming"
  /\ StoreError
  /\ IF Stopped(r)
       THEN Finish(r, "aborted")
       ELSE /\ inFlight' = inFlight \ {r}
            /\ work' = [work EXCEPT ![r] = "none"]
            /\ UNCHANGED <<status, fin, outcome>>
  /\ UNCHANGED <<row, cp, resumed, alarm, history>>
  /\ RunFrame

-----------------------------------------------------------------------------
(* Every message is settled and every run is over: the object may sleep. *)
Idle ==
  /\ boot = "up"
  /\ live = {}
  /\ \A r \in Runs : fin[r] = "none" /\ phase[r] \in {"returned", "lost"}
  /\ UNCHANGED vars

\* What the code does by itself once a message is in.
BeginStep(r) ==
  \/ TakeTurn(r) \/ CancelNext(r) \/ GraceOver(r) \/ CreateRow(r)
  \/ OpenSuperseded(r) \/ OpenAndStart(r) \/ OpenQueued(r) \/ BeginReturns(r)

RunStep(r) ==
  \/ DequeueWrite(r)
  \/ EnterGraph(r)
  \/ \E out \in Terminal : AttemptEnds(r, out)
  \/ AttemptDefers(r) \/ DeferWrite(r)
  \/ CloseRow(r) \/ StartNext(r) \/ FinalizeReturns(r)
  \/ ResumeDue(r) \/ ResumeWrite(r)

BootStep ==
  \/ \E r \in Runs : ReopenQueued(r) \/ CloseOrphan(r) \/ ScheduleOrphan(r)
  \/ \E s \in Sessions : BootDequeue(s)
  \/ BootDone

\* What a user, the platform or the store may do to it.
StoreFault ==
  \/ \E r \in Runs : \/ CreateFails(r) \/ DequeueFails(r) \/ DeferFails(r)
                     \/ CloseRowFails(r) \/ ResumeFails(r)
  \/ RecoverFails

UserStep ==
  \/ \E r \in Runs : (\E m \in Multitask : Begin(r, m)) \/ StopRun(r)
  \/ \E s \in Sessions : StopSession(s) \/ StopAll(s)

Next ==
  \/ UserStep
  \/ \E r \in Runs : BeginStep(r) \/ RunStep(r) \/ AttemptCheckpoints(r)
  \/ BootStep
  \/ Crash
  \/ StoreFault
  \/ Idle

Spec == Init /\ [][Next]_vars

\* The event loop runs every resolved await, a turn ends (its budget and its
\* stream timeouts end it), and the alarm armed for a boot or a retry fires.
Fairness ==
  /\ \A r \in Runs : WF_vars(BeginStep(r)) /\ WF_vars(RunStep(r))
  /\ WF_vars(BootStep)

FairSpec == Spec /\ Fairness

-----------------------------------------------------------------------------
(* Properties *)

\* The table, the live map and the continuations hold what their types say, and
\* a run that is being closed has the terminal status its row will get.
TypeOK ==
  /\ row \in [Runs -> Row]
  /\ cp \in [Sessions -> Nat]
  /\ sent \in Nat
  /\ arrival \in [Runs -> Nat]
  /\ rule \in [Runs -> Rules]
  /\ phase \in [Runs -> Phases]
  /\ superseded \subseteq Runs
  /\ awaits \in [Runs -> Runs \cup {NoRun}]
  /\ status \in [Runs -> Active \cup {"absent"}]
  /\ inFlight \subseteq Runs
  /\ aborted \subseteq Runs
  /\ resumed \subseteq Runs
  /\ work \in [Runs -> Work]
  /\ fin \in [Runs -> Ending]
  /\ outcome \in [Runs -> Terminal \cup {"none"}]
  /\ \A r \in Runs : fin[r] = "closing" => outcome[r] \in Terminal
  /\ took \in [Runs -> Runs \cup {NoRun}]
  /\ alarm \in Runs \cup {NoRun}
  /\ boot \in {"up", "booting"}
  /\ orphans \subseteq Runs
  /\ bootAwaits \in Runs \cup {NoRun}
  /\ crashes \in Nat
  /\ storeErrors \in Nat
  /\ touched \subseteq Runs
  /\ overlapped \subseteq Sessions

\* At most one run of a session is past its queue (begin, startNextQueued,
\* recoverOrphans and resumeDue between them), however sends, stops, grace
\* time-outs, deferrals and resets interleave.  The exception: a run began
\* while the row of an ended one was still open, and a reset brought that row
\* back beside it (OneAttemptPerSession states the claim without it).
OneRunPerSession ==
  \A a, b \in live :
    /\ a # b
    /\ SessionOf[a] = SessionOf[b]
    /\ status[a] \in Executing /\ status[b] \in Executing
    => /\ SessionOf[a] \in overlapped
       /\ row[a].generation > 0 \/ row[b].generation > 0

\* "at most one attempt executes per session" (begin): false of the code, when
\* a reset lands between the opening of a run and the close of the one before.
OneAttemptPerSession ==
  \A a, b \in Runs :
    /\ a # b
    /\ SessionOf[a] = SessionOf[b]
    /\ work[a] \in {"preparing", "attempt"}
    => work[b] \notin {"preparing", "attempt"}

\* Whatever the table calls active the object is still going to end: it is in
\* the live map, being opened or closed, or waiting for the recovery scan.
\* (A run that is in the table only would stay busy until the next reset.)
ActiveRowsAreHeld ==
  storeErrors = 0 =>
    \A r \in Runs : row[r].status \in Active =>
      r \in live \cup orphans \/ fin[r] = "closing" \/ phase[r] = "created"

\* An attempt never starts past either recovery cap (decideRecovery,
\* decideOrphanRecovery), across resets and deferrals together.
AttemptsWithinCaps ==
  \A r \in Runs : work[r] \in {"preparing", "attempt", "resuming"} =>
    /\ row[r].attempts <= RecoveryAttempts
    /\ row[r].generation <= RecoveryTotal

\* A recovered attempt gets the user's input exactly when the graph does not
\* have it yet: never twice, never not at all (runHasCheckpointed).
ResumeMatchesInput ==
  \A r \in Runs : work[r] = "preparing" /\ SessionOf[r] \notin overlapped =>
    (r \in resumed <=> r \in touched)

\* An attempt of r starts in this step.
Starts(r) == work[r] \notin {"preparing", "attempt"}
             /\ work'[r] \in {"preparing", "attempt"}

\* A message's first attempt never overtakes an earlier message of its session
\* that is still queued ("the session's turns stay strictly ordered").
InSendOrder ==
  [][\A r \in Runs : Starts(r) /\ row'[r].generation = 0 =>
       \A x \in Runs : SessionOf[x] = SessionOf[r] /\ arrival[x] < arrival[r]
                        => status'[x] # "queued"]_vars

\* A run that was stopped, or superseded before it was open, starts no attempt
\* in the same incarnation, whichever await the stop landed in.
NoAttemptAfterStop ==
  [][\A r \in Runs : Starts(r) =>
       /\ r \notin aborted
       /\ phase[r] = "created" => r \notin superseded]_vars

\* A closed row is never written again: no late deferral, dequeue or recovery
\* revives a run that was reported as over.
TerminalIsFinal ==
  [][\A r \in Runs : row[r].status \in Terminal => row'[r] = row[r]]_vars

\* Without a lost write every run recorded as active ends, across resets,
\* deferrals and queues.
EveryRunEnds ==
  \A r \in Runs : row[r].status \in Active ~> row[r].status \in Terminal

\* Every message sent gets its turn and `begin` answers (or the reset took it).
EveryMessageIsAnswered ==
  \A r \in Runs : phase[r] \in Waiting ~> phase[r] \in {"returned", "lost"}

-----------------------------------------------------------------------------
(* What a reader of the run table sees *)

\* The three states a row is read as.
Seen(st) ==
  CASE st = "absent"      -> "absent"
    [] st = "queued"      -> "queued"
    [] st \in Executing   -> "executing"
    [] st \in Terminal    -> "closed"

SeenRecord == [r \in Runs |-> [state |-> Seen(row[r].status),
                               recoveries |-> row[r].generation,
                               start |-> row[r].start]]

Lifecycle == INSTANCE RunLifecycle WITH record <- SeenRecord,
                                        Points <- 0..MaxCheckpoint

\* begin, the queue, deferrals, stops, resets and recovery together implement
\* the lifecycle: nothing returns to the queue, and the start checkpoint that
\* runHasCheckpointed compares with is never moved under an execution.
ImplementsLifecycle == Lifecycle!Spec

=============================================================================
