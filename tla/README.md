# Formal models of the QiForge runtime

QiForge runs chat agents ("oracles"). Its live runtime is
`src/packages/oracle-runtime-workers` (Cloudflare Workers); `packages/oracle-runtime`
and `apps/qiforge-example` are its deprecated Node predecessor. Every user has one
Durable Object (`UserOracleDO`, `do/user-oracle-do.ts`): single threaded, with its own
SQLite database, reset by the platform at any time (deploy, eviction, crash). What is
hard in this code happens between its awaits, and between one incarnation of the
object and the next. These modules model that part.

Paths below are relative to `src/packages/oracle-runtime-workers/src` unless they
start with `src/` or `docs/`. `PROJECT.json` maps every definition to its lines.

## Inventory

| Component | State | Operations | Hard because | Correct when |
|---|---|---|---|---|
| Durable runs: `do/run-coordinator.ts`, `do/run-store.ts` | `turn_runs` rows (durable); live map, `begin` turns, abort signals (memory) | begin (interrupt / enqueue), stop (run, session, all), attempt, defer, finalize, dequeue, boot recovery, alarm resume | every operation awaits the store while others run; resets between a write and the memory it mirrors | one run of a session at a time, in send order; nothing revived, lost or retried past its cap; the input replayed exactly once; every run ends |
| Tool calls: `core/middlewares/tool-marks.ts`, `tool-execution.ts`, `core/tool-scheduler.ts`, `turn-budget.ts` | `turn_tool_marks`, `turn_write_claims` (durable); lanes, budget (memory) | mark, queue for a lane, claim, run, release, finish; resume policy | identical writes of several turns; resets in mid-call; stops while queued; a claim made of three statements | no blind repeat of a write of unknown outcome; once per call across resets; lanes never leak |
| Run output and re-join: `do/run-buffer.ts`, `do/sse-stream.ts`, client `src/packages/oracles-client-sdk/src/utils/run-stream.ts` | `turn_run_segments` (durable); buffer, subscribers (memory); the client's cursor | push, pack, subscribe, join, close, renumber after a reset | a join reads the store while frames move from memory into it; resets lose frames a client already has | a follower shows exactly the reply; no segment outlives the close; every client is told the end |
| Frontend bridge: `realtime/*` | table of pending and finished browser calls, sockets (memory) | call, park, dispatch, settle, executor gone, deadlines | two tabs, late answers, reconnects | one dispatch per call, only its executor settles it |
| Scheduled tasks: `tasks/*` | tasks, run ledger, approvals (durable); busy sets (memory) | alarm scan, run, advance, deliver in rounds, approve, reconcile, pause / edit | stale copies over long awaits; resets between a result and its delivery | no occurrence twice, no result lost, a user's decision never undone |
| Channels: `channels/*` | receipts, bindings, session buffers | admit a turn, poll, release | duplicated and concurrent requests | one run per request id |
| Matrix gateway: `matrix/*`, `do/matrix-turn-ledger.ts` | inbox rows (gateway object), turn ledger (user object); buffer, replays, calls under way (memory of each) | receive, offer, flush, gate, call, post, replay, start / stop / rotate; decide, join, attach | two objects, each reset on its own; replays beside first deliveries; bursts that regroup | one run for a message; no row leaves unanswered; every row leaves |
| SQLite over R2 pages: `sqlite/do-vfs.ts`, `page-tier.ts`, `database.ts` | pages local and remote, transaction journal | read, write, commit, evict, retry | cold misses inside a transaction | a committed page is never lost |
| Checkpoints, transcript: `sqlite/sqlite-saver.ts`, `do/transcript.ts` | checkpoints and pending writes | put, get, compact | compaction beside a turn | a resume sees what was persisted |
| Action proposals, hub actions: `action-proposals/*`, `hub-actions/*` | status machines, receipts | claim, verify, close, transfer | late chain results, windows | one outcome per claim |
| Owner store, result store, artifacts, feedback | objects, quotas, reservations | upload, sweep, reserve | sweeps beside use | nothing in use is swept |
| Model access, agent build, memory, delivery, plugins, shell, credentials | mostly none | calls to services, prompts, formatting | external I/O | left out (see the end) |

How they interact: a message reaches the object over HTTP, a channel or the gateway and
becomes a run (`runs.begin`). The coordinator starts the run's attempt (`runAttempt`);
the attempt drives the graph, whose tool calls pass marks, lanes and claims and may wait
for a browser; its frames go to the run's buffer, which clients follow. Lanes and claims
are shared by all sessions of a user. The alarm drives retries and tasks. After a reset
only the database is left: `recoverOrphans` rebuilds the live map from `turn_runs`. A
scheduled task's turn and a room message's turn are such runs too; the task scheduler
keeps its own ledger of them (`task_runs`), and the gateway's inbox and the object's turn
ledger stand between a room message and its run.

## Modules

| Module | What it is |
|---|---|
| `RunCoordinator` | the run table and the coordinator, all operations |
| `RunCoordinatorInv` | `IInv`, the inductive strengthening of `OneRunPerSession` |
| `RunCoordinatorProofs`, `RunCoordinatorSafetyProofs`, `RunCoordinatorRowProofs` | TLAPS: types; `IInv`, `OneRunPerSession`, stops and the order of a session; closed rows and active ones |
| `RunLifecycle` | abstract specification: what the run table promises its readers |
| `RunCoordinatorLifecycleProofs` | TLAPS: the recovery caps, `RunCoordinator` implements `RunLifecycle`, and the input of a resumed attempt |
| `ToolCalls` | marks, lanes, claims and the life of a call, over runs of several sessions |
| `ToolCallsProofs` | TLAPS: types, lanes, claims, and each write once |
| `RunStream` | one run's output, its packed segments and the clients that follow it |
| `RunStreamProofs` | TLAPS: types, the cutover of a closed run, and what the followers show |
| `TaskScheduler` | the tasks, their runs, the alarm tick and the task tools |
| `TaskSchedulerProofs` | TLAPS: types, stops, approvals, what is active goes on, and each occurrence once |
| `MatrixInbox` | a room message between the gateway's inbox and the user object's ledger |
| `MatrixInboxProofs` | TLAPS: types; one run for each turn; what a row leaves with |
| `MC*` | instances for TLC, one `.cfg` per question |

The modules are separate views of one object. What they share is stated twice on
purpose and kept to what each needs: `ToolCalls` has a run as live / recovering / over,
`RunStream` has one run whose recovery, deferral and close are those of
`RunCoordinator`, and `RunCoordinator` has an attempt as a step that may write a
checkpoint, be stopped, fail, defer or finish. To `TaskScheduler` and `MatrixInbox` a
run is what `RunLifecycle` says of it: it is begun once, goes on through resets, and ends.

### RunCoordinator

Code between two awaits is one action; each await during which other code can run is a
value of `phase` (the `begin` call), `work` (the attempt, or the await before it), `fin`
(finalize) or `boot`. So `begin` is `Begin`, `TakeTurn`, `CancelNext`, `GraceOver`,
`CreateRow`, `OpenAndStart` / `OpenQueued` / `OpenSuperseded`, `BeginReturns`; finalize
is its start (part of whoever ends the run), `CloseRow`, `StartNext`, `FinalizeReturns`.
`row` is the table, `status` the `record.status` of the live map; both exist because a
write is issued before or after the memory changes, and a reset keeps only the first.
A rejected write is an action of its own (`...Fails`).

### ToolCalls

`pc` follows a call through `marking`, `entering`, `waiting`, `granted`, the claim's
three statements (`claiming`, `inspecting`, then `taking` or `warning`), `running` or
`parked` / `sent`, `returned`, `releasing`, `finishing`. `effects`, `open` and `refused`
are history: how often a call reached the outside, which writes have an outcome nobody
knows, and which runs were told so. As in `core/main-agent.ts` the marks are outermost,
the retry stands between them and the lane: a failed read of a top-level agent goes back
to `entering` with the mark it has (`Unwinds`, `MayRetry`). A retry that covered a write
would pass no mark that could refuse it; it is the mutant of `WriteRunsOnce`.

`Start` lets a session have one running run, which is what the coordinator sees to but for
the overlap `OneRunPerSession` excepts (finding 1). That matters: with two running runs of
one session, a `markSent` that was lost, the take-over of the claim by the other run and a
second reset send one browser write twice. `End` ends a run once all its calls are settled
or it was stopped; a graph that throws with a call in flight is left out. One modelled fact is not in this code: the
connection runs its statements in order (`sqlite/database.ts`, `withMutex`), so an
unawaited `markSent` is applied before what the call writes next.

### RunStream

The buffer's `tail` and `inFlight`, the segment rows, the subscription (a client is
`attached` while the run is in memory) and `join`, whose two halves before and after
`readSegments` are `Join` and `JoinRead`. A reply is a sequence of numbered chunks, so
"misses nothing, nothing twice" is equality of sequences. `lastId`, `shown` and `Receive`
are the client SDK. A recovery is `Recover` / `Interrupt` / `ReopenQueued` with the
numbering of `attemptSeqBase`. `Only` is the filter of the code's loops, written as a
recursive function so that lemmas about it can be proved. Two history variables
(`segmentLost`, `renumbered`) name the cases the main property leaves out.

### RunLifecycle and its refinement

`RunLifecycle` has one record per run: absent, queued, executing or closed, how often it
was recovered, and the point of the conversation it starts from. A record is made once,
starts at most once, counts a recovery only while it executes, and is closed for good
with what it counted. `RunCoordinator` reads `turn_runs` as such records (`SeenRecord`:
`running` and `recovering` are "executing", the three ends "closed")
and `ImplementsLifecycle` says that `begin`, the queue, deferrals, stops, resets and the
recovery scan do nothing else to it. In particular an execution never returns to the
queue, and the start checkpoint `runHasCheckpointed` compares with never moves under it.

### TaskScheduler

`task` and `run` are the rows of `tasks` and `task_runs`; `activeRuns`, `firingTasks` and
`recoveringTasks` are the sets of the same names; `tick`, `listed` and `waiting` are
where `onAlarm` is (`reconcileOpenRuns` over the rows it listed, then the due scan and
its workers). A `job` is a function under way: an approval request (`Ask`), a run
(`Main`) or the completion of a turn that outlived a reset (`Back`); its `stage` is the
await it is in and `rec` its copy of the task. `call` is a task tool between its read and
its save. `Save` writes a whole copy: every other writer that still holds one becomes
`stale`, and a task a stale writer saved all the same is `lost`. So
`executeRun` is `AskStarts` / `StartRun`, `OpenRow` (or `OpenRowUntaken`), `TurnAnswers` /
`TurnFails`, `StoreResult`, `Delivered` / `Defer` / `GiveUp`, and `RecordFailure`.

### MatrixInbox

Two objects. The gateway's rows (`inbox`, a row's value is its replay count), its
memory (`preparing`, `buffer`, `retry`, `replay`, and `request` for each turn dispatched)
and the room (`seen`, `posted` under the reply's transaction id); the user object's
`ledger`, `run` and `matrixTurnRuns`. `Receive`, `Prepared` are `onMessage` before and
after its lookups, `Plan`, `GiveUp`, `ReplayOffer` are `replayInbox`, `Flush` the debounce,
`Decide` the call into `runTurn` up to its decision (run, join, attach, answer from the
ledger), `StartTurn` the ledger's row, `BeginRun` / `RunEnds` the durable run, then
`PostReply`, `Close` or `Tell`. A gateway that is reset leaves a call as an `orphan`: it
may still run its turn, or be cancelled.

A run ends finished, failed or aborted, the last by a newer message, by a user's stop
(`abortTurn`) or, for the gateway, by a failure whose message contains "abort"
(`isAbortError`): the rows of the calls that joined it leave without a word. `finalize`
keeps the text of a finished run only for a channel, so what is left of a room's run that
outlived its object (`LeftOf`) has no text, and `attachToRun` answers with an empty one;
the history variable `lost` has the messages whose reply went that way. Chat delivery is
off, as by default: with it the row would hold a Reply Plan. A newer run supersedes the
going one at once; the grace, the queue behind a run that outlives it and the `enqueue`
rule are in `RunCoordinator`.

## What the runs check

| Run | States | Question and result |
|---|---|---|
| `coordinator_begin` | 314,000 | Three messages of one session, both multitask rules, stops at every await. `OneRunPerSession`, `InSendOrder`, `NoAttemptAfterStop` hold. |
| `coordinator_resets` | 605,000 | Two messages, two resets, deferrals, one rejected write. `TypeOK`, `IInv`, `ActiveRowsAreHeld`, `AttemptsWithinCaps`, `ResumeMatchesInput`, `TerminalIsFinal`, `ImplementsLifecycle` hold. |
| `coordinator_live` | 68,000 | Two messages and a reset, with fairness. `EveryRunEnds`, `EveryMessageIsAnswered` hold. |
| `coordinator_two_attempts` | violation | `OneAttemptPerSession`, the claim of `begin` without exception, is false (findings). |
| `tools_writes` | 512,000 | Three identical writes, two of one run and one of a run in another session, one reset. `WriteRunsOnce`, `NoBlindRepeat` hold. |
| `tools_browser` | 194,000 | Two browser writes of one session, two resets, one rejected write. `UnknownIsClaimed`, `WriteRunsOnce` hold. |
| `tools_lanes` | 52,000 | A dispatch, its inner read and another session's read over one slot. `SlotsAccounted`, `EveryWaiterIsServed` hold. |
| `tools_parked` | violation | `ParkedCallRunsAgain`, from the documentation, is false (findings). |
| `stream_follow` | 224,000 | A client, two chunks, any one fault. `FollowersShowTheReply`, `CutoverIsClean`, `EveryClientIsTold` hold. |
| `stream_told` | violation | `ToldTheWholeReply`, from the client's documentation, is false (findings). |
| `tasks` | 336,000 | One task (repeated or one-shot, with or without approval), two run ids, two calls of the task tools, one reset, sends and turns that fail. `TypeOK`, `OccurrenceRunsOnce`, `ApprovalRunsOnce`, `ActiveTasksAreGoing`, `StopStands`, `EveryTaskSettles` hold. |
| `inbox` | 414,000 | Two room messages, one reset, stop or rotation of the gateway, one reset of the user object, lookups without a verdict, turns that fail, runs that a user stops. `TypeOK`, `TurnRunsOnce`, `RowLeavesAnswered`, `EveryMessageSettles` hold. |

Every property of a passing run has a mutant in `PROJECT.json`: a plausible slip in the
code that TLC finds as a violation of that property under the same configuration. The
mutated operators stand before the definitions they replace ("Mutant of ...").

### Bounds

- Runs and messages: two runs give every pair of operations; ordering and the queue
  need a third (`coordinator_begin`). One session: sessions share nothing in the
  coordinator, and the proofs cover any number of them.
- `MaxCrashes` = 2 in `coordinator_resets`: one reset to recover, one to hit the
  recovery. `RecoveryAttempts` = `RecoveryTotal` = 1 reaches both caps.
  `MaxCheckpoint` = 1: "the graph has the input or not"; further checkpoints only reset
  the attempt counter.
- `ToolCalls`: slots of one, so that two calls compete; three calls are the smallest
  case with a first, a repeated and a foreign write. `MaxReads` and `MaxSubagents` are
  bounds of the instance (the code has more slots), not of the module.
- `RunStream`: two chunks separate "before" and "after" a cut, `Span` = 16 is larger
  than any numbering of an attempt in the instance, as 2^32 is in the code. One
  fault of any kind (reset, lost connection, deferral, rejected write); with
  `MaxFaults` = 2 the same configuration holds on 3.3 million states, in about five
  minutes.
- `TaskScheduler`: one task, since tasks share nothing but the workers; two run ids, so
  that an occurrence can be run again and a stale run can meet its successor; one caller
  with two calls, so that a tool overtakes the scheduler and the scheduler a tool. An
  occurrence is its ordinal; those past `MaxOccurrences` are too far away to come, and
  time passes for all that is scheduled at once. `MaxFailures` = `MaxRounds` = 2: the
  first failure and the last. A tool holds its copy as long as it likes; the write slot
  of the object makes that shorter in the code, so the model has more behaviours.
- `MatrixInbox`: two messages of one speaker in one thread, received in timeline order:
  alone, as one burst, or as two turns. `MaxReplays` = 1 (2 in the code) reaches a first
  delivery, a replay and a row that is given up. Four requests are enough: a fifth adds
  no state. The gate (`Slots` = 1) is not first come first served, which adds behaviours.
- Symmetry is used for interchangeable runs and twin writes, in runs without liveness
  only.

`CHECK_DEADLOCK FALSE` is set where the system really stops: every call settled
(`ToolCalls`), every client told and the run over (`RunStream`), every message answered
(`MatrixInbox`), nothing scheduled any more (`TaskScheduler`). In `RunCoordinator`
rest is the explicit action `Idle`, so a stuck `begin` would be reported as a deadlock.

### Fairness

- `BeginStep`, `RunStep`, `BootStep` of `RunCoordinator`: the event loop runs what a
  resolved await unblocks; a turn ends because its budget and stream timeouts abort it
  (`core/turn-budget.ts`, `llm/stream-liveness.ts`); the alarm is armed for every retry
  (`requestAlarm`), and after a reset the platform boots the object again for it.
- `CallStep` of `ToolCalls`: the same, and a tool returns. That is an assumption: the
  lane of a tool that ignores its abort signal stays taken.
- `RunStep` and `ClientStep` of `RunStream`: the same, and a client keeps re-joining.
  The SDK stops after 12 re-joins; the faults of an instance are fewer.
- `TaskScheduler`: time passes, an alarm the scheduler asked for rings (a reset keeps it:
  the platform retries the alarm, and the keep-alive arms it on boot), and the tick and
  the functions under way go on. `onAlarm` runs one tick at a time (`alarm()` awaits it).
- `Work` of `MatrixInbox`: what either object has to do, it does, one fairness for all of
  it. That is enough since no work repeats without end: a message is offered once and
  replayed `MaxReplays` times at most.
- Stops, sends, chunks, faults and rejected writes are never fair.

## What is proved

TLAPS checks these for every set of runs, sessions, calls, tasks and clients, and every
value of the caps and bounds that the `ASSUME`s admit (`RunsAssumption`,
`CapsAssumption`, `BoundsAssumption`, `CallsAssumption`, `LimitsAssumption`,
`TasksAssumption`, `IdsAssumption`; TLC evaluates them in every run). Two more
assumptions are about the calls of `ToolCalls`. `FingerprintAssumption`: two claimed
calls of one fingerprint are of one kind and, in the browser, of one session, because
`operationKey` hashes the tool's name and, for a browser tool, the session
(`core/middlewares/tool-execution.ts:93-113`, `329-335`). `DispatchAssumption`: only a
dispatch has inner calls (`core/subagent-as-tool.ts`).

| Theorem | Statement |
|---|---|
| `TypeCorrect` | `Spec => []TypeOK` of `RunCoordinator` |
| `Inductive` | `Spec => []IInv` |
| `OneAtATime` | `Spec => []OneRunPerSession` |
| `StopsHold` | `Spec => NoAttemptAfterStop` |
| `TurnsInOrder` | `Spec => InSendOrder` |
| `ClosedRowsStay` | `Spec => TerminalIsFinal` |
| `ActiveRowsHeld` | `Spec => []ActiveRowsAreHeld` |
| `CapsHold` | `Spec => []AttemptsWithinCaps` |
| `Refinement` | `Spec => ImplementsLifecycle`: `RunCoordinator` implements `RunLifecycle` |
| `InputOnce` | `Spec => []ResumeMatchesInput` |
| `TypesHold` (`ToolCallsProofs`) | `Spec => []TypeOK` of `ToolCalls` |
| `SlotsHold` | `Spec => []SlotsAccounted` |
| `UnknownStaysClaimed` | `Spec => []UnknownIsClaimed` |
| `NeverBlindlyRepeated` | `Spec => NoBlindRepeat` |
| `RunsOnce` | `Spec => []WriteRunsOnce` |
| `StreamTyped` (`RunStreamProofs`) | `Spec => []TypeOK` of `RunStream` |
| `Cutover` | `Spec => []CutoverIsClean` |
| `RepliesShown` | `Spec => []FollowersShowTheReply` |
| `TypesHold` (`TaskSchedulerProofs`) | `Spec => []TypeOK` of `TaskScheduler` |
| `StopsStand` | `Spec => StopStands` |
| `ApprovalsRunOnce` | `Spec => []ApprovalRunsOnce` |
| `ActiveTasksGoOn` | `Spec => []ActiveTasksAreGoing` |
| `OccurrencesRunOnce` | `Spec => []OccurrenceRunsOnce` |
| `TypeCorrect` (`MatrixInboxProofs`) | `Spec => []TypeOK` of `MatrixInbox` |
| `OneRunPerTurn` | `Spec => []TurnRunsOnce` of `MatrixInbox` |
| `RowsAnswered` | `Spec => RowLeavesAnswered` |

`OneRunPerSession` is not inductive. A new run starts because `beginInTurn` saw an idle
session, and awaits the store before it opens the run; nothing in the property says the
session is still idle then. `IInv` adds what makes it so, each a named part:

- `TurnsTaken`: only the earliest unresolved `begin` of a session is past its turn;
- `ScanFirst`, `Untouched`: the boot scan runs before any message, and a run that is
  not recorded, opened or visited yet is in nobody's hands;
- `InFlightWorks`: `attemptInFlight` is exactly "a continuation of the run is under
  way", so an abort closes a run itself only when nothing else will;
- `RowsFollow`: what executes in memory executes in the table (after the dequeue's
  write), so a reset cannot find an executing run queued;
- `StartsAlone`: a `begin` that decided to start has the session to itself;
- `OverlapNoted`: two executing rows of one session exist only where a run began over
  the still open row of an ended one; that is the exception of the property.

The step lemma splits on the actions: steps that touch one run only (`OwnStepInv`), ends
of runs (`EndStepInv`), the turn of a `begin` (`TurnStepInv`), the take of a queued run
(`TakeStepInv`), opening, the reset and the scan. The lemmas about `NextQueued` and
`First` need no recursion: they are choices of a least element.

`NoAttemptAfterStop` and `InSendOrder` are about the steps an attempt starts in, and
`StartSteps` says which these are: a `begin` that opens its run, and a dequeue's or a
resume's write that finds the run unstopped. That settles `NoAttemptAfterStop` for the
two writes; a `begin` needs `StoppedInv`, that only an opened run is told to stop.

The order of a session is `OrderInv`, in three parts. `LiveCameFirst`: while a `begin` has
not resolved, every run of its session that is live was sent before it. `ScanInOrder`: the
boot scan has visited no row that is later than one it has still to visit. `QueueBehind`:
no run waits behind a later one that executes for the first time; this is `InSendOrder`
turned into a property of states, and the two others say of the steps that add a run to
the live map that it is the last of its session. The dequeue takes the first of the queue
(`NextQueuedIsFirst`).

`TerminalIsFinal` is an action property over `IInv` and one more invariant,
`RowsActive`: whatever in memory will write a row (a live run, a close, a `begin` past
its insert) holds a run whose row is active. By `IInv` only one of them holds a run, so
the one that closes the row is the last. Each step is either `Quiet` (it writes no row)
or `Writes` one open row. `ActiveRowsAreHeld` is the converse (an active row is held, or
the scan will visit it) and inductive over `IInv`: a step lets go of a run only as it
closes the row (`WatchKept`), and a reset hands every active row to the scan.

`AttemptsWithinCaps` is about the counters of a row, which are read when an attempt is
scheduled and again when it starts. By `IInv` only one continuation holds the run between
the two, so it is enough that whatever is opened is within the caps (`CapsInv`), which
needs that a run still queued has spent nothing.

`Refinement` uses the same split: a `Quiet` step leaves `SeenRecord` alone, and a step
that `Writes` a row is one step of the lifecycle or a stutter, because `CapsInv` says
from which status each write is made. A row once closed keeps its counters by
`RowsActive`.

`ResumeMatchesInput` compares what an attempt was started with and what its run has
written, which no variable of the code holds. `InputInv` ties them by way of the table:
a run that has not started has written nothing and was not resumed; a start checkpoint
is never ahead of the thread; and while a run executes, the thread has moved since the
start exactly when the run wrote a checkpoint. The last holds because another run of the
session that writes one executes too, and then the overlap was noted (`OverlapNoted` of
`IInv`); it is what `runHasCheckpointed` rests on.

`TypeOK` of `MatrixInbox` bounds the replays of a row, which is not inductive: a replay
that has rows to give up first charges the others only later. `ReplaysLeft` says that
the rows a replay is about to charge still have one left and were received before, so a
row that comes back in between (`Receive`) is not among them.

`TurnRunsOnce` is proved from `OnceInv`: for a message two calls have not met about, one
call at most is about to run it, it has not run then, and the ledger knows it before it
runs. Each step of the gateway and each end of a run leaves the calls alone or settles
them (`QuietStep`); only `Decide`, `StartTurn` and `BeginRun` need an argument of their own.

`RowLeavesAnswered` is an action property; what it says of most rows follows from the
step in which the row leaves. Two steps need `AnswerInv`. When a newer run begins, the
calls whose rows leave waited for the run it aborts, and end with it: a call waits for a run that is
going and is the turn of its leading message, and a call that has yet to begin has no run
(`CallFits`, `RunsFit`, `LedgerFits`: request ids are reused in the model, and neither the
ledger nor the running turns may mistake one turn for another). When a turn closes, the
room has its answer: `Answer(m, t)` says that a run that is going, the ledger, a call or
the room holds the text `t` for the message `m`, and `AnswersFit` that only `BeginRun` makes an
answer, that every answer is one for its message, and that the answers of a message that
ran once are one. So whichever call posts first under the transaction id, it posts what
the others would have posted, and the first reply answers the whole burst. A call
that has nothing to post got it from a run that ended unwatched: such a run keeps no text,
and its message is in `lost` (`RunsFit`, `CallFits`).

`CutoverIsClean` needs one more fact: a row is closed only with its run over in memory,
and a run over in memory has no pending batch (`CutoverInv`).

`FollowersShowTheReply` relates what a client shows to what the run said, over frames
that are in three places and cursors from several attempts. `StreamInv` speaks of one
sequence, `Log`: the frames stored, being stored and in the tail.

- `LogFits`: the log is in the order of its numbers (`Well`; two frames may share number 1,
  the "Queued" note and the one of its reopening), and a frame that cuts the reply has
  as many text frames before it as it keeps. Packing replaces a segment with the same
  first frame, so it loses nothing visible.
- `TextFits`: while the run is in memory the text of the log is the reply so far.
- `NumberFits`, `CursorFits`: frames and cursors are below what the buffer, and the next
  attempt, hand out. A recovery numbers from `AttemptBase(generation + 1)`, which is above
  all of them by `SpanAssumption` (`SEQ_ATTEMPT_SPAN` is 2^32, in the model any number
  above the frames of one attempt).
- `ClientFits`: a client shows the lines numbered up to its cursor, and more only while a
  cut that takes the rest away is next (`Follows`); what is on its way misses no visible
  frame between its cursor and any frame on its way (`Complete`), nor, while it is
  subscribed, any later one (`Full`). A re-join rests on the order of the log: the
  segments, then what is being written, then the tail, each after the last (`JoinLive`).
- `PhaseFits`: what the phase says of row, buffer and checkpoint.

The invariant is claimed while no segment write was rejected and no stopped run renumbered
(`Good`), as the property is. Each step keeps it (a lemma `...Fits` for each), most of them
by two lemmas about the log: a push extends it by one frame (`PushFits`), and every other
step leaves what is visible of it alone (`QuietStep`). `WillShowFollows` then reads the wire
frame by frame. The operators on sequences are recursive functions, so their lemmas
(`OnlyConcat`, `JoinedAppend`, `OnlyOrdered`) are inductions; those are made over a set of
sequences or indices that is shown to hold all of them (`UpTo`, `UpFromEmpty`), which needs
no induction rule with an operator for a parameter. TLC checked `StreamInv` on instances of
224,000 and 861,000 states before the proof.

`ToolCalls`: `SlotsAccounted` is about cardinalities, and `Calls` may be infinite;
`LanesFinite` adds that the holders and the queue of a lane are finite, and that no call
waits while a slot is free. The claims are three invariants more. `RunInv` says that calls
go on only in a run that lives. `StepsInv` says what the step of a call knows about its
mark. `ClaimInv` says, of each claimed call by its step, what its ledger row is, and of
each write of unknown outcome that the row stands, under its own run as long as that run
lives or asks for it again. Two identical writes are never both past their lane
(`Exclusive`: they share a lane of one slot), so no other call moves the row while one is
between reading and writing it. `UnknownIsClaimed` is a part of `ClaimInv`;
`NoBlindRepeat` is checked at the two steps that let a call through.

`WriteRunsOnce` needs `OnceInv`, as long as no table write was rejected: a call on its way
to its effect has an open mark (`MarkInv`); a write or a dispatch that has not started has
no effect; an inner call has one only under a dispatch that started, and no reset starts
that again (`InnerInv`); and a browser write that was sent, with a mark that does not say
so yet, is stopped by its own claim when the run asks for it again (`TopInv`).

`TaskScheduler`: the scheduler reads a task, awaits, and saves a copy. `CopyInv` says of
every copy held by a writer that is not in `stale` that its status is the task's, or one
the writer may bring about; `StopStands` follows, since only such a save brings a task
back from a stop. `ApprovedInv` counts the runs of an approval: `OpenRow` takes the marker
in the transaction that adds the run. `GoingInv` says what an active task has to come
without naming the alarm: an occurrence, or, for a one-shot, its request, its approval or
an open row.

`OccurrenceRunsOnce` rests on the others. A second run of an occurrence could come from
the alarm finding the task free while a turn of it still lives, from a late result that
takes the schedule back, or from a copy saved after the schedule went on. `OwnerInv`
excludes the first: a task has one running row, and that row is in the hands of the
alarm, or of a turn that outlived a reset; in the second case the tick either has still
to reach the row in its reconciliation or has marked the task as recovering. The others
are `OccurrenceInv`: what was executed has come (`Came`) and is before the task's next
run (`OnceAt`), and a copy in a job or a call that is not overtaken has no executed
occurrence that the task does not have itself (`JobBehind`, `CallBehind`). Every step is
one of a few shapes (`TaskStep`: reading, marking, saving, creating), each with a lemma
for each invariant; before the proof TLC checked all of these invariants on an instance
of 3.8 million states.

Only model-checked: all liveness (`EveryWaiterIsServed`, `EveryTaskSettles` and the other
`FairSpec` properties), which is out of the prover's reach, and the three properties the
code violates. Every invariant that a passing run checks is proved.

## Findings

1. `coordinator_two_attempts`: `finalize` removes a run from the live map before its row
   is closed (`do/run-coordinator.ts:712`). A message that arrives then starts at once;
   a reset before the close finds two executing rows of the session, and `resumeDue`
   runs both recovery attempts on one thread.
2. `tools_parked`: a browser write is claimed before it parks. After a reset the resume
   policy runs the parked call again, as `docs/frontend-bridge.md` says, but its own
   pending claim refuses it (`do/run-store.ts:1037`).
3. `stream_told`: a join reads the record, then the segments. Between the two the run
   can be closed and its segments dropped; the client is then answered with an empty
   replay and a `done` of status `running`, and what was streamed after its cursor never
   shows (`do/run-coordinator.ts:539`).

## Cases the properties except

A property that the code breaks in a case of its own is stated with that case excepted by
name, so that everything else is still checked. `hazards` has each at its line.

- `RunStream`: `renumbered` (a queued run is reopened at the row's `lastSeq`, which only a
  close writes: after a stop that a reset cut off, its frames reuse the numbers of the
  stored closing frames) and `segmentLost` (a rejected segment write leaves a hole that a
  later continuation does not fit).
- `TaskScheduler`, `stale` and `lost`: `requestApproval` saves the copy it read before it
  awaited the gateway (`tasks/scheduler.ts:1180`), `finishRecoveredRun` the one it read
  before `resolveDeliveryRoom` (646), and a task tool one a tick has overtaken. A pause or
  a cancel in between is undone.
- `TaskScheduler`, `Leaked`: the result of a task stopped during its run is dropped by a
  return that passes by `activeRuns.delete` (1384). After a resume the task counts as busy
  and nothing of it is taken up until the object is reset.
- `TaskScheduler`, `edited`: a recovered run is judged by the approval setting of the
  moment (640), not by the one it was begun under; and a one-shot whose approval is edited
  away while its request stands stays active with nothing to come.
- `MatrixInbox`, `raced`: two calls about one message both read the ledger before either
  writes to it (`do/user-oracle-do.ts:5692`), and both run the turn; `matrix/gateway-do.ts:1110`
  and `docs/operations.md:286` (of the package) say that a turn never runs twice.
- `MatrixInbox`, `LostReply`: a gateway reset, then a reset of the user object; the
  recovered run finishes, but `finalize` stores no text of a run whose client is not a
  channel (`do/run-coordinator.ts:717-721`). The replay attaches to it, gets `''`
  (`do/user-oracle-do.ts:5831`), no message is made of it (`matrix/reply-parts.ts`), and the
  rows are deleted: the user gets neither the reply nor a notice, although the comment
  above `attachToRun` (5800) says that it hands back the reply of a finished run.
- `MatrixInbox`, `RodeBehind`: a replayed message that was already answered leads a burst
  with messages nobody has seen; the stored reply is returned for all of them, and their
  rows leave. Regrouped the other way round, the text of an answered message runs again
  behind another one; no property excludes that.
- `MatrixInbox`, `stranded`: a replay a start asks for is dropped while an earlier one is
  still under way (`matrix/gateway-do.ts:1091`); what a stop in between dropped from the buffers
  waits for the next start.

Seen while modelling, and in the models as they are: `planInboxReplay` does not skip a
message that still awaits its first lookups, so it is offered twice (the burst and the
ledger absorb it); `reconcileOpenRuns` closes rows again from a list that deliveries have
overtaken (`tasks/scheduler.ts:775`); a one-shot rescheduled while it runs loses the new
occurrence when the run is delivered; a stop of a run lives in memory until the row is
closed, so a reset in between recovers the stopped run (the code promises nothing there);
`isAbortError` takes every error whose message has the word "abort" for a superseded turn,
so the rows of such a failure leave without the notice.

## Plan

Done: `RunCoordinator` with its lifecycle, `ToolCalls`, `RunStream`, `TaskScheduler` and
`MatrixInbox`, all with proofs. What is left, in this order:

| Step | Module | Composes with | Properties | Bounds |
|---|---|---|---|---|
| 1 | `FrontendCalls` (`realtime/*`) | refines the parked / sent part of `ToolCalls` | one executor per call; only it settles; a call that was sent is never told "not sent"; every call settles | two sockets, two calls, table of one |
| 2 | `ActionProposals` | none | one outcome per claim; a late hash brings back exactly the claim it belongs to | one card, late hash |
| 3 | `ChannelTurns` | `RunLifecycle` | one run per request id, across redelivery and resets | two events, one reset |
| 4 | `PageTier` | below the tables of the others | a committed page is never lost by an eviction | two pages, one reset |
| 5 | `HubTransfer` | none | one outcome per transfer | one receipt |


## Not modelled, and why

Text and layout (delivery shaping, prompts, frames' wording), external I/O without a
protocol of its own (model providers, memory services, plugins, credentials, the shell),
the deprecated Node runtime, and the shared packages' types and UI hooks. The components
of the plan above, the owner store, the result store and the artifacts are not modelled
yet. Within the
modelled parts: back-off delays and the supersede grace are "some later time"; a
checkpoint read that fails is left out; the tie of two rows created in one millisecond
(`listActive`) is not modelled; the retention of old claims and of finished runs never
passes; `runTurnFrames` is reduced to text and endings; the client's credential renewal
and its re-join limit are left out; the last of three pending batches could be stored
after a join that began during the close has read, which `JoinRead` leaves out. In
`TaskScheduler`, edits that make a one-shot task a recurring one or the other way round
(`Reschedule` keeps the kind), Topic deliverables, task rooms, the history of closed runs and rejected
statements of the database are left out, and two tools that both read one request before
either saves are two answers. In `MatrixInbox`, sends do not fail (the durable outbox has
them), a failed turn's notice and the deletion of its rows are one step, a run's end and
the settling of the calls that wait for it are one step, and the rule of the group-chat
gate, room files, cards, device keys and the sync loop are left out.
