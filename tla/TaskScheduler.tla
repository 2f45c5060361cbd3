---------------------------- MODULE TaskScheduler ----------------------------
(***************************************************************************)
(* The scheduled tasks of one user object: tasks/scheduler.ts over the     *)
(* `tasks` and `task_runs` tables of tasks/store.ts.                       *)
(*                                                                         *)
(* The object is single threaded, and every statement to the database or   *)
(* the gateway is awaited: a step here is what the code does from one      *)
(* await to the next, with the awaits during which a function holds        *)
(* nothing it has read fused into the step before.  Every function that    *)
(* writes a task first reads the whole row and later rewrites it; between  *)
(* the two the row belongs to whoever writes next.  A job is one such      *)
(* function under way: the alarm's approval request ("ask") or run ("run"), *)
(* or the completion of a turn that outlived a reset ("back").             *)
(*                                                                         *)
(* Abstracted: an occurrence (a value of nextRunAt) is its ordinal, and    *)
(* those past MaxOccurrences are too far away to come; when time passes,   *)
(* everything that is scheduled comes due; the durable turn of a run is    *)
(* what RunCoordinator gives it: live until it ends or is lost.  Task      *)
(* rooms, the history of closed runs and the Topic deliverables are left   *)
(* out, and statements to the database do not fail.                        *)
(***************************************************************************)
EXTENDS Naturals, FiniteSets

CONSTANTS
  Tasks,          \* tasks of the user
  Runs,           \* run ids, each used once
  Callers,        \* calls of the task tools under way at the same time
  NoTask,         \* no task: the run id is unused, or the caller idle
  Workers,        \* MAX_CONCURRENT_TASK_RUNS
  MaxFailures,    \* MAX_CONSECUTIVE_FAILURES
  MaxRounds,      \* MAX_DELIVERY_ROUNDS
  MaxOccurrences, \* bound: occurrences of a task that come
  Kinds,          \* bound: the tasks that are created
  MaxCalls,       \* bound: calls of the task tools
  MaxCrashes      \* bound: resets of the object

ASSUME TasksAssumption == NoTask \notin Tasks

ASSUME LimitsAssumption ==
  /\ Workers \in Nat \ {0}
  /\ MaxFailures \in Nat \ {0}
  /\ MaxRounds \in Nat \ {0}
  /\ MaxOccurrences \in Nat
  /\ Kinds \subseteq [once : BOOLEAN, gated : BOOLEAN]
  /\ MaxCalls \in Nat
  /\ MaxCrashes \in Nat

VARIABLES
  task,       \* [Tasks -> Task]: the tasks table
  run,        \* [Runs -> Run]: the task_runs table
  turn,       \* [Runs -> Turns]: the durable turn of each run
  occurrence, \* [Tasks -> Nat]: the last occurrence computed
  passed,     \* tasks whose last occurrence, runs whose retryAt, has come
  fresh,      \* tasks approved since the tick started: approvedAt > now
  job,        \* [Jobs -> Job]: the functions under way
  activeRuns, \* activeRuns: runs executing in this instance
  firingTasks,     \* firingTasks: tasks a tick has taken up
  recoveringTasks, \* recoveringTasks: tasks whose turn outlived a reset
  tick,       \* where onAlarm is
  listed,     \* the open rows reconcileOpenRuns has yet to visit, as it read them
  waiting,    \* due tasks no worker has taken yet
  call,       \* [Callers -> Call]: a task tool between its read and its save
  armed,      \* the scheduler asked for the alarm
  calls,      \* calls so far
  crashes,    \* resets so far
  origin,     \* history: [Runs -> Origin]: what each run executes
  grants,     \* history: [Tasks -> Nat]: approvals persisted
  stale,      \* history: writers whose copy another writer has overtaken
  lost,       \* history: tasks where such a writer saved its copy all the same
  edited       \* history: tasks whose approval setting was changed

tables  == <<task, run>>
time    == <<occurrence, passed, fresh>>
memory  == <<activeRuns, firingTasks, recoveringTasks>>
ticking == <<tick, listed, waiting>>
history == <<origin, grants, stale, lost, edited>>
vars    == <<tables, turn, time, job, memory, ticking, call, armed, calls,
             crashes, history>>

-----------------------------------------------------------------------------
\* The occurrence that does not come.
Horizon == MaxOccurrences + 1

Statuses == {"absent", "active", "paused", "completed", "cancelled", "failed"}
Stopped  == {"paused", "completed", "cancelled", "failed"}

\* once: a one-shot schedule; gated: approval is `before-action`; next = 0: no
\* nextRunAt.  approved is its own column: save leaves it as stored unless the
\* task is saved as not active.
Task == [status : Statuses, next : 0..Horizon, pending : BOOLEAN,
         approved : BOOLEAN, failures : Nat, once : BOOLEAN, gated : BOOLEAN]

NoTaskRow == [status |-> "absent", next |-> 0, pending |-> FALSE,
              approved |-> FALSE, failures |-> 0, once |-> FALSE,
              gated |-> FALSE]

OpenStates   == {"running", "delivering"}
ClosedStates == {"delivered", "failed", "interrupted"}

\* retry: the row has a retryAt.
Run == [task : Tasks \cup {NoTask}, state : {"none"} \cup OpenStates \cup ClosedStates,
        rounds : Nat, retry : BOOLEAN]

NoRunRow == [task |-> NoTask, state |-> "none", rounds |-> 0, retry |-> FALSE]

Turns  == {"none", "live", "over"}
Origin == [occurrence : 0..Horizon, approved : BOOLEAN]

Jobs == ({"ask"} \X Tasks) \cup ({"run", "back"} \X Runs)
Ask(t)  == <<"ask", t>>
Main(r) == <<"run", r>>
Back(r) == <<"back", r>>

\* Ids are told apart: a task is not a run, a call of a tool is not a job.
ASSUME IdsAssumption == Tasks \cap Runs = {} /\ Callers \cap Jobs = {}

\* The await a job is in.
Stages == {"none",
           "asking",    \* sending the approval request
           "starting",  \* the transaction that opens the row
           "turn",      \* in runTurn
           "storing",   \* saving the result and the advanced schedule
           "refreshing",\* a recovered run, reading the task before the send
           "sending",   \* sending the result
           "failed",    \* recordFailure, saving the task and the row
           "opening"}   \* completeRecoveredRun, failRecoveredRun: reading the row

\* rec: its copy of the task; advanced: the schedule was advanced when the
\* approval was asked; ends: what a failure closes the row as.
Job == [stage : Stages, rec : Task, advanced : BOOLEAN,
        ends : {"failed", "interrupted"}, rounds : Nat,
        by : {"tick", "reconcile", "recovery"}]

NoJob == [stage |-> "none", rec |-> NoTaskRow, advanced |-> FALSE,
          ends |-> "failed", rounds |-> 0, by |-> "tick"]

Ops  == {"pause", "resume", "cancel", "edit", "reschedule", "approve", "reject"}
\* at: the occurrence it computed, 0 for none.
Call == [task : Tasks \cup {NoTask}, op : Ops \cup {"none"}, rec : Task,
         at : 0..Horizon]
NoCall == [task |-> NoTask, op |-> "none", rec |-> NoTaskRow, at |-> 0]

Init ==
  /\ task = [t \in Tasks |-> NoTaskRow]
  /\ run = [r \in Runs |-> NoRunRow]
  /\ turn = [r \in Runs |-> "none"]
  /\ occurrence = [t \in Tasks |-> 0]
  /\ passed = {}
  /\ fresh = {}
  /\ job = [j \in Jobs |-> NoJob]
  /\ activeRuns = {}
  /\ firingTasks = {}
  /\ recoveringTasks = {}
  /\ tick = "idle"
  /\ listed = {}
  /\ waiting = {}
  /\ call = [c \in Callers |-> NoCall]
  /\ armed = FALSE
  /\ calls = 0
  /\ crashes = 0
  /\ origin = [r \in Runs |-> [occurrence |-> 0, approved |-> FALSE]]
  /\ grants = [t \in Tasks |-> 0]
  /\ stale = {}
  /\ lost = {}
  /\ edited = {}

-----------------------------------------------------------------------------
(* Lookups *)

TaskOf(j) == IF j[1] = "ask" THEN j[2] ELSE run[j[2]].task

\* isBusy: the task is taken up, its run executes, or its turn is recovered.
Busy(t) ==
  \/ t \in firingTasks \cup recoveringTasks
  \/ \E r \in activeRuns : run[r].task = t

\* n is a nextRunAt in the past.
Come(t, n) == n # 0 /\ (n < occurrence[t] \/ t \in passed)

Overdue(t) == task[t].status = "active" /\ Come(t, task[t].next)

\* due: an approved run, or an occurrence, at or before the tick's now.
DueRow(t) ==
  Overdue(t) \/ (task[t].status = "active" /\ task[t].approved /\ t \notin fresh)

\* nextWakeAt is not null.
WakeNeeded ==
  \/ \E t \in Tasks : /\ task[t].status = "active"
                      /\ task[t].next # 0 \/ task[t].approved
                      /\ ~Busy(t)
  \/ \E r \in Runs : run[r].state = "delivering" /\ run[r].retry

\* Mutant of Computed: from the run before, not from now.
ComputedFromLast(t) == IF task[t].once THEN 0 ELSE occurrence[t] + 1

\* computeNextRunAtMs now: a one-shot has only the time it was given.
Computed(t) ==
  IF t \notin passed THEN occurrence[t]
  ELSE IF task[t].once THEN 0 ELSE occurrence[t] + 1

\* A later occurrence of t is scheduled.
Advance(t, n) ==
  /\ occurrence' = [occurrence EXCEPT ![t] = IF n > @ THEN n ELSE @]
  /\ passed' = IF n > occurrence[t] THEN passed \ {t} ELSE passed

\* The writers that hold a copy of t they are about to save.
Holding(t) ==
  {j \in Jobs : TaskOf(j) = t /\ job[j].stage \in {"asking", "storing", "failed"}}
    \cup {c \in Callers : call[c].task = t}

\* save, by writer w: the whole row, but for the approved run, which only a
\* task saved as active keeps.
Save(w, t, rec) ==
  /\ task' = [task EXCEPT ![t] =
       [rec EXCEPT !.approved = rec.status = "active" /\ (rec.approved \/ task[t].approved)]]
  /\ stale' = (stale \cup Holding(t)) \ {w}
  /\ lost' = IF w \in stale THEN lost \cup {t} ELSE lost

\* A copy of the row: approved is not in a save unless the call grants it.
Copy(t) == [task[t] EXCEPT !.approved = FALSE]

\* The job goes on to its next await.
Goes(j, to) ==
  /\ job' = [job EXCEPT ![j] = to]
  /\ UNCHANGED <<firingTasks, recoveringTasks, armed>>

\* Mutant of End: a recovered run ends without re-arming.
EndAsleep(j, wake) ==
  /\ job' = [job EXCEPT ![j] = NoJob]
  /\ firingTasks' = IF job[j].by = "tick" THEN firingTasks \ {TaskOf(j)} ELSE firingTasks
  /\ recoveringTasks' = IF job[j].by = "recovery" THEN recoveringTasks \ {TaskOf(j)}
                          ELSE recoveringTasks
  /\ armed' = (armed \/ wake)

\* The function is over; who waited for it goes on.
End(j, wake) ==
  /\ job' = [job EXCEPT ![j] = NoJob]
  /\ firingTasks' = IF job[j].by = "tick" THEN firingTasks \ {TaskOf(j)} ELSE firingTasks
  /\ recoveringTasks' = IF job[j].by = "recovery" THEN recoveringTasks \ {TaskOf(j)}
                          ELSE recoveringTasks
  /\ armed' = (armed \/ wake \/ (job[j].by = "recovery" /\ WakeNeeded'))

\* The run's row is closed: no retryAt any more.
Close(r, state) == run' = [run EXCEPT ![r] = [@ EXCEPT !.state = state, !.retry = FALSE]]

\* One more failure: a one-shot and the last allowed one stop the task.
AfterFailure(t) ==
  LET n     == task[t].failures + 1
      stops == task[t].once \/ n >= MaxFailures
  IN [Copy(t) EXCEPT !.failures = n,
                     !.status = IF stops THEN "failed" ELSE @,
                     !.next = IF stops THEN 0 ELSE Computed(t),
                     !.pending = @ /\ ~stops]

\* Mutant of RecordFailure: a failed request is charged to the copy it holds.
RecordFailureStale(j, ends) ==
  LET t == TaskOf(j)
  IN IF task[t].status = "active" \/ j[1] = "ask"
       THEN /\ UNCHANGED run
            /\ Goes(j, [job[j] EXCEPT !.stage = "failed", !.ends = ends,
                 !.rec = IF j[1] = "ask"
                           THEN [job[j].rec EXCEPT !.failures = @ + 1, !.next = Computed(t)]
                           ELSE AfterFailure(t)])
       ELSE Close(j[2], ends) /\ End(j, FALSE)

\* recordFailure, by the task as it is now: an active one is charged with the
\* failure in a later save, of a stopped one the row is closed.
RecordFailure(j, ends) ==
  LET t == TaskOf(j)
  IN IF task[t].status = "active"
       THEN /\ UNCHANGED run
            /\ Goes(j, [job[j] EXCEPT !.stage = "failed", !.ends = ends,
                                      !.rec = AfterFailure(t)])
       ELSE /\ IF j[1] = "ask" THEN UNCHANGED run ELSE Close(j[2], ends)
            /\ End(j, FALSE)

-----------------------------------------------------------------------------
(* The alarm tick *)

Unused == {r \in Runs : run[r].task = NoTask}

TimePasses ==
  /\ passed' = {t \in Tasks : occurrence[t] \in 1..MaxOccurrences}
                 \cup {r \in Runs : run[r].retry}
  /\ passed' # passed
  /\ UNCHANGED <<tables, turn, occurrence, fresh, job, memory, ticking, call, armed, calls,
                 crashes, history>>

\* onAlarm: the open rows are read, and what was said of recovering tasks is
\* forgotten.  The alarm may also ring for another client of the object.
TickStart ==
  /\ tick = "idle"
  /\ tick' = "reconciling"
  /\ listed' = {[id |-> r, state |-> run[r].state, rounds |-> run[r].rounds,
                 retry |-> run[r].retry] : r \in {x \in Runs : run[x].state \in OpenStates}}
  /\ recoveringTasks' = {}
  /\ armed' = FALSE
  /\ fresh' = {}
  /\ UNCHANGED <<tables, turn, occurrence, passed, job, activeRuns, firingTasks, waiting,
                 call, calls, crashes, history>>

\* reconcileOpenRuns goes from row to row, by the list it read.
Visits(v) ==
  /\ tick = "reconciling"
  /\ \A j \in Jobs : job[j].by # "reconcile"
  /\ v \in listed
  /\ listed' = listed \ {v}
  /\ UNCHANGED <<task, turn, time, activeRuns, firingTasks, tick, waiting, call, armed,
                 calls, crashes, history>>

\* A run of this instance, or a delivery round that is not due.
VisitOwned(v) ==
  /\ Visits(v)
  /\ v.id \in activeRuns \/ (v.state = "delivering" /\ v.retry /\ v.id \notin passed)
  /\ UNCHANGED <<run, job, recoveringTasks>>

\* A stored result is sent again, unless its task was cancelled.
VisitStored(v) ==
  LET r == v.id
  IN /\ Visits(v)
     /\ v.state = "delivering" /\ r \notin activeRuns
     /\ v.retry => r \in passed
     /\ IF task[run[r].task].status = "cancelled"
          THEN Close(r, "failed") /\ UNCHANGED job
          ELSE /\ job' = [job EXCEPT ![Main(r)] =
                    [NoJob EXCEPT !.stage = "sending", !.rounds = v.rounds,
                                  !.by = "reconcile"]]
               /\ UNCHANGED run
     /\ UNCHANGED recoveringTasks

\* A turn that is recovering owns the row.
VisitLive(v) ==
  /\ Visits(v)
  /\ v.state = "running" /\ v.id \notin activeRuns
  /\ turn[v.id] = "live"
  /\ recoveringTasks' = recoveringTasks \cup {run[v.id].task}
  /\ UNCHANGED <<run, job>>

\* Nobody owns the row: closed as interrupted, never run again.
VisitDead(v) ==
  LET r == v.id
      t == run[r].task
  IN /\ Visits(v)
     /\ v.state = "running" /\ r \notin activeRuns
     /\ turn[r] # "live"
     /\ IF task[t].status = "active"
          THEN /\ job' = [job EXCEPT ![Main(r)] =
                    [NoJob EXCEPT !.stage = "failed", !.rec = AfterFailure(t),
                                  !.ends = "interrupted", !.by = "reconcile"]]
               /\ UNCHANGED run
          ELSE Close(r, "interrupted") /\ UNCHANGED job
     /\ UNCHANGED recoveringTasks

\* The due scan: the tasks the workers of this tick go through.
DueScan ==
  /\ tick = "reconciling"
  /\ listed = {} /\ \A j \in Jobs : job[j].by # "reconcile"
  /\ waiting' = {t \in Tasks : DueRow(t)}
  /\ tick' = "firing"
  /\ UNCHANGED <<tables, turn, time, job, memory, listed, call, armed, calls, crashes,
                 history>>

TickEnd ==
  /\ tick = "firing"
  /\ waiting = {} /\ firingTasks = {}
  /\ tick' = "idle"
  /\ armed' = (armed \/ WakeNeeded)
  /\ UNCHANGED <<tables, turn, time, job, memory, listed, waiting, call, calls, crashes,
                 history>>

-----------------------------------------------------------------------------
(* fire and requestApproval *)

JobFrame == UNCHANGED <<ticking, fresh, call, calls, crashes>>
NoHistory == UNCHANGED history
NoTime == UNCHANGED <<occurrence, passed>>

\* A worker is free for a listed task, and reads its row.
Taken(t) ==
  /\ tick = "firing"
  /\ t \in waiting
  /\ Cardinality(firingTasks) < Workers
  /\ waiting' = waiting \ {t}

Claim(t) == ~Busy(t) /\ firingTasks' = firingTasks \cup {t}

\* fire: the approved run comes before the occurrence.
RunsApproved(t)   == task[t].status = "active" /\ task[t].approved /\ t \notin fresh
RunsOccurrence(t) == Overdue(t) /\ ~RunsApproved(t)

TakeFrame == UNCHANGED <<task, turn, recoveringTasks, armed, tick, listed, fresh, call,
                         calls, crashes, grants, stale, lost, edited>>

\* The task is busy, or it is not due any more (or there is no run id left).
TakeNothing(t) ==
  /\ Taken(t)
  /\ Busy(t) \/ ~(RunsApproved(t) \/ RunsOccurrence(t)) \/ Unused = {}
  /\ UNCHANGED <<run, job, activeRuns, firingTasks, origin>>
  /\ NoTime /\ TakeFrame

\* requestApproval, with the row just read.
AskStarts(t) ==
  /\ Taken(t)
  /\ Claim(t)
  /\ RunsOccurrence(t) /\ task[t].gated
  /\ job' = [job EXCEPT ![Ask(t)] = [NoJob EXCEPT !.stage = "asking", !.rec = Copy(t)]]
  /\ UNCHANGED <<run, activeRuns, origin>>
  /\ NoTime /\ TakeFrame

\* executeRun: a run id is taken for the task and owned from here on.
StartRun(t) ==
  LET r == CHOOSE x \in Unused : TRUE
      approved == RunsApproved(t)
  IN /\ Unused # {}
     /\ Taken(t)
     /\ Claim(t)
     /\ approved \/ (RunsOccurrence(t) /\ ~task[t].gated)
     /\ run' = [run EXCEPT ![r].task = t]
     /\ origin' = [origin EXCEPT ![r] =
          [occurrence |-> IF approved THEN 0 ELSE task[t].next, approved |-> approved]]
     /\ activeRuns' = activeRuns \cup {r}
     /\ job' = [job EXCEPT ![Main(r)] =
          [NoJob EXCEPT !.stage = "starting", !.advanced = approved \/ task[t].gated]]
     /\ NoTime /\ TakeFrame

\* The request is out: the copy read at the fire is saved with it.
Asked(t) ==
  LET j == Ask(t)
      n == IF task[t].once THEN 0 ELSE Computed(t)
  IN /\ job[j].stage = "asking"
     /\ Save(j, t, [job[j].rec EXCEPT !.pending = TRUE, !.next = n])
     /\ Advance(t, n)
     /\ UNCHANGED <<run, turn, activeRuns, origin, grants, edited>>
     /\ End(j, FALSE)
     /\ JobFrame

\* Every retry of the gateway call failed.
AskFails(t) ==
  LET j == Ask(t)
  IN /\ job[j].stage = "asking"
     /\ stale' = stale \ {j}
     /\ UNCHANGED <<task, turn, activeRuns, origin, grants, lost, edited>>
     /\ RecordFailure(j, "failed")
     /\ NoTime /\ JobFrame

-----------------------------------------------------------------------------
(* executeRun and the turn *)

\* Mutant of OpenRow: the marker is read, and not taken.
OpenRowUntaken(r) ==
  LET j == Main(r)
      claimed == origin[r].approved => task[run[r].task].approved
  IN /\ job[j].stage = "starting"
     /\ IF claimed
          THEN /\ run' = [run EXCEPT ![r].state = "running"]
               /\ turn' = [turn EXCEPT ![r] = "live"]
               /\ Goes(j, [job[j] EXCEPT !.stage = "turn"])
               /\ UNCHANGED <<task, activeRuns>>
          ELSE /\ activeRuns' = activeRuns \ {r}
               /\ UNCHANGED <<tables, turn>>
               /\ End(j, FALSE)
     /\ NoTime /\ NoHistory /\ JobFrame

\* The transaction that opens the row; an approved run takes its marker in it.
OpenRow(r) ==
  LET j == Main(r)
      t == run[r].task
      claimed == origin[r].approved => task[t].approved
  IN /\ job[j].stage = "starting"
     /\ IF claimed
          THEN /\ run' = [run EXCEPT ![r].state = "running"]
               /\ turn' = [turn EXCEPT ![r] = "live"]
               /\ task' = [task EXCEPT ![t].approved = @ /\ ~origin[r].approved]
               /\ Goes(j, [job[j] EXCEPT !.stage = "turn"])
               /\ UNCHANGED activeRuns
          ELSE /\ activeRuns' = activeRuns \ {r}
               /\ UNCHANGED <<tables, turn>>
               /\ End(j, FALSE)
     /\ NoTime /\ NoHistory /\ JobFrame

TurnOver(r) == turn[r] = "live" /\ turn' = [turn EXCEPT ![r] = "over"]

\* Mutant of Advanced: the schedule stays where it was.
AdvancedNever(t, byApproval) == IF task[t].once THEN 0 ELSE task[t].next

\* The schedule a result is saved with: a one-shot has no next run, and an
\* approval moved the schedule when it was asked for.
Advanced(t, byApproval) ==
  IF task[t].once THEN 0 ELSE IF byApproval THEN task[t].next ELSE Computed(t)

\* The turn's result: the task as it is now decides what becomes of it.  The
\* result of a stopped task is dropped; executeRun then returns without
\* activeRuns.delete.
TurnAnswers(r) ==
  LET j == Main(r)
      t == run[r].task
  IN /\ job[j].stage = "turn"
     /\ TurnOver(r)
     /\ UNCHANGED <<task, activeRuns>>
     /\ IF task[t].status = "active"
          THEN /\ Goes(j, [job[j] EXCEPT !.stage = "storing",
                    !.rec = [Copy(t) EXCEPT !.next = Advanced(t, job[j].advanced)]])
               /\ UNCHANGED run
          ELSE Close(r, "failed") /\ End(j, FALSE)
     /\ NoTime /\ NoHistory /\ JobFrame

\* runTurn failed, or gave no text, or there was no room to run in.
TurnFails(r) ==
  /\ job[Main(r)].stage = "turn"
  /\ TurnOver(r)
  /\ activeRuns' = activeRuns \ {r}
  /\ UNCHANGED task
  /\ RecordFailure(Main(r), "failed")
  /\ NoTime /\ NoHistory /\ JobFrame

\* The result and the schedule, in one transaction.
StoreResult(j) ==
  LET t == TaskOf(j)
  IN /\ job[j].stage = "storing"
     /\ Save(j, t, job[j].rec)
     /\ Advance(t, job[j].rec.next)
     /\ run' = [run EXCEPT ![j[2]].state = "delivering"]
     /\ Goes(j, [job[j] EXCEPT !.stage = IF j[1] = "back" THEN "refreshing" ELSE "sending"])
     /\ UNCHANGED <<turn, activeRuns, origin, grants, edited>>
     /\ JobFrame

\* A recovered run is owned from here, for the length of its delivery.
Refresh(j) ==
  /\ job[j].stage = "refreshing"
  /\ activeRuns' = activeRuns \cup {j[2]}
  /\ Goes(j, [job[j] EXCEPT !.stage = "sending"])
  /\ UNCHANGED <<tables, turn>>
  /\ NoTime /\ NoHistory /\ JobFrame

-----------------------------------------------------------------------------
(* deliverOrDefer *)

\* Mutant of Delivered: a delivered one-shot is not completed.
DeliveredStaysActive(j) ==
  /\ job[j].stage = "sending"
  /\ Save(j, TaskOf(j), [task[TaskOf(j)] EXCEPT !.failures = 0])
  /\ Close(j[2], "delivered")
  /\ activeRuns' = activeRuns \ {j[2]}
  /\ UNCHANGED <<turn, origin, grants, edited>>
  /\ End(j, FALSE)
  /\ NoTime /\ JobFrame

\* Sent: the task as it is now, in the transaction that closes the row.
Delivered(j) ==
  LET t == TaskOf(j)
      completes == task[t].once /\ task[t].status = "active"
  IN /\ job[j].stage = "sending"
     /\ Save(j, t, [task[t] EXCEPT !.failures = 0,
                                   !.status = IF completes THEN "completed" ELSE @])
     /\ Close(j[2], "delivered")
     /\ activeRuns' = activeRuns \ {j[2]}
     /\ UNCHANGED <<turn, origin, grants, edited>>
     /\ End(j, FALSE)
     /\ NoTime /\ JobFrame

\* A round failed: the next one is parked on the alarm.
Defer(j) ==
  LET r == j[2]
      rounds == job[j].rounds + 1
  IN /\ job[j].stage = "sending"
     /\ rounds < MaxRounds
     /\ run' = [run EXCEPT ![r] = [@ EXCEPT !.rounds = rounds, !.retry = TRUE]]
     /\ passed' = passed \ {r}
     /\ activeRuns' = activeRuns \ {r}
     /\ UNCHANGED <<task, turn, occurrence>>
     /\ End(j, TRUE)
     /\ NoHistory /\ JobFrame

\* The last round failed.
GiveUp(j) ==
  /\ job[j].stage = "sending"
  /\ job[j].rounds + 1 >= MaxRounds
  /\ activeRuns' = IF task[TaskOf(j)].status = "active" THEN activeRuns
                   ELSE activeRuns \ {j[2]}
  /\ UNCHANGED <<task, turn>>
  /\ RecordFailure(j, "failed")
  /\ NoTime /\ NoHistory /\ JobFrame

\* recordFailure's transaction.
FailSave(j) ==
  LET t == TaskOf(j)
  IN /\ job[j].stage = "failed"
     /\ Save(j, t, job[j].rec)
     /\ Advance(t, job[j].rec.next)
     /\ IF j[1] = "ask" THEN UNCHANGED <<run, activeRuns>>
        ELSE Close(j[2], job[j].ends) /\ activeRuns' = activeRuns \ {j[2]}
     /\ UNCHANGED <<turn, origin, grants, edited>>
     /\ End(j, FALSE)
     /\ JobFrame

-----------------------------------------------------------------------------
(* completeRecoveredRun and failRecoveredRun *)

\* A turn no function of this instance waits for ends: onRunEnded.
RecoveredEnds(r, ok) ==
  /\ TurnOver(r)
  /\ r \notin activeRuns
  /\ Goes(Back(r), [NoJob EXCEPT !.stage = "opening", !.by = "recovery",
                                 !.ends = IF ok THEN "failed" ELSE "interrupted"])
  /\ UNCHANGED <<tables, activeRuns>>
  /\ NoTime /\ NoHistory /\ JobFrame

\* Only a row that is still running is touched; the other way out neither
\* clears recoveringTasks nor re-arms.
BackIsLate(r) ==
  /\ job[Back(r)].stage = "opening"
  /\ run[r].state # "running"
  /\ Goes(Back(r), NoJob)
  /\ UNCHANGED <<tables, turn, activeRuns>>
  /\ NoTime /\ NoHistory /\ JobFrame

\* finishRecoveredRun: whether an approval moved the schedule is asked of the
\* task as it is now.
BackAnswers(r) ==
  LET j == Back(r)
      t == run[r].task
  IN /\ job[j].stage = "opening" /\ job[j].ends = "failed"
     /\ run[r].state = "running"
     /\ UNCHANGED <<task, turn, activeRuns>>
     /\ IF task[t].status = "active"
          THEN /\ Goes(j, [job[j] EXCEPT !.stage = "storing",
                    !.rec = [Copy(t) EXCEPT !.next = Advanced(t, task[t].gated)]])
               /\ UNCHANGED run
          ELSE Close(r, "failed") /\ End(j, FALSE)
     /\ NoTime /\ NoHistory /\ JobFrame

\* The recovered turn failed, or came back without text.
BackFails(r) ==
  LET j == Back(r)
  IN /\ job[j].stage = "opening"
     /\ run[r].state = "running"
     /\ UNCHANGED <<task, turn, activeRuns>>
     /\ RecordFailure(j, job[j].ends)
     /\ NoTime /\ NoHistory /\ JobFrame

-----------------------------------------------------------------------------
(* The task tools: a read, and later a save of what was read *)

CallFrame == UNCHANGED <<run, turn, job, memory, ticking, crashes, origin>>

\* create: the first occurrence is armed.
Create(t, kind) ==
  /\ task[t].status = "absent"
  /\ task' = [task EXCEPT ![t] = [NoTaskRow EXCEPT !.status = "active", !.next = 1,
                                                   !.once = kind.once,
                                                   !.gated = kind.gated]]
  /\ occurrence' = [occurrence EXCEPT ![t] = 1]
  /\ armed' = TRUE
  /\ CallFrame
  /\ UNCHANGED <<passed, fresh, call, calls, grants, stale, lost, edited>>

Reads(c, t, op, rec, at) ==
  /\ call[c].task = NoTask
  /\ calls < MaxCalls
  /\ call' = [call EXCEPT ![c] = [task |-> t, op |-> op, rec |-> rec, at |-> at]]
  /\ calls' = calls + 1
  /\ CallFrame
  /\ UNCHANGED <<task, time, armed, grants, stale, lost, edited>>

Pause(c, t) ==
  /\ task[t].status = "active"
  /\ Reads(c, t, "pause",
           [Copy(t) EXCEPT !.status = "paused", !.next = 0, !.pending = FALSE], 0)

Resume(c, t) ==
  /\ task[t].status \in {"paused", "failed"}
  /\ Computed(t) # 0
  /\ Reads(c, t, "resume",
           [Copy(t) EXCEPT !.status = "active", !.next = Computed(t), !.failures = 0,
                           !.pending = FALSE],
           Computed(t))

Cancel(c, t) ==
  /\ task[t].status \in {"active", "paused", "failed"}
  /\ Reads(c, t, "cancel",
           [Copy(t) EXCEPT !.status = "cancelled", !.next = 0, !.pending = FALSE], 0)

Editable(t) == task[t].status \in {"active", "paused", "failed"}

\* update of the title, or of the approval.
Edit(c, t, gated) ==
  /\ Editable(t)
  /\ Reads(c, t, "edit",
           [Copy(t) EXCEPT !.gated = gated, !.pending = @ /\ gated \in {TRUE, task[t].gated}],
           0)

\* update of the schedule: a task that is not active gets its next run from
\* resume.
Reschedule(c, t) ==
  LET at == occurrence[t] + 1
  IN /\ Editable(t)
     /\ at <= Horizon
     /\ Reads(c, t, "reschedule",
              [Copy(t) EXCEPT !.next = IF task[t].status = "active" THEN at ELSE 0], at)

Approve(c, t) ==
  /\ task[t].status = "active" /\ task[t].pending
  /\ Reads(c, t, "approve", [Copy(t) EXCEPT !.pending = FALSE, !.approved = TRUE], 0)

\* A declined one-shot has nothing left to run.
Reject(c, t) ==
  /\ task[t].status = "active" /\ task[t].pending
  /\ Reads(c, t, "reject",
           IF task[t].once
             THEN [Copy(t) EXCEPT !.pending = FALSE, !.status = "cancelled", !.next = 0]
             ELSE [Copy(t) EXCEPT !.pending = FALSE],
           0)

\* The save of the copy; with the approval's marker in its transaction.
CallSaves(c) ==
  LET t == call[c].task
      rec == call[c].rec
  IN /\ t # NoTask
     /\ Save(c, t, rec)
     /\ Advance(t, call[c].at)
     /\ fresh' = IF rec.approved THEN fresh \cup {t} ELSE fresh
     /\ grants' = [grants EXCEPT ![t] = IF rec.approved THEN @ + 1 ELSE @]
     /\ armed' = (armed \/ rec.approved \/ (call[c].at # 0 /\ rec.status = "active"))
     /\ edited' = IF call[c].op = "edit" /\ rec.gated # task[t].gated
                    THEN edited \cup {t} ELSE edited
     /\ call' = [call EXCEPT ![c] = NoCall]
     /\ CallFrame
     /\ UNCHANGED calls

-----------------------------------------------------------------------------
(* The object is reset: the tables stay, the memory goes, and each live turn  *)
(* is recovered or lost.  The alarm rings again: it is retried when it dies   *)
(* in its handler, and kept armed while a turn runs.                          *)

Crash ==
  /\ crashes < MaxCrashes
  /\ crashes' = crashes + 1
  /\ \E S \in SUBSET {r \in Runs : turn[r] = "live"} :
       turn' = [r \in Runs |-> IF turn[r] = "live" /\ r \notin S THEN "over" ELSE turn[r]]
  /\ job' = [j \in Jobs |-> NoJob]
  /\ activeRuns' = {} /\ firingTasks' = {} /\ recoveringTasks' = {}
  /\ tick' = "idle" /\ listed' = {} /\ waiting' = {}
  /\ call' = [c \in Callers |-> NoCall]
  /\ armed' = TRUE
  /\ fresh' = {} /\ stale' = {}
  /\ UNCHANGED <<tables, occurrence, passed, calls, origin, grants, lost, edited>>

-----------------------------------------------------------------------------
TickSteps ==
  \/ \E v \in listed : VisitOwned(v) \/ VisitStored(v) \/ VisitLive(v) \/ VisitDead(v)
  \/ DueScan
  \/ \E t \in Tasks : TakeNothing(t) \/ AskStarts(t) \/ StartRun(t)
  \/ TickEnd

AskSteps(t) == Asked(t) \/ AskFails(t) \/ FailSave(Ask(t))

DeliverySteps(j) ==
  StoreResult(j) \/ Refresh(j) \/ Delivered(j) \/ Defer(j) \/ GiveUp(j) \/ FailSave(j)

RunSteps(r) == OpenRow(r) \/ TurnAnswers(r) \/ TurnFails(r) \/ DeliverySteps(Main(r))

BackSteps(r) ==
  \/ \E ok \in BOOLEAN : RecoveredEnds(r, ok)
  \/ BackIsLate(r) \/ BackAnswers(r) \/ BackFails(r)
  \/ DeliverySteps(Back(r))

CallStarts(c, t) == \/ Pause(c, t) \/ Resume(c, t) \/ Cancel(c, t)
                    \/ \E gated \in BOOLEAN : Edit(c, t, gated)
                    \/ Reschedule(c, t)
                    \/ Approve(c, t) \/ Reject(c, t)

\* What is under way goes on: promises settle and turns end.  The functions
\* are finitely many and each is finite, so one conjunct serves them all.
JobSteps == \/ \E t \in Tasks : AskSteps(t)
            \/ \E r \in Runs : RunSteps(r) \/ BackSteps(r)
            \/ \E c \in Callers : CallSaves(c)

Next ==
  \/ TimePasses
  \/ TickStart
  \/ TickSteps
  \/ JobSteps
  \/ \E t \in Tasks : \/ \E kind \in Kinds : Create(t, kind)
                      \/ \E c \in Callers : CallStarts(c, t)
  \/ Crash

Spec == Init /\ [][Next]_vars

\* Time passes, and an alarm asked for rings.
Fairness == /\ WF_vars(TimePasses)
            /\ WF_vars(armed /\ TickStart)
            /\ WF_vars(TickSteps)
            /\ WF_vars(JobSteps)

FairSpec == Spec /\ Fairness

-----------------------------------------------------------------------------
(* Properties *)

\* The tables, the memory of the instance and the functions under way.
TypeOK ==
  /\ task \in [Tasks -> Task]
  /\ run \in [Runs -> Run]
  /\ turn \in [Runs -> Turns]
  /\ occurrence \in [Tasks -> 0..Horizon]
  /\ passed \subseteq Tasks \cup Runs
  /\ fresh \subseteq Tasks
  /\ job \in [Jobs -> Job]
  /\ activeRuns \subseteq Runs
  /\ firingTasks \cup recoveringTasks \cup waiting \subseteq Tasks
  /\ tick \in {"idle", "reconciling", "firing"}
  /\ \A v \in listed : v.id \in Runs /\ v.state \in OpenStates /\ v.rounds \in Nat
  /\ call \in [Callers -> Call]
  /\ armed \in BOOLEAN
  /\ calls \in 0..MaxCalls
  /\ crashes \in 0..MaxCrashes
  /\ origin \in [Runs -> Origin]
  /\ grants \in [Tasks -> Nat]
  /\ stale \subseteq Jobs \cup Callers
  /\ lost \cup edited \subseteq Tasks

\* An occurrence of the schedule is executed once: no second run of it ever
\* starts a turn, whatever resets, failures, pauses and late results come
\* between.  A task that lost an update is not covered.
OccurrenceRunsOnce ==
  \A r, q \in Runs :
    /\ run[r].task = run[q].task /\ run[r].task \in Tasks \ (lost \cup edited)
    /\ ~origin[r].approved /\ ~origin[q].approved
    /\ origin[r].occurrence = origin[q].occurrence
    /\ turn[r] # "none" /\ turn[q] # "none"
    => r = q

\* An approval is executed at most once: the approved runs of a task and the
\* marker it holds are never more than the approvals given.
ApprovalRunsOnce ==
  \A t \in Tasks :
    Cardinality({r \in Runs : /\ run[r].task = t /\ run[r].state # "none"
                              /\ origin[r].approved})
      + (IF task[t].approved THEN 1 ELSE 0) <= grants[t]

\* A stopped task is started again by resume alone; a writer that held a copy
\* another write has overtaken is the one exception.
StopStands ==
  [][\A t \in Tasks :
       task[t].status \in Stopped /\ task'[t].status = "active" =>
         \/ \E c \in Callers : call[c].task = t /\ call[c].op = "resume" /\ call' # call
         \/ stale \ stale' # {}]_vars

\* An active task has something to come: an occurrence, a request, an
\* approval, or a run that is not settled.  A one-shot the user edited of its
\* approval while the request stood has none.
ActiveTasksAreGoing ==
  \A t \in Tasks \ lost :
    task[t].status = "active" =>
      \/ task[t].next # 0 \/ task[t].pending \/ task[t].approved
      \/ job[Ask(t)].stage # "none"
      \/ \E r \in Runs : /\ run[r].task = t
                         /\ \/ run[r].state \in OpenStates
                            \/ job[Main(r)].stage # "none"
      \/ t \in edited /\ task[t].once

\* activeRuns still holds a run of t that is over: its result was dropped.  The
\* task stays busy until the object is reset.
Leaked(t) ==
  \E r \in activeRuns : /\ run[r].task = t
                        /\ job[Main(r)].stage = "none" /\ job[Back(r)].stage = "none"

\* Nothing of the task is left behind: whatever resets, failed sends and calls
\* come between, an occurrence that has come is taken up and every row that is
\* opened is closed.  Not taken up are the occurrences of a task with a run left
\* in activeRuns, and those the stale save of a tool brought back, which arms
\* nothing; and there must be a run id left (a bound).
EveryTaskSettles ==
  \A t \in Tasks :
    []<>(/\ \A r \in Runs : run[r].task = t => run[r].state \notin OpenStates
         /\ ~Overdue(t) \/ Leaked(t) \/ t \in lost \/ Unused = {})

=============================================================================
