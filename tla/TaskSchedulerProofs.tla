------------------------ MODULE TaskSchedulerProofs ------------------------
(***************************************************************************)
(* Theorems about TaskScheduler, for every set of tasks, runs and callers  *)
(* and every bound.  TypeInv has the types and what they rest on: which    *)
(* stages a function under way can be in, and what the tick, a listed row  *)
(* and a saved record can be.  Every step is then one of a few shapes      *)
(* (TaskStep), and the other invariants are proved over the shapes:        *)
(*                                                                         *)
(*   CopyInv        a copy that is not overtaken has the status of its task*)
(*                  (StopStands);                                          *)
(*   ApprovedInv    the runs that execute an approval are finite, and      *)
(*                  counted (ApprovalRunsOnce);                            *)
(*   GoingInv       what is active has something to come                   *)
(*                  (ActiveTasksAreGoing);                                 *)
(*   OwnerInv       a running row has one owner: the alarm, or a turn that *)
(*                  outlived a reset and that the tick knows of;           *)
(*   OccurrenceInv  what was executed has come, and neither the schedule nor*)
(*                  a copy of it goes back there (OccurrenceRunsOnce).     *)
(***************************************************************************)
EXTENDS TaskScheduler, FiniteSetTheorems, TLAPS

\* The stages in which a job holds a copy of the task it will save.
Held == {"asking", "storing", "failed"}

\* A run id is unused, or belongs to a task; its turn exists once its row does,
\* and a live turn has a running row.
RunsInv ==
  \A r \in Runs :
    /\ run[r].task = NoTask => /\ run[r].state = "none" /\ r \notin activeRuns
                               /\ job[Main(r)].stage = "none" /\ job[Back(r)].stage = "none"
    /\ turn[r] = "none" <=> run[r].state = "none"
    /\ turn[r] = "live" => run[r].state = "running"

\* The run of a task, from executeRun or from a row the tick found.
MainInv ==
  \A r \in Runs :
    LET stage == job[Main(r)].stage
    IN /\ stage \in {"none", "starting", "turn", "storing", "sending", "failed"}
       /\ stage = "starting" => turn[r] = "none"
       /\ stage = "turn" => turn[r] # "none"
       /\ stage \in {"storing", "sending", "failed"} => turn[r] = "over"
       /\ stage = "sending" => run[r].state # "running"
       /\ job[Main(r)].by # "recovery"
       /\ job[Main(r)].by = "reconcile" => stage \in {"sending", "failed"}

\* The completion of a turn that outlived a reset.
BackInv ==
  \A r \in Runs :
    LET stage == job[Back(r)].stage
    IN /\ stage \in {"none", "opening", "storing", "refreshing", "sending", "failed"}
       /\ stage # "none" => turn[r] = "over" /\ job[Back(r)].by = "recovery"
       /\ stage \in {"refreshing", "sending"} => run[r].state # "running"
       /\ job[Back(r)].by # "reconcile"

\* The approval request of a task.
AskInv ==
  \A t \in Tasks : /\ job[Ask(t)].stage \in {"none", "asking", "failed"}
                   /\ job[Ask(t)].by = "tick"

\* A row the tick has listed has been opened, and does not run again.
ListedInv ==
  \A v \in listed : /\ run[v.id].state # "none"
                    /\ v.state = "delivering" => run[v.id].state # "running"

\* Nobody holds a task that does not exist; one that exists has been scheduled.
TasksInv ==
  \A t \in Tasks :
    /\ task[t].status = "absent" => /\ job[Ask(t)].stage = "none"
                                    /\ \A r \in Runs : run[r].task # t
                                    /\ \A c \in Callers : call[c].task # t
    /\ task[t].status # "absent" => occurrence[t] # 0
    /\ t \in passed => occurrence[t] \in 1..MaxOccurrences

\* What is about to be saved is a task that exists; only an approval grants.
RecsInv ==
  /\ \A j \in Jobs : job[j].stage \in Held =>
       /\ job[j].rec.status # "absent" /\ ~job[j].rec.approved
       /\ job[j].rec.once = task[TaskOf(j)].once
  /\ \A c \in Callers : call[c].task # NoTask =>
       /\ call[c].rec.status # "absent"
       /\ call[c].rec.approved <=> call[c].op = "approve"
       /\ call[c].rec.once = task[call[c].task].once

\* An overtaken writer still holds its copy.
StaleInv ==
  \A w \in stale : \/ w \in Jobs /\ job[w].stage \in Held
                   \/ w \in Callers /\ call[w].task # NoTask

\* A worker of the tick is at work for job j.
TickJob(j) == job[j].stage # "none" /\ job[j].by = "tick"

\* One worker for a task, while the tick fires; one that reconciles does so before.
FiringInv ==
  /\ \A j \in Jobs : TickJob(j) => TaskOf(j) \in firingTasks
  /\ \A i, j \in Jobs : TickJob(i) /\ TickJob(j) /\ TaskOf(i) = TaskOf(j) => i = j
  /\ firingTasks # {} => tick = "firing"
  /\ \A j \in Jobs : job[j].by = "reconcile" => tick = "reconciling"

JobsInv == RunsInv /\ MainInv /\ BackInv /\ AskInv /\ ListedInv /\ FiringInv

TypeInv == TypeOK /\ JobsInv /\ TasksInv /\ RecsInv /\ StaleInv

-----------------------------------------------------------------------------
(* Names *)

\* The jobs are the requests, the runs and the completions, all distinct.
LEMMA JobNames ==
  /\ \A t \in Tasks : Ask(t) \in Jobs /\ Ask(t)[1] = "ask" /\ Ask(t)[2] = t
  /\ \A r \in Runs : /\ Main(r) \in Jobs /\ Main(r)[1] = "run" /\ Main(r)[2] = r
                     /\ Back(r) \in Jobs /\ Back(r)[1] = "back" /\ Back(r)[2] = r
  /\ \A j \in Jobs : \/ j[1] = "ask" /\ j[2] \in Tasks /\ j = Ask(j[2])
                     \/ j[1] = "run" /\ j[2] \in Runs /\ j = Main(j[2])
                     \/ j[1] = "back" /\ j[2] \in Runs /\ j = Back(j[2])
BY DEF Jobs, Ask, Main, Back

\* Two names are the same only for the same task or run.
LEMMA Distinct ==
  /\ \A t, u \in Tasks : Ask(t) = Ask(u) => t = u
  /\ \A r, q \in Runs : /\ Main(r) = Main(q) => r = q
                        /\ Back(r) = Back(q) => r = q
                        /\ Main(r) # Back(q)
  /\ \A t \in Tasks, r \in Runs : Ask(t) # Main(r) /\ Ask(t) # Back(r)
BY DEF Ask, Main, Back

\* Whose task a job is about.
LEMMA TasksOfJobs ==
  /\ \A t \in Tasks : TaskOf(Ask(t)) = t
  /\ \A r \in Runs : TaskOf(Main(r)) = run[r].task /\ TaskOf(Back(r)) = run[r].task
BY JobNames DEF TaskOf

\* The constants of the tables.
LEMMA Blank ==
  /\ NoTaskRow \in Task /\ NoTaskRow.status = "absent" /\ ~NoTaskRow.approved
  /\ NoRunRow \in Run /\ NoRunRow.task = NoTask /\ NoRunRow.state = "none"
  /\ NoJob \in Job /\ NoJob.stage = "none" /\ NoJob.by = "tick"
  /\ NoCall \in Call /\ NoCall.task = NoTask
  /\ Horizon \in Nat /\ Horizon = MaxOccurrences + 1 /\ MaxOccurrences \in Nat
BY LimitsAssumption
   DEF NoTaskRow, Task, Statuses, NoRunRow, Run, NoJob, Job, Stages, NoCall, Call, Horizon

-----------------------------------------------------------------------------
(* Types of what the helpers compute *)

\* A computed occurrence is one of the schedule.
LEMMA ComputedType ==
  ASSUME TypeOK, TasksInv, NEW t \in Tasks
  PROVE  /\ Computed(t) \in 0..Horizon
         /\ t \notin passed => Computed(t) = occurrence[t]
         /\ t \in passed /\ ~task[t].once => Computed(t) = occurrence[t] + 1
         /\ t \in passed /\ task[t].once => Computed(t) = 0
         /\ task[t].status # "absent" /\ ~task[t].once => Computed(t) # 0
<1>1. occurrence[t] \in 0..Horizon /\ (t \in passed => occurrence[t] \in 1..MaxOccurrences)
  BY DEF TypeOK, TasksInv
<1>2. task[t].status # "absent" => occurrence[t] # 0
  BY DEF TasksInv
<1> QED
  BY <1>1, <1>2, Blank DEF Computed

\* A copy of a row.
LEMMA CopyType ==
  ASSUME TypeOK, NEW t \in Tasks
  PROVE  /\ Copy(t) \in Task /\ task[t] \in Task
         /\ Copy(t).status = task[t].status /\ Copy(t).next = task[t].next
         /\ Copy(t).pending = task[t].pending /\ ~Copy(t).approved
         /\ Copy(t).once = task[t].once /\ Copy(t).gated = task[t].gated
         /\ Copy(t).failures = task[t].failures
BY ZenonT(60) DEF TypeOK, Copy, Task

\* A row charged with one more failure.
LEMMA AfterFailureType ==
  ASSUME TypeOK, TasksInv, NEW t \in Tasks
  PROVE  /\ AfterFailure(t) \in Task
         /\ ~AfterFailure(t).approved
         /\ AfterFailure(t).once = task[t].once /\ AfterFailure(t).gated = task[t].gated
         /\ \/ AfterFailure(t).status = "failed" /\ AfterFailure(t).next = 0
            \/ /\ AfterFailure(t).status = task[t].status
               /\ AfterFailure(t).next = Computed(t)
               /\ ~task[t].once
<1>1. Copy(t) \in Task
  BY CopyType
<1>2. Computed(t) \in 0..Horizon /\ 0 \in 0..Horizon
  BY ComputedType, Blank
<1> DEFINE n == task[t].failures + 1
           stops == task[t].once \/ n >= MaxFailures
<1>3. AfterFailure(t) = [Copy(t) EXCEPT !.failures = n,
                           !.status = IF stops THEN "failed" ELSE @,
                           !.next = IF stops THEN 0 ELSE Computed(t),
                           !.pending = @ /\ ~stops]
  BY DEF AfterFailure
<1>4. n \in Nat
  BY CopyType DEF Task
<1>5. stops \in BOOLEAN /\ (task[t].once => stops)
  OBVIOUS
<1> HIDE DEF n, stops
<1>6. AfterFailure(t) \in Task
  BY <1>1, <1>2, <1>3, <1>4, <1>5 DEF Task, Statuses
<1> QED
  BY <1>1, <1>3, <1>5, <1>6, CopyType DEF Task

-----------------------------------------------------------------------------
(* What the helpers write *)

\* Job j is rewritten, the others are not.
Moves(j, to) == /\ job' \in [Jobs -> Job] /\ job'[j] = to
                /\ \A x \in Jobs \ {j} : job'[x] = job[x]

\* The row of run r is rewritten, the others are not.
Rewrites(r, to) == /\ run' \in [Runs -> Run] /\ run'[r] = to
                   /\ \A x \in Runs \ {r} : run'[x] = run[x]

\* A job goes on.
LEMMA GoesType ==
  ASSUME TypeOK, NEW j \in Jobs, NEW to \in Job, Goes(j, to)
  PROVE  Moves(j, to) /\ UNCHANGED <<firingTasks, recoveringTasks, armed>>
BY DEF Goes, TypeOK, Moves

\* A job is over.
LEMMA EndType ==
  ASSUME TypeOK, NEW j \in Jobs, NEW wake, End(j, wake)
  PROVE  /\ Moves(j, NoJob)
         /\ firingTasks' = IF job[j].by = "tick" THEN firingTasks \ {TaskOf(j)} ELSE firingTasks
         /\ recoveringTasks' = IF job[j].by = "recovery" THEN recoveringTasks \ {TaskOf(j)}
                               ELSE recoveringTasks
         /\ firingTasks' \cup recoveringTasks' \subseteq Tasks
         /\ armed' \in BOOLEAN
<1>1. Moves(j, NoJob)
  BY Blank DEF End, TypeOK, Moves
<1>2. armed' \in BOOLEAN
  BY Zenon DEF End
<1> QED
  BY <1>1, <1>2 DEF End, TypeOK

\* A row is closed.
LEMMA CloseType ==
  ASSUME TypeOK, NEW r \in Runs, NEW state \in ClosedStates, Close(r, state)
  PROVE  /\ run' \in [Runs -> Run]
         /\ \A x \in Runs : run'[x].task = run[x].task
         /\ run'[r].state = state
         /\ \A x \in Runs \ {r} : run'[x] = run[x]
<1>1. run[r] \in Run /\ state \in {"none"} \cup OpenStates \cup ClosedStates
  BY DEF TypeOK
<1> DEFINE open == [run[r] EXCEPT !.state = state]
           closed == [open EXCEPT !.retry = FALSE]
<1>2. open \in Run /\ open.state = state /\ open.task = run[r].task
  BY <1>1 DEF Run
<1>3. closed \in Run /\ closed.state = state /\ closed.task = run[r].task
  <2> HIDE DEF open
  <2> QED
    BY <1>2 DEF Run
<1>4. run' = [run EXCEPT ![r] = closed]
  BY DEF Close
<1> HIDE DEF open, closed
<1> QED
  BY <1>3, <1>4 DEF TypeOK

\* The schedule moves on.
LEMMA AdvanceType ==
  ASSUME TypeOK, TasksInv, NEW t \in Tasks, NEW n \in 0..Horizon, Advance(t, n)
  PROVE  /\ occurrence' \in [Tasks -> 0..Horizon]
         /\ passed' \subseteq passed
         /\ \A u \in Tasks \ {t} : occurrence'[u] = occurrence[u] /\ (u \in passed' <=> u \in passed)
         /\ occurrence'[t] >= occurrence[t] /\ occurrence'[t] >= n
         /\ occurrence'[t] # occurrence[t] => t \notin passed'
         /\ occurrence'[t] = occurrence[t] => passed' = passed
BY Blank DEF Advance, TypeOK

\* A row is saved by w.
LEMMA SaveType ==
  ASSUME TypeOK, NEW t \in Tasks, NEW w \in Jobs \cup Callers, NEW rec \in Task, Save(w, t, rec)
  PROVE  /\ task' \in [Tasks -> Task]
         /\ \A u \in Tasks \ {t} : task'[u] = task[u]
         /\ task'[t].status = rec.status /\ task'[t].next = rec.next
         /\ task'[t].pending = rec.pending /\ task'[t].once = rec.once
         /\ task'[t].gated = rec.gated
         /\ task'[t].approved <=> rec.status = "active" /\ (rec.approved \/ task[t].approved)
         /\ stale' = (stale \cup Holding(t)) \ {w}
         /\ lost' = IF w \in stale THEN lost \cup {t} ELSE lost
         /\ stale' \subseteq Jobs \cup Callers /\ lost' \subseteq Tasks
         /\ task'[t].approved \in BOOLEAN
<1> DEFINE marker == rec.status = "active" /\ (rec.approved \/ task[t].approved)
<1>1. task' = [task EXCEPT ![t] = [rec EXCEPT !.approved = marker]]
  BY DEF Save
<1>2. marker \in BOOLEAN
  OBVIOUS
<1>3. [rec EXCEPT !.approved = marker] \in Task
  <2> HIDE DEF marker
  <2> QED
    BY <1>2 DEF Task
<1>4. /\ task' \in [Tasks -> Task]
      /\ \A u \in Tasks \ {t} : task'[u] = task[u]
      /\ task'[t] = [rec EXCEPT !.approved = marker]
  <2> HIDE DEF marker
  <2> QED
    BY <1>1, <1>3 DEF TypeOK
<1>5. /\ task'[t].status = rec.status /\ task'[t].next = rec.next
      /\ task'[t].pending = rec.pending /\ task'[t].once = rec.once
      /\ task'[t].gated = rec.gated
      /\ task'[t].approved = marker
  <2> HIDE DEF marker
  <2> QED
    BY <1>4 DEF Task
<1>6. /\ stale' = (stale \cup Holding(t)) \ {w}
      /\ lost' = IF w \in stale THEN lost \cup {t} ELSE lost
  BY DEF Save
<1>7. stale' \subseteq Jobs \cup Callers /\ lost' \subseteq Tasks
  BY <1>6 DEF Holding, TypeOK
<1> QED
  BY <1>2, <1>4, <1>5, <1>6, <1>7

\* A failure is charged to an active task later, or the row is closed now.
LEMMA RecordFailureType ==
  ASSUME TypeOK, TasksInv, NEW j \in Jobs, TaskOf(j) \in Tasks,
         NEW ends \in {"failed", "interrupted"}, RecordFailure(j, ends)
  PROVE  /\ run' \in [Runs -> Run] /\ job' \in [Jobs -> Job] /\ armed' \in BOOLEAN
         /\ firingTasks' \cup recoveringTasks' \subseteq Tasks
         /\ \A x \in Jobs \ {j} : job'[x] = job[x]
         /\ \A x \in Runs : run'[x].task = run[x].task
         /\ \A x \in Runs : j[1] = "ask" \/ x # j[2] => run'[x] = run[x]
         /\ \/ /\ task[TaskOf(j)].status = "active"
               /\ job'[j].stage = "failed" /\ job'[j].rec = AfterFailure(TaskOf(j))
               /\ job'[j].by = job[j].by
               /\ UNCHANGED <<run, firingTasks, recoveringTasks, armed>>
            \/ /\ task[TaskOf(j)].status # "active"
               /\ job'[j] = NoJob
               /\ j[1] # "ask" => run'[j[2]].state \in ClosedStates
               /\ firingTasks' = IF job[j].by = "tick" THEN firingTasks \ {TaskOf(j)} ELSE firingTasks
               /\ recoveringTasks' = IF job[j].by = "recovery" THEN recoveringTasks \ {TaskOf(j)}
                                     ELSE recoveringTasks
<1> DEFINE t == TaskOf(j)
           to == [job[j] EXCEPT !.stage = "failed", !.ends = ends, !.rec = AfterFailure(t)]
<1>1. CASE task[t].status = "active"
  <2>1. UNCHANGED run /\ Goes(j, to)
    BY <1>1 DEF RecordFailure
  <2>2. AfterFailure(t) \in Task
    BY AfterFailureType
  <2>3. to \in Job /\ to.stage = "failed" /\ to.rec = AfterFailure(t) /\ to.by = job[j].by
    BY <2>2, ZenonT(60) DEF TypeOK, Job, Stages
  <2> HIDE DEF to
  <2>4. Moves(j, to) /\ UNCHANGED <<firingTasks, recoveringTasks, armed>>
    BY <2>1, <2>3, GoesType
  <2> QED
    BY <1>1, <2>1, <2>3, <2>4 DEF Moves, TypeOK
<1>2. CASE task[t].status # "active"
  <2>1. (IF j[1] = "ask" THEN UNCHANGED run ELSE Close(j[2], ends)) /\ End(j, FALSE)
    BY <1>2 DEF RecordFailure
  <2>2. Moves(j, NoJob) /\ armed' \in BOOLEAN /\ firingTasks' \cup recoveringTasks' \subseteq Tasks
    BY <2>1, EndType
  <2>3. CASE j[1] = "ask"
    BY <1>2, <2>1, <2>2, <2>3, EndType DEF Moves, TypeOK
  <2>4. CASE j[1] # "ask"
    <3>1. j[2] \in Runs
      BY <2>4, JobNames
    <3>2. Close(j[2], ends) /\ ends \in ClosedStates
      BY <2>1, <2>4 DEF ClosedStates
    <3>3. run' \in [Runs -> Run] /\ (\A x \in Runs : run'[x].task = run[x].task)
          /\ run'[j[2]].state = ends /\ \A x \in Runs \ {j[2]} : run'[x] = run[x]
      BY <3>1, <3>2, CloseType
    <3> QED
      BY <1>2, <2>1, <2>2, <2>4, <3>1, <3>2, <3>3, EndType DEF Moves
  <2> QED
    BY <2>3, <2>4
<1> QED
  BY <1>1, <1>2

-----------------------------------------------------------------------------
(* What a step does to a run *)

\* Job j goes from one of the stages to another.
At(j, from, to) == /\ job[j].stage \in from
                   /\ job'[j].stage = to
                   /\ job'[j].by = IF to = "none" THEN "tick" ELSE job[j].by

Keeps(x)     == run'[x].state = run[x].state /\ turn'[x] = turn[x]
Closes(x)    == run'[x].state \in ClosedStates /\ turn'[x] = turn[x]
TurnEnds(x)  == turn[x] = "live" /\ turn'[x] = "over"
SameMain(x)  == job'[Main(x)] = job[Main(x)]
SameBack(x)  == job'[Back(x)] = job[Back(x)]

\* Nothing of run x changes.
Still(x) == Keeps(x) /\ run'[x].task = run[x].task /\ SameMain(x) /\ SameBack(x)

\* Its job goes on.
MainMove(x) ==
  \/ At(Main(x), {"starting"}, "turn") /\ run'[x].state = "running" /\ turn'[x] = "live"
  \/ At(Main(x), {"starting"}, "none") /\ Keeps(x)
  \/ /\ At(Main(x), {"turn"}, "storing") \/ At(Main(x), {"turn"}, "failed")
     /\ TurnEnds(x) /\ run'[x].state = run[x].state
  \/ At(Main(x), {"turn"}, "none") /\ TurnEnds(x) /\ run'[x].state \in ClosedStates
  \/ /\ At(Main(x), {"storing"}, "sending")
     /\ run'[x].state = "delivering" /\ turn'[x] = turn[x]
  \/ At(Main(x), {"sending"}, "none") /\ (Keeps(x) \/ Closes(x))
  \/ At(Main(x), {"sending"}, "failed") /\ Keeps(x)
  \/ At(Main(x), {"failed"}, "none") /\ Closes(x)

\* Its completion goes on.
BackMove(x) ==
  \/ /\ job'[Back(x)].stage = "opening" /\ job'[Back(x)].by = "recovery"
     /\ TurnEnds(x) /\ run'[x].state = run[x].state
  \/ At(Back(x), {"opening"}, "none") /\ Keeps(x) /\ run[x].state # "running"
  \/ At(Back(x), {"opening"}, "none") /\ Closes(x)
  \/ /\ At(Back(x), {"opening"}, "storing") \/ At(Back(x), {"opening"}, "failed")
     /\ Keeps(x) /\ run[x].state = "running"
  \/ /\ At(Back(x), {"storing"}, "refreshing")
     /\ run'[x].state = "delivering" /\ turn'[x] = turn[x]
  \/ At(Back(x), {"refreshing"}, "sending") /\ Keeps(x)
  \/ At(Back(x), {"sending"}, "none") /\ (Keeps(x) \/ Closes(x))
  \/ At(Back(x), {"sending"}, "failed") /\ Keeps(x)
  \/ At(Back(x), {"failed"}, "none") /\ Closes(x)

\* The tick finds its row.
VisitMove(x) ==
  /\ SameBack(x)
  /\ \/ /\ Keeps(x) /\ run[x].state \notin {"none", "running"}
        /\ job'[Main(x)].stage = "sending" /\ job'[Main(x)].by = "reconcile"
     \/ /\ Keeps(x) /\ run[x].state # "none" /\ turn[x] # "live"
        /\ job'[Main(x)].stage = "failed" /\ job'[Main(x)].by = "reconcile"
     \/ Closes(x) /\ turn[x] = "over" /\ SameMain(x)

\* It is taken for a task.
StartMove(x) ==
  /\ run[x].task = NoTask /\ run'[x].task \in Tasks
  /\ task[run'[x].task].status = "active" /\ task' = task
  /\ Keeps(x) /\ SameBack(x)
  /\ job'[Main(x)].stage = "starting" /\ job'[Main(x)].by = "tick"

\* The object is reset.
ResetMove(x) ==
  /\ run'[x] = run[x] /\ (turn'[x] = turn[x] \/ TurnEnds(x))
  /\ tick' = "idle" /\ activeRuns' = {}
  /\ \A q \in Runs : job'[Main(q)] = NoJob /\ job'[Back(q)] = NoJob

RunMove(x) ==
  \/ Still(x)
  \/ StartMove(x)
  \/ /\ run'[x].task = run[x].task /\ run[x].task \in Tasks
     /\ \/ MainMove(x) /\ SameBack(x)
        \/ BackMove(x) /\ SameMain(x)
        \/ VisitMove(x)
  \/ ResetMove(x)

AskMove(t) ==
  \/ job'[Ask(t)] = job[Ask(t)] \/ job'[Ask(t)] = NoJob
  \/ /\ job'[Ask(t)].stage \in {"asking", "failed"} /\ job'[Ask(t)].by = "tick"
     /\ task[t].status = "active" /\ task' = task

\* The workers of the tick: as many as there were, one less, one more, or none.
FiringMove ==
  /\ \/ /\ firingTasks' = firingTasks
        /\ \A j \in Jobs : TickJob(j)' => TickJob(j)
     \/ \E i \in Jobs : /\ TickJob(i) /\ job'[i] = NoJob
                        /\ firingTasks' = firingTasks \ {TaskOf(i)}
                        /\ \A j \in Jobs \ {i} : TickJob(j)' => TickJob(j)
     \/ \E i \in Jobs : /\ TaskOf(i)' \notin firingTasks /\ tick = "firing"
                        /\ firingTasks' = firingTasks \cup {TaskOf(i)'}
                        /\ \A j \in Jobs \ {i} : TickJob(j)' => TickJob(j)
     \/ firingTasks' = {} /\ \A j \in Jobs : ~TickJob(j)'
  /\ tick' = tick \/ tick' = "firing" \/ firingTasks' = {}
  /\ \A j \in Jobs : job'[j].by = "reconcile" => tick' = "reconciling"

\* The runs, their jobs and the list of the tick.
Moved == /\ FiringMove
         /\ \A x \in Runs : RunMove(x)
         /\ \A t \in Tasks : AskMove(t)
         /\ \A x \in activeRuns' : x \in activeRuns \/ run'[x].task # NoTask
         /\ \/ listed' \subseteq listed
            \/ /\ run' = run
               /\ \A v \in listed' : run[v.id].state \in OpenStates /\ v.state = run[v.id].state

-----------------------------------------------------------------------------
(* What a step does to the copies *)

\* Whether an approval moved the schedule: a turn was told, a completion asks.
ByApproval(j) == IF j[1] = "run" THEN job[j].advanced ELSE task[TaskOf(j)].gated

\* Job j has just read the task, an active one.
Fresh(j) ==
  LET t == TaskOf(j)
  IN /\ t \in Tasks /\ task[t].status = "active"
     /\ \/ job'[j].stage = "asking" /\ job'[j].rec = Copy(t)
        \/ job'[j].stage = "failed" /\ job'[j].rec = AfterFailure(t)
        \/ /\ job'[j].stage = "storing" /\ job[j].stage \in {"turn", "opening"}
           /\ job'[j].rec = [Copy(t) EXCEPT !.next = Advanced(t, ByApproval(j))]

\* What call op of a tool is about to save, of a task that has not been saved
\* since it was read.
Request(op, rec, t) ==
  /\ rec.once = task[t].once /\ (rec.approved <=> op = "approve")
  /\ op # "edit" => rec.gated = task[t].gated
  /\ \/ op = "pause" /\ task[t].status = "active" /\ rec.status = "paused" /\ rec.next = 0
     \/ /\ op = "cancel" /\ task[t].status \in {"active", "paused", "failed"}
        /\ rec.status = "cancelled" /\ rec.next = 0
     \/ /\ op = "resume" /\ task[t].status \in {"paused", "failed"}
        /\ rec.status = "active" /\ rec.next # 0
     \/ /\ op = "edit" /\ task[t].status \in {"active", "paused", "failed"}
        /\ rec.status = task[t].status /\ rec.next = task[t].next
        /\ rec.pending = task[t].pending \/ (~rec.gated /\ task[t].gated)
     \/ /\ op = "reschedule" /\ task[t].status \in {"active", "paused", "failed"}
        /\ rec.status = task[t].status /\ rec.pending = task[t].pending
        /\ rec.status = "active" <=> rec.next # 0
     \/ /\ op = "approve" /\ task[t].status = "active"
        /\ rec.status = "active" /\ rec.next = task[t].next
     \/ /\ op = "reject" /\ task[t].status = "active"
        /\ \/ rec.status = "cancelled" /\ rec.next = 0
           \/ rec.status = "active" /\ rec.next = task[t].next /\ ~task[t].once

\* Call c has just read the task.
FreshCall(c) ==
  /\ call[c].task = NoTask /\ call'[c].task \in Tasks
  /\ Request(call'[c].op, call'[c].rec, call'[c].task)
  /\ LET t == call'[c].task
         next == call'[c].rec.next
     IN \/ next \in {0, task[t].next}
        \/ next = call'[c].at /\ next \in {Computed(t), occurrence[t] + 1}

\* No task is written.
Reading ==
  /\ UNCHANGED <<task, lost, edited, grants>>
  /\ \A j \in Jobs :
       \/ job'[j] = job[j] /\ (j \in stale' <=> j \in stale)
       \/ j \notin stale' /\ job'[j].stage \notin Held
       \/ j \notin stale' /\ Fresh(j)
  /\ \A c \in Callers :
       \/ call'[c] = call[c] /\ (c \in stale' <=> c \in stale)
       \/ c \notin stale' /\ call'[c] = NoCall
       \/ c \notin stale' /\ FreshCall(c)

\* The schedule of t stands, or moves on to an occurrence that has not come.
Timely(t) ==
  \/ /\ occurrence'[t] = occurrence[t]
     /\ t \in passed => t \in passed'
     /\ t \in passed' => occurrence[t] \in 1..MaxOccurrences
  \/ occurrence'[t] > occurrence[t] /\ t \notin passed'

\* No time passes.
LEMMA NoTimeTimely ==
  ASSUME TypeOK, TasksInv, NEW t \in Tasks,
         occurrence'[t] = occurrence[t], t \in passed' <=> t \in passed
  PROVE  Timely(t)
BY DEF TasksInv, Timely

\* Advance is timely.
LEMMA AdvanceTimely ==
  ASSUME TypeOK, TasksInv, NEW t \in Tasks, NEW n \in 0..Horizon, Advance(t, n), NEW u \in Tasks
  PROVE  Timely(u)
<1>1. \A x \in Tasks : occurrence[x] \in Nat /\ occurrence'[x] \in Nat
  BY AdvanceType, Blank DEF TypeOK
<1>2. CASE u # t
  BY <1>2, AdvanceType, NoTimeTimely
<1>3. CASE u = t
  <2>1. CASE occurrence'[t] = occurrence[t]
    BY <1>3, <2>1, AdvanceType, NoTimeTimely
  <2>2. CASE occurrence'[t] # occurrence[t]
    BY <1>1, <1>3, <2>2, AdvanceType DEF Timely
  <2> QED
    BY <2>1, <2>2
<1> QED
  BY <1>2, <1>3

\* A job under way is about a task, and stays about it.
LEMMA TaskOfStays ==
  ASSUME TypeOK, JobsInv, NEW j \in Jobs
  PROVE  /\ job[j].stage # "none" => TaskOf(j) \in Tasks
         /\ Moved /\ TaskOf(j) \in Tasks => TaskOf(j)' = TaskOf(j)
<1>1. CASE j[1] = "ask"
  <2>1. j[2] \in Tasks /\ j = Ask(j[2]) /\ TaskOf(j) = j[2] /\ TaskOf(j)' = j[2]
    BY <1>1, JobNames DEF TaskOf
  <2> QED
    BY <2>1
<1>2. CASE j[1] # "ask"
  <2>1. j[2] \in Runs /\ (j = Main(j[2]) \/ j = Back(j[2]))
        /\ TaskOf(j) = run[j[2]].task /\ TaskOf(j)' = run'[j[2]].task
    BY <1>2, JobNames DEF TaskOf
  <2>2. job[j].stage # "none" => TaskOf(j) \in Tasks
    BY <2>1 DEF JobsInv, RunsInv, TypeOK, Run
  <2>3. Moved /\ TaskOf(j) \in Tasks => TaskOf(j)' = TaskOf(j)
    BY <2>1, TasksAssumption DEF Moved, RunMove, Still, StartMove, ResetMove
  <2> QED
    BY <2>1, <2>2, <2>3
<1> QED
  BY <1>1, <1>2

\* The invariants of the runs and of their jobs follow run by run.
LEMMA MovedJobs ==
  ASSUME TypeOK, JobsInv, TypeOK', Moved
  PROVE  JobsInv'
<1>1. ASSUME NEW x \in Runs
      PROVE  /\ run[x].task \in Tasks \cup {NoTask} /\ run'[x].task \in Tasks \cup {NoTask}
             /\ turn[x] \in Turns /\ turn'[x] \in Turns
             /\ run[x].state \in {"none"} \cup OpenStates \cup ClosedStates
             /\ run'[x].state \in {"none"} \cup OpenStates \cup ClosedStates
             /\ RunMove(x) /\ NoTask \notin Tasks
  BY TasksAssumption DEF TypeOK, Run, Moved
<1>2. ASSUME NEW x \in Runs
      PROVE  /\ turn'[x] = "none" <=> run'[x].state = "none"
             /\ turn'[x] = "live" => run'[x].state = "running"
             /\ run[x].state # "none" => run'[x].state # "none"
             /\ run[x].state # "none" /\ run'[x].state = "running" => run[x].state = "running"
  <2>1. /\ turn[x] = "none" <=> run[x].state = "none"
        /\ turn[x] = "live" => run[x].state = "running"
        /\ MainInv /\ BackInv
    BY DEF JobsInv, RunsInv
  <2>2. CASE Still(x) \/ StartMove(x) \/ ResetMove(x)
    BY <1>1, <2>1, <2>2 DEF Still, StartMove, ResetMove, Keeps, TurnEnds
  <2>3. CASE MainMove(x)
    BY <1>1, <2>1, <2>3, Blank
       DEF MainMove, MainInv, At, Keeps, Closes, TurnEnds, OpenStates, ClosedStates, Turns
  <2>4. CASE BackMove(x)
    BY <1>1, <2>1, <2>4, Blank
       DEF BackMove, BackInv, At, Keeps, Closes, TurnEnds, OpenStates, ClosedStates, Turns
  <2>5. CASE VisitMove(x)
    BY <1>1, <2>1, <2>5 DEF VisitMove, Keeps, Closes, ClosedStates
  <2> QED
    BY <1>1, <2>2, <2>3, <2>4, <2>5 DEF RunMove
<1>3. RunsInv'
  <2> SUFFICES ASSUME NEW x \in Runs, run'[x].task = NoTask
               PROVE  /\ run'[x].state = "none" /\ x \notin activeRuns'
                      /\ job'[Main(x)].stage = "none" /\ job'[Back(x)].stage = "none"
    BY <1>2 DEF RunsInv
  <2>1. run[x].task = NoTask /\ (Still(x) \/ ResetMove(x))
    BY <1>1 DEF RunMove, StartMove, Still, ResetMove
  <2>2. run[x].state = "none" /\ x \notin activeRuns /\ job[Main(x)].stage = "none" /\ job[Back(x)].stage = "none"
    BY <2>1 DEF JobsInv, RunsInv
  <2> QED
    BY <2>1, <2>2, Blank DEF Moved, Still, ResetMove, Keeps, SameMain, SameBack
<1>4. MainInv'
  <2> SUFFICES ASSUME NEW x \in Runs
               PROVE  LET stage == job'[Main(x)].stage
                      IN /\ stage \in {"none", "starting", "turn", "storing", "sending", "failed"}
                         /\ stage = "starting" => turn'[x] = "none"
                         /\ stage = "turn" => turn'[x] # "none"
                         /\ stage \in {"storing", "sending", "failed"} => turn'[x] = "over"
                         /\ stage = "sending" => run'[x].state # "running"
                         /\ job'[Main(x)].by # "recovery"
                         /\ job'[Main(x)].by = "reconcile" => stage \in {"sending", "failed"}
    BY DEF MainInv
  <2>1. MainInv /\ (turn[x] = "none" <=> run[x].state = "none") /\ (turn[x] = "live" => run[x].state = "running")
        /\ (run[x].task = NoTask => run[x].state = "none")
    BY DEF JobsInv, RunsInv
  <2>2. CASE Still(x) \/ StartMove(x) \/ ResetMove(x)
    BY <1>1, <2>1, <2>2, Blank DEF MainInv, Still, StartMove, ResetMove, Keeps, TurnEnds, SameMain
  <2>3. CASE MainMove(x)
    BY <1>1, <2>1, <2>3, Blank
       DEF MainMove, MainInv, At, Keeps, Closes, TurnEnds, OpenStates, ClosedStates, Turns
  <2>4. CASE BackMove(x) /\ SameMain(x)
    BY <1>1, <2>1, <2>4, Blank
       DEF BackMove, SameMain, MainInv, BackInv, At, Keeps, Closes, TurnEnds, OpenStates, ClosedStates, Turns
  <2>5. CASE VisitMove(x)
    BY <1>1, <2>1, <2>5 DEF VisitMove, SameMain, MainInv, Keeps, Closes, ClosedStates, Turns
  <2> QED
    BY <1>1, <2>2, <2>3, <2>4, <2>5 DEF RunMove
<1>5. BackInv'
  <2> SUFFICES ASSUME NEW x \in Runs
               PROVE  LET stage == job'[Back(x)].stage
                      IN /\ stage \in {"none", "opening", "storing", "refreshing", "sending", "failed"}
                         /\ stage # "none" => turn'[x] = "over" /\ job'[Back(x)].by = "recovery"
                         /\ stage \in {"refreshing", "sending"} => run'[x].state # "running"
                         /\ job'[Back(x)].by # "reconcile"
    BY DEF BackInv
  <2>1. BackInv /\ (turn[x] = "none" <=> run[x].state = "none") /\ (turn[x] = "live" => run[x].state = "running")
    BY DEF JobsInv, RunsInv
  <2>2. CASE Still(x) \/ StartMove(x) \/ ResetMove(x)
    BY <1>1, <2>1, <2>2, Blank DEF BackInv, Still, StartMove, ResetMove, Keeps, TurnEnds, SameBack
  <2>3. CASE MainMove(x) /\ SameBack(x)
    <3>1. MainInv
      BY DEF JobsInv
    <3> QED
      BY <1>1, <2>1, <2>3, <3>1, Blank
         DEF MainMove, SameBack, MainInv, BackInv, At, Keeps, Closes, TurnEnds, OpenStates, ClosedStates, Turns
  <2>4. CASE BackMove(x)
    BY <1>1, <2>1, <2>4, Blank
       DEF BackMove, BackInv, At, Keeps, Closes, TurnEnds, OpenStates, ClosedStates, Turns
  <2>5. CASE VisitMove(x)
    BY <1>1, <2>1, <2>5 DEF VisitMove, SameBack, BackInv, Keeps, Closes, ClosedStates, Turns
  <2> QED
    BY <1>1, <2>2, <2>3, <2>4, <2>5 DEF RunMove
<1>6. AskInv'
  <2> SUFFICES ASSUME NEW t \in Tasks
               PROVE  job'[Ask(t)].stage \in {"none", "asking", "failed"} /\ job'[Ask(t)].by = "tick"
    BY DEF AskInv
  <2>1. job[Ask(t)].stage \in {"none", "asking", "failed"} /\ job[Ask(t)].by = "tick"
    BY DEF JobsInv, AskInv
  <2> QED
    BY <2>1, Blank DEF Moved, AskMove
<1>7. ListedInv'
  <2> SUFFICES ASSUME NEW v \in listed'
               PROVE  run'[v.id].state # "none" /\ (v.state = "delivering" => run'[v.id].state # "running")
    BY DEF ListedInv
  <2>1. v.id \in Runs
    BY DEF TypeOK
  <2>2. run[v.id].state # "none" /\ (v.state = "delivering" => run[v.id].state # "running")
    BY DEF Moved, JobsInv, ListedInv, OpenStates
  <2> QED
    BY <1>2, <2>1, <2>2
<1>8. FiringInv'
  <2>1. ASSUME NEW j \in Jobs, TickJob(j)
        PROVE  TaskOf(j)' = TaskOf(j) /\ TaskOf(j) \in firingTasks
    BY <2>1, TaskOfStays DEF TickJob, JobsInv, FiringInv
  <2>2. ASSUME NEW j \in Jobs, TickJob(j)'
        PROVE  TaskOf(j)' \in firingTasks'
    <3>1. FiringInv
      BY DEF JobsInv
    <3> QED
      BY <2>1, <2>2, <3>1, Blank DEF Moved, FiringMove, FiringInv, TickJob
  <2>3. ASSUME NEW i \in Jobs, NEW j \in Jobs, TickJob(i)', TickJob(j)', TaskOf(i)' = TaskOf(j)'
        PROVE  i = j
    <3>1. FiringInv
      BY DEF JobsInv
    <3> QED
      BY <2>1, <2>2, <2>3, <3>1, Blank DEF Moved, FiringMove, FiringInv, TickJob
  <2>4. firingTasks' # {} => tick' = "firing"
    BY DEF Moved, FiringMove, JobsInv, FiringInv
  <2> QED
    BY <2>2, <2>3, <2>4 DEF Moved, FiringMove, FiringInv
<1> QED
  BY <1>3, <1>4, <1>5, <1>6, <1>7, <1>8 DEF JobsInv

\* The task of a job under way, or of a call, exists.
LEMMA TaskExists ==
  ASSUME TypeOK, JobsInv, TasksInv
  PROVE  /\ \A j \in Jobs : job[j].stage # "none" =>
              TaskOf(j) \in Tasks /\ task[TaskOf(j)].status # "absent"
         /\ \A c \in Callers : call[c].task # NoTask =>
              call[c].task \in Tasks /\ task[call[c].task].status # "absent"
<1>1. ASSUME NEW j \in Jobs, job[j].stage # "none"
      PROVE  TaskOf(j) \in Tasks /\ task[TaskOf(j)].status # "absent"
  <2>1. TaskOf(j) \in Tasks
    BY <1>1, TaskOfStays
  <2> QED
    BY <1>1, <2>1, JobNames DEF TaskOf, TasksInv
<1>2. ASSUME NEW c \in Callers, call[c].task # NoTask
      PROVE  call[c].task \in Tasks /\ task[call[c].task].status # "absent"
  BY <1>2 DEF TypeOK, Call, TasksInv
<1> QED
  BY <1>1, <1>2

\* What a job has just read.
LEMMA FreshRec ==
  ASSUME TypeOK, TasksInv, NEW j \in Jobs, Fresh(j)
  PROVE  LET t == TaskOf(j)
             rec == job'[j].rec
         IN /\ t \in Tasks /\ task[t].status = "active" /\ job'[j].stage \in Held
            /\ ~rec.approved /\ rec.once = task[t].once /\ rec.gated = task[t].gated
            /\ job'[j].stage = "asking" =>
                 rec.status = "active" /\ rec.next = task[t].next /\ rec.pending = task[t].pending
            /\ job'[j].stage = "storing" =>
                 /\ rec.status = "active" /\ rec.pending = task[t].pending
                 /\ rec.next = Advanced(t, ByApproval(j))
            /\ job'[j].stage = "failed" =>
                 \/ rec.status = "failed" /\ rec.next = 0
                 \/ /\ rec.status = "active" /\ ~task[t].once
                    /\ rec.next = Computed(t) /\ rec.next # 0
<1> DEFINE t == TaskOf(j)
<1>1. t \in Tasks /\ task[t].status = "active" /\ job'[j].stage \in Held
  BY DEF Fresh, Held
<1>2. CASE job'[j].stage = "asking"
  BY <1>1, <1>2, CopyType DEF Fresh
<1>3. CASE job'[j].stage = "failed"
  BY <1>1, <1>3, AfterFailureType, ComputedType DEF Fresh
<1>4. CASE job'[j].stage = "storing"
  <2>1. job'[j].rec = [Copy(t) EXCEPT !.next = Advanced(t, ByApproval(j))]
    BY <1>4 DEF Fresh
  <2>2. Copy(t) \in Task
    BY <1>1, CopyType
  <2>3. LET rec == job'[j].rec
        IN /\ rec.next = Advanced(t, ByApproval(j)) /\ rec.status = Copy(t).status
           /\ rec.pending = Copy(t).pending /\ rec.approved = Copy(t).approved
           /\ rec.once = Copy(t).once /\ rec.gated = Copy(t).gated
    BY <2>1, <2>2 DEF Task
  <2> QED
    BY <1>1, <1>4, <2>3, CopyType
<1> QED
  BY <1>1, <1>2, <1>3, <1>4 DEF Held

\* A step that writes no task.
LEMMA ReadingType ==
  ASSUME TypeInv, TypeOK', Moved, \A t \in Tasks : Timely(t), Reading
  PROVE  TasksInv' /\ RecsInv' /\ StaleInv'
<1>1. TypeOK /\ JobsInv /\ TasksInv /\ RecsInv /\ StaleInv /\ task' = task
  BY DEF TypeInv, Reading
<1>2. TasksInv'
  <2> SUFFICES ASSUME NEW t \in Tasks
               PROVE  /\ task[t].status = "absent" =>
                             /\ job'[Ask(t)].stage = "none"
                             /\ \A r \in Runs : run'[r].task # t
                             /\ \A c \in Callers : call'[c].task # t
                      /\ task[t].status # "absent" => occurrence'[t] # 0
                      /\ t \in passed' => occurrence'[t] \in 1..MaxOccurrences
    BY <1>1 DEF TasksInv
  <2>1. occurrence[t] \in Nat /\ occurrence'[t] \in Nat
    BY <1>1, Blank DEF TypeOK
  <2>2. /\ task[t].status # "absent" => occurrence'[t] # 0
        /\ t \in passed' => occurrence'[t] \in 1..MaxOccurrences
    BY <1>1, <2>1 DEF Timely, TasksInv
  <2>3. ASSUME task[t].status = "absent"
        PROVE  /\ job'[Ask(t)].stage = "none"
               /\ \A r \in Runs : run'[r].task # t
               /\ \A c \in Callers : call'[c].task # t
    <3>1. job[Ask(t)].stage = "none" /\ (\A r \in Runs : run[r].task # t) /\ \A c \in Callers : call[c].task # t
      BY <1>1, <2>3 DEF TasksInv
    <3>2. job'[Ask(t)].stage = "none"
      BY <2>3, <3>1, Blank DEF Moved, AskMove
    <3>3. \A r \in Runs : run'[r].task # t
      BY <2>3, <3>1 DEF Moved, RunMove, Still, StartMove, ResetMove
    <3>4. \A c \in Callers : call'[c].task # t
      BY <2>3, <3>1, Blank, TasksAssumption DEF Reading, FreshCall, Request
    <3> QED
      BY <3>2, <3>3, <3>4
  <2> QED
    BY <2>2, <2>3
<1>3. RecsInv'
  <2>1. ASSUME NEW j \in Jobs, job'[j].stage \in Held
        PROVE  job'[j].rec.status # "absent" /\ ~job'[j].rec.approved
               /\ job'[j].rec.once = task'[TaskOf(j)'].once
    <3>1. CASE job'[j] = job[j]
      <4>1. job[j].rec.status # "absent" /\ ~job[j].rec.approved /\ job[j].rec.once = task[TaskOf(j)].once
        BY <1>1, <2>1, <3>1 DEF RecsInv
      <4>2. TaskOf(j)' = TaskOf(j)
        BY <1>1, <2>1, <3>1, TaskOfStays DEF Held
      <4> QED
        BY <1>1, <3>1, <4>1, <4>2
    <3>2. CASE Fresh(j)
      <4>1. TaskOf(j)' = TaskOf(j)
        BY <1>1, <3>2, TaskOfStays DEF Fresh
      <4> QED
        BY <1>1, <2>1, <3>2, <4>1, FreshRec DEF Held
    <3> QED
      BY <2>1, <3>1, <3>2 DEF Reading
  <2>2. ASSUME NEW c \in Callers, call'[c].task # NoTask
        PROVE  /\ call'[c].rec.status # "absent"
               /\ call'[c].rec.approved <=> call'[c].op = "approve"
               /\ call'[c].rec.once = task'[call'[c].task].once
    <3>1. CASE call'[c] = call[c]
      BY <1>1, <2>2, <3>1 DEF RecsInv
    <3>2. CASE FreshCall(c)
      BY <1>1, <3>2 DEF FreshCall, Request
    <3> QED
      BY <2>2, <3>1, <3>2, Blank DEF Reading
  <2> QED
    BY <2>1, <2>2 DEF RecsInv
<1>4. StaleInv'
  <2> SUFFICES ASSUME NEW w \in stale'
               PROVE  \/ w \in Jobs /\ job'[w].stage \in Held
                      \/ w \in Callers /\ call'[w].task # NoTask
    BY DEF StaleInv
  <2>1. w \in Jobs \/ w \in Callers
    BY DEF TypeOK
  <2>2. CASE w \in Jobs
    BY <1>1, <2>2, IdsAssumption DEF Reading, StaleInv
  <2>3. CASE w \in Callers
    BY <1>1, <2>3, IdsAssumption DEF Reading, StaleInv
  <2> QED
    BY <2>1, <2>2, <2>3
<1> QED
  BY <1>2, <1>3, <1>4

\* Writer w, a job or a call, saves row rec of task t and lets go of its copy.
Saving(w, t, rec) ==
  /\ t \in Tasks /\ w \in Jobs \cup Callers /\ rec \in Task /\ Save(w, t, rec)
  /\ task[t].status # "absent" /\ rec.status # "absent" /\ rec.once = task[t].once
  /\ \A x \in Jobs : IF x = w THEN job'[x].stage \notin Held ELSE job'[x] = job[x]
  /\ \A c \in Callers : call'[c] = IF c = w THEN NoCall ELSE call[c]

\* Job j saves its task: with the request out, as it holds it, or settled by the
\* delivery of a result.
JobSaves(j, rec) ==
  LET t == TaskOf(j)
  IN /\ j \in Jobs /\ Saving(j, t, rec) /\ UNCHANGED <<call, fresh, origin, grants, edited>>
     /\ \/ /\ job[j].stage = "asking" /\ job'[j] = NoJob
           /\ rec.status = job[j].rec.status /\ rec.gated = job[j].rec.gated
           /\ rec.pending /\ ~rec.approved
           /\ rec.next = IF task[t].once THEN 0 ELSE Computed(t)
        \/ /\ job[j].stage = "storing" \/ (job[j].stage = "failed" /\ job'[j] = NoJob)
           /\ rec = job[j].rec
        \/ /\ job[j].stage = "sending" /\ job'[j] = NoJob
           /\ rec.next = task[t].next /\ rec.pending = task[t].pending
           /\ rec.gated = task[t].gated /\ rec.approved = task[t].approved
           /\ rec.status = IF task[t].once /\ task[t].status = "active"
                            THEN "completed" ELSE task[t].status

\* A step that saves a task.
LEMMA SavingType ==
  ASSUME TypeInv, TypeOK', Moved, \A t \in Tasks : Timely(t), NEW w, NEW t, NEW rec, Saving(w, t, rec)
  PROVE  TasksInv' /\ RecsInv' /\ StaleInv'
<1>1. TypeOK /\ JobsInv /\ TasksInv /\ RecsInv /\ StaleInv
  BY DEF TypeInv
<1>2. /\ t \in Tasks
      /\ \A u \in Tasks : /\ task'[u].once = task[u].once
                          /\ u # t => task'[u] = task[u]
                          /\ task'[u].status = "absent" <=> task[u].status = "absent"
                          /\ task[u].status = "absent" => u # t
      /\ stale' = (stale \cup Holding(t)) \ {w}
  BY <1>1, SaveType DEF Saving
<1>3. ASSUME NEW u \in Tasks
      PROVE  /\ task'[u].status = "absent" =>
                   /\ job'[Ask(u)].stage = "none"
                   /\ \A r \in Runs : run'[r].task # u
                   /\ \A c \in Callers : call'[c].task # u
             /\ task'[u].status # "absent" => occurrence'[u] # 0
             /\ u \in passed' => occurrence'[u] \in 1..MaxOccurrences
  <2>1. occurrence[u] \in Nat /\ occurrence'[u] \in Nat
    BY <1>1, Blank DEF TypeOK
  <2>2. task'[u].status # "absent" => task[u].status # "absent"
    BY <1>2
  <2>3. task[u].status # "absent" => occurrence[u] # 0
    BY <1>1 DEF TasksInv
  <2>4. /\ task'[u].status # "absent" => occurrence'[u] # 0
        /\ u \in passed' => occurrence'[u] \in 1..MaxOccurrences
    BY <2>1, <2>2, <2>3 DEF Timely
  <2>5. ASSUME task'[u].status = "absent"
        PROVE  /\ job'[Ask(u)].stage = "none"
               /\ \A r \in Runs : run'[r].task # u
               /\ \A c \in Callers : call'[c].task # u
    <3>1. task[u].status = "absent" /\ job[Ask(u)].stage = "none"
          /\ (\A r \in Runs : run[r].task # u) /\ \A c \in Callers : call[c].task # u
      BY <1>1, <1>2, <2>5 DEF TasksInv
    <3>2. job'[Ask(u)].stage = "none"
      BY <3>1, Blank DEF Moved, AskMove
    <3>3. \A r \in Runs : run'[r].task # u
      BY <3>1 DEF Moved, RunMove, Still, StartMove, ResetMove
    <3>4. \A c \in Callers : call'[c].task # u
      BY <3>1, Blank, TasksAssumption DEF Saving
    <3> QED
      BY <3>2, <3>3, <3>4
  <2> QED
    BY <2>4, <2>5
<1>4. TasksInv'
  BY <1>3 DEF TasksInv
<1>5. RecsInv'
  <2>1. ASSUME NEW j \in Jobs, job'[j].stage \in Held
        PROVE  job'[j].rec.status # "absent" /\ ~job'[j].rec.approved
               /\ job'[j].rec.once = task'[TaskOf(j)'].once
    <3>1. job'[j] = job[j] /\ job[j].stage \in Held
      BY <2>1 DEF Saving
    <3>2. TaskOf(j)' = TaskOf(j) /\ TaskOf(j) \in Tasks
      BY <1>1, <3>1, TaskOfStays DEF Held
    <3> QED
      BY <1>1, <1>2, <3>1, <3>2 DEF RecsInv
  <2>2. ASSUME NEW c \in Callers, call'[c].task # NoTask
        PROVE  /\ call'[c].rec.status # "absent"
               /\ call'[c].rec.approved <=> call'[c].op = "approve"
               /\ call'[c].rec.once = task'[call'[c].task].once
    <3>1. call'[c] = call[c] /\ call[c].task \in Tasks
      BY <1>1, <2>2, Blank DEF Saving, TypeOK, Call
    <3> QED
      BY <1>1, <1>2, <2>2, <3>1 DEF RecsInv
  <2> QED
    BY <2>1, <2>2 DEF RecsInv
<1>6. StaleInv'
  <2> SUFFICES ASSUME NEW x \in stale'
               PROVE  \/ x \in Jobs /\ job'[x].stage \in Held
                      \/ x \in Callers /\ call'[x].task # NoTask
    BY DEF StaleInv
  <2>1. x # w /\ x \in stale \cup Holding(t)
    BY <1>2
  <2>2. \/ x \in Jobs /\ job[x].stage \in Held
        \/ x \in Callers /\ call[x].task # NoTask
    BY <1>1, <1>2, <2>1, TasksAssumption DEF StaleInv, Holding, Held
  <2> QED
    BY <2>1, <2>2 DEF Saving
<1> QED
  BY <1>4, <1>5, <1>6

\* A step that changes only whether a task is approved.
Marking == /\ UNCHANGED <<call, stale, lost, edited, grants>>
           /\ \A t \in Tasks : \/ task'[t] = task[t]
                               \/ \E b \in BOOLEAN : task'[t] = [task[t] EXCEPT !.approved = b]
           /\ \A j \in Jobs : job'[j] = job[j] \/ (job[j].stage \notin Held /\ job'[j].stage \notin Held)

\* A task is created.
Creating(t) == /\ t \in Tasks /\ task[t].status = "absent" /\ task'[t].status = "active"
               /\ \A u \in Tasks \ {t} : task'[u] = task[u]
               /\ UNCHANGED <<job, run, call, stale, lost, edited, grants>>

\* The row of a run is opened.
LEMMA MarkingType ==
  ASSUME TypeInv, TypeOK', Moved, \A t \in Tasks : Timely(t), Marking
  PROVE  TasksInv' /\ RecsInv' /\ StaleInv'
<1>1. TypeOK /\ JobsInv /\ TasksInv /\ RecsInv /\ StaleInv
  BY DEF TypeInv
<1>2. ASSUME NEW u \in Tasks
      PROVE  task'[u].once = task[u].once /\ task'[u].status = task[u].status
  BY <1>1, <1>2, SMTT(30) DEF Marking, TypeOK, Task
<1>3. ASSUME NEW u \in Tasks
      PROVE  /\ task[u].status = "absent" =>
                   /\ job'[Ask(u)].stage = "none"
                   /\ \A r \in Runs : run'[r].task # u
                   /\ \A c \in Callers : call'[c].task # u
             /\ task[u].status # "absent" => occurrence'[u] # 0
             /\ u \in passed' => occurrence'[u] \in 1..MaxOccurrences
  <2>1. occurrence[u] \in Nat /\ occurrence'[u] \in Nat /\ (task[u].status # "absent" => occurrence[u] # 0)
    BY <1>1, Blank DEF TypeOK, TasksInv
  <2>2. /\ task[u].status # "absent" => occurrence'[u] # 0
        /\ u \in passed' => occurrence'[u] \in 1..MaxOccurrences
    BY <2>1 DEF Timely
  <2>3. ASSUME task[u].status = "absent"
        PROVE  /\ job'[Ask(u)].stage = "none"
               /\ \A r \in Runs : run'[r].task # u
               /\ \A c \in Callers : call'[c].task # u
    <3>1. job[Ask(u)].stage = "none" /\ (\A r \in Runs : run[r].task # u) /\ \A c \in Callers : call[c].task # u
      BY <1>1, <2>3 DEF TasksInv
    <3>2. job'[Ask(u)].stage = "none"
      BY <2>3, <3>1, Blank DEF Moved, AskMove
    <3>3. \A r \in Runs : run'[r].task # u
      BY <2>3, <3>1 DEF Moved, RunMove, Still, StartMove, ResetMove
    <3> QED
      BY <3>1, <3>2, <3>3 DEF Marking
  <2> QED
    BY <2>2, <2>3
<1>4. TasksInv'
  BY <1>2, <1>3 DEF TasksInv
<1>5. RecsInv'
  <2>1. ASSUME NEW j \in Jobs, job'[j].stage \in Held
        PROVE  job'[j].rec.status # "absent" /\ ~job'[j].rec.approved
               /\ job'[j].rec.once = task'[TaskOf(j)'].once
    <3>1. job'[j] = job[j] /\ job[j].stage \in Held
      BY <2>1 DEF Marking
    <3>2. TaskOf(j)' = TaskOf(j) /\ TaskOf(j) \in Tasks
      BY <1>1, <3>1, TaskOfStays DEF Held
    <3> QED
      BY <1>1, <1>2, <3>1, <3>2 DEF RecsInv
  <2>2. \A c \in Callers : call'[c] = call[c] /\ (call[c].task # NoTask => call[c].task \in Tasks)
    BY <1>1 DEF Marking, TypeOK, Call
  <2> QED
    BY <1>1, <1>2, <2>1, <2>2 DEF RecsInv
<1>6. StaleInv'
  BY <1>1 DEF Marking, StaleInv
<1> QED
  BY <1>4, <1>5, <1>6

\* A task appears, with its first occurrence.
LEMMA CreatingType ==
  ASSUME TypeInv, TypeOK', Moved, NEW t, Creating(t), passed' = passed,
         occurrence' = [occurrence EXCEPT ![t] = 1]
  PROVE  TasksInv' /\ RecsInv' /\ StaleInv'
<1>1. TypeOK /\ JobsInv /\ TasksInv /\ RecsInv /\ StaleInv /\ t \in Tasks
  BY DEF TypeInv, Creating
<1>2. t \notin passed \/ MaxOccurrences >= 1
  BY <1>1, Blank DEF TasksInv, TypeOK
<1>3. ASSUME NEW u \in Tasks
      PROVE  /\ task'[u].status = "absent" =>
                   /\ job[Ask(u)].stage = "none"
                   /\ \A r \in Runs : run[r].task # u
                   /\ \A c \in Callers : call[c].task # u
             /\ task'[u].status # "absent" => occurrence'[u] # 0
             /\ u \in passed => occurrence'[u] \in 1..MaxOccurrences
  BY <1>1, <1>2, Blank DEF Creating, TasksInv, TypeOK
<1>4. TasksInv'
  BY <1>3 DEF TasksInv, Creating
<1>5. RecsInv'
  <2>1. \A j \in Jobs : TaskOf(j)' = TaskOf(j)
    BY DEF Creating, TaskOf
  <2>2. \A j \in Jobs : job[j].stage \in Held => TaskOf(j) \in Tasks \ {t}
    BY <1>1, TaskExists DEF Held, Creating
  <2>3. \A c \in Callers : call[c].task # NoTask => call[c].task \in Tasks \ {t}
    BY <1>1, TaskExists DEF Creating
  <2> QED
    BY <1>1, <2>1, <2>2, <2>3 DEF RecsInv, Creating
<1>6. StaleInv'
  BY <1>1 DEF Creating, StaleInv
<1> QED
  BY <1>4, <1>5, <1>6

-----------------------------------------------------------------------------
(* The steps, one by one *)

\* What is shown of every step.
Proper == TypeOK' /\ Moved /\ \A t \in Tasks : Timely(t)

\* A step of one run's jobs.
LEMMA OneRun ==
  ASSUME TypeOK, NEW r \in Runs, NEW j \in {Main(r), Back(r)},
         \A x \in Jobs \ {j} : job'[x] = job[x],
         \A x \in Runs \ {r} : run'[x] = run[x] /\ turn'[x] = turn[x],
         RunMove(r), FiringMove, listed' \subseteq listed,
         \A x \in activeRuns' : x \in activeRuns \/ run'[x].task # NoTask
  PROVE  Moved
<1>1. ASSUME NEW x \in Runs \ {r}
      PROVE  Still(x)
  BY JobNames, Distinct DEF Still, Keeps, SameMain, SameBack
<1>2. \A t \in Tasks : AskMove(t)
  BY JobNames, Distinct DEF AskMove
<1> QED
  BY <1>1, <1>2 DEF Moved, RunMove

\* A step of one task's request.
LEMMA OneAsk ==
  ASSUME TypeOK, NEW t \in Tasks, \A x \in Jobs \ {Ask(t)} : job'[x] = job[x],
         AskMove(t), FiringMove, UNCHANGED <<run, turn, activeRuns>>, listed' \subseteq listed
  PROVE  Moved
<1>1. ASSUME NEW x \in Runs
      PROVE  Still(x)
  BY JobNames, Distinct DEF Still, Keeps, SameMain, SameBack
<1>2. \A u \in Tasks : AskMove(u)
  BY JobNames, Distinct DEF AskMove
<1> QED
  BY <1>1, <1>2 DEF Moved, RunMove

\* A step of no job.
LEMMA NoJobMoves ==
  ASSUME JobsInv, UNCHANGED <<run, turn, job, activeRuns, firingTasks>>,
         tick' = tick \/ tick' = "firing" \/ firingTasks = {},
         \A j \in Jobs : job[j].by = "reconcile" => tick' = "reconciling",
         \/ listed' \subseteq listed
         \/ \A v \in listed' : run[v.id].state \in OpenStates /\ v.state = run[v.id].state
  PROVE  Moved
<1>1. ASSUME NEW x \in Runs
      PROVE  Still(x)
  BY DEF Still, Keeps, SameMain, SameBack
<1>2. \A u \in Tasks : AskMove(u)
  BY DEF AskMove
<1>3. FiringMove
  BY DEF FiringMove, TickJob
<1> QED
  BY <1>1, <1>2, <1>3 DEF Moved, RunMove

\* The workers when a job goes on.
LEMMA GoesFiring ==
  ASSUME JobsInv, NEW j \in Jobs, \A x \in Jobs \ {j} : job'[x] = job[x],
         UNCHANGED <<tick, firingTasks>>, TickJob(j)' => TickJob(j),
         job'[j].by = "reconcile" => tick = "reconciling"
  PROVE  FiringMove
BY DEF FiringMove, TickJob, JobsInv, FiringInv

\* The workers when a job is over.
LEMMA EndFiring ==
  ASSUME JobsInv, NEW j \in Jobs, Moves(j, NoJob), job[j].stage # "none", tick' = tick,
         firingTasks' = IF job[j].by = "tick" THEN firingTasks \ {TaskOf(j)} ELSE firingTasks
  PROVE  FiringMove
<1>1. \A x \in Jobs : job'[x].by = "reconcile" => tick' = "reconciling"
  BY Blank DEF Moves, JobsInv, FiringInv
<1>2. CASE job[j].by = "tick"
  BY <1>1, <1>2 DEF FiringMove, Moves, TickJob
<1>3. CASE job[j].by # "tick"
  BY <1>1, <1>3, Blank DEF FiringMove, Moves, TickJob
<1> QED
  BY <1>2, <1>3

\* Job j, which held nothing, moves; it may have read its task.
LEMMA OneReads ==
  ASSUME StaleInv, NEW j \in Jobs, \A x \in Jobs \ {j} : job'[x] = job[x],
         UNCHANGED <<task, call, stale, lost, edited, grants>>,
         job[j].stage \notin Held, job'[j].stage \notin Held \/ Fresh(j)
  PROVE  Reading
<1>1. j \notin stale'
  BY IdsAssumption DEF StaleInv
<1> QED
  BY <1>1 DEF Reading

\* No job and no call moves.
LEMMA NobodyReads ==
  ASSUME UNCHANGED <<task, job, call, stale, lost, edited, grants>>
  PROVE  Reading
BY DEF Reading

\* TimePasses.
LEMMA TimePassesType == TypeInv /\ TimePasses => Proper /\ Reading
<1> SUFFICES ASSUME TypeInv, TimePasses PROVE Proper /\ Reading
  OBVIOUS
<1>1. TypeOK /\ TasksInv /\ JobsInv /\ FiringInv
  BY DEF TypeInv, JobsInv
<1>2. UNCHANGED <<tables, turn, occurrence, fresh, job, memory, ticking, call, armed, calls, crashes, history>>
  BY DEF TimePasses
<1>3. passed' = {t \in Tasks : occurrence[t] \in 1..MaxOccurrences} \cup {r \in Runs : run[r].retry}
  BY DEF TimePasses
<1>4. TypeOK'
  BY <1>1, <1>2, <1>3 DEF TypeOK, tables, memory, ticking, history
<1>5. Moved /\ Reading
  BY <1>1, <1>2, NoJobMoves, NobodyReads DEF FiringInv, tables, memory, ticking, history
<1>6. \A t \in Tasks : Timely(t)
  BY <1>1, <1>2, <1>3, IdsAssumption DEF Timely, TasksInv
<1> QED
  BY <1>4, <1>5, <1>6 DEF Proper

\* TickStart.
LEMMA TickStartType == TypeInv /\ TickStart => Proper /\ Reading
<1> SUFFICES ASSUME TypeInv, TickStart PROVE Proper /\ Reading
  OBVIOUS
<1>1. TypeOK /\ TasksInv /\ JobsInv /\ FiringInv
  BY DEF TypeInv, JobsInv
<1>2. UNCHANGED <<tables, turn, occurrence, passed, job, activeRuns, firingTasks, waiting, call, calls, crashes, history>>
  BY DEF TickStart
<1>3. ASSUME NEW v \in listed'
      PROVE  v.id \in Runs /\ v.state \in OpenStates /\ v.state = run[v.id].state /\ v.rounds \in Nat
  BY <1>1, <1>3 DEF TickStart, TypeOK, Run
<1>4. TypeOK'
  BY <1>1, <1>2, <1>3 DEF TypeOK, TickStart, tables, history
<1>5. Moved /\ Reading
  <2>1. tick = "idle" /\ firingTasks = {} /\ \A j \in Jobs : job[j].by # "reconcile"
    BY <1>1 DEF TickStart, FiringInv
  <2> QED
    BY <1>1, <1>2, <1>3, <2>1, NoJobMoves, NobodyReads DEF tables, memory, history
<1>6. \A t \in Tasks : Timely(t)
  BY <1>1, <1>2, NoTimeTimely
<1> QED
  BY <1>4, <1>5, <1>6 DEF Proper

\* What the steps of the tick that touch no row and no job leave alone.
LEMMA TickType ==
  ASSUME TypeInv, UNCHANGED <<task, run, turn, time, job, activeRuns, firingTasks, call, calls, crashes, history>>,
         listed' \subseteq listed, recoveringTasks' \cup waiting' \subseteq Tasks,
         tick' \in {"idle", "reconciling", "firing"}, armed' \in BOOLEAN,
         tick' = tick \/ tick' = "firing" \/ firingTasks = {},
         \A j \in Jobs : job[j].by = "reconcile" => tick' = "reconciling"
  PROVE  Proper /\ Reading
<1>1. TypeOK /\ TasksInv /\ JobsInv
  BY DEF TypeInv
<1>2. TypeOK'
  BY <1>1 DEF TypeOK, time, history
<1>3. Moved /\ Reading
  BY <1>1, NoJobMoves, NobodyReads DEF history
<1>4. \A t \in Tasks : Timely(t)
  BY <1>1, NoTimeTimely DEF time
<1> QED
  BY <1>2, <1>3, <1>4 DEF Proper

\* VisitOwned, VisitLive, DueScan, TickEnd and TakeNothing.
LEMMA TickStepsType ==
  ASSUME TypeInv,
         \/ \E v \in listed : VisitOwned(v) \/ VisitLive(v)
         \/ DueScan \/ TickEnd \/ \E t \in Tasks : TakeNothing(t)
  PROVE  Proper /\ Reading
<1>1. TypeOK /\ JobsInv /\ FiringInv
  BY DEF TypeInv, JobsInv
<1>2. ASSUME NEW v \in listed, VisitOwned(v)
      PROVE  Proper /\ Reading
  BY <1>1, <1>2, TickType DEF VisitOwned, Visits, TypeOK, FiringInv
<1>3. ASSUME NEW v \in listed, VisitLive(v)
      PROVE  Proper /\ Reading
  <2>1. run[v.id].task \in Tasks
    BY <1>1, <1>3 DEF JobsInv, ListedInv, RunsInv, TypeOK, Run
  <2> QED
    BY <1>1, <1>3, <2>1, TickType DEF VisitLive, Visits, TypeOK, FiringInv
<1>4. ASSUME DueScan
      PROVE  Proper /\ Reading
  BY <1>1, <1>4, TickType DEF DueScan, memory, tables, TypeOK, FiringInv
<1>5. ASSUME TickEnd
      PROVE  Proper /\ Reading
  <2>1. armed' \in BOOLEAN
    BY <1>5, Zenon DEF TickEnd
  <2> QED
    BY <1>1, <1>5, <2>1, TickType DEF TickEnd, memory, tables, TypeOK, FiringInv
<1>6. ASSUME NEW t \in Tasks, TakeNothing(t)
      PROVE  Proper /\ Reading
  BY <1>1, <1>6, TickType DEF TakeNothing, TakeFrame, Taken, NoTime, time, history, TypeOK, FiringInv
<1> QED
  BY <1>2, <1>3, <1>4, <1>5, <1>6

\* No run has a job when the tick visits its row.
LEMMA MainIdle ==
  ASSUME TypeOK, JobsInv, NEW v \in listed, Visits(v), NEW r \in Runs
  PROVE  job[Main(r)].stage = "none"
<1>1. tick = "reconciling" /\ \A j \in Jobs : job[j].by # "reconcile"
  BY DEF Visits
<1>2. Main(r) \in Jobs /\ job[Main(r)].by \in {"tick", "reconcile", "recovery"}
  BY JobNames DEF TypeOK, Job
<1>3. ~TickJob(Main(r))
  BY <1>1, <1>2 DEF JobsInv, FiringInv
<1> QED
  BY <1>1, <1>2, <1>3 DEF TickJob, JobsInv, MainInv

\* VisitStored.
LEMMA VisitStoredType ==
  ASSUME TypeInv, NEW v \in listed, VisitStored(v)
  PROVE  Proper /\ Reading
<1> DEFINE r == v.id
           to == [NoJob EXCEPT !.stage = "sending", !.rounds = v.rounds, !.by = "reconcile"]
<1>1. TypeOK /\ JobsInv /\ TasksInv /\ StaleInv /\ r \in Runs
  BY DEF TypeInv, TypeOK
<1>2. UNCHANGED <<task, turn, time, activeRuns, firingTasks, tick, waiting, call, armed,
                  calls, crashes, history, recoveringTasks>> /\ listed' \subseteq listed
  BY DEF VisitStored, Visits
<1>3. run[r].state \notin {"none", "running"} /\ turn[r] = "over" /\ run[r].task \in Tasks
  BY <1>1 DEF VisitStored, Visits, JobsInv, ListedInv, RunsInv, TypeOK, Turns, Run
<1>4. job[Main(r)].stage = "none" /\ tick = "reconciling"
  BY <1>1, MainIdle DEF VisitStored, Visits
<1>5. CASE task[run[r].task].status = "cancelled"
  <2>1. Close(r, "failed") /\ UNCHANGED job
    BY <1>5 DEF VisitStored
  <2>2. /\ run' \in [Runs -> Run] /\ run'[r].state = "failed" /\ run'[r].task = run[r].task
        /\ \A x \in Runs \ {r} : run'[x] = run[x]
    BY <1>1, <2>1, CloseType DEF ClosedStates
  <2>3. RunMove(r)
    BY <1>2, <1>3, <2>1, <2>2 DEF RunMove, VisitMove, Closes, SameMain, SameBack, ClosedStates
  <2>4. TypeOK'
    BY <1>1, <1>2, <2>1, <2>2 DEF TypeOK, time, history
  <2>5. Moved
    <3>1. FiringMove
      BY <1>1, <1>2, <2>1 DEF FiringMove, TickJob, JobsInv, FiringInv
    <3> QED
      BY <1>1, <1>2, <1>3, <2>1, <2>2, <2>3, <3>1, JobNames, OneRun
  <2>6. Reading
    BY <1>2, <2>1, NobodyReads DEF history
  <2> QED
    BY <1>1, <1>2, <2>4, <2>5, <2>6, NoTimeTimely DEF Proper, time
<1>6. CASE task[run[r].task].status # "cancelled"
  <2>1. job' = [job EXCEPT ![Main(r)] = to] /\ UNCHANGED run
    BY <1>6 DEF VisitStored
  <2>2. Main(r) \in Jobs
    BY <1>1, JobNames
  <2>3. job'[Main(r)].stage = "sending" /\ job'[Main(r)].by = "reconcile"
        /\ \A x \in Jobs \ {Main(r)} : job'[x] = job[x]
    BY <1>1, <2>1, <2>2 DEF TypeOK, NoJob
  <2>4. SameBack(r)
    BY <1>1, <2>2, <2>3, JobNames, Distinct DEF SameBack
  <2>5. RunMove(r)
    BY <1>2, <1>3, <2>1, <2>3, <2>4 DEF RunMove, VisitMove, Keeps
  <2>6. to \in Job
    <3>1. v.rounds \in Nat
      BY <1>1 DEF TypeOK
    <3>2. [NoJob EXCEPT !.stage = "sending", !.rounds = v.rounds] \in Job
      BY <3>1, Blank DEF Job, Stages
    <3> QED
      BY <3>1, Blank DEF Job, Stages
  <2>7. job' \in [Jobs -> Job]
    <3> HIDE DEF to
    <3> QED
      BY <1>1, <2>1, <2>2, <2>6 DEF TypeOK
  <2>8. TypeOK'
    BY <1>1, <1>2, <2>1, <2>7 DEF TypeOK, time, history
  <2>9. Moved
    <3>1. FiringMove
      BY <1>1, <1>2, <1>4, <2>2, <2>3, GoesFiring DEF TickJob
    <3> QED
      BY <1>1, <1>2, <2>1, <2>3, <2>5, <3>1, OneRun
  <2>10. Reading
    <3>1. job[Main(r)].stage \notin Held
      BY <1>4 DEF Held
    <3> QED
      BY <1>1, <1>2, <2>2, <2>3, <3>1, OneReads DEF Held, history
  <2> QED
    BY <1>1, <1>2, <2>8, <2>9, <2>10, NoTimeTimely DEF Proper, time
<1> QED
  BY <1>5, <1>6

\* VisitDead.
LEMMA VisitDeadType ==
  ASSUME TypeInv, NEW v \in listed, VisitDead(v)
  PROVE  Proper /\ Reading
<1> DEFINE r == v.id
           t == run[r].task
           to == [NoJob EXCEPT !.stage = "failed", !.rec = AfterFailure(t),
                               !.ends = "interrupted", !.by = "reconcile"]
<1>1. TypeOK /\ JobsInv /\ TasksInv /\ StaleInv /\ r \in Runs
  BY DEF TypeInv, TypeOK
<1>2. UNCHANGED <<task, turn, time, activeRuns, firingTasks, tick, waiting, call, armed,
                  calls, crashes, history, recoveringTasks>> /\ listed' \subseteq listed
  BY DEF VisitDead, Visits
<1>3. run[r].state # "none" /\ turn[r] = "over" /\ t \in Tasks
  BY <1>1 DEF VisitDead, Visits, JobsInv, ListedInv, RunsInv, TypeOK, Turns, Run
<1>4. job[Main(r)].stage = "none" /\ tick = "reconciling"
  BY <1>1, MainIdle DEF VisitDead, Visits
<1>5. CASE task[t].status # "active"
  <2>1. Close(r, "interrupted") /\ UNCHANGED job
    BY <1>5 DEF VisitDead
  <2>2. /\ run' \in [Runs -> Run] /\ run'[r].state = "interrupted" /\ run'[r].task = run[r].task
        /\ \A x \in Runs \ {r} : run'[x] = run[x]
    BY <1>1, <2>1, CloseType DEF ClosedStates
  <2>3. RunMove(r)
    BY <1>2, <1>3, <2>1, <2>2 DEF RunMove, VisitMove, Closes, SameMain, SameBack, ClosedStates
  <2>4. TypeOK'
    BY <1>1, <1>2, <2>1, <2>2 DEF TypeOK, time, history
  <2>5. Moved
    <3>1. FiringMove
      BY <1>1, <1>2, <2>1 DEF FiringMove, TickJob, JobsInv, FiringInv
    <3> QED
      BY <1>1, <1>2, <1>3, <2>1, <2>2, <2>3, <3>1, JobNames, OneRun
  <2>6. Reading
    BY <1>2, <2>1, NobodyReads DEF history
  <2> QED
    BY <1>1, <1>2, <2>4, <2>5, <2>6, NoTimeTimely DEF Proper, time
<1>6. CASE task[t].status = "active"
  <2>1. job' = [job EXCEPT ![Main(r)] = to] /\ UNCHANGED run
    BY <1>6 DEF VisitDead
  <2>2. Main(r) \in Jobs /\ TaskOf(Main(r)) = t
    BY <1>1, JobNames, TasksOfJobs
  <2>3. to \in Job /\ to.stage = "failed" /\ to.by = "reconcile" /\ to.rec = AfterFailure(t)
    <3>1. AfterFailure(t) \in Task
      BY <1>1, <1>3, AfterFailureType
    <3>2. [NoJob EXCEPT !.stage = "failed", !.rec = AfterFailure(t)] \in Job
      BY <3>1, Blank DEF Job, Stages
    <3> QED
      BY <3>1, <3>2, Blank DEF Job, Stages, NoJob
  <2>4. /\ job' \in [Jobs -> Job] /\ job'[Main(r)] = to
        /\ \A x \in Jobs \ {Main(r)} : job'[x] = job[x]
    <3> HIDE DEF to
    <3> QED
      BY <1>1, <2>1, <2>2, <2>3 DEF TypeOK
  <2> HIDE DEF to
  <2>5. SameBack(r)
    BY <1>1, <2>2, <2>4, JobNames, Distinct DEF SameBack
  <2>6. RunMove(r)
    BY <1>2, <1>3, <2>1, <2>3, <2>4, <2>5 DEF RunMove, VisitMove, Keeps
  <2>7. TypeOK'
    BY <1>1, <1>2, <2>1, <2>4 DEF TypeOK, time, history
  <2>8. Moved
    <3>1. FiringMove
      BY <1>1, <1>2, <1>4, <2>2, <2>3, <2>4, GoesFiring DEF TickJob
    <3> QED
      BY <1>1, <1>2, <2>1, <2>4, <2>6, <3>1, OneRun
  <2>9. Reading
    <3>1. job[Main(r)].stage \notin Held
      BY <1>4 DEF Held
    <3>2. Fresh(Main(r))
      BY <1>3, <1>6, <2>2, <2>3, <2>4 DEF Fresh
    <3> QED
      BY <1>1, <1>2, <2>2, <2>4, <3>1, <3>2, OneReads DEF history
  <2> QED
    BY <1>1, <1>2, <2>7, <2>8, <2>9, NoTimeTimely DEF Proper, time
<1> QED
  BY <1>5, <1>6

\* A task that is free has no worker.
LEMMA FreeTask ==
  ASSUME JobsInv, NEW t \in Tasks, ~Busy(t), NEW j \in Jobs, TaskOf(j) = t
  PROVE  ~TickJob(j)
BY DEF Busy, JobsInv, FiringInv

\* AskStarts.
LEMMA AskStartsType ==
  ASSUME TypeInv, NEW t \in Tasks, AskStarts(t)
  PROVE  Proper /\ Reading
<1> DEFINE to == [NoJob EXCEPT !.stage = "asking", !.rec = Copy(t)]
<1>1. TypeOK /\ JobsInv /\ TasksInv /\ StaleInv
  BY DEF TypeInv
<1>2. UNCHANGED <<task, run, turn, time, activeRuns, tick, listed, recoveringTasks, armed, call,
                  calls, crashes, history>> /\ waiting' \subseteq waiting
      /\ firingTasks' = firingTasks \cup {t} /\ tick = "firing"
  BY DEF AskStarts, Taken, TakeFrame, Claim, NoTime, time, history
<1>3. Ask(t) \in Jobs /\ TaskOf(Ask(t)) = t /\ TaskOf(Ask(t))' = t /\ t \notin firingTasks
  BY <1>2, JobNames DEF TaskOf, AskStarts, Claim, Busy
<1>4. job[Ask(t)].stage = "none"
  <2>1. ~TickJob(Ask(t))
    BY <1>1, <1>3, FreeTask DEF AskStarts, Claim
  <2> QED
    BY <1>1, <2>1 DEF TickJob, JobsInv, AskInv
<1>5. to \in Job /\ to.stage = "asking" /\ to.by = "tick" /\ to.rec = Copy(t)
  BY <1>1, CopyType, Blank DEF Job, Stages
<1>6. /\ job' \in [Jobs -> Job] /\ job'[Ask(t)] = to
      /\ \A x \in Jobs \ {Ask(t)} : job'[x] = job[x]
  <2>1. job' = [job EXCEPT ![Ask(t)] = to]
    BY DEF AskStarts
  <2> HIDE DEF to
  <2> QED
    BY <1>1, <1>3, <1>5, <2>1 DEF TypeOK
<1> HIDE DEF to
<1>7. task[t].status = "active"
  BY DEF AskStarts, RunsOccurrence, Overdue
<1>8. TypeOK'
  BY <1>1, <1>2, <1>6 DEF TypeOK, time, history
<1>9. Moved
  <2>1. FiringMove
    BY <1>1, <1>2, <1>3, <1>5, <1>6 DEF FiringMove, TickJob, JobsInv, FiringInv
  <2>2. AskMove(t)
    BY <1>2, <1>5, <1>6, <1>7 DEF AskMove
  <2> QED
    BY <1>1, <1>2, <1>6, <2>1, <2>2, OneAsk
<1>10. Reading
  <2>1. Fresh(Ask(t)) /\ job[Ask(t)].stage \notin Held
    BY <1>3, <1>4, <1>5, <1>6, <1>7 DEF Fresh, Held
  <2> QED
    BY <1>1, <1>2, <1>3, <1>6, <2>1, OneReads DEF history
<1> QED
  BY <1>1, <1>2, <1>8, <1>9, <1>10, NoTimeTimely DEF Proper, time

\* StartRun.
LEMMA StartRunType ==
  ASSUME TypeInv, NEW t \in Tasks, StartRun(t)
  PROVE  Proper /\ Reading
<1> DEFINE approved == RunsApproved(t)
           to == [NoJob EXCEPT !.stage = "starting", !.advanced = approved \/ task[t].gated]
           first == [occurrence |-> IF approved THEN 0 ELSE task[t].next, approved |-> approved]
<1>1. TypeOK /\ JobsInv /\ TasksInv /\ StaleInv
  BY DEF TypeInv
<1>2. UNCHANGED <<task, turn, time, tick, listed, recoveringTasks, armed, call,
                  calls, crashes, grants, stale, lost, edited>> /\ waiting' \subseteq waiting
      /\ firingTasks' = firingTasks \cup {t} /\ tick = "firing"
  BY DEF StartRun, Taken, TakeFrame, Claim, NoTime, time
<1>0. PICK r \in Unused : /\ run' = [run EXCEPT ![r].task = t]
                         /\ origin' = [origin EXCEPT ![r] = first]
                         /\ activeRuns' = activeRuns \cup {r}
                         /\ job' = [job EXCEPT ![Main(r)] = to]
  <2> DEFINE new == CHOOSE x \in Unused : TRUE
  <2>1. new \in Unused
    BY DEF StartRun
  <2> QED
    BY <2>1 DEF StartRun
<1>3. r \in Runs /\ run[r].task = NoTask
  BY DEF Unused
<1>4. /\ run' = [run EXCEPT ![r].task = t]
      /\ origin' = [origin EXCEPT ![r] = first]
      /\ activeRuns' = activeRuns \cup {r}
      /\ job' = [job EXCEPT ![Main(r)] = to]
  BY <1>0
<1>5. task[t].status = "active"
  BY DEF StartRun, RunsApproved, RunsOccurrence, Overdue
<1>6. to \in Job /\ to.stage = "starting" /\ to.by = "tick"
  <2>1. (approved \/ task[t].gated) \in BOOLEAN
    OBVIOUS
  <2> HIDE DEF approved
  <2> QED
    BY <2>1, Blank DEF Job, Stages
<1>7. first \in Origin
  <2>1. approved \in BOOLEAN
    BY DEF RunsApproved
  <2>2. task[t].next \in 0..Horizon /\ 0 \in 0..Horizon
    BY <1>1, Blank DEF TypeOK, Task
  <2> HIDE DEF approved
  <2> QED
    BY <2>1, <2>2 DEF Origin
<1> HIDE DEF to, first
<1>8. Main(r) \in Jobs /\ TaskOf(Main(r))' = run'[r].task
  BY <1>3, JobNames DEF TaskOf
<1>9. /\ job' \in [Jobs -> Job] /\ job'[Main(r)] = to
      /\ \A x \in Jobs \ {Main(r)} : job'[x] = job[x]
  BY <1>1, <1>4, <1>6, <1>8 DEF TypeOK
<1>10. /\ run' \in [Runs -> Run] /\ run'[r].task = t /\ run'[r].state = run[r].state
       /\ \A x \in Runs \ {r} : run'[x] = run[x]
  BY <1>1, <1>3, <1>4 DEF TypeOK, Run
<1>11. TypeOK'
  <2>1. origin' \in [Runs -> Origin] /\ activeRuns' \subseteq Runs
    BY <1>1, <1>3, <1>4, <1>7 DEF TypeOK
  <2>2. firingTasks' \cup recoveringTasks' \cup waiting' \subseteq Tasks
    BY <1>1, <1>2 DEF TypeOK
  <2> QED
    BY <1>1, <1>2, <1>9, <1>10, <2>1, <2>2 DEF TypeOK, time
<1>12. job[Main(r)].stage = "none"
  BY <1>1, <1>3 DEF JobsInv, RunsInv
<1>13. Moved
  <2>1. t \notin firingTasks
    BY DEF StartRun, Claim, Busy
  <2>2. FiringMove
    <3>1. TaskOf(Main(r))' \notin firingTasks /\ firingTasks' = firingTasks \cup {TaskOf(Main(r))'}
      BY <1>2, <1>8, <1>10, <2>1
    <3>2. \A j \in Jobs \ {Main(r)} : TickJob(j)' => TickJob(j)
      BY <1>9 DEF TickJob
    <3>3. \A j \in Jobs : job'[j].by # "reconcile"
      BY <1>1, <1>2, <1>6, <1>9 DEF JobsInv, FiringInv
    <3> QED
      BY <1>2, <1>8, <3>1, <3>2, <3>3 DEF FiringMove
  <2>3. SameBack(r)
    BY <1>3, <1>9, JobNames, Distinct DEF SameBack
  <2>4. RunMove(r)
    BY <1>2, <1>3, <1>5, <1>6, <1>9, <1>10, <2>3 DEF RunMove, StartMove, Keeps
  <2>5. \A x \in activeRuns' : x \in activeRuns \/ run'[x].task # NoTask
    BY <1>4, <1>10, TasksAssumption
  <2> QED
    BY <1>1, <1>2, <1>3, <1>9, <1>10, <2>2, <2>4, <2>5, OneRun
<1>14. Reading
  BY <1>1, <1>2, <1>6, <1>8, <1>9, <1>12, OneReads DEF Held
<1> QED
  BY <1>1, <1>2, <1>11, <1>13, <1>14, NoTimeTimely DEF Proper, time

\* A job that goes on.
LEMMA GoesOn ==
  ASSUME TypeInv, NEW j \in Jobs, job[j].stage # "none", NEW to \in Job, to.by = job[j].by,
         Goes(j, to), JobFrame
  PROVE  /\ Moves(j, to) /\ FiringMove
         /\ UNCHANGED <<firingTasks, recoveringTasks, armed>>
         /\ firingTasks' \cup recoveringTasks' \subseteq Tasks /\ armed' \in BOOLEAN
<1>1. TypeOK /\ JobsInv /\ FiringInv
  BY DEF TypeInv, JobsInv
<1>2. Moves(j, to) /\ UNCHANGED <<firingTasks, recoveringTasks, armed>>
  BY <1>1, GoesType
<1>3. FiringMove
  BY <1>1, <1>2, GoesFiring DEF Moves, TickJob, JobFrame, ticking, FiringInv
<1> QED
  BY <1>1, <1>2, <1>3 DEF TypeOK

\* A job that is over.
LEMMA EndsHere ==
  ASSUME TypeInv, NEW j \in Jobs, job[j].stage # "none", NEW wake, End(j, wake), JobFrame
  PROVE  /\ Moves(j, NoJob) /\ FiringMove
         /\ firingTasks' \cup recoveringTasks' \subseteq Tasks /\ armed' \in BOOLEAN
<1>1. TypeOK /\ JobsInv
  BY DEF TypeInv
<1>2. FiringMove
  BY <1>1, EndType, EndFiring DEF JobFrame, ticking
<1> QED
  BY <1>1, <1>2, EndType

\* A job that has failed.
LEMMA FailsHere ==
  ASSUME TypeInv, NEW j \in Jobs, job[j].stage # "none", NEW ends \in {"failed", "interrupted"},
         RecordFailure(j, ends), JobFrame
  PROVE  /\ FiringMove /\ TaskOf(j) \in Tasks
         /\ run' \in [Runs -> Run] /\ job' \in [Jobs -> Job] /\ armed' \in BOOLEAN
         /\ firingTasks' \cup recoveringTasks' \subseteq Tasks
         /\ \A x \in Jobs \ {j} : job'[x] = job[x]
         /\ \A x \in Runs : run'[x].task = run[x].task
         /\ \A x \in Runs : j[1] = "ask" \/ x # j[2] => run'[x] = run[x]
         /\ \/ /\ job'[j].stage = "failed" /\ job'[j].by = job[j].by /\ Fresh(j)
               /\ UNCHANGED run
            \/ /\ job'[j] = NoJob
               /\ j[1] # "ask" => run'[j[2]].state \in ClosedStates
<1>1. TypeOK /\ JobsInv /\ TasksInv /\ FiringInv /\ TaskOf(j) \in Tasks
  BY TaskOfStays DEF TypeInv, JobsInv
<1>2. CASE task[TaskOf(j)].status = "active"
  <2>1. /\ job'[j].stage = "failed" /\ job'[j].rec = AfterFailure(TaskOf(j))
        /\ job'[j].by = job[j].by
        /\ UNCHANGED <<run, firingTasks, recoveringTasks, armed>>
        /\ \A x \in Jobs \ {j} : job'[x] = job[x]
    BY <1>1, <1>2, RecordFailureType
  <2>2. FiringMove
    BY <1>1, <2>1, GoesFiring DEF TickJob, JobFrame, ticking, FiringInv
  <2>3. Fresh(j)
    BY <1>1, <1>2, <2>1 DEF Fresh
  <2> QED
    BY <1>1, <2>1, <2>2, <2>3, RecordFailureType
<1>3. CASE task[TaskOf(j)].status # "active"
  <2>1. /\ job'[j] = NoJob
        /\ j[1] # "ask" => run'[j[2]].state \in ClosedStates
        /\ firingTasks' = IF job[j].by = "tick" THEN firingTasks \ {TaskOf(j)} ELSE firingTasks
        /\ job' \in [Jobs -> Job]
        /\ \A x \in Jobs \ {j} : job'[x] = job[x]
    BY <1>1, <1>3, RecordFailureType
  <2>2. Moves(j, NoJob)
    BY <2>1 DEF Moves
  <2>3. FiringMove
    BY <1>1, <2>1, <2>2, EndFiring DEF JobFrame, ticking
  <2> QED
    BY <1>1, <2>1, <2>3, RecordFailureType
<1> QED
  BY <1>2, <1>3

\* The job of a run.
LEMMA JobOf ==
  ASSUME TypeInv, NEW r \in Runs, NEW j \in {Main(r), Back(r)}, job[j].stage # "none"
  PROVE  /\ j \in Jobs /\ j[1] # "ask" /\ j[2] = r /\ j \notin Callers
         /\ TaskOf(j) = run[r].task /\ run[r].task \in Tasks
         /\ task[run[r].task].status # "absent"
         /\ run[r].state \in {"none"} \cup OpenStates \cup ClosedStates
         /\ job[j] \in Job /\ run[r] \in Run
<1>1. TypeOK /\ JobsInv /\ TasksInv
  BY DEF TypeInv
<1>2. j \in Jobs /\ j[1] # "ask" /\ j[2] = r /\ TaskOf(j) = run[r].task
  BY JobNames, TasksOfJobs
<1> QED
  BY <1>1, <1>2, IdsAssumption, TaskExists DEF TypeOK, Run

\* What a step of one job of run r shows once its writes are known.
LEMMA JobStepType ==
  ASSUME TypeInv, NEW r \in Runs, NEW j \in {Main(r), Back(r)}, job[j].stage # "none" \/ j = Back(r),
         JobFrame, run[r].task \in Tasks, run'[r].task = run[r].task,
         \A x \in Jobs \ {j} : job'[x] = job[x],
         \A x \in Runs \ {r} : run'[x] = run[x] /\ turn'[x] = turn[x],
         (j = Main(r) /\ MainMove(r)) \/ (j = Back(r) /\ BackMove(r)), FiringMove,
         job' \in [Jobs -> Job], run' \in [Runs -> Run], turn' \in [Runs -> Turns],
         task' \in [Tasks -> Task], occurrence' \in [Tasks -> 0..Horizon], passed' \subseteq passed,
         stale' \subseteq Jobs \cup Callers, lost' \subseteq Tasks,
         UNCHANGED <<origin, grants, edited>>, armed' \in BOOLEAN,
         firingTasks' \cup recoveringTasks' \subseteq Tasks, activeRuns' \subseteq activeRuns \cup {r}
  PROVE  TypeOK' /\ Moved
<1>1. TypeOK
  BY DEF TypeInv
<1>2. TypeOK'
  BY <1>1 DEF TypeOK, JobFrame, ticking
<1>3. RunMove(r)
  BY JobNames, Distinct DEF RunMove, SameMain, SameBack
<1>4. \A x \in activeRuns' : x \in activeRuns \/ run'[x].task # NoTask
  BY TasksAssumption
<1>5. Moved
  BY <1>1, <1>3, <1>4, OneRun DEF JobFrame, ticking
<1> QED
  BY <1>2, <1>5

\* A job that saves its task.
LEMMA SavesHere ==
  ASSUME TypeInv, NEW j \in Jobs, job[j].stage # "none", NEW rec \in Task, Save(j, TaskOf(j), rec),
         rec.status # "absent", rec.once = task[TaskOf(j)].once, JobFrame,
         \A x \in Jobs \ {j} : job'[x] = job[x], job'[j].stage \notin Held
  PROVE  /\ Saving(j, TaskOf(j), rec)
         /\ task' \in [Tasks -> Task] /\ stale' \subseteq Jobs \cup Callers /\ lost' \subseteq Tasks
<1>1. TypeOK /\ TaskOf(j) \in Tasks /\ task[TaskOf(j)].status # "absent"
  BY TaskExists DEF TypeInv
<1>2. \A c \in Callers : call'[c] = call[c] /\ c # j
  BY IdsAssumption DEF JobFrame
<1> QED
  BY <1>1, <1>2, SaveType DEF Saving

\* The copies of the jobs are rows.
LEMMA HeldRec ==
  ASSUME TypeInv, NEW j \in Jobs, job[j].stage \in Held
  PROVE  /\ job[j].rec \in Task /\ job[j].rec.next \in 0..Horizon
         /\ job[j].rec.status # "absent" /\ ~job[j].rec.approved
         /\ job[j].rec.once = task[TaskOf(j)].once /\ TaskOf(j) \in Tasks
BY TaskExists DEF TypeInv, TypeOK, Job, Task, RecsInv, Held

\* Asked.
LEMMA AskedType ==
  ASSUME TypeInv, NEW t \in Tasks, Asked(t)
  PROVE  Proper /\ \E rec : JobSaves(Ask(t), rec)
<1> DEFINE j == Ask(t)
           n == IF task[t].once THEN 0 ELSE Computed(t)
           rec == [job[j].rec EXCEPT !.pending = TRUE, !.next = n]
<1>1. TypeOK /\ TasksInv /\ j \in Jobs /\ TaskOf(j) = t /\ job[j].stage = "asking"
  BY JobNames, TasksOfJobs DEF TypeInv, Asked
<1>2. n \in 0..Horizon
  BY <1>1, ComputedType, Blank
<1>3. /\ rec \in Task /\ rec.status # "absent" /\ rec.once = task[t].once
      /\ rec.status = job[j].rec.status /\ rec.gated = job[j].rec.gated
      /\ rec.pending /\ ~rec.approved /\ rec.next = n
  <2>1. job[j].rec \in Task /\ job[j].rec.status # "absent" /\ job[j].rec.once = task[t].once
        /\ ~job[j].rec.approved
    BY <1>1, HeldRec DEF Held
  <2> HIDE DEF n
  <2>2. [job[j].rec EXCEPT !.pending = TRUE] \in Task
    BY <2>1 DEF Task
  <2> QED
    BY <1>2, <2>1, <2>2 DEF Task
<1>4. Save(j, t, rec) /\ Advance(t, n) /\ End(j, FALSE) /\ JobFrame
      /\ UNCHANGED <<run, turn, activeRuns, origin, grants, edited>>
  BY DEF Asked
<1> HIDE DEF rec, n, j
<1>5. /\ Moves(j, NoJob) /\ FiringMove
      /\ firingTasks' \cup recoveringTasks' \subseteq Tasks /\ armed' \in BOOLEAN
  BY <1>1, <1>4, EndsHere
<1>6. /\ Saving(j, t, rec)
      /\ task' \in [Tasks -> Task] /\ stale' \subseteq Jobs \cup Callers /\ lost' \subseteq Tasks
  BY <1>1, <1>3, <1>4, <1>5, SavesHere, Blank DEF Moves, Held
<1>7. occurrence' \in [Tasks -> 0..Horizon] /\ passed' \subseteq passed /\ \A u \in Tasks : Timely(u)
  BY <1>1, <1>2, <1>4, AdvanceType, AdvanceTimely
<1>8. TypeOK'
  BY <1>1, <1>4, <1>5, <1>6, <1>7 DEF TypeOK, JobFrame, ticking, Moves
<1>9. Moved
  BY <1>1, <1>4, <1>5, OneAsk DEF JobFrame, ticking, Moves, AskMove, j
<1>10. JobSaves(j, rec)
  BY <1>1, <1>3, <1>4, <1>5, <1>6 DEF JobSaves, JobFrame, Moves, n
<1> QED
  BY <1>7, <1>8, <1>9, <1>10 DEF Proper, j

\* AskFails.
LEMMA AskFailsType ==
  ASSUME TypeInv, NEW t \in Tasks, AskFails(t)
  PROVE  Proper /\ Reading
<1> DEFINE j == Ask(t)
<1>1. TypeOK /\ TasksInv /\ j \in Jobs /\ TaskOf(j) = t /\ job[j].stage = "asking" /\ j[1] = "ask"
  BY JobNames, TasksOfJobs DEF TypeInv, AskFails
<1>2. RecordFailure(j, "failed") /\ JobFrame /\ NoTime /\ stale' = stale \ {j}
      /\ UNCHANGED <<task, turn, activeRuns, origin, grants, lost, edited>>
  BY DEF AskFails
<1> HIDE DEF j
<1>3. /\ FiringMove
      /\ run' \in [Runs -> Run] /\ job' \in [Jobs -> Job] /\ armed' \in BOOLEAN
      /\ firingTasks' \cup recoveringTasks' \subseteq Tasks
      /\ \A x \in Jobs \ {j} : job'[x] = job[x]
      /\ \A x \in Runs : run'[x] = run[x]
      /\ \/ job'[j].stage = "failed" /\ job'[j].by = job[j].by /\ Fresh(j)
         \/ job'[j] = NoJob
  BY <1>1, <1>2, FailsHere
<1>4. run' = run
  BY <1>1, <1>3 DEF TypeOK
<1>5. TypeOK' /\ \A u \in Tasks : Timely(u)
  BY <1>1, <1>2, <1>3, NoTimeTimely DEF TypeOK, JobFrame, ticking, NoTime
<1>6. AskMove(t)
  BY <1>1, <1>2, <1>3 DEF AskMove, TypeInv, JobsInv, AskInv, j, Fresh
<1>7. Moved
  BY <1>1, <1>2, <1>3, <1>4, <1>6, OneAsk DEF JobFrame, ticking, j
<1>8. Reading
  BY <1>1, <1>2, <1>3, IdsAssumption, Blank DEF Reading, JobFrame, Held
<1> QED
  BY <1>5, <1>7, <1>8 DEF Proper

\* FailSave of a request.
LEMMA AskFailSaveType ==
  ASSUME TypeInv, NEW t \in Tasks, FailSave(Ask(t))
  PROVE  Proper /\ \E rec : JobSaves(Ask(t), rec)
<1> DEFINE j == Ask(t)
<1>1. TypeOK /\ TasksInv /\ j \in Jobs /\ TaskOf(j) = t /\ job[j].stage = "failed" /\ j[1] = "ask"
  BY JobNames, TasksOfJobs DEF TypeInv, FailSave
<1>2. Save(j, t, job[j].rec) /\ Advance(t, job[j].rec.next) /\ End(j, FALSE) /\ JobFrame
      /\ UNCHANGED <<run, turn, activeRuns, origin, grants, edited>>
  BY <1>1 DEF FailSave
<1>3. /\ job[j].rec \in Task /\ job[j].rec.next \in 0..Horizon
      /\ job[j].rec.status # "absent" /\ job[j].rec.once = task[t].once
  BY <1>1, HeldRec DEF Held
<1> HIDE DEF j
<1>5. /\ Moves(j, NoJob) /\ FiringMove
      /\ firingTasks' \cup recoveringTasks' \subseteq Tasks /\ armed' \in BOOLEAN
  BY <1>1, <1>2, EndsHere
<1>6. /\ Saving(j, t, job[j].rec)
      /\ task' \in [Tasks -> Task] /\ stale' \subseteq Jobs \cup Callers /\ lost' \subseteq Tasks
  BY <1>1, <1>2, <1>3, <1>5, SavesHere, Blank DEF Moves, Held
<1>7. occurrence' \in [Tasks -> 0..Horizon] /\ passed' \subseteq passed /\ \A u \in Tasks : Timely(u)
  BY <1>1, <1>2, <1>3, AdvanceType, AdvanceTimely
<1>8. TypeOK'
  BY <1>1, <1>2, <1>5, <1>6, <1>7 DEF TypeOK, JobFrame, ticking, Moves
<1>9. Moved
  BY <1>1, <1>2, <1>5, OneAsk DEF JobFrame, ticking, Moves, AskMove, j
<1>10. JobSaves(j, job[j].rec)
  BY <1>1, <1>2, <1>5, <1>6 DEF JobSaves, JobFrame, Moves
<1> QED
  BY <1>7, <1>8, <1>9, <1>10 DEF Proper, j

\* The job goes on to another await, with what it holds.
LEMMA GoesTo ==
  ASSUME TypeInv, NEW j \in Jobs, job[j].stage # "none", NEW stage \in Stages \ {"none"},
         Goes(j, [job[j] EXCEPT !.stage = stage]), JobFrame
  PROVE  /\ job' \in [Jobs -> Job] /\ job'[j].stage = stage /\ job'[j].by = job[j].by
         /\ \A x \in Jobs \ {j} : job'[x] = job[x]
         /\ FiringMove /\ UNCHANGED <<firingTasks, recoveringTasks, armed>>
         /\ firingTasks' \cup recoveringTasks' \subseteq Tasks /\ armed' \in BOOLEAN
<1> DEFINE to == [job[j] EXCEPT !.stage = stage]
<1>1. to \in Job /\ to.by = job[j].by /\ to.stage = stage
  BY DEF TypeInv, TypeOK, Job
<1> HIDE DEF to
<1>2. Moves(j, to) /\ FiringMove
      /\ UNCHANGED <<firingTasks, recoveringTasks, armed>>
      /\ firingTasks' \cup recoveringTasks' \subseteq Tasks /\ armed' \in BOOLEAN
  <2>1. Goes(j, to)
    BY DEF to
  <2> QED
    BY <1>1, <2>1, GoesOn
<1> QED
  BY <1>1, <1>2 DEF Moves

\* OpenRow.
LEMMA OpenRowType ==
  ASSUME TypeInv, NEW r \in Runs, OpenRow(r)
  PROVE  Proper /\ IF origin[r].approved => task[run[r].task].approved THEN Marking ELSE Reading
<1> DEFINE j == Main(r)
           t == run[r].task
           to == [job[j] EXCEPT !.stage = "turn"]
<1>1. job[j].stage = "starting" /\ JobFrame /\ NoTime /\ NoHistory
  BY DEF OpenRow
<1>2. /\ j \in Jobs /\ TaskOf(j) = t /\ t \in Tasks /\ TypeOK /\ TasksInv /\ StaleInv
      /\ job[j] \in Job /\ run[r] \in Run
  BY <1>1, JobOf DEF TypeInv
<1>3. \A u \in Tasks : Timely(u)
  BY <1>1, <1>2, NoTimeTimely DEF NoTime
<1>4. CASE origin[r].approved => task[t].approved
  <2>1. /\ run' = [run EXCEPT ![r].state = "running"]
        /\ turn' = [turn EXCEPT ![r] = "live"]
        /\ task' = [task EXCEPT ![t].approved = @ /\ ~origin[r].approved]
        /\ Goes(j, to) /\ UNCHANGED activeRuns
    BY <1>4 DEF OpenRow
  <2>2. /\ run' \in [Runs -> Run] /\ run'[r].state = "running" /\ run'[r].task = t
        /\ \A x \in Runs \ {r} : run'[x] = run[x]
    BY <1>2, <2>1 DEF TypeOK, Run, OpenStates
  <2>3. /\ turn' \in [Runs -> Turns] /\ turn'[r] = "live" /\ \A x \in Runs \ {r} : turn'[x] = turn[x]
    BY <1>2, <2>1 DEF TypeOK, Turns
  <2>4. /\ task' \in [Tasks -> Task]
        /\ \A u \in Tasks : \/ task'[u] = task[u]
                            \/ \E b \in BOOLEAN : task'[u] = [task[u] EXCEPT !.approved = b]
    <3> DEFINE marker == task[t].approved /\ ~origin[r].approved
    <3>1. marker \in BOOLEAN
      OBVIOUS
    <3>2. task' = [task EXCEPT ![t] = [@ EXCEPT !.approved = marker]]
      BY <2>1
    <3> HIDE DEF marker
    <3> QED
      BY <1>2, <3>1, <3>2, ZenonT(60) DEF TypeOK, Task
  <2>5. /\ job' \in [Jobs -> Job] /\ job'[j].stage = "turn" /\ job'[j].by = job[j].by
        /\ \A x \in Jobs \ {j} : job'[x] = job[x]
        /\ FiringMove
        /\ firingTasks' \cup recoveringTasks' \subseteq Tasks /\ armed' \in BOOLEAN
    BY <1>1, <1>2, <2>1, GoesTo DEF Stages
  <2>6. MainMove(r)
    BY <1>1, <2>2, <2>3, <2>5 DEF MainMove, At
  <2> HIDE DEF j, t, to
  <2>7. TypeOK' /\ Moved
    BY <1>1, <1>2, <2>1, <2>2, <2>3, <2>4, <2>5, <2>6, JobStepType
       DEF NoTime, NoHistory, history, TypeOK, j, t
  <2>8. Marking
    BY <1>1, <2>4, <2>5 DEF Marking, NoHistory, history, JobFrame, Held
  <2> QED
    BY <1>3, <1>4, <2>7, <2>8 DEF Proper, t
<1>5. CASE ~(origin[r].approved => task[t].approved)
  <2>1. /\ activeRuns' = activeRuns \ {r}
        /\ UNCHANGED <<tables, turn>>
        /\ End(j, FALSE)
    BY <1>5 DEF OpenRow
  <2>2. /\ Moves(j, NoJob) /\ FiringMove
        /\ firingTasks' \cup recoveringTasks' \subseteq Tasks /\ armed' \in BOOLEAN
    BY <1>1, <1>2, <2>1, EndsHere
  <2>3. MainMove(r)
    BY <1>1, <2>1, <2>2, Blank DEF MainMove, At, Moves, Keeps, tables
  <2>4. TypeOK' /\ Moved
    BY <1>1, <1>2, <2>1, <2>2, <2>3, JobStepType
       DEF NoTime, NoHistory, history, TypeOK, tables, Moves
  <2>5. Reading
    BY <1>1, <1>2, <2>1, <2>2, Blank, OneReads DEF Moves, NoHistory, history, JobFrame, Held, tables
  <2> QED
    BY <1>3, <1>5, <2>4, <2>5 DEF Proper
<1> QED
  BY <1>4, <1>5

\* TurnAnswers.
LEMMA TurnAnswersType ==
  ASSUME TypeInv, NEW r \in Runs, TurnAnswers(r)
  PROVE  Proper /\ Reading
<1> DEFINE j == Main(r)
           t == run[r].task
           rec == [Copy(t) EXCEPT !.next = Advanced(t, job[j].advanced)]
           to == [job[j] EXCEPT !.stage = "storing", !.rec = rec]
<1>1. job[j].stage = "turn" /\ JobFrame /\ NoTime /\ NoHistory /\ UNCHANGED <<task, activeRuns>>
      /\ TurnOver(r)
  BY DEF TurnAnswers
<1>2. /\ j \in Jobs /\ TaskOf(j) = t /\ t \in Tasks /\ TypeOK /\ TasksInv /\ StaleInv
      /\ job[j] \in Job /\ run[r] \in Run
  BY <1>1, JobOf DEF TypeInv
<1>3. \A u \in Tasks : Timely(u)
  BY <1>1, <1>2, NoTimeTimely DEF NoTime
<1>4. /\ turn' \in [Runs -> Turns] /\ TurnEnds(r) /\ \A x \in Runs \ {r} : turn'[x] = turn[x]
  BY <1>1, <1>2 DEF TypeOK, Turns, TurnOver, TurnEnds
<1>5. job[j].stage \notin Held
  BY <1>1 DEF Held
<1>6. CASE task[t].status = "active"
  <2>1. Goes(j, to) /\ UNCHANGED run
    BY <1>6 DEF TurnAnswers
  <2>2. to \in Job /\ to.stage = "storing" /\ to.by = job[j].by /\ to.rec = rec
    <3>1. Advanced(t, job[j].advanced) \in 0..Horizon
      BY <1>2, ComputedType, CopyType, Blank DEF Advanced, Task
    <3>2. rec \in Task
      BY <1>2, <3>1, CopyType DEF Task
    <3> HIDE DEF rec
    <3>3. [job[j] EXCEPT !.stage = "storing"] \in Job
      BY <1>2 DEF Job, Stages
    <3> QED
      BY <1>2, <3>2, <3>3 DEF Job, Stages
  <2> HIDE DEF to
  <2>3. /\ Moves(j, to) /\ FiringMove
        /\ firingTasks' \cup recoveringTasks' \subseteq Tasks /\ armed' \in BOOLEAN
    BY <1>1, <1>2, <2>1, <2>2, GoesOn
  <2>4. MainMove(r)
    BY <1>1, <1>4, <2>1, <2>2, <2>3 DEF MainMove, At, Moves
  <2>5. TypeOK' /\ Moved
    BY <1>1, <1>2, <1>4, <2>1, <2>3, <2>4, JobStepType DEF NoTime, NoHistory, history, TypeOK, Moves
  <2>6. Fresh(j)
    <3>1. ByApproval(j) = job[j].advanced
      BY JobNames DEF ByApproval
    <3> QED
      BY <1>1, <1>2, <1>6, <2>2, <2>3, <3>1 DEF Fresh, Moves
  <2>7. Reading
    BY <1>1, <1>2, <1>5, <2>3, <2>6, OneReads DEF Moves, NoHistory, history, JobFrame
  <2> QED
    BY <1>3, <2>5, <2>7 DEF Proper
<1>7. CASE task[t].status # "active"
  <2>1. Close(r, "failed") /\ End(j, FALSE)
    BY <1>7 DEF TurnAnswers
  <2>2. /\ Moves(j, NoJob) /\ FiringMove
        /\ firingTasks' \cup recoveringTasks' \subseteq Tasks /\ armed' \in BOOLEAN
    BY <1>1, <1>2, <2>1, EndsHere
  <2>3. /\ run' \in [Runs -> Run] /\ run'[r].state \in ClosedStates /\ run'[r].task = run[r].task
        /\ \A x \in Runs \ {r} : run'[x] = run[x]
    BY <1>2, <2>1, CloseType DEF ClosedStates
  <2>4. MainMove(r)
    BY <1>1, <1>4, <2>2, <2>3, Blank DEF MainMove, At, Moves
  <2>5. TypeOK' /\ Moved
    BY <1>1, <1>2, <1>4, <2>2, <2>3, <2>4, JobStepType DEF NoTime, NoHistory, history, TypeOK, Moves
  <2>6. Reading
    BY <1>1, <1>2, <1>5, <2>2, Blank, OneReads DEF Moves, NoHistory, history, JobFrame, Held
  <2> QED
    BY <1>3, <2>5, <2>6 DEF Proper
<1> QED
  BY <1>6, <1>7

\* TurnFails.
LEMMA TurnFailsType ==
  ASSUME TypeInv, NEW r \in Runs, TurnFails(r)
  PROVE  Proper /\ Reading
<1> DEFINE j == Main(r)
<1>1. job[j].stage = "turn" /\ JobFrame /\ NoTime /\ NoHistory /\ task' = task
      /\ activeRuns' = activeRuns \ {r} /\ TurnOver(r) /\ RecordFailure(j, "failed")
  BY DEF TurnFails
<1>2. /\ j \in Jobs /\ j[1] # "ask" /\ j[2] = r /\ run[r].task \in Tasks /\ TypeOK /\ TasksInv /\ StaleInv
      /\ job[j] \in Job
  BY <1>1, JobOf DEF TypeInv
<1>3. \A u \in Tasks : Timely(u)
  BY <1>1, <1>2, NoTimeTimely DEF NoTime
<1>4. /\ turn' \in [Runs -> Turns] /\ TurnEnds(r) /\ \A x \in Runs \ {r} : turn'[x] = turn[x]
  BY <1>1, <1>2 DEF TypeOK, Turns, TurnOver, TurnEnds
<1>5. /\ FiringMove
      /\ run' \in [Runs -> Run] /\ job' \in [Jobs -> Job] /\ armed' \in BOOLEAN
      /\ firingTasks' \cup recoveringTasks' \subseteq Tasks
      /\ \A x \in Jobs \ {j} : job'[x] = job[x]
      /\ run'[r].task = run[r].task
      /\ \A x \in Runs \ {r} : run'[x] = run[x]
      /\ \/ /\ job'[j].stage = "failed" /\ job'[j].by = job[j].by /\ Fresh(j)
            /\ UNCHANGED run
         \/ /\ job'[j] = NoJob /\ run'[r].state \in ClosedStates
  BY <1>1, <1>2, FailsHere
<1>6. MainMove(r)
  BY <1>1, <1>4, <1>5, Blank DEF MainMove, At
<1>7. TypeOK' /\ Moved
  BY <1>1, <1>2, <1>4, <1>5, <1>6, JobStepType DEF NoTime, NoHistory, history, TypeOK
<1>8. Reading
  BY <1>1, <1>2, <1>5, Blank, OneReads DEF NoHistory, history, JobFrame, Held
<1> QED
  BY <1>3, <1>7, <1>8 DEF Proper

\* StoreResult.
LEMMA StoreResultType ==
  ASSUME TypeInv, NEW r \in Runs, NEW j \in {Main(r), Back(r)}, StoreResult(j)
  PROVE  Proper /\ \E rec : JobSaves(j, rec)
<1> DEFINE t == run[r].task
           stage == IF j[1] = "back" THEN "refreshing" ELSE "sending"
<1>1. job[j].stage = "storing"
  BY DEF StoreResult
<1>2. /\ j \in Jobs /\ j[2] = r /\ TaskOf(j) = t /\ t \in Tasks /\ TypeOK /\ TasksInv
      /\ job[j] \in Job /\ run[r] \in Run
  BY <1>1, JobOf DEF TypeInv
<1>3. /\ job[j].rec \in Task /\ job[j].rec.next \in 0..Horizon
      /\ job[j].rec.status # "absent" /\ job[j].rec.once = task[t].once
  BY <1>1, <1>2, HeldRec DEF Held
<1>4. Save(j, t, job[j].rec) /\ Advance(t, job[j].rec.next) /\ JobFrame
      /\ run' = [run EXCEPT ![r].state = "delivering"]
      /\ Goes(j, [job[j] EXCEPT !.stage = stage])
      /\ UNCHANGED <<turn, activeRuns, origin, grants, edited>>
  BY <1>2 DEF StoreResult
<1>5. /\ job' \in [Jobs -> Job] /\ job'[j].stage = stage /\ job'[j].by = job[j].by
      /\ \A x \in Jobs \ {j} : job'[x] = job[x]
      /\ FiringMove
      /\ firingTasks' \cup recoveringTasks' \subseteq Tasks /\ armed' \in BOOLEAN
  <2>1. stage \in Stages \ {"none"}
    BY DEF Stages
  <2> HIDE DEF stage
  <2> QED
    BY <1>1, <1>2, <1>4, <2>1, GoesTo
<1>6. /\ run' \in [Runs -> Run] /\ run'[r].state = "delivering" /\ run'[r].task = t
      /\ \A x \in Runs \ {r} : run'[x] = run[x]
  BY <1>2, <1>4 DEF TypeOK, Run, OpenStates
<1>7. (j = Main(r) /\ MainMove(r)) \/ (j = Back(r) /\ BackMove(r))
  <2>1. CASE j = Main(r)
    BY <1>1, <1>4, <1>5, <1>6, <2>1, JobNames DEF MainMove, At
  <2>2. CASE j = Back(r)
    BY <1>1, <1>4, <1>5, <1>6, <2>2, JobNames DEF BackMove, At
  <2> QED
    BY <2>1, <2>2
<1>8. /\ Saving(j, t, job[j].rec)
      /\ task' \in [Tasks -> Task] /\ stale' \subseteq Jobs \cup Callers /\ lost' \subseteq Tasks
  BY <1>1, <1>2, <1>3, <1>4, <1>5, SavesHere DEF Held
<1>9. occurrence' \in [Tasks -> 0..Horizon] /\ passed' \subseteq passed /\ \A u \in Tasks : Timely(u)
  BY <1>2, <1>3, <1>4, AdvanceType, AdvanceTimely
<1> HIDE DEF t, stage
<1>10. TypeOK' /\ Moved
  <2>1. turn' \in [Runs -> Turns] /\ activeRuns' \subseteq activeRuns \cup {r}
    BY <1>2, <1>4 DEF TypeOK
  <2> QED
    BY <1>1, <1>2, <1>4, <1>5, <1>6, <1>7, <1>8, <1>9, <2>1, JobStepType DEF t
<1>11. JobSaves(j, job[j].rec)
  BY <1>1, <1>2, <1>4, <1>8 DEF JobSaves, JobFrame
<1> QED
  BY <1>9, <1>10, <1>11 DEF Proper, t

\* Refresh.
LEMMA RefreshType ==
  ASSUME TypeInv, NEW r \in Runs, NEW j \in {Main(r), Back(r)}, Refresh(j)
  PROVE  Proper /\ Reading
<1>1. job[j].stage = "refreshing" /\ JobFrame /\ NoTime /\ NoHistory /\ UNCHANGED <<tables, turn>>
      /\ activeRuns' = activeRuns \cup {j[2]} /\ Goes(j, [job[j] EXCEPT !.stage = "sending"])
  BY DEF Refresh
<1>2. /\ j \in Jobs /\ j[2] = r /\ run[r].task \in Tasks /\ TypeOK /\ TasksInv /\ StaleInv
      /\ job[j] \in Job /\ j = Back(r)
  BY <1>1, JobOf DEF TypeInv, JobsInv, MainInv
<1>3. /\ job' \in [Jobs -> Job] /\ job'[j].stage = "sending" /\ job'[j].by = job[j].by
      /\ \A x \in Jobs \ {j} : job'[x] = job[x]
      /\ FiringMove
      /\ firingTasks' \cup recoveringTasks' \subseteq Tasks /\ armed' \in BOOLEAN
  BY <1>1, <1>2, GoesTo DEF Stages
<1>4. BackMove(r)
  BY <1>1, <1>2, <1>3 DEF BackMove, At, Keeps, tables
<1>5. TypeOK' /\ Moved
  BY <1>1, <1>2, <1>3, <1>4, JobStepType DEF NoTime, NoHistory, history, TypeOK, tables
<1>6. Reading
  BY <1>1, <1>2, <1>3, OneReads DEF NoHistory, history, JobFrame, Held, tables
<1> QED
  BY <1>1, <1>2, <1>5, <1>6, NoTimeTimely DEF Proper, NoTime

\* Delivered.
LEMMA DeliveredType ==
  ASSUME TypeInv, NEW r \in Runs, NEW j \in {Main(r), Back(r)}, Delivered(j)
  PROVE  Proper /\ \E rec : JobSaves(j, rec)
<1> DEFINE t == run[r].task
           status == IF task[t].once /\ task[t].status = "active" THEN "completed" ELSE task[t].status
           rec == [task[t] EXCEPT !.failures = 0, !.status = status]
<1>1. job[j].stage = "sending"
  BY DEF Delivered
<1>2. /\ j \in Jobs /\ j[2] = r /\ TaskOf(j) = t /\ t \in Tasks /\ TypeOK /\ TasksInv
      /\ job[j] \in Job /\ run[r] \in Run /\ task[t].status # "absent"
  BY <1>1, JobOf DEF TypeInv
<1>3. /\ rec \in Task /\ rec.status # "absent" /\ rec.once = task[t].once
      /\ rec.next = task[t].next /\ rec.pending = task[t].pending
      /\ rec.gated = task[t].gated /\ rec.approved = task[t].approved /\ rec.status = status
  <2>1. task[t] \in Task /\ status \in Statuses \ {"absent"}
    BY <1>2, CopyType DEF Statuses, Task
  <2> HIDE DEF status
  <2>2. [task[t] EXCEPT !.failures = 0] \in Task
    BY <2>1 DEF Task
  <2> QED
    BY <2>1, <2>2 DEF Task
<1>4. Save(j, t, rec) /\ Close(r, "delivered") /\ End(j, FALSE) /\ NoTime /\ JobFrame
      /\ activeRuns' = activeRuns \ {r}
      /\ UNCHANGED <<turn, origin, grants, edited>>
  BY <1>2 DEF Delivered
<1> HIDE DEF rec, t
<1>5. /\ Moves(j, NoJob) /\ FiringMove
      /\ firingTasks' \cup recoveringTasks' \subseteq Tasks /\ armed' \in BOOLEAN
  BY <1>1, <1>2, <1>4, EndsHere
<1>6. /\ run' \in [Runs -> Run] /\ run'[r].state \in ClosedStates /\ run'[r].task = run[r].task
      /\ \A x \in Runs \ {r} : run'[x] = run[x]
  BY <1>2, <1>4, CloseType DEF ClosedStates
<1>7. (j = Main(r) /\ MainMove(r)) \/ (j = Back(r) /\ BackMove(r))
  <2>1. CASE j = Main(r)
    BY <1>1, <1>4, <1>5, <1>6, <2>1, Blank DEF MainMove, At, Moves, Closes
  <2>2. CASE j = Back(r)
    BY <1>1, <1>4, <1>5, <1>6, <2>2, Blank DEF BackMove, At, Moves, Closes
  <2> QED
    BY <2>1, <2>2
<1>8. /\ Saving(j, t, rec)
      /\ task' \in [Tasks -> Task] /\ stale' \subseteq Jobs \cup Callers /\ lost' \subseteq Tasks
  BY <1>1, <1>2, <1>3, <1>4, <1>5, SavesHere, Blank DEF Held, Moves
<1>9. TypeOK' /\ Moved
  <2>1. turn' \in [Runs -> Turns] /\ activeRuns' \subseteq activeRuns \cup {r}
        /\ occurrence' \in [Tasks -> 0..Horizon] /\ passed' \subseteq passed
    BY <1>2, <1>4 DEF TypeOK, NoTime
  <2> QED
    BY <1>1, <1>2, <1>4, <1>5, <1>6, <1>7, <1>8, <2>1, JobStepType DEF t, Moves
<1>10. JobSaves(j, rec)
  BY <1>1, <1>2, <1>3, <1>4, <1>5, <1>8 DEF JobSaves, JobFrame, Moves, t
<1> QED
  BY <1>2, <1>4, <1>9, <1>10, NoTimeTimely DEF Proper, NoTime, t

\* Defer.
LEMMA DeferType ==
  ASSUME TypeInv, NEW r \in Runs, NEW j \in {Main(r), Back(r)}, Defer(j)
  PROVE  Proper /\ Reading
<1> DEFINE rounds == job[j].rounds + 1
           row == [run[r] EXCEPT !.rounds = rounds, !.retry = TRUE]
<1>1. job[j].stage = "sending"
  BY DEF Defer
<1>2. /\ j \in Jobs /\ j[2] = r /\ run[r].task \in Tasks /\ TypeOK /\ TasksInv /\ StaleInv
      /\ job[j] \in Job /\ run[r] \in Run
  BY <1>1, JobOf DEF TypeInv
<1>3. /\ run' = [run EXCEPT ![r] = row]
      /\ passed' = passed \ {r} /\ activeRuns' = activeRuns \ {r}
      /\ UNCHANGED <<task, turn, occurrence>>
      /\ End(j, TRUE) /\ NoHistory /\ JobFrame
  BY <1>2 DEF Defer
<1>4. row \in Run /\ row.state = run[r].state /\ row.task = run[r].task
  <2>1. rounds \in Nat
    BY <1>2 DEF Job
  <2> HIDE DEF rounds
  <2>2. [run[r] EXCEPT !.rounds = rounds] \in Run
    BY <1>2, <2>1 DEF Run
  <2> QED
    BY <1>2, <2>1, <2>2 DEF Run
<1> HIDE DEF row
<1>5. /\ Moves(j, NoJob) /\ FiringMove
      /\ firingTasks' \cup recoveringTasks' \subseteq Tasks /\ armed' \in BOOLEAN
  BY <1>1, <1>2, <1>3, EndsHere
<1>6. /\ run' \in [Runs -> Run] /\ run'[r].state = run[r].state /\ run'[r].task = run[r].task
      /\ \A x \in Runs \ {r} : run'[x] = run[x]
  BY <1>2, <1>3, <1>4 DEF TypeOK
<1>7. (j = Main(r) /\ MainMove(r)) \/ (j = Back(r) /\ BackMove(r))
  <2>1. CASE j = Main(r)
    BY <1>1, <1>3, <1>5, <1>6, <2>1, Blank DEF MainMove, At, Moves, Keeps
  <2>2. CASE j = Back(r)
    BY <1>1, <1>3, <1>5, <1>6, <2>2, Blank DEF BackMove, At, Moves, Keeps
  <2> QED
    BY <2>1, <2>2
<1>8. TypeOK' /\ Moved
  <2>1. turn' \in [Runs -> Turns] /\ activeRuns' \subseteq activeRuns \cup {r}
        /\ occurrence' \in [Tasks -> 0..Horizon] /\ passed' \subseteq passed
        /\ task' \in [Tasks -> Task] /\ stale' \subseteq Jobs \cup Callers /\ lost' \subseteq Tasks
        /\ UNCHANGED <<origin, grants, edited>>
    BY <1>2, <1>3 DEF TypeOK, NoHistory, history
  <2> QED
    BY <1>1, <1>2, <1>3, <1>5, <1>6, <1>7, <2>1, JobStepType DEF Moves
<1>9. Reading
  BY <1>1, <1>2, <1>3, <1>5, Blank, OneReads DEF NoHistory, history, JobFrame, Held, Moves
<1>10. \A u \in Tasks : Timely(u)
  BY <1>2, <1>3, IdsAssumption, NoTimeTimely
<1> QED
  BY <1>8, <1>9, <1>10 DEF Proper

\* GiveUp.
LEMMA GiveUpType ==
  ASSUME TypeInv, NEW r \in Runs, NEW j \in {Main(r), Back(r)}, GiveUp(j)
  PROVE  Proper /\ Reading
<1>1. job[j].stage = "sending" /\ JobFrame /\ NoTime /\ NoHistory /\ UNCHANGED <<task, turn>>
      /\ RecordFailure(j, "failed")
  BY DEF GiveUp
<1>2. /\ j \in Jobs /\ j[1] # "ask" /\ j[2] = r /\ run[r].task \in Tasks /\ TypeOK /\ TasksInv /\ StaleInv
      /\ job[j] \in Job /\ activeRuns' \subseteq activeRuns
  BY <1>1, JobOf DEF TypeInv, GiveUp
<1>3. /\ FiringMove
      /\ run' \in [Runs -> Run] /\ job' \in [Jobs -> Job] /\ armed' \in BOOLEAN
      /\ firingTasks' \cup recoveringTasks' \subseteq Tasks
      /\ \A x \in Jobs \ {j} : job'[x] = job[x]
      /\ run'[r].task = run[r].task
      /\ \A x \in Runs \ {r} : run'[x] = run[x]
      /\ \/ /\ job'[j].stage = "failed" /\ job'[j].by = job[j].by /\ Fresh(j)
            /\ UNCHANGED run
         \/ /\ job'[j] = NoJob /\ run'[r].state \in ClosedStates
  BY <1>1, <1>2, FailsHere
<1>4. (j = Main(r) /\ MainMove(r)) \/ (j = Back(r) /\ BackMove(r))
  <2>1. CASE j = Main(r)
    BY <1>1, <1>3, <2>1, Blank DEF MainMove, At, Keeps, Closes
  <2>2. CASE j = Back(r)
    BY <1>1, <1>3, <2>2, Blank DEF BackMove, At, Keeps, Closes
  <2> QED
    BY <2>1, <2>2
<1>5. TypeOK' /\ Moved
  <2>1. turn' \in [Runs -> Turns] /\ activeRuns' \subseteq activeRuns \cup {r}
        /\ occurrence' \in [Tasks -> 0..Horizon] /\ passed' \subseteq passed
        /\ task' \in [Tasks -> Task] /\ stale' \subseteq Jobs \cup Callers /\ lost' \subseteq Tasks
        /\ UNCHANGED <<origin, grants, edited>>
    BY <1>1, <1>2 DEF TypeOK, NoHistory, history, NoTime
  <2> QED
    BY <1>1, <1>2, <1>3, <1>4, <2>1, JobStepType
<1>6. Reading
  BY <1>1, <1>2, <1>3, Blank, OneReads DEF NoHistory, history, JobFrame, Held
<1> QED
  BY <1>1, <1>2, <1>5, <1>6, NoTimeTimely DEF Proper, NoTime

\* FailSave of a run or a completion.
LEMMA FailSaveType ==
  ASSUME TypeInv, NEW r \in Runs, NEW j \in {Main(r), Back(r)}, FailSave(j)
  PROVE  Proper /\ \E rec : JobSaves(j, rec)
<1> DEFINE t == run[r].task
<1>1. job[j].stage = "failed"
  BY DEF FailSave
<1>2. /\ j \in Jobs /\ j[1] # "ask" /\ j[2] = r /\ TaskOf(j) = t /\ t \in Tasks /\ TypeOK /\ TasksInv
      /\ job[j] \in Job /\ run[r] \in Run
  BY <1>1, JobOf DEF TypeInv
<1>3. /\ job[j].rec \in Task /\ job[j].rec.next \in 0..Horizon
      /\ job[j].rec.status # "absent" /\ job[j].rec.once = task[t].once
  BY <1>1, <1>2, HeldRec DEF Held
<1>4. Save(j, t, job[j].rec) /\ Advance(t, job[j].rec.next) /\ JobFrame
      /\ Close(r, job[j].ends) /\ activeRuns' = activeRuns \ {r} /\ End(j, FALSE)
      /\ UNCHANGED <<turn, origin, grants, edited>>
  BY <1>2 DEF FailSave
<1>5. /\ Moves(j, NoJob) /\ FiringMove
      /\ firingTasks' \cup recoveringTasks' \subseteq Tasks /\ armed' \in BOOLEAN
  BY <1>1, <1>2, <1>4, EndsHere
<1>6. /\ run' \in [Runs -> Run] /\ run'[r].state \in ClosedStates /\ run'[r].task = t
      /\ \A x \in Runs \ {r} : run'[x] = run[x]
  BY <1>2, <1>4, CloseType DEF ClosedStates, Job
<1>7. (j = Main(r) /\ MainMove(r)) \/ (j = Back(r) /\ BackMove(r))
  <2>1. CASE j = Main(r)
    BY <1>1, <1>4, <1>5, <1>6, <2>1, Blank DEF MainMove, At, Moves, Closes
  <2>2. CASE j = Back(r)
    BY <1>1, <1>4, <1>5, <1>6, <2>2, Blank DEF BackMove, At, Moves, Closes
  <2> QED
    BY <2>1, <2>2
<1>8. /\ Saving(j, t, job[j].rec)
      /\ task' \in [Tasks -> Task] /\ stale' \subseteq Jobs \cup Callers /\ lost' \subseteq Tasks
  BY <1>1, <1>2, <1>3, <1>4, <1>5, SavesHere, Blank DEF Held, Moves
<1>9. occurrence' \in [Tasks -> 0..Horizon] /\ passed' \subseteq passed /\ \A u \in Tasks : Timely(u)
  BY <1>2, <1>3, <1>4, AdvanceType, AdvanceTimely
<1> HIDE DEF t
<1>10. TypeOK' /\ Moved
  <2>1. turn' \in [Runs -> Turns] /\ activeRuns' \subseteq activeRuns \cup {r}
    BY <1>2, <1>4 DEF TypeOK
  <2> QED
    BY <1>1, <1>2, <1>4, <1>5, <1>6, <1>7, <1>8, <1>9, <2>1, JobStepType DEF t, Moves
<1>11. JobSaves(j, job[j].rec)
  BY <1>1, <1>2, <1>4, <1>5, <1>8 DEF JobSaves, JobFrame, Moves
<1> QED
  BY <1>9, <1>10, <1>11 DEF Proper, t

\* RecoveredEnds.
LEMMA RecoveredEndsType ==
  ASSUME TypeInv, NEW r \in Runs, NEW ok \in BOOLEAN, RecoveredEnds(r, ok)
  PROVE  Proper /\ Reading
<1> DEFINE j == Back(r)
           to == [NoJob EXCEPT !.stage = "opening", !.by = "recovery",
                               !.ends = IF ok THEN "failed" ELSE "interrupted"]
<1>1. TurnOver(r) /\ Goes(j, to) /\ UNCHANGED <<tables, activeRuns>> /\ NoTime /\ NoHistory /\ JobFrame
  BY DEF RecoveredEnds
<1>2. TypeOK /\ TasksInv /\ StaleInv /\ JobsInv /\ j \in Jobs
  BY JobNames DEF TypeInv
<1>3. turn[r] = "live" /\ job[j].stage = "none" /\ run[r].task \in Tasks
  BY <1>1, <1>2 DEF TurnOver, JobsInv, BackInv, RunsInv, TypeOK, Run
<1>4. /\ turn' \in [Runs -> Turns] /\ TurnEnds(r) /\ \A x \in Runs \ {r} : turn'[x] = turn[x]
  BY <1>1, <1>2 DEF TypeOK, Turns, TurnOver, TurnEnds
<1>5. to \in Job /\ to.stage = "opening" /\ to.by = "recovery"
  <2> DEFINE ends == IF ok THEN "failed" ELSE "interrupted"
  <2>1. ends \in {"failed", "interrupted"}
    OBVIOUS
  <2> HIDE DEF ends
  <2>2. [NoJob EXCEPT !.stage = "opening", !.by = "recovery"] \in Job
    <3>1. [NoJob EXCEPT !.stage = "opening"] \in Job
      BY Blank DEF Job, Stages
    <3> QED
      BY <3>1, Blank DEF Job, Stages
  <2> QED
    BY <2>1, <2>2, Blank, ZenonT(60) DEF Job, Stages, NoJob
<1> HIDE DEF to
<1>6. /\ Moves(j, to) /\ UNCHANGED <<firingTasks, recoveringTasks, armed>>
      /\ firingTasks' \cup recoveringTasks' \subseteq Tasks /\ armed' \in BOOLEAN
  BY <1>1, <1>2, <1>5, GoesType DEF TypeOK
<1>7. FiringMove
  BY <1>1, <1>2, <1>5, <1>6, GoesFiring DEF Moves, TickJob, JobFrame, ticking
<1>8. BackMove(r)
  BY <1>1, <1>4, <1>5, <1>6 DEF BackMove, Moves, tables
<1>9. TypeOK' /\ Moved
  BY <1>1, <1>2, <1>3, <1>4, <1>6, <1>7, <1>8, JobStepType
     DEF NoTime, NoHistory, history, TypeOK, tables, Moves
<1>10. Reading
  BY <1>1, <1>2, <1>3, <1>5, <1>6, OneReads DEF NoHistory, history, JobFrame, Held, Moves, tables
<1> QED
  BY <1>1, <1>2, <1>9, <1>10, NoTimeTimely DEF Proper, NoTime

\* BackIsLate.
LEMMA BackIsLateType ==
  ASSUME TypeInv, NEW r \in Runs, BackIsLate(r)
  PROVE  Proper /\ Reading
<1> DEFINE j == Back(r)
<1>1. job[j].stage = "opening" /\ run[r].state # "running" /\ Goes(j, NoJob)
      /\ UNCHANGED <<tables, turn, activeRuns>> /\ NoTime /\ NoHistory /\ JobFrame
  BY DEF BackIsLate
<1>2. /\ j \in Jobs /\ run[r].task \in Tasks /\ TypeOK /\ TasksInv /\ StaleInv /\ JobsInv
  BY <1>1, JobOf DEF TypeInv
<1>3. /\ Moves(j, NoJob) /\ UNCHANGED <<firingTasks, recoveringTasks, armed>>
      /\ firingTasks' \cup recoveringTasks' \subseteq Tasks /\ armed' \in BOOLEAN
  BY <1>1, <1>2, GoesType, Blank DEF TypeOK
<1>4. FiringMove
  BY <1>1, <1>2, <1>3, Blank, GoesFiring DEF Moves, TickJob, JobFrame, ticking
<1>5. BackMove(r)
  BY <1>1, <1>3, Blank DEF BackMove, At, Moves, Keeps, tables
<1>6. TypeOK' /\ Moved
  BY <1>1, <1>2, <1>3, <1>4, <1>5, JobStepType DEF NoTime, NoHistory, history, TypeOK, tables, Moves
<1>7. Reading
  BY <1>1, <1>2, <1>3, Blank, OneReads DEF NoHistory, history, JobFrame, Held, Moves, tables
<1> QED
  BY <1>1, <1>2, <1>6, <1>7, NoTimeTimely DEF Proper, NoTime

\* BackAnswers.
LEMMA BackAnswersType ==
  ASSUME TypeInv, NEW r \in Runs, BackAnswers(r)
  PROVE  Proper /\ Reading
<1> DEFINE j == Back(r)
           t == run[r].task
           rec == [Copy(t) EXCEPT !.next = Advanced(t, task[t].gated)]
           to == [job[j] EXCEPT !.stage = "storing", !.rec = rec]
<1>1. job[j].stage = "opening" /\ run[r].state = "running" /\ UNCHANGED <<task, turn, activeRuns>>
      /\ NoTime /\ NoHistory /\ JobFrame
  BY DEF BackAnswers
<1>2. /\ j \in Jobs /\ TaskOf(j) = t /\ t \in Tasks /\ TypeOK /\ TasksInv /\ StaleInv
      /\ job[j] \in Job /\ run[r] \in Run
  BY <1>1, JobOf DEF TypeInv
<1>3. \A u \in Tasks : Timely(u)
  BY <1>1, <1>2, NoTimeTimely DEF NoTime
<1>4. job[j].stage \notin Held /\ turn' \in [Runs -> Turns]
  BY <1>1, <1>2 DEF Held, TypeOK
<1>5. CASE task[t].status = "active"
  <2>1. Goes(j, to) /\ UNCHANGED run
    BY <1>5 DEF BackAnswers
  <2>2. to \in Job /\ to.stage = "storing" /\ to.by = job[j].by /\ to.rec = rec
    <3>1. Advanced(t, task[t].gated) \in 0..Horizon
      BY <1>2, ComputedType, CopyType, Blank DEF Advanced, Task
    <3>2. rec \in Task
      BY <1>2, <3>1, CopyType DEF Task
    <3> HIDE DEF rec
    <3>3. [job[j] EXCEPT !.stage = "storing"] \in Job
      BY <1>2 DEF Job, Stages
    <3> QED
      BY <1>2, <3>2, <3>3 DEF Job, Stages
  <2> HIDE DEF to
  <2>3. /\ Moves(j, to) /\ FiringMove
        /\ firingTasks' \cup recoveringTasks' \subseteq Tasks /\ armed' \in BOOLEAN
    BY <1>1, <1>2, <2>1, <2>2, GoesOn
  <2>4. BackMove(r)
    BY <1>1, <2>1, <2>2, <2>3 DEF BackMove, At, Moves, Keeps
  <2>5. TypeOK' /\ Moved
    BY <1>1, <1>2, <1>4, <2>1, <2>3, <2>4, JobStepType DEF NoTime, NoHistory, history, TypeOK, Moves
  <2>6. Fresh(j)
    <3>1. ByApproval(j) = task[t].gated
      BY <1>2, JobNames DEF ByApproval
    <3> QED
      BY <1>1, <1>2, <1>5, <2>2, <2>3, <3>1 DEF Fresh, Moves
  <2>7. Reading
    BY <1>1, <1>2, <1>4, <2>3, <2>6, OneReads DEF Moves, NoHistory, history, JobFrame
  <2> QED
    BY <1>3, <2>5, <2>7 DEF Proper
<1>6. CASE task[t].status # "active"
  <2>1. Close(r, "failed") /\ End(j, FALSE)
    BY <1>6 DEF BackAnswers
  <2>2. /\ Moves(j, NoJob) /\ FiringMove
        /\ firingTasks' \cup recoveringTasks' \subseteq Tasks /\ armed' \in BOOLEAN
    BY <1>1, <1>2, <2>1, EndsHere
  <2>3. /\ run' \in [Runs -> Run] /\ run'[r].state \in ClosedStates /\ run'[r].task = run[r].task
        /\ \A x \in Runs \ {r} : run'[x] = run[x]
    BY <1>2, <2>1, CloseType DEF ClosedStates
  <2>4. BackMove(r)
    BY <1>1, <2>2, <2>3, Blank DEF BackMove, At, Moves, Closes
  <2>5. TypeOK' /\ Moved
    BY <1>1, <1>2, <1>4, <2>2, <2>3, <2>4, JobStepType DEF NoTime, NoHistory, history, TypeOK, Moves
  <2>6. Reading
    BY <1>1, <1>2, <1>4, <2>2, Blank, OneReads DEF Moves, NoHistory, history, JobFrame, Held
  <2> QED
    BY <1>3, <2>5, <2>6 DEF Proper
<1> QED
  BY <1>5, <1>6

\* BackFails.
LEMMA BackFailsType ==
  ASSUME TypeInv, NEW r \in Runs, BackFails(r)
  PROVE  Proper /\ Reading
<1> DEFINE j == Back(r)
<1>1. job[j].stage = "opening" /\ run[r].state = "running" /\ UNCHANGED <<task, turn, activeRuns>>
      /\ RecordFailure(j, job[j].ends) /\ NoTime /\ NoHistory /\ JobFrame
  BY DEF BackFails
<1>2. /\ j \in Jobs /\ j[1] # "ask" /\ j[2] = r /\ run[r].task \in Tasks /\ TypeOK /\ TasksInv /\ StaleInv
      /\ job[j] \in Job /\ job[j].ends \in {"failed", "interrupted"}
  BY <1>1, JobOf DEF TypeInv, Job
<1>3. /\ FiringMove
      /\ run' \in [Runs -> Run] /\ job' \in [Jobs -> Job] /\ armed' \in BOOLEAN
      /\ firingTasks' \cup recoveringTasks' \subseteq Tasks
      /\ \A x \in Jobs \ {j} : job'[x] = job[x]
      /\ run'[r].task = run[r].task
      /\ \A x \in Runs \ {r} : run'[x] = run[x]
      /\ \/ /\ job'[j].stage = "failed" /\ job'[j].by = job[j].by /\ Fresh(j)
            /\ UNCHANGED run
         \/ /\ job'[j] = NoJob /\ run'[r].state \in ClosedStates
  BY <1>1, <1>2, FailsHere
<1>4. BackMove(r)
  BY <1>1, <1>3, Blank DEF BackMove, At, Keeps, Closes
<1>5. TypeOK' /\ Moved
  BY <1>1, <1>2, <1>3, <1>4, JobStepType DEF NoTime, NoHistory, history, TypeOK
<1>6. Reading
  BY <1>1, <1>2, <1>3, Blank, OneReads DEF NoHistory, history, JobFrame, Held
<1> QED
  BY <1>1, <1>2, <1>5, <1>6, NoTimeTimely DEF Proper, NoTime

\* Create.
LEMMA CreateType ==
  ASSUME TypeInv, NEW t \in Tasks, NEW kind \in Kinds, Create(t, kind)
  PROVE  /\ TypeOK' /\ Moved /\ Creating(t) /\ task'[t].next = 1 /\ ~task'[t].approved
         /\ UNCHANGED <<passed, fresh, turn, activeRuns, origin, tick>>
         /\ occurrence' = [occurrence EXCEPT ![t] = 1]
<1> DEFINE row == [NoTaskRow EXCEPT !.status = "active", !.next = 1, !.once = kind.once, !.gated = kind.gated]
<1>1. TypeOK /\ JobsInv /\ FiringInv
  BY DEF TypeInv, JobsInv
<1>2. /\ task[t].status = "absent" /\ task' = [task EXCEPT ![t] = row]
      /\ occurrence' = [occurrence EXCEPT ![t] = 1] /\ armed' = TRUE
      /\ UNCHANGED <<run, turn, job, memory, ticking, crashes, origin>>
      /\ UNCHANGED <<passed, fresh, call, calls, grants, stale, lost, edited>>
  BY DEF Create, CallFrame
<1>3. row \in Task /\ row.status = "active" /\ row.next = 1 /\ ~row.approved
  <2>1. kind.once \in BOOLEAN /\ kind.gated \in BOOLEAN /\ 1 \in 0..Horizon
    BY LimitsAssumption, Blank
  <2>2. [NoTaskRow EXCEPT !.status = "active", !.next = 1] \in Task
    BY <2>1, Blank DEF Task, Statuses
  <2> QED
    BY <2>1, <2>2, Blank DEF Task, NoTaskRow
<1> HIDE DEF row
<1>4. /\ task' \in [Tasks -> Task] /\ task'[t] = row
      /\ \A u \in Tasks \ {t} : task'[u] = task[u]
  BY <1>1, <1>2, <1>3 DEF TypeOK
<1>5. occurrence' \in [Tasks -> 0..Horizon]
  BY <1>1, <1>2, Blank DEF TypeOK
<1>6. TypeOK'
  BY <1>1, <1>2, <1>4, <1>5 DEF TypeOK, memory, ticking
<1>7. Moved
  BY <1>1, <1>2, NoJobMoves DEF FiringInv, memory, ticking
<1> QED
  BY <1>2, <1>3, <1>4, <1>6, <1>7 DEF Creating, memory, ticking

\* A call reads its task.
LEMMA ReadsType ==
  ASSUME TypeInv, NEW c \in Callers, NEW t \in Tasks, NEW op \in Ops, NEW rec \in Task,
         NEW at \in 0..Horizon, Reads(c, t, op, rec, at), Request(op, rec, t),
         \/ rec.next \in {0, task[t].next}
         \/ rec.next = at /\ at \in {Computed(t), occurrence[t] + 1}
  PROVE  Proper /\ Reading
<1> DEFINE to == [task |-> t, op |-> op, rec |-> rec, at |-> at]
<1>1. TypeOK /\ JobsInv /\ FiringInv /\ TasksInv /\ StaleInv
  BY DEF TypeInv, JobsInv
<1>2. /\ call[c].task = NoTask /\ calls < MaxCalls
      /\ call' = [call EXCEPT ![c] = to] /\ calls' = calls + 1
      /\ UNCHANGED <<run, turn, job, memory, ticking, crashes, origin>>
      /\ UNCHANGED <<task, time, armed, grants, stale, lost, edited>>
  BY DEF Reads, CallFrame
<1>3. to \in Call
  BY DEF Call
<1>4. /\ call' \in [Callers -> Call] /\ call'[c] = to
      /\ \A x \in Callers \ {c} : call'[x] = call[x]
  BY <1>1, <1>2, <1>3 DEF TypeOK
<1>5. calls' \in 0..MaxCalls
  BY <1>1, <1>2, LimitsAssumption DEF TypeOK
<1>6. TypeOK'
  BY <1>1, <1>2, <1>4, <1>5 DEF TypeOK, memory, ticking, time
<1>7. Moved
  BY <1>1, <1>2, NoJobMoves DEF FiringInv, memory, ticking
<1>8. FreshCall(c) /\ c \notin stale'
  BY <1>1, <1>2, <1>4, IdsAssumption DEF FreshCall, StaleInv
<1>9. Reading
  BY <1>2, <1>4, <1>8 DEF Reading
<1> QED
  BY <1>1, <1>2, <1>6, <1>7, <1>9, NoTimeTimely DEF Proper, time

\* Pause, Resume, Cancel, Edit, Reschedule, Approve and Reject.
LEMMA CallStartsType ==
  ASSUME TypeInv, NEW c \in Callers, NEW t \in Tasks, CallStarts(c, t)
  PROVE  Proper /\ Reading
<1>1. TypeOK /\ TasksInv
  BY DEF TypeInv
<1>2. /\ Copy(t) \in Task /\ task[t] \in Task /\ Copy(t).status = task[t].status
      /\ Copy(t).next = task[t].next /\ Copy(t).pending = task[t].pending
      /\ ~Copy(t).approved /\ Copy(t).once = task[t].once /\ Copy(t).gated = task[t].gated
      /\ Computed(t) \in 0..Horizon /\ 0 \in 0..Horizon /\ occurrence[t] \in 0..Horizon
  BY <1>1, CopyType, ComputedType, Blank DEF TypeOK
<1>3. ASSUME Pause(c, t)
      PROVE  Proper /\ Reading
  <2> DEFINE rec == [Copy(t) EXCEPT !.status = "paused", !.next = 0, !.pending = FALSE]
  <2>1. task[t].status = "active" /\ Reads(c, t, "pause", rec, 0)
    BY <1>3 DEF Pause
  <2>2. rec \in Task /\ rec.status = "paused" /\ rec.next = 0 /\ rec.once = task[t].once
        /\ rec.gated = task[t].gated /\ ~rec.approved
    BY <1>2 DEF Task, Statuses
  <2> HIDE DEF rec
  <2>3. Request("pause", rec, t)
    BY <2>1, <2>2 DEF Request
  <2> QED
    BY <1>2, <2>1, <2>2, <2>3, ReadsType DEF Ops
<1>4. ASSUME Resume(c, t)
      PROVE  Proper /\ Reading
  <2> DEFINE rec == [Copy(t) EXCEPT !.status = "active", !.next = Computed(t), !.failures = 0,
                                    !.pending = FALSE]
  <2>1. task[t].status \in {"paused", "failed"} /\ Computed(t) # 0
        /\ Reads(c, t, "resume", rec, Computed(t))
    BY <1>4 DEF Resume
  <2>2. rec \in Task /\ rec.status = "active" /\ rec.next = Computed(t) /\ rec.once = task[t].once
        /\ rec.gated = task[t].gated /\ ~rec.approved
    BY <1>2 DEF Task, Statuses
  <2> HIDE DEF rec
  <2>3. Request("resume", rec, t)
    BY <2>1, <2>2 DEF Request
  <2> QED
    BY <1>2, <2>1, <2>2, <2>3, ReadsType DEF Ops
<1>5. ASSUME Cancel(c, t)
      PROVE  Proper /\ Reading
  <2> DEFINE rec == [Copy(t) EXCEPT !.status = "cancelled", !.next = 0, !.pending = FALSE]
  <2>1. task[t].status \in {"active", "paused", "failed"} /\ Reads(c, t, "cancel", rec, 0)
    BY <1>5 DEF Cancel
  <2>2. rec \in Task /\ rec.status = "cancelled" /\ rec.next = 0 /\ rec.once = task[t].once
        /\ rec.gated = task[t].gated /\ ~rec.approved
    BY <1>2 DEF Task, Statuses
  <2> HIDE DEF rec
  <2>3. Request("cancel", rec, t)
    BY <2>1, <2>2 DEF Request
  <2> QED
    BY <1>2, <2>1, <2>2, <2>3, ReadsType DEF Ops
<1>6. ASSUME NEW gated \in BOOLEAN, Edit(c, t, gated)
      PROVE  Proper /\ Reading
  <2> DEFINE pending == task[t].pending /\ gated \in {TRUE, task[t].gated}
             rec == [Copy(t) EXCEPT !.gated = gated, !.pending = pending]
  <2>1. task[t].status \in {"active", "paused", "failed"} /\ Reads(c, t, "edit", rec, 0)
    <3>1. [Copy(t) EXCEPT !.gated = gated, !.pending = @ /\ gated \in {TRUE, task[t].gated}] = rec
      BY <1>2 DEF Task
    <3> QED
      BY <1>6, <3>1 DEF Edit, Editable
  <2>2. pending \in BOOLEAN
    OBVIOUS
  <2>3. pending = task[t].pending \/ (~gated /\ task[t].gated)
    BY <1>2 DEF Task
  <2> HIDE DEF pending
  <2>4. rec \in Task /\ rec.status = task[t].status /\ rec.next = task[t].next /\ rec.once = task[t].once
        /\ rec.gated = gated /\ rec.pending = pending /\ ~rec.approved
    BY <1>2, <2>2 DEF Task
  <2> HIDE DEF rec
  <2>5. Request("edit", rec, t)
    BY <2>1, <2>3, <2>4 DEF Request
  <2> QED
    BY <1>2, <2>1, <2>4, <2>5, ReadsType DEF Ops
<1>7. ASSUME Reschedule(c, t)
      PROVE  Proper /\ Reading
  <2> DEFINE at == occurrence[t] + 1
             next == IF task[t].status = "active" THEN at ELSE 0
             rec == [Copy(t) EXCEPT !.next = next]
  <2>1. task[t].status \in {"active", "paused", "failed"} /\ at <= Horizon
        /\ Reads(c, t, "reschedule", rec, at)
    BY <1>7 DEF Reschedule, Editable
  <2>2. at \in 0..Horizon /\ at # 0 /\ next \in 0..Horizon
    BY <1>2, <2>1, Blank
  <2>3. (task[t].status = "active" <=> next # 0) /\ (next = 0 \/ next = at)
          /\ at = occurrence[t] + 1
    BY <2>2
  <2> HIDE DEF next, at
  <2>4. rec \in Task /\ rec.status = task[t].status /\ rec.next = next /\ rec.once = task[t].once
        /\ rec.gated = task[t].gated /\ rec.pending = task[t].pending /\ ~rec.approved
    BY <1>2, <2>2 DEF Task
  <2> HIDE DEF rec
  <2>5. Request("reschedule", rec, t)
    BY <2>1, <2>3, <2>4 DEF Request
  <2> QED
    BY <1>2, <2>1, <2>2, <2>3, <2>4, <2>5, ReadsType DEF Ops
<1>8. ASSUME Approve(c, t)
      PROVE  Proper /\ Reading
  <2> DEFINE rec == [Copy(t) EXCEPT !.pending = FALSE, !.approved = TRUE]
  <2>1. task[t].status = "active" /\ Reads(c, t, "approve", rec, 0)
    BY <1>8 DEF Approve
  <2>2. rec \in Task /\ rec.status = task[t].status /\ rec.next = task[t].next /\ rec.once = task[t].once
        /\ rec.gated = task[t].gated /\ rec.approved
    BY <1>2 DEF Task
  <2> HIDE DEF rec
  <2>3. Request("approve", rec, t)
    BY <2>1, <2>2 DEF Request
  <2> QED
    BY <1>2, <2>1, <2>2, <2>3, ReadsType DEF Ops
<1>9. ASSUME Reject(c, t)
      PROVE  Proper /\ Reading
  <2>1. task[t].status = "active"
    BY <1>9 DEF Reject
  <2>2. CASE task[t].once
    <3> DEFINE rec == [Copy(t) EXCEPT !.pending = FALSE, !.status = "cancelled", !.next = 0]
    <3>1. Reads(c, t, "reject", rec, 0)
      BY <1>9, <2>2 DEF Reject
    <3>2. rec \in Task /\ rec.status = "cancelled" /\ rec.next = 0 /\ rec.once = task[t].once
          /\ rec.gated = task[t].gated /\ ~rec.approved
      BY <1>2 DEF Task, Statuses
    <3> HIDE DEF rec
    <3>3. Request("reject", rec, t)
      BY <2>1, <3>2 DEF Request
    <3> QED
      BY <1>2, <3>1, <3>2, <3>3, ReadsType DEF Ops
  <2>3. CASE ~task[t].once
    <3> DEFINE rec == [Copy(t) EXCEPT !.pending = FALSE]
    <3>1. Reads(c, t, "reject", rec, 0)
      BY <1>9, <2>3 DEF Reject
    <3>2. rec \in Task /\ rec.status = task[t].status /\ rec.next = task[t].next /\ rec.once = task[t].once
          /\ rec.gated = task[t].gated /\ ~rec.approved
      BY <1>2 DEF Task
    <3> HIDE DEF rec
    <3>3. Request("reject", rec, t)
      BY <2>1, <2>3, <3>2 DEF Request
    <3> QED
      BY <1>2, <3>1, <3>2, <3>3, ReadsType DEF Ops
  <2> QED
    BY <2>2, <2>3
<1> QED
  BY <1>3, <1>4, <1>5, <1>6, <1>7, <1>8, <1>9 DEF CallStarts

\* CallSaves.
LEMMA CallSavesType ==
  ASSUME TypeInv, NEW c \in Callers, CallSaves(c)
  PROVE  Proper /\ Saving(c, call[c].task, call[c].rec)
<1> DEFINE t == call[c].task
           rec == call[c].rec
<1>1. TypeOK /\ JobsInv /\ FiringInv /\ TasksInv /\ RecsInv
  BY DEF TypeInv, JobsInv
<1>2. /\ t \in Tasks /\ task[t].status # "absent" /\ rec \in Task /\ call[c].at \in 0..Horizon
      /\ rec.status # "absent" /\ rec.once = task[t].once /\ c \notin Jobs
  BY <1>1, TaskExists, IdsAssumption DEF CallSaves, TypeOK, Call, RecsInv
<1>3. /\ Save(c, t, rec) /\ Advance(t, call[c].at)
      /\ fresh' = IF rec.approved THEN fresh \cup {t} ELSE fresh
      /\ grants' = [grants EXCEPT ![t] = IF rec.approved THEN @ + 1 ELSE @]
      /\ edited' \subseteq edited \cup {t}
      /\ call' = [call EXCEPT ![c] = NoCall]
      /\ UNCHANGED <<run, turn, job, memory, ticking, crashes, origin, calls>>
  BY DEF CallSaves, CallFrame
<1>4. armed' \in BOOLEAN
  BY Zenon DEF CallSaves
<1>5. /\ call' \in [Callers -> Call] /\ \A x \in Callers : call'[x] = IF x = c THEN NoCall ELSE call[x]
  BY <1>1, <1>3, Blank DEF TypeOK
<1>6. /\ task' \in [Tasks -> Task] /\ stale' \subseteq Jobs \cup Callers /\ lost' \subseteq Tasks
  BY <1>1, <1>2, <1>3, SaveType
<1>7. occurrence' \in [Tasks -> 0..Horizon] /\ passed' \subseteq passed /\ \A u \in Tasks : Timely(u)
  BY <1>1, <1>2, <1>3, AdvanceType, AdvanceTimely
<1>8. grants' \in [Tasks -> Nat] /\ fresh' \subseteq Tasks /\ edited' \subseteq Tasks
  BY <1>1, <1>2, <1>3 DEF TypeOK
<1>9. TypeOK'
  BY <1>1, <1>3, <1>4, <1>5, <1>6, <1>7, <1>8 DEF TypeOK, memory, ticking
<1>10. Moved
  BY <1>1, <1>3, NoJobMoves DEF FiringInv, memory, ticking
<1>11. Saving(c, t, rec)
  BY <1>2, <1>3, <1>5 DEF Saving
<1> QED
  BY <1>7, <1>9, <1>10, <1>11 DEF Proper

\* Crash.
LEMMA CrashType ==
  ASSUME TypeInv, Crash
  PROVE  Proper /\ Reading
<1>1. TypeOK /\ TasksInv /\ JobsInv
  BY DEF TypeInv
<1>2. /\ crashes < MaxCrashes /\ crashes' = crashes + 1
      /\ job' = [j \in Jobs |-> NoJob]
      /\ activeRuns' = {} /\ firingTasks' = {} /\ recoveringTasks' = {}
      /\ tick' = "idle" /\ listed' = {} /\ waiting' = {}
      /\ call' = [c \in Callers |-> NoCall]
      /\ armed' = TRUE /\ fresh' = {} /\ stale' = {}
      /\ UNCHANGED <<tables, occurrence, passed, calls, origin, grants, lost, edited>>
  BY DEF Crash
<1>3. PICK S \in SUBSET {r \in Runs : turn[r] = "live"} :
        turn' = [r \in Runs |-> IF turn[r] = "live" /\ r \notin S THEN "over" ELSE turn[r]]
  BY DEF Crash
<1>4. turn' \in [Runs -> Turns] /\ \A r \in Runs : turn'[r] = turn[r] \/ TurnEnds(r)
  BY <1>1, <1>3 DEF TypeOK, Turns, TurnEnds
<1>5. /\ job' \in [Jobs -> Job] /\ call' \in [Callers -> Call] /\ crashes' \in 0..MaxCrashes
      /\ \A j \in Jobs : job'[j] = NoJob
  BY <1>1, <1>2, Blank, LimitsAssumption DEF TypeOK
<1>6. TypeOK'
  BY <1>1, <1>2, <1>4, <1>5 DEF TypeOK, tables
<1>7. Moved
  <2>1. \A x \in Runs : ResetMove(x)
    BY <1>2, <1>4, <1>5, JobNames DEF ResetMove, tables
  <2>2. \A t \in Tasks : AskMove(t)
    BY <1>5, JobNames DEF AskMove
  <2>3. FiringMove
    BY <1>2, <1>5, Blank DEF FiringMove, TickJob
  <2> QED
    BY <1>2, <2>1, <2>2, <2>3 DEF Moved, RunMove
<1>8. Reading
  BY <1>2, <1>5, Blank DEF Reading, Held, tables
<1> QED
  BY <1>1, <1>2, <1>6, <1>7, <1>8, NoTimeTimely DEF Proper

-----------------------------------------------------------------------------
(* What a step does to the rows *)

\* No run is taken and no row opened; a row is closed for a task that is not
\* active alone.
Kept ==
  /\ origin' = origin
  /\ \A x \in Runs :
       /\ run'[x].task = run[x].task
       /\ \/ run'[x].state = run[x].state
          \/ /\ run[x].state # "none" /\ run'[x].state \in ClosedStates
             /\ task[run[x].task].status # "active"

\* Run id r is taken for t, by its marker or by its occurrence.
Starting(t, r) ==
  LET approved == RunsApproved(t)
  IN /\ t \in Tasks /\ r \in Unused
     /\ approved \/ (RunsOccurrence(t) /\ ~task[t].gated)
     /\ \A x \in Runs \ {r} : run'[x] = run[x] /\ origin'[x] = origin[x]
     /\ run'[r].task = t /\ run'[r].state = run[r].state
     /\ origin'[r].approved = approved
     /\ origin'[r].occurrence = IF approved THEN 0 ELSE task[t].next
     /\ ~Busy(t) /\ turn' = turn /\ tick = "firing" /\ tick' = tick
     /\ recoveringTasks' = recoveringTasks /\ activeRuns' = activeRuns \cup {r}
     /\ job'[Main(r)].stage = "starting"
     /\ job'[Main(r)].advanced = (approved \/ task[t].gated)
     /\ \A x \in Jobs \ {Main(r)} : job'[x] = job[x]

\* The row of r is opened, with the marker when an approval started it.
Opening(r) ==
  LET t == run[r].task
  IN /\ t \in Tasks /\ job[Main(r)].stage = "starting"
     /\ origin[r].approved => task[t].approved
     /\ task'[t].approved <=> task[t].approved /\ ~origin[r].approved
     /\ \A u \in Tasks \ {t} : task'[u] = task[u]
     /\ UNCHANGED <<origin, activeRuns, recoveringTasks>> /\ run'[r].state = "running"
     /\ \A x \in Runs : run'[x].task = run[x].task
     /\ \A x \in Runs \ {r} : run'[x] = run[x]
     /\ job'[Main(r)].stage = "turn" /\ job'[Main(r)].advanced = job[Main(r)].advanced
     /\ \A x \in Jobs \ {Main(r)} : job'[x] = job[x]

\* The row job j saves with its task: the result is stored, or the run is over.
RowSaved(j) ==
  /\ origin' = origin
  /\ \A x \in Runs : /\ run'[x].task = run[x].task
                     /\ j[1] = "ask" \/ x # j[2] => run'[x].state = run[x].state
  /\ j[1] # "ask" => IF job[j].stage = "storing" THEN run'[j[2]].state = "delivering"
                     ELSE run'[j[2]].state \in ClosedStates
  /\ job[j].stage \in {"storing", "sending"} => j[1] # "ask"
  /\ job[j].stage \in {"storing", "failed"} => Advance(TaskOf(j), job[j].rec.next)
  /\ job[j].stage = "asking" =>
       Advance(TaskOf(j), IF task[TaskOf(j)].once THEN 0 ELSE Computed(TaskOf(j)))

\* A step that touches no row.
LEMMA KeptSame ==
  ASSUME UNCHANGED <<run, origin>>
  PROVE  Kept
BY DEF Kept

\* A row that was opened is closed, its task not being active.
LEMMA KeptClose ==
  ASSUME TypeInv, NEW r \in Runs, turn[r] # "none", NEW state \in ClosedStates, Close(r, state),
         task[run[r].task].status # "active", origin' = origin
  PROVE  Kept
<1>1. TypeOK /\ run[r].state # "none"
  BY DEF TypeInv, JobsInv, RunsInv
<1> QED
  BY <1>1, CloseType DEF Kept

\* A failure closes the row of a task that is not active.
LEMMA KeptFails ==
  ASSUME TypeInv, NEW j \in Jobs, j[1] # "ask" => turn[j[2]] # "none", origin' = origin,
         NEW ends \in {"failed", "interrupted"}, RecordFailure(j, ends)
  PROVE  Kept
<1>1. CASE task[TaskOf(j)].status = "active" \/ j[1] = "ask"
  <2>1. UNCHANGED run
    BY <1>1 DEF RecordFailure
  <2> QED
    BY <2>1, KeptSame
<1>2. CASE task[TaskOf(j)].status # "active" /\ j[1] # "ask"
  <2>1. Close(j[2], ends) /\ j[2] \in Runs /\ TaskOf(j) = run[j[2]].task
    BY <1>2, JobNames DEF RecordFailure, TaskOf
  <2> QED
    BY <1>2, <2>1, KeptClose DEF ClosedStates
<1> QED
  BY <1>1, <1>2

\* The steps that touch no row.
LEMMA QuietKept ==
  ASSUME \/ TimePasses \/ TickStart \/ Crash \/ DueScan \/ TickEnd
         \/ \E v \in listed : VisitOwned(v) \/ VisitLive(v)
         \/ \E t \in Tasks : TakeNothing(t) \/ AskStarts(t)
         \/ \E r \in Runs : BackIsLate(r) \/ \E ok \in BOOLEAN : RecoveredEnds(r, ok)
         \/ \E j \in Jobs : Refresh(j)
         \/ \E c \in Callers, t \in Tasks : CallStarts(c, t)
  PROVE  Kept
<1>1. UNCHANGED <<run, origin>>
  <2>1. TimePasses \/ TickStart \/ Crash \/ DueScan \/ TickEnd => UNCHANGED <<run, origin>>
    BY DEF TimePasses, TickStart, Crash, DueScan, TickEnd, tables, history
  <2>2. (\E v \in listed : VisitOwned(v) \/ VisitLive(v)) => UNCHANGED <<run, origin>>
    BY DEF VisitOwned, VisitLive, Visits, history
  <2>3. (\E t \in Tasks : TakeNothing(t) \/ AskStarts(t)) => UNCHANGED <<run, origin>>
    BY DEF TakeNothing, AskStarts
  <2>4. (\E r \in Runs : BackIsLate(r) \/ \E ok \in BOOLEAN : RecoveredEnds(r, ok))
           => UNCHANGED <<run, origin>>
    BY DEF BackIsLate, RecoveredEnds, tables, NoHistory, history
  <2>5. (\E j \in Jobs : Refresh(j)) => UNCHANGED <<run, origin>>
    BY DEF Refresh, tables, NoHistory, history
  <2>6. (\E c \in Callers, t \in Tasks : CallStarts(c, t)) => UNCHANGED <<run, origin>>
    <3> SUFFICES ASSUME NEW c \in Callers, NEW t \in Tasks, CallStarts(c, t)
                 PROVE  UNCHANGED <<run, origin>>
      OBVIOUS
    <3>1. Pause(c, t) \/ Resume(c, t) => UNCHANGED <<run, origin>>
      BY DEF Pause, Resume, Reads, CallFrame
    <3>2. Cancel(c, t) \/ (\E gated \in BOOLEAN : Edit(c, t, gated)) => UNCHANGED <<run, origin>>
      BY DEF Cancel, Edit, Reads, CallFrame
    <3>3. Reschedule(c, t) => UNCHANGED <<run, origin>>
      BY DEF Reschedule, Reads, CallFrame
    <3>4. Approve(c, t) \/ Reject(c, t) => UNCHANGED <<run, origin>>
      BY DEF Approve, Reject, Reads, CallFrame
    <3> QED
      BY <3>1, <3>2, <3>3, <3>4 DEF CallStarts
  <2> QED
    BY <2>1, <2>2, <2>3, <2>4, <2>5, <2>6
<1> QED
  BY <1>1, KeptSame

\* A visited row is closed when its task is not active.
LEMMA VisitKept ==
  ASSUME TypeInv, NEW v \in listed, VisitStored(v) \/ VisitDead(v)
  PROVE  Kept
<1>1. /\ v.id \in Runs /\ turn[v.id] # "none" /\ origin' = origin
  BY DEF TypeInv, TypeOK, JobsInv, ListedInv, RunsInv, VisitStored, VisitDead, Visits, history
<1>2. CASE VisitStored(v)
  BY <1>1, <1>2, KeptClose, KeptSame DEF VisitStored, ClosedStates
<1>3. CASE VisitDead(v)
  BY <1>1, <1>3, KeptClose, KeptSame DEF VisitDead, ClosedStates
<1> QED
  BY <1>2, <1>3

\* A turn, a completion or a round is over.
LEMMA RunKept ==
  ASSUME TypeInv, NEW r \in Runs, NEW j \in {Main(r), Back(r)},
         TurnAnswers(r) \/ TurnFails(r) \/ BackAnswers(r) \/ BackFails(r) \/ Defer(j) \/ GiveUp(j)
  PROVE  Kept
<1>1. /\ j \in Jobs /\ Main(r) \in Jobs /\ Back(r) \in Jobs
      /\ j[2] = r /\ Main(r)[2] = r /\ Back(r)[2] = r
  BY JobNames
<1>2. /\ job[Main(r)].stage \in {"turn", "sending"} => turn[r] # "none"
      /\ job[Back(r)].stage # "none" => turn[r] # "none" /\ job[Back(r)] \in Job
      /\ run[r] \in Run
  BY <1>1 DEF TypeInv, TypeOK, JobsInv, MainInv, BackInv
<1>3. CASE TurnAnswers(r)
  BY <1>2, <1>3, KeptSame, KeptClose DEF TurnAnswers, NoHistory, history, ClosedStates
<1>4. CASE TurnFails(r)
  BY <1>1, <1>2, <1>4, KeptFails DEF TurnFails, NoHistory, history
<1>5. CASE BackAnswers(r)
  BY <1>2, <1>5, KeptSame, KeptClose DEF BackAnswers, NoHistory, history, ClosedStates
<1>6. CASE BackFails(r)
  BY <1>1, <1>2, <1>6, KeptFails DEF BackFails, NoHistory, history, Job
<1>7. CASE GiveUp(j)
  BY <1>1, <1>2, <1>7, KeptFails DEF GiveUp, NoHistory, history
<1>8. CASE Defer(j)
  <2>1. /\ run' = [run EXCEPT ![r] = [[run[r] EXCEPT !.rounds = job[j].rounds + 1] EXCEPT !.retry = TRUE]]
        /\ origin' = origin
    BY <1>1, <1>8 DEF Defer, NoHistory, history
  <2> DEFINE first == [run[r] EXCEPT !.rounds = job[j].rounds + 1]
             row == [first EXCEPT !.retry = TRUE]
  <2>2. row.state = run[r].state /\ row.task = run[r].task
    BY <1>2 DEF Run
  <2>3. run' = [run EXCEPT ![r] = row]
    BY <2>1
  <2> HIDE DEF row
  <2> QED
    BY <2>1, <2>2, <2>3 DEF Kept, TypeInv, TypeOK
<1> QED
  BY <1>3, <1>4, <1>5, <1>6, <1>7, <1>8

\* A request that failed.
LEMMA AskKept ==
  ASSUME TypeInv, NEW t \in Tasks, AskFails(t)
  PROVE  Kept
BY JobNames, KeptFails DEF AskFails

\* StartRun.
LEMMA StartRunRow ==
  ASSUME TypeInv, NEW t \in Tasks, StartRun(t)
  PROVE  \E r \in Unused : Starting(t, r)
<1> DEFINE approved == RunsApproved(t)
           to == [NoJob EXCEPT !.stage = "starting", !.advanced = approved \/ task[t].gated]
           first == [occurrence |-> IF approved THEN 0 ELSE task[t].next, approved |-> approved]
           new == CHOOSE x \in Unused : TRUE
<1>1. PICK r \in Unused : /\ run' = [run EXCEPT ![r].task = t]
                         /\ origin' = [origin EXCEPT ![r] = first]
                         /\ activeRuns' = activeRuns \cup {r}
                         /\ job' = [job EXCEPT ![Main(r)] = to]
  <2>1. new \in Unused
    BY DEF StartRun
  <2> QED
    BY <2>1 DEF StartRun
<1>2. /\ TypeOK /\ r \in Runs /\ run[r] \in Run /\ Main(r) \in Jobs
  BY JobNames DEF TypeInv, TypeOK, Unused
<1>3. to.stage = "starting" /\ to.advanced = (approved \/ task[t].gated)
  BY DEF NoJob
<1>4. first.approved = approved /\ first.occurrence = IF approved THEN 0 ELSE task[t].next
  OBVIOUS
<1> HIDE DEF to, first
<1>5. /\ job'[Main(r)] = to /\ \A x \in Jobs \ {Main(r)} : job'[x] = job[x]
      /\ origin'[r] = first /\ \A x \in Runs \ {r} : origin'[x] = origin[x]
  BY <1>1, <1>2 DEF TypeOK
<1>6. /\ run'[r].task = t /\ run'[r].state = run[r].state
      /\ \A x \in Runs \ {r} : run'[x] = run[x]
  BY <1>1, <1>2 DEF TypeOK, Run
<1>7. /\ turn' = turn /\ recoveringTasks' = recoveringTasks /\ tick = "firing" /\ tick' = tick
      /\ ~Busy(t) /\ (approved \/ (RunsOccurrence(t) /\ ~task[t].gated))
  BY DEF StartRun, Taken, Claim, TakeFrame
<1> QED
  BY <1>1, <1>3, <1>4, <1>5, <1>6, <1>7 DEF Starting

\* OpenRow.
LEMMA OpenRowRow ==
  ASSUME TypeInv, NEW r \in Runs, OpenRow(r)
  PROVE  IF origin[r].approved => task[run[r].task].approved THEN Opening(r) ELSE Kept
<1> DEFINE t == run[r].task
<1>1. job[Main(r)].stage = "starting" /\ origin' = origin
  BY DEF OpenRow, NoHistory, history
<1>2. t \in Tasks /\ run[r] \in Run /\ TypeOK /\ task[t] \in Task
  BY <1>1, JobOf, CopyType DEF TypeInv
<1>3. CASE origin[r].approved => task[t].approved
  <2> DEFINE marker == task[t].approved /\ ~origin[r].approved
  <2>1. /\ run' = [run EXCEPT ![r].state = "running"]
        /\ task' = [task EXCEPT ![t] = [@ EXCEPT !.approved = marker]]
        /\ job' = [job EXCEPT ![Main(r)] = [job[Main(r)] EXCEPT !.stage = "turn"]]
        /\ UNCHANGED <<activeRuns, recoveringTasks>>
    BY <1>3 DEF OpenRow, Goes
  <2> HIDE DEF marker
  <2>2. task'[t].approved = marker /\ \A u \in Tasks \ {t} : task'[u] = task[u]
    BY <1>2, <2>1 DEF TypeOK, Task
  <2>3. /\ run'[r].state = "running" /\ run'[r].task = run[r].task
        /\ \A x \in Runs \ {r} : run'[x] = run[x]
    BY <1>2, <2>1 DEF TypeOK, Run
  <2>4. /\ job'[Main(r)].stage = "turn" /\ job'[Main(r)].advanced = job[Main(r)].advanced
        /\ \A x \in Jobs \ {Main(r)} : job'[x] = job[x]
    BY <1>2, <2>1, JobNames DEF TypeOK, Job
  <2> QED
    BY <1>1, <1>2, <1>3, <2>1, <2>2, <2>3, <2>4 DEF Opening, marker
<1>4. CASE ~(origin[r].approved => task[t].approved)
  BY <1>1, <1>4, KeptSame DEF OpenRow, tables
<1> QED
  BY <1>3, <1>4

\* Asked, StoreResult, Delivered and FailSave.
LEMMA RowSavedType ==
  ASSUME TypeInv, NEW j \in Jobs,
         \/ \E t \in Tasks : j = Ask(t) /\ (Asked(t) \/ FailSave(j))
         \/ \E r \in Runs : /\ j \in {Main(r), Back(r)}
                            /\ StoreResult(j) \/ Delivered(j) \/ FailSave(j)
  PROVE  RowSaved(j)
<1>1. TypeOK
  BY DEF TypeInv
<1>2. ASSUME NEW t \in Tasks, j = Ask(t), Asked(t) \/ FailSave(j)
      PROVE  RowSaved(j)
  BY <1>2, JobNames, TasksOfJobs DEF Asked, FailSave, RowSaved
<1>3. ASSUME NEW r \in Runs, j \in {Main(r), Back(r)}, StoreResult(j) \/ Delivered(j) \/ FailSave(j)
      PROVE  RowSaved(j)
  <2>1. j[1] # "ask" /\ j[2] = r /\ run[r] \in Run /\ job[j] \in Job
    BY <1>1, <1>3, JobNames DEF TypeOK
  <2>2. CASE StoreResult(j)
    <3>1. /\ run' = [run EXCEPT ![r].state = "delivering"] /\ origin' = origin
          /\ job[j].stage = "storing" /\ Advance(TaskOf(j), job[j].rec.next)
      BY <2>1, <2>2 DEF StoreResult
    <3>2. /\ run'[r].state = "delivering" /\ run'[r].task = run[r].task
          /\ \A x \in Runs \ {r} : run'[x] = run[x]
      BY <1>1, <2>1, <3>1 DEF TypeOK, Run
    <3> QED
      BY <2>1, <3>1, <3>2 DEF RowSaved
  <2>3. CASE Delivered(j)
    BY <1>1, <2>1, <2>3, CloseType DEF Delivered, RowSaved, ClosedStates
  <2>4. CASE FailSave(j)
    BY <1>1, <2>1, <2>4, CloseType DEF FailSave, RowSaved, ClosedStates, Job
  <2> QED
    BY <1>3, <2>2, <2>3, <2>4
<1> QED
  BY <1>2, <1>3

-----------------------------------------------------------------------------
(* The type invariant *)

\* What a step does to the tasks: nothing, or one of four ways to write one.
TaskStep ==
  \/ /\ \A t \in Tasks : Timely(t)
     /\ \/ Reading /\ Kept
        \/ \E t \in Tasks, r \in Unused : Reading /\ Starting(t, r)
        \/ \E r \in Runs : Marking /\ Opening(r)
        \/ \E j \in Jobs, rec \in Task : JobSaves(j, rec) /\ RowSaved(j)
        \/ \E c \in Callers : CallSaves(c) /\ Saving(c, call[c].task, call[c].rec)
  \/ \E t \in Tasks : /\ Creating(t) /\ task'[t].next = 1 /\ ~task'[t].approved
                      /\ UNCHANGED <<passed, fresh, turn, activeRuns, origin, tick>>
                      /\ occurrence' = [occurrence EXCEPT ![t] = 1]

\* At the start there is nothing.
LEMMA InitTypeInv == Init => TypeInv
<1> SUFFICES ASSUME Init PROVE TypeInv
  OBVIOUS
<1>1. /\ \A r \in Runs : run[r] = NoRunRow /\ turn[r] = "none"
      /\ \A j \in Jobs : job[j] = NoJob
      /\ \A t \in Tasks : task[t] = NoTaskRow
      /\ \A c \in Callers : call[c] = NoCall
      /\ activeRuns = {} /\ listed = {} /\ firingTasks = {} /\ stale = {} /\ passed = {}
  BY DEF Init
<1>2. TypeOK
  <2>1. [occurrence |-> 0, approved |-> FALSE] \in Origin /\ 0 \in 0..Horizon
        /\ "none" \in Turns /\ 0 \in 0..MaxCalls /\ 0 \in 0..MaxCrashes
    BY Blank, LimitsAssumption DEF Origin, Turns
  <2>2. /\ run \in [Runs -> Run] /\ task \in [Tasks -> Task] /\ job \in [Jobs -> Job]
        /\ call \in [Callers -> Call] /\ turn \in [Runs -> Turns]
        /\ occurrence \in [Tasks -> 0..Horizon] /\ grants \in [Tasks -> Nat]
        /\ origin \in [Runs -> Origin]
    BY <2>1, Blank DEF Init
  <2> QED
    BY <2>1, <2>2 DEF Init, TypeOK
<1>3. JobsInv
  BY <1>1, Blank, JobNames DEF JobsInv, RunsInv, MainInv, BackInv, AskInv, ListedInv, FiringInv, TickJob
<1>4. TasksInv
  BY <1>1, Blank, JobNames, TasksAssumption DEF TasksInv
<1>5. RecsInv /\ StaleInv
  BY <1>1, Blank DEF RecsInv, StaleInv, Held
<1> QED
  BY <1>2, <1>3, <1>4, <1>5 DEF TypeInv

\* One case for each action.
LEMMA StepCases ==
  ASSUME TypeInv, Next
  PROVE  TypeOK' /\ Moved /\ TaskStep
<1> DEFINE Shown == TypeOK' /\ Moved /\ TaskStep
<1>1. Proper /\ Reading /\ Kept => Shown
  BY DEF Proper, TaskStep
<1>2. ASSUME NEW j \in Jobs, Proper, \E rec : JobSaves(j, rec), RowSaved(j)
      PROVE  Shown
  <2>1. \E rec \in Task : JobSaves(j, rec)
    BY <1>2 DEF JobSaves, Saving
  <2> QED
    BY <1>2, <2>1 DEF Proper, TaskStep
<1>3. ASSUME NEW r \in Runs, OpenRow(r)
      PROVE  Shown
  BY <1>3, OpenRowType, OpenRowRow DEF Proper, TaskStep
<1>4. ASSUME NEW t \in Tasks, StartRun(t)
      PROVE  Shown
  BY <1>4, StartRunType, StartRunRow DEF Proper, TaskStep
<1>5. ASSUME NEW c \in Callers, CallSaves(c)
      PROVE  Shown
  BY <1>5, CallSavesType DEF Proper, TaskStep
<1>6. ASSUME NEW t \in Tasks, NEW kind \in Kinds, Create(t, kind)
      PROVE  Shown
  BY <1>6, CreateType DEF TaskStep
<1> HIDE DEF Shown
<1>7. TimePasses \/ TickStart \/ Crash => Shown
  BY <1>1, TimePassesType, TickStartType, CrashType, QuietKept
<1>8. ASSUME TickSteps PROVE Shown
  <2>1. ASSUME NEW v \in listed, VisitOwned(v) \/ VisitStored(v) \/ VisitLive(v) \/ VisitDead(v)
        PROVE  Shown
    BY <1>1, <2>1, TickStepsType, VisitStoredType, VisitDeadType, QuietKept, VisitKept
  <2>2. DueScan \/ TickEnd => Shown
    BY <1>1, TickStepsType, QuietKept
  <2>3. ASSUME NEW t \in Tasks, TakeNothing(t) \/ AskStarts(t) \/ StartRun(t)
        PROVE  Shown
    BY <1>1, <1>4, <2>3, TickStepsType, AskStartsType, QuietKept
  <2> QED
    BY <1>8, <2>1, <2>2, <2>3 DEF TickSteps
<1>9. ASSUME NEW t \in Tasks, AskSteps(t)
      PROVE  Shown
  <2>1. CASE Asked(t)
    BY <1>2, <2>1, JobNames, AskedType, RowSavedType
  <2>2. CASE AskFails(t)
    BY <1>1, <2>2, AskFailsType, AskKept
  <2>3. CASE FailSave(Ask(t))
    BY <1>2, <2>3, JobNames, AskFailSaveType, RowSavedType
  <2> QED
    BY <1>9, <2>1, <2>2, <2>3 DEF AskSteps
<1>10. ASSUME NEW r \in Runs, NEW j \in {Main(r), Back(r)}, DeliverySteps(j)
       PROVE  Shown
  <2>1. j \in Jobs
    BY JobNames
  <2>2. CASE StoreResult(j)
    BY <1>2, <2>1, <2>2, StoreResultType, RowSavedType
  <2>3. CASE Delivered(j)
    BY <1>2, <2>1, <2>3, DeliveredType, RowSavedType
  <2>4. CASE FailSave(j)
    BY <1>2, <2>1, <2>4, FailSaveType, RowSavedType
  <2>5. CASE Refresh(j)
    BY <1>1, <2>1, <2>5, RefreshType, QuietKept
  <2>6. CASE Defer(j)
    BY <1>1, <2>6, DeferType, RunKept
  <2>7. CASE GiveUp(j)
    BY <1>1, <2>7, GiveUpType, RunKept
  <2> QED
    BY <1>10, <2>2, <2>3, <2>4, <2>5, <2>6, <2>7 DEF DeliverySteps
<1>11. ASSUME NEW r \in Runs, RunSteps(r)
       PROVE  Shown
  <2>1. CASE TurnAnswers(r)
    BY <1>1, <2>1, TurnAnswersType, RunKept
  <2>2. CASE TurnFails(r)
    BY <1>1, <2>2, TurnFailsType, RunKept
  <2> QED
    BY <1>3, <1>10, <1>11, <2>1, <2>2 DEF RunSteps
<1>12. ASSUME NEW r \in Runs, BackSteps(r)
       PROVE  Shown
  <2>1. CASE \E ok \in BOOLEAN : RecoveredEnds(r, ok)
    BY <1>1, <2>1, RecoveredEndsType, QuietKept
  <2>2. CASE BackIsLate(r)
    BY <1>1, <2>2, BackIsLateType, QuietKept
  <2>3. CASE BackAnswers(r)
    BY <1>1, <2>3, BackAnswersType, RunKept
  <2>4. CASE BackFails(r)
    BY <1>1, <2>4, BackFailsType, RunKept
  <2> QED
    BY <1>10, <1>12, <2>1, <2>2, <2>3, <2>4 DEF BackSteps
<1>13. ASSUME NEW t \in Tasks, NEW c \in Callers, CallStarts(c, t)
       PROVE  Shown
  BY <1>1, <1>13, CallStartsType, QuietKept
<1>14. JobSteps => Shown
  BY <1>5, <1>9, <1>11, <1>12 DEF JobSteps
<1>15. Shown
  BY <1>6, <1>7, <1>8, <1>13, <1>14 DEF Next
<1> QED
  BY <1>15 DEF Shown

\* Every step keeps the invariant.
LEMMA NextTypeInv ==
  ASSUME TypeInv, [Next]_vars
  PROVE  TypeInv' /\ Moved /\ TaskStep
<1>1. TypeOK /\ JobsInv /\ FiringInv
  BY DEF TypeInv, JobsInv
<1>2. CASE Next
  <2>1. TypeOK' /\ Moved /\ TaskStep
    BY <1>2, StepCases
  <2>2. JobsInv'
    BY <1>1, <2>1, MovedJobs
  <2>3. TasksInv' /\ RecsInv' /\ StaleInv'
    <3>1. CASE \E t \in Tasks : /\ Creating(t) /\ passed' = passed
                                /\ occurrence' = [occurrence EXCEPT ![t] = 1]
      BY <2>1, <3>1, CreatingType
    <3>2. CASE Reading /\ \A t \in Tasks : Timely(t)
      BY <2>1, <3>2, ReadingType
    <3>3. CASE Marking /\ \A t \in Tasks : Timely(t)
      BY <2>1, <3>3, MarkingType
    <3>4. CASE (\E w, t, rec : Saving(w, t, rec)) /\ \A t \in Tasks : Timely(t)
      BY <2>1, <3>4, SavingType
    <3> QED
      BY <2>1, <3>1, <3>2, <3>3, <3>4 DEF TaskStep, JobSaves
  <2> QED
    BY <2>1, <2>2, <2>3 DEF TypeInv
<1>3. CASE UNCHANGED vars
  <2>1. Moved /\ Reading
    BY <1>1, <1>3, NoJobMoves, NobodyReads DEF FiringInv, vars, tables, memory, ticking, history
  <2>2. TypeInv'
    <3> USE <1>3 DEF vars, tables, time, memory, ticking, history
    <3>1. TypeOK' /\ \A t \in Tasks : Timely(t)
      BY <1>1, NoTimeTimely DEF TypeOK, TypeInv
    <3>2. JobsInv'
      BY <1>1, <2>1, <3>1, MovedJobs
    <3>3. TasksInv' /\ RecsInv' /\ StaleInv'
      BY <2>1, <3>1, ReadingType
    <3> QED
      BY <3>1, <3>2, <3>3 DEF TypeInv
  <2>3. Kept /\ \A t \in Tasks : Timely(t)
    BY <1>3, KeptSame, NoTimeTimely DEF TypeInv, vars, tables, history, time
  <2> QED
    BY <2>1, <2>2, <2>3 DEF TaskStep
<1> QED
  BY <1>2, <1>3

\* The type invariant is inductive.
LEMMA TypeInvHolds == Spec => []TypeInv
<1>1. Init => TypeInv
  BY InitTypeInv
<1>2. TypeInv /\ [Next]_vars => TypeInv'
  BY NextTypeInv
<1> QED
  BY <1>1, <1>2, PTL DEF Spec

\* The tables, the memory of the instance and the functions under way keep their
\* shapes, whatever the tick, the turns and the calls of the tools do.
THEOREM TypesHold == Spec => []TypeOK
<1>1. TypeInv => TypeOK
  BY DEF TypeInv
<1> QED
  BY <1>1, TypeInvHolds, PTL

-----------------------------------------------------------------------------
(* A stopped task stays stopped *)

\* A copy nobody has overtaken is the task as it is, but for what its writer
\* is about to change.
JobCopy ==
  \A j \in Jobs \ stale : job[j].stage \in Held =>
    LET t == TaskOf(j)
        rec == job[j].rec
    IN /\ task[t].status = "active" /\ rec.gated = task[t].gated
       /\ job[j].stage = "asking" =>
            rec.status = "active" /\ rec.next = task[t].next /\ rec.pending = task[t].pending
       /\ job[j].stage = "storing" => rec.status = "active" /\ rec.pending = task[t].pending
       /\ job[j].stage = "failed" =>
            \/ rec.status = "failed" /\ rec.next = 0
            \/ rec.status = "active" /\ rec.next # 0 /\ ~task[t].once

CallCopy ==
  \A c \in Callers \ stale : call[c].task # NoTask =>
    Request(call[c].op, call[c].rec, call[c].task)

CopyInv == JobCopy /\ CallCopy

\* Whoever holds a copy of a task that was saved has been overtaken.
LEMMA Overtaken ==
  ASSUME TypeInv, Moved, NEW w, NEW t, NEW rec, Saving(w, t, rec)
  PROVE  /\ \A j \in Jobs \ stale' : job'[j].stage \in Held =>
              /\ j \notin stale /\ job'[j] = job[j] /\ job[j].stage \in Held
              /\ TaskOf(j)' = TaskOf(j) /\ TaskOf(j) \in Tasks \ {t}
         /\ \A c \in Callers \ stale' : call'[c].task # NoTask =>
              /\ c \notin stale /\ call'[c] = call[c] /\ call[c].task \in Tasks \ {t}
         /\ \A u \in Tasks \ {t} : task'[u] = task[u]
         /\ w \notin stale' /\ w \in Jobs \cup Callers
<1>1. TypeOK /\ JobsInv
  BY DEF TypeInv
<1>2. stale' = (stale \cup Holding(t)) \ {w} /\ \A u \in Tasks \ {t} : task'[u] = task[u]
  BY <1>1, SaveType DEF Saving
<1>3. ASSUME NEW j \in Jobs \ stale', job'[j].stage \in Held
      PROVE  /\ j \notin stale /\ job'[j] = job[j] /\ job[j].stage \in Held
             /\ TaskOf(j)' = TaskOf(j) /\ TaskOf(j) \in Tasks \ {t}
  <2>1. j # w /\ job'[j] = job[j] /\ job[j].stage \in Held /\ j \notin stale \cup Holding(t)
    BY <1>2, <1>3 DEF Saving
  <2>2. TaskOf(j)' = TaskOf(j) /\ TaskOf(j) \in Tasks
    BY <1>1, <2>1, TaskOfStays DEF Held
  <2> QED
    BY <2>1, <2>2 DEF Holding, Held
<1>4. ASSUME NEW c \in Callers \ stale', call'[c].task # NoTask
      PROVE  c \notin stale /\ call'[c] = call[c] /\ call[c].task \in Tasks \ {t}
  <2>1. c # w /\ call'[c] = call[c]
    BY <1>4, Blank DEF Saving
  <2> QED
    BY <1>1, <1>2, <1>4, <2>1 DEF Holding, TypeOK, Call
<1> QED
  BY <1>2, <1>3, <1>4 DEF Saving

\* The opening of a row changes the marker of an approval alone.
LEMMA Marked ==
  ASSUME TypeOK, Marking, NEW t \in Tasks
  PROVE  /\ task'[t].status = task[t].status /\ task'[t].next = task[t].next
         /\ task'[t].pending = task[t].pending /\ task'[t].once = task[t].once
         /\ task'[t].gated = task[t].gated
<1>1. task[t] \in Task
  BY DEF TypeOK
<1>2. CASE task'[t] = task[t]
  BY <1>2
<1>3. CASE \E b \in BOOLEAN : task'[t] = [task[t] EXCEPT !.approved = b]
  BY <1>1, <1>3 DEF Task
<1> QED
  BY <1>2, <1>3 DEF Marking

\* The jobs that do not move keep their copies, those that read have fresh ones.
LEMMA NextCopy ==
  ASSUME TypeInv, CopyInv, [Next]_vars
  PROVE  CopyInv'
<1>1. TypeOK /\ JobsInv /\ TasksInv /\ Moved /\ TaskStep
  BY NextTypeInv DEF TypeInv
<1>2. CASE Reading
  <2>1. ASSUME NEW j \in Jobs \ stale', job'[j].stage \in Held
        PROVE  LET t == TaskOf(j)'
                   rec == job'[j].rec
               IN /\ task'[t].status = "active" /\ rec.gated = task'[t].gated
                  /\ job'[j].stage = "asking" =>
                       rec.status = "active" /\ rec.next = task'[t].next /\ rec.pending = task'[t].pending
                  /\ job'[j].stage = "storing" => rec.status = "active" /\ rec.pending = task'[t].pending
                  /\ job'[j].stage = "failed" =>
                       \/ rec.status = "failed" /\ rec.next = 0
                       \/ rec.status = "active" /\ rec.next # 0 /\ ~task'[t].once
    <3>1. CASE job'[j] = job[j] /\ j \notin stale
      <4>1. TaskOf(j)' = TaskOf(j)
        BY <1>1, <2>1, <3>1, TaskOfStays DEF Held
      <4> QED
        BY <1>2, <2>1, <3>1, <4>1 DEF Reading, CopyInv, JobCopy
    <3>2. CASE Fresh(j)
      <4>1. TaskOf(j)' = TaskOf(j)
        BY <1>1, <3>2, TaskOfStays DEF Fresh
      <4> QED
        BY <1>1, <1>2, <2>1, <3>2, <4>1, FreshRec DEF Reading
    <3> QED
      BY <1>2, <2>1, <3>1, <3>2 DEF Reading
  <2>2. ASSUME NEW c \in Callers \ stale', call'[c].task # NoTask
        PROVE  Request(call[c].op, call[c].rec, call[c].task)'
    <3>1. CASE call'[c] = call[c] /\ c \notin stale
      BY <1>2, <2>2, <3>1 DEF Reading, CopyInv, CallCopy, Request
    <3>2. CASE FreshCall(c)
      BY <1>2, <3>2 DEF Reading, FreshCall, Request
    <3> QED
      BY <1>2, <2>2, <3>1, <3>2, Blank DEF Reading
  <2> QED
    BY <2>1, <2>2 DEF CopyInv, JobCopy, CallCopy
<1>3. CASE Marking
  <2>1. ASSUME NEW t \in Tasks
        PROVE  /\ task'[t].status = task[t].status /\ task'[t].next = task[t].next
               /\ task'[t].pending = task[t].pending /\ task'[t].once = task[t].once
               /\ task'[t].gated = task[t].gated
    BY <1>1, <1>3, <2>1, Marked
  <2>2. JobCopy'
    <3>1. \A j \in Jobs \ stale' : job'[j].stage \in Held =>
            /\ j \notin stale /\ job'[j] = job[j] /\ TaskOf(j)' = TaskOf(j) /\ TaskOf(j) \in Tasks
      BY <1>1, <1>3, TaskOfStays DEF Marking, Held
    <3> QED
      BY <2>1, <3>1 DEF CopyInv, JobCopy
  <2>3. CallCopy'
    <3>1. \A c \in Callers : call'[c] = call[c] /\ (call[c].task # NoTask => call[c].task \in Tasks)
      BY <1>1, <1>3 DEF Marking, TypeOK, Call
    <3> QED
      BY <1>3, <2>1, <3>1 DEF CopyInv, CallCopy, Request, Marking
  <2> QED
    BY <2>2, <2>3 DEF CopyInv
<1>4. CASE \E w, t, rec : Saving(w, t, rec)
  <2>1. PICK w, t, rec : Saving(w, t, rec)
    BY <1>4
  <2>2. JobCopy'
    BY <1>1, <2>1, Overtaken DEF CopyInv, JobCopy
  <2>3. CallCopy'
    BY <1>1, <2>1, Overtaken DEF CopyInv, CallCopy, Request
  <2> QED
    BY <2>2, <2>3 DEF CopyInv
<1>5. CASE \E t \in Tasks : Creating(t)
  <2>1. PICK t \in Tasks : Creating(t)
    BY <1>5
  <2>2. JobCopy'
    <3>1. \A j \in Jobs : job[j].stage \in Held => TaskOf(j) \in Tasks \ {t} /\ TaskOf(j)' = TaskOf(j)
      BY <1>1, <2>1, TaskExists, TaskOfStays DEF Held, Creating
    <3> QED
      BY <2>1, <3>1 DEF Creating, CopyInv, JobCopy
  <2>3. CallCopy'
    <3>1. \A c \in Callers : call[c].task # NoTask => call[c].task \in Tasks \ {t}
      BY <1>1, <2>1, TaskExists DEF Creating
    <3> QED
      BY <2>1, <3>1 DEF Creating, CopyInv, CallCopy, Request
  <2> QED
    BY <2>2, <2>3 DEF CopyInv
<1> QED
  BY <1>1, <1>2, <1>3, <1>4, <1>5 DEF TaskStep, JobSaves

\* The types and the copies, together.
LEMMA CopyInvHolds == Spec => [](TypeInv /\ CopyInv)
<1>1. Init => CopyInv
  BY Blank DEF Init, CopyInv, JobCopy, CallCopy, Held
<1>2. TypeInv /\ CopyInv /\ [Next]_vars => (TypeInv /\ CopyInv)'
  BY NextTypeInv, NextCopy
<1> QED
  BY <1>1, <1>2, InitTypeInv, PTL DEF Spec

\* A task that was paused, cancelled, completed or failed becomes active again
\* only by the save of a resume, or by a writer that was overtaken between its
\* read of the row and its save.
THEOREM StopsStand == Spec => StopStands
<1> DEFINE Stands == \A t \in Tasks :
             task[t].status \in Stopped /\ task'[t].status = "active" =>
               \/ \E c \in Callers : call[c].task = t /\ call[c].op = "resume" /\ call' # call
               \/ stale \ stale' # {}
<1>1. ASSUME TypeInv, CopyInv, [Next]_vars PROVE Stands
  <2> SUFFICES ASSUME NEW t \in Tasks, task[t].status \in Stopped, task'[t].status = "active"
               PROVE  \/ \E c \in Callers : call[c].task = t /\ call[c].op = "resume" /\ call' # call
                      \/ stale \ stale' # {}
    OBVIOUS
  <2>1. TypeOK /\ JobsInv /\ TasksInv /\ Moved /\ TaskStep
    BY <1>1, NextTypeInv DEF TypeInv
  <2>2. task[t].status \notin {"active", "absent"} /\ task'[t] # task[t]
    BY DEF Stopped
  <2>3. ~Reading
    BY <2>2 DEF Reading
  <2>4. ~Marking
    BY <2>1, <2>2, Marked
  <2>5. ~\E u \in Tasks : Creating(u)
    BY <2>2 DEF Creating
  <2>6. ASSUME NEW j \in Jobs, NEW rec \in Task, JobSaves(j, rec)
        PROVE  stale \ stale' # {}
    <3>1. Saving(j, TaskOf(j), rec) /\ TaskOf(j) = t /\ j \notin stale'
      BY <1>1, <2>1, <2>2, <2>6, Overtaken DEF JobSaves
    <3>2. rec.status = "active"
      BY <2>1, <3>1, SaveType DEF Saving
    <3>3. job[j].stage \in {"asking", "storing", "failed"}
      BY <2>2, <2>6, <3>1, <3>2 DEF JobSaves
    <3>4. j \in stale
      BY <1>1, <2>2, <3>1, <3>3 DEF CopyInv, JobCopy, Held
    <3> QED
      BY <3>1, <3>4
  <2>7. ASSUME NEW c \in Callers, Saving(c, call[c].task, call[c].rec)
        PROVE  \/ call[c].task = t /\ call[c].op = "resume" /\ call' # call
               \/ stale \ stale' # {}
    <3>1. call[c].task = t /\ c \notin stale'
      BY <1>1, <2>1, <2>2, <2>7, Overtaken
    <3>2. call[c].rec.status = "active" /\ call[c].task # NoTask
      BY <2>1, <2>7, <3>1, SaveType, TasksAssumption DEF Saving
    <3>3. call'[c].task = NoTask
      BY <2>7, Blank DEF Saving
    <3>4. CASE c \in stale
      BY <3>1, <3>4
    <3>5. CASE c \notin stale
      <4>1. Request(call[c].op, call[c].rec, t)
        BY <1>1, <3>1, <3>2, <3>5 DEF CopyInv, CallCopy
      <4> QED
        BY <2>2, <3>1, <3>2, <3>3, <4>1 DEF Request
    <3> QED
      BY <3>4, <3>5
  <2> QED
    BY <2>1, <2>3, <2>4, <2>5, <2>6, <2>7 DEF TaskStep
<1>2. TypeInv /\ CopyInv /\ [Next]_vars => Stands
  BY <1>1
<1> QED
  BY <1>2, CopyInvHolds, PTL DEF Spec, StopStands

-----------------------------------------------------------------------------
(* An approval runs once *)

\* The runs an approval of t has opened.
Approved(t) == {r \in Runs : /\ run[r].task = t /\ run[r].state # "none"
                             /\ origin[r].approved}

Marker(t) == IF task[t].approved THEN 1 ELSE 0

\* There are finitely many, and with the marker no more than were given.
ApprovedInv ==
  \A t \in Tasks : /\ IsFiniteSet(Approved(t))
                   /\ Cardinality(Approved(t)) + Marker(t) <= grants[t]

\* A step opens no row with an approval when what it closes was open.
LEMMA SameApproved ==
  ASSUME ApprovedInv, NEW t \in Tasks, grants[t] \in Nat, grants'[t] \in Nat, TypeOK,
         \A x \in Runs : x \in Approved(t) <=> /\ run'[x].task = t /\ run'[x].state # "none"
                                               /\ origin'[x].approved,
         \/ grants'[t] = grants[t] /\ (task'[t].approved => task[t].approved)
         \/ grants'[t] = grants[t] + 1
  PROVE  IsFiniteSet(Approved(t)') /\ Cardinality(Approved(t)') + Marker(t)' <= grants'[t]
<1>1. Approved(t)' = Approved(t)
  BY DEF Approved
<1>2. IsFiniteSet(Approved(t)) /\ Cardinality(Approved(t)) + Marker(t) <= grants[t]
  BY DEF ApprovedInv
<1>3. Cardinality(Approved(t)) \in Nat
  BY <1>2, FS_CardinalityType
<1> QED
  BY <1>1, <1>2, <1>3 DEF Marker

\* An approved run that opens its row takes the marker.
LEMMA NextApproved ==
  ASSUME TypeInv, ApprovedInv, [Next]_vars
  PROVE  ApprovedInv'
<1>1. TypeOK /\ TypeOK' /\ JobsInv /\ RunsInv /\ MainInv /\ BackInv /\ TasksInv /\ TaskStep
  BY NextTypeInv DEF TypeInv, JobsInv
<1> SUFFICES ASSUME NEW t \in Tasks
             PROVE  IsFiniteSet(Approved(t)') /\ Cardinality(Approved(t)') + Marker(t)' <= grants'[t]
  BY DEF ApprovedInv, Approved, Marker
<1>2. grants[t] \in Nat /\ grants'[t] \in Nat
  BY <1>1 DEF TypeOK
<1>3. CASE Reading /\ Kept
  <2>1. \A x \in Runs : x \in Approved(t) <=> /\ run'[x].task = t /\ run'[x].state # "none"
                                              /\ origin'[x].approved
    BY <1>3 DEF Kept, Approved, ClosedStates
  <2> QED
    BY <1>1, <1>2, <1>3, <2>1, SameApproved DEF Reading
<1>4. ASSUME NEW u \in Tasks, NEW r \in Unused, Reading, Starting(u, r)
      PROVE  IsFiniteSet(Approved(t)') /\ Cardinality(Approved(t)') + Marker(t)' <= grants'[t]
  <2>1. r \in Runs /\ run[r].state = "none" /\ run'[r].state = "none"
    BY <1>1, <1>4 DEF RunsInv, Unused, Starting
  <2>2. \A x \in Runs : x \in Approved(t) <=> /\ run'[x].task = t /\ run'[x].state # "none"
                                              /\ origin'[x].approved
    BY <1>4, <2>1 DEF Starting, Approved
  <2> QED
    BY <1>1, <1>2, <1>4, <2>2, SameApproved DEF Reading
<1>5. ASSUME NEW r \in Runs, Marking, Opening(r)
      PROVE  IsFiniteSet(Approved(t)') /\ Cardinality(Approved(t)') + Marker(t)' <= grants'[t]
  <2>1. run[r].state = "none" /\ grants'[t] = grants[t]
    BY <1>1, <1>5, JobNames DEF Opening, MainInv, RunsInv, Marking
  <2>2. CASE run[r].task = t /\ origin[r].approved
    <3>1. Approved(t)' = Approved(t) \cup {r} /\ r \notin Approved(t)
      BY <1>5, <2>1, <2>2 DEF Opening, Approved
    <3>2. IsFiniteSet(Approved(t)) /\ Cardinality(Approved(t)) + Marker(t) <= grants[t]
      BY DEF ApprovedInv
    <3>3. Cardinality(Approved(t)) \in Nat
      BY <3>2, FS_CardinalityType
    <3>4. IsFiniteSet(Approved(t)') /\ Cardinality(Approved(t)') = Cardinality(Approved(t)) + 1
      BY <3>1, <3>2, FS_AddElement
    <3>5. task[t].approved /\ ~task'[t].approved
      BY <1>5, <2>2 DEF Opening
    <3> QED
      BY <1>2, <2>1, <3>2, <3>3, <3>4, <3>5 DEF Marker
  <2>3. CASE ~(run[r].task = t /\ origin[r].approved)
    <3>1. \A x \in Runs : x \in Approved(t) <=> /\ run'[x].task = t /\ run'[x].state # "none"
                                                /\ origin'[x].approved
      BY <1>5, <2>1, <2>3 DEF Opening, Approved
    <3>2. task'[t].approved => task[t].approved
      BY <1>5 DEF Opening
    <3> QED
      BY <1>1, <1>2, <2>1, <3>1, <3>2, SameApproved
  <2> QED
    BY <2>2, <2>3
<1>6. ASSUME NEW j \in Jobs, NEW rec \in Task, JobSaves(j, rec), RowSaved(j)
      PROVE  IsFiniteSet(Approved(t)') /\ Cardinality(Approved(t)') + Marker(t)' <= grants'[t]
  <2>1. \A x \in Runs : x \in Approved(t) <=> /\ run'[x].task = t /\ run'[x].state # "none"
                                              /\ origin'[x].approved
    <3>1. j[1] # "ask" => run[j[2]].state # "none" /\ run'[j[2]].state # "none"
      <4>1. j[1] # "ask" => /\ j[2] \in Runs /\ (j = Main(j[2]) \/ j = Back(j[2]))
                            /\ turn[j[2]] = "over"
        BY <1>1, <1>6, JobNames DEF JobSaves, MainInv, BackInv
      <4> QED
        BY <1>1, <1>6, <4>1 DEF RowSaved, RunsInv, ClosedStates
    <3> QED
      BY <1>6, <3>1 DEF RowSaved, Approved
  <2>2. grants'[t] = grants[t] /\ (task'[t].approved => task[t].approved)
    <3>1. rec.approved => task[TaskOf(j)].approved
      BY <1>6, HeldRec DEF JobSaves, Held
    <3>2. Save(j, TaskOf(j), rec) /\ TaskOf(j) \in Tasks /\ grants' = grants
      BY <1>6 DEF JobSaves, Saving
    <3> QED
      BY <1>1, <3>1, <3>2, SaveType
  <2> QED
    BY <1>1, <1>2, <2>1, <2>2, SameApproved
<1>7. ASSUME NEW c \in Callers, CallSaves(c), Saving(c, call[c].task, call[c].rec)
      PROVE  IsFiniteSet(Approved(t)') /\ Cardinality(Approved(t)') + Marker(t)' <= grants'[t]
  <2>1. \A x \in Runs : x \in Approved(t) <=> /\ run'[x].task = t /\ run'[x].state # "none"
                                              /\ origin'[x].approved
    BY <1>7 DEF CallSaves, CallFrame, Approved
  <2>2. \/ grants'[t] = grants[t] /\ (task'[t].approved => task[t].approved)
        \/ grants'[t] = grants[t] + 1
    <3>1. grants' = [grants EXCEPT ![call[c].task] = IF call[c].rec.approved THEN @ + 1 ELSE @]
      BY <1>7 DEF CallSaves
    <3>2. CASE t = call[c].task
      BY <1>1, <1>7, <3>1, <3>2, SaveType DEF Saving, TypeOK
    <3>3. CASE t # call[c].task
      BY <1>1, <1>7, <3>1, <3>3, SaveType DEF Saving, TypeOK
    <3> QED
      BY <3>2, <3>3
  <2> QED
    BY <1>1, <1>2, <2>1, <2>2, SameApproved
<1>8. ASSUME NEW u \in Tasks, Creating(u), ~task'[u].approved, origin' = origin
      PROVE  IsFiniteSet(Approved(t)') /\ Cardinality(Approved(t)') + Marker(t)' <= grants'[t]
  <2>1. \A x \in Runs : x \in Approved(t) <=> /\ run'[x].task = t /\ run'[x].state # "none"
                                              /\ origin'[x].approved
    BY <1>8 DEF Creating, Approved
  <2> QED
    BY <1>1, <1>2, <1>8, <2>1, SameApproved DEF Creating
<1> QED
  BY <1>1, <1>3, <1>4, <1>5, <1>6, <1>7, <1>8 DEF TaskStep

\* The runs of a task an approval has opened, with the marker it holds, are never
\* more than the approvals given: an approval is executed at most once.
THEOREM ApprovalsRunOnce == Spec => []ApprovalRunsOnce
<1>1. Init => ApprovedInv
  <2> SUFFICES ASSUME Init, NEW t \in Tasks
               PROVE  IsFiniteSet(Approved(t)) /\ Cardinality(Approved(t)) + Marker(t) <= grants[t]
    BY DEF ApprovedInv
  <2>1. Approved(t) = {} /\ Marker(t) = 0 /\ grants[t] = 0
    BY Blank DEF Init, Approved, Marker
  <2> QED
    BY <2>1, FS_EmptySet
<1>2. TypeInv /\ ApprovedInv /\ [Next]_vars => ApprovedInv'
  BY NextApproved
<1>3. ApprovedInv => ApprovalRunsOnce
  BY DEF ApprovedInv, ApprovalRunsOnce, Approved, Marker
<1> QED
  BY <1>1, <1>2, <1>3, TypeInvHolds, PTL DEF Spec

-----------------------------------------------------------------------------
(* An active task has something to come *)

HasOpenRow(t) == \E r \in Runs : run[r].task = t /\ run[r].state \in OpenStates

\* Only a one-shot has no next run: its request, its approval or its run stands.
Going(t) ==
  \/ task[t].next # 0
  \/ /\ task[t].once
     /\ task[t].pending \/ task[t].approved \/ t \in edited \/ HasOpenRow(t)

\* A result that is not overtaken is stored with the next run of a task that
\* recurs.
GoingInv ==
  \A t \in Tasks \ lost :
    /\ task[t].status = "active" => Going(t)
    /\ \A j \in Jobs \ stale :
         TaskOf(j) = t /\ job[j].stage = "storing" /\ ~task[t].once => job[j].rec.next # 0

\* A task the step does not write keeps what it had, while its rows stay open.
LEMMA SameGoing ==
  ASSUME NEW t \in Tasks, Going(t), edited \subseteq edited',
         task'[t].next = task[t].next, task'[t].once = task[t].once,
         task'[t].pending = task[t].pending,
         task[t].approved => task'[t].approved \/ (task[t].once => HasOpenRow(t)'),
         \A r \in Runs : run[r].task = t /\ run[r].state \in OpenStates =>
                           run'[r].task = t /\ run'[r].state \in OpenStates
  PROVE  Going(t)'
<1>1. HasOpenRow(t) => HasOpenRow(t)'
  BY DEF HasOpenRow
<1> QED
  BY <1>1 DEF Going

\* The jobs that do not move keep their copies, those that read have fresh ones.
LEMMA ReadingGoing ==
  ASSUME TypeInv, TypeOK', Moved, GoingInv, Reading, Kept \/ \E u \in Tasks, r \in Unused : Starting(u, r)
  PROVE  GoingInv'
<1>1. TypeOK /\ JobsInv /\ TasksInv /\ task' = task /\ lost' = lost /\ edited' = edited
  BY DEF TypeInv, Reading
<1> SUFFICES ASSUME NEW t \in Tasks \ lost
             PROVE  /\ task[t].status = "active" => Going(t)'
                    /\ \A j \in Jobs \ stale' :
                         TaskOf(j)' = t /\ job'[j].stage = "storing" /\ ~task[t].once
                           => job'[j].rec.next # 0
  BY <1>1 DEF GoingInv
<1>2. task[t].status = "active" => Going(t)'
  <2> SUFFICES ASSUME task[t].status = "active" PROVE Going(t)'
    OBVIOUS
  <2>1. ASSUME NEW r \in Runs, run[r].task = t, run[r].state \in OpenStates
        PROVE  run'[r].task = t /\ run'[r].state \in OpenStates
    BY <2>1, TasksAssumption DEF Kept, Starting, Unused
  <2>2. Going(t)
    BY DEF GoingInv
  <2> QED
    BY <1>1, <2>1, <2>2, SameGoing
<1>3. ASSUME NEW j \in Jobs \ stale', TaskOf(j)' = t, job'[j].stage = "storing", ~task[t].once
      PROVE  job'[j].rec.next # 0
  <2>1. CASE job'[j] = job[j] /\ j \notin stale
    <3>1. TaskOf(j) = t
      BY <1>1, <1>3, <2>1, TaskOfStays
    <3> QED
      BY <1>3, <2>1, <3>1 DEF GoingInv
  <2>2. CASE Fresh(j)
    <3>1. TaskOf(j) = t /\ task[t].status = "active"
      BY <1>1, <1>3, <2>2, TaskOfStays DEF Fresh
    <3>2. job'[j].rec.next = Advanced(t, ByApproval(j))
      BY <1>1, <1>3, <2>2, <3>1, FreshRec
    <3>3. task[t].next # 0 /\ Computed(t) # 0
      BY <1>1, <1>3, <3>1, ComputedType DEF GoingInv, Going
    <3> QED
      BY <1>3, <3>2, <3>3 DEF Advanced
  <2> QED
    BY <1>3, <2>1, <2>2 DEF Reading, Held
<1> QED
  BY <1>2, <1>3

\* The marker of an approval is gone when the row it opens stands.
LEMMA OpeningGoing ==
  ASSUME TypeInv, Moved, GoingInv, Marking, NEW r \in Runs, Opening(r)
  PROVE  GoingInv'
<1>1. TypeOK /\ JobsInv /\ TasksInv /\ lost' = lost /\ edited' = edited /\ stale' = stale
  BY DEF TypeInv, Marking
<1> SUFFICES ASSUME NEW t \in Tasks \ lost
             PROVE  /\ task'[t].status = "active" => Going(t)'
                    /\ \A j \in Jobs \ stale :
                         TaskOf(j)' = t /\ job'[j].stage = "storing" /\ ~task'[t].once
                           => job'[j].rec.next # 0
  BY <1>1 DEF GoingInv
<1>2. /\ task'[t].status = task[t].status /\ task'[t].next = task[t].next
      /\ task'[t].pending = task[t].pending /\ task'[t].once = task[t].once
  BY <1>1, Marked
<1>3. task'[t].status = "active" => Going(t)'
  <2> SUFFICES ASSUME task'[t].status = "active" PROVE Going(t)'
    OBVIOUS
  <2>1. run[r].task = t => HasOpenRow(t)'
    BY DEF Opening, HasOpenRow, OpenStates
  <2>2. task[t].approved => task'[t].approved \/ HasOpenRow(t)'
    BY <2>1 DEF Opening
  <2>3. ASSUME NEW x \in Runs, run[x].task = t, run[x].state \in OpenStates
        PROVE  run'[x].task = t /\ run'[x].state \in OpenStates
    BY <2>3 DEF Opening, OpenStates
  <2>4. Going(t)
    BY <1>2 DEF GoingInv
  <2> QED
    BY <1>1, <1>2, <2>2, <2>3, <2>4, SameGoing
<1>4. ASSUME NEW j \in Jobs \ stale, TaskOf(j)' = t, job'[j].stage = "storing", ~task'[t].once
      PROVE  job'[j].rec.next # 0
  <2>1. job'[j] = job[j]
    BY <1>4 DEF Marking, Held
  <2>2. TaskOf(j) = t
    BY <1>1, <1>4, <2>1, TaskOfStays
  <2> QED
    BY <1>2, <1>4, <2>1, <2>2 DEF GoingInv
<1> QED
  BY <1>3, <1>4

\* A writer that was not overtaken leaves a task of which it knows what is to come.
LEMMA SavingGoing ==
  ASSUME TypeInv, Moved, GoingInv, NEW w, NEW t, NEW rec, Saving(w, t, rec), edited \subseteq edited',
         \A u \in Tasks \ {t}, r \in Runs :
           run[r].task = u /\ run[r].state \in OpenStates => run'[r].task = u /\ run'[r].state \in OpenStates,
         t \notin lost' /\ rec.status = "active" => Going(t)'
  PROVE  GoingInv'
<1>1. TypeOK /\ t \in Tasks /\ rec \in Task /\ w \in Jobs \cup Callers /\ Save(w, t, rec)
  BY DEF TypeInv, Saving
<1>2. /\ task'[t].status = rec.status /\ task'[t].once = rec.once /\ lost \subseteq lost'
      /\ lost' \subseteq lost \cup {t}
      /\ \A u \in Tasks \ {t} : task'[u] = task[u]
  BY <1>1, SaveType
<1> SUFFICES ASSUME NEW u \in Tasks \ lost'
             PROVE  /\ task'[u].status = "active" => Going(u)'
                    /\ \A j \in Jobs \ stale' :
                         TaskOf(j)' = u /\ job'[j].stage = "storing" /\ ~task'[u].once
                           => job'[j].rec.next # 0
  BY DEF GoingInv
<1>3. u \in Tasks \ lost
  BY <1>2
<1>4. task'[u].status = "active" => Going(u)'
  <2>1. CASE u = t
    BY <1>2, <2>1
  <2>2. CASE u # t
    <3>1. task'[u] = task[u] /\ u \in Tasks
      BY <1>2, <2>2
    <3>2. task[u].status = "active" => Going(u)
      BY <1>3 DEF GoingInv
    <3>3. \A r \in Runs : run[r].task = u /\ run[r].state \in OpenStates =>
                            run'[r].task = u /\ run'[r].state \in OpenStates
      BY <2>2
    <3> QED
      BY <3>1, <3>2, <3>3, SameGoing
  <2> QED
    BY <2>1, <2>2
<1>5. ASSUME NEW j \in Jobs \ stale', TaskOf(j)' = u, job'[j].stage = "storing", ~task'[u].once
      PROVE  job'[j].rec.next # 0
  <2>1. /\ j \notin stale /\ job'[j] = job[j] /\ TaskOf(j)' = TaskOf(j) /\ TaskOf(j) \in Tasks \ {t}
    BY <1>5, Overtaken DEF Held
  <2> QED
    BY <1>2, <1>3, <1>5, <2>1 DEF GoingInv
<1> QED
  BY <1>4, <1>5

\* A request, a result, a delivery or a failure is saved.
LEMMA JobGoing ==
  ASSUME TypeInv, CopyInv, GoingInv, Moved, NEW j \in Jobs, NEW rec \in Task, JobSaves(j, rec), RowSaved(j),
         NEW t, t = TaskOf(j)
  PROVE  GoingInv'
<1>1. /\ TypeOK /\ JobsInv /\ TasksInv /\ Saving(j, t, rec) /\ edited' = edited
      /\ t \in Tasks /\ task[t].status # "absent" /\ rec.once = task[t].once
  BY DEF TypeInv, JobSaves, Saving
<1>2. /\ task'[t].next = rec.next /\ task'[t].once = rec.once /\ task'[t].pending = rec.pending
      /\ lost' = IF j \in stale THEN lost \cup {t} ELSE lost
  BY <1>1, SaveType DEF Saving
<1>3. j[1] # "ask" => j[2] \in Runs /\ run[j[2]].task = t
  BY JobNames DEF TaskOf
<1>4. ASSUME NEW u \in Tasks \ {t}, NEW r \in Runs, run[r].task = u, run[r].state \in OpenStates
      PROVE  run'[r].task = u /\ run'[r].state \in OpenStates
  BY <1>3, <1>4 DEF RowSaved
<1>5. ASSUME t \notin lost', rec.status = "active"
      PROVE  Going(t)'
  <2>1. j \notin stale /\ t \notin lost
    BY <1>2, <1>5
  <2>2. CASE job[j].stage = "asking"
    <3>1. rec.pending /\ rec.next = IF task[t].once THEN 0 ELSE Computed(t)
      BY <2>2 DEF JobSaves
    <3>2. ~task[t].once => Computed(t) # 0
      BY <1>1, ComputedType
    <3> QED
      BY <1>1, <1>2, <3>1, <3>2 DEF Going
  <2>3. CASE job[j].stage = "storing"
    <3>1. rec = job[j].rec
      BY <2>3 DEF JobSaves
    <3>2. ~task[t].once => rec.next # 0
      BY <1>1, <2>1, <2>3, <3>1 DEF GoingInv
    <3>3. HasOpenRow(t)'
      BY <1>3, <2>3 DEF RowSaved, HasOpenRow, OpenStates
    <3> QED
      BY <1>1, <1>2, <3>2, <3>3 DEF Going
  <2>4. CASE job[j].stage = "failed"
    <3>1. rec = job[j].rec
      BY <2>4 DEF JobSaves
    <3>2. rec.next # 0
      BY <1>5, <2>1, <2>4, <3>1 DEF CopyInv, JobCopy, Held
    <3> QED
      BY <1>2, <3>2 DEF Going
  <2>5. CASE job[j].stage = "sending"
    <3>1. /\ rec.next = task[t].next
          /\ rec.status = IF task[t].once /\ task[t].status = "active"
                            THEN "completed" ELSE task[t].status
      BY <2>5 DEF JobSaves
    <3>2. ~task[t].once /\ task[t].status = "active"
      BY <1>5, <3>1
    <3>3. task[t].next # 0
      BY <1>1, <2>1, <3>2 DEF GoingInv, Going
    <3> QED
      BY <1>2, <3>1, <3>3 DEF Going
  <2> QED
    BY <2>2, <2>3, <2>4, <2>5 DEF JobSaves
<1> QED
  BY <1>1, <1>4, <1>5, SavingGoing

\* A call is saved.
LEMMA CallGoing ==
  ASSUME TypeInv, CopyInv, GoingInv, Moved, NEW c \in Callers, CallSaves(c),
         Saving(c, call[c].task, call[c].rec), NEW t, NEW rec, NEW op,
         t = call[c].task, rec = call[c].rec, op = call[c].op
  PROVE  GoingInv'
<1>1. /\ TypeOK /\ TasksInv /\ t \in Tasks /\ rec \in Task /\ rec.once = task[t].once
      /\ t # NoTask /\ run' = run /\ edited \subseteq edited'
  BY TasksAssumption DEF TypeInv, Saving, CallSaves, CallFrame
<1>2. /\ task'[t].next = rec.next /\ task'[t].once = rec.once /\ task'[t].pending = rec.pending
      /\ task'[t].approved <=> rec.status = "active" /\ (rec.approved \/ task[t].approved)
      /\ lost' = IF c \in stale THEN lost \cup {t} ELSE lost
  BY <1>1, SaveType DEF Saving
<1>3. ASSUME t \notin lost', rec.status = "active"
      PROVE  Going(t)'
  <2>1. c \notin stale /\ t \notin lost
    BY <1>2, <1>3
  <2>2. Request(op, rec, t)
    BY <1>1, <2>1 DEF CopyInv, CallCopy
  <2>3. CASE op \in {"resume", "reschedule"}
    BY <1>2, <1>3, <2>2, <2>3 DEF Request, Going
  <2>4. CASE op = "approve"
    <3>1. task'[t].approved /\ task[t].status = "active" /\ rec.next = task[t].next
      BY <1>2, <1>3, <2>2, <2>4 DEF Request
    <3>2. Going(t)
      BY <1>1, <2>1, <3>1 DEF GoingInv
    <3> QED
      BY <1>1, <1>2, <3>1, <3>2 DEF Going
  <2>5. CASE op = "reject"
    <3>1. task[t].status = "active" /\ rec.next = task[t].next /\ ~task[t].once
      BY <1>3, <2>2, <2>5 DEF Request
    <3>2. task[t].next # 0
      BY <1>1, <2>1, <3>1 DEF GoingInv, Going
    <3> QED
      BY <1>2, <3>1, <3>2 DEF Going
  <2>6. CASE op = "edit"
    <3>1. /\ task[t].status = "active" /\ rec.next = task[t].next
          /\ rec.pending = task[t].pending \/ (~rec.gated /\ task[t].gated)
      BY <1>3, <2>2, <2>6 DEF Request
    <3>2. Going(t)
      BY <1>1, <2>1, <3>1 DEF GoingInv
    <3>3. task[t].approved => task'[t].approved
      BY <1>2, <1>3
    <3>4. CASE rec.gated # task[t].gated
      <4>1. t \in edited'
        BY <2>6, <3>4 DEF CallSaves
      <4> QED
        BY <1>1, <1>2, <3>1, <3>2, <4>1 DEF Going
    <3>5. CASE rec.gated = task[t].gated
      <4>1. rec.pending = task[t].pending
        BY <3>1, <3>5
      <4> QED
        BY <1>1, <1>2, <3>1, <3>2, <3>3, <4>1, SameGoing
    <3> QED
      BY <3>4, <3>5
  <2> QED
    BY <1>3, <2>2, <2>3, <2>4, <2>5, <2>6 DEF Request
<1> QED
  BY <1>1, <1>3, SavingGoing

\* A task is created with its first occurrence.
LEMMA CreatingGoing ==
  ASSUME TypeInv, GoingInv, NEW t \in Tasks, Creating(t), task'[t].next = 1
  PROVE  GoingInv'
<1>1. TypeOK /\ JobsInv /\ TasksInv
  BY DEF TypeInv
<1>2. \A j \in Jobs : TaskOf(j)' = TaskOf(j)
  BY DEF Creating, TaskOf
<1>3. \A j \in Jobs : job[j].stage # "none" => TaskOf(j) # t
  BY <1>1, TaskExists DEF Creating
<1>4. Going(t)'
  BY DEF Going
<1>5. ASSUME NEW u \in Tasks \ {t}, task[u].status = "active", Going(u)
      PROVE  Going(u)'
  BY <1>5, SameGoing DEF Creating
<1> QED
  BY <1>2, <1>3, <1>4, <1>5 DEF GoingInv, Creating

\* Whatever the step.
LEMMA NextGoing ==
  ASSUME TypeInv, CopyInv, GoingInv, [Next]_vars
  PROVE  GoingInv'
<1>1. TypeOK /\ TypeOK' /\ Moved /\ TaskStep
  BY NextTypeInv DEF TypeInv
<1>2. CASE Reading /\ (Kept \/ \E t \in Tasks, r \in Unused : Starting(t, r))
  BY <1>1, <1>2, ReadingGoing
<1> QED
  BY <1>1, <1>2, OpeningGoing, JobGoing, CallGoing, CreatingGoing DEF TaskStep

\* An active task has something to come, whatever fails, is lost or is asked of
\* it in between: an occurrence, a request, an approval or a run that is not settled.
THEOREM ActiveTasksGoOn == Spec => []ActiveTasksAreGoing
<1>1. Init => GoingInv
  BY Blank DEF Init, GoingInv
<1>2. TypeInv /\ CopyInv /\ GoingInv /\ [Next]_vars => GoingInv'
  BY NextGoing
<1>3. GoingInv => ActiveTasksAreGoing
  BY DEF GoingInv, Going, HasOpenRow, ActiveTasksAreGoing
<1> QED
  BY <1>1, <1>2, <1>3, CopyInvHolds, PTL DEF Spec

-----------------------------------------------------------------------------
(* What the tick and the recovered turns know of the rows *)

\* Somebody answers for the row of x after the step.
Settled(x) == \/ x \in activeRuns \/ run'[x].state # "running"
              \/ job'[Main(x)].stage # "none" \/ run[x].task \in recoveringTasks'

\* The completion that forgets a recovering task closes the row, or found it settled.
Forgets(x) == /\ job[Back(x)].stage # "none" /\ run'[x].state # "running"
              /\ job[Back(x)].stage = "opening" => run[x].state = "running"

\* The tick lists every open row, goes from one to the next, and only then fires.
TickMove ==
  \/ tick' = "idle"
  \/ /\ tick = "idle" /\ tick' = "reconciling"
     /\ \A x \in Runs : run[x].state = "running" => \E v \in listed' : v.id = x
  \/ /\ tick = "reconciling" /\ listed = {} /\ tick' = "firing"
     /\ recoveringTasks' = recoveringTasks
  \/ /\ tick' = tick
     /\ \A v \in listed \ listed' : Settled(v.id)
     /\ \A t \in recoveringTasks \ recoveringTasks' : \E x \in Runs : run[x].task = t /\ Forgets(x)

\* Neither executeRun nor a delivery takes over a row that is running.
Ticks == TickMove /\ \A x \in activeRuns' : x \in activeRuns \/ run'[x].state # "running"

\* A step between the awaits of one function.
LEMMA SameTicks ==
  ASSUME UNCHANGED <<tick, listed, recoveringTasks>>,
         \A x \in activeRuns' : x \in activeRuns \/ run'[x].state # "running"
  PROVE  Ticks
BY DEF Ticks, TickMove

\* A function is over.
LEMMA EndTicks ==
  ASSUME TypeInv, NEW j \in Jobs, NEW wake, job[j].stage # "none", End(j, wake),
         UNCHANGED <<tick, listed>>, activeRuns' \subseteq activeRuns,
         \A x \in Runs : j = Back(x) => Forgets(x)
  PROVE  Ticks
<1>1. CASE job[j].by = "recovery"
  <2>1. PICK x \in Runs : j = Back(x)
    BY <1>1, JobNames DEF TypeInv, JobsInv, MainInv, AskInv
  <2>2. recoveringTasks' = recoveringTasks \ {run[x].task}
    BY <1>1, <2>1, TasksOfJobs DEF End
  <2> QED
    BY <2>1, <2>2 DEF Ticks, TickMove
<1>2. CASE job[j].by # "recovery"
  BY <1>2, SameTicks DEF End
<1> QED
  BY <1>1, <1>2

\* A function has failed.
LEMMA FailTicks ==
  ASSUME TypeInv, NEW j \in Jobs, NEW ends \in {"failed", "interrupted"}, job[j].stage # "none",
         RecordFailure(j, ends), UNCHANGED <<tick, listed>>, activeRuns' \subseteq activeRuns,
         \A x \in Runs : j = Back(x) /\ job[j].stage = "opening" => run[x].state = "running"
  PROVE  Ticks
<1>1. CASE task[TaskOf(j)].status = "active"
  BY <1>1, SameTicks DEF RecordFailure, Goes
<1>2. CASE task[TaskOf(j)].status # "active"
  <2>1. End(j, FALSE)
    BY <1>2 DEF RecordFailure
  <2>2. ASSUME NEW x \in Runs, j = Back(x)
        PROVE  Forgets(x)
    <3>1. Close(x, ends)
      BY <1>2, <2>2, JobNames DEF RecordFailure
    <3>2. run'[x].state = ends
      BY <3>1, CloseType DEF TypeInv, ClosedStates
    <3> QED
      BY <2>2, <3>2 DEF Forgets
  <2> QED
    BY <2>1, <2>2, EndTicks
<1> QED
  BY <1>1, <1>2

\* The steps of the alarm.
LEMMA AlarmTicks ==
  ASSUME TypeInv, \/ TimePasses \/ TickStart \/ TickSteps \/ Crash
  PROVE  Ticks
<1>1. TypeOK /\ ListedInv
  BY DEF TypeInv, JobsInv
<1>2. CASE TimePasses
  BY <1>2, SameTicks DEF TimePasses, ticking, memory
<1>3. CASE TickStart
  <2>1. ASSUME NEW x \in Runs, run[x].state = "running"
        PROVE  \E v \in listed' : v.id = x
    <3> DEFINE v == [id |-> x, state |-> run[x].state, rounds |-> run[x].rounds, retry |-> run[x].retry]
    <3>1. v \in listed' /\ v.id = x
      BY <1>3, <2>1 DEF TickStart, OpenStates
    <3> QED
      BY <3>1
  <2> QED
    BY <1>3, <2>1 DEF TickStart, Ticks, TickMove
<1>4. CASE Crash
  BY <1>4 DEF Crash, Ticks, TickMove
<1>5. CASE DueScan
  BY <1>5 DEF DueScan, Ticks, TickMove, memory
<1>6. CASE TickEnd
  BY <1>6 DEF TickEnd, Ticks, TickMove, memory
<1>7. ASSUME NEW v \in listed, VisitOwned(v) \/ VisitStored(v) \/ VisitLive(v) \/ VisitDead(v)
      PROVE  Ticks
  <2>1. /\ v.id \in Runs /\ tick' = tick /\ activeRuns' = activeRuns /\ listed \ listed' \subseteq {v}
        /\ v.state = "delivering" => run[v.id].state # "running"
    BY <1>1, <1>7 DEF TypeOK, ListedInv, VisitOwned, VisitStored, VisitLive, VisitDead, Visits
  <2>2. Main(v.id) \in Jobs
    BY <2>1, JobNames
  <2>3. CASE VisitOwned(v)
    BY <2>1, <2>3 DEF VisitOwned, Ticks, TickMove, Settled
  <2>4. CASE VisitStored(v)
    <3>1. CASE task[run[v.id].task].status = "cancelled"
      <4>1. run'[v.id].state = "failed"
        BY <1>1, <2>1, <2>4, <3>1, CloseType DEF VisitStored, ClosedStates
      <4> QED
        BY <2>1, <2>4, <4>1 DEF VisitStored, Ticks, TickMove, Settled
    <3>2. CASE task[run[v.id].task].status # "cancelled"
      BY <2>1, <2>4, <3>2 DEF VisitStored, Ticks, TickMove, Settled
    <3> QED
      BY <3>1, <3>2
  <2>5. CASE VisitLive(v)
    BY <2>1, <2>5 DEF VisitLive, Ticks, TickMove, Settled
  <2>6. CASE VisitDead(v)
    <3>1. CASE task[run[v.id].task].status = "active"
      <4> DEFINE to == [NoJob EXCEPT !.stage = "failed", !.rec = AfterFailure(run[v.id].task),
                                     !.ends = "interrupted", !.by = "reconcile"]
      <4>1. job' = [job EXCEPT ![Main(v.id)] = to]
        BY <2>6, <3>1 DEF VisitDead
      <4>2. to.stage = "failed"
        BY DEF NoJob
      <4> HIDE DEF to
      <4>3. job'[Main(v.id)].stage = "failed"
        BY <1>1, <2>2, <4>1, <4>2 DEF TypeOK
      <4> QED
        BY <2>1, <2>6, <4>3 DEF VisitDead, Ticks, TickMove, Settled
    <3>2. CASE task[run[v.id].task].status # "active"
      <4>1. run'[v.id].state = "interrupted"
        BY <1>1, <2>1, <2>6, <3>2, CloseType DEF VisitDead, ClosedStates
      <4> QED
        BY <2>1, <2>6, <4>1 DEF VisitDead, Ticks, TickMove, Settled
    <3> QED
      BY <3>1, <3>2
  <2> QED
    BY <1>7, <2>3, <2>4, <2>5, <2>6
<1>8. ASSUME NEW t \in Tasks, TakeNothing(t) \/ AskStarts(t)
      PROVE  Ticks
  BY <1>8, SameTicks DEF TakeNothing, AskStarts, TakeFrame
<1>9. ASSUME NEW t \in Tasks, StartRun(t)
      PROVE  Ticks
  <2>1. PICK r \in Unused : Starting(t, r)
    BY <1>9, StartRunRow
  <2>2. run'[r].state = "none"
    BY <2>1 DEF Starting, Unused, TypeInv, JobsInv, RunsInv
  <2>3. UNCHANGED <<tick, listed, recoveringTasks>>
    BY <1>9 DEF StartRun, TakeFrame
  <2> QED
    BY <2>1, <2>2, <2>3, SameTicks DEF Starting
<1> QED
  BY <1>2, <1>3, <1>4, <1>5, <1>6, <1>7, <1>8, <1>9 DEF TickSteps

\* The steps of the functions under way.
LEMMA JobTicks ==
  ASSUME TypeInv, JobSteps
  PROVE  Ticks
<1>1. TypeOK /\ MainInv /\ BackInv
  BY DEF TypeInv, JobsInv
<1>2. ASSUME NEW t \in Tasks, AskSteps(t)
      PROVE  Ticks
  <2>1. Ask(t) \in Jobs /\ Ask(t)[1] = "ask" /\ \A x \in Runs : Ask(t) # Back(x)
    BY JobNames, Distinct
  <2>2. CASE Asked(t)
    BY <2>1, <2>2, EndTicks DEF Asked, JobFrame, ticking
  <2>3. CASE AskFails(t)
    BY <2>1, <2>3, FailTicks DEF AskFails, JobFrame, ticking
  <2>4. CASE FailSave(Ask(t))
    BY <2>1, <2>4, EndTicks DEF FailSave, JobFrame, ticking
  <2> QED
    BY <1>2, <2>2, <2>3, <2>4 DEF AskSteps
<1>3. ASSUME NEW r \in Runs, NEW j \in {Main(r), Back(r)}, DeliverySteps(j)
      PROVE  Ticks
  <2>1. /\ j \in Jobs /\ j[1] # "ask" /\ j[2] = r /\ job[j] \in Job
        /\ \A x \in Runs : j = Back(x) => x = r
    BY <1>1, JobNames, Distinct DEF TypeOK
  <2>2. job[j].stage \in {"sending", "refreshing"} => run[r].state # "running"
    BY <1>1, <2>1 DEF MainInv, BackInv
  <2>3. CASE StoreResult(j)
    BY <2>3, SameTicks DEF StoreResult, Goes, JobFrame, ticking
  <2>4. CASE Refresh(j)
    BY <2>1, <2>2, <2>4, SameTicks DEF Refresh, Goes, JobFrame, ticking, tables
  <2>5. CASE Delivered(j)
    <3>1. run'[r].state = "delivered"
      BY <1>1, <2>1, <2>5, CloseType DEF Delivered, ClosedStates
    <3> QED
      BY <2>1, <2>5, <3>1, EndTicks DEF Delivered, JobFrame, ticking, Forgets
  <2>6. CASE FailSave(j)
    <3>1. run'[r].state \in ClosedStates
      BY <1>1, <2>1, <2>6, CloseType DEF FailSave, ClosedStates, Job
    <3> QED
      BY <2>1, <2>6, <3>1, EndTicks DEF FailSave, JobFrame, ticking, Forgets, ClosedStates
  <2>7. CASE Defer(j)
    <3>1. run'[r].state = run[r].state
      <4>1. run' = [run EXCEPT ![r] = [[run[r] EXCEPT !.rounds = job[j].rounds + 1] EXCEPT !.retry = TRUE]]
            /\ run[r] \in Run
        BY <1>1, <2>1, <2>7 DEF Defer, TypeOK
      <4> DEFINE first == [run[r] EXCEPT !.rounds = job[j].rounds + 1]
                 row == [first EXCEPT !.retry = TRUE]
      <4>2. row.state = run[r].state
        BY <4>1 DEF Run
      <4>3. run' = [run EXCEPT ![r] = row]
        BY <4>1
      <4> HIDE DEF row
      <4> QED
        BY <1>1, <4>2, <4>3 DEF TypeOK
    <3> QED
      BY <2>1, <2>2, <2>7, <3>1, EndTicks DEF Defer, JobFrame, ticking, Forgets
  <2>8. CASE GiveUp(j)
    BY <2>1, <2>8, FailTicks DEF GiveUp, JobFrame, ticking
  <2> QED
    BY <1>3, <2>3, <2>4, <2>5, <2>6, <2>7, <2>8 DEF DeliverySteps
<1>4. ASSUME NEW r \in Runs, RunSteps(r)
      PROVE  Ticks
  <2>1. Main(r) \in Jobs /\ \A x \in Runs : Main(r) # Back(x)
    BY JobNames, Distinct
  <2>2. CASE OpenRow(r)
    <3>1. job[Main(r)].stage = "starting" /\ UNCHANGED <<tick, listed>>
      BY <2>2 DEF OpenRow, JobFrame, ticking
    <3>2. CASE origin[r].approved => task[run[r].task].approved
      BY <2>2, <3>1, <3>2, SameTicks DEF OpenRow, Goes
    <3>3. CASE ~(origin[r].approved => task[run[r].task].approved)
      BY <2>1, <2>2, <3>1, <3>3, EndTicks DEF OpenRow
    <3> QED
      BY <3>2, <3>3
  <2>3. CASE TurnAnswers(r)
    <3>1. job[Main(r)].stage = "turn" /\ UNCHANGED <<tick, listed, activeRuns>>
      BY <2>3 DEF TurnAnswers, JobFrame, ticking
    <3>2. CASE task[run[r].task].status = "active"
      BY <2>3, <3>1, <3>2, SameTicks DEF TurnAnswers, Goes
    <3>3. CASE task[run[r].task].status # "active"
      BY <2>1, <2>3, <3>1, <3>3, EndTicks DEF TurnAnswers
    <3> QED
      BY <3>2, <3>3
  <2>4. CASE TurnFails(r)
    BY <2>1, <2>4, FailTicks DEF TurnFails, JobFrame, ticking
  <2> QED
    BY <1>3, <1>4, <2>2, <2>3, <2>4 DEF RunSteps
<1>5. ASSUME NEW r \in Runs, BackSteps(r)
      PROVE  Ticks
  <2>1. Back(r) \in Jobs /\ job[Back(r)] \in Job /\ \A x \in Runs : Back(r) = Back(x) => x = r
    BY <1>1, JobNames, Distinct DEF TypeOK
  <2>2. CASE (\E ok \in BOOLEAN : RecoveredEnds(r, ok)) \/ BackIsLate(r)
    BY <2>2, SameTicks DEF RecoveredEnds, BackIsLate, Goes, JobFrame, ticking
  <2>3. CASE BackAnswers(r)
    <3>1. /\ job[Back(r)].stage = "opening" /\ run[r].state = "running"
          /\ UNCHANGED <<tick, listed, activeRuns>>
      BY <2>3 DEF BackAnswers, JobFrame, ticking
    <3>2. CASE task[run[r].task].status = "active"
      BY <2>3, <3>1, <3>2, SameTicks DEF BackAnswers, Goes
    <3>3. CASE task[run[r].task].status # "active"
      <4>1. run'[r].state = "failed"
        BY <1>1, <2>3, <3>3, CloseType DEF BackAnswers, ClosedStates
      <4> QED
        BY <2>1, <2>3, <3>1, <3>3, <4>1, EndTicks DEF BackAnswers, Forgets
    <3> QED
      BY <3>2, <3>3
  <2>4. CASE BackFails(r)
    <3>1. job[Back(r)].ends \in {"failed", "interrupted"}
      BY <2>1 DEF Job
    <3> QED
      BY <2>1, <2>4, <3>1, FailTicks DEF BackFails, JobFrame, ticking
  <2> QED
    BY <1>3, <1>5, <2>2, <2>3, <2>4 DEF BackSteps
<1>6. ASSUME NEW c \in Callers, CallSaves(c)
      PROVE  Ticks
  BY <1>6, SameTicks DEF CallSaves, CallFrame, memory, ticking
<1> QED
  BY <1>2, <1>4, <1>5, <1>6 DEF JobSteps

\* Whatever the step.
LEMMA NextTicks ==
  ASSUME TypeInv, [Next]_vars
  PROVE  Ticks
<1>1. ASSUME NEW t \in Tasks, NEW kind \in Kinds, Create(t, kind)
      PROVE  Ticks
  BY <1>1, SameTicks DEF Create, CallFrame, memory, ticking
<1>2. ASSUME NEW t \in Tasks, NEW c \in Callers, CallStarts(c, t)
      PROVE  Ticks
  BY <1>2, SameTicks
     DEF CallStarts, Pause, Resume, Cancel, Edit, Reschedule, Approve, Reject, Reads, CallFrame, memory, ticking
<1>3. CASE UNCHANGED vars
  BY <1>3, SameTicks DEF vars, memory, ticking
<1> QED
  BY <1>1, <1>2, <1>3, AlarmTicks, JobTicks DEF Next

-----------------------------------------------------------------------------
(* Who owns a row *)

\* A task has one running row, and none while a run of it is being opened.
OneOpen ==
  \A r, q \in Runs : run[r].task = run[q].task /\ run[r].state = "running" =>
    /\ run[q].state = "running" => r = q
    /\ job[Main(q)].stage # "starting"

\* A running row is the alarm's, or a turn's that outlived a reset: then the
\* tick has yet to reach it, or knows its task as recovering, and no other
\* completion of the task goes on.
Owned ==
  \A r \in Runs : run[r].state = "running" =>
    /\ r \in activeRuns => job[Main(r)].stage # "none"
    /\ \/ job[Main(r)].stage # "none"
       \/ /\ \/ tick = "idle"
             \/ tick = "reconciling" /\ \E v \in listed : v.id = r
             \/ run[r].task \in recoveringTasks
          /\ \A x \in Runs \ {r} :
               run[x].task = run[r].task => job[Back(x)].stage \in {"none", "opening"}

OwnerInv == OneOpen /\ Owned

\* A row that runs after a step ran before it, or has just been opened.
LEMMA RunningRow ==
  ASSUME TypeInv, Moved, NEW r \in Runs, run'[r].state = "running"
  PROVE  /\ run'[r].task = run[r].task /\ run[r].task \in Tasks
         /\ \/ run[r].state = "running"
            \/ job[Main(r)].stage = "starting" /\ job'[Main(r)].stage = "turn"
<1>1. /\ RunMove(r) /\ run'[r].state \notin ClosedStates
      /\ run[r].task = NoTask => run[r].state = "none"
      /\ run[r].task \in Tasks \cup {NoTask}
  BY DEF Moved, TypeInv, TypeOK, JobsInv, RunsInv, ClosedStates, Run
<1>2. CASE Still(r)
  BY <1>1, <1>2 DEF Still, Keeps
<1>3. CASE StartMove(r)
  BY <1>1, <1>3 DEF StartMove, Keeps
<1>4. CASE ResetMove(r)
  BY <1>1, <1>4 DEF ResetMove
<1>5. CASE run'[r].task = run[r].task /\ run[r].task \in Tasks /\ MainMove(r)
  BY <1>1, <1>5 DEF MainMove, At, Keeps, Closes
<1>6. CASE run'[r].task = run[r].task /\ run[r].task \in Tasks /\ BackMove(r)
  BY <1>1, <1>6 DEF BackMove, Keeps, Closes
<1>7. CASE run'[r].task = run[r].task /\ run[r].task \in Tasks /\ VisitMove(r)
  BY <1>1, <1>7 DEF VisitMove, Keeps, Closes
<1> QED
  BY <1>1, <1>2, <1>3, <1>4, <1>5, <1>6, <1>7 DEF RunMove

\* The run id a step takes for a task.
LEMMA StartedRow ==
  ASSUME TypeInv, TaskStep, NEW r \in Runs, StartMove(r)
  PROVE  Starting(run'[r].task, r)
<1>1. run'[r].task # run[r].task
  BY TasksAssumption DEF StartMove
<1>2. ASSUME NEW t \in Tasks, NEW x \in Unused, Starting(t, x)
      PROVE  x = r /\ t = run'[r].task
  BY <1>1, <1>2 DEF Starting
<1>3. /\ ~Kept /\ \A x \in Runs : ~Opening(x)
      /\ \A j \in Jobs : ~RowSaved(j)
      /\ \A c \in Callers : ~CallSaves(c)
      /\ \A t \in Tasks : ~Creating(t)
  BY <1>1 DEF Kept, Opening, RowSaved, CallSaves, CallFrame, Creating
<1> QED
  BY <1>2, <1>3 DEF TaskStep

\* Nobody runs a task that is not busy, when the tick fires.
LEMMA FreeRows ==
  ASSUME TypeInv, OwnerInv, NEW t \in Tasks, ~Busy(t), tick = "firing",
         NEW q \in Runs, run[q].task = t
  PROVE  run[q].state # "running" /\ job[Main(q)].stage # "starting"
<1>1. Main(q) \in Jobs /\ TaskOf(Main(q)) = t
  BY JobNames, TasksOfJobs
<1>2. job[Main(q)].stage # "none" => job[Main(q)].by \in {"tick", "reconcile"}
  BY <1>1 DEF TypeInv, TypeOK, JobsInv, MainInv, Job
<1>3. job[Main(q)].stage = "none"
  BY <1>1, <1>2 DEF TypeInv, JobsInv, FiringInv, TickJob, Busy
<1> QED
  BY <1>1, <1>3 DEF OwnerInv, Owned, Busy

\* One row is opened at a time.
LEMMA NextOneOpen ==
  ASSUME TypeInv, OwnerInv, Moved, TaskStep
  PROVE  OneOpen'
<1> SUFFICES ASSUME NEW r \in Runs, NEW q \in Runs, run'[r].task = run'[q].task,
                    run'[r].state = "running"
             PROVE  /\ run'[q].state = "running" => r = q
                    /\ job'[Main(q)].stage # "starting"
  BY DEF OneOpen
<1>1. Main(r) \in Jobs /\ Main(q) \in Jobs /\ Main(r)[1] = "run" /\ Main(q)[1] = "run"
      /\ Main(r)[2] = r /\ Main(q)[2] = q
      /\ TaskOf(Main(r)) = run[r].task /\ TaskOf(Main(q)) = run[q].task
  BY JobNames, TasksOfJobs
<1>2. \A x \in {r, q} : job[Main(x)].stage = "starting" => TickJob(Main(x))
  <2>1. job[Main(r)] \in Job /\ job[Main(q)] \in Job
    BY <1>1 DEF TypeInv, TypeOK
  <2> QED
    BY <2>1 DEF TypeInv, JobsInv, MainInv, TickJob, Job
<1>3. \A x \in {r, q} : job[Main(x)].stage = "starting" /\ run[x].task = run[r].task
           /\ job[Main(r)].stage = "starting" => x = r
  BY <1>1, <1>2 DEF TypeInv, JobsInv, FiringInv
<1>4. run'[r].task = run[r].task /\ run[r].task \in Tasks
      /\ \/ run[r].state = "running"
         \/ job[Main(r)].stage = "starting" /\ job'[Main(r)].stage = "turn"
  BY RunningRow
<1>5. run'[q].state = "running" => r = q
  <2>1. run'[q].state = "running" =>
           /\ run'[q].task = run[q].task
           /\ run[q].state = "running" \/ job[Main(q)].stage = "starting"
    BY RunningRow
  <2> QED
    BY <1>3, <1>4, <2>1 DEF OwnerInv, OneOpen
<1>6. job'[Main(q)].stage # "starting"
  <2> SUFFICES ASSUME job'[Main(q)].stage = "starting" PROVE FALSE
    OBVIOUS
  <2>1. CASE StartMove(q)
    <3>1. PICK t \in Tasks : t = run[r].task /\ Starting(t, q)
      BY <1>4, <2>1, StartedRow
    <3>2. ~Busy(t) /\ tick = "firing"
      BY <3>1 DEF Starting
    <3> QED
      BY <1>4, <3>1, <3>2, FreeRows
  <2>2. CASE ~StartMove(q)
    <3>1. job[Main(q)].stage = "starting" /\ run'[q].task = run[q].task
      BY <2>2, Blank DEF Moved, RunMove, Still, SameMain, MainMove, At, VisitMove, ResetMove
    <3> QED
      BY <1>3, <1>4, <3>1 DEF OwnerInv, OneOpen
  <2> QED
    BY <2>1, <2>2
<1> QED
  BY <1>5, <1>6

\* The job of a row that still runs is not dropped, but by a reset.
LEMMA MainGoesOn ==
  ASSUME TypeInv, Moved, NEW r \in Runs, run[r].state = "running", run'[r].state = "running",
         job[Main(r)].stage # "none", job'[Main(r)].stage = "none"
  PROVE  /\ tick' = "idle" /\ activeRuns' = {}
         /\ \A q \in Runs : job'[Back(q)].stage = "none"
<1>1. RunMove(r) /\ run'[r].state \notin ClosedStates
  BY DEF Moved, ClosedStates
<1>2. /\ job[Main(r)].stage # "starting" /\ job[Main(r)].stage # "sending"
      /\ run[r].task # NoTask
  BY DEF TypeInv, JobsInv, RunsInv, MainInv
<1>3. ~Still(r) /\ ~StartMove(r)
  BY <1>2 DEF Still, SameMain, StartMove
<1>4. ~MainMove(r)
  BY <1>1, <1>2 DEF MainMove, At, Closes
<1>5. ~(BackMove(r) /\ SameMain(r)) /\ ~VisitMove(r)
  BY DEF SameMain, VisitMove
<1> QED
  BY <1>1, <1>3, <1>4, <1>5, Blank DEF RunMove, ResetMove

\* Another completion goes past its reading of the row only when that row runs.
LEMMA BackWaits ==
  ASSUME TypeInv, Moved, NEW x \in Runs, job[Back(x)].stage \in {"none", "opening"},
         run[x].state # "running"
  PROVE  job'[Back(x)].stage \in {"none", "opening"}
<1>1. RunMove(x)
  BY DEF Moved
<1>2. CASE BackMove(x)
  BY <1>2 DEF BackMove, At
<1>3. CASE ~BackMove(x)
  BY <1>1, <1>3, Blank DEF RunMove, Still, StartMove, SameBack, VisitMove, ResetMove
<1> QED
  BY <1>2, <1>3

\* A row the tick has yet to reach stays so, until it is settled or recovering.
LEMMA StillOwned ==
  ASSUME TypeInv, OwnerInv, Moved, Ticks, NEW r \in Runs, run[r].state = "running",
         run'[r].state = "running", job[Main(r)].stage = "none", job'[Main(r)].stage = "none"
  PROVE  \/ tick' = "idle"
         \/ tick' = "reconciling" /\ \E v \in listed' : v.id = r
         \/ run[r].task \in recoveringTasks'
<1>1. /\ r \notin activeRuns
      /\ \/ tick = "idle"
         \/ tick = "reconciling" /\ \E v \in listed : v.id = r
         \/ run[r].task \in recoveringTasks
      /\ \A x \in Runs \ {r} : run[x].task = run[r].task => job[Back(x)].stage \in {"none", "opening"}
  BY DEF OwnerInv, Owned
<1>2. ASSUME NEW x \in Runs, run[x].task = run[r].task, Forgets(x)
      PROVE  FALSE
  <2>1. x # r
    BY <1>2 DEF Forgets
  <2>2. run[x].state = "running"
    BY <1>1, <1>2, <2>1 DEF Forgets
  <2> QED
    BY <1>2, <2>1, <2>2 DEF OwnerInv, OneOpen
<1>3. run[r].task \in recoveringTasks /\ tick' = tick /\
        (\A t \in recoveringTasks \ recoveringTasks' : \E x \in Runs : run[x].task = t /\ Forgets(x))
          => run[r].task \in recoveringTasks'
  BY <1>2
<1>4. \A v \in listed : v.id = r /\ Settled(v.id) => run[r].task \in recoveringTasks'
  BY <1>1 DEF Settled
<1> QED
  BY <1>1, <1>3, <1>4 DEF Ticks, TickMove

\* Every running row has its owner.
LEMMA NextOwned ==
  ASSUME TypeInv, OwnerInv, Moved, Ticks
  PROVE  Owned'
<1> SUFFICES ASSUME NEW r \in Runs, run'[r].state = "running", job'[Main(r)].stage = "none"
             PROVE  /\ r \notin activeRuns'
                    /\ \/ tick' = "idle"
                       \/ tick' = "reconciling" /\ \E v \in listed' : v.id = r
                       \/ run'[r].task \in recoveringTasks'
                    /\ \A x \in Runs \ {r} :
                         run'[x].task = run'[r].task => job'[Back(x)].stage \in {"none", "opening"}
  BY DEF Owned
<1>1. run'[r].task = run[r].task /\ run[r].task \in Tasks /\ run[r].state = "running"
  BY RunningRow
<1>2. CASE job[Main(r)].stage # "none"
  BY <1>1, <1>2, MainGoesOn
<1>3. CASE job[Main(r)].stage = "none"
  <2>1. r \notin activeRuns'
    BY <1>1, <1>3 DEF OwnerInv, Owned, Ticks
  <2>2. ASSUME NEW x \in Runs \ {r}, run'[x].task = run'[r].task
        PROVE  job'[Back(x)].stage \in {"none", "opening"}
    <3>1. CASE run[x].task = run[r].task
      <4>1. job[Back(x)].stage \in {"none", "opening"} /\ run[x].state # "running"
        BY <1>1, <1>3, <3>1 DEF OwnerInv, Owned, OneOpen
      <4> QED
        BY <4>1, BackWaits
    <3>2. CASE run[x].task # run[r].task
      <4>1. StartMove(x)
        BY <1>1, <2>2, <3>2 DEF Moved, RunMove, Still, ResetMove
      <4>2. job'[Back(x)] = job[Back(x)] /\ run[x].task = NoTask
        BY <4>1 DEF StartMove, SameBack
      <4> QED
        BY <4>2 DEF TypeInv, JobsInv, RunsInv
    <3> QED
      BY <3>1, <3>2
  <2> QED
    BY <1>1, <1>3, <2>1, <2>2, StillOwned
<1> QED
  BY <1>2, <1>3

\* Whatever the step.
LEMMA NextOwner ==
  ASSUME TypeInv, OwnerInv, [Next]_vars
  PROVE  OwnerInv'
BY NextTypeInv, NextTicks, NextOneOpen, NextOwned DEF OwnerInv

-----------------------------------------------------------------------------
(* An occurrence runs once *)

\* Occurrence n of t has come.
Came(t, n) == n # 0 /\ (n < occurrence[t] \/ (n = occurrence[t] /\ t \in passed))

\* No task is scheduled past the last occurrence computed, nor will a call do so
\* before it says so.
ScheduleInv ==
  /\ \A t \in Tasks : task[t].next <= occurrence[t]
  /\ \A c \in Callers : call[c].task # NoTask =>
       call[c].rec.next <= occurrence[call[c].task] \/ call[c].rec.next = call[c].at

\* A stopped task has no next run, unless a copy of it was lost.
StoppedInv ==
  \A t \in Tasks \ lost : task[t].status \in {"paused", "cancelled", "failed"} => task[t].next = 0

\* The schedule of a run is moved by an approval only when one started it.
AdvancedInv ==
  \A r \in Runs : job[Main(r)].stage \in {"starting", "turn"} /\ ~origin[r].approved
                    => ~job[Main(r)].advanced

\* What has come stays so.
LEMMA CameStays ==
  ASSUME TypeOK, TypeOK', NEW t \in Tasks, Timely(t), NEW n \in Nat, Came(t, n)
  PROVE  Came(t, n)'
<1>1. occurrence[t] \in Nat /\ occurrence'[t] \in Nat
  BY Blank DEF TypeOK
<1> QED
  BY <1>1 DEF Timely, Came

\* What is computed has not come.
LEMMA NotCome ==
  ASSUME TypeOK, TasksInv, NEW t \in Tasks, NEW n \in {0, Computed(t), occurrence[t] + 1}
  PROVE  ~Came(t, n)
<1>1. occurrence[t] \in Nat
  BY Blank DEF TypeOK
<1> QED
  BY <1>1, ComputedType DEF Came

\* The occurrences computed only grow.
LEMMA OccurrenceGrows ==
  ASSUME TypeOK, TypeOK', \A t \in Tasks : Timely(t), NEW t \in Tasks
  PROVE  occurrence[t] \in Nat /\ occurrence'[t] \in Nat /\ occurrence'[t] >= occurrence[t]
<1>1. occurrence[t] \in Nat /\ occurrence'[t] \in Nat
  BY Blank DEF TypeOK
<1> QED
  BY <1>1 DEF Timely

\* Every save moves the schedule on to what it says.
LEMMA NextSchedule ==
  ASSUME TypeInv, TypeOK', ScheduleInv, TaskStep
  PROVE  ScheduleInv'
<1>1. TypeOK /\ JobsInv /\ TasksInv
  BY DEF TypeInv
<1>2. /\ \A t \in Tasks : task[t].next \in Nat /\ task'[t].next \in Nat
      /\ \A c \in Callers : /\ call[c] \in Call /\ call[c].rec.next \in Nat
                            /\ call[c].at \in 0..Horizon
                            /\ call[c].task # NoTask => call[c].task \in Tasks
  BY Blank DEF TypeInv, TypeOK, Task, Call
<1>3. CASE Reading /\ \A t \in Tasks : Timely(t)
  <2>1. \A t \in Tasks : occurrence[t] \in Nat /\ occurrence'[t] \in Nat /\ occurrence'[t] >= occurrence[t]
    BY <1>1, <1>3, OccurrenceGrows
  <2>2. \A t \in Tasks : task'[t].next <= occurrence'[t]
    BY <1>2, <1>3, <2>1 DEF ScheduleInv, Reading
  <2>3. ASSUME NEW c \in Callers, call'[c].task # NoTask
        PROVE  call'[c].rec.next <= occurrence'[call'[c].task] \/ call'[c].rec.next = call'[c].at
    <3>1. CASE call'[c] = call[c]
      BY <1>2, <2>1, <2>3, <3>1 DEF ScheduleInv
    <3>2. CASE FreshCall(c)
      BY <1>2, <2>1, <2>2, <3>2, <1>3 DEF FreshCall, ScheduleInv, Reading
    <3> QED
      BY <1>3, <2>3, <3>1, <3>2, Blank DEF Reading
  <2> QED
    BY <2>2, <2>3 DEF ScheduleInv
<1>4. CASE Marking /\ \A t \in Tasks : Timely(t)
  <2>1. \A t \in Tasks : occurrence[t] \in Nat /\ occurrence'[t] \in Nat /\ occurrence'[t] >= occurrence[t]
    BY <1>1, <1>4, OccurrenceGrows
  <2>2. \A t \in Tasks : task'[t].next = task[t].next
    BY <1>1, <1>4, Marked
  <2>3. call' = call
    BY <1>4 DEF Marking
  <2> QED
    BY <1>2, <2>1, <2>2, <2>3 DEF ScheduleInv
<1>5. ASSUME NEW w, NEW t, NEW rec, Saving(w, t, rec), \A u \in Tasks : Timely(u),
             rec.next <= occurrence'[t]
      PROVE  ScheduleInv'
  <2>1. \A u \in Tasks : occurrence[u] \in Nat /\ occurrence'[u] \in Nat /\ occurrence'[u] >= occurrence[u]
    BY <1>1, <1>5, OccurrenceGrows
  <2>2. task'[t].next = rec.next /\ \A u \in Tasks \ {t} : task'[u] = task[u]
    BY <1>1, <1>5, SaveType DEF Saving
  <2>3. \A c \in Callers : call'[c] = call[c] \/ call'[c].task = NoTask
    BY <1>5, Blank DEF Saving
  <2> QED
    BY <1>2, <1>5, <2>1, <2>2, <2>3 DEF ScheduleInv
<1>6. ASSUME NEW j \in Jobs, NEW rec \in Task, JobSaves(j, rec), RowSaved(j), \A u \in Tasks : Timely(u),
             NEW t, t = TaskOf(j)
      PROVE  ScheduleInv'
  <2>1. Saving(j, t, rec) /\ t \in Tasks
    BY <1>6 DEF JobSaves, Saving
  <2>2. rec.next <= occurrence'[t]
    <3>1. CASE job[j].stage = "sending"
      BY <1>1, <1>2, <1>6, <2>1, <3>1, OccurrenceGrows DEF JobSaves, ScheduleInv
    <3>2. CASE job[j].stage # "sending"
      <4>1. rec.next \in 0..Horizon /\ Advance(t, rec.next)
        BY <1>6, <3>2 DEF JobSaves, RowSaved, Task
      <4>2. occurrence'[t] >= rec.next
        BY <1>1, <2>1, <4>1, AdvanceType
      <4> QED
        BY <1>1, <1>6, <2>1, <4>1, <4>2, OccurrenceGrows, Blank
    <3> QED
      BY <3>1, <3>2
  <2> QED
    BY <1>5, <1>6, <2>1, <2>2
<1>7. ASSUME NEW c \in Callers, CallSaves(c), Saving(c, call[c].task, call[c].rec),
             \A u \in Tasks : Timely(u)
      PROVE  ScheduleInv'
  <2>1. call[c].task \in Tasks /\ call[c].task # NoTask /\ Advance(call[c].task, call[c].at)
    BY <1>7, TasksAssumption DEF CallSaves, Saving
  <2>2. occurrence'[call[c].task] >= call[c].at /\ occurrence'[call[c].task] >= occurrence[call[c].task]
    BY <1>1, <1>2, <2>1, AdvanceType
  <2>3. occurrence[call[c].task] \in Nat /\ occurrence'[call[c].task] \in Nat
    BY <1>1, <1>7, <2>1, OccurrenceGrows
  <2>4. call[c].rec.next <= (occurrence')[call[c].task]
    BY <1>2, <2>1, <2>2, <2>3, Blank DEF ScheduleInv
  <2>5. PICK t \in Tasks : t = call[c].task
    BY <2>1
  <2> QED
    BY <1>5, <1>7, <2>4, <2>5
<1>8. ASSUME NEW t \in Tasks, Creating(t), task'[t].next = 1, occurrence' = [occurrence EXCEPT ![t] = 1]
      PROVE  ScheduleInv'
  <2>1. \A u \in Tasks \ {t} : task'[u] = task[u] /\ occurrence'[u] = occurrence[u]
    BY <1>1, <1>8 DEF Creating, TypeOK
  <2>2. occurrence'[t] = 1 /\ call' = call
    BY <1>1, <1>8 DEF Creating, TypeOK
  <2>3. \A c \in Callers : call[c].task # NoTask => call[c].task \in Tasks \ {t}
    BY <1>1, <1>8, TaskExists DEF Creating
  <2> QED
    BY <1>2, <1>8, <2>1, <2>2, <2>3 DEF ScheduleInv
<1> QED
  BY <1>3, <1>4, <1>6, <1>7, <1>8 DEF TaskStep

\* A stop leaves no next run.
LEMMA NextStopped ==
  ASSUME TypeInv, CopyInv, StoppedInv, TaskStep
  PROVE  StoppedInv'
<1>1. TypeOK
  BY DEF TypeInv
<1>2. CASE Reading
  BY <1>2 DEF Reading, StoppedInv
<1>3. CASE Marking
  <2>1. \A t \in Tasks : task'[t].next = task[t].next /\ task'[t].status = task[t].status
    BY <1>1, <1>3, Marked
  <2> QED
    BY <1>3, <2>1 DEF Marking, StoppedInv
<1>4. ASSUME NEW w, NEW t, NEW rec, Saving(w, t, rec),
             w \notin stale /\ t \notin lost /\ rec.status \in {"paused", "cancelled", "failed"}
               => rec.next = 0
      PROVE  StoppedInv'
  <2>1. /\ task'[t].status = rec.status /\ task'[t].next = rec.next
        /\ \A u \in Tasks \ {t} : task'[u] = task[u]
        /\ lost' = IF w \in stale THEN lost \cup {t} ELSE lost
    BY <1>1, <1>4, SaveType DEF Saving
  <2> QED
    BY <1>4, <2>1 DEF StoppedInv
<1>5. ASSUME NEW j \in Jobs, NEW rec \in Task, JobSaves(j, rec), NEW t, t = TaskOf(j)
      PROVE  StoppedInv'
  <2>1. Saving(j, t, rec) /\ t \in Tasks
    BY <1>5 DEF JobSaves, Saving
  <2>2. j \notin stale /\ t \notin lost /\ rec.status \in {"paused", "cancelled", "failed"}
          => rec.next = 0
    BY <1>5, <2>1 DEF JobSaves, CopyInv, JobCopy, Held, StoppedInv
  <2> QED
    BY <1>4, <2>1, <2>2
<1>6. ASSUME NEW c \in Callers, CallSaves(c), Saving(c, call[c].task, call[c].rec)
      PROVE  StoppedInv'
  <2>1. PICK t, rec, op : t = call[c].task /\ rec = call[c].rec /\ op = call[c].op
    OBVIOUS
  <2>2. t \in Tasks /\ t # NoTask
    BY <1>6, <2>1 DEF Saving, CallSaves
  <2>3. ASSUME c \notin stale, t \notin lost, rec.status \in {"paused", "cancelled", "failed"}
        PROVE  rec.next = 0
    <3>1. Request(op, rec, t)
      BY <2>1, <2>2, <2>3 DEF CopyInv, CallCopy
    <3> QED
      BY <2>2, <2>3, <3>1 DEF Request, StoppedInv
  <2> QED
    BY <1>4, <1>6, <2>1, <2>3
<1>7. ASSUME NEW t \in Tasks, Creating(t)
      PROVE  StoppedInv'
  BY <1>7 DEF Creating, StoppedInv
<1> QED
  BY <1>2, <1>3, <1>5, <1>6, <1>7 DEF TaskStep

\* Run r executes an occurrence, or did.
Begun(r) == ~origin[r].approved /\ (turn[r] # "none" \/ job[Main(r)].stage = "starting")

\* It is under way.
Executing(r) == run[r].state = "running" \/ job[Main(r)].stage = "starting"

\* A step changes the origin or the task of a run only by taking it for a task.
LEMMA RunStays ==
  ASSUME TypeInv, TaskStep, NEW r \in Runs
  PROVE  \/ origin'[r] = origin[r] /\ run'[r].task = run[r].task
         \/ Reading /\ r \in Unused /\ \E t \in Tasks : Starting(t, r)
<1>1. CASE \E t \in Tasks, x \in Unused : Reading /\ Starting(t, x)
  BY <1>1 DEF Starting
<1>2. CASE Kept \/ (\E x \in Runs : Opening(x)) \/ \E j \in Jobs : RowSaved(j)
  BY <1>2 DEF Kept, Opening, RowSaved
<1>3. CASE \E c \in Callers : CallSaves(c)
  BY <1>3 DEF CallSaves, CallFrame
<1>4. CASE origin' = origin /\ \E t \in Tasks : Creating(t)
  BY <1>4 DEF Creating
<1> QED
  BY <1>1, <1>2, <1>3, <1>4 DEF TaskStep

\* A run that has begun is of a task, one that is not taken has not begun.
LEMMA BegunTask ==
  ASSUME TypeInv, NEW r \in Runs, Begun(r)
  PROVE  run[r].task \in Tasks /\ r \notin Unused
BY DEF TypeInv, TypeOK, Run, JobsInv, RunsInv, Begun, Unused

\* A run begins when it is taken for its task, and not later.
LEMMA BegunBefore ==
  ASSUME TypeInv, Moved, TaskStep, NEW r \in Runs, Begun(r)'
  PROVE  \/ Begun(r) /\ origin'[r] = origin[r] /\ run'[r].task = run[r].task
         \/ Reading /\ r \in Unused /\ \E t \in Tasks : Starting(t, r)
<1>1. CASE Reading /\ r \in Unused /\ \E t \in Tasks : Starting(t, r)
  BY <1>1
<1>2. CASE origin'[r] = origin[r] /\ run'[r].task = run[r].task
  <2>1. RunMove(r) /\ ~StartMove(r)
    BY <1>2, TasksAssumption DEF Moved, StartMove
  <2>2. turn[r] # "none" \/ job[Main(r)].stage = "starting"
    <3> SUFFICES ASSUME turn[r] = "none" PROVE job[Main(r)].stage = "starting"
      OBVIOUS
    <3>1. turn'[r] # "none" \/ job'[Main(r)].stage = "starting"
      BY DEF Begun
    <3>2. CASE Still(r) \/ ResetMove(r)
      BY <3>1, <3>2, Blank DEF Still, Keeps, SameMain, ResetMove, TurnEnds
    <3>3. CASE MainMove(r)
      BY <3>1, <3>3 DEF MainMove, At, Keeps, Closes, TurnEnds
    <3>4. CASE BackMove(r) /\ SameMain(r)
      BY <3>1, <3>4 DEF BackMove, SameMain, Keeps, Closes, TurnEnds
    <3>5. CASE VisitMove(r)
      BY <3>1, <3>5 DEF VisitMove, SameMain, Keeps, Closes
    <3> QED
      BY <2>1, <3>2, <3>3, <3>4, <3>5 DEF RunMove
  <2> QED
    BY <1>2, <2>2 DEF Begun
<1> QED
  BY <1>1, <1>2, RunStays

\* A run that is being opened is opened, unless it never begins.
LEMMA StartingGoesOn ==
  ASSUME TypeInv, Moved, NEW r \in Runs, Begun(r)', job[Main(r)].stage = "starting"
  PROVE  Executing(r)'
<1>1. RunMove(r) /\ turn[r] = "none" /\ run[r].state = "none"
      /\ (turn'[r] # "none" \/ job'[Main(r)].stage = "starting")
  BY DEF Moved, TypeInv, JobsInv, MainInv, RunsInv, Begun
<1>2. CASE Still(r) \/ StartMove(r)
  BY <1>2 DEF Still, SameMain, StartMove, Executing
<1>3. CASE ResetMove(r)
  BY <1>1, <1>3, Blank DEF ResetMove, TurnEnds
<1>4. CASE MainMove(r)
  BY <1>1, <1>4 DEF MainMove, At, Keeps, Executing
<1>5. CASE BackMove(r) /\ SameMain(r)
  BY <1>5 DEF SameMain, Executing
<1>6. CASE VisitMove(r)
  BY <1>1, <1>6 DEF VisitMove, SameMain, Executing
<1> QED
  BY <1>1, <1>2, <1>3, <1>4, <1>5, <1>6 DEF RunMove

\* executeRun moves the schedule for an approval alone, and nobody changes that
\* until the turn has answered.
LEMMA NextAdvanced ==
  ASSUME TypeInv, Moved, TaskStep, AdvancedInv
  PROVE  AdvancedInv'
<1> SUFFICES ASSUME NEW r \in Runs, job'[Main(r)].stage \in {"starting", "turn"}, ~origin'[r].approved
             PROVE  ~job'[Main(r)].advanced
  BY DEF AdvancedInv
<1>1. CASE \E t \in Tasks : Starting(t, r)
  BY <1>1 DEF Starting
<1>2. CASE origin'[r] = origin[r] /\ run'[r].task = run[r].task
  <2>1. CASE job'[Main(r)] = job[Main(r)]
    BY <1>2, <2>1 DEF AdvancedInv
  <2>2. CASE job'[Main(r)] # job[Main(r)]
    <3>1. /\ job[Main(r)].stage = "starting" /\ job'[Main(r)].stage = "turn"
          /\ run'[r].state = "running"
      BY <1>2, <2>2, TasksAssumption, Blank
         DEF Moved, RunMove, Still, SameMain, StartMove, MainMove, At, VisitMove, ResetMove
    <3>2. run[r].state = "none" /\ Main(r) \in Jobs /\ Main(r)[2] = r /\ Main(r)[1] = "run"
      BY <3>1, JobNames DEF TypeInv, JobsInv, MainInv, RunsInv
    <3>3. ~Kept
      BY <3>1, <3>2 DEF Kept, ClosedStates
    <3>4. \A t \in Tasks, x \in Unused : ~Starting(t, x)
      BY <3>1, <3>2 DEF Starting
    <3>5. \A j \in Jobs, rec \in Task : ~(JobSaves(j, rec) /\ RowSaved(j))
      <4> SUFFICES ASSUME NEW j \in Jobs, NEW rec \in Task, JobSaves(j, rec) PROVE FALSE
        OBVIOUS
      <4>1. j = Main(r)
        BY <2>2, <3>2 DEF JobSaves, Saving
      <4> QED
        BY <3>1, <4>1 DEF JobSaves
    <3>6. \A c \in Callers : ~CallSaves(c)
      BY <2>2 DEF CallSaves, CallFrame
    <3>7. \A t \in Tasks : ~Creating(t)
      BY <2>2 DEF Creating
    <3>8. PICK x \in Runs : Opening(x)
      BY <3>3, <3>4, <3>5, <3>6, <3>7 DEF TaskStep
    <3>9. x = r
      BY <2>2, <3>2, <3>8, Distinct DEF Opening
    <3> QED
      BY <1>2, <3>8, <3>9 DEF Opening, AdvancedInv
  <2> QED
    BY <2>1, <2>2
<1> QED
  BY <1>1, <1>2, RunStays

\* What the runs of t have executed has come and is behind its schedule, once.
OnceAt(t) ==
  \A r \in Runs : run[r].task = t /\ Begun(r) =>
    /\ Came(t, origin[r].occurrence)
    /\ ~task[t].gated
    /\ task[t].next = origin[r].occurrence => task[t].status = "completed" \/ Executing(r)
    /\ \A q \in Runs : run[q].task = t /\ Begun(q)
                         /\ origin[q].occurrence = origin[r].occurrence => q = r

\* What is about to be saved does not bring back an occurrence that was executed:
\* it has it because the schedule has it, and not from the run that executes it.
JobBehind ==
  \A j \in Jobs \ stale, q \in Runs :
    /\ job[j].stage \in {"storing", "failed"} /\ TaskOf(j) \notin lost \cup edited
    /\ run[q].task = TaskOf(j) /\ Begun(q) /\ origin[q].occurrence = job[j].rec.next
    => j \notin {Main(q), Back(q)} /\ job[j].rec.next = task[TaskOf(j)].next

CallBehind ==
  \A c \in Callers \ stale, q \in Runs :
    /\ call[c].task \in Tasks \ (lost \cup edited)
    /\ run[q].task = call[c].task /\ Begun(q) /\ origin[q].occurrence = call[c].rec.next
    => call[c].rec.next = task[call[c].task].next

OccurrenceInv == /\ \A t \in Tasks \ (lost \cup edited) : OnceAt(t)
                 /\ JobBehind /\ CallBehind

\* No run of t is taken in the step.
LEMMA KeepsOnce ==
  ASSUME TypeOK, TypeOK', NEW t \in Tasks, Timely(t), OnceAt(t), task'[t].gated = task[t].gated,
         \A r \in Runs : run'[r].task = t /\ Begun(r)' =>
           Begun(r) /\ origin'[r] = origin[r] /\ run[r].task = t,
         \A r \in Runs : /\ run[r].task = t /\ Begun(r) /\ Begun(r)'
                         /\ task'[t].next = origin[r].occurrence
                         => task'[t].status = "completed" \/ Executing(r)'
  PROVE  OnceAt(t)'
<1> SUFFICES ASSUME NEW r \in Runs, run'[r].task = t, Begun(r)'
             PROVE  /\ Came(t, origin[r].occurrence)'
                    /\ ~task'[t].gated
                    /\ task'[t].next = origin'[r].occurrence =>
                         task'[t].status = "completed" \/ Executing(r)'
                    /\ \A q \in Runs : run'[q].task = t /\ Begun(q)'
                         /\ origin'[q].occurrence = origin'[r].occurrence => q = r
  BY DEF OnceAt
<1>1. Begun(r) /\ origin'[r] = origin[r] /\ run[r].task = t
  OBVIOUS
<1>2. PICK n \in Nat : n = origin[r].occurrence
  BY Blank DEF TypeOK, Origin
<1>3. Came(t, n) /\ ~task[t].gated
  BY <1>1, <1>2 DEF OnceAt
<1>4. Came(t, n)'
  BY <1>3, CameStays
<1>5. Came(t, origin[r].occurrence)'
  BY <1>1, <1>2, <1>4 DEF Came
<1>6. ASSUME NEW q \in Runs, run'[q].task = t, Begun(q)', origin'[q].occurrence = origin'[r].occurrence
      PROVE  q = r
  <2>1. Begun(q) /\ origin'[q] = origin[q] /\ run[q].task = t
    BY <1>6
  <2> QED
    BY <1>1, <1>6, <2>1 DEF OnceAt
<1> QED
  BY <1>1, <1>3, <1>5, <1>6

\* A step that takes no run id and closes rows of tasks that are not active.
LEMMA KeptOnce ==
  ASSUME TypeInv, TypeOK', StoppedInv, Moved, TaskStep, Reading, Kept, \A t \in Tasks : Timely(t),
         NEW t \in Tasks \ (lost \cup edited), OnceAt(t)
  PROVE  OnceAt(t)'
<1>1. TypeOK /\ TasksInv /\ task' = task
  BY DEF TypeInv, Reading
<1>2. ASSUME NEW r \in Runs, Begun(r)', run'[r].task = t
      PROVE  Begun(r) /\ origin'[r] = origin[r] /\ run[r].task = t
  BY <1>2, TasksAssumption, BegunBefore DEF Kept, Unused
<1>3. ASSUME NEW r \in Runs, run[r].task = t, Begun(r), Begun(r)', task[t].next = origin[r].occurrence
      PROVE  task[t].status = "completed" \/ Executing(r)'
  <2>1. CASE job[Main(r)].stage = "starting"
    BY <1>3, <2>1, StartingGoesOn
  <2>2. CASE run'[r].state = "running"
    BY <2>2 DEF Executing
  <2>3. CASE run[r].state = "running" /\ run'[r].state # "running"
    <3>1. task[t].status # "active"
      BY <1>3, <2>3 DEF Kept
    <3>2. task[t].status # "absent" /\ task[t].status \in Statuses
      BY <1>1, <1>3 DEF TasksInv, TypeOK, Task
    <3>3. task[t].next # 0
      BY <1>3 DEF OnceAt, Came
    <3> QED
      BY <3>1, <3>2, <3>3 DEF StoppedInv, Statuses
  <2>4. task[t].status = "completed" \/ Executing(r)
    BY <1>3 DEF OnceAt
  <2> QED
    BY <2>1, <2>2, <2>3, <2>4 DEF Executing
<1>4. \A r \in Runs : run'[r].task = t /\ Begun(r)' =>
        Begun(r) /\ origin'[r] = origin[r] /\ run[r].task = t
  BY <1>2
<1>5. \A r \in Runs : /\ run[r].task = t /\ Begun(r) /\ Begun(r)'
                      /\ task'[t].next = origin[r].occurrence
                      => task'[t].status = "completed" \/ Executing(r)'
  BY <1>1, <1>3
<1> QED
  BY <1>1, <1>4, <1>5, KeepsOnce

\* A run is taken for an occurrence that no run has.
LEMMA StartingOnce ==
  ASSUME TypeInv, TypeOK', OwnerInv, ScheduleInv, Moved, TaskStep, Reading, NEW u \in Tasks,
         NEW x \in Unused, Starting(u, x), \A t \in Tasks : Timely(t), NEW t \in Tasks, OnceAt(t)
  PROVE  OnceAt(t)'
<1>1. TypeOK /\ task' = task /\ x \in Runs
  BY DEF TypeInv, Reading, Unused
<1>2. \A r \in Runs \ {x} : /\ origin'[r] = origin[r] /\ run'[r] = run[r]
                            /\ job'[Main(r)] = job[Main(r)] /\ turn'[r] = turn[r]
  BY <1>1, JobNames, Distinct DEF Starting
<1>3. \A r \in Runs \ {x} : (Begun(r)' <=> Begun(r)) /\ (Executing(r) => Executing(r)')
  BY <1>2 DEF Begun, Executing
<1>4. run'[x].task = u /\ run[x].task # t /\ ~Begun(x)
  BY <1>1, TasksAssumption, BegunTask DEF Starting, Unused
<1>5. CASE u # t \/ RunsApproved(u)
  <2>1. ~(run'[x].task = t /\ Begun(x)')
    BY <1>4, <1>5 DEF Starting, Begun
  <2> QED
    BY <1>1, <1>2, <1>3, <1>4, <2>1, KeepsOnce DEF OnceAt
<1>6. CASE u = t /\ ~RunsApproved(u)
  <2>1. /\ RunsOccurrence(t) /\ ~task[t].gated /\ origin'[x].occurrence = task[t].next
        /\ ~Busy(t) /\ tick = "firing" /\ job'[Main(x)].stage = "starting"
    BY <1>6 DEF Starting
  <2>2. task[t].status = "active" /\ Came(t, task[t].next) /\ task[t].next \in Nat
    <3>1. task[t].status = "active" /\ Come(t, task[t].next) /\ task[t].next <= occurrence[t]
      BY <2>1 DEF RunsOccurrence, Overdue, ScheduleInv
    <3>2. task[t].next \in Nat /\ occurrence[t] \in Nat
      BY <1>1, Blank DEF TypeOK, Task
    <3> QED
      BY <3>1, <3>2 DEF Come, Came
  <2>3. Came(t, task[t].next)'
    <3>1. PICK n \in Nat : n = task[t].next
      BY <2>2
    <3>2. Came(t, n)'
      BY <1>1, <2>2, <3>1, CameStays
    <3> QED
      BY <1>1, <3>1, <3>2 DEF Came
  <2>4. ASSUME NEW r \in Runs \ {x}, run'[r].task = t, Begun(r)'
        PROVE  /\ Begun(r) /\ run[r].task = t /\ origin'[r] = origin[r]
               /\ origin[r].occurrence # task[t].next
               /\ Came(t, origin[r].occurrence)
    <3>1. Begun(r) /\ run[r].task = t /\ origin'[r] = origin[r]
      BY <1>2, <1>3, <2>4
    <3>2. ~Executing(r)
      BY <2>1, <3>1, FreeRows DEF Executing
    <3> QED
      BY <2>2, <3>1, <3>2 DEF OnceAt
  <2>5. ASSUME NEW r \in Runs \ {x}, run'[r].task = t, Begun(r)'
        PROVE  Came(t, origin[r].occurrence)'
    <3>1. PICK n \in Nat : n = origin[r].occurrence
      BY <1>1, Blank DEF TypeOK, Origin
    <3>2. Came(t, n)'
      BY <1>1, <2>4, <2>5, <3>1, CameStays
    <3> QED
      BY <2>4, <2>5, <3>1, <3>2 DEF Came
  <2>6. Executing(x)'
    BY <2>1 DEF Executing
  <2>7. \A r \in Runs \ {x}, q \in Runs :
          /\ run'[r].task = t /\ Begun(r)' /\ run'[q].task = t /\ Begun(q)'
          /\ origin'[q].occurrence = origin'[r].occurrence
          => q = r
    BY <2>1, <2>4 DEF OnceAt
  <2>8. ASSUME NEW r \in Runs, run'[r].task = t, Begun(r)'
        PROVE  /\ Came(t, origin[r].occurrence)'
               /\ ~task'[t].gated
               /\ task'[t].next = origin'[r].occurrence =>
                    task'[t].status = "completed" \/ Executing(r)'
               /\ \A q \in Runs : run'[q].task = t /\ Begun(q)'
                    /\ origin'[q].occurrence = origin'[r].occurrence => q = r
    <3>1. CASE r = x
      <4>1. Came(t, origin[x].occurrence)'
        BY <1>1, <2>1, <2>3 DEF Came
      <4>2. \A q \in Runs \ {x} : run'[q].task = t /\ Begun(q)'
                                   => origin'[q].occurrence # origin'[x].occurrence
        BY <2>1, <2>4
      <4> QED
        BY <1>1, <2>1, <2>6, <3>1, <4>1, <4>2
    <3>2. CASE r # x
      BY <1>1, <2>1, <2>4, <2>5, <2>7, <2>8, <3>2
    <3> QED
      BY <3>1, <3>2
  <2> QED
    BY <2>8 DEF OnceAt
<1> QED
  BY <1>5, <1>6

\* The row of a run is opened.
LEMMA OpeningOnce ==
  ASSUME TypeInv, TypeOK', Moved, TaskStep, Marking, NEW x \in Runs, Opening(x),
         \A t \in Tasks : Timely(t), NEW t \in Tasks, OnceAt(t)
  PROVE  OnceAt(t)'
<1>1. TypeOK /\ task'[t].next = task[t].next /\ task'[t].status = task[t].status
      /\ task'[t].gated = task[t].gated
  BY Marked DEF TypeInv
<1>2. \A r \in Runs : run'[r].task = t /\ Begun(r)' =>
        Begun(r) /\ origin'[r] = origin[r] /\ run[r].task = t
  BY TasksAssumption, BegunBefore DEF Opening, Unused
<1>3. \A r \in Runs : Executing(r) => Executing(r)'
  BY JobNames, Distinct DEF Opening, Executing
<1> QED
  BY <1>1, <1>2, <1>3, KeepsOnce DEF OnceAt

\* A step that writes another task, and neither a row nor a job of this one.
LEMMA OtherOnce ==
  ASSUME TypeInv, TypeOK', Moved, TaskStep, NEW t \in Tasks, Timely(t), OnceAt(t),
         task'[t] = task[t], \A r \in Runs : run'[r].task = run[r].task,
         \A r \in Runs : run[r].task = t => /\ run'[r].state = run[r].state
                                            /\ job'[Main(r)] = job[Main(r)]
  PROVE  OnceAt(t)'
<1>1. TypeOK
  BY DEF TypeInv
<1>2. \A r \in Runs : run'[r].task = t /\ Begun(r)' =>
        Begun(r) /\ origin'[r] = origin[r] /\ run[r].task = t
  BY TasksAssumption, BegunBefore DEF Starting, Unused
<1>3. \A r \in Runs : run[r].task = t /\ Executing(r) => Executing(r)'
  BY DEF Executing
<1> QED
  BY <1>1, <1>2, <1>3, KeepsOnce DEF OnceAt

\* A job that was not overtaken saves its task.
LEMMA JobOnce ==
  ASSUME TypeInv, TypeOK', CopyInv, OccurrenceInv, Moved, TaskStep, NEW j \in Jobs, NEW rec \in Task,
         JobSaves(j, rec), RowSaved(j), \A u \in Tasks : Timely(u),
         NEW t \in Tasks \ (lost' \cup edited'), t = TaskOf(j)
  PROVE  OnceAt(t)'
<1>1. /\ TypeOK /\ JobsInv /\ TasksInv /\ Saving(j, t, rec) /\ edited' = edited /\ rec.once = task[t].once
      /\ origin' = origin
  BY DEF TypeInv, JobSaves, Saving
<1>2. /\ task'[t].next = rec.next /\ task'[t].status = rec.status /\ task'[t].gated = rec.gated
      /\ j \notin stale /\ t \notin lost
  BY <1>1, SaveType DEF Saving
<1>3. OnceAt(t)
  BY <1>1, <1>2 DEF OccurrenceInv
<1>4. rec.gated = task[t].gated
  BY <1>2 DEF JobSaves, CopyInv, JobCopy, Held
<1>5. \A r \in Runs : run'[r].task = t /\ Begun(r)' =>
        Begun(r) /\ origin'[r] = origin[r] /\ run[r].task = t
  <2>1. ~\E r \in Unused, u \in Tasks : Starting(u, r)
    BY TasksAssumption DEF RowSaved, Starting, Unused
  <2> QED
    BY <2>1, BegunBefore
<1>6. ASSUME NEW r \in Runs, Executing(r), j \notin {Main(r), Back(r)}
      PROVE  Executing(r)'
  <2>1. /\ j[1] = "ask" \/ r # j[2]
        /\ Main(r) \in Jobs \ {j}
    BY <1>6, JobNames
  <2>2. run'[r].state = run[r].state /\ job'[Main(r)] = job[Main(r)]
    BY <1>1, <2>1 DEF RowSaved, Saving
  <2> QED
    BY <1>6, <2>2 DEF Executing
<1>7. ASSUME NEW r \in Runs, run[r].task = t, Begun(r), rec.next = origin[r].occurrence
      PROVE  rec.status = "completed" \/ Executing(r)'
  <2>1. Came(t, rec.next) /\ (task[t].next = rec.next => task[t].status = "completed" \/ Executing(r))
    BY <1>3, <1>7 DEF OnceAt
  <2>2. CASE job[j].stage = "asking"
    <3>1. rec.next \in {0, Computed(t)}
      BY <2>2 DEF JobSaves
    <3> QED
      BY <1>1, <2>1, <3>1, NotCome
  <2>3. CASE job[j].stage \in {"storing", "failed"}
    <3>1. rec = job[j].rec /\ task[t].status = "active"
      BY <1>2, <2>3 DEF JobSaves, CopyInv, JobCopy, Held
    <3>2. j \notin {Main(r), Back(r)} /\ rec.next = task[t].next
      BY <1>1, <1>2, <1>7, <2>3, <3>1 DEF OccurrenceInv, JobBehind
    <3> QED
      BY <1>6, <2>1, <3>1, <3>2
  <2>4. CASE job[j].stage = "sending"
    <3>1. /\ rec.next = task[t].next
          /\ task[t].status = "completed" => rec.status = "completed"
      BY <2>4 DEF JobSaves
    <3>2. Executing(r) => j \notin {Main(r), Back(r)}
      BY <1>1, <2>4 DEF Executing, JobsInv, MainInv, BackInv
    <3> QED
      BY <1>6, <2>1, <3>1, <3>2
  <2> QED
    BY <2>2, <2>3, <2>4 DEF JobSaves
<1>8. \A r \in Runs : /\ run[r].task = t /\ Begun(r) /\ Begun(r)'
                      /\ task'[t].next = origin[r].occurrence
                      => task'[t].status = "completed" \/ Executing(r)'
  BY <1>2, <1>7
<1> QED
  BY <1>1, <1>2, <1>3, <1>4, <1>5, <1>8, KeepsOnce

\* A call that was not overtaken is saved.
LEMMA CallOnce ==
  ASSUME TypeInv, TypeOK', CopyInv, OccurrenceInv, Moved, TaskStep, NEW c \in Callers,
         CallSaves(c), Saving(c, call[c].task, call[c].rec), \A u \in Tasks : Timely(u),
         NEW t \in Tasks \ (lost' \cup edited'), NEW rec, NEW op,
         t = call[c].task, rec = call[c].rec, op = call[c].op
  PROVE  OnceAt(t)'
<1>1. /\ TypeOK /\ TasksInv /\ rec \in Task /\ t # NoTask
      /\ UNCHANGED <<run, turn, job, origin>>
      /\ edited' = IF op = "edit" /\ rec.gated # task[t].gated THEN edited \cup {t} ELSE edited
  BY TasksAssumption DEF TypeInv, Saving, CallSaves, CallFrame
<1>2. /\ task'[t].next = rec.next /\ task'[t].status = rec.status /\ task'[t].gated = rec.gated
      /\ c \notin stale /\ t \notin lost \cup edited
  BY <1>1, SaveType DEF Saving
<1>3. OnceAt(t) /\ Request(op, rec, t)
  BY <1>1, <1>2 DEF OccurrenceInv, CopyInv, CallCopy
<1>4. rec.gated = task[t].gated
  BY <1>1, <1>3 DEF Request
<1>5. \A r \in Runs : (Begun(r)' <=> Begun(r)) /\ (Executing(r)' <=> Executing(r))
  BY <1>1 DEF Begun, Executing
<1>6. ASSUME NEW r \in Runs, run[r].task = t, Begun(r), rec.next = origin[r].occurrence
      PROVE  Executing(r)
  <2>1. rec.next = task[t].next
    BY <1>1, <1>2, <1>6 DEF OccurrenceInv, CallBehind
  <2>2. task[t].status # "completed"
    BY <1>3 DEF Request
  <2> QED
    BY <1>3, <1>6, <2>1, <2>2 DEF OnceAt
<1> QED
  BY <1>1, <1>2, <1>3, <1>4, <1>5, <1>6, KeepsOnce

\* A job keeps its copy, or has just read an occurrence that no run has.
LEMMA ReadingJobs ==
  ASSUME TypeInv, OccurrenceInv, AdvancedInv, Moved, TaskStep, Reading, NEW j \in Jobs \ stale',
         NEW q \in Runs, job'[j].stage \in {"storing", "failed"}, NEW t \in Tasks \ (lost \cup edited),
         t = TaskOf(j)', run'[q].task = t, Begun(q)', origin'[q].occurrence = job'[j].rec.next
  PROVE  j \notin {Main(q), Back(q)} /\ job'[j].rec.next = task[t].next
<1>1. TypeOK /\ JobsInv /\ TasksInv
  BY DEF TypeInv
<1>2. (j \notin stale /\ job'[j] = job[j]) \/ Fresh(j)
  BY DEF Reading, Held
<1>3. TaskOf(j) = t
  BY <1>1, <1>2, TaskOfStays DEF Fresh
<1>4. CASE q \in Unused /\ \E u \in Tasks : Starting(u, q)
  <2>1. PICK u \in Tasks : Starting(u, q)
    BY <1>4
  <2>2. /\ job'[Main(q)].stage = "starting" /\ ~RunsApproved(u) /\ u = t
        /\ origin'[q].occurrence = task[t].next /\ job'[Back(q)] = job[Back(q)]
    BY <2>1, JobNames, Distinct DEF Starting, Begun
  <2>3. job[Back(q)].stage = "none"
    BY <1>1, <1>4 DEF Unused, JobsInv, RunsInv
  <2> QED
    BY <2>2, <2>3
<1>5. CASE Begun(q) /\ origin'[q] = origin[q] /\ run'[q].task = run[q].task
  <2>1. Came(t, job'[j].rec.next) /\ ~task[t].gated
    BY <1>5 DEF OccurrenceInv, OnceAt
  <2>2. CASE j \notin stale /\ job'[j] = job[j]
    BY <1>3, <1>5, <2>2 DEF OccurrenceInv, JobBehind
  <2>3. CASE Fresh(j)
    <3>1. /\ job'[j].stage = "storing" => job'[j].rec.next = Advanced(t, ByApproval(j))
          /\ job'[j].stage = "failed" => job'[j].rec.next \in {0, Computed(t)}
      BY <1>1, <1>3, <2>3, FreshRec
    <3>2. job'[j].stage = "storing" /\ ByApproval(j) /\ job'[j].rec.next = task[t].next
      BY <1>1, <2>1, <3>1, NotCome DEF Advanced
    <3>3. j[1] = "run" /\ job[j].advanced
      BY <1>3, <2>1, <3>2 DEF ByApproval
    <3>4. job[j].stage \in {"turn", "opening"}
      BY <2>3, <3>2 DEF Fresh
    <3>5. j # Back(q)
      BY <3>3, JobNames
    <3>6. j # Main(q)
      BY <1>1, <1>5, <3>3, <3>4 DEF AdvancedInv, Begun, JobsInv, MainInv
    <3> QED
      BY <3>2, <3>5, <3>6
  <2> QED
    BY <1>2, <2>2, <2>3
<1> QED
  BY <1>4, <1>5, BegunBefore

\* A call keeps its copy, or has just computed an occurrence that no run has.
LEMMA ReadingCalls ==
  ASSUME TypeInv, OccurrenceInv, Moved, TaskStep, Reading, NEW c \in Callers \ stale', NEW q \in Runs,
         NEW t \in Tasks \ (lost \cup edited), t = call'[c].task, run'[q].task = t, Begun(q)',
         origin'[q].occurrence = call'[c].rec.next
  PROVE  call'[c].rec.next = task[t].next
<1>1. TypeOK /\ TasksInv
  BY DEF TypeInv
<1>2. (c \notin stale /\ call'[c] = call[c]) \/ FreshCall(c)
  BY TasksAssumption, Blank DEF Reading
<1>3. CASE q \in Unused /\ \E u \in Tasks : Starting(u, q)
  BY <1>3 DEF Starting, Begun
<1>4. CASE Begun(q) /\ origin'[q] = origin[q] /\ run'[q].task = run[q].task
  <2>1. Came(t, call'[c].rec.next)
    BY <1>4 DEF OccurrenceInv, OnceAt
  <2>2. CASE c \notin stale /\ call'[c] = call[c]
    BY <1>4, <2>2 DEF OccurrenceInv, CallBehind
  <2>3. CASE FreshCall(c)
    <3>1. call'[c].rec.next \in {0, task[t].next, Computed(t), occurrence[t] + 1}
      BY <2>3 DEF FreshCall
    <3> QED
      BY <1>1, <2>1, <3>1, NotCome
  <2> QED
    BY <1>2, <2>2, <2>3
<1> QED
  BY <1>3, <1>4, BegunBefore

\* A step that takes no run id, and writes a task or changes only a marker, keeps
\* the copies that it does not overtake.
LEMMA SameBehind ==
  ASSUME TypeInv, OccurrenceInv, Moved, TaskStep, lost \subseteq lost', edited \subseteq edited',
         ~\E u \in Tasks, r \in Unused : Starting(u, r),
         \A j \in Jobs \ stale' : job'[j].stage \in {"storing", "failed"} =>
           /\ j \notin stale /\ job'[j] = job[j] /\ TaskOf(j)' = TaskOf(j)
           /\ task'[TaskOf(j)].next = task[TaskOf(j)].next,
         \A c \in Callers \ stale' : call'[c].task # NoTask =>
           /\ c \notin stale /\ call'[c] = call[c]
           /\ task'[call[c].task].next = task[call[c].task].next
  PROVE  (JobBehind /\ CallBehind)'
<1>1. \A q \in Runs : Begun(q)' => Begun(q) /\ origin'[q] = origin[q] /\ run'[q].task = run[q].task
  BY BegunBefore
<1>2. JobBehind'
  BY <1>1 DEF OccurrenceInv, JobBehind
<1>3. CallBehind'
  BY <1>1, TasksAssumption DEF OccurrenceInv, CallBehind
<1> QED
  BY <1>2, <1>3

\* The invariant of the executed occurrences, with those it rests on.
ExecutionInv == OwnerInv /\ ScheduleInv /\ StoppedInv /\ AdvancedInv /\ OccurrenceInv

\* A step that reads.
LEMMA ReadingOccurrence ==
  ASSUME TypeInv, TypeInv', ExecutionInv, Moved, TaskStep, Reading, \A t \in Tasks : Timely(t),
         Kept \/ \E u \in Tasks, x \in Unused : Starting(u, x)
  PROVE  OccurrenceInv'
<1>1. TypeOK /\ TypeOK' /\ task' = task /\ lost' = lost /\ edited' = edited
  BY DEF TypeInv, Reading
<1>2. \A t \in Tasks \ (lost \cup edited) : OnceAt(t)'
  BY <1>1, KeptOnce, StartingOnce DEF ExecutionInv, OccurrenceInv
<1>3. \A q \in Runs : Begun(q)' => run'[q].task \in Tasks
  BY BegunBefore, BegunTask DEF Starting
<1>4. JobBehind'
  <2> SUFFICES ASSUME NEW j \in Jobs \ stale', NEW q \in Runs,
                      job'[j].stage \in {"storing", "failed"}, TaskOf(j)' \notin lost \cup edited,
                      run'[q].task = TaskOf(j)', Begun(q)', origin'[q].occurrence = job'[j].rec.next
               PROVE  j \notin {Main(q), Back(q)} /\ job'[j].rec.next = task[TaskOf(j)'].next
    BY <1>1 DEF JobBehind
  <2>1. PICK t \in Tasks \ (lost \cup edited) : t = TaskOf(j)'
    BY <1>3
  <2> QED
    BY <2>1, ReadingJobs DEF ExecutionInv
<1>5. CallBehind'
  <2> SUFFICES ASSUME NEW c \in Callers \ stale', NEW q \in Runs,
                      call'[c].task \in Tasks \ (lost \cup edited),
                      run'[q].task = call'[c].task, Begun(q)', origin'[q].occurrence = call'[c].rec.next
               PROVE  call'[c].rec.next = task[call'[c].task].next
    BY <1>1 DEF CallBehind
  <2>1. PICK t \in Tasks \ (lost \cup edited) : t = call'[c].task
    OBVIOUS
  <2> QED
    BY <2>1, ReadingCalls DEF ExecutionInv
<1> QED
  BY <1>1, <1>2, <1>4, <1>5 DEF OccurrenceInv

\* A step that opens a row.
LEMMA OpeningOccurrence ==
  ASSUME TypeInv, TypeOK', ExecutionInv, Moved, TaskStep, Marking, NEW x \in Runs, Opening(x),
         \A t \in Tasks : Timely(t)
  PROVE  OccurrenceInv'
<1>1. TypeOK /\ JobsInv /\ lost' = lost /\ edited' = edited /\ stale' = stale /\ call' = call
  BY DEF TypeInv, Marking
<1>2. \A t \in Tasks \ (lost \cup edited) : OnceAt(t)'
  BY OpeningOnce DEF ExecutionInv, OccurrenceInv
<1>3. ~\E u \in Tasks, r \in Unused : Starting(u, r)
  BY TasksAssumption DEF Opening, Starting, Unused
<1>4. \A j \in Jobs \ stale' : job'[j].stage \in {"storing", "failed"} =>
        /\ j \notin stale /\ job'[j] = job[j] /\ TaskOf(j)' = TaskOf(j) /\ TaskOf(j) \in Tasks
  BY <1>1, TaskOfStays DEF Marking, Held
<1>5. \A t \in Tasks : task'[t].next = task[t].next
  BY <1>1, Marked
<1>6. \A c \in Callers : call[c].task # NoTask => call[c].task \in Tasks
  BY <1>1 DEF TypeOK, Call
<1>7. (JobBehind /\ CallBehind)'
  BY <1>1, <1>3, <1>4, <1>5, <1>6, SameBehind DEF ExecutionInv
<1> QED
  BY <1>1, <1>2, <1>7 DEF OccurrenceInv

\* What a save leaves of the copies of the other tasks.
LEMMA SavingBehind ==
  ASSUME TypeInv, OccurrenceInv, Moved, TaskStep, NEW w, NEW t, NEW rec, Saving(w, t, rec),
         edited \subseteq edited', ~\E u \in Tasks, r \in Unused : Starting(u, r)
  PROVE  (JobBehind /\ CallBehind)'
<1>1. lost \subseteq lost'
  BY SaveType DEF Saving, TypeInv
<1>2. \A j \in Jobs \ stale' : job'[j].stage \in {"storing", "failed"} =>
        /\ j \notin stale /\ job'[j] = job[j] /\ TaskOf(j)' = TaskOf(j)
        /\ task'[TaskOf(j)].next = task[TaskOf(j)].next
  BY Overtaken DEF Held
<1>3. \A c \in Callers \ stale' : call'[c].task # NoTask =>
        /\ c \notin stale /\ call'[c] = call[c]
        /\ task'[call[c].task].next = task[call[c].task].next
  BY Overtaken
<1> QED
  BY <1>1, <1>2, <1>3, SameBehind

\* A step of a job that saves its task.
LEMMA JobOccurrence ==
  ASSUME TypeInv, TypeOK', CopyInv, ExecutionInv, Moved, TaskStep, NEW j \in Jobs,
         NEW rec \in Task, JobSaves(j, rec), RowSaved(j), \A t \in Tasks : Timely(t),
         NEW t, t = TaskOf(j)
  PROVE  OccurrenceInv'
<1>1. /\ TypeOK /\ Saving(j, t, rec) /\ edited' = edited /\ t \in Tasks
      /\ \A x \in Jobs \ {j} : job'[x] = job[x]
  BY DEF TypeInv, JobSaves, Saving
<1>2. \A u \in Tasks \ {t} : task'[u] = task[u] /\ (u \in lost <=> u \in lost')
  BY <1>1, SaveType DEF Saving
<1>3. ~\E u \in Tasks, r \in Unused : Starting(u, r)
  BY TasksAssumption DEF RowSaved, Starting, Unused
<1>4. ASSUME NEW u \in Tasks \ (lost' \cup edited')
      PROVE  OnceAt(u)'
  <2>1. CASE u = t
    BY <2>1, JobOnce DEF ExecutionInv
  <2>2. CASE u # t
    <3>1. OnceAt(u) /\ task'[u] = task[u]
      BY <1>1, <1>2, <2>2 DEF ExecutionInv, OccurrenceInv
    <3>2. \A r \in Runs : run[r].task = u => Main(r) # j /\ Back(r) # j
      BY <2>2, TasksOfJobs
    <3>3. \A r \in Runs : run[r].task = u => /\ run'[r].state = run[r].state
                                             /\ job'[Main(r)] = job[Main(r)]
      BY <1>1, <3>2, JobNames DEF RowSaved
    <3>4. \A r \in Runs : run'[r].task = run[r].task
      BY DEF RowSaved
    <3> QED
      BY <3>1, <3>3, <3>4, OtherOnce
  <2> QED
    BY <2>1, <2>2
<1>5. (JobBehind /\ CallBehind)'
  BY <1>1, <1>3, SavingBehind DEF ExecutionInv
<1> QED
  BY <1>4, <1>5 DEF OccurrenceInv

\* A call saves its task.
LEMMA CallOccurrence ==
  ASSUME TypeInv, TypeOK', CopyInv, ExecutionInv, Moved, TaskStep, NEW c \in Callers,
         CallSaves(c), Saving(c, call[c].task, call[c].rec), \A t \in Tasks : Timely(t)
  PROVE  OccurrenceInv'
<1>1. /\ TypeOK /\ call[c].task \in Tasks /\ run' = run /\ job' = job /\ edited \subseteq edited'
  BY DEF TypeInv, Saving, CallSaves, CallFrame
<1>2. PICK t, rec, op : t = call[c].task /\ rec = call[c].rec /\ op = call[c].op
  OBVIOUS
<1>3. \A u \in Tasks \ {t} : task'[u] = task[u] /\ (u \in lost <=> u \in lost')
  BY <1>1, <1>2, SaveType DEF Saving
<1>4. ~\E u \in Tasks, r \in Unused : Starting(u, r)
  BY <1>1, TasksAssumption DEF Starting, Unused
<1>5. ASSUME NEW u \in Tasks \ (lost' \cup edited')
      PROVE  OnceAt(u)'
  <2>1. CASE u = t
    BY <1>2, <2>1, CallOnce DEF ExecutionInv
  <2>2. CASE u # t
    <3>1. OnceAt(u) /\ task'[u] = task[u]
      BY <1>1, <1>3, <2>2 DEF ExecutionInv, OccurrenceInv
    <3> QED
      BY <1>1, <3>1, OtherOnce
  <2> QED
    BY <2>1, <2>2
<1>6. (JobBehind /\ CallBehind)'
  BY <1>1, <1>4, SavingBehind DEF ExecutionInv
<1> QED
  BY <1>5, <1>6 DEF OccurrenceInv

\* A task is created.
LEMMA CreatingOccurrence ==
  ASSUME TypeInv, TypeOK', ExecutionInv, Moved, TaskStep, NEW t \in Tasks, Creating(t),
         UNCHANGED <<passed, turn, origin>>, occurrence' = [occurrence EXCEPT ![t] = 1]
  PROVE  OccurrenceInv'
<1>1. /\ TypeOK /\ JobsInv /\ TasksInv /\ UNCHANGED <<job, run, call, stale, lost, edited>>
      /\ \A u \in Tasks \ {t} : task'[u] = task[u] /\ occurrence'[u] = occurrence[u]
  BY DEF TypeInv, TypeOK, Creating
<1>2. /\ \A r \in Runs : run[r].task # t
      /\ \A c \in Callers : call[c].task # t
      /\ \A j \in Jobs : job[j].stage # "none" => TaskOf(j) # t
  BY <1>1, TaskExists DEF Creating, TasksInv
<1>3. \A r \in Runs : (Begun(r)' <=> Begun(r)) /\ (Executing(r)' <=> Executing(r))
  BY <1>1 DEF Begun, Executing
<1>4. \A j \in Jobs : TaskOf(j)' = TaskOf(j)
  BY <1>1 DEF TaskOf
<1>5. ASSUME NEW u \in Tasks \ (lost \cup edited)
      PROVE  OnceAt(u)'
  <2>1. CASE u = t
    BY <1>1, <1>2, <2>1 DEF OnceAt
  <2>2. CASE u # t
    <3>1. OnceAt(u) /\ task'[u] = task[u] /\ Timely(u)
      BY <1>1, <2>2, NoTimeTimely DEF ExecutionInv, OccurrenceInv
    <3> QED
      BY <1>1, <1>3, <3>1, KeepsOnce DEF OnceAt
  <2> QED
    BY <2>1, <2>2
<1>6. JobBehind'
  BY <1>1, <1>2, <1>3, <1>4, BegunTask DEF ExecutionInv, OccurrenceInv, JobBehind
<1>7. CallBehind'
  BY <1>1, <1>2, <1>3 DEF ExecutionInv, OccurrenceInv, CallBehind
<1> QED
  BY <1>1, <1>5, <1>6, <1>7 DEF OccurrenceInv

\* Whatever the step.
LEMMA NextExecution ==
  ASSUME TypeInv, CopyInv, ExecutionInv, [Next]_vars
  PROVE  ExecutionInv'
<1>1. TypeOK /\ TypeOK' /\ TypeInv' /\ Moved /\ TaskStep
  BY NextTypeInv DEF TypeInv
<1>2. OwnerInv'
  BY NextOwner DEF ExecutionInv
<1>3. ScheduleInv' /\ StoppedInv' /\ AdvancedInv'
  BY <1>1, NextSchedule, NextStopped, NextAdvanced DEF ExecutionInv
<1>4. OccurrenceInv'
  <2>1. CASE Reading /\ (\A t \in Tasks : Timely(t)) /\ (Kept \/ \E u \in Tasks, x \in Unused : Starting(u, x))
    BY <1>1, <2>1, ReadingOccurrence
  <2>2. CASE Marking /\ (\A t \in Tasks : Timely(t)) /\ \E r \in Runs : Opening(r)
    BY <1>1, <2>2, OpeningOccurrence
  <2>3. CASE /\ \A t \in Tasks : Timely(t)
             /\ \E j \in Jobs, rec \in Task : JobSaves(j, rec) /\ RowSaved(j)
    BY <1>1, <2>3, JobOccurrence
  <2>4. CASE /\ \A t \in Tasks : Timely(t)
             /\ \E c \in Callers : CallSaves(c) /\ Saving(c, call[c].task, call[c].rec)
    BY <1>1, <2>4, CallOccurrence
  <2>5. CASE \E t \in Tasks : /\ Creating(t) /\ UNCHANGED <<passed, turn, origin>>
                              /\ occurrence' = [occurrence EXCEPT ![t] = 1]
    BY <1>1, <2>5, CreatingOccurrence
  <2> QED
    BY <1>1, <2>1, <2>2, <2>3, <2>4, <2>5 DEF TaskStep
<1> QED
  BY <1>2, <1>3, <1>4 DEF ExecutionInv

\* An occurrence of a schedule is executed by one run only, whatever resets,
\* failures, pauses and late results come between, of a task none of whose copies
\* was lost and whose approval setting the user did not change.
THEOREM OccurrencesRunOnce == Spec => []OccurrenceRunsOnce
<1>1. ASSUME Init PROVE ExecutionInv
  <2>1. /\ \A r \in Runs : /\ run[r].state = "none" /\ ~Begun(r)
                           /\ job[Main(r)].stage = "none"
        /\ \A t \in Tasks : /\ task[t].next = 0 /\ occurrence[t] = 0
        /\ \A c \in Callers : call[c].task = NoTask
    BY <1>1, Blank, JobNames DEF Init, NoTaskRow, Begun
  <2>2. OwnerInv
    BY <2>1 DEF OwnerInv, OneOpen, Owned
  <2>3. ScheduleInv /\ StoppedInv /\ AdvancedInv
    BY <2>1 DEF ScheduleInv, StoppedInv, AdvancedInv
  <2>4. OccurrenceInv
    BY <2>1 DEF OccurrenceInv, OnceAt, JobBehind, CallBehind
  <2> QED
    BY <2>2, <2>3, <2>4 DEF ExecutionInv
<1>2. TypeInv /\ CopyInv /\ ExecutionInv /\ [Next]_vars => ExecutionInv'
  BY NextExecution
<1>3. ExecutionInv => OccurrenceRunsOnce
  BY DEF ExecutionInv, OccurrenceInv, OnceAt, Begun, OccurrenceRunsOnce
<1> QED
  BY <1>1, <1>2, <1>3, CopyInvHolds, PTL DEF Spec

=============================================================================
