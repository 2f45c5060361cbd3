------------------------------ MODULE ToolCalls ------------------------------
(***************************************************************************)
(* How the tool calls of one user object execute, over every session and   *)
(* run: the write-ahead marks and the resume policy                        *)
(* (core/middlewares/tool-marks.ts), the lanes (core/tool-scheduler.ts),   *)
(* the write claims (core/middlewares/tool-execution.ts) and their two     *)
(* tables (do/run-store.ts).                                               *)
(*                                                                         *)
(* A call passes marks, then its lane, then its claim, then the tool; it   *)
(* unwinds the same way.  `mark`, `claim`, `run` and `persisted` survive a *)
(* reset of the object, the rest is memory or history.                     *)
(*                                                                         *)
(* Abstracted: a fingerprint is the member of Ops two calls share when     *)
(* name, canonical arguments and (for a frontend write) session agree; a   *)
(* tool's answer is what isUncertainOutcome / uncertainResultReason make   *)
(* of it; the turn's budget is its abort signal (its deadline) and a       *)
(* refusal at the slot; the retention of old claims never passes.          *)
(***************************************************************************)
EXTENDS Naturals, FiniteSets

CONSTANTS
  Runs,         \* run ids
  Sessions,     \* chat sessions
  Calls,        \* tool call ids (an inner call's is scoped to its dispatch)
  Ops,          \* write fingerprints
  NoCall,       \* no parent: a call of the main agent
  NoRun,        \* no owner: the claim row is absent
  SessionOf,    \* [Runs -> Sessions]
  RunOf,        \* [Calls -> Runs]
  OpOf,         \* [Calls -> Ops]
  KindOf,       \* [Calls -> Kinds]: effect and surface of the tool
  ParentOf,     \* [Calls -> Calls or NoCall]: the dispatch an inner call is of
  MaxReads,     \* slots of the read lane
  MaxSubagents, \* slots of a session's sub-agent lane
  MaxCrashes,   \* bound: resets of the object
  MaxStoreErrors \* bound: rejected writes to the two tables

\* A frontend tool acts in the user's browser, and is claimed by its effect.
Kinds == {"read", "write", "frontendRead", "frontendWrite", "dispatch"}

ASSUME CallsAssumption ==
  /\ SessionOf \in [Runs -> Sessions]
  /\ RunOf \in [Calls -> Runs]
  /\ OpOf \in [Calls -> Ops]
  /\ KindOf \in [Calls -> Kinds]
  /\ ParentOf \in [Calls -> Calls \cup {NoCall}]
  /\ NoCall \notin Calls
  /\ NoRun \notin Runs

ASSUME LimitsAssumption ==
  /\ MaxReads \in Nat \ {0}
  /\ MaxSubagents \in Nat \ {0}
  /\ MaxCrashes \in Nat
  /\ MaxStoreErrors \in Nat

VARIABLES
  run,         \* [Runs -> RunStatus]: the turn_runs row
  aborted,     \* the runs whose abort signal fired
  mark,        \* [Calls -> Marks]: the turn_tool_marks row
  claim,       \* [Ops -> Claim]: the turn_write_claims row
  pc,          \* [Calls -> Steps]: the await each call is in
  result,      \* [Calls -> Results]: what the model is (or will be) told
  retried,     \* reads the retry middleware ran a second time
  active,      \* [Lanes -> Nat]: Lane.active
  place,       \* [Calls -> Nat]: place in Lane.waiting, 0 when not in it
  sending,     \* markSent writes under way
  persisted,   \* calls whose result the graph has persisted
  crashes,     \* resets so far
  storeErrors, \* rejected writes so far
  effects,     \* history: how often each call reached the outside
  open,        \* history: calls that did, with nobody knowing how it ended
  refused      \* history: [Ops -> SUBSET Runs]: runs refused it since then

lanes   == <<active, place>>
ledger  == <<mark, claim>>
history == <<effects, open, refused>>
faults  == <<crashes, storeErrors>>
vars == <<run, aborted, ledger, pc, result, retried, lanes, sending,
          persisted, faults, history>>

-----------------------------------------------------------------------------
RunStatus == {"new", "running", "recovering", "over"}
Live      == {"running", "recovering"}
Marks     == {"none", "open", "sent", "done"}
Results   == {"none", "ok", "error", "unknown", "blocked", "interrupted"}

\* Steps that hold a slot, in order, and the others.
Holding == {"granted", "claiming", "inspecting", "warning", "taking",
            "running", "parked", "sent", "returned", "releasing"}
Steps   == Holding \cup {"idle", "marking", "entering", "waiting", "ending",
                         "settled"}

Claim    == [owner : Runs \cup {NoRun}, state : {"absent", "pending", "warned"}]
NoClaim  == [owner |-> NoRun, state |-> "absent"]

\* effectOf, surfaceOf, and who is claimed (a dispatch is a write by its name,
\* but is never fingerprinted).
IsRead(c)     == KindOf[c] \in {"read", "frontendRead"}
IsFrontend(c) == KindOf[c] \in {"frontendRead", "frontendWrite"}
IsClaimed(c)  == KindOf[c] \in {"write", "frontendWrite"}

\* The fingerprint holds the tool's name, and the session of a frontend write.
ASSUME FingerprintAssumption ==
  \A c, d \in Calls : IsClaimed(c) /\ IsClaimed(d) /\ OpOf[c] = OpOf[d] =>
    /\ KindOf[c] = KindOf[d]
    /\ IsFrontend(c) => SessionOf[RunOf[c]] = SessionOf[RunOf[d]]

\* Only a dispatch has inner calls.
ASSUME DispatchAssumption ==
  \A c \in Calls : ParentOf[c] \in Calls => KindOf[ParentOf[c]] = "dispatch"

\* laneOf: a lane of the user's for plain tools, of the session's for the rest.
UserLanes == {<<"user", "read">>, <<"user", "write">>}
Lanes     == UserLanes \cup (Sessions \X {"frontend", "subagent"})

LaneOf(c) ==
  CASE IsFrontend(c)           -> <<SessionOf[RunOf[c]], "frontend">>
    [] KindOf[c] = "dispatch"  -> <<SessionOf[RunOf[c]], "subagent">>
    [] OTHER                   -> <<"user", KindOf[c]>>

Capacity(l) ==
  CASE l[2] = "read"     -> MaxReads
    [] l[2] = "subagent" -> MaxSubagents
    [] OTHER             -> 1

Init ==
  /\ run = [r \in Runs |-> "new"]
  /\ aborted = {}
  /\ mark = [c \in Calls |-> "none"]
  /\ claim = [o \in Ops |-> NoClaim]
  /\ pc = [c \in Calls |-> "idle"]
  /\ result = [c \in Calls |-> "none"]
  /\ retried = {}
  /\ active = [l \in Lanes |-> 0]
  /\ place = [c \in Calls |-> 0]
  /\ sending = {}
  /\ persisted = {}
  /\ crashes = 0
  /\ storeErrors = 0
  /\ effects = [c \in Calls |-> 0]
  /\ open = {}
  /\ refused = [o \in Ops |-> {}]

-----------------------------------------------------------------------------
(* Lanes *)

Queue(l)  == {c \in Calls : place[c] # 0 /\ LaneOf(c) = l}
Holders(l) == {c \in Calls : pc[c] \in Holding /\ LaneOf(c) = l}

\* Lane.waiting.shift(): the first of the queue.
IsFirst(c, l) == c \in Queue(l) /\ \A x \in Queue(l) : place[c] <= place[x]

\* Mutants of Leave: the slot is taken back and passed on; nobody is woken.
LeaveTwice(c, to) ==
  /\ active' = [active EXCEPT ![LaneOf(c)] = @ - 1]
  /\ \/ /\ Queue(LaneOf(c)) = {}
        /\ pc' = [pc EXCEPT ![c] = to]
        /\ UNCHANGED place
     \/ \E next \in Queue(LaneOf(c)) :
          /\ IsFirst(next, LaneOf(c))
          /\ pc' = [pc EXCEPT ![c] = to, ![next] = "granted"]
          /\ place' = [place EXCEPT ![next] = 0]
LeaveAsleep(c, to) ==
  /\ active' = [active EXCEPT ![LaneOf(c)] = @ - 1]
  /\ pc' = [pc EXCEPT ![c] = to]
  /\ UNCHANGED place

\* c gives its slot back: it passes straight to the next waiter, if any.
Leave(c, to) ==
  LET l == LaneOf(c)
  IN \/ /\ Queue(l) = {}
        /\ active' = [active EXCEPT ![l] = @ - 1]
        /\ pc' = [pc EXCEPT ![c] = to]
        /\ UNCHANGED place
     \/ \E next \in Queue(l) :
          /\ IsFirst(next, l)
          /\ pc' = [pc EXCEPT ![c] = to, ![next] = "granted"]
          /\ place' = [place EXCEPT ![next] = 0]
          /\ UNCHANGED active

Goto(c, to) == pc' = [pc EXCEPT ![c] = to] /\ UNCHANGED lanes

Tell(c, what) == result' = [result EXCEPT ![c] = what]

\* A write to one of the tables is rejected, within the bound.
StoreError == storeErrors < MaxStoreErrors /\ storeErrors' = storeErrors + 1

\* What a call's own steps leave alone.
Rest == UNCHANGED <<run, aborted, persisted, crashes>>

\* The call is over with what.
Settle(c, what) ==
  /\ Goto(c, "settled")
  /\ Tell(c, what)
  /\ UNCHANGED retried

\* Mutant: the retry middleware covers writes.
MayRetryAny(c) ==
  ParentOf[c] = NoCall /\ c \notin retried /\ result[c] \in {"error", "unknown"}

(* The read retry stands between the marks and the lane, round the calls of *)
(* the main agent only: a read whose tool threw queues for a slot again,    *)
(* once, under the mark it has.                                             *)
MayRetry(c) ==
  /\ IsRead(c) /\ ParentOf[c] = NoCall
  /\ c \notin retried
  /\ result[c] \in {"error", "unknown"}

\* The tool's answer leaves its lane, for the marks or for another attempt.
Unwinds(c) ==
  \/ Leave(c, "ending") /\ UNCHANGED retried
  \/ MayRetry(c) /\ Leave(c, "entering") /\ retried' = retried \cup {c}

-----------------------------------------------------------------------------
(* The call starts: its mark, and the resume policy *)

\* The graph runs the call: at its first attempt, or again after a reset when
\* it did not persist its result.  An inner call starts under its dispatch.
Issue(c) ==
  /\ run[RunOf[c]] = "running"
  /\ pc[c] = "idle"
  /\ ParentOf[c] \in Calls => pc[ParentOf[c]] = "running"
  /\ Goto(c, "marking")
  /\ UNCHANGED <<ledger, result, retried, sending, storeErrors, history>>
  /\ Rest

\* Mutant of NeverSent: the mark's sent_at is not looked at.
NeverSentUnlooked(c) == IsFrontend(c) /\ mark[c] \in {"open", "sent"}

\* A frontend call of an earlier attempt that no browser got.
NeverSent(c) == IsFrontend(c) /\ mark[c] = "open"

\* A call seen before runs again only when that repeats nothing.
Reruns(c) == IsRead(c) \/ NeverSent(c)

\* startMark, and bumpMark for a call that runs again.
MarkStarted(c) ==
  /\ pc[c] = "marking"
  /\ mark[c] = "none" \/ Reruns(c)
  /\ mark' = [mark EXCEPT ![c] = "open"]
  /\ Goto(c, "entering")
  /\ UNCHANGED <<claim, result, retried, sending, storeErrors, history>>
  /\ Rest

\* A write an earlier attempt started: its outcome is reported as unknown.
Interrupted(c) ==
  /\ pc[c] = "marking"
  /\ mark[c] # "none" /\ ~Reruns(c)
  /\ mark' = [mark EXCEPT ![c] = "done"]
  /\ Settle(c, "interrupted")
  /\ UNCHANGED <<claim, sending, storeErrors, history>>
  /\ Rest

MarkFails(c) ==
  /\ pc[c] = "marking"
  /\ StoreError
  /\ Settle(c, "error")
  /\ UNCHANGED <<ledger, sending, history>>
  /\ Rest

-----------------------------------------------------------------------------
(* The lane *)

\* The last place taken in the queue of l.
LastPlace(l) ==
  CHOOSE n \in {0} \cup {place[x] : x \in Queue(l)} :
    \A x \in Queue(l) : place[x] <= n

\* budget.check, then Lane.acquire: both refuse an aborted turn.
Enter(c) ==
  LET l == LaneOf(c)
  IN /\ pc[c] = "entering"
     /\ \/ /\ RunOf[c] \in aborted
           /\ Tell(c, "error")
           /\ Goto(c, "ending")
        \/ /\ RunOf[c] \notin aborted
           /\ active[l] < Capacity(l)
           /\ active' = [active EXCEPT ![l] = @ + 1]
           /\ pc' = [pc EXCEPT ![c] = "granted"]
           /\ UNCHANGED <<place, result>>
        \/ /\ RunOf[c] \notin aborted
           /\ active[l] >= Capacity(l)
           /\ place' = [place EXCEPT ![c] = LastPlace(l) + 1]
           /\ pc' = [pc EXCEPT ![c] = "waiting"]
           /\ UNCHANGED <<active, result>>
     /\ UNCHANGED <<ledger, retried, sending, storeErrors, history>>
     /\ Rest

SlotFrame == UNCHANGED <<mark, retried, sending>> /\ Rest

\* reserveTool: the turn was aborted while the slot was on its way, or is over
\* its limit of tools.
SlotRefused(c) ==
  /\ pc[c] = "granted"
  /\ Tell(c, "error")
  /\ Leave(c, "ending")
  /\ UNCHANGED <<claim, storeErrors, history>>
  /\ SlotFrame

-----------------------------------------------------------------------------
(* The claim *)

\* History.  The call reaches the outside: until its outcome is known, nobody
\* can say whether its effect took place.
Reaches(c, unknown) ==
  IF IsRead(c)
    THEN UNCHANGED <<effects, open>>
    ELSE /\ effects' = [effects EXCEPT ![c] = @ + 1]
         /\ open' = IF IsClaimed(c) THEN unknown \cup {c} ELSE unknown

\* The tool is called: a frontend call parks until a browser takes it.  A write
\* let through accounts for the earlier ones of its fingerprint.
Call(c) ==
  LET unknown == IF IsClaimed(c) THEN {x \in open : OpOf[x] # OpOf[c]} ELSE open
  IN /\ refused' = IF IsClaimed(c) THEN [refused EXCEPT ![OpOf[c]] = {}] ELSE refused
     /\ IF IsFrontend(c)
          THEN Goto(c, "parked") /\ open' = unknown /\ UNCHANGED effects
          ELSE Goto(c, "running") /\ Reaches(c, unknown)

SlotUsed(c) ==
  /\ pc[c] = "granted"
  /\ RunOf[c] \notin aborted
  /\ IF IsClaimed(c)
       THEN Goto(c, "claiming") /\ UNCHANGED history
       ELSE Call(c)
  /\ UNCHANGED <<claim, result, storeErrors>>
  /\ SlotFrame

\* claimWrite: INSERT OR IGNORE.
ClaimInsert(c) ==
  LET o == OpOf[c]
  IN /\ pc[c] = "claiming"
     /\ IF claim[o] = NoClaim
          THEN /\ claim' = [claim EXCEPT ![o] = [owner |-> RunOf[c], state |-> "pending"]]
               /\ Call(c)
          ELSE /\ Goto(c, "inspecting")
               /\ UNCHANGED <<claim, history>>
     /\ UNCHANGED <<result, storeErrors>>
     /\ SlotFrame

\* The write is refused: its outcome is unknown to whoever asks.
Block(c) ==
  /\ Tell(c, "blocked")
  /\ refused' = [refused EXCEPT ![OpOf[c]] = @ \cup {RunOf[c]}]
  /\ UNCHANGED <<effects, open>>
  /\ Leave(c, "ending")

\* claimWrite: the row that was in the way, as getClaim reads it.
ClaimRead(c) ==
  LET o == OpOf[c]
  IN /\ pc[c] = "inspecting"
     /\ \/ claim[o] = NoClaim /\ Call(c) /\ UNCHANGED result
        \/ /\ claim[o].state = "warned" /\ claim[o].owner # RunOf[c]
           /\ Goto(c, "taking")
           /\ UNCHANGED <<result, history>>
        \/ claim[o].state = "warned" /\ claim[o].owner = RunOf[c] /\ Block(c)
        \/ /\ claim[o].state = "pending"
           /\ Goto(c, "warning")
           /\ UNCHANGED <<result, history>>
     /\ UNCHANGED <<claim, storeErrors>>
     /\ SlotFrame

\* The user was warned and asked again: the claim passes to this run.
ClaimTake(c) ==
  LET o == OpOf[c]
  IN /\ pc[c] = "taking"
     /\ claim' = IF claim[o] = NoClaim THEN claim
                 ELSE [claim EXCEPT ![o] = [owner |-> RunOf[c], state |-> "pending"]]
     /\ Call(c)
     /\ UNCHANGED <<result, storeErrors>>
     /\ SlotFrame

\* Mutant of MayWarn: the claim of an active run is taken over as well.
MayWarnAny(c) == claim[OpOf[c]].state = "pending"

\* The claim of this run, or of a run that is over (read where it is written).
MayWarn(c) ==
  LET held == claim[OpOf[c]]
  IN /\ held.state = "pending"
     /\ held.owner = RunOf[c] \/ run[held.owner] \notin Live

ClaimWarn(c) ==
  LET o == OpOf[c]
  IN /\ pc[c] = "warning"
     /\ claim' = IF MayWarn(c)
                   THEN [claim EXCEPT ![o] = [owner |-> RunOf[c], state |-> "warned"]]
                   ELSE claim
     /\ Block(c)
     /\ UNCHANGED storeErrors
     /\ SlotFrame

ClaimFails(c) ==
  /\ pc[c] \in {"claiming", "inspecting", "taking", "warning"}
  /\ StoreError
  /\ Tell(c, "error")
  /\ Leave(c, "ending")
  /\ UNCHANGED <<claim, history>>
  /\ SlotFrame

-----------------------------------------------------------------------------
(* The tool *)

\* The tool's answer; out is what it says of the outcome.
Answer(c, out) ==
  /\ Goto(c, "returned")
  /\ Tell(c, out)
  /\ open' = IF out = "unknown" THEN open ELSE open \ {c}
  /\ UNCHANGED <<effects, refused, claim, storeErrors>>

\* A plain tool returns or throws; a dispatch returns once its inner calls
\* have, or when the turn is aborted.
Returns(c, out) ==
  /\ pc[c] = "running"
  /\ KindOf[c] = "dispatch" /\ RunOf[c] \notin aborted =>
       \A x \in Calls : ParentOf[x] = c => pc[x] \in {"idle", "settled"}
  /\ out \in {"ok", "error", "unknown"}
  /\ Answer(c, out)
  /\ SlotFrame

\* A socket of the session takes the call; markSent is not awaited.
Dispatched(c) ==
  /\ pc[c] = "parked"
  /\ Goto(c, "sent")
  /\ Reaches(c, open)
  /\ sending' = sending \cup {c}
  /\ UNCHANGED <<refused, ledger, result, retried, storeErrors>>
  /\ Rest

\* The park deadline, or no browser: never sent, a known outcome.
Unsent(c) ==
  /\ pc[c] = "parked"
  /\ Answer(c, "error")
  /\ SlotFrame

\* The socket answers, goes, or the call's deadline passes.
Answered(c, out) ==
  /\ pc[c] = "sent"
  /\ out \in {"ok", "error", "unknown"}
  /\ Answer(c, out)
  /\ SlotFrame

\* An inner call's id names no mark: its report updates no row.
MarkSent(c) ==
  /\ c \in sending
  /\ sending' = sending \ {c}
  /\ mark' = IF mark[c] = "open" /\ ParentOf[c] = NoCall
               THEN [mark EXCEPT ![c] = "sent"] ELSE mark
  /\ UNCHANGED <<claim, pc, result, retried, lanes, storeErrors, history>>
  /\ Rest

MarkSentFails(c) ==
  /\ c \in sending
  /\ StoreError
  /\ sending' = sending \ {c}
  /\ UNCHANGED <<ledger, pc, result, retried, lanes, history>>
  /\ Rest

\* Mutant of Uncertain: a claim is released however the write ended.
UncertainNever(c) == ~IsClaimed(c)

\* Nothing to release, or nothing known: the claim, if any, stays.
Uncertain(c) == ~IsClaimed(c) \/ result[c] = "unknown"

Unwind(c) ==
  /\ pc[c] = "returned"
  /\ IF Uncertain(c) THEN Unwinds(c) ELSE Goto(c, "releasing") /\ UNCHANGED retried
  /\ UNCHANGED <<mark, claim, result, sending, storeErrors, history>>
  /\ Rest

\* releaseWrite: DELETE of this run's own claim.  (The connection runs its
\* statements in order: markSent is written before what the call writes next.)
Released(c) ==
  IF claim[OpOf[c]].owner = RunOf[c] THEN [claim EXCEPT ![OpOf[c]] = NoClaim] ELSE claim

Release(c) ==
  /\ pc[c] = "releasing"
  /\ c \notin sending
  /\ claim' = Released(c)
  /\ Unwinds(c)
  /\ UNCHANGED <<mark, result, sending, storeErrors, history>>
  /\ Rest

\* A rejected release turns the answer into an error; a second one is tried.
ReleaseFails(c) ==
  /\ pc[c] = "releasing"
  /\ c \notin sending
  /\ StoreError
  /\ claim' \in {claim, Released(c)}
  /\ Tell(c, "error")
  /\ Leave(c, "ending")
  /\ UNCHANGED history
  /\ SlotFrame

\* finishMark.
Finish(c) ==
  /\ pc[c] = "ending"
  /\ c \notin sending
  /\ mark' = [mark EXCEPT ![c] = "done"]
  /\ Settle(c, result[c])
  /\ UNCHANGED <<claim, sending, storeErrors, history>>
  /\ Rest

\* A rejected finishMark turns the answer into an error; a second one is tried.
FinishFails(c) ==
  /\ pc[c] = "ending"
  /\ c \notin sending
  /\ StoreError
  /\ mark' \in {mark, [mark EXCEPT ![c] = "done"]}
  /\ Settle(c, "error")
  /\ UNCHANGED <<claim, sending, history>>
  /\ Rest

-----------------------------------------------------------------------------
(* Runs, stops and resets *)

\* The graph stores the result of a call of its own; a dispatch's inner graph
\* stores nothing.
Persist(c) ==
  /\ pc[c] = "settled"
  /\ ParentOf[c] = NoCall
  /\ c \notin persisted
  /\ persisted' = persisted \cup {c}
  /\ UNCHANGED <<run, aborted, ledger, pc, result, retried, lanes, sending, faults,
                 history>>

RunFrame == UNCHANGED <<ledger, retried, sending, persisted, storeErrors, effects,
                        refused>>

\* A run of a session starts (or resumes) when no other is under way: what the
\* coordinator sees to, but for the overlap OneRunPerSession excepts there.
Start(r) ==
  /\ run[r] \in {"new", "recovering"}
  /\ \A x \in Runs \ {r} : SessionOf[x] = SessionOf[r] => run[x] \notin Live
  /\ run' = [run EXCEPT ![r] = "running"]
  /\ UNCHANGED <<aborted, pc, result, lanes, open, crashes>>
  /\ RunFrame

\* The signal fires: waiters leave their queue, a parked call is known not to
\* have run, a sent one is not.
Abort(r) ==
  LET mine(step) == {c \in Calls : RunOf[c] = r /\ pc[c] = step}
  IN /\ run[r] = "running"
     /\ r \notin aborted
     /\ aborted' = aborted \cup {r}
     /\ pc' = [c \in Calls |->
          CASE c \in mine("waiting") -> "ending"
            [] c \in mine("parked") \cup mine("sent") -> "returned"
            [] OTHER -> pc[c]]
     /\ result' = [c \in Calls |->
          CASE c \in mine("waiting") \cup mine("parked") -> "error"
            [] c \in mine("sent") -> "unknown"
            [] OTHER -> result[c]]
     /\ place' = [c \in Calls |-> IF c \in mine("waiting") THEN 0 ELSE place[c]]
     /\ UNCHANGED <<run, active, open, crashes>>
     /\ RunFrame

\* The run is over when its graph is; after a stop, tools that do not listen
\* to the signal may outlive it.  (A graph that throws while a call of it is
\* still in flight, when a mark is rejected, is left out.)
End(r) ==
  /\ run[r] \in Live
  /\ r \in aborted \/ \A c \in Calls : RunOf[c] = r => pc[c] \in {"idle", "settled"}
  /\ run' = [run EXCEPT ![r] = "over"]
  /\ UNCHANGED <<aborted, pc, result, lanes, open, crashes>>
  /\ RunFrame

\* The object is reset: the rows and the persisted results are left.
Crash ==
  /\ crashes < MaxCrashes
  /\ crashes' = crashes + 1
  /\ run' = [r \in Runs |-> IF run[r] = "running" THEN "recovering" ELSE run[r]]
  /\ aborted' = {}
  /\ pc' = [c \in Calls |-> IF c \in persisted THEN "settled" ELSE "idle"]
  /\ result' = [c \in Calls |-> IF c \in persisted THEN result[c] ELSE "none"]
  /\ retried' = {}
  /\ active' = [l \in Lanes |-> 0]
  /\ place' = [c \in Calls |-> 0]
  /\ sending' = {}
  /\ UNCHANGED <<ledger, persisted, storeErrors, history>>

-----------------------------------------------------------------------------
\* What the code does by itself with a call that is under way.
CallStep(c) ==
  \/ MarkStarted(c) \/ Interrupted(c) \/ Enter(c) \/ SlotRefused(c) \/ SlotUsed(c)
  \/ ClaimInsert(c) \/ ClaimRead(c) \/ ClaimTake(c) \/ ClaimWarn(c)
  \/ \E out \in Results : Returns(c, out) \/ Answered(c, out)
  \/ Unsent(c) \/ Unwind(c) \/ Release(c) \/ Finish(c) \/ MarkSent(c)

StoreFault(c) ==
  \/ MarkFails(c) \/ ClaimFails(c) \/ MarkSentFails(c) \/ ReleaseFails(c)
  \/ FinishFails(c)

Next ==
  \/ \E c \in Calls : \/ Issue(c) \/ CallStep(c) \/ Dispatched(c)
                      \/ StoreFault(c) \/ Persist(c)
  \/ \E r \in Runs : Start(r) \/ Abort(r) \/ End(r)
  \/ Crash

Spec == Init /\ [][Next]_vars

\* The event loop runs every resolved await, and a tool answers (its turn's
\* deadline, its own or its park deadline ends it).
FairSpec == Spec /\ \A c \in Calls : WF_vars(CallStep(c))

-----------------------------------------------------------------------------
(* Properties *)

\* The tables, the lanes and the awaits hold what their types say.
TypeOK ==
  /\ run \in [Runs -> RunStatus]
  /\ aborted \subseteq Runs
  /\ mark \in [Calls -> Marks]
  /\ claim \in [Ops -> Claim]
  /\ pc \in [Calls -> Steps]
  /\ result \in [Calls -> Results]
  /\ retried \subseteq Calls
  /\ active \in [Lanes -> Nat]
  /\ place \in [Calls -> Nat]
  /\ sending \subseteq Calls
  /\ persisted \subseteq Calls
  /\ crashes \in Nat
  /\ storeErrors \in Nat
  /\ effects \in [Calls -> Nat]
  /\ open \subseteq Calls
  /\ refused \in [Ops -> SUBSET Runs]

\* The slots counted are the slots held, never more than there are, and nobody
\* queues beside a free one: whatever the order of grants, stops and returns
\* (Lane.acquire, Lane.release and the abort listener).
SlotsAccounted ==
  \A l \in Lanes :
    /\ active[l] = Cardinality(Holders(l))
    /\ active[l] <= Capacity(l)
    /\ Queue(l) # {} => active[l] = Capacity(l)
    /\ \A c \in Queue(l) : pc[c] = "waiting"

\* A write whose outcome nobody knows is on the books until a run was refused
\* it: in flight, cut off by a reset, or ended by a failure that proves nothing.
UnknownIsClaimed ==
  \A c \in open : claim[OpOf[c]] # NoClaim

\* The claims let a write through in this step.
LetThrough(c) ==
  /\ IsClaimed(c)
  /\ pc[c] \in {"claiming", "inspecting", "taking"}
  /\ pc'[c] \in {"running", "parked"}

\* A write is let through over an identical one of unknown outcome only in a
\* later turn, and after a run other than its own was refused it: the user was
\* told and asked again (claimWrite).
NoBlindRepeat ==
  [][\A c \in Calls : LetThrough(c) =>
       \A x \in open : OpOf[x] = OpOf[c] =>
         /\ RunOf[x] # RunOf[c]
         /\ \E r \in refused[OpOf[c]] : r # RunOf[c]]_vars

\* A write (or a dispatch) reaches the outside at most once per call of the
\* model, across resets and resumes.  Without store errors: a browser write
\* whose markSent was lost, and that was answered, may run again after a reset.
WriteRunsOnce == storeErrors = 0 => \A c \in Calls : effects[c] <= 1

\* Whoever waits in a lane gets a slot or leaves, whatever parks, stops or
\* dispatches hold the lanes.
EveryWaiterIsServed ==
  \A c \in Calls : pc[c] = "waiting" ~> pc[c] # "waiting"

\* "A parked call that was never sent is issued again after a restart"
\* (docs/frontend-bridge.md): false of a write, whose own claim of before the
\* reset refuses it.
ParkedCallRunsAgain ==
  \A c \in Calls :
    /\ IsFrontend(c)
    /\ result[c] = "blocked"
    => \E x \in Calls : OpOf[x] = OpOf[c] /\ effects[x] > 0

=============================================================================
