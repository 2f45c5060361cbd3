----------------------------- MODULE MatrixInbox -----------------------------
(***************************************************************************)
(* A user's room messages from the homeserver to the reply: the gateway's  *)
(* durable inbox and ingest pipeline (matrix/inbox-store.ts, ingest.ts,    *)
(* gateway-do.ts) and the user object's ledger of the messages it was      *)
(* asked to answer (do/matrix-turn-ledger.ts, runTurn of user-oracle-do).  *)
(*                                                                         *)
(* Two Durable Objects, each reset on its own.  The gateway keeps a row    *)
(* per message until its turn has ended; what it does with the message in  *)
(* between (lookups, the debounce buffer, the turn gate, the call of the   *)
(* user object) is memory.  The user object keeps a ledger row per leading *)
(* message of a turn, and the durable run (RunCoordinator) of the turn.    *)
(*                                                                         *)
(* Abstracted: all messages are one speaker's, in one thread; a text is    *)
(* the set of messages it answers; a run is going until it is finished,    *)
(* failed or aborted, and the next run of the session aborts it at once    *)
(* (RunCoordinator has the grace and the queue); sends go to the durable   *)
(* outbox and do not fail; the outbox and the homeserver keep one message  *)
(* per transaction id.  The turn gate is not first come first served.      *)
(* Chat delivery is off (no Reply Plan).  The parts of a reply, cards and  *)
(* channel memory are left out.                                            *)
(***************************************************************************)
EXTENDS Integers, Sequences, FiniteSets, Functions

CONSTANTS
  LastMessage, \* messages are 1..LastMessage, in the order of their ts
  MaxReplays,  \* MAX_TURN_REPLAYS
  Slots,       \* turns the gate lets run at once
  LastRequest, \* bound: requests alive at a time
  MaxRestarts, \* bound: resets, stops and starts in place of the gateway
  MaxResets    \* bound: resets of the user object

ASSUME LimitsAssumption ==
  /\ LastMessage \in Nat \ {0}
  /\ MaxReplays \in Nat
  /\ Slots \in Nat \ {0}
  /\ LastRequest \in Nat \ {0}
  /\ MaxRestarts \in Nat
  /\ MaxResets \in Nat

Messages == 1..LastMessage
Requests == 1..LastRequest
NoRow == -1
Nobody == 0

VARIABLES
  \* the gateway's storage, and the homeserver
  seen,      \* messages the SDK has marked processed and delivered
  inbox,     \* [Messages -> attempts of the row, or NoRow]: turn_inbox
  posted,    \* [Messages -> SUBSET Messages]: the reply under a message's txn id
  \* the gateway's memory
  running,   \* the bot is started
  hook,      \* a start whose onStarted has yet to run
  preparing, \* onMessage calls awaiting their lookups
  buffer,    \* the debounce buffer: the burst, in order; also `debouncing`
  retry,     \* unverifiedEvents: rows waiting for the retry timer
  replay,    \* the replay under way: rows to give up, rows to offer
  request,   \* [Requests -> Request]: turns dispatched, until their row is deleted
  \* the user object's storage
  ledger,    \* [Messages -> Entry]: matrix_turns
  run,       \* [Requests -> Run]: the run of each request
  \* the user object's memory
  matrixTurnRuns, \* [Messages -> request that is running its turn, or Nobody]
  watched,   \* requests whose runTurnOnce is awaiting its run
  \* history
  begun,     \* [Messages -> Nat]: runs begun for a leading message
  raced,     \* messages two calls decided to run at the same time
  lost,      \* messages whose run finished and left its reply with nobody
  stranded,  \* messages a start owed a replay that it did not make
  restarts, resets

gateway == <<running, hook, preparing, buffer, retry, replay>>
room == <<seen, inbox, posted>>
object == <<ledger, run, matrixTurnRuns, watched>>
history == <<begun, raced, lost, stranded, restarts, resets>>
vars == <<room, gateway, request, object, history>>

Stages == {"queued", "start", "begin", "joined", "attached", "posting", "telling", "closing"}

\* A dispatched turn; a request of a gateway that was reset is an orphan.
Request == [stage : Stages, lead : Messages, ids : SUBSET Messages,
            orphan : BOOLEAN, on : Requests \cup {Nobody},
            text : SUBSET Messages, fresh : BOOLEAN]

NoRequest == [stage |-> "none"]

Entry == [state : {"unknown", "started", "answered"},
          request : Requests \cup {Nobody}, text : SUBSET Messages]

Run == [state : {"going", "finished"},
        lead : Messages, text : SUBSET Messages]

NoRun == [state |-> "none"]

\* TypeOK: the tables, the buffers and every call stay in their types.
TypeOK ==
  /\ seen \subseteq Messages
  /\ inbox \in [Messages -> -1..MaxReplays]
  /\ posted \in [Messages -> SUBSET Messages]
  /\ running \in BOOLEAN /\ hook \in BOOLEAN
  /\ preparing \subseteq Messages /\ retry \subseteq Messages
  /\ buffer \in Seq(Messages)
  /\ replay \in [exhausted : SUBSET Messages, rows : SUBSET Messages]
  /\ request \in [Requests -> Request \cup {NoRequest}]
  /\ ledger \in [Messages -> Entry]
  /\ run \in [Requests -> Run \cup {NoRun}]
  /\ matrixTurnRuns \in [Messages -> Requests \cup {Nobody}]
  /\ watched \subseteq Requests
  /\ begun \in [Messages -> Nat]
  /\ raced \subseteq Messages /\ lost \subseteq Messages /\ stranded \subseteq Messages
  /\ restarts \in 0..MaxRestarts /\ resets \in 0..MaxResets

Init ==
  /\ seen = {} /\ inbox = [m \in Messages |-> NoRow]
  /\ posted = [m \in Messages |-> {}]
  /\ running = FALSE /\ hook = FALSE
  /\ preparing = {} /\ buffer = <<>> /\ retry = {}
  /\ replay = [exhausted |-> {}, rows |-> {}]
  /\ request = [d \in Requests |-> NoRequest]
  /\ ledger = [m \in Messages |-> [state |-> "unknown", request |-> Nobody, text |-> {}]]
  /\ run = [r \in Requests |-> NoRun]
  /\ matrixTurnRuns = [m \in Messages |-> Nobody] /\ watched = {}
  /\ begun = [m \in Messages |-> 0]
  /\ raced = {} /\ lost = {} /\ stranded = {}
  /\ restarts = 0 /\ resets = 0

-----------------------------------------------------------------------------
(* The gateway's rows, its buffer and its replays.                          *)

Rows == {m \in Messages : inbox[m] # NoRow}

\* deleteInboxRows
Deleted(rows) == [m \in Messages |-> IF m \in rows THEN NoRow ELSE inbox[m]]

\* Mutant: a replay is not charged to its row.
BumpedNever(rows, table) == table

\* bumpInboxAttempts
Bumped(rows, table) ==
  [m \in Messages |-> IF m \in rows /\ table[m] # NoRow THEN table[m] + 1 ELSE table[m]]

Alive(d) == request[d] # NoRequest /\ ~request[d].orphan

\* inFlightEvents: from the flush of the burst until the rows are deleted.
InFlight == UNION {request[d].ids : d \in {e \in Requests : Alive(e)}}

Replaying == replay.exhausted # {} \/ replay.rows # {}

Oldest(rows) == CHOOSE m \in rows : \A n \in rows : m <= n

\* A message offered twice into one burst counts once here.
Joined(m) == IF m \in Range(buffer) THEN buffer ELSE Append(buffer, m)

Verdicts == {"queued", "unverified", "dropped"}

(* offerInbound: the pipeline queues the message, has no verdict on its     *)
(* sender, or drops it and its row leaves (settleOfferedRow).               *)
Offer(m, verdict) ==
  \/ /\ verdict = "queued"
     /\ buffer' = Joined(m)
     /\ UNCHANGED <<inbox, retry>>
  \/ /\ verdict = "unverified"
     /\ retry' = retry \cup {m}
     /\ UNCHANGED <<inbox, buffer>>
  \/ /\ verdict = "dropped"
     /\ inbox' = Deleted({m})
     /\ UNCHANGED <<buffer, retry>>

(* onMessage: the row is written before anything is awaited.  The SDK      *)
(* delivers a room's timeline in order, each event once.                    *)
Receive(m) ==
  /\ running /\ m \notin seen
  /\ \A n \in 1..(m - 1) : n \in seen
  /\ seen' = seen \cup {m}
  /\ inbox' = [inbox EXCEPT ![m] = 0]
  /\ preparing' = preparing \cup {m}
  /\ UNCHANGED <<posted, running, hook, buffer, retry, replay, request, object, history>>

\* onMessage after its lookups; a lookup that failed gives no verdict either.
Prepared(m, verdict) ==
  /\ m \in preparing
  /\ preparing' = preparing \ {m}
  /\ Offer(m, verdict)
  /\ UNCHANGED <<seen, posted, running, hook, replay, request, object,
                 begun, raced, lost, stranded, restarts, resets>>

\* Mutant: a row that used its replays is replayed once more.
PlanOnceMore(only) ==
  LET todo == (Rows \cap only) \ (InFlight \cup Range(buffer))
      over == {m \in todo : inbox[m] > MaxReplays}
  IN  /\ replay' = [exhausted |-> over, rows |-> todo \ over]
      /\ inbox' = IF over = {} THEN Bumped(todo, inbox) ELSE inbox

(* planInboxReplay over the rows asked for: those in flight or in the       *)
(* buffer are skipped, those that used their replays are given up, and the  *)
(* rest are charged one replay, at once when there is none to give up.      *)
Plan(only) ==
  LET todo == (Rows \cap only) \ (InFlight \cup Range(buffer))
      over == {m \in todo : inbox[m] >= MaxReplays}
  IN  /\ replay' = [exhausted |-> over, rows |-> todo \ over]
      /\ inbox' = IF over = {} THEN Bumped(todo, inbox) ELSE inbox

\* onStarted: every row is replayed, unless a replay is still under way.
OnStarted ==
  /\ hook
  /\ hook' = FALSE
  /\ \/ /\ ~Replaying
        /\ Plan(Messages)
        /\ UNCHANGED stranded
     \/ /\ Replaying
        /\ stranded' = stranded \cup
             (Rows \ (InFlight \cup Range(buffer) \cup preparing \cup retry
                        \cup replay.rows \cup replay.exhausted))
        /\ UNCHANGED <<replay, inbox>>
  /\ UNCHANGED <<seen, posted, running, preparing, buffer, retry, request, object,
                 begun, raced, lost, restarts, resets>>

\* retryUnverifiedLater: the timer replays the rows that had no verdict.
RetryFires ==
  /\ retry # {} /\ ~Replaying
  /\ retry' = {}
  /\ Plan(retry)
  /\ UNCHANGED <<seen, posted, running, hook, preparing, buffer, request, object, history>>

\* replayInbox, a row that used its replays: the notice, and the row leaves.
GiveUp ==
  /\ replay.exhausted # {}
  /\ LET m == Oldest(replay.exhausted)
         rest == replay.exhausted \ {m}
     IN  /\ replay' = [replay EXCEPT !.exhausted = rest]
         /\ inbox' = IF rest = {} THEN Bumped(replay.rows, Deleted({m})) ELSE Deleted({m})
  /\ UNCHANGED <<seen, posted, running, hook, preparing, buffer, retry, request, object,
                 history>>

(* replayInbox, the next row after its lookups.  The row is offered as it   *)
(* was listed, even if a turn has answered the message meanwhile.           *)
ReplayOffer(verdict) ==
  /\ replay.exhausted = {} /\ replay.rows # {}
  /\ LET m == Oldest(replay.rows)
     IN  /\ replay' = [replay EXCEPT !.rows = @ \ {m}]
         /\ Offer(m, verdict)
  /\ UNCHANGED <<seen, posted, running, hook, preparing, request, object,
                 begun, raced, lost, stranded, restarts, resets>>

Start ==
  /\ ~running
  /\ running' = TRUE
  /\ hook' = TRUE
  /\ UNCHANGED <<room, preparing, buffer, retry, replay, request, object, history>>

\* A new device is started without a stop (a rotation).
Rotate ==
  /\ running /\ restarts < MaxRestarts
  /\ hook' = TRUE
  /\ restarts' = restarts + 1
  /\ UNCHANGED <<room, running, preparing, buffer, retry, replay, request, object,
                 begun, raced, lost, stranded, resets>>

\* stop: the buffers and the retry timer are dropped, what is awaited goes on.
Stop ==
  /\ running /\ restarts < MaxRestarts
  /\ restarts' = restarts + 1
  /\ running' = FALSE
  /\ buffer' = <<>>
  /\ retry' = {}
  /\ UNCHANGED <<room, hook, preparing, replay, request, object,
                 begun, raced, lost, stranded, resets>>

(* A reset of the gateway: its memory is gone.  A call under way in the     *)
(* user object is left without anyone to answer.                            *)
InCall == {"start", "begin", "joined", "attached"}

GatewayReset ==
  /\ restarts < MaxRestarts
  /\ restarts' = restarts + 1
  /\ running' = FALSE /\ hook' = FALSE
  /\ preparing' = {} /\ buffer' = <<>> /\ retry' = {}
  /\ replay' = [exhausted |-> {}, rows |-> {}]
  /\ request' = [d \in Requests |->
       IF request[d].stage \in {"start", "begin"}
       THEN [request[d] EXCEPT !.orphan = TRUE] ELSE NoRequest]
  /\ UNCHANGED <<room, object, begun, raced, lost, stranded, resets>>

-----------------------------------------------------------------------------
(* A turn: from the flush of a burst to the deletion of its rows.           *)

\* A request id nothing refers to (in the code each is a fresh random id).
Unused(d) ==
  /\ request[d] = NoRequest /\ run[d] = NoRun
  /\ \A m \in Messages : ledger[m].request # d

Fresh == CHOOSE d \in Requests : Unused(d)

\* The message the turn is known by at the user object: turn.eventIds[0].
EventOf(burst) == burst[1]

\* flush and dispatchTurn: the burst is one turn, queued behind the gate.
Flush ==
  /\ buffer # <<>>
  /\ \E d \in Requests : Unused(d)
  /\ request' = [request EXCEPT ![Fresh] =
       [stage |-> "queued", lead |-> EventOf(buffer), ids |-> Range(buffer), orphan |-> FALSE,
        on |-> Nobody, text |-> {}, fresh |-> FALSE]]
  /\ buffer' = <<>>
  /\ UNCHANGED <<room, running, hook, preparing, retry, replay, object, history>>

\* Turns that hold a slot of the gate.
Gated == {d \in Requests : Alive(d) /\ request[d].stage # "queued"}

TakesSlot(d) ==
  /\ Alive(d) /\ request[d].stage = "queued"
  /\ Cardinality(Gated) < Slots

Closed(d) == [request EXCEPT ![d] = NoRequest]

\* The turn has ended: its rows have done their job.
EndsTurn(d) ==
  /\ request' = Closed(d)
  /\ inbox' = Deleted(request[d].ids)

\* The group-chat gate leaves the message unanswered.
Silent(d) ==
  /\ TakesSlot(d)
  /\ EndsTurn(d)
  /\ UNCHANGED <<seen, posted, gateway, object, history>>

(* The turn of d with its answer: a reply, or none; an orphan's goes        *)
(* nowhere.                                                                 *)
Replied(d, text, fresh) ==
  IF request[d].orphan THEN NoRequest
  ELSE [request[d] EXCEPT !.stage = "posting", !.text = text, !.fresh = fresh, !.on = Nobody]

Refused(d) ==
  IF request[d].orphan THEN NoRequest ELSE [request[d] EXCEPT !.stage = "telling", !.on = Nobody]

\* An orphan does not wait: the run goes on without it (waitUntil).
WaitsOn(d, r, how) ==
  IF request[d].orphan THEN NoRequest ELSE [request[d] EXCEPT !.stage = how, !.on = r]

\* Mutant: a turn that was started and not answered is run again.
DecisionRerun(m) == IF ledger[m].state = "answered" THEN "answered" ELSE "run"

\* decideMatrixTurn
Decision(m) ==
  CASE ledger[m].state = "unknown" -> "run"
    [] ledger[m].state = "started" -> "interrupted"
    [] ledger[m].state = "answered" -> "answered"

\* Mutant: whatever is left of a run that is over answers.
AttachedAny(d, r) ==
  CASE r \in Requests /\ run[r].state = "going" -> WaitsOn(d, r, "attached")
    [] r \in Requests /\ run[r].state = "finished" -> Replied(d, run[r].text, FALSE)
    [] OTHER -> Replied(d, {}, FALSE)

(* attachToRun: a going run is waited for, a finished one answers with the  *)
(* text its row holds.                                                      *)
Attached(d, r) ==
  CASE r \in Requests /\ run[r].state = "going" -> WaitsOn(d, r, "attached")
    [] r \in Requests /\ run[r].state = "finished" -> Replied(d, run[r].text, FALSE)
    [] OTHER -> Refused(d)

(* dispatchTurnNow and runTurn up to its decision: a turn running in this   *)
(* instance is joined, else the ledger decides.  Two calls may both have    *)
(* read the ledger before either writes to it: they await the same boot,    *)
(* or the fetch of a cold page.                                             *)
Decide(d) ==
  LET m == request[d].lead
  IN  /\ TakesSlot(d)
      /\ IF matrixTurnRuns[m] # Nobody
         THEN /\ request' = [request EXCEPT ![d] = WaitsOn(d, matrixTurnRuns[m], "joined")]
              /\ UNCHANGED raced
         ELSE \/ /\ Decision(m) = "run"
                 /\ request' = [request EXCEPT ![d].stage = "start"]
                 /\ raced' = IF \E e \in Requests : /\ request[e].stage \in {"start", "begin"}
                                                    /\ request[e].lead = m
                              THEN raced \cup {m} ELSE raced
              \/ /\ Decision(m) = "answered"
                 /\ request' = [request EXCEPT ![d] = Replied(d, ledger[m].text, FALSE)]
                 /\ UNCHANGED raced
              \/ /\ Decision(m) = "interrupted"
                 /\ request' = [request EXCEPT ![d] = Attached(d, ledger[m].request)]
                 /\ UNCHANGED raced
      /\ UNCHANGED <<room, gateway, object, begun, lost, stranded, restarts, resets>>

\* The user object fails to boot for the call.
BootFails(d) ==
  /\ TakesSlot(d)
  /\ request' = [request EXCEPT ![d] = Refused(d)]
  /\ UNCHANGED <<room, gateway, object, history>>

\* ledger.start: INSERT OR IGNORE.
StartTurn(d) ==
  /\ request[d].stage = "start"
  /\ LET m == request[d].lead
     IN  ledger' = IF ledger[m].state = "unknown"
                   THEN [ledger EXCEPT ![m].state = "started", ![m].request = d]
                   ELSE ledger
  /\ request' = [request EXCEPT ![d].stage = "begin"]
  /\ UNCHANGED <<room, gateway, run, matrixTurnRuns, watched, history>>

(* The turn of d once these runs have ended.  One that joined a run has its *)
(* reply or its error, and ends with a run that was aborted; one that       *)
(* attached is refused unless there is a reply.                             *)
After(d, runs, outcome) ==
  CASE request[d].stage \notin {"joined", "attached"} \/ request[d].on \notin runs -> request[d]
    [] OTHER ->
       CASE outcome = "finished" -> Replied(d, run[request[d].on].text, d = request[d].on)
         [] outcome = "aborted" /\ request[d].stage = "joined" -> NoRequest
         [] OTHER -> Refused(d)

(* The rows of the turns that joined these runs: when a run is aborted they *)
(* leave without a word (isAbortError).                                     *)
JoinedRows(runs) ==
  UNION {request[d].ids : d \in {e \in Requests :
    request[e].stage = "joined" /\ request[e].on \in runs}}

(* runTurnOnce: the run begins and is the running turn of its message.  It  *)
(* supersedes the run of the session that is going, whose end takes its     *)
(* message off the running turns, whichever run of it the map holds.        *)
BeginRun(d) ==
  LET m == request[d].lead
      superseded == {r \in Requests : run[r].state = "going"}
      ended == {run[r].lead : r \in superseded \cap watched}
  IN  /\ request[d].stage = "begin"
      /\ run' = [r \in Requests |->
           IF r = d THEN [state |-> "going", lead |-> m, text |-> request[d].ids]
           ELSE IF r \in superseded THEN NoRun ELSE run[r]]
      /\ request' = [e \in Requests |->
           IF e = d THEN WaitsOn(d, d, "joined") ELSE After(e, superseded, "aborted")]
      /\ inbox' = Deleted(JoinedRows(superseded))
      /\ matrixTurnRuns' = [n \in Messages |->
           IF n \in ended THEN Nobody ELSE IF n = m THEN d ELSE matrixTurnRuns[n]]
      /\ watched' = (watched \ superseded) \cup {d}
      /\ begun' = [begun EXCEPT ![m] = @ + 1]
      /\ UNCHANGED <<seen, posted, gateway, ledger, raced, lost, stranded, restarts, resets>>

(* What is left of a run that ends (finalize) and that nobody awaits: of a  *)
(* finished one the row, without its text unless the client is a channel.   *)
LeftOf(r, outcome) ==
  IF outcome = "finished" /\ ledger[run[r].lead].request = r
  THEN [run[r] EXCEPT !.state = "finished", !.text = {}] ELSE NoRun

(* The durable run ends (RunCoordinator).  If the object that began it is   *)
(* still up, runTurnOnce records the reply; else only its attached turns    *)
(* get it.  A user's stop aborts it, and so does, for the gateway, a        *)
(* failure whose message says "abort".                                      *)
RunEnds(r, outcome) ==
  LET m == run[r].lead
      replies == outcome = "finished"
  IN  /\ run[r].state = "going"
      /\ \/ /\ r \in watched
            /\ run' = [run EXCEPT ![r] = NoRun]
            /\ ledger' = IF replies THEN [ledger EXCEPT ![m] =
                           [state |-> "answered", request |-> Nobody, text |-> run[r].text]]
                         ELSE ledger
            /\ matrixTurnRuns' = [matrixTurnRuns EXCEPT ![m] = Nobody]
            /\ UNCHANGED lost
         \/ /\ r \notin watched
            /\ run' = [run EXCEPT ![r] = LeftOf(r, outcome)]
            /\ lost' = IF replies THEN lost \cup {m} ELSE lost
            /\ UNCHANGED <<ledger, matrixTurnRuns>>
      /\ watched' = watched \ {r}
      /\ request' = [d \in Requests |-> After(d, {r}, outcome)]
      /\ inbox' = IF outcome = "aborted" THEN Deleted(JoinedRows({r})) ELSE inbox
      /\ UNCHANGED <<seen, posted, gateway, begun, raced, stranded, restarts, resets>>

\* The transaction id of the reply: a second send under it is dropped.
ReplyKey(d) == request[d].lead

\* sendText: the reply goes to the outbox; an empty one is no message.
PostReply(d) ==
  /\ request[d].stage = "posting"
  /\ posted' = [posted EXCEPT ![ReplyKey(d)] = IF @ = {} THEN request[d].text ELSE @]
  /\ request' = [request EXCEPT ![d].stage = "closing", ![d].text = {}]
  /\ UNCHANGED <<seen, inbox, gateway, object, history>>

\* The reply is in the outbox, if there is one: the rows leave.
Close(d) ==
  /\ request[d].stage = "closing"
  /\ EndsTurn(d)
  /\ UNCHANGED <<seen, posted, gateway, object, history>>

\* A turn that failed or was refused: the "try again" notice, and the rows leave.
Tell(d) ==
  /\ request[d].stage = "telling"
  /\ EndsTurn(d)
  /\ UNCHANGED <<seen, posted, gateway, object, history>>

\* A call the reset of its gateway cancelled before the run held it open.
OrphanDies(d) ==
  /\ request[d] # NoRequest /\ request[d].orphan
  /\ request' = Closed(d)
  /\ UNCHANGED <<room, gateway, object, history>>

(* A reset of the user object: its calls fail, the runs and the ledger      *)
(* stay, and going runs are recovered by the next boot.                     *)
ObjectReset ==
  /\ resets < MaxResets
  /\ resets' = resets + 1
  /\ matrixTurnRuns' = [m \in Messages |-> Nobody]
  /\ watched' = {}
  /\ request' = [d \in Requests |->
       IF request[d].stage \in InCall THEN Refused(d) ELSE request[d]]
  /\ UNCHANGED <<room, gateway, ledger, run, begun, raced, lost, stranded, restarts>>

-----------------------------------------------------------------------------
\* What both objects do once they have begun, whatever the homeserver answers.
Work ==
  \/ Start \/ OnStarted \/ RetryFires \/ GiveUp \/ Flush
  \/ \E v \in Verdicts : ReplayOffer(v) \/ \E m \in Messages : Prepared(m, v)
  \/ \E d \in Requests :
       \/ Silent(d) \/ Decide(d) \/ BootFails(d) \/ StartTurn(d) \/ BeginRun(d)
       \/ RunEnds(d, "finished") \/ RunEnds(d, "failed")
       \/ PostReply(d) \/ Tell(d) \/ Close(d)

Next ==
  \/ Work
  \/ \E m \in Messages : Receive(m)
  \/ Rotate \/ Stop \/ GatewayReset \/ ObjectReset
  \/ \E d \in Requests : OrphanDies(d) \/ RunEnds(d, "aborted")

Spec == Init /\ [][Next]_vars

(* Nothing loops: a message is offered a bounded number of times.  So it is *)
(* enough that work is done as long as there is some.                       *)
FairSpec == Spec /\ WF_vars(Work)

-----------------------------------------------------------------------------
(* One run for each leading message, however often the gateway asks: the    *)
(* ledger and the running turn decide (runTurn).  The exception is two      *)
(* calls that read the ledger before either has written to it.              *)
TurnRunsOnce == \A m \in Messages : begun[m] <= 1 \/ m \in raced

\* Why a row leaves in a step without a reply of the message's own.
GivenNoVerdict(m) == m \in preparing \ preparing' \/ m \in replay.rows \ replay'.rows

Leaving(d, stage) == request[d].stage = stage /\ request'[d] = NoRequest

Notified(m) ==
  \/ m \in replay.exhausted \ replay'.exhausted
  \/ \E d \in Requests : Leaving(d, "telling") /\ m \in request[d].ids

LeftUnanswered(m) == \E d \in Requests : Leaving(d, "queued") /\ m \in request[d].ids

\* The run is superseded, stopped, or fails with a message that says so.
Aborted(m) == \E d \in Requests : Leaving(d, "joined") /\ m \in request[d].ids

\* The reply of the message's turn went to an object that was reset.
LostReply(m) ==
  \E d \in Requests : /\ Leaving(d, "closing") /\ m \in request[d].ids
                      /\ request[d].lead \in lost /\ posted[request[d].lead] = {}

RodeBehind(m) ==
  \E d \in Requests : /\ Leaving(d, "closing") /\ ~request[d].fresh
                      /\ m \in request[d].ids \ {request[d].lead}

(* A row leaves only once the room has the answer of a turn the message was *)
(* part of, or the notice; or the message is dropped, left unanswered by    *)
(* the gate, or its run aborted.  Three exceptions: the burst of a message  *)
(* whose run finished after the object that began it was reset (its reply   *)
(* is stored nowhere, and attachToRun answers with an empty one); a message *)
(* behind a leading one that had been asked about before, which is given    *)
(* the earlier reply; and the burst of a message that ran twice.            *)
RowLeavesAnswered ==
  [][\A m \in Messages : (inbox[m] # NoRow /\ inbox'[m] = NoRow) =>
       \/ m \in UNION {posted[n] : n \in Messages}
       \/ GivenNoVerdict(m) \/ Notified(m) \/ LeftUnanswered(m) \/ Aborted(m)
       \/ LostReply(m) \/ RodeBehind(m)
       \/ \E n \in raced : begun[n] > 1]_vars

(* Every message the gateway accepts is settled: whatever is reset, its row *)
(* leaves the inbox.  The exception is a start that makes no replay, for    *)
(* one of before a stop is still under way: the messages the stop dropped   *)
(* wait for the next start.                                                 *)
EveryMessageSettles ==
  \A m \in Messages :
    inbox[m] # NoRow ~> (inbox[m] = NoRow \/ m \in stranded)
=============================================================================
