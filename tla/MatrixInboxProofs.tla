--------------------------- MODULE MatrixInboxProofs ---------------------------
(***************************************************************************)
(* Theorems about MatrixInbox, for every number of messages, requests,     *)
(* slots, replays, restarts and resets.                                    *)
(***************************************************************************)
EXTENDS MatrixInbox, FunctionTheorems, SequenceTheorems, WellFoundedInduction, TLAPS

-----------------------------------------------------------------------------
(* The lists of the gateway *)

\* Every nonempty set of messages has an oldest one.
LEMMA OldestIsMember ==
  ASSUME NEW T \in SUBSET Messages, T # {}
  PROVE  Oldest(T) \in T
<1> DEFINE R == {ss \in Nat \X Nat : ss[1] < ss[2]}
<1>1. R = OpToRel(<, Nat)
  BY DEF OpToRel
<1>2. IsWellFoundedOn(R, Nat)
  BY <1>1, NatLessThanWellFounded
<1>3. T \subseteq Nat
  BY LimitsAssumption DEF Messages
<1>4. PICK m \in T : \A n \in T : ~(<<n, m>> \in R)
  BY <1>2, <1>3, WFMin
<1>5. ASSUME NEW n \in T, n < m
      PROVE  FALSE
  <2>1. <<n, m>> \in R
    BY <1>3, <1>5
  <2> QED
    BY <2>1, <1>4
<1>6. \A n \in T : m <= n
  BY <1>3, <1>5
<1> QED
  BY <1>6 DEF Oldest

\* The debounce buffer holds messages.
LEMMA JoinedType ==
  ASSUME buffer \in Seq(Messages), NEW m \in Messages
  PROVE  Joined(m) \in Seq(Messages)
BY DEF Joined

\* What the buffer holds is a set of messages.
LEMMA BufferRange ==
  ASSUME buffer \in Seq(Messages)
  PROVE  Range(buffer) \subseteq Messages
BY DEF Range

-----------------------------------------------------------------------------
(* The answers a request gets: none of them leaves it waiting to begin *)

\* A request that is past its decision, and not about to begin a run.
Settling == {x \in Request \cup {NoRequest} : x.stage \notin {"start", "begin"}}

\* A request with its reply waits for nothing.
LEMMA RepliedSettles ==
  ASSUME TypeOK, NEW d \in Requests, request[d] \in Request,
         NEW text \in SUBSET Messages, NEW fresh \in BOOLEAN
  PROVE  Replied(d, text, fresh) \in Settling
BY DEF Replied, Settling, Request, NoRequest, Stages, Nobody

\* A request that is refused waits for nothing.
LEMMA RefusedSettles ==
  ASSUME TypeOK, NEW d \in Requests, request[d] \in Request
  PROVE  Refused(d) \in Settling
BY DEF Refused, Settling, Request, NoRequest, Stages, Nobody

\* A request that waits on a run begins none of its own.
LEMMA WaitsSettles ==
  ASSUME TypeOK, NEW d \in Requests, request[d] \in Request, NEW r \in Requests,
         NEW how \in {"joined", "attached"}
  PROVE  WaitsOn(d, r, how) \in Settling
BY DEF WaitsOn, Settling, Request, NoRequest, Stages, Nobody

\* A run that is going or finished is a run.
LEMMA RunType ==
  ASSUME TypeOK, NEW r \in Requests, run[r].state \in {"going", "finished"}
  PROVE  run[r] \in Run
BY DEF TypeOK, Run, NoRun

\* A request with a stage is a request.
LEMMA RequestType ==
  ASSUME TypeOK, NEW d \in Requests, request[d].stage \in Stages
  PROVE  request[d] \in Request
BY DEF TypeOK, Request, NoRequest, Stages

\* What attachToRun answers, whatever is left of the run.
LEMMA AttachedSettles ==
  ASSUME TypeOK, NEW d \in Requests, request[d] \in Request, NEW r
  PROVE  Attached(d, r) \in Settling
<1>1. CASE r \in Requests /\ run[r].state = "going"
  BY <1>1, WaitsSettles DEF Attached
<1>2. CASE r \in Requests /\ run[r].state = "finished"
  <2>1. run[r] \in Run
    BY <1>2, RunType
  <2>2. run[r].text \in SUBSET Messages
    BY <2>1 DEF Run
  <2> QED
    BY <1>2, <2>2, RepliedSettles DEF Attached
<1>3. CASE ~(r \in Requests /\ run[r].state \in {"going", "finished"})
  BY <1>3, RefusedSettles DEF Attached
<1> QED
  BY <1>1, <1>2, <1>3

\* A request after an end of the run it waits on: nothing else moves it.
LEMMA AfterSettles ==
  ASSUME TypeOK, NEW d \in Requests, NEW outcome,
         NEW runs \in SUBSET {r \in Requests : run[r].state = "going"}
  PROVE  After(d, runs, outcome) = request[d] \/ After(d, runs, outcome) \in Settling
<1>1. CASE request[d].stage \notin {"joined", "attached"} \/ request[d].on \notin runs
  BY <1>1 DEF After
<1>2. CASE request[d].stage \in {"joined", "attached"} /\ request[d].on \in runs
  <2>1. request[d] \in Request
    BY <1>2, RequestType DEF Stages
  <2>2. Refused(d) \in Settling /\ NoRequest \in Settling
    BY <2>1, RefusedSettles DEF Settling, NoRequest
  <2>3. CASE outcome = "finished"
    <3>1. run[request[d].on] \in Run
      BY <1>2, RunType
    <3>2. run[request[d].on].text \in SUBSET Messages
      BY <3>1 DEF Run
    <3>3. Replied(d, run[request[d].on].text, d = request[d].on) \in Settling
      BY <2>1, <3>2, RepliedSettles
    <3> QED
      BY <1>2, <2>3, <3>3 DEF After
  <2>4. CASE outcome # "finished" /\ outcome = "aborted" /\ request[d].stage = "joined"
    BY <1>2, <2>2, <2>4 DEF After
  <2>5. CASE outcome # "finished" /\ ~(outcome = "aborted" /\ request[d].stage = "joined")
    BY <1>2, <2>2, <2>5 DEF After
  <2> QED
    BY <2>3, <2>4, <2>5
<1> QED
  BY <1>1, <1>2

-----------------------------------------------------------------------------
(* The types *)

\* Why no row is replayed more often than it may be: what a replay is about to
\* charge has replays left, and has been received.
ReplaysLeft ==
  /\ \A m \in Messages : inbox[m] # NoRow => m \in seen
  /\ replay.rows \subseteq seen
  /\ replay.exhausted # {} => \A m \in replay.rows : inbox[m] < MaxReplays

TypeInv == TypeOK /\ ReplaysLeft

\* The empty tables have their types.
LEMMA InitTypeInv == Init => TypeInv
<1> SUFFICES ASSUME Init PROVE TypeInv
  OBVIOUS
<1>1. /\ request \in [Requests -> Request \cup {NoRequest}]
      /\ ledger \in [Messages -> Entry]
      /\ run \in [Requests -> Run \cup {NoRun}]
      /\ matrixTurnRuns \in [Messages -> Requests \cup {Nobody}]
  BY DEF Init, Entry, Nobody
<1>2. inbox \in [Messages -> -1..MaxReplays] /\ buffer \in Seq(Messages)
  BY LimitsAssumption DEF Init, NoRow
<1>3. /\ replay \in [exhausted : SUBSET Messages, rows : SUBSET Messages]
      /\ restarts \in 0..MaxRestarts /\ resets \in 0..MaxResets
  BY LimitsAssumption DEF Init
<1>4. ReplaysLeft
  BY DEF Init, ReplaysLeft
<1> QED
  BY <1>1, <1>2, <1>3, <1>4 DEF Init, TypeInv, TypeOK

\* Deleting rows, of a well typed table.
LEMMA DeletedType ==
  ASSUME TypeOK, NEW rows
  PROVE  /\ Deleted(rows) \in [Messages -> -1..MaxReplays]
         /\ \A n \in Messages : Deleted(rows)[n] = inbox[n] \/ Deleted(rows)[n] = NoRow
<1>1. inbox \in [Messages -> -1..MaxReplays]
  BY DEF TypeOK
<1> QED
  BY <1>1, LimitsAssumption DEF Deleted, NoRow

\* Charging a replay to rows that have one left.
LEMMA BumpedType ==
  ASSUME NEW table \in [Messages -> -1..MaxReplays],
         NEW rows, \A n \in rows : table[n] < MaxReplays
  PROVE  /\ Bumped(rows, table) \in [Messages -> -1..MaxReplays]
         /\ \A n \in Messages : Bumped(rows, table)[n] = NoRow <=> table[n] = NoRow
<1>1. \A n \in Messages : table[n] \in -1..MaxReplays
  OBVIOUS
<1>2. \A n \in Messages : table[n] < MaxReplays => table[n] + 1 \in -1..MaxReplays
  BY <1>1, LimitsAssumption
<1>3. \A n \in Messages : table[n] # NoRow => table[n] + 1 # NoRow
  BY <1>1, LimitsAssumption DEF NoRow
<1> QED
  BY <1>1, <1>2, <1>3 DEF Bumped

\* An offer queues the message, leaves its row for later, or deletes it.
LEMMA OfferType ==
  ASSUME TypeOK, NEW m \in Messages, NEW verdict, Offer(m, verdict)
  PROVE  /\ buffer' \in Seq(Messages) /\ retry' \subseteq Messages
         /\ inbox' \in [Messages -> -1..MaxReplays]
         /\ \A n \in Messages : inbox'[n] = inbox[n] \/ inbox'[n] = NoRow
<1> USE DEF TypeOK
<1>1. CASE verdict = "queued"
  BY <1>1, JoinedType DEF Offer
<1>2. CASE verdict = "unverified"
  BY <1>2 DEF Offer
<1>3. CASE verdict = "dropped"
  <2>1. inbox' = Deleted({m}) /\ UNCHANGED <<buffer, retry>>
    BY <1>3 DEF Offer
  <2> QED
    BY <2>1, DeletedType
<1> QED
  BY <1>1, <1>2, <1>3 DEF Offer

\* A plan charges rows that have replays left.
LEMMA PlanType ==
  ASSUME TypeInv, NEW only \in SUBSET Messages, Plan(only)
  PROVE  /\ replay' \in [exhausted : SUBSET Messages, rows : SUBSET Messages]
         /\ inbox' \in [Messages -> -1..MaxReplays]
         /\ \A n \in Messages : inbox'[n] = NoRow <=> inbox[n] = NoRow
         /\ replay'.rows \subseteq seen
         /\ replay'.exhausted # {} => \A n \in replay'.rows : inbox'[n] < MaxReplays
<1> DEFINE todo == (Rows \cap only) \ (InFlight \cup Range(buffer))
           over == {m \in todo : inbox[m] >= MaxReplays}
<1>1. /\ replay' = [exhausted |-> over, rows |-> todo \ over]
      /\ inbox' = IF over = {} THEN Bumped(todo, inbox) ELSE inbox
  BY DEF Plan
<1>2. \A n \in todo : n \in Messages /\ n \in seen /\ inbox[n] \in 0..MaxReplays
  BY LimitsAssumption DEF Rows, TypeInv, TypeOK, ReplaysLeft, NoRow
<1>3. \A n \in todo \ over : inbox[n] \in 0..(MaxReplays - 1)
  BY <1>2, LimitsAssumption
<1> HIDE DEF todo, over
<1>4. CASE over = {}
  <2>1. inbox' = Bumped(todo, inbox) /\ replay' = [exhausted |-> {}, rows |-> todo]
    BY <1>1, <1>4
  <2>2. inbox \in [Messages -> -1..MaxReplays] /\ \A n \in todo : inbox[n] < MaxReplays
    BY <1>3, <1>4, LimitsAssumption DEF TypeInv, TypeOK
  <2> QED
    BY <2>1, <2>2, <1>2, BumpedType
<1>5. CASE over # {}
  BY <1>1, <1>2, <1>3, <1>5, LimitsAssumption DEF over, TypeInv, TypeOK, NoRow
<1> QED
  BY <1>4, <1>5

\* An offer takes no replay from a row that has one left.
LEMMA OfferKeeps ==
  ASSUME TypeInv, NEW m \in Messages, NEW verdict, Offer(m, verdict),
         UNCHANGED seen, replay'.rows \subseteq replay.rows,
         replay'.exhausted # {} => replay.exhausted # {}
  PROVE  ReplaysLeft'
<1>1. \A n \in Messages : inbox'[n] = inbox[n] \/ inbox'[n] = NoRow
  BY OfferType DEF TypeInv
<1>2. NoRow < MaxReplays
  BY LimitsAssumption DEF NoRow
<1>3. \A n \in replay.rows : n \in Messages
  BY DEF TypeInv, TypeOK
<1> QED
  BY <1>1, <1>2, <1>3 DEF TypeInv, ReplaysLeft

\* What the gateway hears and starts.
LEMMA ListenSteps ==
  ASSUME TypeInv,
         \/ Start \/ Rotate \/ Stop \/ OnStarted \/ RetryFires
         \/ \E m \in Messages : Receive(m)
         \/ \E v \in Verdicts, m \in Messages : Prepared(m, v)
  PROVE  TypeInv'
<1>1. CASE Start \/ Rotate \/ Stop
  <2>1. UNCHANGED <<seen, inbox, replay>>
    BY <1>1 DEF Start, Rotate, Stop, room
  <2>2. /\ running' \in BOOLEAN /\ hook' \in BOOLEAN
        /\ buffer' \in Seq(Messages) /\ retry' \subseteq Messages
    <3>1. CASE Start \/ Rotate
      BY <3>1 DEF Start, Rotate, TypeInv, TypeOK
    <3>2. CASE Stop
      <4>1. buffer' = << >> /\ << >> \in Seq(Messages)
        BY <3>2 DEF Stop
      <4>2. running' = FALSE /\ retry' = {} /\ hook' = hook
        BY <3>2 DEF Stop
      <4>3. buffer' \in Seq(Messages)
        BY <4>1
      <4> QED
        BY <4>2, <4>3 DEF TypeInv, TypeOK
    <3> QED
      BY <1>1, <3>1, <3>2
  <2>4. restarts' \in 0..MaxRestarts
    BY <1>1, LimitsAssumption DEF Start, Rotate, Stop, TypeInv, TypeOK, history
  <2>3. UNCHANGED <<posted, preparing, request, object, begun, raced, lost, stranded, resets>>
    BY <1>1 DEF Start, Rotate, Stop, room, history
  <2> QED
    BY <2>1, <2>2, <2>3, <2>4 DEF TypeInv, TypeOK, ReplaysLeft, object
<1>2. CASE OnStarted \/ RetryFires
  <2>1. \/ \E only \in SUBSET Messages : Plan(only)
        \/ UNCHANGED <<replay, inbox>>
    BY <1>2 DEF OnStarted, RetryFires, TypeInv, TypeOK
  <2>2. /\ replay' \in [exhausted : SUBSET Messages, rows : SUBSET Messages]
        /\ inbox' \in [Messages -> -1..MaxReplays]
        /\ \A n \in Messages : inbox'[n] = NoRow <=> inbox[n] = NoRow
        /\ replay'.rows \subseteq seen
        /\ replay'.exhausted # {} => \A n \in replay'.rows : inbox'[n] < MaxReplays
    BY <2>1, PlanType DEF TypeInv, TypeOK, ReplaysLeft
  <2>3. hook' \in BOOLEAN /\ retry' \subseteq Messages /\ stranded' \subseteq Messages
    BY <1>2 DEF OnStarted, RetryFires, TypeInv, TypeOK, Rows, history
  <2>4. UNCHANGED <<seen, posted, running, preparing, buffer, request, object, begun, raced,
                    lost, restarts, resets>>
    BY <1>2 DEF OnStarted, RetryFires, history
  <2> QED
    BY <2>2, <2>3, <2>4 DEF TypeInv, TypeOK, ReplaysLeft, object
<1>3. ASSUME NEW m \in Messages, Receive(m)
      PROVE  TypeInv'
  <2>1. /\ seen' = seen \cup {m} /\ preparing' = preparing \cup {m}
        /\ inbox' = [inbox EXCEPT ![m] = 0]
        /\ m \notin seen
        /\ UNCHANGED <<posted, running, hook, buffer, retry, replay, request, object, history>>
    BY <1>3 DEF Receive
  <2>2. inbox' \in [Messages -> -1..MaxReplays]
    BY <2>1, LimitsAssumption DEF TypeInv, TypeOK
  <2>3. ReplaysLeft'
    BY <2>1 DEF TypeInv, TypeOK, ReplaysLeft
  <2> QED
    BY <2>1, <2>2, <2>3 DEF TypeInv, TypeOK, object, history
<1>4. ASSUME NEW v \in Verdicts, NEW m \in Messages, Prepared(m, v)
      PROVE  TypeInv'
  <2>1. /\ Offer(m, v) /\ preparing' = preparing \ {m}
        /\ UNCHANGED <<seen, posted, running, hook, replay, request, object,
                       begun, raced, lost, stranded, restarts, resets>>
    BY <1>4 DEF Prepared
  <2>2. ReplaysLeft'
    BY <2>1, OfferKeeps DEF TypeInv
  <2> QED
    BY <2>1, <2>2, OfferType DEF TypeInv, TypeOK, object
<1> QED
  BY <1>1, <1>2, <1>3, <1>4

\* What a replay gives up or offers again.
LEMMA ReplaySteps ==
  ASSUME TypeInv, GiveUp \/ \E v \in Verdicts : ReplayOffer(v)
  PROVE  TypeInv'
<1>1. CASE GiveUp
  <2> DEFINE m == Oldest(replay.exhausted)
             rest == replay.exhausted \ {m}
  <2>1. /\ replay.exhausted # {}
        /\ replay' = [replay EXCEPT !.exhausted = rest]
        /\ inbox' = IF rest = {} THEN Bumped(replay.rows, Deleted({m})) ELSE Deleted({m})
        /\ UNCHANGED <<seen, posted, running, hook, preparing, buffer, retry, request, object,
                       history>>
    BY <1>1 DEF GiveUp
  <2> HIDE DEF m
  <2>2. /\ Deleted({m}) \in [Messages -> -1..MaxReplays]
        /\ \A n \in Messages : Deleted({m})[n] = inbox[n] \/ Deleted({m})[n] = NoRow
    BY DeletedType DEF TypeInv
  <2>3. replay.rows \subseteq Messages /\ NoRow < MaxReplays
    BY LimitsAssumption DEF TypeInv, TypeOK, NoRow
  <2>4. \A n \in replay.rows : Deleted({m})[n] < MaxReplays
    BY <2>1, <2>2, <2>3 DEF TypeInv, ReplaysLeft
  <2>5. /\ inbox' \in [Messages -> -1..MaxReplays]
        /\ \A n \in Messages : inbox'[n] # NoRow => inbox[n] # NoRow
        /\ rest # {} => \A n \in replay.rows : inbox'[n] < MaxReplays
    BY <2>1, <2>2, <2>3, <2>4, BumpedType
  <2>6. replay' \in [exhausted : SUBSET Messages, rows : SUBSET Messages]
        /\ replay'.rows = replay.rows /\ replay'.exhausted = rest
    BY <2>1 DEF TypeInv, TypeOK
  <2>7. ReplaysLeft'
    BY <2>1, <2>5, <2>6 DEF TypeInv, ReplaysLeft
  <2> QED
    BY <2>1, <2>5, <2>6, <2>7 DEF TypeInv, TypeOK, object, history
<1>2. ASSUME NEW v \in Verdicts, ReplayOffer(v)
      PROVE  TypeInv'
  <2> DEFINE m == Oldest(replay.rows)
  <2>1. /\ replay.exhausted = {} /\ replay.rows # {}
        /\ replay' = [replay EXCEPT !.rows = @ \ {m}]
        /\ Offer(m, v)
        /\ UNCHANGED <<seen, posted, running, hook, preparing, request, object,
                       begun, raced, lost, stranded, restarts, resets>>
    BY <1>2 DEF ReplayOffer
  <2>2. m \in Messages
    BY <2>1, OldestIsMember DEF TypeInv, TypeOK
  <2> HIDE DEF m
  <2>3. /\ replay' \in [exhausted : SUBSET Messages, rows : SUBSET Messages]
        /\ replay'.rows \subseteq replay.rows /\ replay'.exhausted = replay.exhausted
    BY <2>1 DEF TypeInv, TypeOK
  <2>4. ReplaysLeft'
    BY <2>1, <2>2, <2>3, OfferKeeps DEF TypeInv
  <2> QED
    BY <2>1, <2>2, <2>3, <2>4, OfferType DEF TypeInv, TypeOK, object
<1> QED
  BY <1>1, <1>2

\* A turn only deletes rows.
LEMMA TurnKeepsRows ==
  ASSUME TypeInv, UNCHANGED <<seen, replay>>,
         inbox' = inbox \/ \E rows : inbox' = Deleted(rows)
  PROVE  inbox' \in [Messages -> -1..MaxReplays] /\ ReplaysLeft'
<1>1. /\ inbox' \in [Messages -> -1..MaxReplays]
      /\ \A n \in Messages : inbox'[n] = inbox[n] \/ inbox'[n] = NoRow
  BY DeletedType DEF TypeInv, TypeOK
<1>2. NoRow < MaxReplays /\ replay.rows \subseteq Messages
  BY LimitsAssumption DEF NoRow, TypeInv, TypeOK
<1> QED
  BY <1>1, <1>2 DEF TypeInv, ReplaysLeft

\* A turn is a request of its own from the flush on.
LEMMA FlushStep ==
  ASSUME TypeInv, Flush
  PROVE  /\ TypeInv' /\ Fresh \in Requests
         /\ request' = [request EXCEPT ![Fresh] = request'[Fresh]]
         /\ request'[Fresh].stage = "queued"
<1>1. Fresh \in Requests
  BY DEF Flush, Fresh
<1> HIDE DEF Fresh
<1> DEFINE q == [stage |-> "queued", lead |-> EventOf(buffer), ids |-> Range(buffer),
                 orphan |-> FALSE, on |-> Nobody, text |-> {}, fresh |-> FALSE]
<1>2. /\ request' = [request EXCEPT ![Fresh] = q]
      /\ buffer # << >> /\ buffer' = << >>
      /\ UNCHANGED <<room, running, hook, preparing, retry, replay, object, history>>
  BY DEF Flush
<1>3. EventOf(buffer) \in Messages /\ Range(buffer) \subseteq Messages
  BY <1>2, BufferRange DEF EventOf, TypeInv, TypeOK
<1>4. q \in Request
  BY <1>3 DEF Request, Stages
<1> HIDE DEF q
<1>5. request' \in [Requests -> Request \cup {NoRequest}]
  BY <1>2, <1>4 DEF TypeInv, TypeOK
<1>6. ReplaysLeft'
  BY <1>2 DEF TypeInv, ReplaysLeft, room
<1>7. TypeInv'
  BY <1>2, <1>5, <1>6 DEF TypeInv, TypeOK, room, object, history
<1> QED
  BY <1>1, <1>2, <1>7 DEF q, TypeInv, TypeOK

\* What a turn step may do to the requests: each stays, settles, or is the one
\* request d that decides.
SettlesBut(d) ==
  \A e \in Requests \ {d} : request'[e] = request[e] \/ request'[e] \in Settling

\* Steps of a turn that run nothing and write no ledger.
LEMMA TalkSteps ==
  ASSUME TypeInv, NEW d \in Requests,
         Silent(d) \/ BootFails(d) \/ PostReply(d) \/ Close(d) \/ Tell(d) \/ OrphanDies(d)
  PROVE  /\ TypeInv'
         /\ SettlesBut(d) /\ request'[d] \in Settling
         /\ UNCHANGED <<ledger, begun, raced>>
<1>1. request[d] \in Request \/ OrphanDies(d)
  BY RequestType
     DEF TypeInv, Silent, BootFails, PostReply, Close, Tell, TakesSlot, Stages
<1>2. NoRequest \in Settling
  BY DEF Settling, NoRequest
<1>3. /\ request' = [request EXCEPT ![d] = request'[d]]
      /\ request'[d] \in Settling
  <2>1. CASE PostReply(d)
    <3>1. request' = [request EXCEPT ![d].stage = "closing", ![d].text = {}]
      BY <2>1 DEF PostReply
    <3>2. request[d] \in Request
      BY <2>1, RequestType DEF PostReply, Stages, TypeInv
    <3> QED
      BY <3>1, <3>2 DEF TypeInv, TypeOK, Settling, Request, Stages
  <2>2. CASE BootFails(d)
    <3>1. request' = [request EXCEPT ![d] = Refused(d)] /\ request[d] \in Request
      BY <2>2, RequestType DEF BootFails, TakesSlot, Stages, TypeInv
    <3> QED
      BY <3>1, RefusedSettles DEF TypeInv, TypeOK
  <2>3. CASE Silent(d) \/ Close(d) \/ Tell(d) \/ OrphanDies(d)
    <3>1. request' = [request EXCEPT ![d] = NoRequest]
      BY <2>3 DEF Silent, Close, Tell, OrphanDies, EndsTurn, Closed
    <3> QED
      BY <3>1, <1>2 DEF TypeInv, TypeOK
  <2> QED
    BY <2>1, <2>2, <2>3
<1>4. request' \in [Requests -> Request \cup {NoRequest}]
  BY <1>3 DEF TypeInv, TypeOK, Settling
<1>5. /\ UNCHANGED <<seen, gateway, object, history>>
      /\ inbox' = inbox \/ \E rows : inbox' = Deleted(rows)
  BY DEF Silent, BootFails, PostReply, Close, Tell, OrphanDies, EndsTurn, room
<1>6. posted' \in [Messages -> SUBSET Messages]
  <2>1. CASE PostReply(d)
    <3>1. request[d] \in Request
      BY <2>1, RequestType DEF PostReply, Stages, TypeInv
    <3>2. request[d].text \subseteq Messages /\ ReplyKey(d) \in Messages
      BY <3>1 DEF Request, ReplyKey
    <3> QED
      BY <2>1, <3>2 DEF PostReply, TypeInv, TypeOK
  <2>2. CASE ~PostReply(d)
    BY <2>2 DEF Silent, BootFails, Close, Tell, OrphanDies, EndsTurn, room, TypeInv, TypeOK
  <2> QED
    BY <2>1, <2>2
<1>7. TypeInv'
  BY <1>4, <1>5, <1>6, TurnKeepsRows DEF TypeInv, TypeOK, gateway, object, history
<1>8. SettlesBut(d)
  BY <1>3 DEF SettlesBut, TypeInv, TypeOK
<1> QED
  BY <1>3, <1>5, <1>7, <1>8 DEF object, history

\* The ledger lets a turn run only when it has never heard of it.
LEMMA DecisionRuns ==
  ASSUME TypeOK, NEW m \in Messages, Decision(m) = "run"
  PROVE  ledger[m].state = "unknown"
<1>1. ledger[m].state \in {"unknown", "started", "answered"}
  BY DEF TypeOK, Entry
<1>2. CASE ledger[m].state = "started"
  <2>1. Decision(m) = "interrupted"
    BY <1>2 DEF Decision
  <2> QED
    BY <2>1
<1>3. CASE ledger[m].state = "answered"
  <2>1. Decision(m) = "answered"
    BY <1>3 DEF Decision
  <2> QED
    BY <2>1
<1> QED
  BY <1>1, <1>2, <1>3

\* Two calls that are about to run the turn of m: one of them decided behind the other.
Meets(m) == \E e \in Requests : request[e].stage \in {"start", "begin"} /\ request[e].lead = m

\* A decision settles the request, or starts the turn of a message the ledger
\* does not know, and marks the message when another call is about to run it.
LEMMA DecideStep ==
  ASSUME TypeInv, NEW d \in Requests, Decide(d)
  PROVE  /\ TypeInv'
         /\ request' = [request EXCEPT ![d] = request'[d]]
         /\ UNCHANGED <<ledger, begun>>
         /\ \/ request'[d] \in Settling /\ raced' = raced
            \/ LET m == request[d].lead
               IN  /\ m \in Messages
                   /\ request'[d].stage = "start" /\ request'[d].lead = m
                   /\ ledger[m].state = "unknown"
                   /\ raced' = IF Meets(m) THEN raced \cup {m} ELSE raced
<1> DEFINE m == request[d].lead
<1>1. /\ request[d].stage = "queued"
      /\ UNCHANGED <<room, gateway, object, begun, lost, stranded, restarts, resets>>
  BY DEF Decide, TakesSlot
<1>2. request[d] \in Request
  BY <1>1, RequestType DEF TypeInv, Stages
<1>3. m \in Messages
  BY <1>2 DEF Request
<1>4. \/ matrixTurnRuns[m] # Nobody
         /\ request' = [request EXCEPT ![d] = WaitsOn(d, matrixTurnRuns[m], "joined")]
         /\ raced' = raced
      \/ Decision(m) = "run"
         /\ request' = [request EXCEPT ![d].stage = "start"]
         /\ raced' = IF Meets(m) THEN raced \cup {m} ELSE raced
      \/ Decision(m) = "answered"
         /\ request' = [request EXCEPT ![d] = Replied(d, ledger[m].text, FALSE)]
         /\ raced' = raced
      \/ Decision(m) = "interrupted"
         /\ request' = [request EXCEPT ![d] = Attached(d, ledger[m].request)]
         /\ raced' = raced
  BY DEF Decide, Meets
<1> HIDE DEF m
<1>5. /\ request' = [request EXCEPT ![d] = request'[d]]
      /\ request'[d] \in Request \cup {NoRequest}
      /\ \/ request'[d] \in Settling /\ raced' = raced
         \/ /\ request'[d].stage = "start" /\ request'[d].lead = m
            /\ ledger[m].state = "unknown"
            /\ raced' = IF Meets(m) THEN raced \cup {m} ELSE raced
  <2>1. CASE /\ matrixTurnRuns[m] # Nobody
             /\ request' = [request EXCEPT ![d] = WaitsOn(d, matrixTurnRuns[m], "joined")]
             /\ raced' = raced
    <3>1. matrixTurnRuns[m] \in Requests
      BY <1>3, <2>1 DEF TypeInv, TypeOK
    <3>2. WaitsOn(d, matrixTurnRuns[m], "joined") \in Settling
      BY <1>2, <3>1, WaitsSettles DEF TypeInv
    <3> QED
      BY <2>1, <3>2 DEF TypeInv, TypeOK, Settling
  <2>2. CASE /\ Decision(m) = "run"
             /\ request' = [request EXCEPT ![d].stage = "start"]
             /\ raced' = IF Meets(m) THEN raced \cup {m} ELSE raced
    <3>1. ledger[m].state = "unknown"
      BY <1>3, <2>2, DecisionRuns DEF TypeInv
    <3>2. request'[d] = [request[d] EXCEPT !.stage = "start"]
      BY <2>2 DEF TypeInv, TypeOK
    <3>3. request'[d] \in Request /\ request'[d].stage = "start" /\ request'[d].lead = m
      BY <1>2, <3>2 DEF Request, Stages, m
    <3>4. request' = [request EXCEPT ![d] = request'[d]]
      BY <2>2 DEF TypeInv, TypeOK
    <3> QED
      BY <2>2, <3>1, <3>3, <3>4
  <2>3. CASE /\ Decision(m) = "answered"
             /\ request' = [request EXCEPT ![d] = Replied(d, ledger[m].text, FALSE)]
             /\ raced' = raced
    <3>1. ledger[m].text \in SUBSET Messages
      BY <1>3 DEF TypeInv, TypeOK, Entry
    <3>2. Replied(d, ledger[m].text, FALSE) \in Settling
      BY <1>2, <3>1, RepliedSettles DEF TypeInv
    <3> QED
      BY <2>3, <3>2 DEF TypeInv, TypeOK, Settling
  <2>4. CASE /\ Decision(m) = "interrupted"
             /\ request' = [request EXCEPT ![d] = Attached(d, ledger[m].request)]
             /\ raced' = raced
    <3>1. Attached(d, ledger[m].request) \in Settling
      BY <1>2, AttachedSettles DEF TypeInv
    <3> QED
      BY <2>4, <3>1 DEF TypeInv, TypeOK, Settling
  <2> QED
    BY <1>4, <2>1, <2>2, <2>3, <2>4
<1>6. request' \in [Requests -> Request \cup {NoRequest}] /\ raced' \subseteq Messages
  BY <1>3, <1>5 DEF TypeInv, TypeOK
<1>7. TypeInv'
  BY <1>1, <1>6 DEF TypeInv, TypeOK, ReplaysLeft, room, gateway, object
<1> QED
  BY <1>1, <1>3, <1>5, <1>7 DEF m, object

\* ledger.start: the ledger knows the turn from here on.
LEMMA StartTurnStep ==
  ASSUME TypeInv, NEW d \in Requests, StartTurn(d)
  PROVE  /\ TypeInv'
         /\ request' = [request EXCEPT ![d].stage = "begin"]
         /\ request[d] \in Request /\ request[d].stage = "start"
         /\ ledger'[request[d].lead].state # "unknown"
         /\ \A n \in Messages : ledger'[n].state = "unknown" => ledger[n].state = "unknown"
         /\ UNCHANGED <<begun, raced>>
<1> DEFINE m == request[d].lead
<1>1. /\ request[d].stage = "start"
      /\ ledger' = IF ledger[m].state = "unknown"
                   THEN [ledger EXCEPT ![m].state = "started", ![m].request = d]
                   ELSE ledger
      /\ request' = [request EXCEPT ![d].stage = "begin"]
      /\ UNCHANGED <<room, gateway, run, matrixTurnRuns, watched, history>>
  BY DEF StartTurn
<1>2. request[d] \in Request
  BY <1>1, RequestType DEF TypeInv, Stages
<1>3. m \in Messages
  BY <1>2 DEF Request
<1>4. request' \in [Requests -> Request \cup {NoRequest}]
  <2>1. [request[d] EXCEPT !.stage = "begin"] \in Request
    BY <1>2 DEF Request, Stages
  <2> QED
    BY <1>1, <2>1 DEF TypeInv, TypeOK
<1> HIDE DEF m
<1>5. /\ ledger' \in [Messages -> Entry]
      /\ ledger'[m].state # "unknown"
      /\ \A n \in Messages : ledger'[n].state = "unknown" => ledger[n].state = "unknown"
  <2>1. ledger[m] \in Entry
    BY <1>3 DEF TypeInv, TypeOK
  <2>2. CASE ledger[m].state = "unknown"
    <3> DEFINE e == [ledger[m] EXCEPT !.state = "started", !.request = d]
    <3>1. ledger' = [ledger EXCEPT ![m] = e]
      <4>1. ledger' = [ledger EXCEPT ![m].state = "started", ![m].request = d]
        BY <1>1, <2>2
      <4>2. ledger \in [Messages -> Entry]
        BY DEF TypeInv, TypeOK
      <4> QED
        BY <1>3, <4>1, <4>2
    <3>2. e \in Entry /\ e.state = "started"
      BY <2>1 DEF Entry
    <3> HIDE DEF e
    <3> QED
      BY <1>3, <3>1, <3>2 DEF TypeInv, TypeOK
  <2> QED
    BY <1>1, <2>2 DEF TypeInv, TypeOK
<1>6. TypeInv'
  BY <1>1, <1>4, <1>5 DEF TypeInv, TypeOK, ReplaysLeft, room, gateway, history
<1> QED
  BY <1>1, <1>2, <1>5, <1>6 DEF m, history

\* A run begins: its request waits on it, and no other is left about to begin
\* that was not before.
LEMMA BeginRunStep ==
  ASSUME TypeInv, NEW d \in Requests, BeginRun(d)
  PROVE  /\ TypeInv' /\ SettlesBut(d) /\ request'[d] \in Settling
         /\ request[d] \in Request /\ request[d].stage = "begin"
         /\ begun' = [begun EXCEPT ![request[d].lead] = @ + 1]
         /\ UNCHANGED <<ledger, raced>>
<1> DEFINE m == request[d].lead
           superseded == {r \in Requests : run[r].state = "going"}
           ended == {run[r].lead : r \in superseded \cap watched}
           new == [state |-> "going", lead |-> m, text |-> request[d].ids]
<1>1. /\ request[d].stage = "begin"
      /\ run' = [r \in Requests |->
           IF r = d THEN new ELSE IF r \in superseded THEN NoRun ELSE run[r]]
      /\ request' = [e \in Requests |->
           IF e = d THEN WaitsOn(d, d, "joined") ELSE After(e, superseded, "aborted")]
      /\ inbox' = Deleted(JoinedRows(superseded))
      /\ matrixTurnRuns' = [n \in Messages |->
           IF n \in ended THEN Nobody ELSE IF n = m THEN d ELSE matrixTurnRuns[n]]
      /\ watched' = (watched \ superseded) \cup {d}
      /\ begun' = [begun EXCEPT ![m] = @ + 1]
      /\ UNCHANGED <<seen, posted, gateway, ledger, raced, lost, stranded, restarts, resets>>
  BY DEF BeginRun
<1>2. request[d] \in Request
  BY <1>1, RequestType DEF TypeInv, Stages
<1>3. m \in Messages /\ new \in Run
  BY <1>2 DEF Request, Run
<1>4. superseded \in SUBSET {r \in Requests : run[r].state = "going"}
  OBVIOUS
<1>5. WaitsOn(d, d, "joined") \in Settling
  BY <1>2, WaitsSettles DEF TypeInv
<1>6. \A e \in Requests : \/ After(e, superseded, "aborted") = request[e]
                          \/ After(e, superseded, "aborted") \in Settling
  BY <1>4, AfterSettles DEF TypeInv
<1> HIDE DEF m, superseded, ended, new
<1>7. SettlesBut(d) /\ request'[d] \in Settling
  BY <1>1, <1>5, <1>6 DEF SettlesBut
<1>8. request' \in [Requests -> Request \cup {NoRequest}]
  <2>1. \A e \in Requests : request[e] \in Request \cup {NoRequest}
    BY DEF TypeInv, TypeOK
  <2>2. Settling \subseteq Request \cup {NoRequest}
    BY DEF Settling
  <2>3. \A e \in Requests :
          (IF e = d THEN WaitsOn(d, d, "joined") ELSE After(e, superseded, "aborted"))
             \in Request \cup {NoRequest}
    BY <1>5, <1>6, <2>1, <2>2
  <2> QED
    BY <1>1, <2>3
<1>9. run' \in [Requests -> Run \cup {NoRun}]
  BY <1>1, <1>3 DEF TypeInv, TypeOK
<1>10. /\ matrixTurnRuns' \in [Messages -> Requests \cup {Nobody}]
       /\ watched' \subseteq Requests /\ begun' \in [Messages -> Nat]
  BY <1>1, <1>3 DEF TypeInv, TypeOK
<1>11. inbox' \in [Messages -> -1..MaxReplays] /\ ReplaysLeft'
  BY <1>1, TurnKeepsRows DEF gateway
<1>12. TypeInv'
  BY <1>1, <1>8, <1>9, <1>10, <1>11 DEF TypeInv, TypeOK, gateway
<1> QED
  BY <1>1, <1>2, <1>7, <1>12 DEF m

\* A run ends: the calls that wait for it settle, and the ledger forgets nothing.
LEMMA RunEndsStep ==
  ASSUME TypeInv, NEW r \in Requests, NEW outcome, RunEnds(r, outcome)
  PROVE  /\ TypeInv'
         /\ \A e \in Requests : request'[e] = request[e] \/ request'[e] \in Settling
         /\ \A n \in Messages : ledger'[n].state = "unknown" => ledger[n].state = "unknown"
         /\ UNCHANGED <<begun, raced>>
<1> DEFINE m == run[r].lead
           answer == [state |-> "answered", request |-> Nobody, text |-> run[r].text]
           kept == LeftOf(r, outcome)
<1>1. /\ run[r].state = "going"
      /\ \/ /\ run' = [run EXCEPT ![r] = NoRun]
            /\ ledger' = ledger \/ ledger' = [ledger EXCEPT ![m] = answer]
            /\ matrixTurnRuns' = [matrixTurnRuns EXCEPT ![m] = Nobody]
            /\ lost' = lost
         \/ /\ run' = [run EXCEPT ![r] = kept]
            /\ lost' = lost \/ lost' = lost \cup {m}
            /\ UNCHANGED <<ledger, matrixTurnRuns>>
      /\ watched' = watched \ {r}
      /\ request' = [d \in Requests |-> After(d, {r}, outcome)]
      /\ inbox' = inbox \/ inbox' = Deleted(JoinedRows({r}))
      /\ UNCHANGED <<seen, posted, gateway, begun, raced, stranded, restarts, resets>>
  BY DEF RunEnds
<1>2. run[r] \in Run
  BY <1>1, RunType DEF TypeInv
<1>3. m \in Messages /\ answer \in Entry /\ answer.state = "answered"
  BY <1>2 DEF Run, Entry
<1>11. kept \in Run \cup {NoRun}
  BY <1>2 DEF Run, LeftOf
<1>4. \A e \in Requests : After(e, {r}, outcome) = request[e] \/ After(e, {r}, outcome) \in Settling
  <2>1. {r} \in SUBSET {x \in Requests : run[x].state = "going"}
    BY <1>1
  <2> QED
    BY <2>1, AfterSettles DEF TypeInv
<1> HIDE DEF m, answer, kept
<1>5. \A e \in Requests : request'[e] = request[e] \/ request'[e] \in Settling
  BY <1>1, <1>4
<1>6. request' \in [Requests -> Request \cup {NoRequest}]
  BY <1>1, <1>4 DEF TypeInv, TypeOK, Settling
<1>7. run' \in [Requests -> Run \cup {NoRun}] /\ lost' \subseteq Messages
  BY <1>1, <1>3, <1>11 DEF TypeInv, TypeOK
<1>8. /\ ledger' \in [Messages -> Entry]
      /\ \A n \in Messages : ledger'[n].state = "unknown" => ledger[n].state = "unknown"
  <2>1. ledger \in [Messages -> Entry]
    BY DEF TypeInv, TypeOK
  <2>2. CASE ledger' = ledger
    BY <2>1, <2>2
  <2>3. CASE ledger' = [ledger EXCEPT ![m] = answer]
    <3>1. ledger' \in [Messages -> Entry]
      BY <1>3, <2>1, <2>3
    <3>2. answer.state # "unknown"
      BY <1>3
    <3>3. \A n \in Messages : ledger'[n] = IF n = m THEN answer ELSE ledger[n]
      BY <2>1, <2>3
    <3> QED
      BY <3>1, <3>2, <3>3
  <2> QED
    BY <1>1, <2>2, <2>3
<1>9. matrixTurnRuns' \in [Messages -> Requests \cup {Nobody}] /\ watched' \subseteq Requests
  BY <1>1, <1>3 DEF TypeInv, TypeOK
<1>12. inbox' \in [Messages -> -1..MaxReplays] /\ ReplaysLeft'
  BY <1>1, TurnKeepsRows DEF gateway
<1>10. TypeInv'
  BY <1>1, <1>6, <1>7, <1>8, <1>9, <1>12 DEF TypeInv, TypeOK, gateway
<1> QED
  BY <1>1, <1>5, <1>8, <1>10

\* A reset of the gateway forgets the calls, except those that are still about
\* to begin a run: they go on without it.
LEMMA GatewayResetStep ==
  ASSUME TypeInv, GatewayReset
  PROVE  /\ TypeInv'
         /\ \A e \in Requests :
              \/ request'[e] \in Settling
              \/ request'[e].stage = request[e].stage /\ request'[e].lead = request[e].lead
         /\ UNCHANGED <<ledger, begun, raced>>
<1>1. /\ restarts < MaxRestarts /\ restarts' = restarts + 1
      /\ running' = FALSE /\ hook' = FALSE
      /\ preparing' = {} /\ retry' = {}
      /\ replay' = [exhausted |-> {}, rows |-> {}]
      /\ request' = [d \in Requests |->
           IF request[d].stage \in {"start", "begin"}
           THEN [request[d] EXCEPT !.orphan = TRUE] ELSE NoRequest]
      /\ UNCHANGED <<room, object, begun, raced, lost, stranded, resets>>
  BY DEF GatewayReset
<1>2. buffer' = << >> /\ << >> \in Seq(Messages)
  BY DEF GatewayReset
<1>3. NoRequest \in Settling
  BY DEF Settling, NoRequest
<1>4. \A e \in Requests :
        /\ request'[e] \in Request \cup {NoRequest}
        /\ \/ request'[e] \in Settling
           \/ request'[e].stage = request[e].stage /\ request'[e].lead = request[e].lead
  <2> TAKE e \in Requests
  <2>1. CASE request[e].stage \in {"start", "begin"}
    <3>1. request[e] \in Request
      BY <2>1, RequestType DEF TypeInv, Stages
    <3>2. request'[e] = [request[e] EXCEPT !.orphan = TRUE]
      BY <1>1, <2>1
    <3> QED
      BY <3>1, <3>2 DEF Request
  <2>2. CASE request[e].stage \notin {"start", "begin"}
    BY <1>1, <1>3, <2>2
  <2> QED
    BY <2>1, <2>2
<1>5. request' \in [Requests -> Request \cup {NoRequest}]
  BY <1>1, <1>4
<1>6. restarts' \in 0..MaxRestarts
  BY <1>1, LimitsAssumption DEF TypeInv, TypeOK
<1>7. ReplaysLeft'
  BY <1>1 DEF TypeInv, ReplaysLeft, room
<1>8. replay' \in [exhausted : SUBSET Messages, rows : SUBSET Messages]
  BY <1>1
<1>9. buffer' \in Seq(Messages)
  BY <1>2
<1>10. UNCHANGED <<seen, inbox, posted, ledger, run, matrixTurnRuns, watched, begun, raced,
                   lost, stranded, resets>>
  BY <1>1 DEF room, object
<1>11. TypeInv'
  BY <1>1, <1>5, <1>6, <1>7, <1>8, <1>9, <1>10 DEF TypeInv, TypeOK
<1> QED
  BY <1>4, <1>10, <1>11

\* A reset of the user object fails its calls: none is left about to begin.
LEMMA ObjectResetStep ==
  ASSUME TypeInv, ObjectReset
  PROVE  /\ TypeInv'
         /\ \A e \in Requests : request'[e] = request[e] \/ request'[e] \in Settling
         /\ UNCHANGED <<ledger, begun, raced>>
<1>1. /\ resets < MaxResets /\ resets' = resets + 1
      /\ matrixTurnRuns' = [m \in Messages |-> Nobody]
      /\ watched' = {}
      /\ request' = [d \in Requests |->
           IF request[d].stage \in InCall THEN Refused(d) ELSE request[d]]
      /\ UNCHANGED <<room, gateway, ledger, run, begun, raced, lost, stranded, restarts>>
  BY DEF ObjectReset
<1>2. \A e \in Requests : request[e].stage \in InCall => Refused(e) \in Settling
  BY RequestType, RefusedSettles DEF InCall, TypeInv, Stages
<1>3. \A e \in Requests : request'[e] = request[e] \/ request'[e] \in Settling
  BY <1>1, <1>2
<1>4. request' \in [Requests -> Request \cup {NoRequest}]
  BY <1>1, <1>2 DEF TypeInv, TypeOK, Settling
<1>5. matrixTurnRuns' \in [Messages -> Requests \cup {Nobody}] /\ resets' \in 0..MaxResets
  BY <1>1, LimitsAssumption DEF TypeInv, TypeOK
<1>6. TypeInv'
  BY <1>1, <1>4, <1>5 DEF TypeInv, TypeOK, ReplaysLeft, room, gateway
<1> QED
  BY <1>1, <1>3, <1>6

-----------------------------------------------------------------------------
(* The theorems *)

\* Every step keeps the types.
LEMMA NextTypeInv == TypeInv /\ [Next]_vars => TypeInv'
<1> SUFFICES ASSUME TypeInv, [Next]_vars PROVE TypeInv'
  OBVIOUS
<1>1. CASE UNCHANGED vars
  BY <1>1 DEF vars, room, gateway, object, history, TypeInv, TypeOK, ReplaysLeft
<1>2. CASE \/ Start \/ Rotate \/ Stop \/ OnStarted \/ RetryFires
           \/ \E m \in Messages : Receive(m)
           \/ \E v \in Verdicts, m \in Messages : Prepared(m, v)
  BY <1>2, ListenSteps
<1>3. CASE GiveUp \/ \E v \in Verdicts : ReplayOffer(v)
  BY <1>3, ReplaySteps
<1>4. CASE Flush
  BY <1>4, FlushStep
<1>5. CASE \E d \in Requests : \/ Silent(d) \/ BootFails(d) \/ PostReply(d)
                               \/ Close(d) \/ Tell(d) \/ OrphanDies(d)
  BY <1>5, TalkSteps
<1>6. CASE \E d \in Requests : Decide(d)
  BY <1>6, DecideStep
<1>7. CASE \E d \in Requests : StartTurn(d)
  BY <1>7, StartTurnStep
<1>8. CASE \E d \in Requests : BeginRun(d)
  BY <1>8, BeginRunStep
<1>9. CASE \E d \in Requests : \/ RunEnds(d, "finished") \/ RunEnds(d, "failed")
                               \/ RunEnds(d, "aborted")
  BY <1>9, RunEndsStep
<1>10. CASE GatewayReset \/ ObjectReset
  BY <1>10, GatewayResetStep, ObjectResetStep
<1> QED
  BY <1>1, <1>2, <1>3, <1>4, <1>5, <1>6, <1>7, <1>8, <1>9, <1>10 DEF Next, Work

(* TypeOK: the tables of both objects, the buffers and the calls under way  *)
(* stay in their types.  It says that a row is charged MaxReplays replays   *)
(* at most (planInboxReplay, bumpInboxAttempts), which holds because a list *)
(* of rows to replay is charged only while they have replays left.          *)
THEOREM TypeCorrect == Spec => []TypeOK
<1>1. TypeInv => TypeOK
  BY DEF TypeInv
<1> QED
  BY InitTypeInv, NextTypeInv, <1>1, PTL DEF Spec

\* A call that has decided to run the turn of m, and has not begun it.
Pending(d, m) == request[d].stage \in {"start", "begin"} /\ request[d].lead = m

\* Why a message two calls have not met about runs once: one call is about to
\* run it at most, it has not run then, and the ledger knows it before it runs.
RunsOnceInv(m) ==
  /\ \A d, e \in Requests : Pending(d, m) /\ Pending(e, m) => d = e
  /\ \A d \in Requests : Pending(d, m) => begun[m] = 0
  /\ \A d \in Requests : Pending(d, m) /\ request[d].stage = "begin" => ledger[m].state # "unknown"
  /\ ledger[m].state = "unknown" => begun[m] = 0
  /\ begun[m] <= 1

OnceInv == \A m \in Messages \ raced : RunsOnceInv(m)

\* A step that starts no turn and begins no run.
LEMMA QuietStep ==
  ASSUME OnceInv, UNCHANGED <<begun, raced>>,
         \A e \in Requests :
           \/ request'[e] = request[e] \/ request'[e] \in Settling
           \/ request'[e].stage = "queued"
           \/ request'[e].stage = request[e].stage /\ request'[e].lead = request[e].lead,
         \A n \in Messages : ledger'[n].state = "unknown" => ledger[n].state = "unknown"
  PROVE  OnceInv'
<1> SUFFICES ASSUME NEW m \in Messages \ raced
             PROVE  RunsOnceInv(m)'
  BY DEF OnceInv
<1>1. RunsOnceInv(m)
  BY DEF OnceInv
<1>2. \A e \in Requests : Pending(e, m)' =>
        Pending(e, m) /\ request'[e].stage = request[e].stage
  BY DEF Pending, Settling
<1> QED
  BY <1>1, <1>2 DEF RunsOnceInv

\* A decision to run leaves one call about to run the message, unless they met.
LEMMA DecideKeepsOnce ==
  ASSUME TypeInv, OnceInv, NEW d \in Requests, Decide(d)
  PROVE  OnceInv'
<1> DEFINE l == request[d].lead
<1>1. /\ request' = [request EXCEPT ![d] = request'[d]]
      /\ UNCHANGED <<ledger, begun>>
      /\ \/ request'[d] \in Settling /\ raced' = raced
         \/ /\ l \in Messages
            /\ request'[d].stage = "start" /\ request'[d].lead = l
            /\ ledger[l].state = "unknown"
            /\ raced' = IF Meets(l) THEN raced \cup {l} ELSE raced
  BY DecideStep
<1>2. \A e \in Requests \ {d} : request'[e] = request[e]
  BY <1>1 DEF TypeInv, TypeOK
<1>3. CASE request'[d] \in Settling /\ raced' = raced
  BY <1>1, <1>2, <1>3, QuietStep
<1>4. CASE /\ l \in Messages
           /\ request'[d].stage = "start" /\ request'[d].lead = l
           /\ ledger[l].state = "unknown"
           /\ raced' = IF Meets(l) THEN raced \cup {l} ELSE raced
  <2> SUFFICES ASSUME NEW m \in Messages, m \notin raced'
               PROVE  RunsOnceInv(m)'
    BY DEF OnceInv
  <2> HIDE DEF l
  <2>1. m \notin raced /\ RunsOnceInv(m)
    BY <1>4 DEF OnceInv
  <2>2. \A e \in Requests \ {d} : /\ Pending(e, m)' <=> Pending(e, m)
                                  /\ request'[e].stage = request[e].stage
    BY <1>2 DEF Pending
  <2>3. CASE m # l
    <3>1. ~Pending(d, m)'
      BY <1>4, <2>3 DEF Pending
    <3> QED
      BY <1>1, <2>1, <2>2, <3>1 DEF RunsOnceInv
  <2>4. CASE m = l
    <3>1. ~Meets(l)
      BY <1>4, <2>4
    <3>2. \A e \in Requests : ~Pending(e, m)
      BY <2>4, <3>1 DEF Meets, Pending
    <3>3. begun[m] = 0
      BY <1>4, <2>1, <2>4 DEF RunsOnceInv
    <3>4. \A e \in Requests : Pending(e, m)' => e = d
      BY <2>2, <3>2
    <3>5. request'[d].stage # "begin"
      BY <1>4
    <3> QED
      BY <1>1, <2>1, <3>3, <3>4, <3>5 DEF RunsOnceInv
  <2> QED
    BY <2>3, <2>4
<1> QED
  BY <1>1, <1>3, <1>4

\* The ledger knows the turn before its run begins.
LEMMA StartKeepsOnce ==
  ASSUME TypeInv, OnceInv, NEW d \in Requests, StartTurn(d)
  PROVE  OnceInv'
<1>1. /\ request' = [request EXCEPT ![d].stage = "begin"]
      /\ request[d] \in Request /\ request[d].stage = "start"
      /\ ledger'[request[d].lead].state # "unknown"
      /\ \A n \in Messages : ledger'[n].state = "unknown" => ledger[n].state = "unknown"
      /\ UNCHANGED <<begun, raced>>
  BY StartTurnStep
<1>2. /\ \A e \in Requests \ {d} : request'[e] = request[e]
      /\ request'[d] = [request[d] EXCEPT !.stage = "begin"]
  BY <1>1 DEF TypeInv, TypeOK
<1>3. request'[d].stage = "begin" /\ request'[d].lead = request[d].lead
  BY <1>1, <1>2 DEF Request
<1> SUFFICES ASSUME NEW m \in Messages \ raced
             PROVE  RunsOnceInv(m)'
  BY <1>1 DEF OnceInv
<1>4. RunsOnceInv(m)
  BY DEF OnceInv
<1>5. \A e \in Requests : Pending(e, m)' <=> Pending(e, m)
  BY <1>1, <1>2, <1>3 DEF Pending
<1>6. \A e \in Requests : Pending(e, m)' /\ request'[e].stage = "begin" => ledger'[m].state # "unknown"
  <2> SUFFICES ASSUME NEW e \in Requests, Pending(e, m)', request'[e].stage = "begin"
               PROVE  ledger'[m].state # "unknown"
    OBVIOUS
  <2>1. CASE e = d
    BY <1>1, <1>3, <2>1 DEF Pending
  <2>2. CASE e # d
    BY <1>1, <1>2, <1>4, <1>5, <2>2 DEF RunsOnceInv
  <2> QED
    BY <2>1, <2>2
<1> QED
  BY <1>1, <1>4, <1>5, <1>6 DEF RunsOnceInv

\* The run that begins is the first one of its message.
LEMMA BeginKeepsOnce ==
  ASSUME TypeInv, OnceInv, NEW d \in Requests, BeginRun(d)
  PROVE  OnceInv'
<1> DEFINE l == request[d].lead
<1>1. /\ SettlesBut(d) /\ request'[d] \in Settling
      /\ request[d] \in Request /\ request[d].stage = "begin"
      /\ begun' = [begun EXCEPT ![l] = @ + 1]
      /\ UNCHANGED <<ledger, raced>>
  BY BeginRunStep
<1>2. \A e \in Requests, m \in Messages : Pending(e, m)' =>
        e # d /\ Pending(e, m) /\ request'[e] = request[e]
  BY <1>1 DEF SettlesBut, Pending, Settling
<1> SUFFICES ASSUME NEW m \in Messages \ raced
             PROVE  RunsOnceInv(m)'
  BY <1>1 DEF OnceInv
<1>3. RunsOnceInv(m)
  BY DEF OnceInv
<1>4. CASE m = l
  <2>1. Pending(d, m)
    BY <1>1, <1>4 DEF Pending
  <2>2. begun'[m] = 1
    BY <1>1, <1>3, <1>4, <2>1 DEF RunsOnceInv, TypeInv, TypeOK
  <2>3. \A e \in Requests : ~Pending(e, m)'
    BY <1>2, <1>3, <2>1 DEF RunsOnceInv
  <2>4. ledger'[m].state # "unknown"
    BY <1>1, <1>3, <2>1 DEF RunsOnceInv
  <2> QED
    BY <2>2, <2>3, <2>4 DEF RunsOnceInv
<1>5. CASE m # l
  <2>1. begun'[m] = begun[m]
    BY <1>1, <1>5 DEF TypeInv, TypeOK
  <2> QED
    BY <1>1, <1>2, <1>3, <2>1 DEF RunsOnceInv
<1> QED
  BY <1>4, <1>5

\* The steps of the gateway that touch no call.
LEMMA GatewayStepIsQuiet ==
  ASSUME \/ Start \/ Rotate \/ Stop \/ OnStarted \/ RetryFires \/ GiveUp
         \/ \E m \in Messages : Receive(m)
         \/ \E v \in Verdicts : ReplayOffer(v) \/ \E m \in Messages : Prepared(m, v)
         \/ UNCHANGED vars
  PROVE  UNCHANGED <<request, ledger, begun, raced>>
<1>1. CASE Start \/ Rotate \/ Stop \/ UNCHANGED vars
  BY <1>1 DEF Start, Rotate, Stop, vars, object, history
<1>2. CASE OnStarted \/ RetryFires \/ GiveUp
  BY <1>2 DEF OnStarted, RetryFires, GiveUp, object, history
<1>3. CASE \/ \E m \in Messages : Receive(m)
           \/ \E v \in Verdicts : ReplayOffer(v) \/ \E m \in Messages : Prepared(m, v)
  BY <1>3 DEF Receive, ReplayOffer, Prepared, object, history
<1> QED
  BY <1>1, <1>2, <1>3

\* Every step keeps the ledger ahead of the runs.
LEMMA NextOnceInv == TypeInv /\ OnceInv /\ [Next]_vars => OnceInv'
<1> SUFFICES ASSUME TypeInv, OnceInv, [Next]_vars PROVE OnceInv'
  OBVIOUS
<1>1. CASE UNCHANGED <<request, ledger, begun, raced>>
  BY <1>1, QuietStep
<1>2. CASE Flush
  <2>1. \A e \in Requests : request'[e] = request[e] \/ request'[e].stage = "queued"
    BY <1>2, FlushStep DEF TypeInv, TypeOK
  <2> QED
    BY <1>2, <2>1, QuietStep DEF Flush, object, history
<1>3. ASSUME NEW d \in Requests,
             Silent(d) \/ BootFails(d) \/ PostReply(d) \/ Close(d) \/ Tell(d) \/ OrphanDies(d)
      PROVE  OnceInv'
  BY <1>3, TalkSteps, QuietStep DEF SettlesBut
<1>4. ASSUME NEW d \in Requests, Decide(d) \/ StartTurn(d) \/ BeginRun(d)
      PROVE  OnceInv'
  BY <1>4, DecideKeepsOnce, StartKeepsOnce, BeginKeepsOnce
<1>5. ASSUME NEW d \in Requests,
             RunEnds(d, "finished") \/ RunEnds(d, "failed") \/ RunEnds(d, "aborted")
      PROVE  OnceInv'
  BY <1>5, RunEndsStep, QuietStep
<1>6. CASE GatewayReset
  BY <1>6, GatewayResetStep, QuietStep
<1>7. CASE ObjectReset
  BY <1>7, ObjectResetStep, QuietStep
<1> QED
  BY <1>1, <1>2, <1>3, <1>4, <1>5, <1>6, <1>7, GatewayStepIsQuiet DEF Next, Work

\* Nothing has run and no call is under way at first.
LEMMA InitOnceInv == Init => OnceInv
<1> SUFFICES ASSUME Init, NEW m \in Messages PROVE RunsOnceInv(m)
  BY DEF OnceInv
<1>1. \A d \in Requests : ~Pending(d, m)
  BY DEF Init, NoRequest, Pending
<1> QED
  BY <1>1 DEF Init, RunsOnceInv

(* TurnRunsOnce: whatever is reset, and however often the gateway asks, one *)
(* run is begun for a leading message (runTurn, MatrixTurnLedger.start),    *)
(* unless two calls about it read the ledger before either has written.     *)
THEOREM OneRunPerTurn == Spec => []TurnRunsOnce
<1>1. Init => TypeInv /\ OnceInv
  BY InitTypeInv, InitOnceInv
<1>2. TypeInv /\ OnceInv /\ [Next]_vars => (TypeInv /\ OnceInv)'
  BY NextTypeInv, NextOnceInv
<1>3. TypeInv /\ OnceInv => TurnRunsOnce
  BY DEF OnceInv, RunsOnceInv, TurnRunsOnce
<1> QED
  BY <1>1, <1>2, <1>3, PTL DEF Spec

-----------------------------------------------------------------------------
(* Why a row leaves with an answer of its own *)

\* The run r is going, and is the turn of m.
GoingFor(r, m) == r \in Requests /\ run[r].state = "going" /\ run[r].lead = m

\* A call and the run it is for: none before it begins, the turn of its leading
\* message while it waits.  A first reply answers the burst, any reply its lead,
\* unless it is an empty one, of a run whose reply was lost.
CallFits(d) ==
  request[d] # NoRequest =>
    /\ request[d].lead \in request[d].ids
    /\ request[d].stage \in {"queued", "start", "begin"} => run[d] = NoRun
    /\ request[d].stage \in {"joined", "attached"} =>
         /\ GoingFor(request[d].on, request[d].lead)
         /\ request[d].on = d => run[d].text = request[d].ids
    /\ request[d].stage = "posting" =>
         /\ request[d].fresh => request[d].text = request[d].ids
         /\ request[d].text # {} \/ request[d].lead \in lost
    /\ request[d].stage = "closing" =>
         /\ \/ request[d].lead \in posted[request[d].lead]
            \/ posted[request[d].lead] = {} /\ request[d].lead \in lost
         /\ request[d].fresh /\ begun[request[d].lead] <= 1 =>
              request[d].ids \subseteq posted[request[d].lead]

\* The instance knows the runs it awaits, and which turn each is; a run that is
\* kept once it is over has no text, and its reply went to nobody.
RunsFit ==
  /\ \A r \in watched : run[r].state = "going"
  /\ \A r \in Requests : run[r].state = "finished" => run[r].text = {} /\ run[r].lead \in lost
  /\ \A m \in Messages : matrixTurnRuns[m] # Nobody =>
       GoingFor(matrixTurnRuns[m], m) /\ matrixTurnRuns[m] \in watched

\* The request the ledger names for a turn runs that turn and no other.
LedgerFits ==
  \A m \in Messages, r \in Requests : ledger[m].request = r =>
    /\ request[r].stage \notin {"queued", "start"}
    /\ request[r].stage = "begin" => request[r].lead = m
    /\ run[r] # NoRun => run[r].lead = m

\* t is what a run that is going, the ledger, a call or the room has for the turn
\* of m; an empty reply is none.
Answer(m, t) ==
  \/ \E r \in Requests : run[r].state = "going" /\ run[r].lead = m /\ run[r].text = t
  \/ ledger[m].state = "answered" /\ ledger[m].text = t
  \/ \E d \in Requests : /\ request[d].stage = "posting" /\ request[d].lead = m
                         /\ request[d].text = t /\ t # {}
  \/ posted[m] = t /\ t # {}

\* Only a run makes an answer, every answer is one for its message, and the
\* answers of a turn that ran once are one.
AnswersFit ==
  \A m \in Messages :
    /\ begun[m] = 0 => \A t \in SUBSET Messages : ~Answer(m, t)
    /\ \A t \in SUBSET Messages : Answer(m, t) => m \in t
    /\ begun[m] <= 1 => \A t, u \in SUBSET Messages : Answer(m, t) /\ Answer(m, u) => t = u

AnswerInv ==
  /\ \A d \in Requests : CallFits(d)
  /\ RunsFit /\ LedgerFits /\ AnswersFit

\* A step that makes no answer keeps the answers one.
LEMMA NoNewAnswer ==
  ASSUME AnswersFit, UNCHANGED begun,
         \A m \in Messages : \A t \in SUBSET Messages : Answer(m, t)' => Answer(m, t)
  PROVE  AnswersFit'
<1> SUFFICES ASSUME NEW m \in Messages
             PROVE  /\ begun'[m] = 0 => \A t \in SUBSET Messages : ~Answer(m, t)'
                    /\ \A t \in SUBSET Messages : Answer(m, t)' => m \in t
                    /\ begun'[m] <= 1 =>
                         \A t, u \in SUBSET Messages : Answer(m, t)' /\ Answer(m, u)' => t = u
  BY DEF AnswersFit
<1>1. /\ begun[m] = 0 => \A t \in SUBSET Messages : ~Answer(m, t)
      /\ \A t \in SUBSET Messages : Answer(m, t) => m \in t
      /\ begun[m] <= 1 => \A t, u \in SUBSET Messages : Answer(m, t) /\ Answer(m, u) => t = u
  BY DEF AnswersFit
<1>2. \A t \in SUBSET Messages : Answer(m, t)' => Answer(m, t)
  OBVIOUS
<1> HIDE DEF Answer
<1> QED
  BY <1>1, <1>2

\* A call that stays, ends, or is told off; or stays where it was, as an orphan.
Fades(e) ==
  \/ request'[e] = request[e] \/ request'[e] = NoRequest
  \/ /\ request[e] # NoRequest
     /\ request'[e].lead = request[e].lead /\ request'[e].ids = request[e].ids
     /\ \/ request'[e].stage = "telling"
        \/ request'[e].stage \in {"start", "begin"} /\ request'[e].stage = request[e].stage

\* A step that runs nothing, writes no ledger and sends no reply.
LEMMA FadingStep ==
  ASSUME TypeInv, AnswerInv, \A e \in Requests : Fades(e),
         UNCHANGED <<run, ledger, posted, begun, lost>>,
         \/ UNCHANGED <<matrixTurnRuns, watched>>
         \/ matrixTurnRuns' = [m \in Messages |-> Nobody] /\ watched' = {}
  PROVE  AnswerInv'
<1>1. ASSUME NEW d \in Requests
      PROVE  CallFits(d)'
  <2>1. CallFits(d) /\ Fades(d)
    BY DEF AnswerInv
  <2> QED
    BY <2>1 DEF CallFits, Fades, GoingFor
<1>2. RunsFit'
  BY DEF AnswerInv, RunsFit, GoingFor
<1>3. LedgerFits'
  <2> SUFFICES ASSUME NEW m \in Messages, NEW r \in Requests, ledger'[m].request = r
               PROVE  /\ request'[r].stage \notin {"queued", "start"}
                      /\ request'[r].stage = "begin" => request'[r].lead = m
                      /\ run'[r] # NoRun => run'[r].lead = m
    BY DEF LedgerFits
  <2>1. Fades(r)
    OBVIOUS
  <2>2. /\ request[r].stage \notin {"queued", "start"}
        /\ request[r].stage = "begin" => request[r].lead = m
        /\ run[r] # NoRun => run[r].lead = m
    BY DEF AnswerInv, LedgerFits
  <2> QED
    BY <2>1, <2>2 DEF Fades, NoRequest
<1>4. \A d \in Requests : request'[d].stage = "posting" => request'[d] = request[d]
  BY DEF Fades, NoRequest
<1>5. AnswersFit'
  <2>1. \A m \in Messages : \A t \in SUBSET Messages : Answer(m, t)' => Answer(m, t)
    BY <1>4 DEF Answer
  <2> QED
    BY <2>1, NoNewAnswer DEF AnswerInv
<1> QED
  BY <1>1, <1>2, <1>3, <1>5 DEF AnswerInv

\* A call with its answer: it posts it, unless nobody waits for it.
LEMMA RepliedIs ==
  ASSUME NEW d \in Requests, request[d] \in Request, NEW text, NEW fresh
  PROVE  LET q == Replied(d, text, fresh)
         IN  \/ q = NoRequest
             \/ /\ q.stage = "posting" /\ q.text = text /\ q.fresh = fresh
                /\ q.lead = request[d].lead /\ q.ids = request[d].ids
BY DEF Replied, Request, NoRequest

\* A call that finds an answer made before: not a first reply.
LEMMA RepliedAgainIs ==
  ASSUME NEW d \in Requests, request[d] \in Request, NEW text
  PROVE  LET q == Replied(d, text, FALSE)
         IN  \/ q = NoRequest
             \/ /\ q.stage = "posting" /\ q.text = text /\ ~q.fresh
                /\ q.lead = request[d].lead /\ q.ids = request[d].ids
BY DEF Replied, Request, NoRequest

\* A call that is refused is told so.
LEMMA RefusedIs ==
  ASSUME NEW d \in Requests, request[d] \in Request
  PROVE  LET q == Refused(d)
         IN  \/ q = NoRequest
             \/ /\ q.stage = "telling"
                /\ q.lead = request[d].lead /\ q.ids = request[d].ids
BY DEF Refused, Request, NoRequest

\* A call that waits on a run.
LEMMA WaitsIs ==
  ASSUME NEW d \in Requests, request[d] \in Request, NEW r, NEW how
  PROVE  LET q == WaitsOn(d, r, how)
         IN  \/ q = NoRequest
             \/ /\ q.stage = how /\ q.on = r
                /\ q.lead = request[d].lead /\ q.ids = request[d].ids
BY DEF WaitsOn, Request, NoRequest

\* A call when runs end: it stays if it waits on none of them; else it ends, is
\* told off, or has what its run answered.
LEMMA AfterIs ==
  ASSUME TypeInv, NEW e \in Requests, NEW runs, NEW outcome
  PROVE  LET q == After(e, runs, outcome)
         IN  \/ /\ q = request[e]
                /\ request[e].stage \in {"joined", "attached"} => request[e].on \notin runs
             \/ /\ request[e] \in Request /\ request[e].stage \in {"joined", "attached"}
                /\ request[e].on \in runs
                /\ \/ q = NoRequest
                   \/ q.lead = request[e].lead /\ q.ids = request[e].ids /\ q.stage = "telling"
                   \/ /\ q.lead = request[e].lead /\ q.ids = request[e].ids
                      /\ q.stage = "posting" /\ outcome = "finished"
                      /\ q.text = run[request[e].on].text
                      /\ q.fresh = (e = request[e].on)
<1> DEFINE q == After(e, runs, outcome)
<1>1. CASE request[e].stage \notin {"joined", "attached"} \/ request[e].on \notin runs
  <2>1. q = request[e]
    BY <1>1 DEF After
  <2> QED
    BY <1>1, <2>1
<1>2. CASE request[e].stage \in {"joined", "attached"} /\ request[e].on \in runs
  <2>1. request[e] \in Request
    BY <1>2, RequestType DEF TypeInv, Stages
  <2>2. CASE outcome = "finished"
    <3>1. q = Replied(e, run[request[e].on].text, e = request[e].on)
      BY <1>2, <2>2 DEF After
    <3> QED
      BY <1>2, <2>1, <2>2, <3>1, RepliedIs
  <2>3. CASE outcome # "finished"
    <3>1. q = NoRequest \/ q = Refused(e)
      BY <1>2, <2>3 DEF After
    <3> QED
      BY <1>2, <2>1, <3>1, RefusedIs
  <2> QED
    BY <2>2, <2>3
<1> QED
  BY <1>1, <1>2

\* A burst becomes a call no run and no entry of the ledger knows.
LEMMA FlushFits ==
  ASSUME TypeInv, AnswerInv, Flush
  PROVE  AnswerInv'
<1>1. Fresh \in Requests /\ Unused(Fresh)
  BY DEF Flush, Fresh
<1> HIDE DEF Fresh
<1> DEFINE q == [stage |-> "queued", lead |-> EventOf(buffer), ids |-> Range(buffer),
                 orphan |-> FALSE, on |-> Nobody, text |-> {}, fresh |-> FALSE]
<1>2. /\ request' = [request EXCEPT ![Fresh] = q]
      /\ buffer # << >>
      /\ UNCHANGED <<run, ledger, posted, begun, lost, matrixTurnRuns, watched>>
  BY DEF Flush, room, object, history
<1>3. EventOf(buffer) \in Range(buffer)
  <2>1. buffer \in Seq(Messages) /\ 1 \in DOMAIN buffer
    BY <1>2 DEF TypeInv, TypeOK
  <2> QED
    BY <2>1 DEF EventOf, Range
<1>4. /\ q.stage = "queued" /\ q.lead \in q.ids
      /\ \A e \in Requests : request'[e] = IF e = Fresh THEN q ELSE request[e]
  BY <1>2, <1>3 DEF TypeInv, TypeOK
<1> HIDE DEF q
<1>5. ASSUME NEW d \in Requests
      PROVE  CallFits(d)'
  <2>1. CallFits(d)
    BY DEF AnswerInv
  <2>2. CASE d = Fresh
    BY <1>1, <1>2, <1>4, <2>2 DEF CallFits, Unused
  <2>3. CASE d # Fresh
    BY <1>2, <1>4, <2>1, <2>3 DEF CallFits, GoingFor
  <2> QED
    BY <2>2, <2>3
<1>6. RunsFit'
  BY <1>2 DEF AnswerInv, RunsFit, GoingFor
<1>7. LedgerFits'
  BY <1>1, <1>2, <1>4 DEF AnswerInv, LedgerFits, Unused
<1>8. AnswersFit'
  <2>1. \A m \in Messages : \A t \in SUBSET Messages : Answer(m, t)' => Answer(m, t)
    BY <1>2, <1>4 DEF Answer
  <2> QED
    BY <1>2, <2>1, NoNewAnswer DEF AnswerInv
<1> QED
  BY <1>5, <1>6, <1>7, <1>8 DEF AnswerInv

\* The ledger names a call that is about to begin the turn.
LEMMA StartFits ==
  ASSUME TypeInv, AnswerInv, NEW d \in Requests, StartTurn(d)
  PROVE  AnswerInv'
<1> DEFINE m == request[d].lead
<1>1. /\ request[d].stage = "start"
      /\ ledger' = IF ledger[m].state = "unknown"
                   THEN [ledger EXCEPT ![m].state = "started", ![m].request = d]
                   ELSE ledger
      /\ request' = [request EXCEPT ![d].stage = "begin"]
      /\ UNCHANGED <<run, posted, begun, lost, matrixTurnRuns, watched>>
  BY DEF StartTurn, room, history
<1>2. request[d] \in Request
  BY <1>1, RequestType DEF TypeInv, Stages
<1>3. /\ \A e \in Requests : e # d => request'[e] = request[e]
      /\ request'[d].stage = "begin"
      /\ request'[d].lead = request[d].lead /\ request'[d].ids = request[d].ids
      /\ request'[d] # NoRequest /\ request[d] # NoRequest
  <2>1. /\ \A e \in Requests : e # d => request'[e] = request[e]
        /\ request'[d] = [request[d] EXCEPT !.stage = "begin"]
    BY <1>1 DEF TypeInv, TypeOK
  <2> QED
    BY <1>1, <1>2, <2>1 DEF Request, NoRequest
<1>4. run[d] = NoRun
  BY <1>1, <1>3 DEF AnswerInv, CallFits
<1>5. \A n \in Messages :
        \/ ledger'[n] = ledger[n]
        \/ n = m /\ ledger'[n].state = "started" /\ ledger'[n].request = d
  <2>1. CASE ledger[m].state = "unknown"
    <3>1. ledger' = [ledger EXCEPT ![m] = [ledger[m] EXCEPT !.state = "started", !.request = d]]
      BY <1>1, <2>1 DEF TypeInv, TypeOK
    <3>2. ledger[m] \in Entry /\ m \in Messages
      BY <1>2 DEF TypeInv, TypeOK, Request
    <3> DEFINE e == [ledger[m] EXCEPT !.state = "started", !.request = d]
    <3>3. e.state = "started" /\ e.request = d
      BY <3>2 DEF Entry
    <3>4. ledger' = [ledger EXCEPT ![m] = e]
      BY <3>1
    <3> HIDE DEF e, m
    <3> QED
      BY <3>2, <3>3, <3>4 DEF TypeInv, TypeOK
  <2>2. CASE ledger[m].state # "unknown"
    BY <1>1, <2>2
  <2> QED
    BY <2>1, <2>2
<1>6. ASSUME NEW e \in Requests
      PROVE  CallFits(e)'
  <2>1. CallFits(e)
    BY DEF AnswerInv
  <2>2. CASE e = d
    BY <1>1, <1>3, <1>4, <2>1, <2>2 DEF CallFits
  <2>3. CASE e # d
    BY <1>1, <1>3, <2>1, <2>3 DEF CallFits, GoingFor
  <2> QED
    BY <2>2, <2>3
<1>7. RunsFit'
  BY <1>1 DEF AnswerInv, RunsFit, GoingFor
<1>8. LedgerFits'
  <2> SUFFICES ASSUME NEW n \in Messages, NEW r \in Requests, ledger'[n].request = r
               PROVE  /\ request'[r].stage \notin {"queued", "start"}
                      /\ request'[r].stage = "begin" => request'[r].lead = n
                      /\ run'[r] # NoRun => run'[r].lead = n
    BY DEF LedgerFits
  <2>1. CASE ledger'[n] = ledger[n]
    <3>1. /\ request[r].stage \notin {"queued", "start"}
          /\ request[r].stage = "begin" => request[r].lead = n
          /\ run[r] # NoRun => run[r].lead = n
      BY <2>1 DEF AnswerInv, LedgerFits
    <3> QED
      BY <1>1, <1>3, <3>1
  <2>2. CASE n = m /\ ledger'[n].request = d
    BY <1>1, <1>3, <1>4, <2>2
  <2> QED
    BY <1>5, <2>1, <2>2
<1>9. AnswersFit'
  <2>1. \A n \in Messages : \A t \in SUBSET Messages : Answer(n, t)' => Answer(n, t)
    BY <1>1, <1>3, <1>5 DEF Answer
  <2> QED
    BY <1>1, <2>1, NoNewAnswer DEF AnswerInv
<1> QED
  BY <1>6, <1>7, <1>8, <1>9 DEF AnswerInv

\* The reply under a transaction id is the first one sent, and stays.
LEMMA PostFits ==
  ASSUME TypeInv, AnswerInv, NEW d \in Requests, PostReply(d)
  PROVE  AnswerInv'
<1> DEFINE m == request[d].lead
<1>1. /\ request[d].stage = "posting"
      /\ posted' = [posted EXCEPT ![m] = IF @ = {} THEN request[d].text ELSE @]
      /\ request' = [request EXCEPT ![d].stage = "closing", ![d].text = {}]
      /\ UNCHANGED <<run, ledger, begun, lost, matrixTurnRuns, watched>>
  BY DEF PostReply, ReplyKey, object, history
<1>2. request[d] \in Request /\ m \in Messages
  <2>1. request[d] \in Request
    BY <1>1, RequestType DEF TypeInv, Stages
  <2> QED
    BY <2>1 DEF Request
<1>3. /\ \A e \in Requests : e # d => request'[e] = request[e]
      /\ request'[d].stage = "closing" /\ request'[d].fresh = request[d].fresh
      /\ request'[d].lead = request[d].lead /\ request'[d].ids = request[d].ids
      /\ request'[d] # NoRequest /\ request[d] # NoRequest
  <2> DEFINE q == [request[d] EXCEPT !.stage = "closing", !.text = {}]
  <2>1. /\ q.stage = "closing" /\ q.fresh = request[d].fresh
        /\ q.lead = request[d].lead /\ q.ids = request[d].ids
        /\ q # NoRequest /\ request[d] # NoRequest
    <3> DEFINE p == [request[d] EXCEPT !.stage = "closing"]
    <3>1. /\ p \in Request /\ p.stage = "closing" /\ p.fresh = request[d].fresh
          /\ p.lead = request[d].lead /\ p.ids = request[d].ids
      BY <1>2 DEF Request, Stages
    <3>2. q = [p EXCEPT !.text = {}]
      BY <1>2 DEF Request
    <3>3. request[d] # NoRequest
      BY <1>1 DEF NoRequest
    <3> HIDE DEF p, q
    <3>4. /\ q.stage = p.stage /\ q.fresh = p.fresh
          /\ q.lead = p.lead /\ q.ids = p.ids
      BY <3>1, <3>2 DEF Request
    <3>5. q # NoRequest
      BY <3>1, <3>4 DEF NoRequest
    <3> QED
      BY <3>1, <3>3, <3>4, <3>5
  <2>2. request' = [request EXCEPT ![d] = q]
    BY <1>1 DEF TypeInv, TypeOK
  <2> HIDE DEF q, m
  <2> QED
    BY <2>1, <2>2 DEF TypeInv, TypeOK
<1>4. \A n \in Messages :
        posted'[n] = IF n = m /\ posted[n] = {} THEN request[d].text ELSE posted[n]
  BY <1>1, <1>2 DEF TypeInv, TypeOK
<1>5. /\ request[d].text \in SUBSET Messages
      /\ request[d].text # {} => Answer(m, request[d].text)
  BY <1>1, <1>2 DEF Answer, Request
<1>6. \/ m \in request[d].text
      \/ request[d].text = {} /\ ~request[d].fresh /\ m \in lost
  <2>1. /\ request[d].text # {} \/ m \in lost
        /\ request[d].fresh => request[d].text # {}
    BY <1>1, <1>3 DEF AnswerInv, CallFits
  <2>2. request[d].text # {} => m \in request[d].text
    BY <1>2, <1>5 DEF AnswerInv, AnswersFit
  <2> QED
    BY <2>1, <2>2
<1>7. posted[m] # {} =>
        /\ m \in posted[m]
        /\ begun[m] <= 1 /\ request[d].text # {} => posted[m] = request[d].text
  <2> SUFFICES ASSUME posted[m] # {}
               PROVE  /\ m \in posted[m]
                      /\ begun[m] <= 1 /\ request[d].text # {} => posted[m] = request[d].text
    OBVIOUS
  <2>1. posted[m] \in SUBSET Messages
    BY <1>2 DEF TypeInv, TypeOK
  <2>2. Answer(m, posted[m])
    BY DEF Answer
  <2> HIDE DEF m, Answer
  <2> QED
    BY <1>2, <1>5, <2>1, <2>2 DEF AnswerInv, AnswersFit
<1>8. /\ m \in posted'[m] \/ (posted'[m] = {} /\ m \in lost)
      /\ begun[m] <= 1 /\ request[d].fresh => posted'[m] = request[d].text
      /\ posted'[m] # {} => m \in posted'[m]
      /\ \A n \in Messages : posted[n] # {} => posted'[n] = posted[n]
      /\ \A n \in Messages : n # m => posted'[n] = posted[n]
  BY <1>2, <1>4, <1>6, <1>7
<1>9. ASSUME NEW e \in Requests
      PROVE  CallFits(e)'
  <2>1. CallFits(e) /\ CallFits(d)
    BY DEF AnswerInv
  <2>2. CASE e = d
    <3>1. request[d].fresh => request[d].text = request[d].ids
      BY <1>1, <1>3, <2>1 DEF CallFits
    <3>2. request[d].lead \in request[d].ids
      BY <1>3, <2>1 DEF CallFits
    <3>3. /\ \/ request'[d].lead \in posted'[request'[d].lead]
             \/ posted'[request'[d].lead] = {} /\ request'[d].lead \in lost
          /\ request'[d].fresh /\ begun'[request'[d].lead] <= 1 =>
               request'[d].ids \subseteq posted'[request'[d].lead]
      BY <1>1, <1>3, <1>8, <3>1
    <3>4. \/ request'[d].lead \in posted'[request'[d].lead]
          \/ posted'[request'[d].lead] = {} /\ request'[d].lead \in lost'
      BY <1>1, <3>3
    <3>5. request'[d].lead \in request'[d].ids
      BY <1>3, <3>2
    <3> HIDE DEF m
    <3> QED
      BY <1>3, <2>2, <3>3, <3>4, <3>5 DEF CallFits
  <2>3. CASE e # d /\ request[e] # NoRequest
    <3>1. request[e] \in Request /\ request[e].lead \in Messages
      BY <2>3 DEF TypeInv, TypeOK, Request
    <3>2. request[e].stage = "closing" =>
            /\ \/ request[e].lead \in posted'[request[e].lead]
               \/ posted'[request[e].lead] = {} /\ request[e].lead \in lost
            /\ request[e].fresh /\ begun[request[e].lead] <= 1 =>
                 request[e].ids \subseteq posted'[request[e].lead]
      <4> SUFFICES ASSUME request[e].stage = "closing"
                   PROVE  /\ \/ request[e].lead \in posted'[request[e].lead]
                             \/ posted'[request[e].lead] = {} /\ request[e].lead \in lost
                          /\ request[e].fresh /\ begun[request[e].lead] <= 1 =>
                               request[e].ids \subseteq posted'[request[e].lead]
        OBVIOUS
      <4>1. /\ \/ request[e].lead \in posted[request[e].lead]
               \/ posted[request[e].lead] = {} /\ request[e].lead \in lost
            /\ request[e].lead \in request[e].ids
            /\ request[e].fresh /\ begun[request[e].lead] <= 1 =>
                 request[e].ids \subseteq posted[request[e].lead]
        BY <2>1, <2>3 DEF CallFits
      <4> HIDE DEF m
      <4> QED
        BY <1>8, <3>1, <4>1
    <3>3. request'[e] = request[e]
      BY <1>3, <2>3
    <3>4. request[e].stage \in {"joined", "attached"} =>
            /\ GoingFor(request[e].on, request[e].lead)'
            /\ request[e].on = e => run'[e].text = request[e].ids
      BY <1>1, <2>1, <2>3, <3>3 DEF CallFits, GoingFor
    <3>5. request[e].stage \in {"queued", "start", "begin"} => run'[e] = NoRun
      BY <1>1, <2>1, <2>3 DEF CallFits
    <3>6. request[e].stage = "posting" =>
            /\ request[e].fresh => request[e].text = request[e].ids
            /\ request[e].text # {} \/ request[e].lead \in lost'
      BY <1>1, <2>1, <2>3 DEF CallFits
    <3>7. request[e].stage = "closing" =>
            /\ \/ request[e].lead \in posted'[request[e].lead]
               \/ posted'[request[e].lead] = {} /\ request[e].lead \in lost'
            /\ request[e].fresh /\ begun'[request[e].lead] <= 1 =>
                 request[e].ids \subseteq posted'[request[e].lead]
      BY <1>1, <3>2
    <3>8. request[e].lead \in request[e].ids
      BY <2>1, <2>3 DEF CallFits
    <3> HIDE DEF m
    <3> QED
      BY <3>3, <3>4, <3>5, <3>6, <3>7, <3>8 DEF CallFits
  <2>4. CASE e # d /\ request[e] = NoRequest
    BY <1>3, <2>4 DEF CallFits
  <2> QED
    BY <2>2, <2>3, <2>4
<1>10. RunsFit'
  BY <1>1 DEF AnswerInv, RunsFit, GoingFor
<1>11. LedgerFits'
  BY <1>1, <1>3 DEF AnswerInv, LedgerFits
<1>12. AnswersFit'
  <2>1. ASSUME NEW n \in Messages, NEW t \in SUBSET Messages, Answer(n, t)'
        PROVE  Answer(n, t)
    <3>1. CASE n = m /\ posted[n] = {} /\ posted'[n] = t /\ t # {}
      BY <1>4, <1>5, <3>1
    <3>2. CASE ~(n = m /\ posted[n] = {} /\ posted'[n] = t /\ t # {})
      <4>1. posted'[n] = t /\ t # {} => posted[n] = t
        BY <1>4, <3>2
      <4> HIDE DEF m
      <4> QED
        BY <1>1, <1>3, <2>1, <4>1 DEF Answer
    <3> QED
      BY <3>1, <3>2
  <2> QED
    BY <1>1, <2>1, NoNewAnswer DEF AnswerInv
<1> QED
  BY <1>9, <1>10, <1>11, <1>12 DEF AnswerInv

\* What attachToRun finds is the run of the turn, or what it answered.
LEMMA AttachedIs ==
  ASSUME TypeInv, NEW d \in Requests, request[d] \in Request, NEW r
  PROVE  LET q == Attached(d, r)
         IN  \/ q = NoRequest
             \/ /\ q.lead = request[d].lead /\ q.ids = request[d].ids
                /\ \/ q.stage = "telling"
                   \/ /\ q.stage = "attached" /\ q.on = r
                      /\ r \in Requests /\ run[r].state = "going"
                   \/ /\ q.stage = "posting" /\ ~q.fresh /\ r \in Requests
                      /\ run[r].state = "finished" /\ q.text = run[r].text
<1>1. CASE r \in Requests /\ run[r].state = "going"
  <2>1. Attached(d, r) = WaitsOn(d, r, "attached")
    BY <1>1 DEF Attached
  <2> QED
    BY <1>1, <2>1, WaitsIs
<1>2. CASE r \in Requests /\ run[r].state = "finished"
  <2> DEFINE q == Replied(d, run[r].text, FALSE)
  <2>1. Attached(d, r) = q
    BY <1>2 DEF Attached
  <2>2. \/ q = NoRequest
        \/ /\ q.stage = "posting" /\ q.text = run[r].text /\ ~q.fresh
           /\ q.lead = request[d].lead /\ q.ids = request[d].ids
    BY RepliedAgainIs
  <2> HIDE DEF q
  <2> QED
    BY <1>2, <2>1, <2>2
<1>3. CASE ~(r \in Requests /\ run[r].state \in {"going", "finished"})
  <2>1. Attached(d, r) = Refused(d)
    BY <1>3 DEF Attached
  <2> QED
    BY <2>1, RefusedIs
<1> QED
  BY <1>1, <1>2, <1>3

\* What a decision makes of a call: it begins the turn, waits for a run of it, has
\* an answer to it, is told off, or ends.
DecidedOn(d) ==
  LET q == request'[d]
      m == request[d].lead
  IN  \/ q = NoRequest
      \/ /\ q.lead = m /\ q.ids = request[d].ids
         /\ \/ q.stage \in {"start", "telling"}
            \/ q.stage = "joined" /\ q.on = matrixTurnRuns[m] /\ q.on # Nobody
            \/ /\ q.stage = "attached" /\ q.on = ledger[m].request
               /\ q.on \in Requests /\ run[q.on].state = "going"
            \/ /\ q.stage = "posting" /\ ~q.fresh
               /\ \/ ledger[m].state = "answered" /\ q.text = ledger[m].text
                  \/ /\ ledger[m].request \in Requests
                     /\ run[ledger[m].request].state = "finished"
                     /\ q.text = run[ledger[m].request].text

\* A decision follows the running turns and the ledger.
LEMMA DecideIs ==
  ASSUME TypeInv, NEW d \in Requests, Decide(d)
  PROVE  /\ request[d].stage = "queued" /\ request[d] \in Request
         /\ \A e \in Requests : e # d => request'[e] = request[e]
         /\ DecidedOn(d)
         /\ UNCHANGED <<run, ledger, posted, begun, lost, matrixTurnRuns, watched>>
<1> DEFINE m == request[d].lead
<1>1. /\ request[d].stage = "queued"
      /\ UNCHANGED <<run, ledger, posted, begun, lost, matrixTurnRuns, watched>>
  BY DEF Decide, TakesSlot, room, object
<1>2. request[d] \in Request
  BY <1>1, RequestType DEF TypeInv, Stages
<1>3. m \in Messages
  BY <1>2 DEF Request
<1>4. \/ matrixTurnRuns[m] # Nobody
         /\ request' = [request EXCEPT ![d] = WaitsOn(d, matrixTurnRuns[m], "joined")]
      \/ request' = [request EXCEPT ![d].stage = "start"]
      \/ Decision(m) = "answered"
         /\ request' = [request EXCEPT ![d] = Replied(d, ledger[m].text, FALSE)]
      \/ request' = [request EXCEPT ![d] = Attached(d, ledger[m].request)]
  BY DEF Decide
<1>5. request' = [request EXCEPT ![d] = request'[d]]
  BY DecideStep
<1>6. \A e \in Requests : e # d => request'[e] = request[e]
  BY <1>5 DEF TypeInv, TypeOK
<1>7. DecidedOn(d)
  <2>1. CASE /\ matrixTurnRuns[m] # Nobody
             /\ request' = [request EXCEPT ![d] = WaitsOn(d, matrixTurnRuns[m], "joined")]
    <3>1. request'[d] = WaitsOn(d, matrixTurnRuns[m], "joined")
      BY <2>1 DEF TypeInv, TypeOK
    <3> QED
      BY <1>2, <2>1, <3>1, WaitsIs DEF DecidedOn
  <2>2. CASE request' = [request EXCEPT ![d].stage = "start"]
    <3>1. request'[d] = [request[d] EXCEPT !.stage = "start"]
      BY <2>2 DEF TypeInv, TypeOK
    <3>2. /\ request'[d].stage = "start"
          /\ request'[d].lead = m /\ request'[d].ids = request[d].ids
      BY <1>2, <3>1 DEF Request
    <3> QED
      BY <3>2 DEF DecidedOn
  <2>3. CASE /\ Decision(m) = "answered"
             /\ request' = [request EXCEPT ![d] = Replied(d, ledger[m].text, FALSE)]
    <3>1. request'[d] = Replied(d, ledger[m].text, FALSE)
      BY <2>3 DEF TypeInv, TypeOK
    <3>2. ledger[m].state = "answered"
      <4>1. ledger[m].state \in {"unknown", "started", "answered"}
        BY <1>3 DEF TypeInv, TypeOK, Entry
      <4>2. ledger[m].state = "unknown" => Decision(m) = "run"
        BY DEF Decision
      <4>3. ledger[m].state = "started" => Decision(m) = "interrupted"
        BY DEF Decision
      <4> QED
        BY <2>3, <4>1, <4>2, <4>3
    <3> DEFINE q == Replied(d, ledger[m].text, FALSE)
    <3>3. \/ q = NoRequest
          \/ /\ q.stage = "posting" /\ q.text = ledger[m].text /\ ~q.fresh
             /\ q.lead = request[d].lead /\ q.ids = request[d].ids
      BY <1>2, RepliedAgainIs
    <3>4. request'[d] = q
      BY <3>1
    <3> HIDE DEF q
    <3> QED
      BY <3>2, <3>3, <3>4 DEF DecidedOn
  <2>4. CASE request' = [request EXCEPT ![d] = Attached(d, ledger[m].request)]
    <3>1. request'[d] = Attached(d, ledger[m].request)
      BY <2>4 DEF TypeInv, TypeOK
    <3> QED
      BY <1>2, <3>1, AttachedIs DEF DecidedOn
  <2> QED
    BY <1>4, <2>1, <2>2, <2>3, <2>4
<1> QED
  BY <1>1, <1>2, <1>6, <1>7

\* A decision makes no answer, and waits for a run of its own turn.
LEMMA DecideFits ==
  ASSUME TypeInv, AnswerInv, NEW d \in Requests, Decide(d)
  PROVE  AnswerInv'
<1> DEFINE m == request[d].lead
           s == ledger[m].request
<1>1. /\ request[d].stage = "queued" /\ request[d] \in Request
      /\ \A e \in Requests : e # d => request'[e] = request[e]
      /\ DecidedOn(d)
      /\ UNCHANGED <<run, ledger, posted, begun, lost, matrixTurnRuns, watched>>
  BY DecideIs
<1>2. m \in Messages /\ request[d] # NoRequest
  BY <1>1 DEF Request, NoRequest
<1>3. /\ m \in request[d].ids /\ run[d] = NoRun
      /\ matrixTurnRuns[m] # Nobody => GoingFor(matrixTurnRuns[m], m)
      /\ s \in Requests /\ run[s] # NoRun => run[s].lead = m
      /\ s \in Requests /\ run[s].state = "finished" => run[s].text = {} /\ run[s].lead \in lost
      /\ s # d
  BY <1>1, <1>2 DEF AnswerInv, CallFits, RunsFit, LedgerFits
<1>4. NoRun.state = "none" /\ NoRequest.stage = "none"
  BY DEF NoRun, NoRequest
<1>5. \/ request'[d] = NoRequest
      \/ /\ request'[d].lead = m /\ request'[d].ids = request[d].ids
         /\ \/ request'[d].stage \in {"start", "telling"}
            \/ /\ request'[d].stage \in {"joined", "attached"}
               /\ GoingFor(request'[d].on, m) /\ request'[d].on # d
            \/ /\ request'[d].stage = "posting" /\ ~request'[d].fresh
               /\ request'[d].text # {} => Answer(m, request'[d].text)
               /\ request'[d].text # {} \/ m \in lost
  <2>1. \/ request'[d] = NoRequest
        \/ /\ request'[d].lead = m /\ request'[d].ids = request[d].ids
           /\ \/ request'[d].stage \in {"start", "telling"}
              \/ /\ request'[d].stage = "joined" /\ request'[d].on = matrixTurnRuns[m]
                 /\ request'[d].on # Nobody
              \/ /\ request'[d].stage = "attached" /\ request'[d].on = s
                 /\ request'[d].on \in Requests /\ run[request'[d].on].state = "going"
              \/ /\ request'[d].stage = "posting" /\ ~request'[d].fresh
                 /\ \/ ledger[m].state = "answered" /\ request'[d].text = ledger[m].text
                    \/ /\ s \in Requests /\ run[s].state = "finished"
                       /\ request'[d].text = run[s].text
    BY <1>1 DEF DecidedOn
  <2> HIDE DEF m, s
  <2>2. \A r \in Requests : run[r].state \in {"going", "finished"} => run[r] # NoRun
    BY <1>4
  <2>3. CASE request'[d].stage = "joined" /\ request'[d].on = matrixTurnRuns[m]
             /\ request'[d].on # Nobody
    <3>1. GoingFor(request'[d].on, m) /\ request'[d].on # d
      BY <1>3, <1>4, <2>3 DEF GoingFor
    <3> QED
      BY <2>1, <2>3, <3>1, <1>4
  <2>4. CASE /\ request'[d].stage = "attached" /\ request'[d].on = s
             /\ request'[d].on \in Requests /\ run[request'[d].on].state = "going"
    <3>1. GoingFor(request'[d].on, m) /\ request'[d].on # d
      BY <1>3, <2>2, <2>4 DEF GoingFor
    <3> QED
      BY <2>1, <2>4, <3>1, <1>4
  <2>5. CASE /\ request'[d].stage = "posting" /\ ~request'[d].fresh
             /\ \/ ledger[m].state = "answered" /\ request'[d].text = ledger[m].text
                \/ /\ s \in Requests /\ run[s].state = "finished"
                   /\ request'[d].text = run[s].text
    <3>1. CASE ledger[m].state = "answered" /\ request'[d].text = ledger[m].text
      <4>1. Answer(m, ledger[m].text)
        BY <3>1 DEF Answer
      <4>2. ledger[m].text \in SUBSET Messages
        BY <1>2 DEF TypeInv, TypeOK, Entry
      <4>3. ledger[m].text # {}
        BY <1>2, <4>1, <4>2 DEF AnswerInv, AnswersFit
      <4> QED
        BY <2>1, <2>5, <3>1, <4>1, <4>3, <1>4
    <3>2. CASE s \in Requests /\ run[s].state = "finished" /\ request'[d].text = run[s].text
      <4>1. request'[d].text = {} /\ m \in lost
        BY <1>3, <2>2, <3>2
      <4> QED
        BY <2>1, <2>5, <4>1, <1>4
    <3> QED
      BY <2>5, <3>1, <3>2
  <2> QED
    BY <2>1, <2>3, <2>4, <2>5
<1> HIDE DEF m, s
<1>6. ASSUME NEW e \in Requests
      PROVE  CallFits(e)'
  <2>1. CallFits(e)
    BY DEF AnswerInv
  <2>2. CASE e = d
    BY <1>1, <1>3, <1>4, <1>5, <2>2 DEF CallFits, GoingFor
  <2>3. CASE e # d
    BY <1>1, <2>1, <2>3 DEF CallFits, GoingFor
  <2> QED
    BY <2>2, <2>3
<1>7. RunsFit'
  BY <1>1 DEF AnswerInv, RunsFit, GoingFor
<1>8. LedgerFits'
  <2> SUFFICES ASSUME NEW n \in Messages, NEW r \in Requests, ledger'[n].request = r
               PROVE  /\ request'[r].stage \notin {"queued", "start"}
                      /\ request'[r].stage = "begin" => request'[r].lead = n
                      /\ run'[r] # NoRun => run'[r].lead = n
    BY DEF LedgerFits
  <2>1. /\ request[r].stage \notin {"queued", "start"}
        /\ request[r].stage = "begin" => request[r].lead = n
        /\ run[r] # NoRun => run[r].lead = n
    BY <1>1 DEF AnswerInv, LedgerFits
  <2>2. r # d
    BY <1>1, <2>1
  <2> QED
    BY <1>1, <2>1, <2>2
<1>9. AnswersFit'
  <2>1. ASSUME NEW n \in Messages, NEW t \in SUBSET Messages, Answer(n, t)'
        PROVE  Answer(n, t)
    <3>1. CASE /\ request'[d].stage = "posting" /\ request'[d].lead = n
               /\ request'[d].text = t /\ t # {}
      BY <1>4, <1>5, <3>1
    <3>2. CASE ~(/\ request'[d].stage = "posting" /\ request'[d].lead = n
                 /\ request'[d].text = t /\ t # {})
      BY <1>1, <2>1, <3>2 DEF Answer
    <3> QED
      BY <3>1, <3>2
  <2> QED
    BY <1>1, <2>1, NoNewAnswer DEF AnswerInv
<1> QED
  BY <1>6, <1>7, <1>8, <1>9 DEF AnswerInv

\* The run of a turn is the only one going, its call the only one that waits.
LEMMA BeginFits ==
  ASSUME TypeInv, AnswerInv, NEW d \in Requests, BeginRun(d)
  PROVE  /\ AnswerInv'
         /\ \A e \in Requests : request[e].stage = "joined" => request'[e] = NoRequest
<1> DEFINE m == request[d].lead
           superseded == {r \in Requests : run[r].state = "going"}
           ended == {run[r].lead : r \in superseded \cap watched}
           new == [state |-> "going", lead |-> m, text |-> request[d].ids]
<1>1. /\ request[d].stage = "begin"
      /\ run' = [r \in Requests |->
           IF r = d THEN new ELSE IF r \in superseded THEN NoRun ELSE run[r]]
      /\ request' = [e \in Requests |->
           IF e = d THEN WaitsOn(d, d, "joined") ELSE After(e, superseded, "aborted")]
      /\ matrixTurnRuns' = [n \in Messages |->
           IF n \in ended THEN Nobody ELSE IF n = m THEN d ELSE matrixTurnRuns[n]]
      /\ watched' = (watched \ superseded) \cup {d}
      /\ begun' = [begun EXCEPT ![m] = @ + 1]
      /\ UNCHANGED <<posted, ledger, lost>>
  BY DEF BeginRun
<1>2. request[d] \in Request /\ request[d] # NoRequest
  BY <1>1, RequestType DEF TypeInv, Stages, NoRequest
<1>3. m \in Messages /\ m \in request[d].ids /\ run[d] = NoRun /\ request[d].ids \in SUBSET Messages
  BY <1>1, <1>2 DEF Request, AnswerInv, CallFits
<1>4. NoRun.state = "none" /\ NoRequest.stage = "none"
  BY DEF NoRun, NoRequest
<1>5. new.state = "going" /\ new.lead = m /\ new.text = request[d].ids /\ new # NoRun
  BY <1>4
<1>6. watched \subseteq superseded
  BY DEF AnswerInv, RunsFit, TypeInv, TypeOK
<1>7. \A e \in Requests : e # d =>
        \/ request'[e] = NoRequest
        \/ /\ request'[e] = request[e]
           /\ request[e].stage \notin {"joined", "attached"}
        \/ /\ request'[e].lead = request[e].lead /\ request'[e].ids = request[e].ids
           /\ request'[e].stage = "telling" /\ request[e] # NoRequest
           /\ request[e].stage # "joined"
  <2> SUFFICES ASSUME NEW e \in Requests, e # d
               PROVE  \/ request'[e] = NoRequest
                      \/ /\ request'[e] = request[e]
                         /\ request[e].stage \notin {"joined", "attached"}
                      \/ /\ request'[e].lead = request[e].lead
                         /\ request'[e].ids = request[e].ids
                         /\ request'[e].stage = "telling" /\ request[e] # NoRequest
                         /\ request[e].stage # "joined"
    OBVIOUS
  <2>1. request'[e] = After(e, superseded, "aborted")
    BY <1>1
  <2>2. CASE request[e].stage \in {"joined", "attached"}
    <3>1. request[e].on \in superseded
      BY <1>4, <2>2 DEF AnswerInv, CallFits, GoingFor
    <3>2. CASE request[e].stage = "joined"
      <4>1. After(e, superseded, "aborted") = NoRequest
        BY <3>1, <3>2 DEF After
      <4> QED
        BY <2>1, <4>1
    <3>3. CASE request[e].stage = "attached"
      <4>1. After(e, superseded, "aborted") = Refused(e)
        BY <3>1, <3>3 DEF After
      <4>2. request[e] \in Request
        BY <3>3, RequestType DEF TypeInv, Stages
      <4> QED
        BY <1>4, <2>1, <3>3, <4>1, <4>2, RefusedIs
    <3> QED
      BY <2>2, <3>2, <3>3
  <2>3. CASE request[e].stage \notin {"joined", "attached"}
    <3>1. After(e, superseded, "aborted") = request[e]
      BY <2>3 DEF After
    <3> QED
      BY <2>1, <2>3, <3>1
  <2> QED
    BY <2>2, <2>3
<1>8. \/ request'[d] = NoRequest
      \/ /\ request'[d].stage = "joined" /\ request'[d].on = d
         /\ request'[d].lead = m /\ request'[d].ids = request[d].ids
  <2>1. request'[d] = WaitsOn(d, d, "joined")
    BY <1>1
  <2> QED
    BY <1>2, <2>1, WaitsIs
<1>9. /\ run'[d] = new
      /\ \A r \in Requests : r # d => run'[r] = NoRun \/ (run'[r] = run[r] /\ r \notin superseded)
  BY <1>1
<1>10. \A n \in Messages :
         /\ matrixTurnRuns'[n] # Nobody => n = m /\ matrixTurnRuns'[n] = d
         /\ begun'[n] = IF n = m THEN begun[n] + 1 ELSE begun[n]
  <2>1. ASSUME NEW n \in Messages, matrixTurnRuns[n] # Nobody
        PROVE  n \in ended
    <3>1. /\ matrixTurnRuns[n] \in superseded /\ matrixTurnRuns[n] \in watched
          /\ run[matrixTurnRuns[n]].lead = n
      BY <2>1 DEF AnswerInv, RunsFit, GoingFor
    <3> QED
      BY <3>1
  <2> QED
    BY <1>1, <1>3, <2>1 DEF TypeInv, TypeOK
<1>11. watched' = {d}
  BY <1>1, <1>6
<1>13. \A n \in Messages : begun[n] \in Nat
  BY DEF TypeInv, TypeOK
<1> HIDE DEF m, superseded, ended, new
<1>14. ASSUME NEW e \in Requests
       PROVE  CallFits(e)'
  <2>1. CallFits(e)
    BY DEF AnswerInv
  <2>2. CASE e = d
    BY <1>3, <1>5, <1>8, <1>9, <2>2 DEF CallFits, GoingFor
  <2>3. CASE e # d /\ request'[e] = request[e] /\ request[e] # NoRequest
             /\ request[e].stage \notin {"joined", "attached"}
    <3>1. request[e].stage \in {"queued", "start", "begin"} => run'[e] = NoRun
      BY <1>9, <2>1, <2>3 DEF CallFits
    <3>2. request[e].lead \in Messages
      BY <2>3 DEF TypeInv, TypeOK, Request
    <3>3. begun'[request[e].lead] <= 1 => begun[request[e].lead] <= 1
      BY <1>10, <1>13, <3>2
    <3> QED
      BY <1>1, <2>1, <2>3, <3>1, <3>3 DEF CallFits
  <2>4. CASE /\ e # d /\ request'[e].lead = request[e].lead /\ request'[e].ids = request[e].ids
             /\ request'[e].stage = "telling" /\ request[e] # NoRequest
    BY <2>1, <2>4 DEF CallFits
  <2>5. CASE request'[e] = NoRequest
    BY <2>5 DEF CallFits
  <2> QED
    BY <1>7, <2>2, <2>3, <2>4, <2>5
<1>15. RunsFit'
  <2>1. \A r \in Requests : run'[r].state = "finished" => run[r].state = "finished" /\ run'[r] = run[r]
    BY <1>4, <1>5, <1>9
  <2> QED
    BY <1>1, <1>5, <1>9, <1>10, <1>11, <2>1 DEF AnswerInv, RunsFit, GoingFor
<1>16. LedgerFits'
  <2> SUFFICES ASSUME NEW n \in Messages, NEW r \in Requests, ledger'[n].request = r
               PROVE  /\ request'[r].stage \notin {"queued", "start"}
                      /\ request'[r].stage = "begin" => request'[r].lead = n
                      /\ run'[r] # NoRun => run'[r].lead = n
    BY DEF LedgerFits
  <2>1. /\ request[r].stage \notin {"queued", "start"}
        /\ request[r].stage = "begin" => request[r].lead = n
        /\ run[r] # NoRun => run[r].lead = n
    BY <1>1 DEF AnswerInv, LedgerFits
  <2>2. CASE r = d
    <3>1. n = m
      BY <1>1, <2>1, <2>2 DEF m
    <3> QED
      BY <1>4, <1>5, <1>8, <1>9, <2>2, <3>1
  <2>3. CASE r # d
    BY <1>4, <1>7, <1>9, <2>1, <2>3
  <2> QED
    BY <2>2, <2>3
<1>17. \A n \in Messages : \A t \in SUBSET Messages : Answer(n, t)' =>
         Answer(n, t) \/ (n = m /\ t = request[d].ids)
  <2> SUFFICES ASSUME NEW n \in Messages, NEW t \in SUBSET Messages, Answer(n, t)',
                      ~(n = m /\ t = request[d].ids)
               PROVE  Answer(n, t)
    OBVIOUS
  <2>1. \A e \in Requests : request'[e].stage = "posting" => request'[e] = request[e]
    BY <1>4, <1>7, <1>8
  <2>2. \A r \in Requests :
          run'[r].state = "going" /\ run'[r].lead = n /\ run'[r].text = t => run'[r] = run[r]
    BY <1>4, <1>5, <1>9
  <2> QED
    BY <1>1, <2>1, <2>2 DEF Answer
<1>18. AnswersFit'
  <2> SUFFICES ASSUME NEW n \in Messages
               PROVE  /\ begun'[n] = 0 => \A t \in SUBSET Messages : ~Answer(n, t)'
                      /\ \A t \in SUBSET Messages : Answer(n, t)' => n \in t
                      /\ begun'[n] <= 1 =>
                           \A t, u \in SUBSET Messages : Answer(n, t)' /\ Answer(n, u)' => t = u
    BY DEF AnswersFit
  <2>1. /\ begun[n] = 0 => \A t \in SUBSET Messages : ~Answer(n, t)
        /\ \A t \in SUBSET Messages : Answer(n, t) => n \in t
        /\ begun[n] <= 1 => \A t, u \in SUBSET Messages : Answer(n, t) /\ Answer(n, u) => t = u
    BY DEF AnswerInv, AnswersFit
  <2>2. \A t \in SUBSET Messages : Answer(n, t)' =>
          Answer(n, t) \/ (n = m /\ t = request[d].ids)
    BY <1>17
  <2> HIDE DEF Answer
  <2>3. CASE n = m
    <3>1. begun'[n] = begun[n] + 1 /\ begun[n] \in Nat
      BY <1>10, <1>13, <2>3
    <3>2. begun'[n] <= 1 => begun[n] = 0
      BY <3>1
    <3>3. begun'[n] # 0
      BY <3>1
    <3> QED
      BY <1>3, <2>1, <2>2, <2>3, <3>2, <3>3
  <2>4. CASE n # m
    BY <1>10, <2>1, <2>2, <2>4
  <2> QED
    BY <2>3, <2>4
<1>19. \A e \in Requests : request[e].stage = "joined" => request'[e] = NoRequest
  BY <1>1, <1>7
<1> QED
  BY <1>14, <1>15, <1>16, <1>18, <1>19 DEF AnswerInv

\* The end of a run is told to the calls that wait for it, and to the ledger.
LEMMA RunEndsFits ==
  ASSUME TypeInv, AnswerInv, NEW r \in Requests, NEW outcome, RunEnds(r, outcome)
  PROVE  AnswerInv'
<1> DEFINE m == run[r].lead
           answer == [state |-> "answered", request |-> Nobody, text |-> run[r].text]
           kept == LeftOf(r, outcome)
<1>1. /\ run[r].state = "going"
      /\ \/ /\ run' = [run EXCEPT ![r] = NoRun]
            /\ ledger' = ledger \/ ledger' = [ledger EXCEPT ![m] = answer]
            /\ matrixTurnRuns' = [matrixTurnRuns EXCEPT ![m] = Nobody]
            /\ lost' = lost
         \/ /\ r \notin watched
            /\ run' = [run EXCEPT ![r] = kept]
            /\ lost' = IF outcome = "finished" THEN lost \cup {m} ELSE lost
            /\ UNCHANGED <<ledger, matrixTurnRuns>>
      /\ watched' = watched \ {r}
      /\ request' = [d \in Requests |-> After(d, {r}, outcome)]
      /\ UNCHANGED <<posted, begun>>
  BY DEF RunEnds
<1>2. run[r] \in Run /\ m \in Messages /\ run[r] # NoRun /\ NoRequest.stage = "none"
  <2>1. run[r] \in Run
    BY <1>1, RunType DEF TypeInv
  <2> QED
    BY <1>1, <2>1 DEF Run, NoRun, NoRequest
<1>3. \/ kept = NoRun
      \/ /\ kept.lead = m /\ kept.text = {} /\ kept.state = "finished"
         /\ outcome = "finished"
  <2> DEFINE over == [run[r] EXCEPT !.state = "finished"]
  <2>1. over \in Run /\ over.lead = m /\ over.state = "finished"
    BY <1>2 DEF Run
  <2> DEFINE bare == [over EXCEPT !.text = {}]
  <2>2. bare.lead = over.lead /\ bare.text = {} /\ bare.state = over.state
    BY <2>1 DEF Run
  <2>3. kept = NoRun \/ (kept = bare /\ outcome = "finished")
    BY <1>2 DEF LeftOf, Run
  <2> HIDE DEF kept, over, bare
  <2> QED
    BY <2>1, <2>2, <2>3
<1>4. answer.state = "answered" /\ answer.request = Nobody /\ answer.text = run[r].text
  OBVIOUS
<1> HIDE DEF m, answer, kept
<1>5. /\ \A s \in Requests : s # r => run'[s] = run[s]
      /\ \/ run'[r] = NoRun
         \/ /\ run'[r].lead = m /\ run'[r].text = {} /\ run'[r].state = "finished"
            /\ m \in lost'
      /\ lost \subseteq lost'
  <2>1. /\ \A s \in Requests : s # r => run'[s] = run[s]
        /\ run'[r] = NoRun \/ (run'[r] = kept /\ r \notin watched /\ run' = [run EXCEPT ![r] = kept])
    BY <1>1 DEF TypeInv, TypeOK
  <2>2. \/ lost' = lost \/ lost' = lost \cup {m}
    BY <1>1
  <2>3. CASE run' = [run EXCEPT ![r] = NoRun]
    <3>1. run'[r] = NoRun
      BY <2>3 DEF TypeInv, TypeOK
    <3> QED
      BY <2>1, <2>2, <3>1
  <2>4. CASE /\ run' = [run EXCEPT ![r] = kept]
             /\ lost' = IF outcome = "finished" THEN lost \cup {m} ELSE lost
    <3>1. run'[r] = kept
      BY <2>4 DEF TypeInv, TypeOK
    <3> QED
      BY <1>3, <2>1, <2>2, <2>4, <3>1
  <2> QED
    BY <1>1, <2>3, <2>4
<1>12. Answer(m, run[r].text) /\ run[r].text \in SUBSET Messages /\ run[r].text # {}
  <2>1. Answer(m, run[r].text) /\ run[r].text \in SUBSET Messages
    BY <1>1, <1>2 DEF Answer, Run, m
  <2> HIDE DEF Answer
  <2> QED
    BY <1>2, <2>1 DEF AnswerInv, AnswersFit
<1>6. \A n \in Messages : ledger'[n] = ledger[n] \/ (n = m /\ ledger'[n] = answer)
  BY <1>1, <1>2 DEF TypeInv, TypeOK
<1>7. \A e \in Requests :
        \/ request'[e] = NoRequest
        \/ /\ request'[e] = request[e]
           /\ request[e].stage \in {"joined", "attached"} => request[e].on # r
        \/ /\ request'[e].lead = request[e].lead /\ request'[e].ids = request[e].ids
           /\ request[e] # NoRequest
           /\ request[e].stage \in {"joined", "attached"} /\ request[e].on = r
           /\ \/ request'[e].stage = "telling"
              \/ /\ request'[e].stage = "posting" /\ request'[e].text = run[r].text
                 /\ request'[e].fresh = (e = r)
  <2> SUFFICES ASSUME NEW e \in Requests
               PROVE  \/ request'[e] = NoRequest
                      \/ /\ request'[e] = request[e]
                         /\ request[e].stage \in {"joined", "attached"} => request[e].on # r
                      \/ /\ request'[e].lead = request[e].lead
                         /\ request'[e].ids = request[e].ids
                         /\ request[e] # NoRequest
                         /\ request[e].stage \in {"joined", "attached"} /\ request[e].on = r
                         /\ \/ request'[e].stage = "telling"
                            \/ /\ request'[e].stage = "posting"
                               /\ request'[e].text = run[r].text
                               /\ request'[e].fresh = (e = r)
    OBVIOUS
  <2> DEFINE q == After(e, {r}, outcome)
  <2>1. request'[e] = q
    BY <1>1
  <2>2. \/ /\ q = request[e]
           /\ request[e].stage \in {"joined", "attached"} => request[e].on \notin {r}
        \/ /\ request[e] \in Request /\ request[e].stage \in {"joined", "attached"}
           /\ request[e].on \in {r}
           /\ \/ q = NoRequest
              \/ q.lead = request[e].lead /\ q.ids = request[e].ids /\ q.stage = "telling"
              \/ /\ q.lead = request[e].lead /\ q.ids = request[e].ids
                 /\ q.stage = "posting" /\ outcome = "finished"
                 /\ q.text = run[request[e].on].text
                 /\ q.fresh = (e = request[e].on)
    BY AfterIs
  <2> HIDE DEF q
  <2> QED
    BY <1>2, <2>1, <2>2
<1>8. ASSUME NEW e \in Requests
      PROVE  CallFits(e)'
  <2>1. CallFits(e)
    BY DEF AnswerInv
  <2>2. CASE request'[e] = NoRequest
    BY <2>2 DEF CallFits
  <2>3. CASE /\ request'[e] = request[e]
             /\ request[e].stage \in {"joined", "attached"} => request[e].on # r
    <3>1. run[e] = NoRun => run'[e] = NoRun
      BY <1>2, <1>5
    <3>2. /\ GoingFor(request[e].on, request[e].lead)
          /\ request[e].on # r
          => GoingFor(request[e].on, request[e].lead)'
      BY <1>5, <2>3 DEF GoingFor
    <3>3. request[e].stage \in {"joined", "attached"} /\ request[e] # NoRequest =>
            /\ GoingFor(request[e].on, request[e].lead)'
            /\ request[e].on = e => run'[e].text = request[e].ids
      BY <1>5, <2>1, <2>3, <3>2 DEF CallFits
    <3> QED
      BY <1>1, <2>1, <2>3, <3>1, <3>3 DEF CallFits, GoingFor
  <2>4. CASE /\ request'[e].lead = request[e].lead /\ request'[e].ids = request[e].ids
             /\ request[e] # NoRequest
             /\ request[e].stage \in {"joined", "attached"} /\ request[e].on = r
             /\ \/ request'[e].stage = "telling"
                \/ /\ request'[e].stage = "posting" /\ request'[e].text = run[r].text
                   /\ request'[e].fresh = (e = r)
    <3>1. request[e].lead \in request[e].ids /\ (e = r => run[r].text = request[e].ids)
      BY <2>1, <2>4 DEF CallFits
    <3> QED
      BY <1>12, <2>4, <3>1 DEF CallFits
  <2> QED
    BY <1>7, <2>2, <2>3, <2>4
<1>9. RunsFit'
  <2>1. \A s \in watched' : run'[s].state = "going"
    BY <1>1, <1>5 DEF AnswerInv, RunsFit, TypeInv, TypeOK
  <2>2. ASSUME NEW n \in Messages, matrixTurnRuns'[n] # Nobody
        PROVE  (GoingFor(matrixTurnRuns[n], n) /\ matrixTurnRuns[n] \in watched)'
    <3>1. matrixTurnRuns'[n] = matrixTurnRuns[n]
      BY <1>1, <1>2, <2>2 DEF TypeInv, TypeOK
    <3>2. GoingFor(matrixTurnRuns[n], n) /\ matrixTurnRuns[n] \in watched
      BY <2>2, <3>1 DEF AnswerInv, RunsFit
    <3>3. matrixTurnRuns[n] # r
      <4>1. CASE r \notin watched
        BY <3>2, <4>1
      <4>2. CASE matrixTurnRuns' = [matrixTurnRuns EXCEPT ![m] = Nobody]
        BY <1>2, <2>2, <3>2, <4>2 DEF GoingFor, TypeInv, TypeOK, m
      <4> QED
        BY <1>1, <4>1, <4>2
    <3> QED
      BY <1>1, <1>5, <3>1, <3>2, <3>3 DEF GoingFor
  <2>3. ASSUME NEW s \in Requests, run'[s].state = "finished"
        PROVE  run'[s].text = {} /\ run'[s].lead \in lost'
    <3>1. CASE s = r
      BY <1>2, <1>5, <2>3, <3>1 DEF NoRun
    <3>2. CASE s # r
      BY <1>5, <2>3, <3>2 DEF AnswerInv, RunsFit
    <3> QED
      BY <3>1, <3>2
  <2> QED
    BY <2>1, <2>2, <2>3 DEF RunsFit, GoingFor
<1>10. LedgerFits'
  <2> SUFFICES ASSUME NEW n \in Messages, NEW s \in Requests, ledger'[n].request = s
               PROVE  /\ request'[s].stage \notin {"queued", "start"}
                      /\ request'[s].stage = "begin" => request'[s].lead = n
                      /\ run'[s] # NoRun => run'[s].lead = n
    BY DEF LedgerFits
  <2>1. Nobody \notin Requests
    BY DEF Nobody, Requests
  <2>2. ledger[n].request = s
    BY <1>4, <1>6, <2>1
  <2>3. /\ request[s].stage \notin {"queued", "start"}
        /\ request[s].stage = "begin" => request[s].lead = n
        /\ run[s] # NoRun => run[s].lead = n
    BY <2>2 DEF AnswerInv, LedgerFits
  <2>4. run'[s] # NoRun => run'[s].lead = n
    BY <1>2, <1>5, <2>3 DEF m
  <2> QED
    BY <1>2, <1>7, <2>3, <2>4
<1>11. AnswersFit'
  <2>1. ASSUME NEW n \in Messages, NEW t \in SUBSET Messages, Answer(n, t)'
        PROVE  Answer(n, t)
    <3>1. Answer(m, run[r].text)
      BY <1>12
    <3>2. CASE \E s \in Requests : run'[s].state = "going" /\ run'[s].lead = n /\ run'[s].text = t
      <4>1. PICK s \in Requests : run'[s].state = "going" /\ run'[s].lead = n /\ run'[s].text = t
        BY <3>2
      <4>2. s # r
        BY <1>5, <4>1 DEF NoRun
      <4> QED
        BY <1>5, <4>1, <4>2 DEF Answer
    <3>3. CASE ledger'[n].state = "answered" /\ ledger'[n].text = t
      <4>1. CASE ledger'[n] = ledger[n]
        BY <3>3, <4>1 DEF Answer
      <4>2. CASE n = m /\ ledger'[n] = answer
        BY <1>4, <3>1, <3>3, <4>2
      <4> QED
        BY <1>6, <4>1, <4>2
    <3>4. CASE \E e \in Requests : /\ request'[e].stage = "posting" /\ request'[e].lead = n
                                   /\ request'[e].text = t /\ t # {}
      <4>1. PICK e \in Requests : /\ request'[e].stage = "posting" /\ request'[e].lead = n
                                  /\ request'[e].text = t /\ t # {}
        BY <3>4
      <4>2. CASE request'[e] = request[e]
        BY <4>1, <4>2 DEF Answer
      <4>3. CASE request'[e] # request[e]
        <5>1. /\ request[e].lead = n /\ run[r].text = t /\ request[e] # NoRequest
              /\ request[e].stage \in {"joined", "attached"} /\ request[e].on = r
          BY <1>2, <1>7, <4>1, <4>3
        <5>2. run[r].lead = n
          BY <5>1 DEF AnswerInv, CallFits, GoingFor
        <5> QED
          BY <3>1, <5>1, <5>2 DEF m
      <4> QED
        BY <4>2, <4>3
    <3>5. CASE posted'[n] = t /\ t # {}
      BY <1>1, <3>5 DEF Answer
    <3> QED
      BY <2>1, <3>2, <3>3, <3>4, <3>5 DEF Answer
  <2> QED
    BY <1>1, <2>1, NoNewAnswer DEF AnswerInv
<1> QED
  BY <1>8, <1>9, <1>10, <1>11 DEF AnswerInv

\* A turn that ends, and a call a reset cancels, leave or are told off.
LEMMA EndingFits ==
  ASSUME TypeInv, AnswerInv,
         \/ \E d \in Requests :
              Silent(d) \/ BootFails(d) \/ Close(d) \/ Tell(d) \/ OrphanDies(d)
         \/ GatewayReset \/ ObjectReset
  PROVE  AnswerInv'
<1>1. ASSUME NEW d \in Requests,
             Silent(d) \/ BootFails(d) \/ Close(d) \/ Tell(d) \/ OrphanDies(d)
      PROVE  AnswerInv'
  <2>1. UNCHANGED <<run, ledger, posted, begun, lost, matrixTurnRuns, watched>>
    BY <1>1 DEF Silent, BootFails, Close, Tell, OrphanDies, object, history, room
  <2>2. \/ request' = [request EXCEPT ![d] = NoRequest]
        \/ /\ request' = [request EXCEPT ![d] = Refused(d)]
           /\ request[d] \in Request /\ request[d] # NoRequest
    <3>1. CASE BootFails(d)
      BY <3>1, RequestType DEF BootFails, TakesSlot, Stages, TypeInv, NoRequest
    <3>2. CASE Silent(d) \/ Close(d) \/ Tell(d) \/ OrphanDies(d)
      BY <3>2 DEF Silent, Close, Tell, OrphanDies, EndsTurn, Closed
    <3> QED
      BY <1>1, <3>1, <3>2
  <2>3. \A e \in Requests : Fades(e)
    <3> SUFFICES ASSUME NEW e \in Requests PROVE Fades(e)
      OBVIOUS
    <3>1. CASE e # d \/ request' = [request EXCEPT ![d] = NoRequest]
      BY <2>2, <3>1 DEF Fades, TypeInv, TypeOK
    <3>2. CASE /\ e = d /\ request' = [request EXCEPT ![d] = Refused(d)]
               /\ request[d] \in Request /\ request[d] # NoRequest
      <4>1. request'[d] = Refused(d)
        BY <3>2 DEF TypeInv, TypeOK
      <4> QED
        BY <3>2, <4>1, RefusedIs DEF Fades
    <3> QED
      BY <2>2, <3>1, <3>2
  <2> QED
    BY <2>1, <2>3, FadingStep
<1>2. CASE GatewayReset
  <2>1. /\ request' = [d \in Requests |->
             IF request[d].stage \in {"start", "begin"}
             THEN [request[d] EXCEPT !.orphan = TRUE] ELSE NoRequest]
        /\ UNCHANGED <<run, ledger, posted, begun, lost, matrixTurnRuns, watched>>
    BY <1>2 DEF GatewayReset, room, object
  <2>2. ASSUME NEW e \in Requests
        PROVE  Fades(e)
    <3>1. CASE request[e].stage \in {"start", "begin"}
      <4>1. request[e] \in Request /\ request[e] # NoRequest
        BY <3>1, RequestType DEF TypeInv, Stages, NoRequest
      <4>2. request'[e] = [request[e] EXCEPT !.orphan = TRUE]
        BY <2>1, <3>1
      <4>3. /\ request'[e].stage = request[e].stage /\ request'[e].lead = request[e].lead
            /\ request'[e].ids = request[e].ids
        BY <4>1, <4>2 DEF Request
      <4> QED
        BY <3>1, <4>1, <4>3 DEF Fades
    <3>2. CASE request[e].stage \notin {"start", "begin"}
      BY <2>1, <3>2 DEF Fades
    <3> QED
      BY <3>1, <3>2
  <2> QED
    BY <2>1, <2>2, FadingStep
<1>3. CASE ObjectReset
  <2>1. /\ matrixTurnRuns' = [m \in Messages |-> Nobody]
        /\ watched' = {}
        /\ request' = [d \in Requests |->
             IF request[d].stage \in InCall THEN Refused(d) ELSE request[d]]
        /\ UNCHANGED <<run, ledger, posted, begun, lost>>
    BY <1>3 DEF ObjectReset, room
  <2>2. ASSUME NEW e \in Requests
        PROVE  Fades(e)
    <3>1. CASE request[e].stage \in InCall
      <4>1. request[e] \in Request /\ request[e] # NoRequest
        BY <3>1, RequestType DEF TypeInv, InCall, Stages, NoRequest
      <4>2. request'[e] = Refused(e)
        BY <2>1, <3>1
      <4> QED
        BY <4>1, <4>2, RefusedIs DEF Fades
    <3>2. CASE request[e].stage \notin InCall
      BY <2>1, <3>2 DEF Fades
    <3> QED
      BY <3>1, <3>2
  <2> QED
    BY <2>1, <2>2, FadingStep
<1> QED
  BY <1>1, <1>2, <1>3

\* The steps of the gateway leave the calls, the runs and the room alone.
LEMMA GatewayFits ==
  ASSUME TypeInv, AnswerInv,
         \/ Start \/ Rotate \/ Stop \/ OnStarted \/ RetryFires \/ GiveUp
         \/ \E m \in Messages : Receive(m)
         \/ \E v \in Verdicts : ReplayOffer(v) \/ \E m \in Messages : Prepared(m, v)
         \/ UNCHANGED vars
  PROVE  AnswerInv'
<1>1. UNCHANGED <<request, run, ledger, posted, begun, lost, matrixTurnRuns, watched>>
  <2>1. CASE Start \/ Rotate \/ Stop \/ UNCHANGED vars
    BY <2>1 DEF Start, Rotate, Stop, vars, room, object, history
  <2>2. CASE OnStarted \/ RetryFires \/ GiveUp
    BY <2>2 DEF OnStarted, RetryFires, GiveUp, object, history
  <2>3. CASE \/ \E m \in Messages : Receive(m)
             \/ \E v \in Verdicts : ReplayOffer(v) \/ \E m \in Messages : Prepared(m, v)
    BY <2>3 DEF Receive, ReplayOffer, Prepared, object, history
  <2> QED
    BY <2>1, <2>2, <2>3
<1>2. \A e \in Requests : Fades(e)
  BY <1>1 DEF Fades
<1> QED
  BY <1>1, <1>2, FadingStep

\* Every step keeps calls, runs, ledger and replies in agreement.
LEMMA NextAnswerInv == TypeInv /\ AnswerInv /\ [Next]_vars => AnswerInv'
<1> SUFFICES ASSUME TypeInv, AnswerInv, [Next]_vars PROVE AnswerInv'
  OBVIOUS
<1>1. CASE Flush
  BY <1>1, FlushFits
<1>2. CASE \E d \in Requests : Decide(d)
  BY <1>2, DecideFits
<1>3. CASE \E d \in Requests : StartTurn(d)
  BY <1>3, StartFits
<1>4. CASE \E d \in Requests : BeginRun(d)
  BY <1>4, BeginFits
<1>5. CASE \E d \in Requests : \/ RunEnds(d, "finished") \/ RunEnds(d, "failed")
                               \/ RunEnds(d, "aborted")
  BY <1>5, RunEndsFits
<1>6. CASE \E d \in Requests : PostReply(d)
  BY <1>6, PostFits
<1>7. CASE \/ \E d \in Requests :
                Silent(d) \/ BootFails(d) \/ Close(d) \/ Tell(d) \/ OrphanDies(d)
           \/ GatewayReset \/ ObjectReset
  BY <1>7, EndingFits
<1>8. CASE \/ Start \/ Rotate \/ Stop \/ OnStarted \/ RetryFires \/ GiveUp
           \/ \E m \in Messages : Receive(m)
           \/ \E v \in Verdicts : ReplayOffer(v) \/ \E m \in Messages : Prepared(m, v)
           \/ UNCHANGED vars
  BY <1>8, GatewayFits
<1> QED
  BY <1>1, <1>2, <1>3, <1>4, <1>5, <1>6, <1>7, <1>8 DEF Next, Work

\* Nothing is asked, run or answered at first.
LEMMA InitAnswerInv == Init => AnswerInv
<1> SUFFICES ASSUME Init PROVE AnswerInv
  OBVIOUS
<1>1. \A d \in Requests : request[d] = NoRequest /\ run[d] = NoRun
  BY DEF Init
<1>2. \A m \in Messages : /\ ledger[m].request = Nobody /\ ledger[m].state = "unknown"
                          /\ posted[m] = {} /\ matrixTurnRuns[m] = Nobody
  BY DEF Init
<1>3. Nobody \notin Requests
  BY DEF Nobody, Requests
<1>4. \A m \in Messages : \A t \in SUBSET Messages : ~Answer(m, t)
  BY <1>1, <1>2 DEF Answer, NoRequest, NoRun
<1>5. AnswersFit
  BY <1>4 DEF AnswersFit
<1>6. RunsFit
  BY <1>1, <1>2 DEF Init, RunsFit, NoRun
<1>7. LedgerFits
  BY <1>2, <1>3 DEF LedgerFits
<1> QED
  BY <1>1, <1>5, <1>6, <1>7 DEF AnswerInv, CallFits

\* The row of m leaves in the step.
Leaves(m) == inbox[m] # NoRow /\ inbox'[m] = NoRow

\* What RowLeavesAnswered allows of a row that leaves.
Accounted(m) ==
  \/ m \in UNION {posted[n] : n \in Messages}
  \/ GivenNoVerdict(m) \/ Notified(m) \/ LeftUnanswered(m) \/ Aborted(m)
  \/ LostReply(m) \/ RodeBehind(m)
  \/ \E n \in raced : begun[n] > 1

\* No row leaves but by a verdict, a notice, the end of a turn or an aborted run.
LEMMA RowsStay ==
  ASSUME TypeInv, NEW m \in Messages,
         \/ Start \/ Rotate \/ Stop \/ OnStarted \/ RetryFires \/ Flush
         \/ \E n \in Messages : Receive(n)
         \/ \E d \in Requests : \/ Decide(d) \/ BootFails(d) \/ StartTurn(d)
                                \/ RunEnds(d, "finished") \/ RunEnds(d, "failed")
                                \/ PostReply(d) \/ OrphanDies(d)
         \/ GatewayReset \/ ObjectReset \/ UNCHANGED vars
  PROVE  ~Leaves(m)
<1>1. CASE \/ Start \/ Rotate \/ Stop \/ Flush \/ GatewayReset \/ ObjectReset \/ UNCHANGED vars
  BY <1>1 DEF Start, Rotate, Stop, Flush, GatewayReset, ObjectReset, vars, room, Leaves
<1>2. CASE \E d \in Requests : \/ Decide(d) \/ BootFails(d) \/ StartTurn(d)
                               \/ PostReply(d) \/ OrphanDies(d)
  BY <1>2 DEF Decide, BootFails, StartTurn, PostReply, OrphanDies, room, Leaves
<1>3. CASE \E d \in Requests : RunEnds(d, "finished") \/ RunEnds(d, "failed")
  BY <1>3 DEF RunEnds, Leaves
<1>4. CASE \E n \in Messages : Receive(n)
  BY <1>4 DEF Receive, Leaves, NoRow, TypeInv, TypeOK
<1>5. CASE OnStarted \/ RetryFires
  <2>1. \/ \E only \in SUBSET Messages : Plan(only)
        \/ UNCHANGED <<replay, inbox>>
    BY <1>5 DEF OnStarted, RetryFires, TypeInv, TypeOK
  <2>2. CASE UNCHANGED <<replay, inbox>>
    BY <2>2 DEF Leaves
  <2>3. ASSUME NEW only \in SUBSET Messages, Plan(only)
        PROVE  ~Leaves(m)
    BY <2>3, PlanType DEF Leaves
  <2> QED
    BY <2>1, <2>2, <2>3
<1> QED
  BY <1>1, <1>2, <1>3, <1>4, <1>5

\* A row that leaves with a message, and not with a turn.
LEMMA OffersAccounted ==
  ASSUME TypeInv, NEW m \in Messages, Leaves(m),
         GiveUp \/ \E v \in Verdicts : ReplayOffer(v) \/ \E n \in Messages : Prepared(n, v)
  PROVE  Accounted(m)
<1>1. ASSUME NEW n \in Messages, NEW v, Offer(n, v)
      PROVE  m = n
  BY <1>1 DEF Offer, Leaves, Deleted
<1>2. CASE \E v \in Verdicts : \E n \in Messages : Prepared(n, v)
  <2>1. PICK v \in Verdicts : \E n \in Messages : Prepared(n, v)
    BY <1>2
  <2>2. PICK n \in Messages : Prepared(n, v)
    BY <2>1
  <2>3. Offer(n, v) /\ n \in preparing /\ preparing' = preparing \ {n}
    BY <2>2 DEF Prepared
  <2>4. m = n
    BY <1>1, <2>3
  <2> QED
    BY <2>3, <2>4 DEF Accounted, GivenNoVerdict
<1>3. CASE \E v \in Verdicts : ReplayOffer(v)
  <2>1. PICK v \in Verdicts : ReplayOffer(v)
    BY <1>3
  <2> DEFINE n == Oldest(replay.rows)
  <2>2. /\ replay.rows # {} /\ replay' = [replay EXCEPT !.rows = @ \ {n}]
        /\ Offer(n, v)
    BY <2>1 DEF ReplayOffer
  <2>3. n \in replay.rows /\ n \in Messages
    BY <2>2, OldestIsMember DEF TypeInv, TypeOK
  <2> HIDE DEF n
  <2>4. m = n
    BY <1>1, <2>2, <2>3
  <2>5. replay'.rows = replay.rows \ {n}
    BY <2>2 DEF TypeInv, TypeOK
  <2> QED
    BY <2>3, <2>4, <2>5 DEF Accounted, GivenNoVerdict
<1>4. CASE GiveUp
  <2> DEFINE n == Oldest(replay.exhausted)
             rest == replay.exhausted \ {n}
  <2>1. /\ replay.exhausted # {} /\ replay' = [replay EXCEPT !.exhausted = rest]
        /\ inbox' = IF rest = {} THEN Bumped(replay.rows, Deleted({n})) ELSE Deleted({n})
    BY <1>4 DEF GiveUp
  <2>2. n \in replay.exhausted
    BY <2>1, OldestIsMember DEF TypeInv, TypeOK
  <2> HIDE DEF n
  <2>3. /\ Deleted({n}) \in [Messages -> -1..MaxReplays]
        /\ \A k \in Messages : Deleted({n})[k] = inbox[k] \/ Deleted({n})[k] = NoRow
    BY DeletedType DEF TypeInv
  <2>4. \A k \in replay.rows : Deleted({n})[k] < MaxReplays
    <3>1. NoRow < MaxReplays
      BY LimitsAssumption DEF NoRow
    <3> QED
      BY <2>1, <2>3, <3>1 DEF TypeInv, TypeOK, ReplaysLeft
  <2>5. inbox'[m] = NoRow <=> Deleted({n})[m] = NoRow
    BY <2>1, <2>3, <2>4, BumpedType
  <2>6. m = n
    BY <2>5 DEF Leaves, Deleted
  <2>7. replay'.exhausted = rest
    BY <2>1 DEF TypeInv, TypeOK
  <2> QED
    BY <2>2, <2>6, <2>7 DEF Accounted, Notified
<1> QED
  BY <1>2, <1>3, <1>4

\* A row that leaves with a turn.
LEMMA TurnsAccounted ==
  ASSUME TypeInv, OnceInv, AnswerInv, NEW m \in Messages, Leaves(m), NEW d \in Requests,
         Silent(d) \/ Tell(d) \/ Close(d) \/ BeginRun(d) \/ RunEnds(d, "aborted")
  PROVE  Accounted(m)
<1>1. CASE Silent(d) \/ Tell(d) \/ Close(d)
  <2>1. EndsTurn(d) /\ request[d].stage \in {"queued", "telling", "closing"}
    BY <1>1 DEF Silent, Tell, Close, TakesSlot
  <2>2. request[d] \in Request
    BY <2>1, RequestType DEF TypeInv, Stages
  <2>3. request'[d] = NoRequest /\ m \in request[d].ids
    BY <2>1 DEF EndsTurn, Closed, Deleted, Leaves, TypeInv, TypeOK
  <2>4. CASE request[d].stage = "queued"
    BY <2>3, <2>4 DEF Accounted, LeftUnanswered, Leaving
  <2>5. CASE request[d].stage = "telling"
    BY <2>3, <2>5 DEF Accounted, Notified, Leaving
  <2>6. CASE request[d].stage = "closing"
    <3> DEFINE l == request[d].lead
    <3>1. /\ l \in Messages
          /\ l \in posted[l] \/ (posted[l] = {} /\ l \in lost)
          /\ request[d].fresh /\ begun[l] <= 1 => request[d].ids \subseteq posted[l]
      BY <2>2, <2>6 DEF AnswerInv, CallFits, Request, NoRequest
    <3> HIDE DEF l
    <3>5. CASE posted[l] = {} /\ l \in lost
      BY <2>3, <2>6, <3>5 DEF Accounted, LostReply, Leaving, l
    <3>2. CASE l \in posted[l] /\ (m = l \/ (request[d].fresh /\ begun[l] <= 1))
      <4>1. m \in posted[l]
        BY <2>3, <3>1, <3>2
      <4> QED
        BY <3>1, <4>1 DEF Accounted
    <3>3. CASE m # l /\ ~request[d].fresh
      BY <2>3, <2>6, <3>3 DEF Accounted, RodeBehind, Leaving, l
    <3>4. CASE ~(begun[l] <= 1)
      <4>1. l \in raced /\ begun[l] > 1
        BY <3>1, <3>4 DEF OnceInv, RunsOnceInv, TypeInv, TypeOK
      <4> QED
        BY <4>1 DEF Accounted
    <3> QED
      BY <3>1, <3>2, <3>3, <3>4, <3>5
  <2> QED
    BY <2>1, <2>4, <2>5, <2>6
<1>2. CASE BeginRun(d)
  <2> DEFINE superseded == {r \in Requests : run[r].state = "going"}
  <2>1. inbox' = Deleted(JoinedRows(superseded))
    BY <1>2 DEF BeginRun
  <2>2. PICK c \in Requests : request[c].stage = "joined" /\ m \in request[c].ids
    BY <2>1 DEF Leaves, Deleted, JoinedRows
  <2>3. request'[c] = NoRequest
    BY <1>2, <2>2, BeginFits
  <2> QED
    BY <2>2, <2>3 DEF Accounted, Aborted, Leaving
<1>3. CASE RunEnds(d, "aborted")
  <2>1. /\ inbox' = Deleted(JoinedRows({d}))
        /\ request' = [e \in Requests |-> After(e, {d}, "aborted")]
    BY <1>3 DEF RunEnds
  <2>2. PICK c \in Requests : /\ request[c].stage = "joined" /\ request[c].on \in {d}
                              /\ m \in request[c].ids
    BY <2>1 DEF Leaves, Deleted, JoinedRows
  <2>3. After(c, {d}, "aborted") = NoRequest
    BY <2>2 DEF After
  <2>4. request'[c] = NoRequest
    BY <2>1, <2>3
  <2> QED
    BY <2>2, <2>4 DEF Accounted, Aborted, Leaving
<1> QED
  BY <1>1, <1>2, <1>3

(* RowLeavesAnswered: a row leaves the inbox only once the room has the     *)
(* answer of a turn its message was part of, or a notice, or the message is *)
(* dropped or left unanswered, or its run aborted (deleteInboxRows,         *)
(* dispatchTurn, isAbortError, settleOfferedRow); the three exceptions are  *)
(* the property's: a lost reply, a message behind a leading one that had    *)
(* been asked about before, and the burst of a message that ran twice.      *)
THEOREM RowsAnswered == Spec => RowLeavesAnswered
<1>1. Init => TypeInv /\ OnceInv /\ AnswerInv
  BY InitTypeInv, InitOnceInv, InitAnswerInv
<1>2. TypeInv /\ OnceInv /\ AnswerInv /\ [Next]_vars => (TypeInv /\ OnceInv /\ AnswerInv)'
  BY NextTypeInv, NextOnceInv, NextAnswerInv
<1>3. TypeInv /\ OnceInv /\ AnswerInv /\ [Next]_vars =>
        \A m \in Messages : Leaves(m) => Accounted(m)
  <2> SUFFICES ASSUME TypeInv, OnceInv, AnswerInv, [Next]_vars,
                      NEW m \in Messages, Leaves(m)
               PROVE  Accounted(m)
    OBVIOUS
  <2>1. CASE \/ Start \/ Rotate \/ Stop \/ OnStarted \/ RetryFires \/ Flush
             \/ \E n \in Messages : Receive(n)
             \/ \E d \in Requests : \/ Decide(d) \/ BootFails(d) \/ StartTurn(d)
                                    \/ RunEnds(d, "finished") \/ RunEnds(d, "failed")
                                    \/ PostReply(d) \/ OrphanDies(d)
             \/ GatewayReset \/ ObjectReset \/ UNCHANGED vars
    BY <2>1, RowsStay
  <2>2. CASE GiveUp \/ \E v \in Verdicts : ReplayOffer(v) \/ \E n \in Messages : Prepared(n, v)
    BY <2>2, OffersAccounted
  <2>3. CASE \E d \in Requests : \/ Silent(d) \/ Tell(d) \/ Close(d) \/ BeginRun(d)
                                 \/ RunEnds(d, "aborted")
    BY <2>3, TurnsAccounted
  <2> QED
    BY <2>1, <2>2, <2>3 DEF Next, Work
<1>4. (\A m \in Messages : Leaves(m) => Accounted(m)) =>
        [\A m \in Messages : (inbox[m] # NoRow /\ inbox'[m] = NoRow) =>
            \/ m \in UNION {posted[n] : n \in Messages}
            \/ GivenNoVerdict(m) \/ Notified(m) \/ LeftUnanswered(m) \/ Aborted(m)
            \/ LostReply(m) \/ RodeBehind(m)
            \/ \E n \in raced : begun[n] > 1]_vars
  BY DEF Leaves, Accounted
<1> QED
  BY <1>1, <1>2, <1>3, <1>4, PTL DEF Spec, RowLeavesAnswered

=============================================================================
