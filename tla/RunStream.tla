------------------------------ MODULE RunStream ------------------------------
(***************************************************************************)
(* The output of one durable run and the clients that follow it: the       *)
(* buffer (do/run-buffer.ts), the packed segments (do/run-store.ts), the   *)
(* join, the close and the recovery of the coordinator                     *)
(* (do/run-coordinator.ts), the event stream of a response                 *)
(* (do/sse-stream.ts) and the client's cursor                              *)
(* (oracles-client-sdk/src/utils/run-stream.ts).                           *)
(*                                                                         *)
(* `row`, `rowText`, `generation`, `checkpointed` and `segments` survive a *)
(* reset of the object; the buffer and the run in memory do not.           *)
(*                                                                         *)
(* Abstracted: the reply is a sequence of numbered chunks; a frame is a    *)
(* `run`, `text`, `note` or `done` frame (tool and progress frames travel  *)
(* like text and change no state); the flush timer may fire at any time.   *)
(* The connection to SQLite runs its statements in order, so a read and    *)
(* what its reader does with it are one step between two writes, and the   *)
(* checkpoint that holds the run's input is written before a chunk that    *)
(* the graph streams after it.                                             *)
(***************************************************************************)
EXTENDS Naturals, Integers, Sequences

CONSTANTS
  Clients,        \* clients of the run
  Sender,         \* the client whose request began it
  Span,           \* SEQ_ATTEMPT_SPAN
  MaxChunks,      \* bound: chunks of text over all attempts
  MaxFaults       \* bound: resets, deferrals, lost connections, rejected writes

ASSUME StreamAssumption ==
  /\ Sender \in Clients
  /\ Span \in Nat \ {0}
  /\ MaxChunks \in Nat
  /\ MaxFaults \in Nat

\* The span is above any frame that one attempt can hand out: its chunks, a
\* run frame for each time it is resumed, and those that open and close it.
ASSUME SpanAssumption == Span >= MaxChunks + MaxFaults + 3

VARIABLES
  row,          \* the row's status, the early endings taken together
  rowText,      \* the row's partialText
  generation,   \* the row's generation
  checkpointed, \* the graph persisted the run's input
  segments,     \* the packed segments in the order of their first frames
  phase,        \* where the run is in memory
  seq,          \* RunBuffer.seq
  tail,         \* RunBuffer.tail
  inFlight,     \* RunBuffer.inFlight: batches whose write is pending
  hasDone,      \* RunBuffer.doneFrame is set
  kept,         \* LiveRun.continuation
  spoken,       \* what this attempt streamed
  resumed,      \* this attempt continues from the checkpoint
  outcome,      \* how the attempt ended: status and text
  conn,         \* [Clients -> Connections]
  found,        \* [Clients -> Records]: the record of its join ("live" without one)
  lastId,       \* [Clients -> Nat]: the client's cursor
  shown,        \* [Clients -> Seq(Nat)]: the reply it shows
  wire,         \* [Clients -> Seq(Frames)]: sent to it, not received yet
  said,         \* chunks streamed so far
  faults,       \* faults so far
  segmentLost,  \* history: the write of a segment was rejected
  renumbered    \* history: a stopped queued run was reopened (its frames renumbered)

durable == <<row, rowText, generation, checkpointed, segments>>
buffer  == <<seq, tail, inFlight, hasDone>>
attempt == <<kept, spoken, resumed, outcome, said>>
client  == <<conn, found, lastId, shown>>
history == <<segmentLost, renumbered>>
vars == <<durable, phase, buffer, attempt, client, wire, faults, history>>

-----------------------------------------------------------------------------
EndStatus   == {"finished", "early"}
RowStatus   == {"queued", "running", "recovering"} \cup EndStatus
LivePhases  == {"queued", "waiting", "starting", "streaming", "finishing"}
Phases      == LivePhases \cup {"closing", "over", "booting"}
Connections == {"away", "joining", "held", "attached", "ended"}
Records     == {"live", "open", "closed"}

\* arg: a text frame's chunk, a resumed run frame's partialLength.
Fresh == -1
Frames == [seq : Nat, kind : {"run", "text", "note", "done", "trailer"},
           arg : Nat \cup {Fresh}]

Frame(n, kind, arg) == [seq |-> n, kind |-> kind, arg |-> arg]
LastOf(s) == s[Len(s)]

\* The elements of s that are in T, in their order.
Only(s, T) ==
  LET some[i \in 0 .. Len(s)] ==
        IF i = 0 THEN << >>
        ELSE IF s[i] \in T THEN Append(some[i - 1], s[i]) ELSE some[i - 1]
  IN some[Len(s)]

\* framesOfSegments(..., after) and the tail's filter.
After(frames, n) == Only(frames, {f \in Frames : f.seq > n})

\* Mutant of TextOf: frames of every kind count as text.
TextOfEvery(frames) == [i \in 1 .. Len(frames) |-> frames[i].arg]

\* partialTextOf.
TextOf(frames) ==
  LET texts == Only(frames, {f \in Frames : f.kind = "text"})
  IN [i \in 1 .. Len(texts) |-> texts[i].arg]

\* Mutant of AttemptBase: a recovered attempt goes on from what was packed.
AttemptBaseFlat(g) == 0

\* attemptSeqBase.
AttemptBase(g) == g * Span

Joined(batches) ==
  LET all[i \in 0 .. Len(batches)] ==
        IF i = 0 THEN << >> ELSE all[i - 1] \o batches[i]
  IN all[Len(batches)]

\* framesOfSegments of everything packed.
Stored == Joined(segments)

\* Mutant of TailAfter: the batches being written are left out.
TailAfterUnpacked(n) == After(tail, n)

\* RunBuffer.tailAfter of an open buffer: being written, then unpacked.
TailAfter(n) == After(Joined(inFlight) \o tail, n)

InMemory == phase \in LivePhases
Subscribed(c) == conn[c] = "attached" /\ InMemory

Init ==
  /\ \/ /\ row = "queued"
        /\ phase = "queued"
        /\ seq = 1
        /\ tail = <<Frame(1, "note", Fresh)>>
        /\ wire = [c \in Clients |-> IF c = Sender THEN tail ELSE << >>]
     \/ /\ row = "running"
        /\ phase = "starting"
        /\ seq = 0
        /\ tail = << >>
        /\ wire = [c \in Clients |-> << >>]
  /\ rowText = << >>
  /\ generation = 0
  /\ checkpointed = FALSE
  /\ segments = << >>
  /\ inFlight = << >>
  /\ hasDone = FALSE
  /\ kept = << >>
  /\ spoken = << >>
  /\ resumed = FALSE
  /\ outcome = [status |-> "finished", text |-> << >>]
  /\ conn = [c \in Clients |-> IF c = Sender THEN "attached" ELSE "away"]
  /\ found = [c \in Clients |-> "live"]
  /\ lastId = [c \in Clients |-> 0]
  /\ shown = [c \in Clients |-> << >>]
  /\ said = 0
  /\ faults = 0
  /\ segmentLost = FALSE
  /\ renumbered = FALSE

\* A fault happens.
Fault == faults < MaxFaults /\ faults' = faults + 1

-----------------------------------------------------------------------------
(* The buffer *)

\* push: the frame joins the tail and goes to every subscriber; a done frame is
\* packed at once (isImmediateFrame).
Push(kind, arg) ==
  LET f == Frame(seq + 1, kind, arg)
  IN /\ seq' = seq + 1
     /\ IF kind = "done"
          THEN tail' = << >> /\ inFlight' = Append(inFlight, Append(tail, f))
          ELSE tail' = Append(tail, f) /\ UNCHANGED inFlight
     /\ wire' = [c \in Clients |-> IF Subscribed(c) THEN Append(wire[c], f) ELSE wire[c]]

\* flush: the tail becomes a batch of the packing chain.
Flush ==
  /\ InMemory
  /\ tail # << >>
  /\ inFlight' = Append(inFlight, tail)
  /\ tail' = << >>
  /\ UNCHANGED <<durable, phase, seq, hasDone, attempt, client, wire, faults,
                 history>>

PackFrame == UNCHANGED <<row, rowText, generation, checkpointed, phase, seq, tail,
                         hasDone, attempt, client, wire, renumbered>>

\* appendSegment of the oldest batch: the row of that first frame is replaced.
Pack ==
  /\ inFlight # << >>
  /\ LET batch  == Head(inFlight)
         Before == {other \in Seq(Frames) : other[1].seq < batch[1].seq}
         Behind == {other \in Seq(Frames) : other[1].seq > batch[1].seq}
     IN segments' = Only(segments, Before) \o <<batch>> \o Only(segments, Behind)
  /\ inFlight' = Tail(inFlight)
  /\ UNCHANGED <<faults, segmentLost>>
  /\ PackFrame

\* A rejected write is reported, its frames are not stored.
PackFails ==
  /\ inFlight # << >>
  /\ Fault
  /\ segmentLost' = TRUE
  /\ inFlight' = Tail(inFlight)
  /\ UNCHANGED segments
  /\ PackFrame

-----------------------------------------------------------------------------
(* The run *)

RunFrame == UNCHANGED <<generation, segments, rowText, client, history>>

\* startNextQueued: the row, then the attempt.
Dequeue ==
  /\ phase = "queued"
  /\ row' = "running"
  /\ phase' = "starting"
  /\ UNCHANGED <<checkpointed, buffer, attempt, wire>>
  /\ UNCHANGED faults
  /\ RunFrame

\* The turn is prepared and streams: a fresh one opens with its run frame.
Stream ==
  /\ phase = "starting"
  /\ phase' = "streaming"
  /\ IF resumed THEN UNCHANGED <<seq, tail, inFlight, wire>> ELSE Push("run", Fresh)
  /\ UNCHANGED <<row, checkpointed, hasDone, attempt>>
  /\ UNCHANGED faults
  /\ RunFrame

Checkpoint ==
  /\ phase = "streaming"
  /\ ~checkpointed
  /\ checkpointed' = TRUE
  /\ UNCHANGED <<row, phase, buffer, attempt, wire>>
  /\ UNCHANGED faults
  /\ RunFrame

Say ==
  /\ phase = "streaming"
  /\ checkpointed
  /\ said < MaxChunks
  /\ said' = said + 1
  /\ spoken' = Append(spoken, said)
  /\ Push("text", said)
  /\ UNCHANGED <<row, phase, checkpointed, hasDone, kept, resumed, outcome>>
  /\ UNCHANGED faults
  /\ RunFrame

\* runTurnFrames ends with its done frame; the plan of the reply may follow.
EndStream(status) ==
  /\ phase = "streaming"
  /\ phase' = "finishing"
  /\ outcome' = [status |-> status, text |-> kept \o spoken]
  /\ hasDone' = TRUE
  /\ Push("done", Fresh)
  /\ UNCHANGED <<row, checkpointed, kept, spoken, resumed, said>>
  /\ UNCHANGED faults
  /\ RunFrame

\* The attempt is deferred while it is prepared (the recovery schedule).
Defer ==
  /\ phase = "starting"
  /\ Fault
  /\ row' = "recovering"
  /\ phase' = "waiting"
  /\ UNCHANGED <<checkpointed, buffer, attempt, wire>>
  /\ RunFrame

\* resumeDue: a graph that has the input continues, and clients are told what
\* of the reply was kept; otherwise the attempt starts over.
Resume ==
  /\ phase = "waiting"
  /\ row' = "running"
  /\ phase' = "starting"
  /\ resumed' = checkpointed
  /\ IF checkpointed
       THEN Push("run", Len(kept)) /\ UNCHANGED kept
       ELSE kept' = << >> /\ UNCHANGED <<seq, tail, inFlight, wire>>
  /\ UNCHANGED <<checkpointed, hasDone, spoken, outcome, said>>
  /\ UNCHANGED faults
  /\ RunFrame

-----------------------------------------------------------------------------
(* The close *)

\* finalize up to its first await: out of the live map, closing frames if the
\* attempt pushed none, subscribers told, the rest of the tail packed.
Finalize(status, text) ==
  LET done  == Frame(seq + 1, "done", Fresh)
      last  == IF hasDone THEN tail ELSE Append(tail, done)
  IN /\ phase' = "closing"
     /\ outcome' = [status |-> status, text |-> text]
     /\ hasDone' = TRUE
     /\ seq' = IF hasDone THEN seq ELSE seq + 1
     /\ inFlight' = IF last = << >> THEN inFlight ELSE Append(inFlight, last)
     /\ tail' = << >>
     /\ wire' = [c \in Clients |-> IF Subscribed(c) /\ ~hasDone
                                     THEN Append(wire[c], done) ELSE wire[c]]
     /\ UNCHANGED <<durable, kept, spoken, resumed, said, client, faults, history>>

\* A run that waits is stopped; an attempt throws before it streams, or after
\* its done frame; an attempt returns.
StopWaiting  == phase \in {"queued", "waiting"} /\ Finalize("early", kept)
AttemptFails == phase \in {"starting", "finishing"} /\ Finalize("early", kept)
AttemptEnds  == phase = "finishing" /\ Finalize(outcome.status, outcome.text)

CloseFrame == UNCHANGED <<generation, checkpointed, buffer, attempt, client, wire,
                          history>>

\* Mutant of CloseRow: the row is closed before the packing chain has settled.
CloseRowEarly ==
  /\ phase = "closing"
  /\ phase' = "over"
  /\ row' = outcome.status
  /\ rowText' = outcome.text
  /\ segments' = << >>
  /\ UNCHANGED faults
  /\ CloseFrame

\* The packing chain has settled: the terminal row and the cutover.
CloseRow ==
  /\ phase = "closing"
  /\ inFlight = << >>
  /\ phase' = "over"
  /\ row' = outcome.status
  /\ rowText' = CASE outcome.status = "finished" -> << >>
                  [] outcome.text # << >>        -> outcome.text
                  [] OTHER                       -> TextOf(Stored)
  /\ segments' = << >>
  /\ UNCHANGED faults
  /\ CloseFrame

\* A rejected close is logged; the run counts as ended.
CloseFails ==
  /\ phase = "closing"
  /\ inFlight = << >>
  /\ Fault
  /\ phase' = "over"
  /\ UNCHANGED <<row, rowText, segments>>
  /\ CloseFrame

-----------------------------------------------------------------------------
(* The clients *)

Larger(a, b) == IF a > b THEN a ELSE b
Least(a, b)  == IF a < b THEN a ELSE b

\* What a client shows once it has applied f.
Shows(text, f) ==
  CASE f.kind = "text" -> Append(text, f.arg)
    [] f.kind = "run" /\ f.arg # Fresh -> SubSeq(text, 1, Least(f.arg, Len(text)))
    [] OTHER -> text

\* Mutant of Skipped: the trailer counts as a frame numbered 0.
SkippedTrailer(id, f) == f.seq <= id

\* A frame at or below the cursor was applied before (the trailer has no id).
Skipped(id, f) == f.kind # "trailer" /\ f.seq <= id

\* A trailer of a run that ended early carries the text its row kept.
Replaced(c, f) == f.kind = "trailer" /\ found[c] = "closed" /\ row = "early"
                    /\ rowText # << >>

Receive(c) ==
  LET f == Head(wire[c])
  IN /\ conn[c] = "attached"
     /\ wire[c] # << >>
     /\ \/ /\ Skipped(lastId[c], f)
           /\ wire' = [wire EXCEPT ![c] = Tail(@)]
           /\ UNCHANGED client
        \/ /\ ~Skipped(lastId[c], f)
           /\ LET over == f.kind \in {"done", "trailer"}
              IN /\ conn' = [conn EXCEPT ![c] = IF over THEN "ended" ELSE @]
                 /\ wire' = [wire EXCEPT ![c] = IF over THEN << >> ELSE Tail(@)]
           /\ lastId' = [lastId EXCEPT ![c] = Larger(@, f.seq)]
           /\ shown' = [shown EXCEPT ![c] =
                IF Replaced(c, f) THEN rowText ELSE Shows(@, f)]
           /\ UNCHANGED found
     /\ UNCHANGED <<durable, phase, buffer, attempt, faults, history>>

JoinFrame == UNCHANGED <<durable, phase, buffer, attempt, lastId, shown, faults,
                       history>>

RecordNow == CASE InMemory -> "live" [] row \in EndStatus -> "closed" [] OTHER -> "open"

\* A client that lost its stream, or comes later, re-joins after its cursor;
\* the object answers when its boot is done.  join: the live run, or its row.
Join(c) ==
  /\ conn[c] = "away"
  /\ phase # "booting"
  /\ conn' = [conn EXCEPT ![c] = "joining"]
  /\ found' = [found EXCEPT ![c] = RecordNow]
  /\ UNCHANGED wire
  /\ JoinFrame

Trailer == Frame(0, "trailer", Fresh)
WithoutDone(frames) == Only(frames, {f \in Frames : f.kind # "done"})

\* join after readSegments: a live run is followed; an ended one is replayed
\* with a trailer, once it has ended if it was live before the read.  (What the
\* close packs is queued ahead of the statements of a join that began after it;
\* the last of three batches could follow them, which is left out.)
JoinRead(c) ==
  LET replay == After(Stored, lastId[c])
      cursor == IF replay = << >> THEN lastId[c] ELSE LastOf(replay).seq
  IN /\ conn[c] = "joining"
     /\ \/ /\ InMemory
           /\ conn' = [conn EXCEPT ![c] = "attached"]
           /\ wire' = [wire EXCEPT ![c] = replay \o TailAfter(cursor)]
           /\ found' = [found EXCEPT ![c] = "live"]
        \/ /\ ~InMemory /\ found[c] # "live" /\ inFlight = << >>
           /\ conn' = [conn EXCEPT ![c] = "attached"]
           /\ wire' = [wire EXCEPT ![c] = Append(replay, Trailer)]
           /\ UNCHANGED found
        \/ /\ ~InMemory /\ found[c] = "live"
           /\ conn' = [conn EXCEPT ![c] = "held"]
           /\ wire' = [wire EXCEPT ![c] = WithoutDone(replay)]
           /\ UNCHANGED found
     /\ JoinFrame

JoinEnds(c) ==
  /\ conn[c] = "held"
  /\ phase = "over"
  /\ conn' = [conn EXCEPT ![c] = "attached"]
  /\ wire' = [wire EXCEPT ![c] = Append(@, Trailer)]
  /\ found' = [found EXCEPT ![c] = RecordNow]
  /\ JoinFrame

\* The buffer closed and no done frame reached the client: its response ends.
Detached(c) ==
  /\ conn[c] = "attached"
  /\ wire[c] = << >>
  /\ phase \in {"closing", "over"}
  /\ conn' = [conn EXCEPT ![c] = "away"]
  /\ UNCHANGED <<found, wire>>
  /\ JoinFrame

\* The connection is lost, and what was on its way.
Drop(c) ==
  /\ conn[c] \in {"joining", "held", "attached"}
  /\ Fault
  /\ conn' = [conn EXCEPT ![c] = "away"]
  /\ wire' = [wire EXCEPT ![c] = << >>]
  /\ found' = [found EXCEPT ![c] = "live"]
  /\ UNCHANGED <<durable, phase, buffer, attempt, lastId, shown, history>>

-----------------------------------------------------------------------------
(* Resets *)

Crash ==
  /\ Fault
  /\ phase' = IF row \in EndStatus THEN "over" ELSE "booting"
  /\ seq' = 0
  /\ tail' = << >>
  /\ inFlight' = << >>
  /\ hasDone' = FALSE
  /\ kept' = << >>
  /\ spoken' = << >>
  /\ resumed' = FALSE
  /\ outcome' = [status |-> "finished", text |-> << >>]
  /\ conn' = [c \in Clients |-> IF conn[c] = "ended" THEN "ended" ELSE "away"]
  /\ wire' = [c \in Clients |-> << >>]
  /\ found' = [c \in Clients |-> IF conn[c] = "ended" THEN found[c] ELSE "live"]
  /\ UNCHANGED <<durable, lastId, shown, said, history>>

BootFrame == UNCHANGED <<rowText, checkpointed, segments, spoken, resumed, said, client,
                         wire, faults, segmentLost>>

\* recoverOrphans: a queued row is opened at its lastSeq, written at the close
\* only.
ReopenQueued ==
  /\ phase = "booting"
  /\ row = "queued"
  /\ phase' = "queued"
  /\ seq' = 0
  /\ renumbered' = (renumbered \/ \E i \in 1 .. Len(Stored) : Stored[i].seq > 1)
  /\ UNCHANGED <<row, generation, tail, inFlight, hasDone, kept, outcome>>
  /\ BootFrame

\* The next attempt numbers above whatever the last one handed out.
StartSeq ==
  Larger(IF segments = << >> THEN 0 ELSE LastOf(Stored).seq, AttemptBase(generation + 1))

\* recoverOrphans: another attempt is scheduled, from the packed text.
Recover ==
  /\ phase = "booting"
  /\ row \in {"running", "recovering"}
  /\ row' = "recovering"
  /\ generation' = generation + 1
  /\ phase' = "waiting"
  /\ seq' = StartSeq
  /\ kept' = IF checkpointed THEN TextOf(Stored) ELSE << >>
  /\ UNCHANGED <<tail, inFlight, hasDone, outcome, renumbered>>
  /\ BootFrame

\* recoverOrphans: the recoveries are spent, the run is closed as interrupted.
Interrupt ==
  /\ phase = "booting"
  /\ row \in {"running", "recovering"}
  /\ generation' = generation + 1
  /\ phase' = "closing"
  /\ seq' = StartSeq + 1
  /\ inFlight' = << <<Frame(StartSeq + 1, "done", Fresh)>> >>
  /\ hasDone' = TRUE
  /\ kept' = TextOf(Stored)
  /\ outcome' = [status |-> "early", text |-> TextOf(Stored)]
  /\ UNCHANGED <<row, tail, renumbered>>
  /\ BootFrame

-----------------------------------------------------------------------------
\* What the object does by itself: a turn ends, the alarm resumes.
RunStep ==
  \/ Pack \/ Dequeue \/ Stream \/ Checkpoint \/ Resume \/ AttemptEnds \/ CloseRow
  \/ \E status \in EndStatus : EndStream(status)
  \/ ReopenQueued \/ Recover \/ Interrupt

\* What the client's loop and the transport do.
ClientStep(c) == Receive(c) \/ Join(c) \/ JoinRead(c) \/ JoinEnds(c) \/ Detached(c)

Next ==
  \/ RunStep
  \/ Flush \/ Say \/ Defer \/ StopWaiting \/ AttemptFails
  \/ PackFails \/ CloseFails
  \/ \E c \in Clients : ClientStep(c) \/ Drop(c)
  \/ Crash

Spec == Init /\ [][Next]_vars

\* The event loop runs what is due, a turn ends (its deadline), and a client
\* reads and re-joins until it is told the end (its re-joins outlast the bound).
FairSpec == Spec /\ WF_vars(RunStep) /\ \A c \in Clients : WF_vars(ClientStep(c))

-----------------------------------------------------------------------------
(* Properties *)

\* The row, the buffer and the clients hold what their types say.
TypeOK ==
  /\ row \in RowStatus
  /\ rowText \in Seq(Nat)
  /\ generation \in Nat
  /\ checkpointed \in BOOLEAN
  /\ segments \in Seq(Seq(Frames))
  /\ phase \in Phases
  /\ seq \in Nat
  /\ tail \in Seq(Frames)
  /\ inFlight \in Seq(Seq(Frames))
  /\ hasDone \in BOOLEAN
  /\ kept \in Seq(Nat)
  /\ spoken \in Seq(Nat)
  /\ resumed \in BOOLEAN
  /\ outcome \in [status : EndStatus, text : Seq(Nat)]
  /\ conn \in [Clients -> Connections]
  /\ found \in [Clients -> Records]
  /\ lastId \in [Clients -> Nat]
  /\ shown \in [Clients -> Seq(Nat)]
  /\ wire \in [Clients -> Seq(Frames)]
  /\ said \in Nat
  /\ faults \in Nat
  /\ segmentLost \in BOOLEAN
  /\ renumbered \in BOOLEAN

\* What c will show when it has received what is on its way.
WillShow(c) ==
  LET after[i \in 0 .. Len(wire[c])] ==
        IF i = 0 THEN [id |-> lastId[c], text |-> shown[c]]
        ELSE LET before == after[i - 1]
                 f      == wire[c][i]
             IN IF Skipped(before.id, f) THEN before
                ELSE [id |-> Larger(before.id, f.seq), text |-> Shows(before.text, f)]
  IN after[Len(wire[c])].text

\* Whoever follows a run, since its start or since any re-join, shows exactly
\* the reply so far: nothing missed, nothing twice, nothing that the reset lost
\* and the model will not repeat.  While a recovery waits, what was kept is a
\* prefix of it (the run frame will cut it back).  Two cases are left out: a
\* rejected segment write loses its frames by design; and a queued run whose
\* stop had packed the closing frames, but not closed the row when the object
\* was reset, runs again under the numbers of those frames.
FollowersShowTheReply ==
  ~segmentLost /\ ~renumbered =>
    \A c \in Clients : Subscribed(c) =>
      IF phase = "waiting"
        THEN kept = SubSeq(WillShow(c), 1, Len(kept))
        ELSE WillShow(c) = kept \o spoken

\* Once a row is closed no segment of its run is left, nor will be: the close
\* waits for the packing chain (RunBuffer.close, RunStore.close).
CutoverIsClean == row \in EndStatus => segments = << >> /\ inFlight = << >>

\* Whatever is lost, every client is told in the end that the run ended.
EveryClientIsTold == \A c \in Clients : <>(conn[c] = "ended")

\* "receives exactly the frames it missed" (run-stream.ts of the client),
\* "a re-join that reads the store during a write misses nothing"
\* (docs/operations.md): a client that is told the end shows all that was
\* streamed, or is told by the closed row.  False of a join between finalize's
\* removal of the run from the live map and the close of its row.
ToldTheWholeReply ==
  [][\A c \in Clients : conn[c] = "attached" /\ conn'[c] = "ended" =>
       found[c] = "closed" \/ shown'[c] = kept \o spoken]_vars

=============================================================================
