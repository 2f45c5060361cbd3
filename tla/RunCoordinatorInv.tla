-------------------------- MODULE RunCoordinatorInv --------------------------
(***************************************************************************)
(* The inductive strengthening of OneRunPerSession (RunCoordinator), in    *)
(* named parts.  RunCoordinatorProofs proves that every step preserves it; *)
(* MCRunCoordinator_resets checks it on a small instance.                  *)
(***************************************************************************)
EXTENDS RunCoordinator

\* The run has no row yet.
Unrecorded == {"unsent", "waiting", "cancelling", "grace", "creating"}

\* Its `begin` is past the session's turn and has not resolved.
InTurn == Waiting \ {"waiting"}

\* a and b are two runs of one session.
Mates(a, b) == a # b /\ SessionOf[a] = SessionOf[b]

\* sessionTurns: only the earliest unresolved `begin` of a session is past its
\* turn.
TurnsTaken ==
  /\ \A r \in Runs : arrival[r] <= sent
  /\ \A a, b \in Runs :
       Mates(a, b) /\ phase[a] \in InTurn /\ phase[b] \in Waiting
         => arrival[a] < arrival[b]

\* The boot scan runs before any message: no `begin` overlaps it.
ScanFirst ==
  /\ boot = "up" => orphans = {}
  /\ \A r \in Runs : phase[r] \in Waiting => boot = "up"

\* A run not recorded, not open or not visited yet is in nobody's hands.
Untouched ==
  \A r \in Runs :
    /\ phase[r] \in Unrecorded => row[r].status = "absent"
    /\ phase[r] \in Unrecorded \cup {"created"} \/ r \in orphans =>
         status[r] = "absent" /\ fin[r] = "none" /\ work[r] = "none"
    /\ r \in orphans => row[r].status \in Active

\* attemptInFlight is exactly "a continuation of this run is under way", and
\* such a run is not queued; a run that is ending has left the live map.
InFlightWorks ==
  \A r \in Runs :
    /\ r \in inFlight <=> work[r] # "none"
    /\ work[r] # "none" => status[r] \in Executing
    /\ fin[r] # "none" => status[r] = "absent"

\* What the live map calls executing the table calls executing too, from the
\* dequeue write on; so is the row of a `begin` that is about to start.
RowsFollow ==
  \A r \in Runs :
    /\ status[r] \in Executing /\ work[r] # "dequeuing"
         => row[r].status \in Executing
    /\ phase[r] = "created" /\ rule[r] = "start" /\ r \notin superseded
         => row[r].status \in Executing

\* A `begin` that decided to start has the session to itself.
StartsAlone ==
  \A a, b \in Runs :
    /\ phase[a] \in {"creating", "created"}
    /\ rule[a] = "start"
    /\ a \notin superseded
    /\ SessionOf[a] = SessionOf[b]
    => status[b] = "absent"

\* The live map or a finalize still holds the session for r.
Busy(r) == status[r] \in Executing \/ fin[r] # "none"

\* Two executing rows of one session: the overlap was noted.  So was it when
\* the scan has an executing row to visit and the session is busy already.
OverlapNoted ==
  \A a, b \in Runs :
    /\ Mates(a, b)
    /\ row[a].status \in Executing
    /\ \/ row[b].status \in Executing
       \/ a \in orphans /\ Busy(b)
    => SessionOf[a] \in overlapped

IInv ==
  /\ TypeOK
  /\ TurnsTaken
  /\ ScanFirst
  /\ Untouched
  /\ InFlightWorks
  /\ RowsFollow
  /\ StartsAlone
  /\ OverlapNoted
  /\ OneRunPerSession

=============================================================================
