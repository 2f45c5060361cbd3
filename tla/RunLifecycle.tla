----------------------------- MODULE RunLifecycle -----------------------------
(***************************************************************************)
(* What the run table promises its readers (the session list, the tail of  *)
(* a re-joining client, the task scheduler): a message is recorded once,   *)
(* waits at most once, executes from one fixed point of the conversation   *)
(* however often it is suspended, counts every recovery while it is open   *)
(* and is closed for good, with what it counted.                           *)
(*                                                                         *)
(* RunCoordinator implements it: begin, the queue, deferrals, stops,       *)
(* resets and the recovery scan are all steps of this module.              *)
(***************************************************************************)
EXTENDS Naturals

CONSTANTS
  Runs,   \* run ids
  Points  \* points of a conversation an execution can start from

VARIABLE
  record  \* [Runs -> [state, recoveries, start]]: what a reader sees of a run

Open == {"queued", "executing"}

Init == record = [r \in Runs |-> [state |-> "absent", recoveries |-> 0, start |-> 0]]

\* A message is recorded, to execute at once or to wait its turn.
Record(r) ==
  /\ record[r].state = "absent"
  /\ \E s \in Open, p \in Points :
       record' = [record EXCEPT ![r].state = s, ![r].start = p]

\* Its turn has come: from here on the point it starts from is fixed.
Start(r) ==
  /\ record[r].state = "queued"
  /\ \E p \in Points :
       record' = [record EXCEPT ![r].state = "executing", ![r].start = p]

\* A reset lost the execution: the recovery is counted before it is decided.
Recover(r) ==
  /\ record[r].state = "executing"
  /\ record' = [record EXCEPT ![r].recoveries = @ + 1]

\* The run is over, whatever became of it.
Close(r) ==
  /\ record[r].state \in Open
  /\ record' = [record EXCEPT ![r].state = "closed"]

Next == \E r \in Runs : Record(r) \/ Start(r) \/ Recover(r) \/ Close(r)

Spec == Init /\ [][Next]_record

=============================================================================
