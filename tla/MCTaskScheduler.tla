--------------------------- MODULE MCTaskScheduler ---------------------------
(* Small instances of TaskScheduler for TLC. *)
EXTENDS TaskScheduler

CONSTANTS t1, r1, r2, c1, none

\* A one-shot that asks for approval, and a recurring task that does not.
TwoKinds == {[once |-> TRUE, gated |-> TRUE], [once |-> FALSE, gated |-> FALSE]}

=============================================================================
