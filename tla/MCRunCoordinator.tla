-------------------------- MODULE MCRunCoordinator --------------------------
(* Small instances of RunCoordinator for TLC. *)
EXTENDS RunCoordinatorInv, TLC

CONSTANTS r1, r2, r3, s1

\* One session: every rule of the coordinator is per session.
OneSession == [r \in Runs |-> s1]

RunSymmetry == Permutations(Runs)

=============================================================================
