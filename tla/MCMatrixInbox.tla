---------------------------- MODULE MCMatrixInbox ----------------------------
(* A small instance of MatrixInbox for TLC. *)
EXTENDS MatrixInbox
=============================================================================
