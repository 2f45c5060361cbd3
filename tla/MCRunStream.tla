----------------------------- MODULE MCRunStream -----------------------------
(* Small instances of RunStream. *)
EXTENDS RunStream, TLC

CONSTANTS a, b
==============================================================================
