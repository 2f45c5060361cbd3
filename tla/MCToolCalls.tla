----------------------------- MODULE MCToolCalls -----------------------------
(* Small instances of ToolCalls: who sends which calls in which run. *)
EXTENDS ToolCalls, TLC

CONSTANTS rA, rB, s1, s2, w1, w2, w3, b1, b2, d1, i1, q1, opW, opB, opX

\* Run A in session s1, run B in session s2.
TwoSessions == rA :> s1 @@ rB :> s2
OneSession  == rA :> s1 @@ rB :> s1

\* Writes of one fingerprint asked for by both runs (A asks twice).
WriteRuns  == w1 :> rA @@ w2 :> rB @@ w3 :> rA
WriteOps   == w1 :> opW @@ w2 :> opW @@ w3 :> opW
WriteKinds == w1 :> "write" @@ w2 :> "write" @@ w3 :> "write"

\* Browser writes of one session, by one run after the other.
BrowserRuns  == b1 :> rA @@ b2 :> rB
BrowserOps   == b1 :> opB @@ b2 :> opB
BrowserKinds == b1 :> "frontendWrite" @@ b2 :> "frontendWrite"

\* A dispatch with an inner read, beside a read of another run.
LaneRuns    == d1 :> rA @@ i1 :> rA @@ q1 :> rB
LaneOps     == d1 :> opX @@ i1 :> opX @@ q1 :> opX
LaneKinds   == d1 :> "dispatch" @@ i1 :> "read" @@ q1 :> "read"
LaneParents == d1 :> NoCall @@ i1 :> d1 @@ q1 :> NoCall

TwinWrites == Permutations({w1, w3})

TopLevel == [c \in Calls |-> NoCall]
==============================================================================
