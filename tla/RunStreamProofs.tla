---------------------------- MODULE RunStreamProofs ----------------------------
(***************************************************************************)
(* What holds of the output of a run for every number of clients, chunks,  *)
(* faults and resets.                                                      *)
(*                                                                         *)
(* The cutover of a closed run: CutoverIsClean is not inductive, a pending *)
(* batch could still be packed into a closed row.  CutoverInv adds what    *)
(* rules that out: a closed row's run is over in memory, and a run is over *)
(* only once its packing chain is empty.                                   *)
(*                                                                         *)
(* What the followers show: StreamInv speaks of one sequence, the log of   *)
(* all frames that are stored, being stored and in the tail.  Its frames   *)
(* are in the order of their numbers; its text is the reply so far; its    *)
(* numbers stay below those the buffer, and the next attempt, hand out;    *)
(* and each client shows what its cursor says of it, with every frame that *)
(* the client still misses on its way.  The order is what a join rests on, *)
(* the bound of the numbers what a recovery rests on.                      *)
(*                                                                         *)
(* The operators on sequences of RunStream are recursive functions.  Their *)
(* lemmas are inductions over a set: the set of the sequences (or of the   *)
(* indices) of which a lemma holds is shown to be all of them.             *)
(***************************************************************************)
EXTENDS RunStream, SequenceTheorems, WellFoundedInduction, TLAPS

(* The cutover of a closed row *)

CutoverInv ==
  /\ row \in EndStatus => phase = "over" /\ segments = << >>
  /\ phase = "over" => inFlight = << >>

\* A run starts with an active row.
LEMMA InitCutover == Init => CutoverInv
BY DEF Init, CutoverInv, EndStatus

\* What a step of the live run does: the row stays active, the run in memory.
LEMMA LiveSteps ==
  ASSUME CutoverInv,
         Dequeue \/ Stream \/ Checkpoint \/ Say \/ Defer \/ Resume
           \/ \E status \in EndStatus : EndStream(status)
  PROVE  CutoverInv'
<1>1. row \notin EndStatus
  BY DEF CutoverInv, Dequeue, Stream, Checkpoint, Say, Defer, Resume, EndStream
<1>2. row' \notin EndStatus
  BY <1>1 DEF Dequeue, Stream, Checkpoint, Say, Defer, Resume, EndStream, EndStatus
<1>3. phase' # "over"
  BY DEF Dequeue, Stream, Checkpoint, Say, Defer, Resume, EndStream
<1> QED BY <1>2, <1>3 DEF CutoverInv

\* The buffer: a batch is packed only while its run is not over.
LEMMA BufferSteps ==
  ASSUME CutoverInv, Flush \/ Pack \/ PackFails
  PROVE  CutoverInv'
<1>1. phase # "over" /\ row \notin EndStatus
  BY DEF CutoverInv, Flush, Pack, PackFails, InMemory, LivePhases
<1> QED BY <1>1 DEF CutoverInv, Flush, Pack, PackFails, PackFrame, durable

\* The end: finalize leaves the row alone; the close waits for the chain.
LEMMA EndSteps ==
  ASSUME CutoverInv,
         StopWaiting \/ AttemptFails \/ AttemptEnds \/ CloseRow \/ CloseFails
  PROVE  CutoverInv'
<1>1. phase # "over" /\ row \notin EndStatus
  BY DEF CutoverInv, StopWaiting, AttemptFails, AttemptEnds, CloseRow, CloseFails
<1>2. ASSUME NEW status, NEW text, Finalize(status, text)
      PROVE  CutoverInv'
  BY <1>1, <1>2 DEF CutoverInv, Finalize, durable
<1>3. CASE StopWaiting \/ AttemptFails \/ AttemptEnds
  BY <1>2, <1>3 DEF StopWaiting, AttemptFails, AttemptEnds
<1>4. CASE CloseRow
  BY <1>4 DEF CutoverInv, CloseRow, CloseFrame, buffer
<1>5. CASE CloseFails
  BY <1>1, <1>5 DEF CutoverInv, CloseFails, CloseFrame, buffer
<1> QED BY <1>3, <1>4, <1>5

\* What a client does changes neither the row nor the buffer.
LEMMA ClientSteps ==
  ASSUME CutoverInv, NEW c \in Clients, ClientStep(c) \/ Drop(c)
  PROVE  CutoverInv'
<1>1. UNCHANGED <<row, segments, phase, inFlight>>
  BY DEF ClientStep, Receive, Join, JoinRead, JoinEnds, Detached, Drop, JoinFrame,
         durable, buffer
<1> QED BY <1>1 DEF CutoverInv

\* A reset empties the chain; the recovery takes up active rows only.
LEMMA ResetSteps ==
  ASSUME CutoverInv, Crash \/ ReopenQueued \/ Recover \/ Interrupt
  PROVE  CutoverInv'
<1>1. CASE Crash
  BY <1>1 DEF CutoverInv, Crash, durable
<1>2. CASE ReopenQueued
  BY <1>2 DEF CutoverInv, ReopenQueued, EndStatus
<1>3. CASE Recover
  BY <1>3 DEF CutoverInv, Recover, EndStatus
<1>4. CASE Interrupt
  BY <1>4 DEF CutoverInv, Interrupt, EndStatus
<1> QED BY <1>1, <1>2, <1>3, <1>4

\* CutoverInv is inductive.
LEMMA CutoverStep == CutoverInv /\ [Next]_vars => CutoverInv'
<1> SUFFICES ASSUME CutoverInv, [Next]_vars PROVE CutoverInv'
  OBVIOUS
<1>1. CASE Next
  BY <1>1, LiveSteps, BufferSteps, EndSteps, ClientSteps, ResetSteps DEF Next, RunStep
<1>2. CASE UNCHANGED vars
  BY <1>2 DEF CutoverInv, vars, durable, buffer
<1> QED BY <1>1, <1>2

\* Once a row is closed no segment of its run is stored or about to be
\* (RunBuffer.close before RunStore.close), whatever fails and restarts.
THEOREM Cutover == Spec => []CutoverIsClean
<1>1. CutoverInv => CutoverIsClean
  BY DEF CutoverInv, CutoverIsClean
<1> QED BY <1>1, InitCutover, CutoverStep, PTL DEF Spec

(* Sequences *)

\* Induction over the naturals, for a set.
LEMMA UpFromZero ==
  ASSUME NEW S \in SUBSET Nat, 0 \in S, \A n \in S : n + 1 \in S
  PROVE  S = Nat
<1> SUFFICES ASSUME Nat \ S # {} PROVE FALSE
  OBVIOUS
<1> DEFINE R == {ss \in Nat \X Nat : ss[1] < ss[2]}
           T == Nat \ S
<1>1. R = OpToRel(<, Nat)
  BY DEF OpToRel
<1>2. IsWellFoundedOn(R, Nat)
  BY <1>1, NatLessThanWellFounded
<1>3. PICK m \in T : \A n \in T : ~(<<n, m>> \in R)
  BY <1>2, WFMin
<1>4. m # 0 /\ m \in Nat
  BY <1>3
<1>5. m - 1 \in Nat /\ <<m - 1, m>> \in R
  BY <1>4
<1>6. m - 1 \in S
  BY <1>3, <1>5
<1>7. (m - 1) + 1 \in S
  BY <1>6
<1> QED
  BY <1>3, <1>4, <1>7

\* Induction over the sequences of S, for a set.
LEMMA UpFromEmpty ==
  ASSUME NEW S, NEW P \in SUBSET Seq(S),
         << >> \in P,
         \A s \in P, e \in S : Append(s, e) \in P
  PROVE  P = Seq(S)
<1> DEFINE Lens == {n \in Nat : \A s \in Seq(S) : Len(s) = n => s \in P}
<1>1. 0 \in Lens
  BY EmptySeq
<1>2. ASSUME NEW n \in Lens
      PROVE  n + 1 \in Lens
  <2> SUFFICES ASSUME NEW s \in Seq(S), Len(s) = n + 1
               PROVE  s \in P
    OBVIOUS
  <2>1. n \in Nat /\ \A t \in Seq(S) : Len(t) = n => t \in P
    BY <1>2
  <2>2. s # << >>
    BY <2>1
  <2>3. PICK t \in Seq(S), e \in S : s = Append(t, e)
    BY <2>2, SequenceEmptyOrAppend
  <2>4. Len(s) = Len(t) + 1 /\ Len(t) \in Nat
    BY <2>3, AppendProperties, LenProperties
  <2>5. t \in P
    BY <2>1, <2>4
  <2> QED
    BY <2>3, <2>5
<1> HIDE DEF Lens
<1>3. Lens = Nat
  <2>1. Lens \in SUBSET Nat
    BY DEF Lens
  <2> QED
    BY <1>1, <1>2, <2>1, UpFromZero
<1>4. \A s \in Seq(S) : Len(s) \in Lens
  BY <1>3, LenProperties
<1> QED
  BY <1>4 DEF Lens

\* Induction from 0 to n, for a set.
LEMMA UpTo ==
  ASSUME NEW n \in Nat, NEW S, 0 \in S, \A i \in 1 .. n : i - 1 \in S => i \in S
  PROVE  \A i \in 0 .. n : i \in S
<1> DEFINE A == {k \in Nat : k <= n => k \in S}
<1>1. 0 \in A
  OBVIOUS
<1>2. ASSUME NEW k \in A
      PROVE  k + 1 \in A
  <2> SUFFICES ASSUME k + 1 <= n
               PROVE  k + 1 \in S
    OBVIOUS
  <2>1. k \in Nat /\ k \in S /\ k + 1 \in 1 .. n /\ (k + 1) - 1 = k
    OBVIOUS
  <2> QED
    BY <2>1
<1> HIDE DEF A
<1>3. A = Nat
  <2>1. A \in SUBSET Nat
    BY DEF A
  <2> QED
    BY <1>1, <1>2, <2>1, UpFromZero
<1>4. \A i \in 0 .. n : i \in A
  BY <1>3
<1> QED
  BY <1>4 DEF A

\* g is the recursion over 0 .. n that starts with v and goes on with h.
Solves(g, n, V, v, h) ==
  g \in [0 .. n -> V] /\ g[0] = v /\ \A i \in 1 .. n : g[i] = h[<<g[i - 1], i>>]

\* A recursion over 0 .. n with values in V is solved.
LEMMA RecursionSolved ==
  ASSUME NEW n \in Nat, NEW V, NEW v \in V, NEW h \in [V \X (1 .. n) -> V]
  PROVE  \E g : Solves(g, n, V, v, h)
<1> DEFINE S == {k \in 0 .. n : \E g : Solves(g, k, V, v, h)}
<1>1. 0 \in S
  <2> DEFINE g == [i \in 0 .. 0 |-> v]
  <2>1. Solves(g, 0, V, v, h)
    BY DEF Solves
  <2> QED
    BY <2>1
<1>2. ASSUME NEW k \in 1 .. n, k - 1 \in S
      PROVE  k \in S
  <2>1. PICK f : Solves(f, k - 1, V, v, h)
    BY <1>2
  <2> DEFINE g == [i \in 0 .. k |-> IF i = k THEN h[<<f[k - 1], k>>] ELSE f[i]]
  <2>2. f[k - 1] \in V /\ f \in [0 .. k - 1 -> V]
    BY <2>1 DEF Solves
  <2>3. g \in [0 .. k -> V]
    <3> SUFFICES ASSUME NEW i \in 0 .. k PROVE g[i] \in V
      OBVIOUS
    <3>1. h[<<f[k - 1], k>>] \in V
      BY <2>2
    <3>2. i # k => i \in 0 .. k - 1
      OBVIOUS
    <3> QED
      BY <2>2, <3>1, <3>2
  <2>4. \A i \in 0 .. k - 1 : g[i] = f[i]
    OBVIOUS
  <2>5. g[k] = h[<<f[k - 1], k>>]
    OBVIOUS
  <2> HIDE DEF g
  <2>6. \A i \in 1 .. k : g[i] = h[<<g[i - 1], i>>]
    <3> SUFFICES ASSUME NEW i \in 1 .. k
                 PROVE  g[i] = h[<<g[i - 1], i>>]
      OBVIOUS
    <3>1. i - 1 \in 0 .. k - 1 /\ g[i - 1] = f[i - 1]
      BY <2>4
    <3>2. CASE i = k
      BY <2>5, <3>1, <3>2
    <3>3. CASE i # k
      <4>1. i \in 1 .. k - 1 /\ i \in 0 .. k - 1
        BY <3>3
      <4>2. g[i] = f[i] /\ f[i] = h[<<f[i - 1], i>>]
        BY <2>1, <2>4, <4>1 DEF Solves
      <4> QED
        BY <3>1, <4>2
    <3> QED
      BY <3>2, <3>3
  <2>7. g[0] = v
    BY <2>1, <2>4 DEF Solves
  <2>8. Solves(g, k, V, v, h)
    BY <2>3, <2>6, <2>7 DEF Solves
  <2> QED
    BY <2>8
<1> HIDE DEF S
<1>3. n \in S
  <2>1. \A i \in 0 .. n : i \in S
    BY <1>1, <1>2, UpTo
  <2> QED
    BY <2>1
<1> QED
  BY <1>3 DEF S

-----------------------------------------------------------------------------
(* Joined *)

\* Joined is the last value of the recursion that defines it.
LEMMA JoinedSteps ==
  ASSUME NEW S, NEW bs \in Seq(Seq(S))
  PROVE  \E g \in [0 .. Len(bs) -> Seq(S)] :
           /\ g[0] = << >>
           /\ \A i \in 1 .. Len(bs) : g[i] = g[i - 1] \o bs[i]
           /\ Joined(bs) = g[Len(bs)]
<1> DEFINE n == Len(bs)
           V == Seq(S)
           h == [p \in V \X (1 .. n) |-> p[1] \o bs[p[2]]]
           Solution(g) == g = [i \in 0 .. n |-> IF i = 0 THEN << >> ELSE g[i - 1] \o bs[i]]
<1>1. n \in Nat /\ << >> \in V /\ \A i \in 1 .. n : bs[i] \in V
  BY LenProperties, ElementOfSeq, EmptySeq
<1>2. h \in [V \X (1 .. n) -> V]
  BY <1>1, ConcatProperties
<1>3. \E g : Solves(g, n, V, << >>, h)
  <2> HIDE DEF V, h, n
  <2>1. n \in Nat /\ << >> \in V
    BY <1>1
  <2> QED
    BY <2>1, <1>2, RecursionSolved
<1>4. PICK f \in [0 .. n -> V] :
        f[0] = << >> /\ \A i \in 1 .. n : f[i] = h[<<f[i - 1], i>>]
  BY <1>3 DEF Solves
<1>5. \A i \in 1 .. n : f[i] = f[i - 1] \o bs[i]
  <2> SUFFICES ASSUME NEW i \in 1 .. n
               PROVE  f[i] = f[i - 1] \o bs[i]
    OBVIOUS
  <2>1. i - 1 \in 0 .. n
    BY <1>1
  <2>2. <<f[i - 1], i>> \in V \X (1 .. n)
    BY <2>1
  <2>3. h[<<f[i - 1], i>>] = f[i - 1] \o bs[i]
    BY <2>2
  <2> QED
    BY <1>4, <2>3
<1>6. Solution(f)
  <2>1. \A i \in 0 .. n : i # 0 => i \in 1 .. n
    BY <1>1
  <2> QED
    BY <1>4, <1>5, <2>1
<1> DEFINE c == CHOOSE g : Solution(g)
<1>7. Solution(c)
  BY <1>6
<1>8. Joined(bs) = c[n]
  BY DEF Joined
<1> HIDE DEF c
<1>9. /\ 0 \in 0 .. n /\ \A i \in 1 .. n : i \in 0 .. n /\ i # 0
      /\ n \in 0 .. n
  BY <1>1
<1>10. c[0] = << >> /\ \A i \in 1 .. n : c[i] = c[i - 1] \o bs[i]
  BY <1>7, <1>9
<1> DEFINE Same == {i \in 0 .. n : c[i] = f[i]}
<1>11. 0 \in Same
  BY <1>4, <1>9, <1>10
<1>12. ASSUME NEW i \in 1 .. n, i - 1 \in Same
       PROVE  i \in Same
  <2>1. c[i] = c[i - 1] \o bs[i] /\ f[i] = f[i - 1] \o bs[i] /\ i \in 0 .. n
    BY <1>5, <1>9, <1>10
  <2> QED
    BY <1>12, <2>1
<1>13. n \in Same
  <2> HIDE DEF Same, n
  <2>1. n \in Nat
    BY <1>1
  <2>2. \A i \in 0 .. n : i \in Same
    BY <1>11, <1>12, <2>1, UpTo
  <2> QED
    BY <1>9, <2>2
<1> QED
  BY <1>4, <1>5, <1>8, <1>13

\* What is joined is a sequence; nothing joins to nothing.
LEMMA JoinedType ==
  ASSUME NEW S, NEW bs \in Seq(Seq(S))
  PROVE  Joined(bs) \in Seq(S)
<1>1. PICK g \in [0 .. Len(bs) -> Seq(S)] : Joined(bs) = g[Len(bs)]
  BY JoinedSteps
<1> QED
  BY <1>1, LenProperties

\* Nothing joins to nothing.
LEMMA JoinedEmpty == Joined(<< >>) = << >>
<1>1. << >> \in Seq(Seq({})) /\ Len(<< >>) = 0
  BY EmptySeq
<1>2. PICK g \in [0 .. Len(<< >>) -> Seq({})] : g[0] = << >> /\ Joined(<< >>) = g[Len(<< >>)]
  BY <1>1, JoinedSteps
<1> QED
  BY <1>1, <1>2

\* A further batch is joined at the end.
LEMMA JoinedAppend ==
  ASSUME NEW S, NEW bs \in Seq(Seq(S)), NEW b \in Seq(S)
  PROVE  Joined(Append(bs, b)) = Joined(bs) \o b
<1> DEFINE n == Len(bs)
           as == Append(bs, b)
<1>1. /\ as \in Seq(Seq(S)) /\ Len(as) = n + 1 /\ n \in Nat
      /\ \A i \in 1 .. n : as[i] = bs[i]
      /\ as[n + 1] = b
  BY AppendProperties, LenProperties
<1>2. PICK g \in [0 .. n -> Seq(S)] :
           /\ g[0] = << >>
           /\ \A i \in 1 .. n : g[i] = g[i - 1] \o bs[i]
           /\ Joined(bs) = g[n]
  BY JoinedSteps
<1> HIDE DEF as, n
<1>3. PICK f \in [0 .. Len(as) -> Seq(S)] :
           /\ f[0] = << >>
           /\ \A i \in 1 .. Len(as) : f[i] = f[i - 1] \o as[i]
           /\ Joined(as) = f[Len(as)]
  BY <1>1, JoinedSteps
<1> DEFINE Same == {i \in 0 .. n : f[i] = g[i]}
<1>4. n \in Same
  <2>1. 0 \in Same
    BY <1>1, <1>2, <1>3
  <2>2. ASSUME NEW i \in 1 .. n, i - 1 \in Same
        PROVE  i \in Same
    <3>1. i \in 1 .. Len(as) /\ i \in 0 .. n
      BY <1>1
    <3>2. f[i] = f[i - 1] \o as[i] /\ g[i] = g[i - 1] \o bs[i]
      BY <1>2, <1>3, <3>1
    <3>3. as[i] = bs[i]
      BY <1>1
    <3> QED
      BY <2>2, <3>1, <3>2, <3>3
  <2> HIDE DEF Same
  <2>3. \A i \in 0 .. n : i \in Same
    BY <1>1, <2>1, <2>2, UpTo
  <2> QED
    BY <1>1, <2>3
<1>5. f[n + 1] = f[n] \o as[n + 1]
  <2>1. n + 1 \in 1 .. Len(as) /\ (n + 1) - 1 = n
    BY <1>1
  <2>2. f[n + 1] = f[(n + 1) - 1] \o as[n + 1]
    BY <1>3, <2>1
  <2> QED
    BY <2>1, <2>2
<1>6. f[n] = g[n]
  BY <1>4
<1>7. Joined(as) = Joined(bs) \o b
  BY <1>1, <1>2, <1>3, <1>5, <1>6
<1> QED
  BY <1>7 DEF as

\* A batch in front is joined in front.
LEMMA JoinedCons ==
  ASSUME NEW S, NEW b \in Seq(S), NEW bs \in Seq(Seq(S))
  PROVE  Joined(<<b>> \o bs) = b \o Joined(bs)
<1> DEFINE P == {t \in Seq(Seq(S)) : Joined(<<b>> \o t) = b \o Joined(t)}
<1>1. << >> \in Seq(Seq(S)) /\ << >> \in Seq(S) /\ <<b>> \in Seq(Seq(S))
  BY EmptySeq
<1>2. << >> \in P
  <2>1. <<b>> \o << >> = <<b>> /\ Append(<< >>, b) = <<b>>
    BY <1>1, ConcatEmptySeq
  <2>2. Joined(Append(<< >>, b)) = Joined(<< >>) \o b
    BY <1>1, JoinedAppend
  <2>3. << >> \o b = b /\ b \o << >> = b
    BY ConcatEmptySeq
  <2> QED
    BY <1>1, <2>1, <2>2, <2>3, JoinedEmpty
<1>3. ASSUME NEW t \in P, NEW e \in Seq(S)
      PROVE  Append(t, e) \in P
  <2>1. t \in Seq(Seq(S)) /\ Joined(<<b>> \o t) = b \o Joined(t)
    OBVIOUS
  <2>2. <<b>> \o t \in Seq(Seq(S)) /\ Append(t, e) \in Seq(Seq(S)) /\ Joined(t) \in Seq(S)
    BY <1>1, <2>1, ConcatProperties, AppendProperties, JoinedType
  <2>3. <<b>> \o Append(t, e) = Append(<<b>> \o t, e)
    <3>1. Append(t, e) = t \o <<e>> /\ Append(<<b>> \o t, e) = (<<b>> \o t) \o <<e>>
      BY <2>1, <2>2, AppendIsConcat
    <3>2. <<e>> \in Seq(Seq(S))
      OBVIOUS
    <3> QED
      BY <1>1, <2>1, <3>1, <3>2, ConcatAssociative
  <2>4. Joined(Append(<<b>> \o t, e)) = Joined(<<b>> \o t) \o e
    BY <2>2, JoinedAppend
  <2>5. Joined(Append(t, e)) = Joined(t) \o e
    BY <2>1, JoinedAppend
  <2>6. (b \o Joined(t)) \o e = b \o (Joined(t) \o e)
    BY <2>2, ConcatAssociative
  <2> QED
    BY <2>1, <2>2, <2>3, <2>4, <2>5, <2>6
<1>4. P = Seq(Seq(S))
  <2> HIDE DEF P
  <2>1. P \in SUBSET Seq(Seq(S))
    BY DEF P
  <2> QED
    BY <1>2, <1>3, <2>1, UpFromEmpty
<1> QED
  BY <1>4

\* e is an element of s.
In(e, s) == \E i \in 1 .. Len(s) : s[i] = e

\* The elements of two sequences, one after the other.
LEMMA InConcat ==
  ASSUME NEW S, NEW s \in Seq(S), NEW t \in Seq(S), NEW e
  PROVE  In(e, s \o t) <=> In(e, s) \/ In(e, t)
<1>1. /\ Len(s \o t) = Len(s) + Len(t) /\ Len(s) \in Nat /\ Len(t) \in Nat
      /\ \A i \in 1 .. Len(s) + Len(t) :
           (s \o t)[i] = IF i <= Len(s) THEN s[i] ELSE t[i - Len(s)]
  BY ConcatProperties, LenProperties
<1>2. ASSUME In(e, s \o t)
      PROVE  In(e, s) \/ In(e, t)
  <2>1. PICK i \in 1 .. Len(s) + Len(t) : (s \o t)[i] = e
    BY <1>1, <1>2 DEF In
  <2>2. CASE i <= Len(s)
    BY <1>1, <2>1, <2>2 DEF In
  <2>3. CASE ~(i <= Len(s))
    <3>1. i - Len(s) \in 1 .. Len(t)
      BY <1>1, <2>3
    <3> QED
      BY <1>1, <2>1, <2>3, <3>1 DEF In
  <2> QED
    BY <2>2, <2>3
<1>3. ASSUME In(e, s)
      PROVE  In(e, s \o t)
  <2>1. PICK i \in 1 .. Len(s) : s[i] = e
    BY <1>3 DEF In
  <2>2. i \in 1 .. Len(s) + Len(t) /\ i <= Len(s)
    BY <1>1
  <2>3. (s \o t)[i] = e
    BY <1>1, <2>1, <2>2
  <2> QED
    BY <1>1, <2>2, <2>3 DEF In
<1>4. ASSUME In(e, t)
      PROVE  In(e, s \o t)
  <2>1. PICK i \in 1 .. Len(t) : t[i] = e
    BY <1>4 DEF In
  <2>2. /\ i + Len(s) \in 1 .. Len(s) + Len(t) /\ ~(i + Len(s) <= Len(s))
        /\ (i + Len(s)) - Len(s) = i
    BY <1>1
  <2>3. (s \o t)[i + Len(s)] = e
    BY <1>1, <2>1, <2>2
  <2> QED
    BY <1>1, <2>2, <2>3 DEF In
<1> QED
  BY <1>2, <1>3, <1>4

\* The elements of a sequence with one more.
LEMMA InAppend ==
  ASSUME NEW S, NEW s \in Seq(S), NEW d \in S, NEW e
  PROVE  In(e, Append(s, d)) <=> In(e, s) \/ e = d
<1>1. Append(s, d) = s \o <<d>> /\ <<d>> \in Seq(S)
  BY AppendIsConcat
<1>2. In(e, <<d>>) <=> e = d
  BY DEF In
<1>3. In(e, s \o <<d>>) <=> In(e, s) \/ In(e, <<d>>)
  BY <1>1, InConcat
<1> QED
  BY <1>1, <1>2, <1>3

\* The elements of a sequence are of its set.
LEMMA InType ==
  ASSUME NEW S, NEW s \in Seq(S), NEW e, In(e, s)
  PROVE  e \in S
BY ElementOfSeq DEF In

\* What is in a batch is in what the batches join to.
LEMMA InJoined ==
  ASSUME NEW S, NEW bs \in Seq(Seq(S)), NEW b, In(b, bs), NEW e, In(e, b)
  PROVE  In(e, Joined(bs))
<1> DEFINE P == {t \in Seq(Seq(S)) : In(b, t) => In(e, Joined(t))}
<1>1. << >> \in P
  BY EmptySeq DEF In
<1>2. ASSUME NEW t \in P, NEW d \in Seq(S)
      PROVE  Append(t, d) \in P
  <2>1. t \in Seq(Seq(S)) /\ (In(b, t) => In(e, Joined(t)))
    OBVIOUS
  <2>2. Append(t, d) \in Seq(Seq(S)) /\ Joined(t) \in Seq(S)
    BY <2>1, AppendProperties, JoinedType
  <2>3. Joined(Append(t, d)) = Joined(t) \o d
    BY <2>1, JoinedAppend
  <2>4. In(b, Append(t, d)) <=> In(b, t) \/ b = d
    BY <2>1, InAppend
  <2>5. In(e, Joined(t) \o d) <=> In(e, Joined(t)) \/ In(e, d)
    BY <2>2, InConcat
  <2> QED
    BY <2>1, <2>2, <2>3, <2>4, <2>5
<1>3. P = Seq(Seq(S))
  <2> HIDE DEF P
  <2>1. P \in SUBSET Seq(Seq(S))
    BY DEF P
  <2> QED
    BY <1>1, <1>2, <2>1, UpFromEmpty
<1> QED
  BY <1>3

-----------------------------------------------------------------------------
(* Only *)

\* g selects the elements of s that are in T, one after the other.
Selects(g, s, T, V) ==
  /\ g \in [0 .. Len(s) -> V]
  /\ g[0] = << >>
  /\ \A i \in 1 .. Len(s) : /\ s[i] \in T => g[i] = Append(g[i - 1], s[i])
                            /\ s[i] \notin T => g[i] = g[i - 1]

\* Only is the last value of the recursion that defines it.
LEMMA OnlySteps ==
  ASSUME NEW S, NEW s \in Seq(S), NEW T
  PROVE  \E g : Selects(g, s, T, Seq(S)) /\ Only(s, T) = g[Len(s)]
<1> DEFINE n == Len(s)
           V == Seq(S)
           h == [p \in V \X (1 .. n) |->
                   IF s[p[2]] \in T THEN Append(p[1], s[p[2]]) ELSE p[1]]
           Solution(g) == g = [i \in 0 .. n |->
             IF i = 0 THEN << >>
             ELSE IF s[i] \in T THEN Append(g[i - 1], s[i]) ELSE g[i - 1]]
<1>1. n \in Nat /\ << >> \in V /\ \A i \in 1 .. n : s[i] \in S
  BY LenProperties, ElementOfSeq, EmptySeq
<1>2. h \in [V \X (1 .. n) -> V]
  BY <1>1, AppendProperties
<1>3. \E g : Solves(g, n, V, << >>, h)
  <2> HIDE DEF V, h, n
  <2>1. n \in Nat /\ << >> \in V
    BY <1>1
  <2> QED
    BY <2>1, <1>2, RecursionSolved
<1>4. PICK f \in [0 .. n -> V] :
        f[0] = << >> /\ \A i \in 1 .. n : f[i] = h[<<f[i - 1], i>>]
  BY <1>3 DEF Solves
<1> DEFINE Step(g, i) == /\ s[i] \in T => g[i] = Append(g[i - 1], s[i])
                         /\ s[i] \notin T => g[i] = g[i - 1]
<1>5. \A i \in 1 .. n : Step(f, i)
  <2> SUFFICES ASSUME NEW i \in 1 .. n
               PROVE  Step(f, i)
    OBVIOUS
  <2>1. i - 1 \in 0 .. n
    BY <1>1
  <2>2. <<f[i - 1], i>> \in V \X (1 .. n)
    BY <2>1
  <2>3. h[<<f[i - 1], i>>] = IF s[i] \in T THEN Append(f[i - 1], s[i]) ELSE f[i - 1]
    BY <2>2
  <2> QED
    BY <1>4, <2>3
<1>6. Solution(f)
  <2>1. \A i \in 0 .. n :
          f[i] = IF i = 0 THEN << >>
                 ELSE IF s[i] \in T THEN Append(f[i - 1], s[i]) ELSE f[i - 1]
    <3> SUFFICES ASSUME NEW i \in 0 .. n, i # 0
                 PROVE  f[i] = IF s[i] \in T THEN Append(f[i - 1], s[i]) ELSE f[i - 1]
      BY <1>4
    <3>1. i \in 1 .. n
      BY <1>1
    <3>2. Step(f, i)
      BY <1>5, <3>1
    <3> QED
      BY <3>2
  <2> QED
    BY <1>4, <2>1
<1> DEFINE c == CHOOSE g : Solution(g)
<1>7. Solution(c)
  BY <1>6
<1>8. Only(s, T) = c[n]
  BY DEF Only
<1> HIDE DEF c
<1>9. /\ 0 \in 0 .. n /\ \A i \in 1 .. n : i \in 0 .. n /\ i # 0
      /\ n \in 0 .. n
  BY <1>1
<1>10. c[0] = << >> /\ \A i \in 1 .. n : Step(c, i)
  BY <1>7, <1>9
<1> DEFINE Same == {i \in 0 .. n : c[i] = f[i]}
<1>11. 0 \in Same
  BY <1>4, <1>9, <1>10
<1>12. ASSUME NEW i \in 1 .. n, i - 1 \in Same
       PROVE  i \in Same
  <2>1. Step(c, i) /\ Step(f, i) /\ i \in 0 .. n /\ c[i - 1] = f[i - 1]
    BY <1>5, <1>9, <1>10, <1>12
  <2>2. c[i] = f[i]
    BY <2>1
  <2> QED
    BY <2>1, <2>2
<1>13. n \in Same
  <2> HIDE DEF Same, n
  <2>1. n \in Nat
    BY <1>1
  <2>2. \A i \in 0 .. n : i \in Same
    BY <1>11, <1>12, <2>1, UpTo
  <2> QED
    BY <1>9, <2>2
<1>14. Selects(f, s, T, Seq(S))
  BY <1>4, <1>5 DEF Selects
<1>15. Only(s, T) = f[Len(s)]
  BY <1>8, <1>13
<1> QED
  BY <1>14, <1>15

\* A selection of a sequence of S is one too.
LEMMA OnlyType ==
  ASSUME NEW S, NEW s \in Seq(S), NEW T
  PROVE  Only(s, T) \in Seq(S)
<1>1. PICK g : Selects(g, s, T, Seq(S)) /\ Only(s, T) = g[Len(s)]
  BY OnlySteps
<1> QED
  BY <1>1, LenProperties DEF Selects

\* Nothing is selected of nothing.
LEMMA OnlyEmpty ==
  ASSUME NEW T
  PROVE  Only(<< >>, T) = << >>
<1>1. << >> \in Seq({}) /\ Len(<< >>) = 0
  BY EmptySeq
<1>2. PICK g : Selects(g, << >>, T, Seq({})) /\ Only(<< >>, T) = g[Len(<< >>)]
  BY <1>1, OnlySteps
<1> QED
  BY <1>1, <1>2 DEF Selects

\* A further element is selected at the end, or not.
LEMMA OnlyAppend ==
  ASSUME NEW S, NEW s \in Seq(S), NEW e \in S, NEW T
  PROVE  Only(Append(s, e), T) = IF e \in T THEN Append(Only(s, T), e) ELSE Only(s, T)
<1> DEFINE n == Len(s)
           as == Append(s, e)
<1>1. /\ as \in Seq(S) /\ Len(as) = n + 1 /\ n \in Nat
      /\ \A i \in 1 .. n : as[i] = s[i]
      /\ as[n + 1] = e
  BY AppendProperties, LenProperties
<1>2. PICK g : Selects(g, s, T, Seq(S)) /\ Only(s, T) = g[Len(s)]
  BY OnlySteps
<1> HIDE DEF as
<1>3. PICK f : Selects(f, as, T, Seq(S)) /\ Only(as, T) = f[Len(as)]
  BY <1>1, OnlySteps
<1> DEFINE Step(q, t, i) == /\ t[i] \in T => q[i] = Append(q[i - 1], t[i])
                            /\ t[i] \notin T => q[i] = q[i - 1]
<1>8. g[0] = << >> /\ \A i \in 1 .. n : Step(g, s, i)
  BY <1>2 DEF Selects
<1>9. f[0] = << >> /\ \A i \in 1 .. Len(as) : Step(f, as, i)
  BY <1>3 DEF Selects
<1> HIDE DEF n
<1> DEFINE Same == {i \in 0 .. n : f[i] = g[i]}
<1>4. n \in Same
  <2>1. 0 \in Same
    BY <1>1, <1>8, <1>9
  <2>2. ASSUME NEW i \in 1 .. n, i - 1 \in Same
        PROVE  i \in Same
    <3>1. i \in 1 .. Len(as) /\ i \in 0 .. n
      BY <1>1
    <3>2. Step(f, as, i) /\ Step(g, s, i)
      BY <1>8, <1>9, <3>1
    <3>3. as[i] = s[i] /\ f[i - 1] = g[i - 1]
      BY <1>1, <2>2
    <3>4. f[i] = g[i]
      BY <3>2, <3>3
    <3> QED
      BY <3>1, <3>4
  <2> HIDE DEF Same
  <2>3. \A i \in 0 .. n : i \in Same
    BY <1>1, <2>1, <2>2, UpTo
  <2> QED
    BY <1>1, <2>3
<1>5. /\ e \in T => f[n + 1] = Append(f[n], e)
      /\ e \notin T => f[n + 1] = f[n]
  <2>1. n + 1 \in 1 .. Len(as) /\ (n + 1) - 1 = n
    BY <1>1
  <2>2. Step(f, as, n + 1)
    BY <1>9, <2>1
  <2> QED
    BY <1>1, <2>1, <2>2
<1>6. f[n] = g[n]
  BY <1>4
<1>7. Only(as, T) = IF e \in T THEN Append(Only(s, T), e) ELSE Only(s, T)
  BY <1>1, <1>2, <1>3, <1>5, <1>6 DEF n
<1> QED
  BY <1>7 DEF as

\* One more element of the second of two sequences.
LEMMA ConcatAppend ==
  ASSUME NEW S, NEW s \in Seq(S), NEW t \in Seq(S), NEW e \in S
  PROVE  s \o Append(t, e) = Append(s \o t, e)
<1> DEFINE w == <<e>>
<1>1. w \in Seq(S) /\ s \o t \in Seq(S)
  BY ConcatProperties
<1>2. Append(t, e) = t \o w /\ Append(s \o t, e) = (s \o t) \o w
  BY <1>1, AppendIsConcat
<1> HIDE DEF w
<1>3. (s \o t) \o w = s \o (t \o w)
  BY <1>1, ConcatAssociative
<1> QED
  BY <1>2, <1>3

\* A selection of two sequences, one after the other.
LEMMA OnlyConcat ==
  ASSUME NEW S, NEW s \in Seq(S), NEW t \in Seq(S), NEW T
  PROVE  Only(s \o t, T) = Only(s, T) \o Only(t, T)
<1> DEFINE P == {u \in Seq(S) : Only(s \o u, T) = Only(s, T) \o Only(u, T)}
<1>1. << >> \in P
  <2>1. Only(s, T) \in Seq(S) /\ << >> \in Seq(S)
    BY OnlyType, EmptySeq
  <2>2. s \o << >> = s /\ Only(s, T) \o << >> = Only(s, T)
    BY <2>1, ConcatEmptySeq
  <2> QED
    BY <2>1, <2>2, OnlyEmpty
<1>2. ASSUME NEW u \in P, NEW e \in S
      PROVE  Append(u, e) \in P
  <2>1. u \in Seq(S) /\ Only(s \o u, T) = Only(s, T) \o Only(u, T)
    OBVIOUS
  <2> HIDE DEF P
  <2>2. /\ s \o u \in Seq(S) /\ Append(u, e) \in Seq(S) /\ <<e>> \in Seq(S)
        /\ Only(u, T) \in Seq(S) /\ Only(s, T) \in Seq(S)
    BY <2>1, ConcatProperties, AppendProperties, OnlyType
  <2>3. s \o Append(u, e) = Append(s \o u, e)
    BY <2>1, ConcatAppend
  <2> DEFINE su == s \o u
  <2>4. Only(Append(su, e), T) = IF e \in T THEN Append(Only(su, T), e) ELSE Only(su, T)
    <3>1. su \in Seq(S)
      BY <2>2
    <3> HIDE DEF su
    <3> QED
      BY <3>1, OnlyAppend
  <2>5. Only(Append(u, e), T) = IF e \in T THEN Append(Only(u, T), e) ELSE Only(u, T)
    BY <2>1, OnlyAppend
  <2>6. Append(Only(s, T) \o Only(u, T), e) = Only(s, T) \o Append(Only(u, T), e)
    <3> DEFINE os == Only(s, T)
               ou == Only(u, T)
    <3>1. os \in Seq(S) /\ ou \in Seq(S)
      BY <2>2
    <3> HIDE DEF os, ou
    <3>2. os \o Append(ou, e) = Append(os \o ou, e)
      BY <3>1, ConcatAppend
    <3> QED
      BY <3>2 DEF os, ou
  <2>7. Only(Append(s \o u, e), T) = Only(s, T) \o Only(Append(u, e), T)
    <3>1. CASE e \in T
      BY <2>1, <2>4, <2>5, <2>6, <3>1
    <3>2. CASE e \notin T
      BY <2>1, <2>4, <2>5, <3>2
    <3> QED
      BY <3>1, <3>2
  <2> QED
    BY <2>2, <2>3, <2>7 DEF P
<1>3. P = Seq(S)
  <2> HIDE DEF P
  <2>1. P \in SUBSET Seq(S)
    BY DEF P
  <2> QED
    BY <1>1, <1>2, <2>1, UpFromEmpty
<1> QED
  BY <1>3

\* What is selected is what is in T.
LEMMA OnlyIn ==
  ASSUME NEW S, NEW s \in Seq(S), NEW T, NEW e
  PROVE  In(e, Only(s, T)) <=> In(e, s) /\ e \in T
<1> DEFINE P == {t \in Seq(S) : In(e, Only(t, T)) <=> In(e, t) /\ e \in T}
<1>1. << >> \in P
  <2>1. Only(<< >>, T) = << >> /\ ~In(e, << >>) /\ << >> \in Seq(S)
    BY OnlyEmpty, EmptySeq DEF In
  <2> QED
    BY <2>1
<1>2. ASSUME NEW t \in P, NEW d \in S
      PROVE  Append(t, d) \in P
  <2>1. t \in Seq(S) /\ (In(e, Only(t, T)) <=> In(e, t) /\ e \in T)
    OBVIOUS
  <2>2. Append(t, d) \in Seq(S) /\ Only(t, T) \in Seq(S)
    BY <2>1, AppendProperties, OnlyType
  <2>3. Only(Append(t, d), T) = IF d \in T THEN Append(Only(t, T), d) ELSE Only(t, T)
    BY <2>1, OnlyAppend
  <2>4. /\ In(e, Append(t, d)) <=> In(e, t) \/ e = d
        /\ In(e, Append(Only(t, T), d)) <=> In(e, Only(t, T)) \/ e = d
    BY <2>1, <2>2, InAppend
  <2>5. In(e, Only(Append(t, d), T)) <=> In(e, Append(t, d)) /\ e \in T
    <3>1. CASE d \in T
      BY <2>1, <2>3, <2>4, <3>1
    <3>2. CASE d \notin T
      BY <2>1, <2>3, <2>4, <3>2
    <3> QED
      BY <3>1, <3>2
  <2> QED
    BY <2>2, <2>5
<1>3. P = Seq(S)
  <2> HIDE DEF P
  <2>1. P \in SUBSET Seq(S)
    BY DEF P
  <2> QED
    BY <1>1, <1>2, <2>1, UpFromEmpty
<1> QED
  BY <1>3

\* A sequence without elements is empty.
LEMMA InNothing ==
  ASSUME NEW S, NEW s \in Seq(S), \A e : ~In(e, s)
  PROVE  s = << >>
<1> SUFFICES ASSUME s # << >> PROVE FALSE
  OBVIOUS
<1>1. Len(s) \in Nat \ {0}
  BY EmptySeq
<1>2. In(s[1], s)
  BY <1>1 DEF In
<1> QED
  BY <1>2

\* Nothing is selected when no element is in T.
LEMMA OnlyNone ==
  ASSUME NEW S, NEW s \in Seq(S), NEW T, \A e : In(e, s) => e \notin T
  PROVE  Only(s, T) = << >>
<1>1. Only(s, T) \in Seq(S) /\ \A e : ~In(e, Only(s, T))
  BY OnlyType, OnlyIn
<1> QED
  BY <1>1, InNothing

\* All is selected when every element is in T.
LEMMA OnlyAll ==
  ASSUME NEW S, NEW s \in Seq(S), NEW T, \A e : In(e, s) => e \in T
  PROVE  Only(s, T) = s
<1> DEFINE P == {t \in Seq(S) : (\A e : In(e, t) => e \in T) => Only(t, T) = t}
<1>1. << >> \in P
  BY OnlyEmpty, EmptySeq
<1>2. ASSUME NEW t \in P, NEW d \in S
      PROVE  Append(t, d) \in P
  <2>1. t \in Seq(S) /\ ((\A e : In(e, t) => e \in T) => Only(t, T) = t)
    OBVIOUS
  <2>2. Append(t, d) \in Seq(S)
    BY <2>1, AppendProperties
  <2>3. Only(Append(t, d), T) = IF d \in T THEN Append(Only(t, T), d) ELSE Only(t, T)
    BY <2>1, OnlyAppend
  <2>4. \A e : In(e, Append(t, d)) <=> In(e, t) \/ e = d
    BY <2>1, InAppend
  <2>5. (\A e : In(e, Append(t, d)) => e \in T) => Only(Append(t, d), T) = Append(t, d)
    BY <2>1, <2>3, <2>4
  <2> QED
    BY <2>2, <2>5
<1>3. P = Seq(S)
  <2> HIDE DEF P
  <2>1. P \in SUBSET Seq(S)
    BY DEF P
  <2> QED
    BY <1>1, <1>2, <2>1, UpFromEmpty
<1> QED
  BY <1>3

-----------------------------------------------------------------------------
(* Order *)

\* f comes before e in a log: its number is smaller, or both are numbered 1 (the
\* first frame of a queued run and the first of its attempt may share it).
Precedes(f, e) == f.seq < e.seq \/ (f.seq = 1 /\ e.seq = 1)

\* Frames in the order of their numbers.
Ordered(s) == \A i, j \in 1 .. Len(s) : i < j => Precedes(s[i], s[j])

\* The order of two sequences, one after the other.
LEMMA OrderedConcat ==
  ASSUME NEW S, NEW s \in Seq(S), NEW t \in Seq(S)
  PROVE  Ordered(s \o t) <=>
           /\ Ordered(s) /\ Ordered(t)
           /\ \A f, e : In(f, s) /\ In(e, t) => Precedes(f, e)
<1> DEFINE m == Len(s)
           n == Len(t)
           u == s \o t
<1>1. /\ Len(u) = m + n /\ m \in Nat /\ n \in Nat
      /\ \A i \in 1 .. m + n : u[i] = IF i <= m THEN s[i] ELSE t[i - m]
  BY ConcatProperties, LenProperties
<1>2. \A i \in 1 .. m : i \in 1 .. Len(u) /\ u[i] = s[i]
  BY <1>1
<1>3. \A i \in 1 .. n : m + i \in 1 .. Len(u) /\ u[m + i] = t[i]
  <2> SUFFICES ASSUME NEW i \in 1 .. n
               PROVE  m + i \in 1 .. Len(u) /\ u[m + i] = t[i]
    OBVIOUS
  <2>1. m + i \in 1 .. m + n /\ ~(m + i <= m) /\ (m + i) - m = i
    BY <1>1
  <2> QED
    BY <1>1, <2>1
<1>4. \A i \in 1 .. Len(u) : i > m => i - m \in 1 .. n /\ u[i] = t[i - m]
  BY <1>1
<1> HIDE DEF u, m, n
<1>5. ASSUME Ordered(u)
      PROVE  /\ \A i, j \in 1 .. m : i < j => Precedes(s[i], s[j])
             /\ \A i, j \in 1 .. n : i < j => Precedes(t[i], t[j])
             /\ \A i \in 1 .. m, j \in 1 .. n : Precedes(s[i], t[j])
  <2>1. \A i, j \in 1 .. m : i < j => Precedes(s[i], s[j])
    BY <1>2, <1>5 DEF Ordered
  <2>2. ASSUME NEW i \in 1 .. n, NEW j \in 1 .. n, i < j
        PROVE  Precedes(t[i], t[j])
    <3>1. m + i < m + j
      BY <1>1, <2>2
    <3> QED
      BY <1>3, <1>5, <3>1 DEF Ordered
  <2>3. ASSUME NEW i \in 1 .. m, NEW j \in 1 .. n
        PROVE  Precedes(s[i], t[j])
    <3>1. i < m + j
      BY <1>1
    <3> QED
      BY <1>2, <1>3, <1>5, <3>1 DEF Ordered
  <2> QED
    BY <2>1, <2>2, <2>3
<1>6. ASSUME \A i, j \in 1 .. m : i < j => Precedes(s[i], s[j]),
             \A i, j \in 1 .. n : i < j => Precedes(t[i], t[j]),
             \A i \in 1 .. m, j \in 1 .. n : Precedes(s[i], t[j])
      PROVE  Ordered(u)
  <2> SUFFICES ASSUME NEW i \in 1 .. Len(u), NEW j \in 1 .. Len(u), i < j
               PROVE  Precedes(u[i], u[j])
    BY DEF Ordered
  <2>1. CASE j <= m
    <3>1. i \in 1 .. m /\ j \in 1 .. m
      BY <1>1, <2>1
    <3> QED
      BY <1>2, <1>6, <3>1
  <2>2. CASE i <= m /\ j > m
    <3>1. i \in 1 .. m
      BY <1>1, <2>2
    <3> QED
      BY <1>2, <1>4, <1>6, <2>2, <3>1
  <2>3. CASE i > m
    <3>1. j > m /\ i - m < j - m
      BY <1>1, <2>3
    <3> QED
      BY <1>4, <1>6, <2>3, <3>1
  <2> QED
    BY <1>1, <2>1, <2>2, <2>3
<1>7. (\A f, e : In(f, s) /\ In(e, t) => Precedes(f, e))
        <=> \A i \in 1 .. m, j \in 1 .. n : Precedes(s[i], t[j])
  BY DEF In, m, n
<1> QED
  BY <1>5, <1>6, <1>7 DEF Ordered, u, m, n

\* The order of a sequence with one more.
LEMMA OrderedAppend ==
  ASSUME NEW S, NEW s \in Seq(S), NEW d \in S
  PROVE  Ordered(Append(s, d)) <=> Ordered(s) /\ \A f : In(f, s) => Precedes(f, d)
<1>1. Append(s, d) = s \o <<d>> /\ <<d>> \in Seq(S)
  BY AppendIsConcat
<1>2. Ordered(<<d>>) /\ \A e : In(e, <<d>>) <=> e = d
  BY DEF Ordered, In
<1>3. Ordered(s \o <<d>>) <=>
        /\ Ordered(s) /\ Ordered(<<d>>)
        /\ \A f, e : In(f, s) /\ In(e, <<d>>) => Precedes(f, e)
  BY <1>1, OrderedConcat
<1> QED
  BY <1>1, <1>2, <1>3

\* A selection keeps the order.
LEMMA OnlyOrdered ==
  ASSUME NEW S, NEW s \in Seq(S), NEW T, Ordered(s)
  PROVE  Ordered(Only(s, T))
<1> DEFINE P == {t \in Seq(S) : Ordered(t) => Ordered(Only(t, T))}
<1>1. << >> \in P
  <2>1. Ordered(<< >>) /\ << >> \in Seq(S)
    BY EmptySeq DEF Ordered
  <2> QED
    BY <2>1, OnlyEmpty
<1>2. ASSUME NEW t \in P, NEW d \in S
      PROVE  Append(t, d) \in P
  <2>1. t \in Seq(S) /\ (Ordered(t) => Ordered(Only(t, T)))
    OBVIOUS
  <2>2. Append(t, d) \in Seq(S) /\ Only(t, T) \in Seq(S)
    BY <2>1, AppendProperties, OnlyType
  <2>3. Only(Append(t, d), T) = IF d \in T THEN Append(Only(t, T), d) ELSE Only(t, T)
    BY <2>1, OnlyAppend
  <2>4. \A f : In(f, Only(t, T)) => In(f, t)
    BY <2>1, OnlyIn
  <2>5. /\ Ordered(Append(t, d)) <=> Ordered(t) /\ \A f : In(f, t) => Precedes(f, d)
        /\ Ordered(Append(Only(t, T), d)) <=>
             Ordered(Only(t, T)) /\ \A f : In(f, Only(t, T)) => Precedes(f, d)
    BY <2>1, <2>2, OrderedAppend
  <2>6. Ordered(Append(t, d)) => Ordered(Only(Append(t, d), T))
    BY <2>1, <2>3, <2>4, <2>5
  <2> QED
    BY <2>2, <2>6
<1>3. P = Seq(S)
  <2> HIDE DEF P
  <2>1. P \in SUBSET Seq(S)
    BY DEF P
  <2> QED
    BY <1>1, <1>2, <2>1, UpFromEmpty
<1> QED
  BY <1>3

(* Types *)

\* Frames that are sent: a text frame carries a chunk.
Sent == {f \in Frames : f.kind = "text" => f.arg \in Nat}
Batches == Seq(Sent) \ {<< >>}

\* TypeOK, and what it rests on: only frames of Sent are buffered, stored and on
\* their way, and no batch is empty.
RowTypes ==
  /\ row \in RowStatus
  /\ rowText \in Seq(Nat)
  /\ generation \in Nat
  /\ checkpointed \in BOOLEAN
  /\ segments \in Seq(Batches)
BufferTypes ==
  /\ phase \in Phases
  /\ seq \in Nat
  /\ tail \in Seq(Sent)
  /\ inFlight \in Seq(Batches)
  /\ hasDone \in BOOLEAN
AttemptTypes ==
  /\ kept \in Seq(Nat)
  /\ spoken \in Seq(Nat)
  /\ resumed \in BOOLEAN
  /\ outcome \in [status : EndStatus, text : Seq(Nat)]
  /\ said \in Nat
ClientTypes ==
  /\ conn \in [Clients -> Connections]
  /\ found \in [Clients -> Records]
  /\ lastId \in [Clients -> Nat]
  /\ shown \in [Clients -> Seq(Nat)]
  /\ wire \in [Clients -> Seq(Sent)]
HistoryTypes ==
  /\ faults \in Nat
  /\ segmentLost \in BOOLEAN
  /\ renumbered \in BOOLEAN
TypeInv == RowTypes /\ BufferTypes /\ AttemptTypes /\ ClientTypes /\ HistoryTypes

\* The frames of Sent are frames, and a batch is a sequence of them.
LEMMA SentTypes ==
  /\ Sent \subseteq Frames
  /\ \A f \in Sent : /\ f.seq \in Nat /\ f.arg \in Nat \cup {Fresh}
                     /\ f.kind \in {"run", "text", "note", "done", "trailer"}
                     /\ f.kind = "text" => f.arg \in Nat
  /\ Seq(Sent) \subseteq Seq(Frames)
  /\ Seq(Batches) \subseteq Seq(Seq(Sent))
  /\ Seq(Seq(Sent)) \subseteq Seq(Seq(Frames))
<1>1. Sent \subseteq Frames /\ \A f \in Sent : f.kind = "text" => f.arg \in Nat
  BY DEF Sent
<1>2. \A f \in Frames : /\ f.seq \in Nat /\ f.arg \in Nat \cup {Fresh}
                        /\ f.kind \in {"run", "text", "note", "done", "trailer"}
  BY DEF Frames
<1>3. Seq(Sent) \subseteq Seq(Frames)
  BY <1>1, SeqMonotonic
<1>4. Seq(Batches) \subseteq Seq(Seq(Sent))
  <2>1. Batches \subseteq Seq(Sent)
    BY DEF Batches
  <2> QED
    BY <2>1, SeqMonotonic
<1>5. Seq(Seq(Sent)) \subseteq Seq(Seq(Frames))
  BY <1>3, SeqMonotonic
<1> QED
  BY <1>1, <1>2, <1>3, <1>4, <1>5

\* TypeInv says more than TypeOK.
LEMMA TypesSuffice == TypeInv => TypeOK
<1> SUFFICES ASSUME TypeInv PROVE TypeOK
  OBVIOUS
<1>1. segments \in Seq(Seq(Frames)) /\ inFlight \in Seq(Seq(Frames))
  BY SentTypes DEF TypeInv, RowTypes, BufferTypes
<1>2. tail \in Seq(Frames) /\ wire \in [Clients -> Seq(Frames)]
  BY SentTypes DEF TypeInv, BufferTypes, ClientTypes
<1> QED
  BY <1>1, <1>2 DEF TypeInv, TypeOK, RowTypes, BufferTypes, AttemptTypes, ClientTypes,
     HistoryTypes

\* A frame is of Sent when its parts are.
LEMMA FrameType ==
  ASSUME NEW n \in Nat, NEW kind \in {"run", "text", "note", "done", "trailer"},
         NEW arg \in Nat \cup {Fresh}, kind = "text" => arg \in Nat
  PROVE  Frame(n, kind, arg) \in Sent
BY DEF Frame, Sent, Frames

\* The texts of frames that are sent are chunks.
LEMMA TextOfType ==
  ASSUME NEW s \in Seq(Sent)
  PROVE  TextOf(s) \in Seq(Nat)
<1> DEFINE T == {f \in Frames : f.kind = "text"}
           t == Only(s, T)
<1>1. t \in Seq(Sent)
  BY OnlyType
<1>2. \A i \in 1 .. Len(t) : t[i] \in Sent /\ t[i] \in T
  <2> SUFFICES ASSUME NEW i \in 1 .. Len(t)
               PROVE  t[i] \in Sent /\ t[i] \in T
    OBVIOUS
  <2>1. In(t[i], t)
    BY DEF In
  <2> HIDE DEF T
  <2>2. t[i] \in T
    BY <2>1, OnlyIn
  <2> QED
    BY <1>1, <2>2, ElementOfSeq
<1>3. \A i \in 1 .. Len(t) : t[i].arg \in Nat
  BY <1>2, SentTypes
<1>4. TextOf(s) = [i \in 1 .. Len(t) |-> t[i].arg]
  BY DEF TextOf
<1> HIDE DEF t
<1>5. Len(t) \in Nat
  BY <1>1, LenProperties
<1> QED
  BY <1>3, <1>4, <1>5

\* The frames that are stored, and that are in the buffer.
LEMMA StoredType ==
  ASSUME TypeInv
  PROVE  /\ Stored \in Seq(Sent)
         /\ Joined(inFlight) \in Seq(Sent)
         /\ Joined(inFlight) \o tail \in Seq(Sent)
         /\ segments # << >> => Stored # << >>
<1>1. segments \in Seq(Seq(Sent)) /\ inFlight \in Seq(Seq(Sent)) /\ tail \in Seq(Sent)
  BY SentTypes DEF TypeInv, RowTypes, BufferTypes
<1>2. Stored \in Seq(Sent) /\ Joined(inFlight) \in Seq(Sent)
  BY <1>1, JoinedType DEF Stored
<1>3. Joined(inFlight) \o tail \in Seq(Sent)
  BY <1>1, <1>2, ConcatProperties
<1>4. ASSUME segments # << >>
      PROVE  Stored # << >>
  <2>1. Len(segments) \in Nat \ {0} /\ segments \in Seq(Batches)
    BY <1>1, <1>4, EmptySeq DEF TypeInv, RowTypes
  <2>2. segments[1] \in Batches /\ In(segments[1], segments)
    BY <2>1, ElementOfSeq DEF In
  <2>3. segments[1] \in Seq(Sent) /\ Len(segments[1]) \in Nat \ {0}
    BY <2>2, EmptySeq DEF Batches
  <2> DEFINE e == segments[1][1]
  <2>4. In(e, segments[1])
    BY <2>3 DEF In
  <2> HIDE DEF e
  <2>5. In(e, Stored)
    BY <1>1, <2>2, <2>4, InJoined DEF Stored
  <2> QED
    BY <2>5, EmptySeq DEF In
<1> QED
  BY <1>2, <1>3, <1>4

\* What a frame makes of a shown text is a text.
LEMMA ShowsType ==
  ASSUME NEW text \in Seq(Nat), NEW f \in Sent
  PROVE  Shows(text, f) \in Seq(Nat)
<1>1. f.kind = "text" => f.arg \in Nat
  BY SentTypes
<1>2. f.kind = "run" /\ f.arg # Fresh => f.arg \in Nat
  BY SentTypes
<1>3. CASE f.kind = "text"
  BY <1>1, <1>3, AppendProperties DEF Shows
<1>4. CASE f.kind = "run" /\ f.arg # Fresh
  <2> DEFINE m == Least(f.arg, Len(text))
  <2>1. m \in 0 .. Len(text)
    BY <1>2, <1>4, LenProperties DEF Least
  <2>2. \A i \in 1 .. m : text[i] \in Nat
    BY <2>1, ElementOfSeq, LenProperties
  <2>3. SubSeq(text, 1, m) \in Seq(Nat)
    <3> HIDE DEF m
    <3>1. m \in Int
      BY <2>1
    <3> QED
      BY <2>2, <3>1, SubSeqProperties
  <2> QED
    BY <1>4, <2>3 DEF Shows
<1>5. CASE f.kind # "text" /\ ~(f.kind = "run" /\ f.arg # Fresh)
  BY <1>5 DEF Shows
<1> QED
  BY <1>3, <1>4, <1>5

\* The last element of a sequence.
LEMMA LastIsIn ==
  ASSUME NEW S, NEW s \in Seq(S), s # << >>
  PROVE  LastOf(s) \in S /\ In(LastOf(s), s)
BY EmptySeq, ElementOfSeq DEF LastOf, In

\* The number a recovered attempt starts from.
LEMMA StartSeqType ==
  ASSUME TypeInv
  PROVE  StartSeq \in Nat
<1>1. generation + 1 \in Nat /\ AttemptBase(generation + 1) \in Nat
  BY StreamAssumption DEF TypeInv, RowTypes, AttemptBase
<1>2. segments # << >> => LastOf(Stored).seq \in Nat
  BY StoredType, LastIsIn, SentTypes
<1> QED
  BY <1>1, <1>2 DEF StartSeq, Larger

\* A run starts with its types.
LEMMA InitTypes == Init => TypeInv
<1> SUFFICES ASSUME Init PROVE TypeInv
  OBVIOUS
<1>1. /\ << >> \in Seq(Nat) /\ << >> \in Seq(Batches) /\ << >> \in Seq(Sent)
      /\ Frame(1, "note", Fresh) \in Sent /\ <<Frame(1, "note", Fresh)>> \in Seq(Sent)
  <2>1. Frame(1, "note", Fresh) \in Sent
    BY DEF Frame, Sent, Frames
  <2> QED
    BY <2>1, EmptySeq
<1>2. RowTypes
  BY <1>1 DEF Init, RowTypes, RowStatus
<1>3. BufferTypes
  <2>1. tail \in Seq(Sent)
    BY <1>1 DEF Init
  <2>2. phase \in Phases /\ seq \in Nat
    BY DEF Init, Phases, LivePhases
  <2>3. inFlight = << >> /\ hasDone = FALSE
    BY DEF Init
  <2> QED
    BY <1>1, <2>1, <2>2, <2>3 DEF BufferTypes
<1>4. AttemptTypes
  BY <1>1 DEF Init, AttemptTypes, EndStatus
<1>5. ClientTypes
  <2>1. tail \in Seq(Sent)
    BY <1>3 DEF BufferTypes
  <2>2. wire \in [Clients -> Seq(Sent)]
    BY <1>1, <2>1 DEF Init
  <2> QED
    BY <1>1, <2>2 DEF Init, ClientTypes, Connections, Records
<1>6. HistoryTypes
  BY DEF Init, HistoryTypes
<1> QED
  BY <1>2, <1>3, <1>4, <1>5, <1>6 DEF TypeInv

\* push: the buffer and the wires keep their types.
LEMMA PushTypes ==
  ASSUME TypeInv, NEW kind \in {"run", "text", "note", "done", "trailer"},
         NEW arg \in Nat \cup {Fresh}, kind = "text" => arg \in Nat,
         Push(kind, arg)
  PROVE  /\ seq' \in Nat /\ tail' \in Seq(Sent) /\ inFlight' \in Seq(Batches)
         /\ wire' \in [Clients -> Seq(Sent)]
<1> DEFINE f == Frame(seq + 1, kind, arg)
<1>1. seq + 1 \in Nat /\ tail \in Seq(Sent) /\ inFlight \in Seq(Batches)
      /\ wire \in [Clients -> Seq(Sent)]
  BY DEF TypeInv, BufferTypes, ClientTypes
<1>2. f \in Sent
  BY <1>1, FrameType
<1>3. Append(tail, f) \in Batches
  BY <1>1, <1>2, AppendProperties DEF Batches
<1>4. \A c \in Clients : Append(wire[c], f) \in Seq(Sent)
  BY <1>1, <1>2, AppendProperties
<1>5. /\ seq' = seq + 1
      /\ \/ tail' = << >> /\ inFlight' = Append(inFlight, Append(tail, f))
         \/ tail' = Append(tail, f) /\ inFlight' = inFlight
      /\ wire' = [c \in Clients |-> IF Subscribed(c) THEN Append(wire[c], f) ELSE wire[c]]
  BY DEF Push
<1> HIDE DEF f
<1>6. wire' \in [Clients -> Seq(Sent)]
  BY <1>1, <1>4, <1>5
<1>7. Append(inFlight, Append(tail, f)) \in Seq(Batches) /\ << >> \in Seq(Sent)
  BY <1>1, <1>3, AppendProperties, EmptySeq
<1>8. tail' \in Seq(Sent) /\ inFlight' \in Seq(Batches)
  BY <1>1, <1>3, <1>5, <1>7 DEF Batches
<1> QED
  BY <1>1, <1>5, <1>6, <1>8

\* The buffer keeps the types.
LEMMA BufferStepTypes ==
  ASSUME TypeInv, Flush \/ Pack \/ PackFails
  PROVE  TypeInv'
<1>1. /\ segments \in Seq(Batches) /\ inFlight \in Seq(Batches) /\ tail \in Seq(Sent)
      /\ << >> \in Seq(Sent)
  BY EmptySeq DEF TypeInv, RowTypes, BufferTypes
<1>2. CASE Flush
  <2>1. inFlight' \in Seq(Batches)
    <3>1. tail \in Batches
      BY <1>1, <1>2 DEF Flush, Batches
    <3> QED
      BY <1>1, <1>2, <3>1, AppendProperties DEF Flush
  <2> QED
    BY <1>1, <1>2, <2>1 DEF Flush, TypeInv, RowTypes, BufferTypes, AttemptTypes, ClientTypes,
       HistoryTypes, durable, attempt, client, history
<1>3. ASSUME inFlight # << >>, inFlight' = Tail(inFlight)
      PROVE  inFlight' \in Seq(Batches)
  BY <1>1, <1>3, HeadTailProperties
<1>4. CASE Pack
  <2> DEFINE batch  == Head(inFlight)
             Before == {other \in Seq(Frames) : other[1].seq < batch[1].seq}
             Behind == {other \in Seq(Frames) : other[1].seq > batch[1].seq}
             b == Only(segments, Before)
             d == Only(segments, Behind)
  <2>1. segments' = b \o <<batch>> \o d
    BY <1>4 DEF Pack
  <2>2. batch \in Batches
    BY <1>1, <1>4, HeadTailProperties DEF Pack
  <2>3. b \in Seq(Batches) /\ d \in Seq(Batches)
    <3> HIDE DEF Before, Behind
    <3> QED
      BY <1>1, OnlyType
  <2> HIDE DEF b, d, batch
  <2>4. <<batch>> \in Seq(Batches)
    BY <2>2
  <2>5. b \o <<batch>> \in Seq(Batches)
    BY <2>3, <2>4, ConcatProperties
  <2>6. segments' \in Seq(Batches)
    BY <2>1, <2>3, <2>5, ConcatProperties
  <2>7. inFlight' \in Seq(Batches)
    BY <1>3, <1>4 DEF Pack
  <2> QED
    BY <1>4, <2>6, <2>7 DEF Pack, PackFrame, TypeInv, RowTypes, BufferTypes, AttemptTypes,
       ClientTypes, HistoryTypes, client, attempt
<1>5. CASE PackFails
  <2>1. inFlight' \in Seq(Batches)
    BY <1>3, <1>5 DEF PackFails
  <2> QED
    BY <1>5, <2>1 DEF PackFails, PackFrame, Fault, TypeInv, RowTypes, BufferTypes, AttemptTypes,
       ClientTypes, HistoryTypes, client, attempt
<1> QED
  BY <1>2, <1>4, <1>5

\* The run keeps the types.
LEMMA RunStepTypes ==
  ASSUME TypeInv,
         Dequeue \/ Stream \/ Checkpoint \/ Say \/ Defer \/ Resume
           \/ \E status \in EndStatus : EndStream(status)
  PROVE  TypeInv'
<1>0. Fresh \in Nat \cup {Fresh} /\ << >> \in Seq(Nat)
  BY EmptySeq
<1>1. CASE Dequeue
  BY <1>1 DEF Dequeue, RunFrame, TypeInv, RowTypes, BufferTypes, AttemptTypes, ClientTypes,
     HistoryTypes, RowStatus, Phases, LivePhases, buffer, attempt, client, history
<1>2. CASE Checkpoint
  BY <1>2 DEF Checkpoint, RunFrame, TypeInv, RowTypes, BufferTypes, AttemptTypes, ClientTypes,
     HistoryTypes, buffer, attempt, client, history
<1>3. CASE Defer
  BY <1>3 DEF Defer, Fault, RunFrame, TypeInv, RowTypes, BufferTypes, AttemptTypes, ClientTypes,
     HistoryTypes, RowStatus, Phases, LivePhases, buffer, attempt, client, history
<1>4. CASE Stream
  <2>1. /\ seq' \in Nat /\ tail' \in Seq(Sent) /\ inFlight' \in Seq(Batches)
        /\ wire' \in [Clients -> Seq(Sent)]
    <3>1. CASE resumed
      BY <1>4, <3>1 DEF Stream, TypeInv, BufferTypes, ClientTypes
    <3>2. CASE ~resumed
      <4>1. Push("run", Fresh)
        BY <1>4, <3>2 DEF Stream
      <4> QED
        BY <1>0, <4>1, PushTypes
    <3> QED
      BY <3>1, <3>2
  <2> QED
    BY <1>4, <2>1 DEF Stream, RunFrame, TypeInv, RowTypes, BufferTypes, AttemptTypes,
       ClientTypes, HistoryTypes, Phases, LivePhases, attempt, client, history
<1>5. CASE Say
  <2>1. said \in Nat /\ spoken \in Seq(Nat)
    BY DEF TypeInv, AttemptTypes
  <2>2. /\ seq' \in Nat /\ tail' \in Seq(Sent) /\ inFlight' \in Seq(Batches)
        /\ wire' \in [Clients -> Seq(Sent)]
    <3>1. Push("text", said)
      BY <1>5 DEF Say
    <3> QED
      BY <2>1, <3>1, PushTypes
  <2>3. spoken' \in Seq(Nat) /\ said' \in Nat
    BY <1>5, <2>1, AppendProperties DEF Say
  <2> QED
    BY <1>5, <2>2, <2>3 DEF Say, RunFrame, TypeInv, RowTypes, BufferTypes, AttemptTypes,
       ClientTypes, HistoryTypes, client, history
<1>6. CASE Resume
  <2>1. /\ seq' \in Nat /\ tail' \in Seq(Sent) /\ inFlight' \in Seq(Batches)
        /\ wire' \in [Clients -> Seq(Sent)] /\ kept' \in Seq(Nat)
    <3>1. CASE ~checkpointed
      BY <1>0, <1>6, <3>1 DEF Resume, TypeInv, BufferTypes, ClientTypes
    <3>2. CASE checkpointed
      <4>1. Push("run", Len(kept)) /\ kept' = kept
        BY <1>6, <3>2 DEF Resume
      <4>2. Len(kept) \in Nat /\ kept \in Seq(Nat)
        BY LenProperties DEF TypeInv, AttemptTypes
      <4> QED
        BY <4>1, <4>2, PushTypes
    <3> QED
      BY <3>1, <3>2
  <2> QED
    BY <1>6, <2>1 DEF Resume, RunFrame, TypeInv, RowTypes, BufferTypes, AttemptTypes,
       ClientTypes, HistoryTypes, RowStatus, Phases, LivePhases, client, history
<1>7. ASSUME NEW status \in EndStatus, EndStream(status)
      PROVE  TypeInv'
  <2>1. /\ seq' \in Nat /\ tail' \in Seq(Sent) /\ inFlight' \in Seq(Batches)
        /\ wire' \in [Clients -> Seq(Sent)]
    <3>1. Push("done", Fresh)
      BY <1>7 DEF EndStream
    <3> QED
      BY <1>0, <3>1, PushTypes
  <2>2. outcome' \in [status : EndStatus, text : Seq(Nat)]
    <3>1. kept \o spoken \in Seq(Nat)
      BY ConcatProperties DEF TypeInv, AttemptTypes
    <3> QED
      BY <1>7, <3>1 DEF EndStream
  <2> QED
    BY <1>7, <2>1, <2>2 DEF EndStream, RunFrame, TypeInv, RowTypes, BufferTypes, AttemptTypes,
       ClientTypes, HistoryTypes, Phases, LivePhases, client, history
<1> QED
  BY <1>1, <1>2, <1>3, <1>4, <1>5, <1>6, <1>7

\* The end of a run keeps the types.
LEMMA EndStepTypes ==
  ASSUME TypeInv, StopWaiting \/ AttemptFails \/ AttemptEnds \/ CloseRow \/ CloseFails
  PROVE  TypeInv'
<1>1. ASSUME NEW status \in EndStatus, NEW text \in Seq(Nat), Finalize(status, text)
      PROVE  TypeInv'
  <2> DEFINE done == Frame(seq + 1, "done", Fresh)
             last == IF hasDone THEN tail ELSE Append(tail, done)
  <2>1. seq + 1 \in Nat /\ seq \in Nat /\ tail \in Seq(Sent) /\ inFlight \in Seq(Batches)
        /\ wire \in [Clients -> Seq(Sent)] /\ << >> \in Seq(Sent)
    BY EmptySeq DEF TypeInv, BufferTypes, ClientTypes
  <2>2. done \in Sent
    BY <2>1 DEF Frame, Sent, Frames
  <2>3. last \in Seq(Sent)
    BY <2>1, <2>2, AppendProperties
  <2>4. /\ phase' = "closing" /\ outcome' = [status |-> status, text |-> text]
        /\ hasDone' = TRUE
        /\ seq' = IF hasDone THEN seq ELSE seq + 1
        /\ inFlight' = IF last = << >> THEN inFlight ELSE Append(inFlight, last)
        /\ tail' = << >>
        /\ wire' = [c \in Clients |-> IF Subscribed(c) /\ ~hasDone
                                        THEN Append(wire[c], done) ELSE wire[c]]
        /\ UNCHANGED <<durable, kept, spoken, resumed, said, client, faults, history>>
    BY <1>1 DEF Finalize
  <2> HIDE DEF done, last
  <2>5. wire' \in [Clients -> Seq(Sent)]
    <3>1. \A c \in Clients : wire[c] \in Seq(Sent) /\ Append(wire[c], done) \in Seq(Sent)
      BY <2>1, <2>2, AppendProperties
    <3> QED
      BY <2>4, <3>1
  <2>6. inFlight' \in Seq(Batches)
    <3>1. last # << >> => last \in Batches
      BY <2>3 DEF Batches
    <3> QED
      BY <2>1, <2>4, <3>1, AppendProperties
  <2> QED
    BY <2>1, <2>4, <2>5, <2>6 DEF TypeInv, RowTypes, BufferTypes, AttemptTypes, ClientTypes,
       HistoryTypes, Phases, LivePhases, durable, client, history
<1>2. kept \in Seq(Nat) /\ outcome.status \in EndStatus /\ outcome.text \in Seq(Nat)
      /\ "early" \in EndStatus /\ << >> \in Seq(Nat) /\ << >> \in Seq(Batches)
      /\ EndStatus \subseteq RowStatus
  BY EmptySeq DEF TypeInv, AttemptTypes, EndStatus, RowStatus
<1>3. CASE StopWaiting \/ AttemptFails \/ AttemptEnds
  BY <1>1, <1>2, <1>3 DEF StopWaiting, AttemptFails, AttemptEnds
<1>4. CASE CloseRow
  <2>1. rowText' \in Seq(Nat)
    <3>1. TextOf(Stored) \in Seq(Nat)
      BY StoredType, TextOfType
    <3> QED
      BY <1>2, <1>4, <3>1 DEF CloseRow
  <2> QED
    BY <1>2, <1>4, <2>1 DEF CloseRow, CloseFrame, TypeInv, RowTypes, BufferTypes, AttemptTypes,
       ClientTypes, HistoryTypes, Phases, buffer, attempt, client, history
<1>5. CASE CloseFails
  BY <1>5 DEF CloseFails, CloseFrame, Fault, TypeInv, RowTypes, BufferTypes, AttemptTypes,
     ClientTypes, HistoryTypes, Phases, buffer, attempt, client, history
<1> QED
  BY <1>3, <1>4, <1>5

\* The clients keep the types.
LEMMA ClientStepTypes ==
  ASSUME TypeInv, NEW c \in Clients, ClientStep(c) \/ Drop(c)
  PROVE  TypeInv'
<1>1. /\ conn \in [Clients -> Connections] /\ found \in [Clients -> Records]
      /\ lastId \in [Clients -> Nat] /\ shown \in [Clients -> Seq(Nat)]
      /\ wire \in [Clients -> Seq(Sent)] /\ rowText \in Seq(Nat)
      /\ tail \in Seq(Sent) /\ << >> \in Seq(Sent)
  BY EmptySeq DEF TypeInv, RowTypes, BufferTypes, ClientTypes
<1>2. {"away", "joining", "held", "attached", "ended"} = Connections
      /\ "live" \in Records /\ RecordNow \in Records
  BY DEF Connections, Records, RecordNow
<1>3. ASSUME ClientTypes', UNCHANGED <<durable, phase, buffer, attempt, history>>,
             faults' \in Nat
      PROVE  TypeInv'
  BY <1>3 DEF TypeInv, RowTypes, BufferTypes, AttemptTypes, HistoryTypes, durable, buffer,
     attempt, history
<1>4. faults \in Nat
  BY DEF TypeInv, HistoryTypes
<1>5. CASE Receive(c)
  <2> DEFINE f == Head(wire[c])
  <2>1. wire[c] \in Seq(Sent) /\ wire[c] # << >>
    BY <1>1, <1>5 DEF Receive
  <2>2. f \in Sent /\ Tail(wire[c]) \in Seq(Sent) /\ f.seq \in Nat
    BY <2>1, HeadTailProperties, SentTypes
  <2>3. lastId[c] \in Nat /\ Larger(lastId[c], f.seq) \in Nat
    BY <1>1, <2>2 DEF Larger
  <2>4. shown[c] \in Seq(Nat) /\ Shows(shown[c], f) \in Seq(Nat)
    BY <1>1, <2>2, ShowsType
  <2>5. CASE Skipped(lastId[c], f)
    <3>1. wire' = [wire EXCEPT ![c] = Tail(@)] /\ UNCHANGED client
      BY <1>5, <2>5 DEF Receive
    <3>2. ClientTypes'
      BY <1>1, <2>2, <3>1 DEF ClientTypes, client
    <3> QED
      BY <1>3, <1>4, <1>5, <3>2 DEF Receive
  <2>6. CASE ~Skipped(lastId[c], f)
    <3> DEFINE over == f.kind \in {"done", "trailer"}
    <3>1. /\ conn' = [conn EXCEPT ![c] = IF over THEN "ended" ELSE @]
          /\ wire' = [wire EXCEPT ![c] = IF over THEN << >> ELSE Tail(@)]
          /\ lastId' = [lastId EXCEPT ![c] = Larger(@, f.seq)]
          /\ shown' = [shown EXCEPT ![c] = IF Replaced(c, f) THEN rowText ELSE Shows(@, f)]
          /\ UNCHANGED found
      BY <1>5, <2>6 DEF Receive
    <3>2. ClientTypes'
      <4> HIDE DEF f
      <4>1. conn' \in [Clients -> Connections] /\ found' \in [Clients -> Records]
        BY <1>1, <1>2, <3>1
      <4>2. lastId' \in [Clients -> Nat]
        BY <1>1, <2>3, <3>1
      <4>3. shown' \in [Clients -> Seq(Nat)]
        BY <1>1, <2>4, <3>1
      <4>4. wire' \in [Clients -> Seq(Sent)]
        BY <1>1, <2>2, <3>1
      <4> QED
        BY <4>1, <4>2, <4>3, <4>4 DEF ClientTypes
    <3> QED
      BY <1>3, <1>4, <1>5, <3>2 DEF Receive
  <2> QED
    BY <2>5, <2>6
<1>6. CASE Join(c)
  <2>1. ClientTypes'
    BY <1>1, <1>2, <1>6 DEF Join, JoinFrame, ClientTypes
  <2> QED
    BY <1>3, <1>4, <1>6, <2>1 DEF Join, JoinFrame
<1>7. CASE JoinEnds(c)
  <2>1. Trailer \in Sent
    BY DEF Trailer, Frame, Sent, Frames
  <2>2. wire[c] \in Seq(Sent) /\ Append(wire[c], Trailer) \in Seq(Sent)
    BY <1>1, <2>1, AppendProperties
  <2>3. ClientTypes'
    BY <1>1, <1>2, <1>7, <2>2 DEF JoinEnds, JoinFrame, ClientTypes
  <2> QED
    BY <1>3, <1>4, <1>7, <2>3 DEF JoinEnds, JoinFrame
<1>8. CASE Detached(c)
  <2>1. ClientTypes'
    BY <1>1, <1>2, <1>8 DEF Detached, JoinFrame, ClientTypes
  <2> QED
    BY <1>3, <1>4, <1>8, <2>1 DEF Detached, JoinFrame
<1>9. CASE Drop(c)
  <2>1. ClientTypes'
    BY <1>1, <1>2, <1>9 DEF Drop, ClientTypes
  <2> QED
    BY <1>3, <1>4, <1>9, <2>1 DEF Drop, Fault
<1>10. CASE JoinRead(c)
  <2> DEFINE replay == After(Stored, lastId[c])
             cursor == IF replay = << >> THEN lastId[c] ELSE LastOf(replay).seq
  <2>1. replay \in Seq(Sent) /\ TailAfter(cursor) \in Seq(Sent)
    BY StoredType, OnlyType DEF After, TailAfter
  <2>2. Append(replay, Trailer) \in Seq(Sent)
    <3>1. Trailer \in Sent
      BY DEF Trailer, Frame, Sent, Frames
    <3> QED
      BY <2>1, <3>1, AppendProperties
  <2>3. WithoutDone(replay) \in Seq(Sent)
    BY <2>1, OnlyType DEF WithoutDone
  <2>4. replay \o TailAfter(cursor) \in Seq(Sent)
    BY <2>1, ConcatProperties
  <2>5. /\ \E x \in Connections : conn' = [conn EXCEPT ![c] = x]
        /\ \/ wire' = [wire EXCEPT ![c] = replay \o TailAfter(cursor)]
           \/ wire' = [wire EXCEPT ![c] = Append(replay, Trailer)]
           \/ wire' = [wire EXCEPT ![c] = WithoutDone(replay)]
        /\ found' = found \/ found' = [found EXCEPT ![c] = "live"]
        /\ JoinFrame
    BY <1>2, <1>10 DEF JoinRead
  <2> HIDE DEF replay, cursor
  <2>6. wire' \in [Clients -> Seq(Sent)]
    BY <1>1, <2>2, <2>3, <2>4, <2>5
  <2>7. conn' \in [Clients -> Connections] /\ found' \in [Clients -> Records]
    BY <1>1, <1>2, <2>5
  <2>8. ClientTypes'
    BY <1>1, <2>5, <2>6, <2>7 DEF ClientTypes, JoinFrame
  <2> QED
    BY <1>3, <1>4, <2>5, <2>8 DEF JoinFrame
<1> QED
  BY <1>5, <1>6, <1>7, <1>8, <1>9, <1>10 DEF ClientStep

\* A reset and the recovery keep the types.
LEMMA ResetStepTypes ==
  ASSUME TypeInv, Crash \/ ReopenQueued \/ Recover \/ Interrupt
  PROVE  TypeInv'
<1>1. << >> \in Seq(Nat) /\ << >> \in Seq(Batches) /\ << >> \in Seq(Sent)
  BY EmptySeq
<1>2. StartSeq \in Nat /\ TextOf(Stored) \in Seq(Nat)
  BY StartSeqType, StoredType, TextOfType
<1>3. CASE Crash
  <2>1. ClientTypes'
    BY <1>1, <1>3 DEF Crash, TypeInv, ClientTypes, Connections, Records
  <2>2. RowTypes' /\ HistoryTypes'
    BY <1>3 DEF Crash, Fault, TypeInv, RowTypes, HistoryTypes, durable, history
  <2>3. BufferTypes'
    BY <1>1, <1>3 DEF Crash, BufferTypes, Phases
  <2>4. AttemptTypes'
    BY <1>1, <1>3 DEF Crash, TypeInv, AttemptTypes, EndStatus
  <2> QED
    BY <2>1, <2>2, <2>3, <2>4 DEF TypeInv
<1>4. CASE ReopenQueued
  BY <1>4 DEF ReopenQueued, BootFrame, TypeInv, RowTypes, BufferTypes, AttemptTypes,
     ClientTypes, HistoryTypes, Phases, LivePhases, client
<1>5. CASE Recover
  <2>1. kept' \in Seq(Nat)
    BY <1>1, <1>2, <1>5 DEF Recover
  <2> QED
    BY <1>2, <1>5, <2>1 DEF Recover, BootFrame, TypeInv, RowTypes, BufferTypes, AttemptTypes,
       ClientTypes, HistoryTypes, RowStatus, Phases, LivePhases, client
<1>6. CASE Interrupt
  <2>1. inFlight' \in Seq(Batches)
    <3> DEFINE f == Frame(StartSeq + 1, "done", Fresh)
    <3>1. f \in Sent
      BY <1>2 DEF Frame, Sent, Frames
    <3>2. inFlight' = << <<f>> >>
      BY <1>6 DEF Interrupt
    <3> HIDE DEF f
    <3>3. <<f>> \in Batches
      BY <3>1 DEF Batches
    <3> QED
      BY <3>2, <3>3
  <2>2. outcome' \in [status : EndStatus, text : Seq(Nat)]
    BY <1>2, <1>6 DEF Interrupt, EndStatus
  <2> QED
    BY <1>2, <1>6, <2>1, <2>2 DEF Interrupt, BootFrame, TypeInv, RowTypes, BufferTypes,
       AttemptTypes, ClientTypes, HistoryTypes, Phases, client
<1> QED
  BY <1>3, <1>4, <1>5, <1>6

\* TypeInv is inductive.
LEMMA TypesStep == TypeInv /\ [Next]_vars => TypeInv'
<1> SUFFICES ASSUME TypeInv, [Next]_vars PROVE TypeInv'
  OBVIOUS
<1>1. CASE Next
  BY <1>1, BufferStepTypes, RunStepTypes, EndStepTypes, ClientStepTypes, ResetStepTypes
     DEF Next, RunStep
<1>2. CASE UNCHANGED vars
  BY <1>2 DEF TypeInv, RowTypes, BufferTypes, AttemptTypes, ClientTypes, HistoryTypes, vars,
     durable, buffer, attempt, client, history
<1> QED
  BY <1>1, <1>2

\* The row, the buffer, the stored segments and the clients hold what their types
\* say, whatever is packed, lost and joined.
THEOREM StreamTyped == Spec => []TypeOK
<1> QED
  BY InitTypes, TypesStep, TypesSuffice, PTL DEF Spec

(* What a client shows of a log of frames *)

Texts == {f \in Frames : f.kind = "text"}
Lines(s) == Only(s, Texts)

\* A cut tells how much of the reply was kept; other frames change no text.
Cut(f) == f.kind = "run" /\ f.arg # Fresh
Visible(f) == f.kind = "text" \/ Cut(f)

\* A cut keeps the lines numbered below it.
CutFits(s, g) ==
  /\ g.arg \in 0 .. Len(Lines(s))
  /\ \A i \in 1 .. Len(Lines(s)) : i <= g.arg <=> Lines(s)[i].seq < g.seq

\* A log in order, whose visible frames have numbers of their own.
Well(s) ==
  /\ s \in Seq(Sent)
  /\ Ordered(s)
  /\ \A f : In(f, s) => f.seq >= 1 /\ (Visible(f) => f.seq >= 2)
  /\ \A g : In(g, s) /\ Cut(g) => CutFits(s, g)

\* k lines are numbered up to n.
Reads(s, k, n) ==
  k \in 0 .. Len(Lines(s)) /\ \A i \in 1 .. Len(Lines(s)) : i <= k <=> Lines(s)[i].seq <= n

\* x starts with the first k lines.
StartsWith(s, k, x) == k <= Len(x) /\ \A i \in 1 .. k : x[i] = Lines(s)[i].arg

\* The next visible frame after n is a cut.
CutNext(s, k, n) ==
  \E g : /\ In(g, s) /\ Cut(g) /\ g.seq > n
         /\ \A i \in 1 .. Len(Lines(s)) : i > k => Lines(s)[i].seq > g.seq

\* A client at cursor n shows the lines up to n, and more only while a cut that
\* takes the rest away is next, or is to come when no line is left to read.
Follows(s, tocome, n, x) ==
  \E k \in Nat : /\ Reads(s, k, n)
                 /\ StartsWith(s, k, x)
                 /\ \/ Len(x) = k
                    \/ tocome /\ k = Len(Lines(s))
                    \/ CutNext(s, k, n)

\* The frames of w after the first i: the visible ones above n are logged, and
\* none of the log is missing between n and any of them.
Complete(s, n, w, i) ==
  \A j \in i + 1 .. Len(w) :
    /\ Visible(w[j]) /\ w[j].seq > n => In(w[j], s)
    /\ \A v : In(v, s) /\ Visible(v) /\ n < v.seq /\ v.seq <= w[j].seq =>
         \E l \in i + 1 .. j : w[l] = v

\* Nor above them.
Full(s, n, w, i) ==
  \A v : In(v, s) /\ Visible(v) /\ n < v.seq => \E l \in i + 1 .. Len(w) : w[l] = v

\* What a frame makes of the cursor and of the text.
NextId(n, f)   == IF Skipped(n, f) THEN n ELSE Larger(n, f.seq)
NextText(n, x, f) == IF Skipped(n, f) THEN x ELSE Shows(x, f)

-----------------------------------------------------------------------------

\* The lines are the text frames.
LEMMA LinesAre ==
  ASSUME NEW s \in Seq(Sent)
  PROVE  /\ Lines(s) \in Seq(Sent) /\ Len(Lines(s)) \in Nat
         /\ \A i \in 1 .. Len(Lines(s)) :
              /\ In(Lines(s)[i], s) /\ Lines(s)[i] \in Sent /\ Visible(Lines(s)[i])
              /\ Lines(s)[i].kind = "text" /\ Lines(s)[i].seq \in Nat
              /\ Lines(s)[i].arg \in Nat
         /\ \A f : In(f, s) /\ f.kind = "text" =>
              \E i \in 1 .. Len(Lines(s)) : Lines(s)[i] = f
<1> DEFINE K == Lines(s)
<1>1. K \in Seq(Sent)
  BY OnlyType DEF Lines
<1>2. \A e : In(e, K) <=> In(e, s) /\ e \in Texts
  BY OnlyIn DEF Lines
<1> HIDE DEF K
<1>3. ASSUME NEW i \in 1 .. Len(K)
      PROVE  /\ In(K[i], s) /\ K[i] \in Sent /\ Visible(K[i]) /\ K[i].kind = "text"
             /\ K[i].seq \in Nat /\ K[i].arg \in Nat
  <2>1. In(K[i], K)
    BY DEF In
  <2>2. In(K[i], s) /\ K[i].kind = "text"
    BY <1>2, <2>1 DEF Texts
  <2>3. K[i] \in Sent
    BY <1>1, ElementOfSeq
  <2> QED
    BY <2>2, <2>3, SentTypes DEF Visible
<1>4. ASSUME NEW f, In(f, s), f.kind = "text"
      PROVE  \E i \in 1 .. Len(K) : K[i] = f
  <2>1. f \in Sent
    BY <1>4, InType
  <2>2. f \in Texts
    BY <1>4, <2>1, SentTypes DEF Texts
  <2>3. In(f, K)
    BY <1>2, <1>4, <2>2
  <2> QED
    BY <2>3 DEF In
<1>5. Len(K) \in Nat
  BY <1>1, LenProperties
<1> QED
  BY <1>1, <1>3, <1>4, <1>5 DEF K

\* The numbers of the lines rise.
LEMMA LinesRise ==
  ASSUME NEW s, Well(s),
         NEW i \in 1 .. Len(Lines(s)), NEW j \in 1 .. Len(Lines(s)), i < j
  PROVE  Lines(s)[i].seq < Lines(s)[j].seq
<1>1. s \in Seq(Sent) /\ Ordered(s)
  BY DEF Well
<1>2. Ordered(Lines(s))
  BY <1>1, OnlyOrdered DEF Lines
<1>3. Precedes(Lines(s)[i], Lines(s)[j])
  BY <1>2 DEF Ordered
<1>4. Lines(s)[i].seq >= 2
  BY <1>1, LinesAre DEF Well
<1> QED
  BY <1>3, <1>4 DEF Precedes

\* Reading one more frame of the wire.
LEMMA ReadStep ==
  ASSUME NEW s, Well(s), NEW tocome, NEW n \in Nat, NEW x \in Seq(Nat),
         NEW w \in Seq(Sent), NEW i \in Nat, i < Len(w),
         Follows(s, tocome, n, x), Complete(s, n, w, i)
  PROVE  /\ NextId(n, w[i + 1]) \in Nat /\ NextText(n, x, w[i + 1]) \in Seq(Nat)
         /\ Follows(s, tocome, NextId(n, w[i + 1]), NextText(n, x, w[i + 1]))
         /\ Complete(s, NextId(n, w[i + 1]), w, i + 1)
         /\ Full(s, n, w, i) => Full(s, NextId(n, w[i + 1]), w, i + 1)
<1> DEFINE f == w[i + 1]
           K == Lines(s)
           m == NextId(n, f)
           y == NextText(n, x, f)
<1>1. Len(w) \in Nat /\ i + 1 \in 1 .. Len(w) /\ f \in Sent /\ s \in Seq(Sent)
  BY LenProperties, ElementOfSeq DEF Well
<1>2. f.seq \in Nat /\ f.kind \in {"run", "text", "note", "done", "trailer"}
      /\ f.arg \in Nat \cup {Fresh} /\ (f.kind = "text" => f.arg \in Nat)
  BY <1>1, SentTypes
<1>3. m = (IF f.seq > n THEN f.seq ELSE n) /\ m \in Nat /\ m >= n
  BY <1>2 DEF NextId, Skipped, Larger
<1>4. y \in Seq(Nat)
  BY <1>1, ShowsType DEF NextText
<1>5. /\ Visible(f) /\ f.seq > n => In(f, s)
      /\ \A v : In(v, s) /\ Visible(v) /\ n < v.seq /\ v.seq <= f.seq => v = f
  <2>1. i + 1 \in i + 1 .. Len(w)
    BY <1>1
  <2>2. \A l \in i + 1 .. i + 1 : l = i + 1
    OBVIOUS
  <2> QED
    BY <2>1, <2>2 DEF Complete
<1>6. \A v : In(v, s) => v.seq \in Nat
  BY <1>1, InType, SentTypes
<1>7. Complete(s, m, w, i + 1)
  <2> SUFFICES ASSUME NEW j \in (i + 1) + 1 .. Len(w)
               PROVE  /\ Visible(w[j]) /\ w[j].seq > m => In(w[j], s)
                      /\ \A v : In(v, s) /\ Visible(v) /\ m < v.seq /\ v.seq <= w[j].seq =>
                           \E l \in (i + 1) + 1 .. j : w[l] = v
    BY DEF Complete
  <2>1. j \in i + 1 .. Len(w) /\ w[j] \in Sent /\ w[j].seq \in Nat
    BY <1>1, ElementOfSeq, SentTypes
  <2>2. Visible(w[j]) /\ w[j].seq > m => In(w[j], s)
    BY <1>3, <2>1 DEF Complete
  <2>3. ASSUME NEW v, In(v, s), Visible(v), m < v.seq, v.seq <= w[j].seq
        PROVE  \E l \in (i + 1) + 1 .. j : w[l] = v
    <3>1. n < v.seq
      BY <1>3, <1>6, <2>3
    <3>2. PICK l \in i + 1 .. j : w[l] = v
      BY <2>1, <2>3, <3>1 DEF Complete
    <3>3. l # i + 1
      BY <1>2, <1>3, <1>6, <2>3, <3>2
    <3>4. l \in (i + 1) + 1 .. j
      BY <3>3
    <3> QED
      BY <3>2, <3>4
  <2> QED
    BY <2>2, <2>3
<1>8. ASSUME Full(s, n, w, i)
      PROVE  Full(s, m, w, i + 1)
  <2> SUFFICES ASSUME NEW v, In(v, s), Visible(v), m < v.seq
               PROVE  \E l \in (i + 1) + 1 .. Len(w) : w[l] = v
    BY DEF Full
  <2>1. n < v.seq
    BY <1>3, <1>6
  <2>2. PICK l \in i + 1 .. Len(w) : w[l] = v
    BY <1>8, <2>1 DEF Full
  <2>3. l # i + 1
    BY <1>2, <1>3, <1>6, <2>2
  <2>4. l \in (i + 1) + 1 .. Len(w)
    BY <2>3
  <2> QED
    BY <2>2, <2>4
<1>9. Follows(s, tocome, m, y)
  <2>1. CASE f.seq <= n
    <3>1. m = n
      BY <1>2, <1>3, <2>1
    <3>2. y = x
      BY <1>2, <2>1 DEF NextText, Skipped, Shows
    <3> QED
      BY <3>1, <3>2
  <2>2. CASE f.seq > n
    <3>1. m = f.seq /\ y = Shows(x, f)
      BY <1>2, <1>3, <2>2 DEF NextText, Skipped
    <3>2. PICK k \in Nat : /\ Reads(s, k, n) /\ StartsWith(s, k, x)
                           /\ \/ Len(x) = k
                              \/ tocome /\ k = Len(K)
                              \/ CutNext(s, k, n)
      BY DEF Follows
    <3>3. /\ K \in Seq(Sent) /\ Len(K) \in Nat
          /\ \A l \in 1 .. Len(K) : /\ In(K[l], s) /\ Visible(K[l]) /\ K[l].kind = "text"
                                    /\ K[l].seq \in Nat /\ K[l].arg \in Nat
          /\ \A g : In(g, s) /\ g.kind = "text" => \E l \in 1 .. Len(K) : K[l] = g
      BY <1>1, LinesAre
    <3>4. /\ k \in 0 .. Len(K) /\ \A l \in 1 .. Len(K) : l <= k <=> K[l].seq <= n
      BY <3>2 DEF Reads
    <3>5. \A l, h \in 1 .. Len(K) : l < h => K[l].seq < K[h].seq
      BY LinesRise
    <3>6. Len(x) \in Nat /\ k <= Len(x) /\ \A l \in 1 .. k : x[l] = K[l].arg
      BY <3>2, LenProperties DEF StartsWith
    <3> HIDE DEF K, m, y, f
    \* A line between n and the frame is the frame.
    <3>7. \A l \in 1 .. Len(K) : l > k /\ K[l].seq <= f.seq => K[l] = f
      BY <1>5, <3>3, <3>4
    <3>8. CASE f.kind = "text"
      <4>1. In(f, s)
        BY <1>5, <2>2, <3>8 DEF Visible
      <4>2. PICK h \in 1 .. Len(K) : K[h] = f
        BY <3>3, <3>8, <4>1
      <4>3. h > k
        BY <1>2, <2>2, <3>4, <4>2
      <4>4. h = k + 1
        <5>1. ASSUME h # k + 1 PROVE FALSE
          <6>1. k + 1 \in 1 .. Len(K) /\ k + 1 < h /\ k + 1 > k
            BY <3>4, <4>3, <5>1
          <6>2. K[k + 1].seq < f.seq
            BY <3>5, <4>2, <6>1
          <6>3. K[k + 1] = f
            BY <1>2, <3>3, <3>7, <6>1, <6>2
          <6> QED
            BY <1>2, <6>2, <6>3
        <5> QED
          BY <5>1
      <4>5. Len(x) = k
        <5>1. ~(k = Len(K))
          BY <3>4, <4>2, <4>3
        <5>2. ~CutNext(s, k, n)
          <6> SUFFICES ASSUME NEW g, In(g, s), Cut(g), g.seq > n,
                              \A l \in 1 .. Len(K) : l > k => K[l].seq > g.seq
                       PROVE  FALSE
            BY DEF CutNext, K
          <6>1. g.seq < f.seq
            BY <4>2, <4>3
          <6>2. g = f
            BY <1>2, <1>5, <1>6, <6>1 DEF Visible
          <6> QED
            BY <1>2, <6>1, <6>2
        <5> QED
          BY <3>2, <5>1, <5>2
      <4>6. y = Append(x, f.arg)
        BY <3>1, <3>8 DEF Shows
      <4>7. Reads(s, k + 1, m)
        <5> SUFFICES ASSUME NEW l \in 1 .. Len(K)
                     PROVE  l <= k + 1 <=> K[l].seq <= f.seq
          BY <3>1, <3>4, <4>2, <4>4 DEF Reads, K
        <5>1. CASE l < k + 1
          BY <1>2, <3>3, <3>5, <4>2, <4>4, <5>1
        <5>2. CASE l = k + 1
          BY <1>2, <4>2, <4>4, <5>2
        <5>3. CASE l > k + 1
          <6>1. K[l].seq > f.seq
            BY <3>5, <4>2, <4>4, <5>3
          <6> QED
            BY <1>2, <3>3, <5>3, <6>1
        <5> QED
          BY <3>4, <5>1, <5>2, <5>3
      <4>8. Len(y) = k + 1 /\ \A l \in 1 .. k + 1 : y[l] = K[l].arg
        <5>1. /\ Len(y) = Len(x) + 1 /\ \A l \in 1 .. Len(x) : y[l] = x[l]
              /\ y[Len(x) + 1] = f.arg
          BY <1>2, <3>8, <4>6, AppendProperties
        <5> QED
          BY <3>4, <3>6, <4>2, <4>4, <4>5, <5>1
      <4>9. StartsWith(s, k + 1, y)
        BY <4>8 DEF StartsWith, K
      <4>10. k + 1 \in Nat /\ Len(y) = k + 1
        BY <4>8
      <4> QED
        BY <4>7, <4>9, <4>10 DEF Follows
    <3>9. CASE Cut(f)
      <4>1. In(f, s) /\ CutFits(s, f)
        BY <1>5, <2>2, <3>9 DEF Visible, Well
      <4>2. f.arg \in 0 .. Len(K) /\ \A l \in 1 .. Len(K) : l <= f.arg <=> K[l].seq < f.seq
        BY <4>1 DEF CutFits, K
      <4>3. \A l \in 1 .. Len(K) : K[l] # f
        BY <3>3, <3>9 DEF Cut
      <4>4. \A l \in 1 .. Len(K) : l <= k <=> K[l].seq <= f.seq
        BY <1>2, <2>2, <3>3, <3>4, <3>7, <4>3
      <4>5. f.arg = k
        <5>1. \A l \in 1 .. Len(K) : l <= k <=> l <= f.arg
          <6> SUFFICES ASSUME NEW l \in 1 .. Len(K)
                       PROVE  l <= k <=> l <= f.arg
            OBVIOUS
          <6>1. K[l].seq \in Nat /\ (l <= k <=> K[l].seq <= n)
            BY <3>3, <3>4
          <6>2. l <= k <=> K[l].seq <= f.seq
            BY <4>4
          <6>3. l <= f.arg <=> K[l].seq < f.seq
            BY <4>2
          <6> QED
            BY <1>2, <2>2, <6>1, <6>2, <6>3
        <5>2. CASE k < f.arg
          <6> DEFINE l == f.arg
          <6>1. l \in 1 .. Len(K) /\ ~(l <= k) /\ l <= l
            BY <3>3, <3>4, <4>2, <5>2
          <6>2. l <= k <=> l <= f.arg
            BY <5>1, <6>1
          <6> QED
            BY <6>1, <6>2
        <5>3. CASE f.arg < k
          <6>1. k \in 1 .. Len(K) /\ ~(k <= f.arg)
            BY <3>4, <4>2, <5>3
          <6> QED
            BY <5>1, <6>1
        <5> QED
          BY <3>4, <4>2, <5>2, <5>3
      <4>6. y = SubSeq(x, 1, k)
        BY <3>1, <3>6, <3>9, <4>5 DEF Shows, Least, Cut
      <4>7. Len(y) = k /\ \A l \in 1 .. k : y[l] = x[l]
        <5>1. \A l \in 1 .. k : x[l] \in Nat
          BY <3>6, ElementOfSeq
        <5> QED
          BY <4>6, <5>1, SubSeqProperties
      <4>8. Reads(s, k, m)
        BY <3>1, <3>4, <4>4 DEF Reads, K
      <4> QED
        BY <3>6, <4>7, <4>8 DEF Follows, StartsWith, K
    <3>10. CASE ~Visible(f)
      <4>1. y = x
        BY <3>1, <3>10 DEF Shows, Visible, Cut
      <4>2. \A l \in 1 .. Len(K) : K[l] # f
        BY <3>3, <3>10
      <4>3. Reads(s, k, m)
        BY <1>2, <2>2, <3>1, <3>3, <3>4, <3>7, <4>2 DEF Reads, K
      <4>4. CutNext(s, k, n) => CutNext(s, k, m)
        <5> SUFFICES ASSUME NEW g, In(g, s), Cut(g), g.seq > n,
                            \A l \in 1 .. Len(K) : l > k => K[l].seq > g.seq
                     PROVE  CutNext(s, k, m)
          BY DEF CutNext, K
        <5>1. g # f /\ Visible(g)
          BY <3>10 DEF Visible
        <5>2. g.seq > f.seq
          BY <1>2, <1>5, <1>6, <5>1
        <5> QED
          BY <3>1, <5>2 DEF CutNext, K
      <4> QED
        BY <3>2, <4>1, <4>3, <4>4 DEF Follows, K
    <3> QED
      BY <3>8, <3>9, <3>10 DEF Visible
  <2> QED
    BY <1>2, <2>1, <2>2
<1> QED
  BY <1>3, <1>4, <1>7, <1>8, <1>9

-----------------------------------------------------------------------------
(* How the log grows, and what a client makes of it *)

\* Logs with the same visible frames are followed alike.
LEMMA SameVisible ==
  ASSUME NEW s, NEW t, Lines(s) = Lines(t),
         \A v : Visible(v) => (In(v, s) <=> In(v, t)),
         NEW p, NEW n, NEW x, NEW w, NEW i
  PROVE  /\ Follows(s, p, n, x) => Follows(t, p, n, x)
         /\ Complete(s, n, w, i) => Complete(t, n, w, i)
         /\ Full(s, n, w, i) => Full(t, n, w, i)
<1>1. \A v : Cut(v) => (In(v, s) <=> In(v, t))
  BY DEF Visible
<1>2. \A k : /\ Reads(s, k, n) => Reads(t, k, n)
             /\ StartsWith(s, k, x) => StartsWith(t, k, x)
  BY DEF Reads, StartsWith
<1>3. \A k : CutNext(s, k, n) => CutNext(t, k, n)
  BY <1>1 DEF CutNext
<1>4. Follows(s, p, n, x) => Follows(t, p, n, x)
  BY <1>2, <1>3 DEF Follows
<1>5. Complete(s, n, w, i) => Complete(t, n, w, i)
  BY DEF Complete
<1>6. Full(s, n, w, i) => Full(t, n, w, i)
  BY DEF Full
<1> QED
  BY <1>4, <1>5, <1>6

\* A cut that is to come excuses more.
LEMMA FollowsWeaker ==
  ASSUME NEW s, NEW p, NEW q, p => q, NEW n, NEW x, Follows(s, p, n, x)
  PROVE  Follows(s, q, n, x)
BY DEF Follows

\* Who shows nothing of nothing follows.
LEMMA FollowsNothing ==
  ASSUME NEW s, Lines(s) = << >>, NEW p, NEW n
  PROVE  Follows(s, p, n, << >>)
<1>1. Reads(s, 0, n) /\ StartsWith(s, 0, << >>) /\ Len(<< >>) = 0
  BY EmptySeq DEF Reads, StartsWith
<1> QED
  BY <1>1 DEF Follows

\* One more frame at the end of a log.
LEMMA LogGrows ==
  ASSUME NEW s, Well(s), NEW f \in Sent,
         \A e : In(e, s) => Precedes(e, f),
         f.seq >= 1, Visible(f) => f.seq >= 2,
         Cut(f) => f.arg = Len(Lines(s))
  PROVE  /\ Well(Append(s, f))
         /\ Lines(Append(s, f)) = IF f.kind = "text" THEN Append(Lines(s), f) ELSE Lines(s)
         /\ \A v : In(v, Append(s, f)) <=> In(v, s) \/ v = f
<1> DEFINE t == Append(s, f)
           K == Lines(s)
<1>1. s \in Seq(Sent) /\ Ordered(s)
  BY DEF Well
<1>2. t \in Seq(Sent) /\ \A v : In(v, t) <=> In(v, s) \/ v = f
  BY <1>1, AppendProperties, InAppend
<1>3. f \in Texts <=> f.kind = "text"
  BY SentTypes DEF Texts
<1>4. Lines(t) = IF f.kind = "text" THEN Append(K, f) ELSE K
  BY <1>1, <1>3, OnlyAppend DEF Lines
<1>5. Ordered(t)
  BY <1>1, OrderedAppend
<1>6. \A v : In(v, t) => v.seq >= 1 /\ (Visible(v) => v.seq >= 2)
  BY <1>2 DEF Well
<1>7. /\ K \in Seq(Sent) /\ Len(K) \in Nat
      /\ \A l \in 1 .. Len(K) : In(K[l], s) /\ Visible(K[l]) /\ K[l].seq \in Nat
  BY <1>1, LinesAre
<1>8. \A e : In(e, s) /\ Visible(e) => e.seq < f.seq
  BY DEF Precedes, Well
<1> HIDE DEF t, K
<1>9. ASSUME NEW g, In(g, t), Cut(g)
      PROVE  CutFits(t, g)
  <2>1. CASE g # f
    <3>1. In(g, s) /\ g \in Sent
      BY <1>1, <1>2, <1>9, <2>1, InType
    <3>2. g.arg \in 0 .. Len(K) /\ \A l \in 1 .. Len(K) : l <= g.arg <=> K[l].seq < g.seq
      BY <1>9, <3>1 DEF Well, CutFits, K
    <3>3. g.seq < f.seq /\ g.seq \in Nat /\ f.seq \in Nat
      BY <1>8, <1>9, <3>1, SentTypes DEF Visible
    <3>4. CASE f.kind # "text"
      BY <1>4, <3>2, <3>4 DEF CutFits
    <3>5. CASE f.kind = "text"
      <4>1. /\ Lines(t) = Append(K, f) /\ Len(Append(K, f)) = Len(K) + 1
            /\ \A l \in 1 .. Len(K) : Append(K, f)[l] = K[l]
            /\ Append(K, f)[Len(K) + 1] = f
        BY <1>4, <1>7, <3>5, AppendProperties
      <4>2. g.arg \in 0 .. Len(K) + 1
        BY <1>7, <3>2
      <4>3. ASSUME NEW l \in 1 .. Len(K) + 1
            PROVE  l <= g.arg <=> Lines(t)[l].seq < g.seq
        <5>1. CASE l \in 1 .. Len(K)
          BY <3>2, <4>1, <5>1
        <5>2. CASE l = Len(K) + 1
          BY <1>7, <3>2, <3>3, <4>1, <5>2
        <5> QED
          BY <1>7, <5>1, <5>2
      <4> QED
        BY <4>1, <4>2, <4>3 DEF CutFits
    <3> QED
      BY <3>4, <3>5
  <2>2. CASE g = f
    <3>1. f.arg = Len(K) /\ Lines(t) = K
      BY <1>4, <1>9, <2>2 DEF Cut, K
    <3>2. \A l \in 1 .. Len(K) : l <= f.arg /\ K[l].seq < f.seq
      BY <1>7, <1>8, <3>1
    <3> QED
      BY <1>7, <2>2, <3>1, <3>2 DEF CutFits
  <2> QED
    BY <2>1, <2>2
<1> QED
  BY <1>2, <1>4, <1>5, <1>6, <1>9 DEF Well, t, K

\* Whoever follows the log follows it when a frame that shows nothing is added.
LEMMA FollowsBlank ==
  ASSUME NEW s, NEW f, ~Visible(f), Lines(Append(s, f)) = Lines(s),
         \A v : In(v, Append(s, f)) <=> In(v, s) \/ v = f,
         NEW p, NEW n, NEW x, NEW w, NEW i
  PROVE  /\ Follows(s, p, n, x) => Follows(Append(s, f), p, n, x)
         /\ Complete(s, n, w, i) => Complete(Append(s, f), n, w, i)
         /\ Full(s, n, w, i) => Full(Append(s, f), n, w, i)
<1>1. \A v : Visible(v) => (In(v, s) <=> In(v, Append(s, f)))
  OBVIOUS
<1> DEFINE t == Append(s, f)
<1>2. Lines(s) = Lines(t) /\ \A v : Visible(v) => (In(v, s) <=> In(v, t))
  BY <1>1
<1> HIDE DEF t
<1>3. /\ Follows(s, p, n, x) => Follows(t, p, n, x)
      /\ Complete(s, n, w, i) => Complete(t, n, w, i)
      /\ Full(s, n, w, i) => Full(t, n, w, i)
  BY <1>2, SameVisible
<1> QED
  BY <1>3 DEF t

\* A cut that was to come is logged.
LEMMA FollowsCut ==
  ASSUME NEW s, Well(s), NEW f \in Sent, Cut(f), Lines(Append(s, f)) = Lines(s),
         \A v : In(v, Append(s, f)) <=> In(v, s) \/ v = f,
         \A e : In(e, s) => Precedes(e, f),
         NEW p, NEW q, NEW n \in Nat, n < f.seq, NEW x, Follows(s, p, n, x)
  PROVE  Follows(Append(s, f), q, n, x)
<1> DEFINE t == Append(s, f)
           K == Lines(s)
<1>1. PICK k \in Nat : /\ Reads(s, k, n) /\ StartsWith(s, k, x)
                       /\ \/ Len(x) = k
                          \/ p /\ k = Len(K)
                          \/ CutNext(s, k, n)
  BY DEF Follows
<1>2. Reads(t, k, n) /\ StartsWith(t, k, x)
  BY <1>1 DEF Reads, StartsWith
<1>3. k = Len(K) => CutNext(t, k, n)
  <2> SUFFICES ASSUME k = Len(K) PROVE CutNext(t, k, n)
    OBVIOUS
  <2>1. \A l \in 1 .. Len(Lines(t)) : ~(l > k)
    BY <1>1 DEF Reads
  <2>2. In(f, t) /\ Cut(f) /\ f.seq > n
    BY SentTypes
  <2> QED
    BY <2>1, <2>2 DEF CutNext
<1>4. CutNext(s, k, n) => CutNext(t, k, n)
  BY DEF CutNext
<1> QED
  BY <1>1, <1>2, <1>3, <1>4 DEF Follows, t

\* A line is logged, and no cut was to come.
LEMMA FollowsText ==
  ASSUME NEW s, Well(s), NEW f \in Sent, f.kind = "text",
         Lines(Append(s, f)) = Append(Lines(s), f),
         \A v : In(v, Append(s, f)) <=> In(v, s) \/ v = f,
         \A e : In(e, s) => Precedes(e, f), f.seq >= 2,
         NEW p, ~p, NEW n \in Nat, n < f.seq, NEW x, Follows(s, p, n, x)
  PROVE  Follows(Append(s, f), p, n, x)
<1> DEFINE t == Append(s, f)
           K == Lines(s)
<1>1. PICK k \in Nat : /\ Reads(s, k, n) /\ StartsWith(s, k, x)
                       /\ Len(x) = k \/ CutNext(s, k, n)
  BY DEF Follows
<1>2. s \in Seq(Sent) /\ f.seq \in Nat
  BY SentTypes DEF Well
<1>3. /\ K \in Seq(Sent) /\ Len(K) \in Nat
  BY <1>2, LinesAre
<1>4. /\ Lines(t) = Append(K, f) /\ Len(Append(K, f)) = Len(K) + 1
      /\ \A l \in 1 .. Len(K) : Append(K, f)[l] = K[l]
      /\ Append(K, f)[Len(K) + 1] = f
  BY <1>3, AppendProperties
<1>5. k \in 0 .. Len(K) /\ \A l \in 1 .. Len(K) : l <= k <=> K[l].seq <= n
  BY <1>1 DEF Reads
<1>6. ASSUME NEW l \in 1 .. Len(K) + 1
      PROVE  l <= k <=> Lines(t)[l].seq <= n
  <2>1. CASE l \in 1 .. Len(K)
    BY <1>4, <1>5, <2>1
  <2>2. CASE l = Len(K) + 1
    BY <1>2, <1>3, <1>4, <1>5, <2>2
  <2> QED
    BY <1>3, <2>1, <2>2
<1>7. Reads(t, k, n)
  <2>1. k \in 0 .. Len(Lines(t))
    BY <1>3, <1>4, <1>5
  <2> QED
    BY <1>4, <1>6, <2>1 DEF Reads
<1>8. StartsWith(t, k, x)
  BY <1>1, <1>4, <1>5 DEF StartsWith
<1>9. CutNext(s, k, n) => CutNext(t, k, n)
  <2> SUFFICES ASSUME NEW g, In(g, s), Cut(g), g.seq > n,
                      \A l \in 1 .. Len(K) : l > k => K[l].seq > g.seq
               PROVE  CutNext(t, k, n)
    BY DEF CutNext
  <2>1. g.seq < f.seq
    BY DEF Precedes, Well, Visible
  <2>2. In(g, t)
    OBVIOUS
  <2>3. ASSUME NEW l \in 1 .. Len(Lines(t)), l > k
        PROVE  Lines(t)[l].seq > g.seq
    <3>1. CASE l \in 1 .. Len(K)
      BY <1>4, <2>3, <3>1
    <3>2. CASE l = Len(K) + 1
      <4>1. g \in Sent
        BY <1>2, InType
      <4> QED
        BY <1>2, <1>4, <2>1, <3>2, <4>1, SentTypes
    <3> QED
      BY <1>3, <1>4, <3>1, <3>2
  <2> QED
    BY <2>2, <2>3 DEF CutNext
<1> QED
  BY <1>1, <1>7, <1>8, <1>9 DEF Follows, t

\* Frames that show nothing can be left out in front.
LEMMA DropFront ==
  ASSUME NEW a \in Seq(Sent), NEW b \in Seq(Sent), Well(a \o b),
         \A v : In(v, a) => ~Visible(v)
  PROVE  /\ Well(b)
         /\ Lines(a \o b) = Lines(b)
         /\ \A v : Visible(v) => (In(v, a \o b) <=> In(v, b))
<1> DEFINE s == a \o b
<1>1. \A v : In(v, s) <=> In(v, a) \/ In(v, b)
  BY InConcat
<1>2. Lines(a) = << >>
  <2>1. \A v : In(v, a) => v \notin Texts
    BY DEF Visible, Texts
  <2> QED
    BY <2>1, OnlyNone DEF Lines
<1>3. Lines(s) = Lines(b)
  <2>1. Lines(s) = Lines(a) \o Lines(b)
    BY OnlyConcat DEF Lines
  <2>2. Lines(b) \in Seq(Sent)
    BY LinesAre
  <2> QED
    BY <1>2, <2>1, <2>2, ConcatEmptySeq
<1>4. Ordered(b)
  BY OrderedConcat DEF Well
<1> HIDE DEF s
<1>5. Well(s)
  BY DEF s
<1>6. \A f : In(f, b) => f.seq >= 1 /\ (Visible(f) => f.seq >= 2)
  BY <1>1, <1>5 DEF Well
<1>7. \A g : In(g, b) /\ Cut(g) => CutFits(b, g)
  BY <1>1, <1>3, <1>5 DEF Well, CutFits
<1>8. Well(b)
  BY <1>4, <1>6, <1>7 DEF Well
<1> QED
  BY <1>1, <1>3, <1>8 DEF s

\* The end of a log can be lost when a cut is to come.
LEMMA LogCut ==
  ASSUME NEW a \in Seq(Sent), NEW b \in Seq(Sent), Well(a \o b)
  PROVE  /\ Well(a)
         /\ \A p, q, n, x : q /\ Follows(a \o b, p, n, x) => Follows(a, q, n, x)
<1> DEFINE s == a \o b
           A == Lines(a)
           B == Lines(b)
           K == Lines(s)
<1>1. \A v : In(v, s) <=> In(v, a) \/ In(v, b)
  BY InConcat
<1>2. Ordered(a) /\ \A f, e : In(f, a) /\ In(e, b) => Precedes(f, e)
  BY OrderedConcat DEF Well
<1>3. K = A \o B
  BY OnlyConcat DEF Lines
<1>4. /\ A \in Seq(Sent) /\ Len(A) \in Nat
      /\ \A l \in 1 .. Len(A) : In(A[l], a) /\ Visible(A[l]) /\ A[l].seq \in Nat
  BY LinesAre
<1>5. /\ B \in Seq(Sent) /\ Len(B) \in Nat
      /\ \A l \in 1 .. Len(B) : In(B[l], b) /\ Visible(B[l]) /\ B[l].seq \in Nat
  BY LinesAre
<1> HIDE DEF A, B, K
<1>6. /\ Len(K) = Len(A) + Len(B)
      /\ \A l \in 1 .. Len(A) + Len(B) : K[l] = IF l <= Len(A) THEN A[l] ELSE B[l - Len(A)]
  BY <1>3, <1>4, <1>5, ConcatProperties
<1>7. \A l \in 1 .. Len(A) : l \in 1 .. Len(K) /\ K[l] = A[l]
  BY <1>4, <1>5, <1>6
<1> HIDE DEF s
<1>8. Well(s)
  BY DEF s
<1>9. ASSUME NEW f, NEW e, In(f, a), In(e, b), Visible(f) \/ Visible(e)
      PROVE  f.seq < e.seq
  <2>1. (Visible(f) => f.seq >= 2) /\ (Visible(e) => e.seq >= 2)
    BY <1>1, <1>8, <1>9 DEF Well
  <2> QED
    BY <1>2, <1>9, <2>1 DEF Precedes
<1>10. ASSUME NEW g, In(g, a), Cut(g)
       PROVE  CutFits(a, g)
  <2>1. g.arg \in 0 .. Len(K) /\ \A l \in 1 .. Len(K) : l <= g.arg <=> K[l].seq < g.seq
    BY <1>1, <1>8, <1>10 DEF Well, CutFits, K
  <2>2. g \in Sent /\ g.seq \in Nat
    BY <1>10, InType, SentTypes
  <2>3. g.arg <= Len(A)
    <3> SUFFICES ASSUME g.arg > Len(A) PROVE FALSE
      BY <1>4, <1>6, <2>1
    <3> DEFINE l == Len(A) + 1
    <3>1. l \in 1 .. Len(K) /\ l <= g.arg /\ 1 \in 1 .. Len(B)
          /\ l \in 1 .. Len(A) + Len(B) /\ ~(l <= Len(A)) /\ l - Len(A) = 1
      BY <1>4, <1>5, <1>6, <2>1
    <3>2. K[l] = B[1]
      BY <1>6, <3>1
    <3>3. K[l].seq < g.seq
      BY <2>1, <3>1
    <3>4. g.seq < B[1].seq /\ B[1].seq \in Nat
      BY <1>5, <1>9, <1>10, <3>1
    <3> QED
      BY <2>2, <3>2, <3>3, <3>4
  <2>4. g.arg \in 0 .. Len(A)
    BY <1>4, <1>5, <1>6, <2>1, <2>3
  <2>5. \A l \in 1 .. Len(A) : l <= g.arg <=> A[l].seq < g.seq
    BY <1>7, <2>1
  <2> QED
    BY <2>4, <2>5 DEF CutFits, A
<1>11. Well(a)
  BY <1>1, <1>2, <1>8, <1>10 DEF Well
<1>12. ASSUME NEW p, NEW q, NEW n, NEW x, q, Follows(s, p, n, x)
       PROVE  Follows(a, q, n, x)
  <2>1. PICK k \in Nat : /\ Reads(s, k, n) /\ StartsWith(s, k, x)
                         /\ \/ Len(x) = k
                            \/ p /\ k = Len(K)
                            \/ CutNext(s, k, n)
    BY <1>12 DEF Follows, K
  <2>2. k \in 0 .. Len(K) /\ \A l \in 1 .. Len(K) : l <= k <=> K[l].seq <= n
    BY <2>1 DEF Reads, K
  <2>3. k <= Len(x) /\ \A l \in 1 .. k : x[l] = K[l].arg
    BY <2>1 DEF StartsWith, K
  <2>4. CASE k >= Len(A)
    <3>1. \A l \in 1 .. Len(A) : l <= Len(A) <=> A[l].seq <= n
      <4> SUFFICES ASSUME NEW l \in 1 .. Len(A)
                   PROVE  A[l].seq <= n
        BY <1>4
      <4>1. l <= k
        BY <1>4, <2>2, <2>4
      <4> QED
        BY <1>7, <2>2, <4>1
    <3>2. Reads(a, Len(A), n)
      BY <1>4, <3>1 DEF Reads, A
    <3>3. \A l \in 1 .. Len(A) : x[l] = A[l].arg
      BY <1>4, <1>7, <2>2, <2>3, <2>4
    <3>4. Len(A) <= Len(x)
      BY <1>4, <2>1, <2>3, <2>4
    <3>5. StartsWith(a, Len(A), x)
      BY <3>3, <3>4 DEF StartsWith, A
    <3> QED
      BY <1>4, <1>12, <3>2, <3>5 DEF Follows, A
  <2>5. CASE k < Len(A)
    <3>1. Reads(a, k, n)
      BY <1>4, <1>7, <2>2, <2>5 DEF Reads, A
    <3>2. StartsWith(a, k, x)
      BY <1>4, <1>7, <2>3, <2>5 DEF StartsWith, A
    <3>3. k # Len(K)
      BY <1>4, <1>5, <1>6, <2>5
    <3>4. CutNext(s, k, n) => CutNext(a, k, n)
      <4> SUFFICES ASSUME NEW g, In(g, s), Cut(g), g.seq > n,
                          \A l \in 1 .. Len(K) : l > k => K[l].seq > g.seq
                   PROVE  CutNext(a, k, n)
        BY DEF CutNext, K
      <4>1. k + 1 \in 1 .. Len(A) /\ k + 1 > k
        BY <1>4, <2>5
      <4>2. A[k + 1].seq > g.seq
        BY <1>7, <4>1
      <4>3. In(g, a)
        <5> SUFFICES ASSUME In(g, b) PROVE FALSE
          BY <1>1
        <5>1. A[k + 1].seq < g.seq /\ A[k + 1].seq \in Nat
          BY <1>4, <1>9, <4>1
        <5>2. g.seq \in Nat
          BY InType, SentTypes
        <5> QED
          BY <4>2, <5>1, <5>2
      <4>4. \A l \in 1 .. Len(A) : l > k => A[l].seq > g.seq
        BY <1>7
      <4> QED
        BY <4>3, <4>4 DEF CutNext, A
    <3> QED
      BY <2>1, <3>1, <3>2, <3>3, <3>4 DEF Follows
  <2> QED
    BY <1>4, <2>4, <2>5
<1> QED
  BY <1>11, <1>12 DEF s

\* One more frame of the log, sent to a client or not.
LEMMA CompleteGrows ==
  ASSUME NEW s \in Seq(Sent), NEW f \in Sent, NEW t,
         \A v : In(v, t) <=> In(v, s) \/ v = f,
         NEW n \in Nat, NEW w \in Seq(Sent), Complete(s, n, w, 0),
         Visible(f) => \A j \in 1 .. Len(w) : w[j].seq < f.seq
  PROVE  /\ Complete(t, n, w, 0)
         /\ Full(s, n, w, 0) =>
              Complete(t, n, Append(w, f), 0) /\ Full(t, n, Append(w, f), 0)
<1> DEFINE m == Len(w)
           u == Append(w, f)
<1>1. /\ m \in Nat /\ 0 + 1 = 1 /\ u \in Seq(Sent) /\ Len(u) = m + 1
      /\ \A j \in 1 .. m : u[j] = w[j] /\ w[j] \in Sent /\ w[j].seq \in Nat
      /\ u[m + 1] = f /\ f.seq \in Nat
  BY AppendProperties, LenProperties, ElementOfSeq, SentTypes
<1>2. \A j \in 1 .. m :
        /\ Visible(w[j]) /\ w[j].seq > n => In(w[j], s)
        /\ \A v : In(v, s) /\ Visible(v) /\ n < v.seq /\ v.seq <= w[j].seq =>
             \E l \in 1 .. j : w[l] = v
  BY <1>1 DEF Complete
<1>3. \A j \in 1 .. m : Visible(f) => ~(f.seq <= w[j].seq)
  BY <1>1
<1> HIDE DEF u
<1>4. ASSUME NEW j \in 1 .. m
      PROVE  /\ Visible(w[j]) /\ w[j].seq > n => In(w[j], t)
             /\ \A v : In(v, t) /\ Visible(v) /\ n < v.seq /\ v.seq <= w[j].seq =>
                  \E l \in 1 .. j : w[l] = v
  BY <1>2, <1>3
<1>5. Complete(t, n, w, 0)
  BY <1>1, <1>4 DEF Complete
<1>6. ASSUME Full(s, n, w, 0)
      PROVE  Complete(t, n, u, 0) /\ Full(t, n, u, 0)
  <2>1. \A v : In(v, s) /\ Visible(v) /\ n < v.seq => \E l \in 1 .. m : w[l] = v
    BY <1>1, <1>6 DEF Full
  <2>2. ASSUME NEW v, In(v, t), Visible(v), n < v.seq
        PROVE  \E l \in 1 .. m + 1 : u[l] = v
    <3>1. CASE v = f
      BY <1>1, <3>1
    <3>2. CASE In(v, s)
      <4>1. PICK l \in 1 .. m : w[l] = v
        BY <2>1, <2>2, <3>2
      <4>2. l \in 1 .. m + 1 /\ u[l] = v
        BY <1>1, <4>1
      <4> QED
        BY <4>2
    <3> QED
      BY <2>2, <3>1, <3>2
  <2>3. Full(t, n, u, 0)
    BY <1>1, <2>2 DEF Full
  <2>4. ASSUME NEW j \in 1 .. m + 1
        PROVE  /\ Visible(u[j]) /\ u[j].seq > n => In(u[j], t)
               /\ \A v : In(v, t) /\ Visible(v) /\ n < v.seq /\ v.seq <= u[j].seq =>
                    \E l \in 1 .. j : u[l] = v
    <3>1. CASE j = m + 1
      BY <1>1, <2>2, <3>1
    <3>2. CASE j # m + 1
      <4>1. j \in 1 .. m /\ u[j] = w[j] /\ \A l \in 1 .. j : u[l] = w[l]
        BY <1>1, <3>2
      <4> QED
        BY <1>4, <4>1
    <3> QED
      BY <3>1, <3>2
  <2>5. Complete(t, n, u, 0)
    BY <1>1, <2>4 DEF Complete
  <2> QED
    BY <2>3, <2>5
<1> QED
  BY <1>5, <1>6 DEF u

\* A trailer, which has no number, at the end of the wire.
LEMMA CompleteTrailer ==
  ASSUME NEW s \in Seq(Sent), NEW n \in Nat, NEW w \in Seq(Sent), Complete(s, n, w, 0)
  PROVE  Complete(s, n, Append(w, Trailer), 0)
<1> DEFINE m == Len(w)
           u == Append(w, Trailer)
<1>1. Trailer \in Sent /\ Trailer.seq = 0 /\ ~Visible(Trailer)
  BY DEF Trailer, Frame, Sent, Frames, Visible, Cut
<1>2. /\ m \in Nat /\ 0 + 1 = 1 /\ Len(u) = m + 1
      /\ \A j \in 1 .. m : u[j] = w[j]
      /\ u[m + 1] = Trailer
  BY <1>1, AppendProperties, LenProperties
<1> HIDE DEF u
<1>3. ASSUME NEW j \in 1 .. m + 1
      PROVE  /\ Visible(u[j]) /\ u[j].seq > n => In(u[j], s)
             /\ \A v : In(v, s) /\ Visible(v) /\ n < v.seq /\ v.seq <= u[j].seq =>
                  \E l \in 1 .. j : u[l] = v
  <2>1. CASE j = m + 1
    <3>1. \A v : In(v, s) => v.seq \in Nat
      BY InType, SentTypes
    <3> QED
      BY <1>1, <1>2, <2>1, <3>1
  <2>2. CASE j # m + 1
    <3>1. j \in 1 .. m /\ u[j] = w[j] /\ \A l \in 1 .. j : u[l] = w[l]
      BY <1>2, <2>2
    <3> QED
      BY <1>2, <3>1 DEF Complete
  <2> QED
    BY <2>1, <2>2
<1> QED
  BY <1>2, <1>3 DEF Complete, u

\* The head of the wire is read.
LEMMA CompleteShift ==
  ASSUME NEW s, NEW n, NEW w \in Seq(Sent), w # << >>
  PROVE  /\ Complete(s, n, w, 1) => Complete(s, n, Tail(w), 0)
         /\ Full(s, n, w, 1) => Full(s, n, Tail(w), 0)
<1> DEFINE m == Len(w)
           u == Tail(w)
<1>1. /\ m \in Nat /\ m >= 1 /\ 0 + 1 = 1 /\ 1 + 1 = 2 /\ Len(u) = m - 1
      /\ \A j \in 1 .. m - 1 : u[j] = w[j + 1]
  BY HeadTailProperties, LenProperties, EmptySeq
<1> HIDE DEF u
<1>2. ASSUME NEW j, NEW v, \E l \in 2 .. j : w[l] = v, j \in 2 .. m
      PROVE  \E l \in 1 .. j - 1 : u[l] = v
  <2>1. PICK l \in 2 .. j : w[l] = v
    BY <1>2
  <2>2. l - 1 \in 1 .. j - 1 /\ l - 1 \in 1 .. m - 1 /\ (l - 1) + 1 = l
    BY <1>1, <1>2
  <2>3. u[l - 1] = v
    BY <1>1, <2>1, <2>2
  <2> QED
    BY <2>2, <2>3
<1>3. ASSUME Complete(s, n, w, 1)
      PROVE  Complete(s, n, u, 0)
  <2>1. ASSUME NEW j \in 1 .. m - 1
        PROVE  /\ Visible(u[j]) /\ u[j].seq > n => In(u[j], s)
               /\ \A v : In(v, s) /\ Visible(v) /\ n < v.seq /\ v.seq <= u[j].seq =>
                    \E l \in 1 .. j : u[l] = v
    <3>1. j + 1 \in 2 .. m /\ u[j] = w[j + 1] /\ (j + 1) - 1 = j
      BY <1>1
    <3>2. /\ Visible(w[j + 1]) /\ w[j + 1].seq > n => In(w[j + 1], s)
          /\ \A v : In(v, s) /\ Visible(v) /\ n < v.seq /\ v.seq <= w[j + 1].seq =>
               \E l \in 2 .. j + 1 : w[l] = v
      BY <1>1, <1>3, <3>1 DEF Complete
    <3>3. \A v : (\E l \in 2 .. j + 1 : w[l] = v) => \E l \in 1 .. j : u[l] = v
      BY <1>2, <3>1
    <3> QED
      BY <3>1, <3>2, <3>3
  <2> QED
    BY <1>1, <2>1 DEF Complete
<1>4. ASSUME Full(s, n, w, 1)
      PROVE  Full(s, n, u, 0)
  <2>1. ASSUME NEW v, In(v, s), Visible(v), n < v.seq
        PROVE  \E l \in 1 .. m - 1 : u[l] = v
    <3>1. \E l \in 2 .. m : w[l] = v
      BY <1>1, <1>4, <2>1 DEF Full
    <3>2. m \in 2 .. m
      BY <1>1, <3>1
    <3> QED
      BY <1>2, <3>1, <3>2
  <2> QED
    BY <1>1, <2>1 DEF Full
<1> QED
  BY <1>3, <1>4 DEF u

\* A wire in order that leaves out nothing visible of the log below its frames.
LEMMA JoinComplete ==
  ASSUME NEW s \in Seq(Sent), \A f : In(f, s) /\ Visible(f) => f.seq >= 2,
         NEW n \in Nat, NEW w \in Seq(Sent), Ordered(w),
         \A v : In(v, w) => In(v, s),
         \A v, e : In(v, s) /\ Visible(v) /\ n < v.seq /\ In(e, w) /\ v.seq <= e.seq =>
           In(v, w)
  PROVE  Complete(s, n, w, 0)
<1> DEFINE m == Len(w)
<1>1. /\ m \in Nat /\ 0 + 1 = 1
      /\ \A j \in 1 .. m : w[j].seq \in Nat /\ In(w[j], w)
  BY LenProperties, ElementOfSeq, SentTypes DEF In
<1>2. ASSUME NEW j \in 1 .. m
      PROVE  /\ Visible(w[j]) /\ w[j].seq > n => In(w[j], s)
             /\ \A v : In(v, s) /\ Visible(v) /\ n < v.seq /\ v.seq <= w[j].seq =>
                  \E l \in 1 .. j : w[l] = v
  <2>1. In(w[j], s)
    BY <1>1
  <2>2. ASSUME NEW v, In(v, s), Visible(v), n < v.seq, v.seq <= w[j].seq
        PROVE  \E l \in 1 .. j : w[l] = v
    <3>1. PICK l \in 1 .. m : w[l] = v
      BY <1>1, <2>2 DEF In
    <3>2. v.seq >= 2
      BY <2>2
    <3>3. CASE l <= j
      BY <1>1, <3>1, <3>3
    <3>4. CASE j < l
      <4>1. Precedes(w[j], w[l])
        BY <3>4 DEF Ordered
      <4> QED
        BY <1>1, <2>2, <3>1, <3>2, <4>1 DEF Precedes
    <3> QED
      BY <1>1, <3>3, <3>4
  <2> QED
    BY <2>1, <2>2
<1> QED
  BY <1>1, <1>2 DEF Complete

(* The inductive invariant *)

\* The model says nothing of the frames of a segment that was lost, nor of frames
\* numbered twice; a closed row has cut its frames over.
Good == row \notin EndStatus /\ ~segmentLost /\ ~renumbered

\* What is stored, being stored and in the tail.
Log == Stored \o (Joined(inFlight) \o tail)

\* Bounds of the frames of this attempt, and of the numbers the buffer gave.
Top(n) == AttemptBase(generation) + said + faults + n
Slack == IF phase = "waiting" THEN 0
         ELSE IF phase \in {"queued", "starting"} THEN 1
         ELSE IF phase = "streaming" THEN 2 ELSE 3
Limit == Larger(seq, 1)

\* A cut of what is shown is still to come, or nothing more is to be shown.
CutDue == phase \in {"waiting", "booting", "closing", "over"}

\* What the phases say of the row and the buffer.
PhaseFits ==
  /\ InMemory => (phase = "queued" <=> row = "queued")
  /\ row = "queued" => ~checkpointed
  /\ resumed => checkpointed
  /\ phase = "finishing" => hasDone
  /\ phase \notin {"streaming", "finishing", "closing", "over"} => spoken = << >>
  /\ phase = "booting" => kept = << >>
  /\ ~InMemory => tail = << >>
  /\ phase \in {"booting", "over"} => inFlight = << >>
  /\ InMemory /\ (checkpointed \/ phase = "streaming") => seq >= 1
  /\ said <= MaxChunks /\ faults <= MaxFaults
  /\ seq <= Top(Slack)

\* A frame and a cursor are below what the next attempt starts from, and below
\* what the buffer hands out next.
NumberFits(f) ==
  /\ f.seq <= Top(3)
  /\ InMemory => f.seq <= Limit
  /\ row = "queued" => f.seq <= 1 \/ f.kind = "done"
CursorFits(n) ==
  /\ n <= Top(3)
  /\ InMemory => n <= Limit
  /\ row = "queued" => n <= 1

\* The log is in order; it holds no chunk and no cut before the checkpoint.
LogFits ==
  /\ Well(Log)
  /\ \A f : In(f, Log) => NumberFits(f) /\ (~checkpointed => ~Visible(f))

\* The log holds the reply.
TextFits == InMemory => TextOf(Log) = kept \o spoken

\* A client that was not told the end follows the log.
ClientFits(c) ==
  conn[c] # "ended" =>
    /\ ~checkpointed => shown[c] = << >>
    /\ phase = "booting" => conn[c] = "away" /\ wire[c] = << >>
    /\ CursorFits(lastId[c])
    /\ \A f : In(f, wire[c]) => NumberFits(f)
    /\ Follows(Log, CutDue, lastId[c], shown[c])
    /\ Complete(Log, lastId[c], wire[c], 0)
    /\ Subscribed(c) => Full(Log, lastId[c], wire[c], 0)

StreamFits == PhaseFits /\ LogFits /\ TextFits /\ \A c \in Clients : ClientFits(c)
StreamInv == TypeInv /\ CutoverInv /\ (Good => StreamFits)

-----------------------------------------------------------------------------

\* The text of a log is that of its lines.
LEMMA TextOfLines ==
  ASSUME NEW s
  PROVE  TextOf(s) = [i \in 1 .. Len(Lines(s)) |-> Lines(s)[i].arg]
BY DEF TextOf, Lines, Texts

\* Before the checkpoint nothing is to be shown.
LEMMA BlankLog ==
  ASSUME LogFits, ~checkpointed
  PROVE  Lines(Log) = << >> /\ TextOf(Log) = << >>
<1>1. Log \in Seq(Sent)
  BY DEF LogFits, Well
<1>2. \A f : In(f, Log) => f \notin Texts
  BY DEF LogFits, Visible, Texts
<1>3. Lines(Log) = << >>
  BY <1>1, <1>2, OnlyNone DEF Lines
<1>4. TextOf(Log) = << >>
  <2>1. TextOf(Log) = [i \in 1 .. 0 |-> << >>[i].arg]
    BY <1>3, EmptySeq, TextOfLines
  <2> QED
    BY <2>1
<1> QED
  BY <1>3, <1>4

\* A step that leaves what is visible of the log, the clients and the numbers alone.
LEMMA QuietStep ==
  ASSUME LogFits, TextFits, \A c \in Clients : ClientFits(c), TypeInv,
         Well(Log'), Lines(Log') = Lines(Log),
         \A v : In(v, Log') => In(v, Log),
         \A v : Visible(v) => (In(v, Log) <=> In(v, Log')),
         UNCHANGED <<client, wire, kept, spoken, seq, generation, said>>,
         faults' \in Nat, faults' >= faults,
         InMemory' => InMemory, row' = "queued" => row = "queued",
         checkpointed => checkpointed', (CutDue => CutDue') \/ ~checkpointed', phase' # "booting"
  PROVE  LogFits' /\ TextFits' /\ \A c \in Clients : ClientFits(c)'
<1>1. /\ AttemptBase(generation) \in Nat /\ said \in Nat /\ faults \in Nat
      /\ UNCHANGED <<conn, lastId, shown, wire, kept, spoken, seq, generation, said>>
  BY StreamAssumption DEF TypeInv, RowTypes, AttemptTypes, HistoryTypes, AttemptBase, client
<1>2. Top(3) <= Top(3)' /\ Top(3) \in Nat /\ Top(3)' \in Nat /\ Limit' = Limit
  BY <1>1 DEF Top, Limit, Larger, AttemptBase
<1>3. ASSUME NEW f \in Sent, NumberFits(f)
      PROVE  NumberFits(f)'
  BY <1>2, <1>3, SentTypes DEF NumberFits
<1>4. Log \in Seq(Sent)
  BY DEF LogFits, Well
<1>5. LogFits'
  <2>1. ASSUME NEW f, In(f, Log')
        PROVE  NumberFits(f)' /\ (~checkpointed' => ~Visible(f))
    <3>1. In(f, Log) /\ f \in Sent
      BY <1>4, <2>1, InType
    <3> QED
      BY <1>3, <3>1 DEF LogFits
  <2> QED
    BY <2>1 DEF LogFits
<1>6. TextFits'
  <2>1. TextOf(Log') = TextOf(Log)
    BY TextOfLines
  <2> QED
    BY <1>1, <2>1 DEF TextFits
<1>7. ASSUME NEW c \in Clients
      PROVE  ClientFits(c)'
  <2> SUFFICES ASSUME conn[c] # "ended"
               PROVE  ClientFits(c)'
    BY <1>1 DEF ClientFits
  <2> DEFINE n == lastId[c]
             x == shown[c]
             w == wire[c]
  <2>1. n \in Nat /\ w \in Seq(Sent)
    BY DEF TypeInv, ClientTypes
  <2>2. /\ ~checkpointed => x = << >>
        /\ CursorFits(n) /\ \A v : In(v, w) => NumberFits(v)
        /\ Follows(Log, CutDue, n, x)
        /\ Complete(Log, n, w, 0)
        /\ Subscribed(c) => Full(Log, n, w, 0)
    BY DEF ClientFits
  <2>3. CursorFits(n)'
    BY <1>1, <1>2, <2>1, <2>2 DEF CursorFits
  <2>4. \A f : In(f, w) => NumberFits(f)'
    BY <1>3, <2>1, <2>2, InType
  <2>5. Subscribed(c)' => Subscribed(c)
    BY <1>1 DEF Subscribed
  <2>6. /\ conn'[c] = conn[c] /\ lastId'[c] = lastId[c] /\ shown'[c] = shown[c]
        /\ wire'[c] = wire[c]
    BY <1>1
  <2> DEFINE t == Log'
  <2>7. \A v : Visible(v) => (In(v, Log) <=> In(v, t))
    OBVIOUS
  <2>8. Lines(Log) = Lines(t)
    OBVIOUS
  <2> HIDE DEF n, x, w, t
  <2>9. /\ Follows(Log, CutDue, n, x) => Follows(t, CutDue, n, x)
        /\ Complete(Log, n, w, 0) => Complete(t, n, w, 0)
        /\ Full(Log, n, w, 0) => Full(t, n, w, 0)
    BY <2>7, <2>8, SameVisible
  <2>10. Follows(t, CutDue', n, x)
    <3>1. CASE CutDue => CutDue'
      BY <2>2, <2>9, <3>1, FollowsWeaker
    <3>2. CASE ~checkpointed'
      <4>1. x = << >> /\ Lines(t) = << >>
        BY <2>2, <2>8, <3>2, BlankLog
      <4> QED
        BY <4>1, FollowsNothing
    <3> QED
      BY <3>1, <3>2
  <2>11. /\ CursorFits(lastId[c])' /\ (~checkpointed' => shown'[c] = << >>)
         /\ \A f : In(f, wire'[c]) => NumberFits(f)'
    BY <2>2, <2>3, <2>4, <2>6 DEF n, x, w
  <2>12. /\ Follows(Log', CutDue', lastId'[c], shown'[c])
         /\ Complete(Log', lastId'[c], wire'[c], 0)
         /\ Subscribed(c)' => Full(Log', lastId'[c], wire'[c], 0)
    BY <2>2, <2>5, <2>6, <2>9, <2>10 DEF n, x, w, t
  <2> QED
    BY <2>11, <2>12 DEF ClientFits
<1> QED
  BY <1>5, <1>6, <1>7

-----------------------------------------------------------------------------
(* A push *)

\* A client follows the log with one more frame.
LEMMA FollowsGrows ==
  ASSUME NEW s, Well(s), NEW f \in Sent,
         \A e : In(e, s) => Precedes(e, f),
         f.seq >= 1, Visible(f) => f.seq >= 2,
         Cut(f) => f.arg = Len(Lines(s)),
         NEW p \in BOOLEAN, NEW q \in BOOLEAN, f.kind = "text" => ~p, ~Visible(f) => (p => q),
         NEW n \in Nat, Visible(f) => n < f.seq, NEW x, Follows(s, p, n, x)
  PROVE  Follows(Append(s, f), q, n, x)
<1> DEFINE t == Append(s, f)
<1>1. /\ Lines(t) = IF f.kind = "text" THEN Append(Lines(s), f) ELSE Lines(s)
      /\ \A v : In(v, t) <=> In(v, s) \/ v = f
  BY LogGrows
<1>2. CASE ~Visible(f)
  <2>1. Lines(t) = Lines(s)
    BY <1>1, <1>2 DEF Visible
  <2>2. Follows(t, p, n, x)
    BY <1>1, <1>2, <2>1, FollowsBlank
  <2> QED
    BY <1>2, <2>2, FollowsWeaker
<1>3. CASE Cut(f)
  <2>1. Lines(t) = Lines(s) /\ n < f.seq
    BY <1>1, <1>3 DEF Visible, Cut
  <2> QED
    BY <1>1, <1>3, <2>1, FollowsCut
<1>4. CASE f.kind = "text"
  <2>1. Lines(t) = Append(Lines(s), f) /\ n < f.seq /\ f.seq >= 2 /\ ~p
    BY <1>1, <1>4 DEF Visible
  <2>2. Follows(t, p, n, x)
    BY <1>1, <1>4, <2>1, FollowsText
  <2> QED
    BY <2>1, <2>2, FollowsWeaker
<1> QED
  BY <1>2, <1>3, <1>4 DEF Visible

\* A step that adds a frame to the log and sends it to the subscribers.
LEMMA PushStep ==
  ASSUME LogFits, \A c \in Clients : ClientFits(c), TypeInv, NEW f \in Sent,
         Log' = Append(Log, f),
         UNCHANGED <<client, checkpointed>>,
         wire' = [c \in Clients |-> IF Subscribed(c) THEN Append(wire[c], f) ELSE wire[c]],
         \A e : In(e, Log) => Precedes(e, f),
         f.seq >= 1, Visible(f) => f.seq >= 2,
         Cut(f) => f.arg = Len(Lines(Log)),
         Visible(f) => checkpointed /\ InMemory /\ Limit < f.seq,
         f.kind = "text" => ~CutDue, ~Visible(f) => (CutDue => CutDue'),
         NumberFits(f)',
         \A e \in Sent : NumberFits(e) => NumberFits(e)',
         \A n \in Nat : CursorFits(n) => CursorFits(n)',
         InMemory' => InMemory, phase' # "booting"
  PROVE  LogFits' /\ \A c \in Clients : ClientFits(c)'
<1>1. /\ Log \in Seq(Sent) /\ Limit \in Nat /\ f.seq \in Nat
      /\ UNCHANGED <<conn, lastId, shown, checkpointed>>
  BY SentTypes DEF LogFits, Well, Limit, Larger, TypeInv, BufferTypes, client
<1>2. Well(Append(Log, f)) /\ \A v : In(v, Append(Log, f)) <=> In(v, Log) \/ v = f
  BY LogGrows DEF LogFits
<1>3. LogFits'
  <2>1. Well(Log)'
    BY <1>2
  <2>2. ASSUME NEW v, In(v, Log')
        PROVE  NumberFits(v)' /\ (~checkpointed => ~Visible(v))
    <3>1. CASE v = f
      BY <3>1
    <3>2. CASE In(v, Log)
      <4>1. v \in Sent
        BY <1>1, <3>2, InType
      <4> QED
        BY <3>2, <4>1 DEF LogFits
    <3> QED
      BY <1>2, <2>2, <3>1, <3>2
  <2> QED
    BY <1>1, <2>1, <2>2 DEF LogFits
<1>4. ASSUME NEW c \in Clients
      PROVE  ClientFits(c)'
  <2> SUFFICES ASSUME conn[c] # "ended"
               PROVE  ClientFits(c)'
    BY <1>1 DEF ClientFits
  <2> DEFINE n == lastId[c]
             w == wire[c]
  <2>1. n \in Nat /\ w \in Seq(Sent) /\ CutDue \in BOOLEAN /\ CutDue' \in BOOLEAN
    BY DEF TypeInv, ClientTypes, CutDue
  <2>2. /\ ~checkpointed => shown[c] = << >>
        /\ CursorFits(n) /\ \A v : In(v, w) => NumberFits(v)
        /\ Follows(Log, CutDue, n, shown[c])
        /\ Complete(Log, n, w, 0)
        /\ Subscribed(c) => Full(Log, n, w, 0)
    BY DEF ClientFits
  <2>3. CursorFits(n)'
    BY <1>1, <2>1, <2>2
  <2>4. wire'[c] = IF Subscribed(c) THEN Append(w, f) ELSE w
    OBVIOUS
  <2>5. ASSUME Visible(f)
        PROVE  n < f.seq /\ \A j \in 1 .. Len(w) : w[j].seq < f.seq
    <3>1. InMemory /\ Limit < f.seq /\ n <= Limit
      BY <2>2, <2>5 DEF CursorFits
    <3>2. ASSUME NEW j \in 1 .. Len(w)
          PROVE  w[j].seq < f.seq
      <4>1. In(w[j], w) /\ w[j] \in Sent
        BY <2>1, ElementOfSeq DEF In
      <4>2. w[j].seq <= Limit /\ w[j].seq \in Nat
        BY <2>2, <3>1, <4>1, SentTypes DEF NumberFits
      <4> QED
        BY <1>1, <3>1, <4>2
    <3> QED
      BY <1>1, <2>1, <3>1, <3>2
  <2> HIDE DEF n, w
  <2>6. Follows(Append(Log, f), CutDue', n, shown[c])
    BY <2>1, <2>2, <2>5, FollowsGrows DEF LogFits
  <2>7. /\ Complete(Append(Log, f), n, w, 0)
        /\ Full(Log, n, w, 0) =>
             Complete(Append(Log, f), n, Append(w, f), 0) /\ Full(Append(Log, f), n, Append(w, f), 0)
    <3> DEFINE t == Append(Log, f)
    <3>1. \A v : In(v, t) <=> In(v, Log) \/ v = f
      BY <1>2
    <3> HIDE DEF t
    <3>2. /\ Complete(t, n, w, 0)
          /\ Full(Log, n, w, 0) => Complete(t, n, Append(w, f), 0) /\ Full(t, n, Append(w, f), 0)
      BY <1>1, <2>1, <2>2, <2>5, <3>1, CompleteGrows
    <3> QED
      BY <3>2 DEF t
  <2>8. Subscribed(c)' => Subscribed(c)
    BY <1>1 DEF Subscribed
  <2>9. Complete(Log', n, wire'[c], 0) /\ (Subscribed(c)' => Full(Log', n, wire'[c], 0))
    BY <2>2, <2>4, <2>7, <2>8
  <2>10. \A v : In(v, wire'[c]) => NumberFits(v)'
    <3>1. ASSUME NEW v, In(v, w)
          PROVE  NumberFits(v)'
      BY <2>1, <2>2, <3>1, InType
    <3>2. \A v : In(v, Append(w, f)) => In(v, w) \/ v = f
      BY <2>1, InAppend
    <3> QED
      BY <2>4, <3>1, <3>2
  <2>11. lastId'[c] = n /\ shown'[c] = shown[c] /\ conn'[c] = conn[c]
    BY <1>1 DEF n
  <2>12. Follows(Log', CutDue', lastId'[c], shown'[c]) /\ CursorFits(lastId[c])'
    BY <2>3, <2>6, <2>11 DEF n
  <2>13. /\ Complete(Log', lastId'[c], wire'[c], 0)
         /\ Subscribed(c)' => Full(Log', lastId'[c], wire'[c], 0)
    BY <2>9, <2>11
  <2> QED
    BY <1>1, <2>2, <2>10, <2>11, <2>12, <2>13 DEF ClientFits
<1> QED
  BY <1>3, <1>4

(* What a step does to the log *)

\* The tail becomes a batch: the log stays.
LEMMA BatchesKeepLog ==
  ASSUME TypeInv, segments' = segments, tail # << >>,
         inFlight' = Append(inFlight, tail), tail' = << >>
  PROVE  Log' = Log
<1>1. inFlight \in Seq(Seq(Sent)) /\ tail \in Seq(Sent)
  BY SentTypes DEF TypeInv, BufferTypes
<1> DEFINE a == Joined(inFlight)
<1>2. Joined(Append(inFlight, tail)) = a \o tail
  BY <1>1, JoinedAppend
<1>3. a \o tail \in Seq(Sent)
  BY <1>1, JoinedType, ConcatProperties
<1>4. (a \o tail) \o << >> = a \o tail
  BY <1>3, ConcatEmptySeq
<1>5. Joined(inFlight') \o tail' = a \o tail
  BY <1>2, <1>4
<1>6. Stored' = Stored
  BY DEF Stored
<1> QED
  BY <1>5, <1>6 DEF Log

\* A frame is added to the tail, or with the tail to the batches.
LEMMA PushLog ==
  ASSUME TypeInv, segments' = segments, NEW f \in Sent,
         \/ tail' = Append(tail, f) /\ inFlight' = inFlight
         \/ tail' = << >> /\ inFlight' = Append(inFlight, Append(tail, f))
  PROVE  Log' = Append(Log, f)
<1>1. inFlight \in Seq(Seq(Sent)) /\ tail \in Seq(Sent) /\ Stored \in Seq(Sent)
  BY SentTypes, StoredType DEF TypeInv, BufferTypes
<1> DEFINE a == Joined(inFlight)
           b == Append(tail, f)
<1>2. b \in Seq(Sent) /\ a \in Seq(Sent)
  BY <1>1, AppendProperties, JoinedType
<1>3. a \o b = Append(a \o tail, f) /\ a \o tail \in Seq(Sent)
  BY <1>1, <1>2, ConcatAppend, ConcatProperties
<1>4. Joined(inFlight') \o tail' = a \o b
  <2>1. CASE tail' = Append(tail, f) /\ inFlight' = inFlight
    BY <2>1
  <2>2. CASE tail' = << >> /\ inFlight' = Append(inFlight, Append(tail, f))
    <3> HIDE DEF b
    <3>1. Joined(Append(inFlight, b)) = a \o b
      BY <1>1, <1>2, JoinedAppend
    <3>2. a \o b \in Seq(Sent)
      BY <1>2, ConcatProperties
    <3>3. (a \o b) \o << >> = a \o b
      BY <3>2, ConcatEmptySeq
    <3> QED
      BY <2>2, <3>1, <3>3 DEF b
  <2> QED
    BY <2>1, <2>2
<1>5. Stored' = Stored
  BY DEF Stored
<1> HIDE DEF a, b
<1>6. Log' = Stored \o Append(a \o tail, f)
  BY <1>3, <1>4, <1>5 DEF Log
<1>7. Stored \o Append(a \o tail, f) = Append(Stored \o (a \o tail), f)
  <2> DEFINE d == a \o tail
  <2>1. d \in Seq(Sent)
    BY <1>3
  <2> HIDE DEF d
  <2>2. Stored \o Append(d, f) = Append(Stored \o d, f)
    BY <1>1, <2>1, ConcatAppend
  <2> QED
    BY <2>2 DEF d
<1> QED
  BY <1>6, <1>7 DEF Log, a

\* The log without a batch, and with nothing in the buffer.
LEMMA LogParts ==
  ASSUME TypeInv
  PROVE  /\ Log \in Seq(Sent)
         /\ inFlight # << >> =>
              /\ Head(inFlight) \in Batches /\ Tail(inFlight) \in Seq(Batches)
              /\ Joined(inFlight) = Head(inFlight) \o Joined(Tail(inFlight))
         /\ inFlight = << >> /\ tail = << >> => Log = Stored
<1>1. /\ inFlight \in Seq(Batches) /\ inFlight \in Seq(Seq(Sent)) /\ tail \in Seq(Sent)
      /\ Stored \in Seq(Sent) /\ Joined(inFlight) \o tail \in Seq(Sent)
  BY SentTypes, StoredType DEF TypeInv, BufferTypes
<1>2. Log \in Seq(Sent)
  BY <1>1, ConcatProperties DEF Log
<1>3. ASSUME inFlight # << >>
      PROVE  /\ Head(inFlight) \in Batches /\ Tail(inFlight) \in Seq(Batches)
             /\ Joined(inFlight) = Head(inFlight) \o Joined(Tail(inFlight))
  <2> DEFINE h == Head(inFlight)
             t == Tail(inFlight)
  <2>1. h \in Batches /\ t \in Seq(Batches)
    BY <1>1, <1>3, HeadTailProperties
  <2>2. h \in Seq(Sent) /\ t \in Seq(Seq(Sent))
    BY <2>1, SentTypes DEF Batches
  <2>3. inFlight = <<h>> \o t
    BY <1>1, <1>3
  <2> HIDE DEF h, t
  <2>4. Joined(<<h>> \o t) = h \o Joined(t)
    BY <2>2, JoinedCons
  <2> QED
    BY <2>1, <2>3, <2>4 DEF h, t
<1>4. ASSUME inFlight = << >>, tail = << >>
      PROVE  Log = Stored
  <2>1. << >> \o << >> = << >> /\ Stored \o << >> = Stored
    BY <1>1, ConcatEmptySeq, EmptySeq
  <2> QED
    BY <1>4, <2>1, JoinedEmpty DEF Log
<1> QED
  BY <1>2, <1>3, <1>4

\* The oldest batch is packed: the log stays, unless that batch replaces the rows
\* of frames numbered 1, which change no text.
LEMMA PackLog ==
  ASSUME TypeInv, LogFits, Pack
  PROVE  /\ Well(Log') /\ Lines(Log') = Lines(Log)
         /\ \A v : In(v, Log') => In(v, Log)
         /\ \A v : Visible(v) => (In(v, Log) <=> In(v, Log'))
<1> DEFINE batch  == Head(inFlight)
           rest   == Joined(Tail(inFlight)) \o tail
           Before == {other \in Seq(Frames) : other[1].seq < batch[1].seq}
           Behind == {other \in Seq(Frames) : other[1].seq > batch[1].seq}
<1>1. /\ inFlight # << >> /\ inFlight' = Tail(inFlight) /\ tail' = tail
      /\ segments' = Only(segments, Before) \o <<batch>> \o Only(segments, Behind)
  BY DEF Pack, PackFrame
<1>2. /\ batch \in Batches /\ Tail(inFlight) \in Seq(Batches) /\ tail \in Seq(Sent)
      /\ Joined(inFlight) = batch \o Joined(Tail(inFlight))
      /\ segments \in Seq(Batches) /\ Stored \in Seq(Sent)
  BY <1>1, LogParts, StoredType DEF TypeInv, RowTypes, BufferTypes
<1>3. batch \in Seq(Sent) /\ batch[1] \in Sent /\ In(batch[1], batch)
  <2>1. batch \in Seq(Sent) /\ batch # << >>
    BY <1>2 DEF Batches
  <2> HIDE DEF batch
  <2>2. Len(batch) \in Nat \ {0}
    BY <2>1, EmptySeq
  <2> QED
    BY <2>1, <2>2, ElementOfSeq DEF In
<1>4. rest \in Seq(Sent) /\ Joined(Tail(inFlight)) \in Seq(Sent)
  <2>1. Tail(inFlight) \in Seq(Seq(Sent))
    BY <1>2, SentTypes
  <2> DEFINE j == Joined(Tail(inFlight))
  <2>2. j \in Seq(Sent)
    BY <2>1, JoinedType
  <2> HIDE DEF j
  <2>3. j \o tail \in Seq(Sent)
    BY <1>2, <2>2, ConcatProperties
  <2> QED
    BY <2>2, <2>3 DEF j
<1>5. Joined(inFlight) \o tail = batch \o rest
  <2> DEFINE j == Joined(Tail(inFlight))
  <2>1. j \in Seq(Sent)
    BY <1>4
  <2> HIDE DEF j, batch
  <2>2. batch \in Seq(Sent) /\ tail \in Seq(Sent)
    BY <1>2, <1>3
  <2>3. (batch \o j) \o tail = batch \o (j \o tail)
    BY ONLY <2>1, <2>2, ConcatAssociative
  <2> QED
    BY <1>2, <2>3 DEF j, batch
<1>6. Joined(inFlight') \o tail' = rest
  BY <1>1
<1>7. Log = Stored \o (batch \o rest)
  BY <1>5 DEF Log
<1>8. Well(Log)
  BY DEF LogFits
<1> DEFINE b == batch[1]
<1> HIDE DEF batch, rest
<1>9. batch \o rest \in Seq(Sent) /\ \A e : In(e, batch \o rest) <=> In(e, batch) \/ In(e, rest)
  BY <1>3, <1>4, ConcatProperties, InConcat
<1>10. \A e : In(e, Stored) => Precedes(e, b) /\ In(e, Log) /\ e \in Sent /\ e.seq >= 1
  <2> DEFINE u == batch \o rest
  <2>1. u \in Seq(Sent) /\ In(b, u)
    BY <1>3, <1>9
  <2> HIDE DEF u
  <2>2. Ordered(Stored \o u)
    BY <1>7, <1>8 DEF Well, u
  <2>3. \A e, f : In(e, Stored) /\ In(f, u) => Precedes(e, f)
    BY <1>2, <2>1, <2>2, OrderedConcat
  <2>4. \A e : In(e, Stored \o u) <=> In(e, Stored) \/ In(e, u)
    BY <1>2, <2>1, InConcat
  <2>5. \A e : In(e, Stored) => In(e, Log)
    BY <1>7, <2>4 DEF u
  <2>6. \A e : In(e, Stored) => e \in Sent
    BY <1>2, InType
  <2> QED
    BY <1>8, <2>1, <2>3, <2>5, <2>6 DEF Well
<1>11. ASSUME NEW other, In(other, segments)
       PROVE  other \in Seq(Frames) /\ In(other[1], Stored)
  <2>1. other \in Batches
    BY <1>2, <1>11, InType
  <2>2. other \in Seq(Sent) /\ Len(other) \in Nat \ {0}
    BY <2>1, EmptySeq DEF Batches
  <2>3. In(other[1], other)
    BY <2>2 DEF In
  <2> DEFINE o == other[1]
  <2>4. In(o, other)
    BY <2>3
  <2> HIDE DEF o
  <2>5. segments \in Seq(Seq(Sent))
    BY <1>2, SentTypes
  <2>6. In(o, Joined(segments))
    BY <1>11, <2>4, <2>5, InJoined
  <2> QED
    BY <2>2, <2>6, SentTypes DEF o, Stored
<1>12. b.seq \in Nat
  BY <1>3, SentTypes
<1>13. \A e \in Sent : e.seq \in Nat
  BY SentTypes
<1>14. CASE b.seq = 1
  <2>1. \A e : In(e, Stored) => e.seq = 1
    BY <1>10, <1>12, <1>13, <1>14 DEF Precedes
  <2>2. \A other : In(other, segments) => other \notin Before /\ other \notin Behind
    BY <1>11, <1>14, <2>1
  <2>3. Only(segments, Before) = << >> /\ Only(segments, Behind) = << >>
    <3> HIDE DEF Before, Behind
    <3> QED
      BY <1>2, <2>2, OnlyNone
  <2>4. segments' = <<batch>>
    <3>1. <<batch>> \in Seq(Seq(Sent))
      BY <1>3
    <3>2. << >> \o <<batch>> = <<batch>> /\ <<batch>> \o << >> = <<batch>>
      BY <3>1, ConcatEmptySeq
    <3> QED
      BY <1>1, <2>3, <3>2
  <2>5. Stored' = batch
    <3>1. << >> \in Seq(Seq(Sent)) /\ <<batch>> = <<batch>> \o << >>
      BY <1>3, EmptySeq, ConcatEmptySeq
    <3>2. Joined(<<batch>> \o << >>) = batch \o Joined(<< >>)
      BY <1>3, <3>1, JoinedCons
    <3>3. batch \o << >> = batch
      BY <1>3, ConcatEmptySeq
    <3> QED
      BY <2>4, <3>1, <3>2, <3>3, JoinedEmpty DEF Stored
  <2>6. Log' = batch \o rest
    BY <1>6, <2>5 DEF Log
  <2>7. \A v : In(v, Stored) => ~Visible(v)
    BY <1>8, <1>10, <2>1 DEF Well
  <2> DEFINE u == batch \o rest
  <2>8. u \in Seq(Sent) /\ Well(Stored \o u)
    BY <1>7, <1>8, <1>9
  <2> HIDE DEF u
  <2>9. /\ Well(u) /\ Lines(Stored \o u) = Lines(u)
        /\ \A v : Visible(v) => (In(v, Stored \o u) <=> In(v, u))
    BY <1>2, <2>7, <2>8, DropFront
  <2>10. \A v : In(v, u) => In(v, Stored \o u)
    BY <1>2, <2>8, InConcat
  <2>11. Log = Stored \o u /\ Log' = u
    BY <1>7, <2>6 DEF u
  <2> QED
    BY <2>9, <2>10, <2>11
<1>15. CASE b.seq # 1
  <2>1. \A e : In(e, Stored) => e.seq < b.seq
    BY <1>10, <1>15 DEF Precedes
  <2>2. \A other : In(other, segments) => other \in Before /\ other \notin Behind
    <3> SUFFICES ASSUME NEW other, In(other, segments)
                 PROVE  other \in Before /\ other \notin Behind
      OBVIOUS
    <3>1. In(other[1], Stored) /\ other \in Seq(Frames)
      BY <1>11
    <3>2. other[1].seq < b.seq /\ other[1].seq \in Nat
      BY <1>10, <1>13, <2>1, <3>1
    <3>3. ~(other[1].seq > b.seq)
      BY <1>12, <3>2
    <3> QED
      BY <3>1, <3>2, <3>3
  <2>3. Only(segments, Before) = segments /\ Only(segments, Behind) = << >>
    <3> HIDE DEF Before, Behind
    <3> QED
      BY <1>2, <2>2, OnlyNone, OnlyAll
  <2>4. segments' = Append(segments, batch) /\ segments \in Seq(Seq(Sent))
    <3>1. <<batch>> \in Seq(Seq(Sent)) /\ segments \in Seq(Seq(Sent))
      BY <1>2, <1>3, SentTypes
    <3>2. segments \o <<batch>> \in Seq(Seq(Sent))
      BY <3>1, ConcatProperties
    <3>3. (segments \o <<batch>>) \o << >> = segments \o <<batch>>
      BY <3>2, ConcatEmptySeq
    <3>4. segments \o <<batch>> = Append(segments, batch)
      BY <1>3, <3>1
    <3> QED
      BY <1>1, <2>3, <3>1, <3>3, <3>4
  <2>5. Stored' = Stored \o batch
    BY <1>3, <2>4, JoinedAppend DEF Stored
  <2>6. (Stored \o batch) \o rest = Stored \o (batch \o rest)
    <3>1. Stored \in Seq(Sent) /\ batch \in Seq(Sent) /\ rest \in Seq(Sent)
      BY <1>2, <1>3, <1>4
    <3> QED
      BY ONLY <3>1, ConcatAssociative
  <2>7. Log' = Log
    BY <1>6, <1>7, <2>5, <2>6 DEF Log
  <2> QED
    BY <1>8, <2>7
<1> QED
  BY <1>14, <1>15

-----------------------------------------------------------------------------
(* Each step keeps the invariant *)

\* The numbers of the bounds.
LEMMA BoundTypes ==
  ASSUME TypeInv
  PROVE  /\ AttemptBase(generation) \in Nat /\ generation \in Nat /\ seq \in Nat
         /\ said \in Nat /\ faults \in Nat /\ MaxChunks \in Nat /\ MaxFaults \in Nat
         /\ Slack \in 0 .. 3 /\ Limit \in Nat /\ seq <= Limit /\ 1 <= Limit
BY StreamAssumption DEF TypeInv, RowTypes, BufferTypes, AttemptTypes, HistoryTypes, AttemptBase,
   Slack, Limit, Larger

\* Packing.
LEMMA FlushFits ==
  ASSUME TypeInv, StreamFits, Flush
  PROVE  StreamFits'
<1>1. /\ InMemory /\ tail # << >> /\ inFlight' = Append(inFlight, tail) /\ tail' = << >>
      /\ UNCHANGED <<row, rowText, generation, checkpointed, segments, phase, seq, hasDone,
                     kept, spoken, resumed, outcome, said, client, wire, faults>>
  BY DEF Flush, durable, attempt
<1>2. Log' = Log
  BY <1>1, BatchesKeepLog
<1>3. PhaseFits'
  <2>1. phase \notin {"booting", "over"} /\ InMemory'
    BY <1>1 DEF InMemory, LivePhases
  <2> QED
    BY <1>1, <2>1 DEF StreamFits, PhaseFits, Top, Slack, InMemory
<1>4. LogFits' /\ TextFits' /\ \A c \in Clients : ClientFits(c)'
  <2>1. faults' \in Nat /\ faults' >= faults
    BY <1>1, BoundTypes
  <2>2. phase' # "booting" /\ InMemory' = InMemory /\ CutDue' = CutDue
    BY <1>1 DEF InMemory, LivePhases, CutDue
  <2>3. Well(Log') /\ Lines(Log') = Lines(Log)
    BY <1>2 DEF StreamFits, LogFits
  <2> QED
    BY <1>1, <1>2, <2>1, <2>2, <2>3, QuietStep DEF StreamFits
<1> QED
  BY <1>3, <1>4 DEF StreamFits

\* A batch is packed: nothing visible leaves the log.
LEMMA PackFits ==
  ASSUME TypeInv, StreamFits, Pack
  PROVE  StreamFits'
<1>1. /\ inFlight # << >> /\ inFlight' = Tail(inFlight) /\ faults' = faults
      /\ UNCHANGED <<row, rowText, generation, checkpointed, phase, seq, tail, hasDone,
                     kept, spoken, resumed, outcome, said, client, wire>>
  BY DEF Pack, PackFrame, attempt
<1>2. /\ Well(Log') /\ Lines(Log') = Lines(Log)
      /\ \A v : In(v, Log') => In(v, Log)
      /\ \A v : Visible(v) => (In(v, Log) <=> In(v, Log'))
  BY PackLog DEF StreamFits
<1>3. phase \notin {"booting", "over"}
  BY <1>1 DEF StreamFits, PhaseFits
<1>4. PhaseFits'
  BY <1>1, <1>3 DEF StreamFits, PhaseFits, Top, Slack, InMemory
<1>5. LogFits' /\ TextFits' /\ \A c \in Clients : ClientFits(c)'
  <2>1. faults' \in Nat /\ faults' >= faults
    BY <1>1, BoundTypes
  <2>2. phase' # "booting" /\ InMemory' = InMemory /\ CutDue' = CutDue
    BY <1>1, <1>3 DEF InMemory, CutDue
  <2> QED
    BY <1>1, <1>2, <2>1, <2>2, QuietStep DEF StreamFits
<1> QED
  BY <1>4, <1>5 DEF StreamFits

\* The steps of a run that change no frame.
LEMMA RunFits ==
  ASSUME TypeInv, TypeInv', StreamFits, Dequeue \/ Checkpoint \/ Defer \/ CloseFails
  PROVE  StreamFits'
<1>1. UNCHANGED <<segments, seq, tail, inFlight, hasDone, kept, spoken, resumed, said,
                  generation, client, wire>>
  BY DEF Dequeue, Checkpoint, Defer, CloseFails, RunFrame, CloseFrame, buffer, attempt
<1>2. Log' = Log
  BY <1>1 DEF Log, Stored
<1>3. /\ faults' \in Nat /\ faults' >= faults /\ faults' <= MaxFaults
      /\ seq <= Top(Slack) => seq <= Top(Slack)'
  <2>1. faults' \in Nat /\ (faults' = faults \/ (faults' = faults + 1 /\ faults < MaxFaults))
    <3>1. faults' = faults \/ (faults' = faults + 1 /\ faults < MaxFaults)
      BY DEF Dequeue, Checkpoint, Defer, CloseFails, Fault
    <3> QED
      BY <3>1, BoundTypes
  <2>2. faults <= MaxFaults
    BY DEF StreamFits, PhaseFits
  <2>3. Top(Slack) <= Top(Slack)'
    <3>1. AttemptBase(generation)' = AttemptBase(generation) /\ said' = said
      BY <1>1
    <3>2. CASE Defer
      <4>1. Slack = 1 /\ Slack' = 0 /\ faults' = faults + 1
        BY <3>2 DEF Defer, Slack, Fault
      <4> QED
        BY <3>1, <4>1, BoundTypes DEF Top
    <3>3. CASE Dequeue \/ Checkpoint \/ CloseFails
      <4>1. Slack = Slack'
        BY <3>3 DEF Dequeue, Checkpoint, CloseFails, Slack
      <4> QED
        BY <2>1, <3>1, <4>1, BoundTypes DEF Top
    <3> QED
      BY <3>2, <3>3
  <2>4. Top(Slack) \in Nat /\ Top(Slack)' \in Nat /\ seq \in Nat
    <3>1. AttemptBase(generation) \in Nat /\ AttemptBase(generation)' = AttemptBase(generation)
      BY <1>1, BoundTypes
    <3>2. Slack \in Nat /\ Slack' \in Nat
      BY DEF Slack
    <3> QED
      BY <1>1, <2>1, <3>1, <3>2, BoundTypes DEF Top
  <2> QED
    BY <2>1, <2>2, <2>3, <2>4, BoundTypes
<1>4. /\ phase' # "booting" /\ phase' # "queued" /\ (InMemory' <=> InMemory) /\ (CutDue => CutDue')
      /\ (row' = "queued" => row = "queued") /\ (checkpointed => checkpointed')
  <2>1. CASE Dequeue
    BY <2>1 DEF Dequeue, RunFrame, InMemory, LivePhases, CutDue
  <2>2. CASE Checkpoint
    BY <2>2 DEF Checkpoint, RunFrame, InMemory, LivePhases, CutDue
  <2>3. CASE Defer
    BY <2>3 DEF Defer, RunFrame, InMemory, LivePhases, CutDue
  <2>4. CASE CloseFails
    BY <2>4 DEF CloseFails, CloseFrame, InMemory, LivePhases, CutDue
  <2> QED
    BY <2>1, <2>2, <2>3, <2>4
<1>5. PhaseFits'
  <2>1. row' = "queued" => ~checkpointed'
    BY DEF Dequeue, Checkpoint, Defer, CloseFails, RunFrame, CloseFrame, StreamFits, PhaseFits,
       InMemory, LivePhases
  <2>2. phase' = "over" => inFlight' = << >>
    BY <1>1 DEF Dequeue, Checkpoint, Defer, CloseFails
  <2>3. phase' = "finishing" => hasDone'
    BY DEF Dequeue, Checkpoint, Defer, CloseFails
  <2>4. phase' \notin {"streaming", "finishing", "closing", "over"} => spoken' = << >>
    BY <1>1 DEF Dequeue, Checkpoint, Defer, CloseFails, StreamFits, PhaseFits
  <2>5. InMemory' /\ (checkpointed' \/ phase' = "streaming") => seq' >= 1
    <3>1. InMemory' /\ (checkpointed' \/ phase' = "streaming") =>
            InMemory /\ (checkpointed \/ phase = "streaming")
      BY <1>4 DEF Dequeue, Checkpoint, Defer, CloseFails, RunFrame, CloseFrame
    <3> QED
      BY <1>1, <3>1 DEF StreamFits, PhaseFits
  <2>6. InMemory' => row' # "queued"
    BY DEF Dequeue, Checkpoint, Defer, CloseFails, RunFrame, CloseFrame, StreamFits, PhaseFits,
       InMemory, LivePhases
  <2> QED
    BY <1>1, <1>3, <1>4, <2>1, <2>2, <2>3, <2>4, <2>5, <2>6 DEF StreamFits, PhaseFits
<1>6. LogFits' /\ TextFits' /\ \A c \in Clients : ClientFits(c)'
  <2>1. Well(Log') /\ Lines(Log') = Lines(Log)
    BY <1>2 DEF StreamFits, LogFits
  <2> QED
    BY <1>1, <1>2, <1>3, <1>4, <2>1, QuietStep DEF StreamFits
<1> QED
  BY <1>5, <1>6 DEF StreamFits

\* The buffer of a live run takes one more frame.
LEMMA PushFits ==
  ASSUME TypeInv, StreamFits, InMemory,
         NEW kind \in {"run", "text", "note", "done", "trailer"},
         NEW arg \in Nat \cup {Fresh}, kind = "text" => arg \in Nat,
         NEW f, f = Frame(seq + 1, kind, arg),
         \/ tail' = Append(tail, f) /\ inFlight' = inFlight
         \/ tail' = << >> /\ inFlight' = Append(inFlight, Append(tail, f)),
         wire' = [c \in Clients |-> IF Subscribed(c) THEN Append(wire[c], f) ELSE wire[c]],
         seq' = seq + 1, seq + 1 <= Top(3)',
         UNCHANGED <<segments, client, checkpointed, generation, faults>>,
         said' \in Nat, said' >= said,
         row' = "queued" => row = "queued" /\ kind = "done",
         Visible(f) => checkpointed,
         Cut(f) => arg = Len(Lines(Log)),
         kind = "text" => ~CutDue, ~Visible(f) => (CutDue => CutDue'),
         phase' # "booting"
  PROVE  Log' = Append(Log, f) /\ LogFits' /\ \A c \in Clients : ClientFits(c)'
<1>1. f \in Sent /\ f.seq = seq + 1 /\ f.kind = kind /\ f.arg = arg
  BY FrameType, BoundTypes DEF Frame
<1>2. Log' = Append(Log, f)
  <2>1. segments' = segments
    OBVIOUS
  <2> QED
    BY <1>1, <2>1, PushLog
<1>3. /\ Top(3) \in Nat /\ Top(3)' \in Nat /\ Top(3) <= Top(3)'
      /\ seq \in Nat /\ Limit \in Nat /\ Limit' \in Nat /\ Limit <= Limit' /\ seq + 1 <= Limit'
      /\ seq >= 1 => Limit = seq
      /\ seq = 0 => Limit = 1
  <2>1. AttemptBase(generation)' = AttemptBase(generation)
    BY DEF AttemptBase
  <2>2. seq \in Nat
    BY BoundTypes
  <2>3. /\ Limit = (IF seq > 1 THEN seq ELSE 1)
        /\ Limit' = (IF seq + 1 > 1 THEN seq + 1 ELSE 1)
    BY DEF Limit, Larger
  <2>4. /\ seq \in Nat /\ Limit \in Nat /\ Limit' \in Nat /\ Limit <= Limit' /\ seq + 1 <= Limit'
        /\ seq >= 1 => Limit = seq
        /\ seq = 0 => Limit = 1
    BY <2>2, <2>3
  <2>5. /\ Top(3) = AttemptBase(generation) + said + faults + 3
        /\ Top(3)' = AttemptBase(generation) + said' + faults + 3
    BY <2>1 DEF Top
  <2>6. /\ AttemptBase(generation) \in Nat /\ said \in Nat /\ faults \in Nat
        /\ said' \in Nat /\ said' >= said
    BY BoundTypes
  <2>7. Top(3) \in Nat /\ Top(3)' \in Nat /\ Top(3) <= Top(3)'
    BY ONLY <2>5, <2>6
  <2> QED
    BY <2>4, <2>7
<1>4. NumberFits(f)'
  BY <1>1, <1>3 DEF NumberFits
<1>5. ASSUME NEW e \in Sent, NumberFits(e)
      PROVE  NumberFits(e)'
  <2>1. e.seq \in Nat
    BY SentTypes
  <2>2. e.seq <= Top(3)'
    BY <1>3, <1>5, <2>1 DEF NumberFits
  <2>3. e.seq <= Limit'
    BY <1>3, <1>5, <2>1 DEF NumberFits
  <2> QED
    BY <1>5, <2>2, <2>3 DEF NumberFits
<1>6. ASSUME NEW n \in Nat, CursorFits(n)
      PROVE  CursorFits(n)'
  <2>1. n <= Top(3)'
    BY <1>3, <1>6 DEF CursorFits
  <2>2. n <= Limit'
    BY <1>3, <1>6 DEF CursorFits
  <2> QED
    BY <1>6, <2>1, <2>2 DEF CursorFits
<1>7. ASSUME NEW e, In(e, Log)
      PROVE  Precedes(e, f)
  <2>1. e \in Sent /\ NumberFits(e) /\ e.seq >= 1
    BY <1>7, InType DEF StreamFits, LogFits, Well
  <2>2. e.seq \in Nat /\ e.seq <= Limit
    BY <2>1, SentTypes DEF NumberFits
  <2> QED
    BY <1>1, <1>3, <2>1, <2>2 DEF Precedes
<1>8. f.seq >= 1
  BY <1>1, <1>3
<1>9. ASSUME Visible(f)
      PROVE  checkpointed /\ f.seq >= 2 /\ Limit < f.seq
  <2>1. checkpointed /\ seq >= 1
    BY <1>9 DEF StreamFits, PhaseFits
  <2> QED
    BY <1>1, <1>3, <2>1
<1>10. UNCHANGED <<client, checkpointed>>
  OBVIOUS
<1>11. f.kind = "text" => ~CutDue
  BY <1>1
<1>12. Cut(f) => f.arg = Len(Lines(Log))
  BY <1>1
<1>13. LogFits /\ \A c \in Clients : ClientFits(c)
  BY DEF StreamFits
<1>14. (InMemory' => InMemory) /\ (Visible(f) => checkpointed /\ InMemory /\ Limit < f.seq)
  BY <1>9
<1>15. LogFits' /\ \A c \in Clients : ClientFits(c)'
  BY <1>1, <1>2, <1>4, <1>5, <1>6, <1>7, <1>8, <1>9, <1>10, <1>11, <1>12, <1>13, <1>14, PushStep
<1> QED
  BY <1>2, <1>15

\* A frame that is no chunk leaves the text as it was.
LEMMA SameText ==
  ASSUME NEW s, Well(s), NEW f \in Sent, f.kind # "text"
  PROVE  TextOf(Append(s, f)) = TextOf(s) /\ Lines(Append(s, f)) = Lines(s)
<1>1. s \in Seq(Sent) /\ f \notin Texts
  BY DEF Well, Texts
<1>2. Lines(Append(s, f)) = Lines(s)
  BY <1>1, OnlyAppend DEF Lines
<1> QED
  BY <1>2, TextOfLines

\* A chunk is the end of the text.
LEMMA NextTextOf ==
  ASSUME NEW s, Well(s), NEW f \in Sent, f.kind = "text"
  PROVE  TextOf(Append(s, f)) = Append(TextOf(s), f.arg)
<1>1. s \in Seq(Sent) /\ f \in Texts
  BY SentTypes DEF Well, Texts
<1> DEFINE K == Lines(s)
           L == Append(K, f)
<1>2. Lines(Append(s, f)) = L
  BY <1>1, OnlyAppend DEF Lines
<1>3. K \in Seq(Sent)
  BY <1>1, LinesAre
<1> HIDE DEF K
<1>4. /\ Len(K) \in Nat /\ Len(L) = Len(K) + 1 /\ L[Len(K) + 1] = f
      /\ \A i \in 1 .. Len(K) : L[i] = K[i]
  BY <1>3, AppendProperties, LenProperties
<1> HIDE DEF L
<1>5. TextOf(Append(s, f)) = [i \in 1 .. Len(L) |-> L[i].arg]
  BY <1>2, TextOfLines
<1>6. TextOf(s) = [i \in 1 .. Len(K) |-> K[i].arg]
  BY TextOfLines DEF K
<1>7. TextOf(s) \in Seq(Nat) /\ f.arg \in Nat
  BY <1>1, TextOfType, SentTypes
<1>8. Len(TextOf(s)) = Len(K)
  BY <1>4, <1>6
<1> DEFINE t == TextOf(s)
<1>9. \A i \in 1 .. Len(K) : t[i] = K[i].arg
  BY <1>6
<1> HIDE DEF t
<1>10. Append(t, f.arg) = [i \in 1 .. Len(K) + 1 |-> IF i = Len(K) + 1 THEN f.arg ELSE t[i]]
  BY <1>7, <1>8 DEF t
<1>11. \A i \in 1 .. Len(K) + 1 : L[i].arg = IF i = Len(K) + 1 THEN f.arg ELSE t[i]
  BY <1>4, <1>9
<1>12. [i \in 1 .. Len(L) |-> L[i].arg] = Append(t, f.arg)
  BY <1>4, <1>10, <1>11
<1> QED
  BY <1>5, <1>12 DEF t

\* The parts of a frame that changes no text.
LEMMA BlankFrame ==
  ASSUME NEW n \in Nat, NEW kind \in {"run", "done"}
  PROVE  /\ Frame(n, kind, Fresh) \in Sent /\ Frame(n, kind, Fresh).kind = kind
         /\ ~Visible(Frame(n, kind, Fresh)) /\ ~Cut(Frame(n, kind, Fresh))
<1> DEFINE f == Frame(n, kind, Fresh)
<1>1. f \in Sent
  BY DEF Frame, Sent, Frames
<1>2. f.kind = kind /\ f.arg = Fresh
  BY DEF Frame
<1> HIDE DEF f
<1>3. ~Visible(f) /\ ~Cut(f)
  BY <1>2 DEF Visible, Cut
<1> QED
  BY <1>1, <1>2, <1>3 DEF f

\* The turn starts to stream.
LEMMA StreamStepFits ==
  ASSUME TypeInv, StreamFits, Stream
  PROVE  StreamFits'
<1>1. /\ phase = "starting" /\ phase' = "streaming" /\ InMemory /\ InMemory' /\ ~CutDue'
      /\ row # "queued" /\ CutDue = FALSE /\ Slack = 1 /\ Slack' = 2
      /\ UNCHANGED <<row, checkpointed, hasDone, kept, spoken, resumed, said, faults,
                     generation, segments, client>>
  BY DEF Stream, RunFrame, attempt, InMemory, LivePhases, CutDue, StreamFits, PhaseFits, Slack
<1>2. AttemptBase(generation)' = AttemptBase(generation)
  BY <1>1
<1>3. seq <= Top(1)
  BY <1>1 DEF StreamFits, PhaseFits
<1>4. /\ Top(1)' = Top(1) /\ Top(2)' = Top(2) /\ Top(3)' = Top(3)
      /\ seq + 1 <= Top(2) /\ Top(2) <= Top(3)
      /\ seq <= Top(2)
  BY <1>1, <1>2, <1>3, BoundTypes DEF Top
<1>5. CASE resumed
  <2>1. UNCHANGED <<seq, tail, inFlight, wire>>
    BY <1>5 DEF Stream
  <2>2. Log' = Log
    BY <1>1, <2>1 DEF Log, Stored
  <2>3. PhaseFits'
    BY <1>1, <1>4, <1>5, <2>1 DEF StreamFits, PhaseFits
  <2>4. LogFits' /\ TextFits' /\ \A c \in Clients : ClientFits(c)'
    <3>1. Well(Log') /\ Lines(Log') = Lines(Log)
      BY <2>2 DEF StreamFits, LogFits
    <3>2. faults' \in Nat /\ faults' >= faults
      BY <1>1, BoundTypes
    <3> QED
      BY <1>1, <2>1, <2>2, <3>1, <3>2, QuietStep DEF StreamFits
  <2> QED
    BY <2>3, <2>4 DEF StreamFits
<1>6. CASE ~resumed
  <2> DEFINE f == Frame(seq + 1, "run", Fresh)
  <2>1. /\ seq' = seq + 1
        /\ tail' = Append(tail, f) /\ inFlight' = inFlight
        /\ wire' = [c \in Clients |-> IF Subscribed(c) THEN Append(wire[c], f) ELSE wire[c]]
    BY <1>6 DEF Stream, Push
  <2>2. f \in Sent /\ f.kind = "run" /\ ~Visible(f) /\ ~Cut(f)
    BY BoundTypes, BlankFrame
  <2> HIDE DEF f
  <2>3. f = Frame(seq + 1, "run", Fresh)
    BY DEF f
  <2>4. said' \in Nat /\ said' >= said /\ seq + 1 <= Top(3)'
    BY <1>1, <1>4, BoundTypes DEF Top
  <2>5. Log' = Append(Log, f) /\ LogFits' /\ \A c \in Clients : ClientFits(c)'
    <3>1. /\ "run" \in {"run", "text", "note", "done", "trailer"} /\ Fresh \in Nat \cup {Fresh}
          /\ UNCHANGED <<segments, client, checkpointed, generation, faults>>
          /\ row' # "queued" /\ phase' # "booting"
      BY <1>1
    <3> QED
      BY <1>1, <2>1, <2>2, <2>3, <2>4, <3>1, PushFits
  <2>6. TextFits'
    BY <1>1, <2>2, <2>5, SameText DEF StreamFits, TextFits, LogFits
  <2>7. PhaseFits'
    <3>1. seq' >= 1
      BY <2>1, BoundTypes
    <3> QED
      BY <1>1, <1>4, <2>1, <3>1 DEF StreamFits, PhaseFits
  <2> QED
    BY <2>5, <2>6, <2>7 DEF StreamFits
<1> QED
  BY <1>5, <1>6

\* A chunk is streamed.
LEMMA SayFits ==
  ASSUME TypeInv, StreamFits, Say
  PROVE  StreamFits'
<1>1. /\ phase = "streaming" /\ phase' = phase /\ InMemory /\ InMemory' /\ ~CutDue /\ ~CutDue'
      /\ row # "queued" /\ Slack = 2 /\ Slack' = 2 /\ checkpointed /\ said < MaxChunks
      /\ said' = said + 1 /\ spoken' = Append(spoken, said)
      /\ UNCHANGED <<row, checkpointed, hasDone, kept, resumed, faults,
                     generation, segments, client>>
  BY DEF Say, RunFrame, InMemory, LivePhases, CutDue, StreamFits, PhaseFits, Slack
<1>2. AttemptBase(generation)' = AttemptBase(generation)
  BY <1>1
<1>3. seq <= Top(2)
  BY <1>1 DEF StreamFits, PhaseFits
<1>4. seq + 1 <= Top(2)' /\ seq + 1 <= Top(3)' /\ said' \in Nat /\ said' >= said
  <2>1. /\ Top(2) = AttemptBase(generation) + said + faults + 2
        /\ Top(2)' = AttemptBase(generation) + (said + 1) + faults + 2
        /\ Top(3)' = AttemptBase(generation) + (said + 1) + faults + 3
    BY <1>1, <1>2 DEF Top
  <2>2. AttemptBase(generation) \in Nat /\ said \in Nat /\ faults \in Nat /\ seq \in Nat
    BY BoundTypes
  <2> QED
    BY <1>1, <1>3, <2>1, <2>2
<1> DEFINE f == Frame(seq + 1, "text", said)
<1>5. /\ seq' = seq + 1
      /\ tail' = Append(tail, f) /\ inFlight' = inFlight
      /\ wire' = [c \in Clients |-> IF Subscribed(c) THEN Append(wire[c], f) ELSE wire[c]]
  BY DEF Say, Push
<1>6. f \in Sent /\ f.kind = "text" /\ f.arg = said /\ Visible(f) /\ ~Cut(f)
  BY BoundTypes, FrameType DEF Frame, Visible, Cut
<1> HIDE DEF f
<1>7. f = Frame(seq + 1, "text", said)
  BY DEF f
<1>8. Log' = Append(Log, f) /\ LogFits' /\ \A c \in Clients : ClientFits(c)'
  <2>1. /\ "text" \in {"run", "text", "note", "done", "trailer"}
        /\ said \in Nat /\ said \in Nat \cup {Fresh}
        /\ UNCHANGED <<segments, client, checkpointed, generation, faults>>
        /\ row' # "queued" /\ phase' # "booting"
    BY <1>1, BoundTypes
  <2> QED
    BY <1>1, <1>4, <1>5, <1>6, <1>7, <2>1, PushFits
<1>9. TextFits'
  <2>1. TextOf(Log') = Append(TextOf(Log), said)
    BY <1>6, <1>8, NextTextOf DEF StreamFits, LogFits
  <2>2. TextOf(Log) = kept \o spoken
    BY <1>1 DEF StreamFits, TextFits
  <2>3. kept \in Seq(Nat) /\ spoken \in Seq(Nat) /\ said \in Nat
    BY DEF TypeInv, AttemptTypes
  <2>4. kept \o Append(spoken, said) = Append(kept \o spoken, said)
    BY <2>3, ConcatAppend
  <2> QED
    BY <1>1, <2>1, <2>2, <2>4 DEF TextFits
<1>10. PhaseFits'
  <2>1. seq' >= 1 /\ said' <= MaxChunks
    BY <1>1, <1>5, BoundTypes
  <2> QED
    BY <1>1, <1>4, <1>5, <2>1 DEF StreamFits, PhaseFits
<1> QED
  BY <1>8, <1>9, <1>10 DEF StreamFits

\* The turn ends with its done frame.
LEMMA EndStreamFits ==
  ASSUME TypeInv, StreamFits, NEW status, EndStream(status)
  PROVE  StreamFits'
<1>1. /\ phase = "streaming" /\ phase' = "finishing" /\ InMemory /\ InMemory' /\ ~CutDue
      /\ row # "queued" /\ Slack = 2 /\ Slack' = 3 /\ hasDone'
      /\ UNCHANGED <<row, checkpointed, kept, spoken, resumed, said, faults,
                     generation, segments, client>>
  BY DEF EndStream, RunFrame, InMemory, LivePhases, CutDue, StreamFits, PhaseFits, Slack
<1>2. AttemptBase(generation)' = AttemptBase(generation)
  BY <1>1
<1>3. seq <= Top(2)
  BY <1>1 DEF StreamFits, PhaseFits
<1>4. seq + 1 <= Top(3)' /\ said' \in Nat /\ said' >= said
  BY <1>1, <1>2, <1>3, BoundTypes DEF Top
<1> DEFINE f == Frame(seq + 1, "done", Fresh)
<1>5. /\ seq' = seq + 1
      /\ tail' = << >> /\ inFlight' = Append(inFlight, Append(tail, f))
      /\ wire' = [c \in Clients |-> IF Subscribed(c) THEN Append(wire[c], f) ELSE wire[c]]
  BY DEF EndStream, Push
<1>6. f \in Sent /\ f.kind = "done" /\ ~Visible(f) /\ ~Cut(f)
  BY BoundTypes, BlankFrame
<1> HIDE DEF f
<1>7. f = Frame(seq + 1, "done", Fresh)
  BY DEF f
<1>8. Log' = Append(Log, f) /\ LogFits' /\ \A c \in Clients : ClientFits(c)'
  <2>1. /\ "done" \in {"run", "text", "note", "done", "trailer"} /\ Fresh \in Nat \cup {Fresh}
        /\ UNCHANGED <<segments, client, checkpointed, generation, faults>>
        /\ row' # "queued" /\ phase' # "booting"
    BY <1>1
  <2> QED
    BY <1>1, <1>4, <1>5, <1>6, <1>7, <2>1, PushFits
<1>9. TextFits'
  BY <1>1, <1>6, <1>8, SameText DEF StreamFits, TextFits, LogFits
<1>10. PhaseFits'
  <2>1. seq' >= 1
    BY <1>5, BoundTypes
  <2> QED
    BY <1>1, <1>4, <1>5, <2>1 DEF StreamFits, PhaseFits
<1> QED
  BY <1>8, <1>9, <1>10 DEF StreamFits

\* A waiting run is resumed: clients are cut back to what was kept, or the
\* attempt starts over and nothing was shown.
LEMMA ResumeFits ==
  ASSUME TypeInv, StreamFits, Resume
  PROVE  StreamFits'
<1>1. /\ phase = "waiting" /\ phase' = "starting" /\ InMemory /\ InMemory' /\ ~CutDue'
      /\ row' # "queued" /\ Slack = 0 /\ Slack' = 1 /\ resumed' = checkpointed
      /\ spoken = << >>
      /\ UNCHANGED <<checkpointed, hasDone, spoken, said, faults, generation, segments,
                     client>>
  BY DEF Resume, RunFrame, InMemory, LivePhases, CutDue, StreamFits, PhaseFits, Slack
<1>2. AttemptBase(generation)' = AttemptBase(generation)
  BY <1>1
<1>3. seq <= Top(0)
  BY <1>1 DEF StreamFits, PhaseFits
<1>4. /\ seq + 1 <= Top(1)' /\ seq + 1 <= Top(3)' /\ seq <= Top(1)'
      /\ said' \in Nat /\ said' >= said /\ faults' \in Nat /\ faults' >= faults
  <2>1. /\ Top(0) = AttemptBase(generation) + said + faults + 0
        /\ Top(1)' = AttemptBase(generation) + said + faults + 1
        /\ Top(3)' = AttemptBase(generation) + said + faults + 3
    BY <1>1, <1>2 DEF Top
  <2>2. AttemptBase(generation) \in Nat /\ said \in Nat /\ faults \in Nat /\ seq \in Nat
    BY BoundTypes
  <2> QED
    BY <1>1, <1>3, <2>1, <2>2
<1>5. TextOf(Log) = kept /\ kept \in Seq(Nat) /\ Len(kept) \in Nat
  <2>1. kept \in Seq(Nat)
    BY DEF TypeInv, AttemptTypes
  <2>2. kept \o << >> = kept /\ Len(kept) \in Nat
    BY <2>1, ConcatEmptySeq, LenProperties
  <2> QED
    BY <1>1, <2>1, <2>2 DEF StreamFits, TextFits
<1>6. CASE ~checkpointed
  <2>1. TextOf(Log) = << >>
    BY <1>6, BlankLog DEF StreamFits
  <2>2. UNCHANGED <<kept, seq, tail, inFlight, wire>>
    BY <1>5, <1>6, <2>1 DEF Resume
  <2>3. Log' = Log
    BY <1>1, <2>2 DEF Log, Stored
  <2>4. PhaseFits'
    BY <1>1, <1>4, <1>6, <2>2 DEF StreamFits, PhaseFits
  <2>5. LogFits' /\ TextFits' /\ \A c \in Clients : ClientFits(c)'
    <3>1. Well(Log') /\ Lines(Log') = Lines(Log)
      BY <2>3 DEF StreamFits, LogFits
    <3> QED
      BY <1>1, <1>4, <1>6, <2>2, <2>3, <3>1, QuietStep DEF StreamFits
  <2> QED
    BY <2>4, <2>5 DEF StreamFits
<1>7. CASE checkpointed
  <2> DEFINE n == Len(kept)
             f == Frame(seq + 1, "run", n)
  <2>1. /\ seq' = seq + 1 /\ kept' = kept
        /\ tail' = Append(tail, f) /\ inFlight' = inFlight
        /\ wire' = [c \in Clients |-> IF Subscribed(c) THEN Append(wire[c], f) ELSE wire[c]]
    BY <1>7 DEF Resume, Push
  <2>2. f \in Sent /\ f.kind = "run" /\ n \in Nat
    BY <1>5, BoundTypes, FrameType DEF Frame
  <2>3. n = Len(Lines(Log))
    <3>1. Len(TextOf(Log)) = Len(Lines(Log))
      <4>1. TextOf(Log) = [i \in 1 .. Len(Lines(Log)) |-> Lines(Log)[i].arg]
        BY TextOfLines
      <4>2. Len(Lines(Log)) \in Nat
        BY LinesAre DEF StreamFits, LogFits, Well
      <4> DEFINE k == Len(Lines(Log))
      <4> HIDE DEF k
      <4>3. Len([i \in 1 .. k |-> Lines(Log)[i].arg]) = k
        BY <4>2 DEF k
      <4> QED
        BY <4>1, <4>3 DEF k
    <3> QED
      BY <1>5, <3>1
  <2> HIDE DEF f, n
  <2>4. f = Frame(seq + 1, "run", n)
    BY DEF f
  <2>5. Visible(f)
    <3>1. f.arg = n
      BY <2>4 DEF Frame
    <3> QED
      BY <2>2, <3>1 DEF Visible, Cut, Fresh
  <2>6. Log' = Append(Log, f) /\ LogFits' /\ \A c \in Clients : ClientFits(c)'
    <3>1. /\ "run" \in {"run", "text", "note", "done", "trailer"} /\ n \in Nat \cup {Fresh}
          /\ UNCHANGED <<segments, client, checkpointed, generation, faults>>
          /\ phase' # "booting"
      BY <1>1, <2>2
    <3> QED
      BY <1>1, <1>4, <1>7, <2>1, <2>2, <2>3, <2>4, <2>5, <3>1, PushFits
  <2>7. TextFits'
    BY <1>1, <2>1, <2>2, <2>6, SameText DEF StreamFits, TextFits, LogFits
  <2>8. PhaseFits'
    <3>1. seq' >= 1
      BY <2>1, BoundTypes
    <3> QED
      BY <1>1, <1>4, <1>7, <2>1, <3>1 DEF StreamFits, PhaseFits
  <2> QED
    BY <2>6, <2>7, <2>8 DEF StreamFits
<1> QED
  BY <1>6, <1>7

\* A run leaves the live map, with its closing frames.
LEMMA FinalizeFits ==
  ASSUME TypeInv, StreamFits, InMemory, NEW status, NEW text, Finalize(status, text),
         phase = "finishing" \/ phase \in {"queued", "waiting", "starting"}
  PROVE  StreamFits'
<1>1. /\ phase' = "closing" /\ ~InMemory' /\ CutDue' /\ tail' = << >> /\ Slack' = 3
      /\ UNCHANGED <<row, rowText, generation, checkpointed, segments, kept, spoken, resumed,
                     said, client, faults>>
  BY DEF Finalize, durable, InMemory, LivePhases, CutDue, Slack
<1>2. /\ Top(1) = AttemptBase(generation) + said + faults + 1
      /\ Top(3) = AttemptBase(generation) + said + faults + 3 /\ Top(3)' = Top(3)
      /\ AttemptBase(generation) \in Nat /\ said \in Nat /\ faults \in Nat /\ seq \in Nat
  <2>1. AttemptBase(generation)' = AttemptBase(generation)
    BY <1>1
  <2> QED
    BY <1>1, <2>1, BoundTypes DEF Top
<1>3. /\ seq <= Top(3)
      /\ ~hasDone => seq + 1 <= Top(3)
  <2>1. CASE phase = "finishing"
    BY <2>1 DEF StreamFits, PhaseFits, Slack
  <2>2. CASE phase \in {"queued", "waiting", "starting"}
    <3>1. Slack \in {0, 1} /\ seq <= Top(Slack)
      BY <2>2 DEF StreamFits, PhaseFits, Slack
    <3>2. seq <= Top(1)
      <4>1. Top(Slack) = AttemptBase(generation) + said + faults + Slack
        BY DEF Top
      <4> QED
        BY <1>2, <3>1, <4>1
    <3> QED
      BY <1>2, <3>2
  <2> QED
    BY <2>1, <2>2
<1>4. /\ said' \in Nat /\ said' >= said /\ faults' \in Nat /\ faults' >= faults
      /\ TextFits' /\ phase' # "booting"
  BY <1>1, <1>2 DEF TextFits
<1>5. seq' <= Top(3)' => PhaseFits'
  BY <1>1 DEF StreamFits, PhaseFits
<1>6. CASE hasDone
  <2>1. /\ seq' = seq /\ wire' = wire
        /\ inFlight' = IF tail = << >> THEN inFlight ELSE Append(inFlight, tail)
    <3>1. wire \in [Clients -> Seq(Sent)]
      BY DEF TypeInv, ClientTypes
    <3> QED
      BY <1>6, <3>1 DEF Finalize
  <2>2. Log' = Log
    <3>1. CASE tail = << >>
      BY <1>1, <2>1, <3>1 DEF Log, Stored
    <3>2. CASE tail # << >>
      BY <1>1, <2>1, <3>2, BatchesKeepLog
    <3> QED
      BY <3>1, <3>2
  <2>3. LogFits' /\ \A c \in Clients : ClientFits(c)'
    <3>1. Well(Log') /\ Lines(Log') = Lines(Log)
      BY <2>2 DEF StreamFits, LogFits
    <3> QED
      BY <1>1, <1>4, <2>1, <2>2, <3>1, QuietStep DEF StreamFits
  <2> QED
    BY <1>2, <1>3, <1>4, <1>5, <2>1, <2>3 DEF StreamFits
<1>7. CASE ~hasDone
  <2> DEFINE f == Frame(seq + 1, "done", Fresh)
  <2>1. /\ seq' = seq + 1
        /\ inFlight' = IF Append(tail, f) = << >> THEN inFlight ELSE Append(inFlight, Append(tail, f))
        /\ wire' = [c \in Clients |-> IF Subscribed(c) THEN Append(wire[c], f) ELSE wire[c]]
    BY <1>7 DEF Finalize
  <2>2. f \in Sent /\ f.kind = "done" /\ ~Visible(f) /\ ~Cut(f)
    BY BoundTypes, BlankFrame
  <2> HIDE DEF f
  <2>3. f = Frame(seq + 1, "done", Fresh)
    BY DEF f
  <2>4. inFlight' = Append(inFlight, Append(tail, f))
    <3>1. tail \in Seq(Sent)
      BY DEF TypeInv, BufferTypes
    <3>2. Append(tail, f) # << >>
      BY <2>2, <3>1, AppendProperties
    <3> QED
      BY <2>1, <3>2
  <2>5. LogFits' /\ \A c \in Clients : ClientFits(c)'
    <3>1. /\ "done" \in {"run", "text", "note", "done", "trailer"} /\ Fresh \in Nat \cup {Fresh}
          /\ UNCHANGED <<segments, client, checkpointed, generation, faults>>
          /\ row' = row
      BY <1>1
    <3>2. seq + 1 <= Top(3)'
      BY <1>2, <1>3, <1>7
    <3> QED
      BY <1>1, <1>4, <2>1, <2>2, <2>3, <2>4, <3>1, <3>2, PushFits
  <2> QED
    BY <1>2, <1>3, <1>4, <1>5, <1>7, <2>1, <2>5 DEF StreamFits
<1> QED
  BY <1>6, <1>7

\* A reset: what was packed is left, every connection is lost.
LEMMA CrashFits ==
  ASSUME TypeInv, StreamFits, row \notin EndStatus, Crash
  PROVE  StreamFits'
<1>1. /\ phase' = "booting" /\ ~InMemory' /\ CutDue' /\ row' = row /\ Slack' = 3
      /\ seq' = 0 /\ tail' = << >> /\ inFlight' = << >> /\ kept' = << >> /\ spoken' = << >>
      /\ resumed' = FALSE /\ faults' = faults + 1 /\ faults < MaxFaults
      /\ UNCHANGED <<generation, checkpointed, segments, lastId, shown, said>>
      /\ conn' = [c \in Clients |-> IF conn[c] = "ended" THEN "ended" ELSE "away"]
      /\ wire' = [c \in Clients |-> << >>]
  BY DEF Crash, Fault, durable, InMemory, LivePhases, CutDue, Slack
<1>2. /\ Top(3)' = Top(3) + 1 /\ Top(3) \in Nat /\ faults' <= MaxFaults
  <2>1. /\ Top(3) = AttemptBase(generation) + said + faults + 3
        /\ Top(3)' = AttemptBase(generation) + said + (faults + 1) + 3
    BY <1>1 DEF Top, AttemptBase
  <2> QED
    BY <1>1, <2>1, BoundTypes
<1>3. PhaseFits'
  <2>1. seq' <= Top(3)'
    BY <1>1, <1>2
  <2> QED
    BY <1>1, <1>2, <2>1 DEF StreamFits, PhaseFits
<1> DEFINE b == Joined(inFlight) \o tail
<1>4. Stored \in Seq(Sent) /\ b \in Seq(Sent) /\ Log = Stored \o b
  BY StoredType DEF Log
<1> HIDE DEF b
<1>5. Log' = Stored
  <2>1. Joined(inFlight') \o tail' = << >>
    BY <1>1, JoinedEmpty
  <2>2. Stored' = Stored
    BY <1>1 DEF Stored
  <2>3. Stored \o << >> = Stored
    BY <1>4, ConcatEmptySeq
  <2> QED
    BY <2>1, <2>2, <2>3 DEF Log
<1>6. /\ Well(Stored)
      /\ \A p, q, n, x : q /\ Follows(Log, p, n, x) => Follows(Stored, q, n, x)
  <2>1. Well(Stored \o b)
    BY <1>4 DEF StreamFits, LogFits
  <2>2. /\ Well(Stored)
        /\ \A p, q, n, x : q /\ Follows(Stored \o b, p, n, x) => Follows(Stored, q, n, x)
    BY <1>4, <2>1, LogCut
  <2> QED
    BY <1>4, <2>2
<1>7. \A f : In(f, Stored) => In(f, Log) /\ f \in Sent
  BY <1>4, InConcat, InType
<1>8. LogFits'
  <2>1. ASSUME NEW f, In(f, Stored)
        PROVE  NumberFits(f)' /\ (~checkpointed => ~Visible(f))
    <3>1. NumberFits(f) /\ (~checkpointed => ~Visible(f)) /\ f.seq \in Nat
      BY <1>7, <2>1, SentTypes DEF StreamFits, LogFits
    <3>2. f.seq <= Top(3)'
      BY <1>2, <3>1 DEF NumberFits
    <3> QED
      BY <1>1, <3>1, <3>2 DEF NumberFits
  <2> QED
    BY <1>1, <1>5, <1>6, <2>1 DEF LogFits
<1>9. ASSUME NEW c \in Clients
      PROVE  ClientFits(c)'
  <2> SUFFICES ASSUME conn[c] # "ended"
               PROVE  ClientFits(c)'
    BY <1>1 DEF ClientFits
  <2> DEFINE n == lastId[c]
             x == shown[c]
  <2>1. /\ ~checkpointed => x = << >>
        /\ CursorFits(n)
        /\ Follows(Log, CutDue, n, x)
    BY DEF StreamFits, ClientFits
  <2>2. n \in Nat /\ lastId'[c] = n /\ shown'[c] = x /\ conn'[c] = "away" /\ wire'[c] = << >>
    BY <1>1 DEF TypeInv, ClientTypes
  <2> HIDE DEF n, x
  <2>3. CursorFits(n)'
    <3>1. n <= Top(3)'
      BY <1>2, <2>1, <2>2 DEF CursorFits
    <3> QED
      BY <1>1, <2>1, <3>1 DEF CursorFits, n
  <2>4. Follows(Log', CutDue', n, x)
    BY <1>1, <1>5, <1>6, <2>1
  <2>5. Complete(Log', n, << >>, 0) /\ \A f : ~In(f, << >>)
    BY EmptySeq DEF Complete, In
  <2>6. ~Subscribed(c)'
    BY <2>2 DEF Subscribed
  <2>7. CursorFits(lastId[c])'
    BY <2>3 DEF n
  <2> QED
    BY <1>1, <2>1, <2>2, <2>4, <2>5, <2>6, <2>7 DEF ClientFits
<1>10. TextFits'
  BY <1>1 DEF TextFits
<1> QED
  BY <1>3, <1>8, <1>9, <1>10 DEF StreamFits

\* At the boot no client is connected, and the log is what was packed.
LEMMA BootLog ==
  ASSUME TypeInv, StreamFits, phase = "booting"
  PROVE  /\ tail = << >> /\ inFlight = << >> /\ kept = << >> /\ spoken = << >> /\ Log = Stored
         /\ \A c \in Clients : conn[c] # "ended" => conn[c] = "away" /\ wire[c] = << >>
<1>1. tail = << >> /\ inFlight = << >> /\ kept = << >> /\ spoken = << >>
  BY DEF StreamFits, PhaseFits, InMemory, LivePhases
<1>2. Log = Stored
  BY <1>1, LogParts
<1>3. \A c \in Clients : conn[c] # "ended" => conn[c] = "away" /\ wire[c] = << >>
  BY DEF StreamFits, ClientFits
<1> QED
  BY <1>1, <1>2, <1>3

\* A step of the boot that leaves the log alone.
LEMMA BootStep ==
  ASSUME TypeInv, StreamFits, phase = "booting", phase' # "booting",
         UNCHANGED <<segments, inFlight, tail, client, wire, checkpointed>>,
         \A f \in Sent : In(f, Log) /\ NumberFits(f) => NumberFits(f)',
         \A n \in Nat : CursorFits(n) => CursorFits(n)',
         CutDue' \/ ~checkpointed
  PROVE  LogFits' /\ \A c \in Clients : ClientFits(c)'
<1>1. /\ Log' = Log /\ CutDue /\ Log \in Seq(Sent)
      /\ UNCHANGED <<conn, lastId, shown, wire, checkpointed>>
  BY DEF Log, Stored, CutDue, client, StreamFits, LogFits, Well
<1>2. LogFits'
  <2>1. Well(Log)'
    BY <1>1 DEF StreamFits, LogFits
  <2> QED
    BY <1>1, <2>1, InType DEF StreamFits, LogFits
<1>3. ASSUME NEW c \in Clients
      PROVE  ClientFits(c)'
  <2> SUFFICES ASSUME conn[c] # "ended"
               PROVE  ClientFits(c)'
    BY <1>1 DEF ClientFits
  <2> DEFINE n == lastId[c]
             x == shown[c]
  <2>1. /\ ~checkpointed => x = << >>
        /\ CursorFits(n)
        /\ Follows(Log, CutDue, n, x)
    BY DEF StreamFits, ClientFits
  <2>2. /\ n \in Nat /\ lastId'[c] = n /\ shown'[c] = x /\ conn'[c] = "away"
        /\ wire'[c] = << >>
    BY <1>1, BootLog DEF TypeInv, ClientTypes
  <2>3. CursorFits(lastId[c])'
    <3>1. CursorFits(n)'
      BY <2>1, <2>2
    <3> QED
      BY <3>1
  <2> HIDE DEF n, x
  <2>4. Follows(Log, CutDue', n, x)
    <3>1. CASE CutDue'
      BY <2>1, <3>1, FollowsWeaker
    <3>2. CASE ~checkpointed
      <4>1. Lines(Log) = << >> /\ x = << >>
        BY <2>1, <3>2, BlankLog DEF StreamFits
      <4> QED
        BY <4>1, FollowsNothing
    <3> QED
      BY <3>1, <3>2
  <2>5. Complete(Log, n, << >>, 0) /\ \A f : ~In(f, << >>)
    BY EmptySeq DEF Complete, In
  <2>6. ~Subscribed(c)'
    BY <2>2 DEF Subscribed
  <2> QED
    BY <1>1, <2>1, <2>2, <2>3, <2>4, <2>5, <2>6 DEF ClientFits
<1> QED
  BY <1>2, <1>3

\* A queued run is reopened, and no packed frame is numbered above 1.
LEMMA ReopenFits ==
  ASSUME TypeInv, StreamFits, ~renumbered', ReopenQueued
  PROVE  StreamFits'
<1>1. /\ phase = "booting" /\ row = "queued" /\ phase' = "queued" /\ InMemory' /\ ~CutDue'
      /\ seq' = 0 /\ Slack' = 1 /\ ~checkpointed /\ Limit' = 1
      /\ \A i \in 1 .. Len(Stored) : ~(Stored[i].seq > 1)
      /\ UNCHANGED <<row, generation, tail, inFlight, hasDone, kept, checkpointed, segments,
                     spoken, resumed, said, client, wire, faults>>
  <2>1. /\ phase = "booting" /\ row = "queued" /\ phase' = "queued" /\ seq' = 0
        /\ UNCHANGED <<row, generation, tail, inFlight, hasDone, kept, checkpointed, segments,
                       spoken, resumed, said, client, wire, faults>>
    BY DEF ReopenQueued, BootFrame
  <2>2. \A i \in 1 .. Len(Stored) : ~(Stored[i].seq > 1)
    BY DEF ReopenQueued
  <2>3. InMemory' /\ ~CutDue' /\ Slack' = 1 /\ Limit' = 1
    BY <2>1 DEF InMemory, LivePhases, CutDue, Slack, Limit, Larger
  <2>4. ~checkpointed
    BY <2>1 DEF StreamFits, PhaseFits
  <2> QED
    BY <2>1, <2>2, <2>3, <2>4
<1>2. /\ kept = << >> /\ spoken = << >> /\ tail = << >> /\ inFlight = << >> /\ Log = Stored
  BY <1>1, BootLog
<1>3. /\ Top(3)' = Top(3) /\ Top(1)' \in Nat
  <2>1. AttemptBase(generation)' = AttemptBase(generation)
    BY <1>1
  <2> QED
    BY <1>1, <2>1, BoundTypes DEF Top
<1>4. PhaseFits'
  <2>1. seq' <= Top(1)'
    BY <1>1, <1>3
  <2> QED
    BY <1>1, <1>2, <2>1 DEF StreamFits, PhaseFits
<1>5. TextFits'
  <2>1. Log' = Log
    BY <1>1 DEF Log, Stored
  <2>2. TextOf(Log) = << >>
    BY <1>1, BlankLog DEF StreamFits
  <2>3. << >> \o << >> = << >>
    OBVIOUS
  <2> QED
    BY <1>1, <1>2, <2>1, <2>2, <2>3 DEF TextFits
<1>6. ASSUME NEW f \in Sent, In(f, Log), NumberFits(f)
      PROVE  NumberFits(f)'
  <2>1. ~(f.seq > 1) /\ f.seq \in Nat
    BY <1>1, <1>2, <1>6, SentTypes DEF In
  <2>2. f.seq <= 1 /\ f.seq <= Top(3)
    BY <1>6, <2>1 DEF NumberFits
  <2> QED
    BY <1>1, <1>3, <2>2 DEF NumberFits
<1>7. ASSUME NEW n \in Nat, CursorFits(n)
      PROVE  CursorFits(n)'
  BY <1>1, <1>3, <1>7 DEF CursorFits
<1>8. LogFits' /\ \A c \in Clients : ClientFits(c)'
  BY <1>1, <1>6, <1>7, BootStep
<1> QED
  BY <1>4, <1>5, <1>8 DEF StreamFits

\* The next attempt starts above all that the last one handed out.
LEMMA NextBase ==
  ASSUME TypeInv, StreamFits, phase = "booting"
  PROVE  /\ StartSeq = AttemptBase(generation + 1) /\ StartSeq \in Nat /\ StartSeq >= 1
         /\ Top(3) <= StartSeq /\ Top(3) \in Nat
<1>1. /\ Top(3) = AttemptBase(generation) + said + faults + 3
      /\ AttemptBase(generation) \in Nat /\ said \in Nat /\ faults \in Nat
      /\ said <= MaxChunks /\ faults <= MaxFaults /\ MaxChunks \in Nat /\ MaxFaults \in Nat
  BY BoundTypes DEF Top, StreamFits, PhaseFits
<1>2. AttemptBase(generation + 1) = AttemptBase(generation) + Span /\ Span \in Nat /\ Span >= 1
  BY BoundTypes, StreamAssumption DEF AttemptBase
<1>3. Span >= MaxChunks + MaxFaults + 3
  BY SpanAssumption
<1>4. /\ Top(3) <= AttemptBase(generation + 1) /\ AttemptBase(generation + 1) \in Nat
      /\ AttemptBase(generation + 1) >= 1 /\ Top(3) \in Nat
  BY <1>1, <1>2, <1>3
<1>5. ASSUME segments # << >>
      PROVE  LastOf(Stored).seq <= Top(3) /\ LastOf(Stored).seq \in Nat
  <2>1. LastOf(Stored) \in Sent /\ In(LastOf(Stored), Stored)
    BY <1>5, StoredType, LastIsIn
  <2> QED
    BY <2>1, BootLog, SentTypes DEF StreamFits, LogFits, NumberFits
<1>6. ~(segments # << >> /\ LastOf(Stored).seq > AttemptBase(generation + 1))
  BY <1>4, <1>5
<1>7. ~(0 > AttemptBase(generation + 1))
  BY <1>4
<1>8. StartSeq = AttemptBase(generation + 1)
  BY <1>6, <1>7 DEF StartSeq, Larger
<1> QED
  BY <1>4, <1>8

\* Another attempt is scheduled.
LEMMA RecoverFits ==
  ASSUME TypeInv, StreamFits, Recover
  PROVE  StreamFits'
<1>1. /\ phase = "booting" /\ row \in {"running", "recovering"} /\ row' = "recovering"
      /\ phase' = "waiting" /\ InMemory' /\ CutDue' /\ Slack' = 0
      /\ seq' = StartSeq /\ generation' = generation + 1
      /\ kept' = IF checkpointed THEN TextOf(Stored) ELSE << >>
      /\ UNCHANGED <<tail, inFlight, hasDone, checkpointed, segments,
                     spoken, resumed, said, client, wire, faults>>
  BY DEF Recover, BootFrame, InMemory, LivePhases, CutDue, Slack
<1>2. /\ spoken = << >> /\ tail = << >> /\ inFlight = << >> /\ Log = Stored
  BY <1>1, BootLog
<1>3. /\ StartSeq = AttemptBase(generation + 1) /\ StartSeq \in Nat /\ StartSeq >= 1
      /\ Top(3) <= StartSeq /\ Top(3) \in Nat
  BY <1>1, NextBase
<1>4. /\ seq' <= Top(0)' /\ Top(3)' \in Nat /\ StartSeq <= Top(3)' /\ Limit' \in Nat
      /\ StartSeq <= Limit'
  <2>1. /\ Top(0)' = StartSeq + said + faults + 0
        /\ Top(3)' = StartSeq + said + faults + 3
    <3>1. AttemptBase(generation)' = AttemptBase(generation + 1)
      BY <1>1
    <3> QED
      BY <1>1, <1>3, <3>1 DEF Top
  <2>2. Limit' = IF StartSeq > 1 THEN StartSeq ELSE 1
    BY <1>1 DEF Limit, Larger
  <2>3. StartSeq \in Nat /\ said \in Nat /\ faults \in Nat
    BY <1>3, BoundTypes
  <2>4. /\ StartSeq <= Top(0)' /\ Top(3)' \in Nat /\ StartSeq <= Top(3)' /\ Limit' \in Nat
        /\ StartSeq <= Limit'
    BY ONLY <2>1, <2>2, <2>3
  <2> QED
    BY <1>1, <2>4
<1>5. PhaseFits'
  BY <1>1, <1>2, <1>3, <1>4 DEF StreamFits, PhaseFits
<1>6. TextFits'
  <2>1. Log' = Log
    BY <1>1 DEF Log, Stored
  <2>2. kept' = TextOf(Log)
    BY <1>1, <1>2, BlankLog DEF StreamFits
  <2>3. TextOf(Log) \in Seq(Nat)
    BY LogParts, TextOfType
  <2>4. TextOf(Log) \o << >> = TextOf(Log)
    BY <2>3, ConcatEmptySeq
  <2> QED
    BY <1>1, <1>2, <2>1, <2>2, <2>4 DEF TextFits
<1>7. ASSUME NEW n \in Nat, n <= Top(3)
      PROVE  n <= Top(3)' /\ n <= Limit'
  BY <1>3, <1>4, <1>7
<1>8. ASSUME NEW f \in Sent, NumberFits(f)
      PROVE  NumberFits(f)'
  <2>1. f.seq \in Nat /\ f.seq <= Top(3)
    BY <1>8, SentTypes DEF NumberFits
  <2>2. f.seq <= Top(3)' /\ f.seq <= Limit'
    BY <1>7, <2>1
  <2> QED
    BY <1>1, <2>2 DEF NumberFits
<1>9. ASSUME NEW n \in Nat, CursorFits(n)
      PROVE  CursorFits(n)'
  <2>1. n <= Top(3)' /\ n <= Limit'
    BY <1>7, <1>9 DEF CursorFits
  <2> QED
    BY <1>1, <2>1 DEF CursorFits
<1>10. LogFits' /\ \A c \in Clients : ClientFits(c)'
  BY <1>1, <1>8, <1>9, BootStep
<1> QED
  BY <1>5, <1>6, <1>10 DEF StreamFits

\* The recoveries are spent: the run is closed as interrupted.
LEMMA InterruptFits ==
  ASSUME TypeInv, StreamFits, Interrupt
  PROVE  StreamFits'
<1> PICK f : f = Frame(StartSeq + 1, "done", Fresh)
  OBVIOUS
<1>1. /\ phase = "booting" /\ row \in {"running", "recovering"} /\ row' = row
      /\ phase' = "closing" /\ ~InMemory' /\ CutDue' /\ Slack' = 3
      /\ seq' = StartSeq + 1 /\ generation' = generation + 1 /\ inFlight' = << <<f>> >>
      /\ UNCHANGED <<tail, checkpointed, segments, spoken, resumed, said, client, wire, faults>>
  BY DEF Interrupt, BootFrame, InMemory, LivePhases, CutDue, Slack
<1>2. /\ spoken = << >> /\ tail = << >> /\ inFlight = << >> /\ Log = Stored
      /\ \A c \in Clients : ~Subscribed(c)
  BY <1>1, BootLog DEF Subscribed, InMemory, LivePhases
<1>3. /\ StartSeq = AttemptBase(generation + 1) /\ StartSeq \in Nat /\ StartSeq >= 1
      /\ Top(3) <= StartSeq /\ Top(3) \in Nat
  BY <1>1, NextBase
<1>4. /\ Top(3)' \in Nat /\ StartSeq + 1 <= Top(3)' /\ Top(3) <= Top(3)'
  <2>1. Top(3)' = StartSeq + said + faults + 3
    <3>1. AttemptBase(generation)' = AttemptBase(generation + 1)
      BY <1>1
    <3> QED
      BY <1>1, <1>3, <3>1 DEF Top
  <2> QED
    BY <1>3, <2>1, BoundTypes
<1>5. f \in Sent /\ f.kind = "done" /\ ~Visible(f) /\ ~Cut(f) /\ f.seq = StartSeq + 1
  <2>1. f \in Sent /\ f.kind = "done" /\ ~Visible(f) /\ ~Cut(f)
    BY <1>3, BlankFrame
  <2>2. f.seq = StartSeq + 1
    BY DEF Frame
  <2> QED
    BY <2>1, <2>2
<1>6. PhaseFits'
  BY <1>1, <1>2, <1>4 DEF StreamFits, PhaseFits
<1>7. TextFits'
  BY <1>1 DEF TextFits
<1>8. Log' = Append(Log, f)
  <2>1. tail' = << >> /\ inFlight' = Append(inFlight, Append(tail, f))
    <3>1. Append(<< >>, f) = <<f>> /\ Append(<< >>, <<f>>) = << <<f>> >>
      OBVIOUS
    <3> QED
      BY <1>1, <1>2, <3>1
  <2>2. segments' = segments
    BY <1>1
  <2> QED
    BY <1>5, <2>1, <2>2, PushLog
<1>9. ASSUME NEW e \in Sent, NumberFits(e)
      PROVE  NumberFits(e)' /\ Precedes(e, f)
  <2>1. e.seq \in Nat /\ e.seq <= Top(3)
    BY <1>9, SentTypes DEF NumberFits
  <2>2. e.seq <= Top(3)' /\ e.seq < f.seq
    BY <1>3, <1>4, <1>5, <2>1
  <2> QED
    BY <1>1, <2>2 DEF NumberFits, Precedes
<1>10. ASSUME NEW n \in Nat, CursorFits(n)
       PROVE  CursorFits(n)'
  <2>1. n <= Top(3)'
    BY <1>3, <1>4, <1>10 DEF CursorFits
  <2> QED
    BY <1>1, <2>1 DEF CursorFits
<1>11. LogFits' /\ \A c \in Clients : ClientFits(c)'
  <2>1. LogFits /\ \A c \in Clients : ClientFits(c)
    BY DEF StreamFits
  <2>2. wire' = [c \in Clients |-> IF Subscribed(c) THEN Append(wire[c], f) ELSE wire[c]]
    <3>1. wire \in [Clients -> Seq(Sent)]
      BY DEF TypeInv, ClientTypes
    <3> QED
      BY <1>1, <1>2, <3>1
  <2>3. \A e : In(e, Log) => Precedes(e, f)
    <3>1. \A e : In(e, Log) => e \in Sent /\ NumberFits(e)
      BY InType DEF StreamFits, LogFits, Well
    <3> QED
      BY <1>9, <3>1
  <2>4. NumberFits(f)' /\ f.seq >= 1
    BY <1>1, <1>3, <1>4, <1>5 DEF NumberFits
  <2>5. f.kind # "text"
    BY <1>5
  <2>6. UNCHANGED <<client, checkpointed>> /\ phase' # "booting" /\ (InMemory' => InMemory)
    BY <1>1
  <2> QED
    BY <1>1, <1>5, <1>8, <1>9, <1>10, <2>1, <2>2, <2>3, <2>4, <2>5, <2>6, PushStep
<1> QED
  BY <1>6, <1>7, <1>11 DEF StreamFits

-----------------------------------------------------------------------------
(* The clients *)

\* A step of one client leaves the run, the log and the other clients alone.
LEMMA ClientFrame ==
  ASSUME TypeInv, StreamFits, UNCHANGED <<durable, phase, buffer, attempt, history>>,
         faults' = faults \/ (faults < MaxFaults /\ faults' = faults + 1),
         NEW c \in Clients,
         \A d \in Clients \ {c} : /\ conn'[d] = conn[d] /\ lastId'[d] = lastId[d]
                                  /\ shown'[d] = shown[d] /\ wire'[d] = wire[d]
  PROVE  /\ Log' = Log /\ (InMemory' <=> InMemory) /\ (CutDue' <=> CutDue)
         /\ \A f \in Sent : NumberFits(f) => NumberFits(f)'
         /\ \A n \in Nat : CursorFits(n) => CursorFits(n)'
         /\ ClientFits(c)' => StreamFits'
<1>1. /\ UNCHANGED <<row, rowText, generation, checkpointed, segments, phase, seq, tail, inFlight,
                     hasDone, kept, spoken, resumed, outcome, said>>
  BY DEF durable, buffer, attempt
<1>2. /\ Log' = Log /\ (InMemory' <=> InMemory) /\ (CutDue' <=> CutDue) /\ Slack' = Slack
      /\ Limit' = Limit
  BY <1>1 DEF Log, Stored, InMemory, CutDue, Slack, Limit
<1>3. /\ faults' <= MaxFaults /\ Top(3) \in Nat /\ Top(3)' \in Nat /\ Top(3) <= Top(3)'
      /\ seq <= Top(Slack) => seq <= Top(Slack)'
  <2>1. /\ Top(3) = AttemptBase(generation) + said + faults + 3
        /\ Top(3)' = AttemptBase(generation) + said + faults' + 3
        /\ Top(Slack) = AttemptBase(generation) + said + faults + Slack
        /\ Top(Slack)' = AttemptBase(generation) + said + faults' + Slack
    <3>1. AttemptBase(generation)' = AttemptBase(generation)
      BY <1>1
    <3> QED
      BY <1>1, <1>2, <3>1 DEF Top
  <2>2. /\ AttemptBase(generation) \in Nat /\ said \in Nat /\ faults \in Nat /\ Slack \in Nat
        /\ seq \in Nat /\ MaxFaults \in Nat
    BY BoundTypes
  <2>3. faults <= MaxFaults
    BY DEF StreamFits, PhaseFits
  <2>4. faults' = faults \/ (faults < MaxFaults /\ faults' = faults + 1)
    OBVIOUS
  <2> QED
    BY ONLY <2>1, <2>2, <2>3, <2>4
<1>4. ASSUME NEW f \in Sent, NumberFits(f)
      PROVE  NumberFits(f)'
  <2>1. f.seq \in Nat /\ f.seq <= Top(3)
    BY <1>4, SentTypes DEF NumberFits
  <2>2. f.seq <= Top(3)'
    BY <1>3, <2>1
  <2> QED
    BY <1>1, <1>2, <1>4, <2>2 DEF NumberFits
<1>5. ASSUME NEW n \in Nat, CursorFits(n)
      PROVE  CursorFits(n)'
  <2>1. n <= Top(3)'
    BY <1>3, <1>5 DEF CursorFits
  <2> QED
    BY <1>1, <1>2, <1>5, <2>1 DEF CursorFits
<1>6. PhaseFits'
  BY <1>1, <1>2, <1>3 DEF StreamFits, PhaseFits
<1>7. LogFits'
  <2>1. Well(Log)' /\ Log \in Seq(Sent)
    BY <1>2 DEF StreamFits, LogFits, Well
  <2> QED
    BY <1>1, <1>2, <1>4, <2>1, InType DEF StreamFits, LogFits
<1>8. TextFits'
  BY <1>1, <1>2 DEF StreamFits, TextFits
<1>9. ASSUME NEW d \in Clients \ {c}
      PROVE  ClientFits(d)'
  <2> SUFFICES ASSUME conn[d] # "ended"
               PROVE  ClientFits(d)'
    BY DEF ClientFits
  <2>1. /\ ~checkpointed => shown[d] = << >>
        /\ phase = "booting" => conn[d] = "away" /\ wire[d] = << >>
        /\ CursorFits(lastId[d]) /\ \A f : In(f, wire[d]) => NumberFits(f)
        /\ Follows(Log, CutDue, lastId[d], shown[d])
        /\ Complete(Log, lastId[d], wire[d], 0)
        /\ Subscribed(d) => Full(Log, lastId[d], wire[d], 0)
    BY DEF StreamFits, ClientFits
  <2>2. lastId[d] \in Nat /\ wire[d] \in Seq(Sent)
    BY DEF TypeInv, ClientTypes
  <2>3. CursorFits(lastId[d])'
    <3> DEFINE n == lastId[d]
    <3>1. lastId'[d] = n /\ n \in Nat /\ CursorFits(n)
      BY <2>1, <2>2
    <3> QED
      BY <1>1, <1>2, <1>3, <3>1 DEF CursorFits
  <2>4. \A f : In(f, wire'[d]) => NumberFits(f)'
    BY <1>4, <2>1, <2>2, InType
  <2>5. Follows(Log', CutDue', lastId'[d], shown'[d])
    <3>1. CutDue' = CutDue
      BY <1>2 DEF CutDue
    <3> QED
      BY <1>2, <2>1, <3>1
  <2>6. Subscribed(d)' => Subscribed(d)
    BY <1>2 DEF Subscribed
  <2> QED
    BY <1>1, <1>2, <2>1, <2>3, <2>4, <2>5, <2>6 DEF ClientFits
<1>10. ClientFits(c)' => \A d \in Clients : ClientFits(d)'
  BY <1>9
<1> QED
  BY <1>2, <1>4, <1>5, <1>6, <1>7, <1>8, <1>10 DEF StreamFits

\* What a client knows of the log.
LEMMA ClientParts ==
  ASSUME TypeInv, StreamFits, NEW c \in Clients, conn[c] # "ended"
  PROVE  /\ lastId[c] \in Nat /\ shown[c] \in Seq(Nat) /\ wire[c] \in Seq(Sent)
         /\ ~checkpointed => shown[c] = << >>
         /\ phase = "booting" => conn[c] = "away" /\ wire[c] = << >>
         /\ CursorFits(lastId[c]) /\ \A f : In(f, wire[c]) => NumberFits(f)
         /\ Follows(Log, CutDue, lastId[c], shown[c])
         /\ Complete(Log, lastId[c], wire[c], 0)
         /\ Subscribed(c) => Full(Log, lastId[c], wire[c], 0)
BY DEF StreamFits, ClientFits, TypeInv, ClientTypes

\* A client whose cursor and text stay fits when its wire does.
LEMMA CursorStays ==
  ASSUME TypeInv, StreamFits, UNCHANGED <<durable, phase, buffer, attempt, history>>,
         faults' = faults \/ (faults < MaxFaults /\ faults' = faults + 1),
         NEW c \in Clients, conn[c] # "ended",
         \A d \in Clients \ {c} : /\ conn'[d] = conn[d] /\ wire'[d] = wire[d],
         UNCHANGED <<lastId, shown>>,
         phase = "booting" => conn'[c] = "away" /\ wire'[c] = << >>,
         NEW w \in Seq(Sent), wire'[c] = w,
         \A f : In(f, w) => NumberFits(f)',
         Complete(Log, lastId[c], w, 0),
         conn'[c] = "attached" /\ InMemory => Full(Log, lastId[c], w, 0)
  PROVE  StreamFits'
<1>1. /\ Log' = Log /\ (InMemory' <=> InMemory) /\ (CutDue' <=> CutDue)
      /\ \A n \in Nat : CursorFits(n) => CursorFits(n)'
      /\ ClientFits(c)' => StreamFits'
  BY ClientFrame
<1>2. phase' = phase /\ checkpointed' = checkpointed
  BY DEF durable
<1>3. CursorFits(lastId[c])'
  <2> DEFINE n == lastId[c]
  <2>1. lastId'[c] = n /\ n \in Nat /\ CursorFits(n)
    BY ClientParts
  <2>2. PICK m \in Nat : m = n
    BY <2>1
  <2>3. CursorFits(m)'
    BY <1>1, <2>1, <2>2
  <2> QED
    BY <2>1, <2>2, <2>3 DEF CursorFits
<1>4. Follows(Log', CutDue', lastId'[c], shown'[c])
  <2>1. CutDue' = CutDue
    BY <1>1 DEF CutDue
  <2> QED
    BY <1>1, <2>1, ClientParts
<1>5. Complete(Log', lastId'[c], wire'[c], 0)
      /\ (Subscribed(c)' => Full(Log', lastId'[c], wire'[c], 0))
  BY <1>1 DEF Subscribed
<1>6. ~checkpointed' => shown'[c] = << >>
  BY <1>2, ClientParts
<1>7. phase' = "booting" => conn'[c] = "away" /\ wire'[c] = << >>
  BY <1>2
<1>8. \A f : In(f, wire'[c]) => NumberFits(f)'
  OBVIOUS
<1> QED
  BY <1>1, <1>3, <1>4, <1>5, <1>6, <1>7, <1>8 DEF ClientFits

\* The frames after a cursor are those of the log, in its order.
LEMMA AfterParts ==
  ASSUME NEW s \in Seq(Sent), NEW n \in Nat
  PROVE  /\ After(s, n) \in Seq(Sent)
         /\ \A v : In(v, After(s, n)) <=> In(v, s) /\ v.seq > n
         /\ Ordered(s) => Ordered(After(s, n))
<1> DEFINE T == {f \in Frames : f.seq > n}
<1>1. \A v \in Sent : v \in T <=> v.seq > n
  BY SentTypes
<1> HIDE DEF T
<1>2. Only(s, T) \in Seq(Sent) /\ \A v : In(v, Only(s, T)) <=> In(v, s) /\ v \in T
  BY OnlyType, OnlyIn
<1>3. \A v : In(v, s) => v \in Sent
  BY InType
<1>4. Ordered(s) => Ordered(Only(s, T))
  BY OnlyOrdered
<1>5. After(s, n) = Only(s, T)
  BY DEF After, T
<1> QED
  BY <1>1, <1>2, <1>3, <1>4, <1>5

\* What a join of a live run reads and sends is all that the log has after the
\* cursor: nothing falls between the segments and the tail.
LEMMA JoinLive ==
  ASSUME NEW a \in Seq(Sent), NEW b \in Seq(Sent), Well(a \o b), NEW n \in Nat,
         NEW replay, replay = After(a, n),
         NEW cursor, cursor = IF replay = << >> THEN n ELSE LastOf(replay).seq
  PROVE  /\ replay \o After(b, cursor) \in Seq(Sent)
         /\ \A v : In(v, replay \o After(b, cursor)) => In(v, a \o b)
         /\ Complete(a \o b, n, replay \o After(b, cursor), 0)
         /\ Full(a \o b, n, replay \o After(b, cursor), 0)
<1> DEFINE s == a \o b
           rest == After(b, cursor)
           w == replay \o rest
<1>1. /\ s \in Seq(Sent) /\ Ordered(s)
      /\ \A f : In(f, s) => f.seq >= 1 /\ (Visible(f) => f.seq >= 2)
  BY DEF Well
<1>2. \A v : In(v, s) <=> In(v, a) \/ In(v, b)
  BY InConcat
<1>3. Ordered(a) /\ Ordered(b) /\ \A f, e : In(f, a) /\ In(e, b) => Precedes(f, e)
  BY <1>1, OrderedConcat
<1>4. /\ replay \in Seq(Sent) /\ Ordered(replay)
      /\ \A v : In(v, replay) <=> In(v, a) /\ v.seq > n
  BY <1>3, AfterParts
<1>5. /\ cursor \in Nat
      /\ replay # << >> => In(LastOf(replay), a) /\ cursor = LastOf(replay).seq
  <2>1. replay # << >> => LastOf(replay) \in Sent /\ In(LastOf(replay), replay)
    BY <1>4, LastIsIn
  <2> QED
    BY <1>4, <2>1, SentTypes
<1>6. /\ rest \in Seq(Sent) /\ Ordered(rest)
      /\ \A v : In(v, rest) <=> In(v, b) /\ v.seq > cursor
  BY <1>3, <1>5, AfterParts
<1> HIDE DEF s, rest
<1>7. w \in Seq(Sent) /\ \A v : In(v, w) <=> In(v, replay) \/ In(v, rest)
  BY <1>4, <1>6, ConcatProperties, InConcat
<1>8. Ordered(w)
  BY <1>3, <1>4, <1>6, OrderedConcat
<1>9. ASSUME NEW v, In(v, s), Visible(v), n < v.seq
      PROVE  In(v, w)
  <2>1. CASE In(v, a)
    BY <1>4, <1>7, <1>9, <2>1
  <2>2. CASE In(v, b)
    <3>1. v \in Sent /\ v.seq \in Nat /\ v.seq >= 2
      BY <1>1, <1>9, <2>2, InType, SentTypes
    <3>2. v.seq > cursor
      <4>1. CASE replay = << >>
        BY <1>9, <4>1
      <4>2. CASE replay # << >>
        <5>1. Precedes(LastOf(replay), v)
          BY <1>3, <1>5, <2>2, <4>2
        <5> QED
          BY <1>5, <3>1, <4>2, <5>1 DEF Precedes
      <4> QED
        BY <4>1, <4>2
    <3> QED
      BY <1>6, <1>7, <2>2, <3>2
  <2> QED
    BY <1>2, <1>9, <2>1, <2>2
<1>10. \A v : In(v, w) => In(v, s)
  BY <1>2, <1>4, <1>6, <1>7
<1> HIDE DEF w
<1>11. Complete(s, n, w, 0)
  BY <1>1, <1>7, <1>8, <1>9, <1>10, JoinComplete
<1>12. Full(s, n, w, 0)
  <2>1. 0 + 1 = 1
    OBVIOUS
  <2> QED
    BY <1>9, <2>1 DEF Full, In
<1> QED
  BY <1>7, <1>10, <1>11, <1>12 DEF s, w, rest

\* What a join of an ended run replays is all that was packed after the cursor.
LEMMA JoinEnded ==
  ASSUME NEW a \in Seq(Sent), NEW b \in Seq(Sent), Well(a \o b), NEW n \in Nat,
         NEW T, \A f \in Sent : Visible(f) => f \in T
  PROVE  /\ Only(After(a, n), T) \in Seq(Sent)
         /\ \A v : In(v, Only(After(a, n), T)) => In(v, a \o b)
         /\ Complete(a \o b, n, Only(After(a, n), T), 0)
<1> DEFINE s == a \o b
           replay == After(a, n)
           w == Only(replay, T)
<1>1. /\ s \in Seq(Sent) /\ Ordered(s)
      /\ \A f : In(f, s) => f.seq >= 1 /\ (Visible(f) => f.seq >= 2)
  BY DEF Well
<1>2. \A v : In(v, s) <=> In(v, a) \/ In(v, b)
  BY InConcat
<1>3. Ordered(a) /\ \A f, e : In(f, a) /\ In(e, b) => Precedes(f, e)
  BY <1>1, OrderedConcat
<1>4. /\ replay \in Seq(Sent) /\ Ordered(replay)
      /\ \A v : In(v, replay) <=> In(v, a) /\ v.seq > n
  BY <1>3, AfterParts
<1> HIDE DEF s, replay
<1>5. w \in Seq(Sent) /\ Ordered(w) /\ \A v : In(v, w) <=> In(v, replay) /\ v \in T
  BY <1>4, OnlyType, OnlyOrdered, OnlyIn
<1> HIDE DEF w
<1>6. ASSUME NEW v, NEW e, In(v, s), Visible(v), n < v.seq, In(e, w), v.seq <= e.seq
      PROVE  In(v, w)
  <2>1. In(e, a) /\ e \in Sent /\ v \in Sent
    BY <1>1, <1>4, <1>5, <1>6, InType
  <2>2. e.seq \in Nat /\ v.seq \in Nat /\ v.seq >= 2
    BY <1>1, <1>6, <2>1, SentTypes
  <2>3. ~In(v, b)
    <3> SUFFICES ASSUME In(v, b) PROVE FALSE
      OBVIOUS
    <3>1. Precedes(e, v)
      BY <1>3, <2>1
    <3> QED
      BY <1>6, <2>2, <3>1 DEF Precedes
  <2> QED
    BY <1>2, <1>4, <1>5, <1>6, <2>1, <2>3
<1>7. \A v : In(v, w) => In(v, s)
  BY <1>2, <1>4, <1>5
<1>8. Complete(s, n, w, 0)
  BY <1>1, <1>5, <1>6, <1>7, JoinComplete
<1> QED
  BY <1>5, <1>7, <1>8 DEF s, w, replay

\* What the steps of a client leave alone.
LEMMA ClientLeaves ==
  ASSUME TypeInv, NEW c \in Clients, ClientStep(c) \/ Drop(c)
  PROVE  /\ UNCHANGED <<durable, phase, buffer, attempt, history>>
         /\ faults' = faults \/ (faults < MaxFaults /\ faults' = faults + 1)
         /\ \A d \in Clients \ {c} : /\ conn'[d] = conn[d] /\ lastId'[d] = lastId[d]
                                     /\ shown'[d] = shown[d] /\ wire'[d] = wire[d]
<1>1. /\ conn \in [Clients -> Connections] /\ lastId \in [Clients -> Nat]
      /\ shown \in [Clients -> Seq(Nat)] /\ wire \in [Clients -> Seq(Sent)]
  BY DEF TypeInv, ClientTypes
<1>2. CASE Receive(c)
  BY <1>1, <1>2 DEF Receive, client
<1>3. CASE Join(c)
  BY <1>1, <1>3 DEF Join, JoinFrame
<1>4. CASE JoinRead(c)
  <2>1. /\ \E x : conn' = [conn EXCEPT ![c] = x]
        /\ \E x : wire' = [wire EXCEPT ![c] = x]
        /\ JoinFrame
    BY <1>4 DEF JoinRead
  <2> QED
    BY <1>1, <2>1 DEF JoinFrame
<1>5. CASE JoinEnds(c)
  BY <1>1, <1>5 DEF JoinEnds, JoinFrame
<1>6. CASE Detached(c)
  BY <1>1, <1>6 DEF Detached, JoinFrame
<1>7. CASE Drop(c)
  BY <1>1, <1>7 DEF Drop, Fault
<1> QED
  BY <1>2, <1>3, <1>4, <1>5, <1>6, <1>7 DEF ClientStep

\* A client joins, loses its stream or is told that the run it joined has ended.
LEMMA ConnectionFits ==
  ASSUME TypeInv, StreamFits, NEW c \in Clients,
         Join(c) \/ JoinEnds(c) \/ Detached(c) \/ Drop(c)
  PROVE  StreamFits'
<1>1. /\ UNCHANGED <<durable, phase, buffer, attempt, history>>
      /\ faults' = faults \/ (faults < MaxFaults /\ faults' = faults + 1)
      /\ \A d \in Clients \ {c} : /\ conn'[d] = conn[d] /\ lastId'[d] = lastId[d]
                                  /\ shown'[d] = shown[d] /\ wire'[d] = wire[d]
  BY ClientLeaves DEF ClientStep
<1>2. conn[c] # "ended" /\ conn[c] \in {"away", "joining", "held", "attached"}
  BY DEF Join, JoinEnds, Detached, Drop
<1>3. /\ lastId[c] \in Nat /\ wire[c] \in Seq(Sent)
      /\ phase = "booting" => conn[c] = "away" /\ wire[c] = << >>
      /\ \A f : In(f, wire[c]) => NumberFits(f)
      /\ Complete(Log, lastId[c], wire[c], 0)
  BY <1>2, ClientParts
<1>4. \A f \in Sent : NumberFits(f) => NumberFits(f)'
  BY <1>1, ClientFrame
<1>5. \A f : In(f, wire[c]) => NumberFits(f)'
  BY <1>3, <1>4, InType
<1>6. /\ conn \in [Clients -> Connections] /\ wire \in [Clients -> Seq(Sent)]
      /\ UNCHANGED <<lastId, shown>>
  BY DEF TypeInv, ClientTypes, Join, JoinEnds, Detached, Drop, JoinFrame
<1>7. CASE Join(c) \/ Detached(c)
  <2> DEFINE w == wire[c]
  <2>1. /\ wire'[c] = w /\ conn'[c] \in {"joining", "away"} /\ phase # "booting"
    BY <1>6, <1>7 DEF Join, Detached
  <2>2. w \in Seq(Sent) /\ Complete(Log, lastId[c], w, 0) /\ \A f : In(f, w) => NumberFits(f)'
    BY <1>3, <1>5
  <2> HIDE DEF w
  <2> QED
    BY <1>1, <1>2, <1>6, <2>1, <2>2, CursorStays
<1>8. CASE JoinEnds(c)
  <2> DEFINE w == Append(wire[c], Trailer)
  <2>1. /\ wire'[c] = w /\ phase = "over"
    BY <1>6, <1>8 DEF JoinEnds
  <2>2. Trailer \in Sent /\ Trailer.seq = 0
    BY DEF Trailer, Frame, Sent, Frames
  <2>3. w \in Seq(Sent) /\ Complete(Log, lastId[c], w, 0)
    <3>1. Log \in Seq(Sent)
      BY LogParts
    <3> QED
      BY <1>3, <2>2, <3>1, AppendProperties, CompleteTrailer
  <2>4. ASSUME NEW f, In(f, w)
        PROVE  NumberFits(f)'
    <3>1. f = Trailer \/ In(f, wire[c])
      BY <1>3, <2>2, <2>4, InAppend
    <3>2. NumberFits(Trailer)
      <4>1. 0 <= Top(3) /\ 0 <= Limit /\ 0 <= 1
        <5>1. Top(3) = AttemptBase(generation) + said + faults + 3
          BY DEF Top
        <5> QED
          BY <5>1, BoundTypes
      <4> QED
        BY <2>2, <4>1 DEF NumberFits
    <3> QED
      BY <1>4, <1>5, <2>2, <3>1, <3>2
  <2>5. phase # "booting" /\ ~InMemory
    BY <2>1 DEF InMemory, LivePhases
  <2> HIDE DEF w
  <2> QED
    BY <1>1, <1>2, <1>6, <2>1, <2>3, <2>4, <2>5, CursorStays
<1>9. CASE Drop(c)
  <2>1. wire'[c] = << >> /\ conn'[c] = "away"
    BY <1>6, <1>9 DEF Drop
  <2>2. << >> \in Seq(Sent) /\ Complete(Log, lastId[c], << >>, 0) /\ \A f : ~In(f, << >>)
    BY EmptySeq DEF Complete, In
  <2> DEFINE w == << >>
  <2>3. w \in Seq(Sent) /\ Complete(Log, lastId[c], w, 0) /\ wire'[c] = w
        /\ \A f : In(f, w) => NumberFits(f)'
    BY <2>1, <2>2
  <2>4. phase = "booting" => conn'[c] = "away" /\ wire'[c] = << >>
    BY <2>1
  <2> HIDE DEF w
  <2> QED
    BY <1>1, <1>2, <1>6, <2>1, <2>3, <2>4, CursorStays
<1> QED
  BY <1>7, <1>8, <1>9

\* A join reads the segments and answers.
LEMMA JoinReadFits ==
  ASSUME TypeInv, StreamFits, NEW c \in Clients, JoinRead(c)
  PROVE  StreamFits'
<1>1. /\ UNCHANGED <<durable, phase, buffer, attempt, history>>
      /\ faults' = faults \/ (faults < MaxFaults /\ faults' = faults + 1)
      /\ \A d \in Clients \ {c} : /\ conn'[d] = conn[d] /\ lastId'[d] = lastId[d]
                                  /\ shown'[d] = shown[d] /\ wire'[d] = wire[d]
  BY ClientLeaves DEF ClientStep
<1>2. conn[c] = "joining" /\ UNCHANGED <<lastId, shown>>
  BY DEF JoinRead, JoinFrame
<1>3. lastId[c] \in Nat /\ phase # "booting"
  <2>1. phase = "booting" => conn[c] = "away"
    BY <1>2, ClientParts
  <2> QED
    BY <1>2, <2>1 DEF TypeInv, ClientTypes
<1>4. conn \in [Clients -> Connections] /\ wire \in [Clients -> Seq(Sent)]
  BY DEF TypeInv, ClientTypes
<1> DEFINE n == lastId[c]
           rest == Joined(inFlight) \o tail
           replay == After(Stored, n)
           cursor == IF replay = << >> THEN n ELSE LastOf(replay).seq
<1>5. Stored \in Seq(Sent) /\ rest \in Seq(Sent) /\ Log = Stored \o rest /\ Well(Stored \o rest)
  BY StoredType DEF Log, StreamFits, LogFits
<1>6. \A f : In(f, Log) => NumberFits(f)'
  <2>1. \A f \in Sent : NumberFits(f) => NumberFits(f)'
    BY <1>1, ClientFrame
  <2> QED
    BY <2>1, LogParts, InType DEF StreamFits, LogFits
<1>7. ASSUME InMemory, wire'[c] = replay \o TailAfter(cursor)
      PROVE  StreamFits'
  <2> DEFINE w == replay \o After(rest, cursor)
  <2>1. wire'[c] = w
    BY <1>7 DEF TailAfter
  <2> HIDE DEF n, rest, replay, cursor
  <2>2. n \in Nat /\ replay = After(Stored, n)
        /\ cursor = IF replay = << >> THEN n ELSE LastOf(replay).seq
    BY <1>3 DEF n, replay, cursor
  <2>3. /\ w \in Seq(Sent) /\ (\A v : In(v, w) => In(v, Stored \o rest))
        /\ Complete(Stored \o rest, n, w, 0) /\ Full(Stored \o rest, n, w, 0)
    BY <1>5, <2>2, JoinLive
  <2> HIDE DEF w
  <2>4. /\ w \in Seq(Sent) /\ (\A v : In(v, w) => NumberFits(v)')
        /\ Complete(Log, lastId[c], w, 0) /\ Full(Log, lastId[c], w, 0)
    BY <1>5, <1>6, <2>3 DEF n
  <2> QED
    BY <1>1, <1>2, <1>3, <2>1, <2>4, CursorStays
<1>8. ASSUME ~InMemory, NEW T, \A f \in Sent : Visible(f) => f \in T,
             NEW w, w = Only(replay, T), wire'[c] = w \/ wire'[c] = Append(w, Trailer)
      PROVE  StreamFits'
  <2> HIDE DEF n, rest
  <2>1. n \in Nat
    BY <1>3 DEF n
  <2>2. /\ w \in Seq(Sent) /\ (\A v : In(v, w) => In(v, Stored \o rest))
        /\ Complete(Stored \o rest, n, w, 0)
    BY <1>5, <1>8, <2>1, JoinEnded
  <2>3. /\ w \in Seq(Sent) /\ (\A v : In(v, w) => NumberFits(v)')
        /\ Complete(Log, lastId[c], w, 0)
    BY <1>5, <1>6, <2>2 DEF n
  <2>4. CASE wire'[c] = w
    BY <1>1, <1>2, <1>3, <1>8, <2>3, <2>4, CursorStays
  <2>5. CASE wire'[c] = Append(w, Trailer)
    <3>1. PICK u : u = Append(w, Trailer)
      OBVIOUS
    <3>2. Trailer \in Sent /\ Trailer.seq = 0
      BY DEF Trailer, Frame, Sent, Frames
    <3>3. u \in Seq(Sent) /\ Complete(Log, lastId[c], u, 0)
      BY <1>3, <2>3, <3>1, <3>2, LogParts, AppendProperties, CompleteTrailer
    <3>4. NumberFits(Trailer)'
      <4>1. 0 <= Top(3) /\ 0 <= Limit /\ 0 <= 1
        <5>1. Top(3) = AttemptBase(generation) + said + faults + 3
          BY DEF Top
        <5> QED
          BY <5>1, BoundTypes
      <4>2. NumberFits(Trailer)
        BY <3>2, <4>1 DEF NumberFits
      <4> QED
        BY <1>1, <3>2, <4>2, ClientFrame
    <3>5. \A v : In(v, u) => NumberFits(v)'
      <4>1. \A v : In(v, u) => In(v, w) \/ v = Trailer
        BY <2>3, <3>1, <3>2, InAppend
      <4>2. Trailer' = Trailer
        BY DEF Trailer, Frame
      <4> QED
        BY <2>3, <3>4, <4>1, <4>2
    <3> QED
      BY <1>1, <1>2, <1>3, <1>8, <2>5, <3>1, <3>3, <3>5, CursorStays
  <2> QED
    BY <1>8, <2>4, <2>5
<1>9. CASE InMemory
  BY <1>4, <1>7, <1>9 DEF JoinRead
<1>10. CASE ~InMemory
  <2> HIDE DEF cursor
  <2>1. CASE wire'[c] = Append(replay, Trailer)
    <3>1. replay \in Seq(Sent)
      BY <1>3, <1>5, AfterParts
    <3> DEFINE r == replay
    <3>2. Only(r, Sent) = r
      <4>1. r \in Seq(Sent)
        BY <3>1
      <4> HIDE DEF r
      <4> QED
        BY <4>1, InType, OnlyAll
    <3> QED
      BY <1>8, <1>10, <2>1, <3>2
  <2>2. CASE wire'[c] = WithoutDone(replay)
    <3> DEFINE T == {f \in Frames : f.kind # "done"}
    <3>1. \A f \in Sent : Visible(f) => f \in T
      BY SentTypes DEF Visible, Cut
    <3> QED
      BY <1>8, <1>10, <2>2, <3>1 DEF WithoutDone
  <2> QED
    BY <1>4, <1>10, <2>1, <2>2 DEF JoinRead
<1> QED
  BY <1>9, <1>10

\* A client reads a frame.
LEMMA ReceiveFits ==
  ASSUME TypeInv, StreamFits, row \notin EndStatus, NEW c \in Clients, Receive(c)
  PROVE  StreamFits'
<1>1. /\ UNCHANGED <<durable, phase, buffer, attempt, history>>
      /\ faults' = faults \/ (faults < MaxFaults /\ faults' = faults + 1)
      /\ \A d \in Clients \ {c} : /\ conn'[d] = conn[d] /\ lastId'[d] = lastId[d]
                                  /\ shown'[d] = shown[d] /\ wire'[d] = wire[d]
  BY ClientLeaves DEF ClientStep
<1>2. /\ Log' = Log /\ (InMemory' <=> InMemory) /\ (CutDue' <=> CutDue)
      /\ \A f \in Sent : NumberFits(f) => NumberFits(f)'
      /\ \A k \in Nat : CursorFits(k) => CursorFits(k)'
      /\ ClientFits(c)' => StreamFits'
  BY <1>1, ClientFrame
<1>3. /\ phase' = phase /\ checkpointed' = checkpointed /\ conn[c] = "attached"
      /\ wire[c] # << >>
  BY <1>1 DEF Receive, durable
<1> PICK n, x, w, f : n = lastId[c] /\ x = shown[c] /\ w = wire[c] /\ f = Head(wire[c])
  OBVIOUS
<1>4. /\ n \in Nat /\ x \in Seq(Nat) /\ w \in Seq(Sent)
      /\ ~checkpointed => x = << >>
      /\ phase # "booting"
      /\ CursorFits(n) /\ \A e : In(e, w) => NumberFits(e)
      /\ Follows(Log, CutDue, n, x)
      /\ Complete(Log, n, w, 0)
      /\ Subscribed(c) => Full(Log, n, w, 0)
  BY <1>3, ClientParts
<1>5. /\ f = w[0 + 1] /\ f \in Sent /\ In(f, w) /\ 0 < Len(w) /\ Tail(w) \in Seq(Sent)
      /\ w # << >> /\ f.seq \in Nat /\ 0 + 1 = 1
      /\ \A e : In(e, Tail(w)) => In(e, w)
  <2>1. w # << >> /\ Len(w) \in Nat \ {0} /\ f = w[1] /\ Tail(w) \in Seq(Sent)
        /\ Len(Tail(w)) = Len(w) - 1
        /\ \A i \in 1 .. Len(w) - 1 : Tail(w)[i] = w[i + 1]
    BY <1>3, <1>4, EmptySeq, HeadTailProperties
  <2>2. f \in Sent /\ In(f, w)
    BY <1>4, <2>1, ElementOfSeq DEF In
  <2>3. ASSUME NEW e, In(e, Tail(w))
        PROVE  In(e, w)
    <3>1. PICK i \in 1 .. Len(w) - 1 : Tail(w)[i] = e
      BY <2>1, <2>3 DEF In
    <3>2. i + 1 \in 1 .. Len(w) /\ w[i + 1] = e
      BY <2>1, <3>1
    <3> QED
      BY <3>2 DEF In
  <2> QED
    BY <2>1, <2>2, <2>3, SentTypes
<1> DEFINE m == NextId(n, f)
           y == NextText(n, x, f)
           u == Tail(w)
<1>6. /\ m \in Nat /\ y \in Seq(Nat)
      /\ Follows(Log, CutDue, m, y)
      /\ Complete(Log, m, u, 0)
      /\ Subscribed(c) => Full(Log, m, u, 0)
  <2>1. Well(Log)
    BY DEF StreamFits, LogFits
  <2>2. /\ m \in Nat /\ y \in Seq(Nat)
        /\ Follows(Log, CutDue, m, y)
        /\ Complete(Log, m, w, 0 + 1)
        /\ Full(Log, n, w, 0) => Full(Log, m, w, 0 + 1)
    BY <1>4, <1>5, <2>1, ReadStep
  <2> HIDE DEF m, y, u
  <2>3. u = Tail(w)
    BY DEF u
  <2> QED
    BY <1>4, <1>5, <2>2, <2>3, CompleteShift
<1>7. ASSUME f.kind # "done" \/ m = n
      PROVE  CursorFits(m)
  <2>1. NumberFits(f)
    BY <1>4, <1>5
  <2>2. CASE m = n
    BY <1>4, <2>2
  <2>3. CASE m # n
    <3>1. m = f.seq /\ f.kind # "done"
      BY <1>4, <1>5, <1>7, <2>3 DEF NextId, Larger
    <3>2. m <= Top(3) /\ (InMemory => m <= Limit) /\ (row = "queued" => m <= 1)
      BY <2>1, <3>1 DEF NumberFits
    <3> HIDE DEF m
    <3> QED
      BY <3>2 DEF CursorFits
  <2> QED
    BY <2>2, <2>3
<1>8. ~Replaced(c, f)
  BY DEF Replaced, EndStatus
<1>9. checkpointed \/ y = << >>
  <2> SUFFICES ASSUME ~checkpointed PROVE y = << >>
    OBVIOUS
  <2>1. x = << >>
    BY <1>4
  <2>2. CASE Skipped(n, f)
    BY <2>1, <2>2 DEF NextText
  <2>3. CASE ~Skipped(n, f)
    <3>1. ~Visible(f)
      <4> SUFFICES ASSUME Visible(f) PROVE FALSE
        OBVIOUS
      <4>1. f.seq > n
        BY <1>4, <1>5, <2>3 DEF Skipped, Visible, Cut
      <4>2. In(f, Log)
        BY <1>4, <1>5, <4>1 DEF Complete
      <4> QED
        BY <4>2 DEF StreamFits, LogFits
    <3> QED
      BY <2>1, <2>3, <3>1 DEF NextText, Shows, Visible, Cut
  <2> QED
    BY <2>2, <2>3
<1>10. /\ conn \in [Clients -> Connections] /\ lastId \in [Clients -> Nat]
       /\ shown \in [Clients -> Seq(Nat)] /\ wire \in [Clients -> Seq(Sent)]
  BY DEF TypeInv, ClientTypes
<1>11. \/ conn'[c] = "ended"
       \/ /\ conn'[c] = conn[c] /\ wire'[c] = u /\ lastId'[c] = m /\ shown'[c] = y
          /\ (f.kind # "done" \/ m = n)
  <2>1. CASE Skipped(n, f)
    <3>1. wire' = [wire EXCEPT ![c] = Tail(@)] /\ UNCHANGED client
      BY <2>1 DEF Receive
    <3> QED
      BY <1>10, <2>1, <3>1 DEF client, NextId, NextText
  <2>2. CASE ~Skipped(n, f)
    <3> DEFINE over == f.kind \in {"done", "trailer"}
    <3>1. /\ conn' = [conn EXCEPT ![c] = IF over THEN "ended" ELSE @]
          /\ wire' = [wire EXCEPT ![c] = IF over THEN << >> ELSE Tail(@)]
          /\ lastId' = [lastId EXCEPT ![c] = Larger(@, f.seq)]
          /\ shown' = [shown EXCEPT ![c] = IF Replaced(c, f) THEN rowText ELSE Shows(@, f)]
      BY <2>2 DEF Receive
    <3>2. /\ conn'[c] = IF over THEN "ended" ELSE conn[c]
          /\ wire'[c] = IF over THEN << >> ELSE u
          /\ lastId'[c] = Larger(n, f.seq) /\ shown'[c] = Shows(x, f)
      BY <1>8, <1>10, <3>1
    <3> QED
      BY <2>2, <3>2 DEF NextId, NextText
  <2> QED
    BY <2>1, <2>2
<1>12. CASE conn'[c] = "ended"
  BY <1>2, <1>12 DEF ClientFits
<1>13. CASE conn'[c] # "ended"
  <2> PICK k, z, v : k = m /\ z = y /\ v = u
    OBVIOUS
  <2>1. /\ conn'[c] = conn[c] /\ wire'[c] = v /\ lastId'[c] = k /\ shown'[c] = z
        /\ (f.kind # "done" \/ m = n)
    BY <1>11, <1>13
  <2>2. /\ k \in Nat /\ Follows(Log, CutDue, k, z) /\ Complete(Log, k, v, 0)
        /\ Subscribed(c) => Full(Log, k, v, 0)
        /\ CursorFits(k) /\ (~checkpointed => z = << >>)
    BY <1>6, <1>7, <1>9, <2>1
  <2>3. CursorFits(lastId[c])'
    <3>1. CursorFits(k)'
      BY <1>2, <2>2
    <3> QED
      BY <2>1, <3>1 DEF CursorFits
  <2>4. \A e : In(e, v) => NumberFits(e)'
    <3>1. \A e : In(e, v) => e \in Sent /\ NumberFits(e)
      BY <1>4, <1>5, InType
    <3> QED
      BY <1>2, <3>1
  <2>5. Subscribed(c)' => Subscribed(c)
    BY <1>2, <1>3 DEF Subscribed
  <2>6. Follows(Log', CutDue', k, z)
    <3>1. CutDue' = CutDue
      BY <1>2 DEF CutDue
    <3> QED
      BY <1>2, <2>2, <3>1
  <2>7. ClientFits(c)'
    BY <1>2, <1>3, <1>4, <2>1, <2>2, <2>3, <2>4, <2>5, <2>6 DEF ClientFits
  <2> QED
    BY <1>2, <2>7
<1> QED
  BY <1>12, <1>13

-----------------------------------------------------------------------------
(* The invariant holds *)

\* A run starts with an empty reply, and a log that holds a note at most.
LEMMA InitFits == Init => StreamFits
<1> SUFFICES ASSUME Init PROVE StreamFits
  OBVIOUS
<1>1. TypeInv
  BY InitTypes
<1>2. /\ segments = << >> /\ inFlight = << >> /\ kept = << >> /\ spoken = << >>
      /\ generation = 0 /\ said = 0 /\ faults = 0 /\ ~checkpointed /\ ~resumed
      /\ tail \in Seq(Sent) /\ phase \in {"queued", "starting"} /\ InMemory
      /\ phase = "queued" <=> row = "queued"
      /\ lastId = [c \in Clients |-> 0] /\ shown = [c \in Clients |-> << >>]
      /\ seq \in Nat /\ seq <= 1
  BY <1>1 DEF Init, TypeInv, BufferTypes, InMemory, LivePhases
<1>3. Log = tail
  <2>1. Joined(segments) = << >> /\ Joined(inFlight) = << >>
    BY <1>2, JoinedEmpty
  <2>2. << >> \o tail = tail
    BY <1>2, ConcatEmptySeq
  <2> QED
    BY <2>1, <2>2 DEF Log, Stored
<1> DEFINE note == Frame(1, "note", Fresh)
<1>4. note \in Sent /\ note.seq = 1 /\ note.kind = "note" /\ ~Visible(note)
  BY DEF Frame, Sent, Frames, Visible, Cut, Fresh
<1>5. /\ (tail = <<note>> /\ seq = 1) \/ tail = << >>
      /\ \A c \in Clients : wire[c] = tail \/ wire[c] = << >>
  <2>1. (tail = <<note>> /\ seq = 1) \/ tail = << >>
    BY DEF Init
  <2>2. \/ wire = [c \in Clients |-> IF c = Sender THEN tail ELSE << >>]
        \/ wire = [c \in Clients |-> << >>]
    BY DEF Init
  <2> QED
    BY <2>1, <2>2
<1> HIDE DEF note
<1>6. \A f : In(f, tail) => f = note
  BY <1>5 DEF In
<1>7. Top(3) \in Nat /\ Top(3) >= 1 /\ seq <= Top(Slack) /\ (tail # << >> => Limit = 1)
  BY <1>1, <1>2, <1>5, BoundTypes DEF Top, Slack, Limit, Larger
<1>8. NumberFits(note) \/ tail = << >>
  BY <1>2, <1>4, <1>7 DEF NumberFits, Limit, Larger
<1>9. Well(tail)
  BY <1>2, <1>4, <1>5, <1>6 DEF Well, Ordered, Visible
<1>10. Lines(tail) = << >> /\ TextOf(tail) = << >>
  <2>1. \A f : In(f, tail) => f \notin Texts
    BY <1>4, <1>6 DEF Visible, Texts
  <2>2. Lines(tail) = << >>
    BY <1>2, <2>1, OnlyNone DEF Lines
  <2>3. TextOf(tail) = [i \in 1 .. 0 |-> << >>[i].arg]
    BY <2>2, EmptySeq, TextOfLines
  <2> QED
    BY <2>2, <2>3
<1>11. PhaseFits
  BY <1>1, <1>2, <1>7, StreamAssumption DEF PhaseFits
<1>12. LogFits
  <2>1. \A f : In(f, tail) => NumberFits(f) /\ ~Visible(f)
    BY <1>4, <1>5, <1>6, <1>8 DEF In
  <2> QED
    BY <1>3, <1>9, <2>1 DEF LogFits
<1>13. TextFits
  BY <1>2, <1>3, <1>10 DEF TextFits
<1>14. ASSUME NEW c \in Clients
       PROVE  ClientFits(c)
  <2>1. lastId[c] = 0 /\ shown[c] = << >> /\ CursorFits(0)
    <3>1. lastId[c] = 0 /\ shown[c] = << >>
      BY <1>2
    <3> QED
      BY <1>1, <1>7, <3>1, BoundTypes DEF CursorFits
  <2>2. \A f : In(f, wire[c]) => In(f, tail)
    BY <1>5 DEF In
  <2>3. \A f : In(f, wire[c]) => NumberFits(f) /\ ~Visible(f)
    BY <1>4, <1>5, <1>6, <1>8, <2>2 DEF In
  <2>4. Follows(Log, CutDue, 0, << >>)
    BY <1>3, <1>10, FollowsNothing
  <2>5. Complete(Log, 0, wire[c], 0)
    <3>1. \A j \in 1 .. Len(wire[c]) : ~Visible(wire[c][j])
      BY <2>3 DEF In
    <3>2. \A v : In(v, Log) => ~Visible(v)
      BY <1>3, <1>4, <1>6
    <3> QED
      BY <3>1, <3>2 DEF Complete
  <2>6. Full(Log, 0, wire[c], 0)
    BY <1>3, <1>4, <1>6 DEF Full
  <2>7. phase # "booting"
    BY <1>2
  <2> QED
    BY <1>2, <2>1, <2>3, <2>4, <2>5, <2>6, <2>7 DEF ClientFits
<1> QED
  BY <1>11, <1>12, <1>13, <1>14 DEF StreamFits

\* A closed row stays closed, what was lost stays lost.
LEMMA GoodBefore ==
  ASSUME TypeInv, CutoverInv, Next, Good'
  PROVE  Good
<1>1. (segmentLost => segmentLost') /\ (renumbered => renumbered')
  <2>1. CASE PackFails \/ ReopenQueued \/ Recover \/ Interrupt
    <3>1. CASE PackFails
      BY <3>1 DEF PackFails, PackFrame
    <3>2. CASE ReopenQueued
      <4>1. segmentLost' = segmentLost
        BY <3>2 DEF ReopenQueued, BootFrame
      <4>2. renumbered' = (renumbered \/ \E i \in 1 .. Len(Stored) : Stored[i].seq > 1)
        BY <3>2 DEF ReopenQueued
      <4> QED
        BY <4>1, <4>2, Zenon
    <3>3. CASE Recover \/ Interrupt
      BY <3>3 DEF Recover, Interrupt, BootFrame
    <3> QED
      BY <2>1, <3>1, <3>2, <3>3
  <2>2. CASE Pack
    BY <2>2 DEF Pack, PackFrame
  <2>3. CASE RunStep /\ ~(Pack \/ ReopenQueued \/ Recover \/ Interrupt)
    BY <2>3 DEF RunStep, Dequeue, Stream, Checkpoint, Resume, AttemptEnds, CloseRow,
                EndStream, RunFrame, CloseFrame, Finalize, history
  <2>4. CASE Flush \/ Say \/ Defer \/ StopWaiting \/ AttemptFails \/ CloseFails \/ Crash
    BY <2>4 DEF Flush, Say, Defer, StopWaiting, AttemptFails, CloseFails, Crash,
                RunFrame, CloseFrame, Finalize, history
  <2>5. CASE \E c \in Clients : ClientStep(c) \/ Drop(c)
    BY <2>5, ClientLeaves DEF history
  <2> QED
    BY <2>1, <2>2, <2>3, <2>4, <2>5 DEF Next
<1>2. ASSUME row \in EndStatus
      PROVE  row' \in EndStatus
  <2>1. phase = "over" /\ ~InMemory /\ inFlight = << >>
    BY <1>2 DEF CutoverInv, InMemory, LivePhases
  <2>2. ~(RunStep \/ Flush \/ Say \/ Defer \/ StopWaiting \/ AttemptFails \/ PackFails
            \/ CloseFails)
    BY <2>1 DEF RunStep, Pack, Dequeue, Stream, Checkpoint, Resume, AttemptEnds, CloseRow,
                EndStream, ReopenQueued, Recover, Interrupt, Flush, Say, Defer, StopWaiting,
                AttemptFails, PackFails, CloseFails
  <2>3. CASE \E c \in Clients : ClientStep(c) \/ Drop(c)
    BY <1>2, <2>3, ClientLeaves DEF durable
  <2>4. CASE Crash
    BY <1>2, <2>4 DEF Crash, durable
  <2> QED
    BY <2>2, <2>3, <2>4 DEF Next
<1> QED
  BY <1>1, <1>2 DEF Good

\* Every step keeps the invariant.
LEMMA StreamStep == StreamInv /\ [Next]_vars => StreamInv'
<1> SUFFICES ASSUME StreamInv, [Next]_vars PROVE StreamInv'
  OBVIOUS
<1>1. TypeInv /\ TypeInv' /\ CutoverInv /\ CutoverInv' /\ (Good => StreamFits)
  BY TypesStep, CutoverStep DEF StreamInv
<1> SUFFICES ASSUME Good' PROVE StreamFits'
  BY <1>1 DEF StreamInv
<1>2. CASE Next
  <2>1. StreamFits /\ row \notin EndStatus /\ row' \notin EndStatus
        /\ ~segmentLost' /\ ~renumbered'
    BY <1>1, <1>2, GoodBefore DEF Good
  <2>2. CASE Flush \/ Pack
    BY <1>1, <2>1, <2>2, FlushFits, PackFits
  <2>3. ~PackFails
    BY <2>1 DEF PackFails
  <2>4. CASE Dequeue \/ Checkpoint \/ Defer \/ CloseFails
    BY <1>1, <2>1, <2>4, RunFits
  <2>5. CASE Stream \/ Say \/ Resume \/ \E status \in EndStatus : EndStream(status)
    BY <1>1, <2>1, <2>5, StreamStepFits, SayFits, ResumeFits, EndStreamFits
  <2>6. CASE StopWaiting \/ AttemptFails \/ AttemptEnds
    BY <1>1, <2>1, <2>6, FinalizeFits
       DEF StopWaiting, AttemptFails, AttemptEnds, InMemory, LivePhases
  <2>7. ~CloseRow
    BY <1>1, <2>1 DEF CloseRow, TypeInv, AttemptTypes
  <2>8. CASE Crash
    BY <1>1, <2>1, <2>8, CrashFits
  <2>9. CASE ReopenQueued \/ Recover \/ Interrupt
    BY <1>1, <2>1, <2>9, ReopenFits, RecoverFits, InterruptFits
  <2>10. ASSUME NEW c \in Clients, ClientStep(c) \/ Drop(c)
         PROVE  StreamFits'
    BY <1>1, <2>1, <2>10, ReceiveFits, ConnectionFits, JoinReadFits DEF ClientStep
  <2> QED
    BY <1>2, <2>2, <2>3, <2>4, <2>5, <2>6, <2>7, <2>8, <2>9, <2>10 DEF Next, RunStep
<1>3. CASE UNCHANGED vars
  <2>1. UNCHANGED <<row, rowText, generation, checkpointed, segments, phase, seq, tail, inFlight,
                    hasDone, kept, spoken, resumed, outcome, said, conn, found, lastId, shown,
                    wire, faults, segmentLost, renumbered>>
    BY <1>3 DEF vars, durable, buffer, attempt, client, history
  <2>2. Good
    BY <2>1 DEF Good
  <2>3. StreamFits
    BY <1>1, <2>2
  <2>4. Log' = Log /\ InMemory' = InMemory /\ CutDue' = CutDue /\ Limit' = Limit
        /\ Slack' = Slack /\ (\A n : Top(n)' = Top(n))
    BY <2>1 DEF Log, Stored, InMemory, CutDue, Limit, Slack, Top
  <2> QED
    BY <2>1, <2>3, <2>4
       DEF StreamFits, PhaseFits, LogFits, TextFits, ClientFits, NumberFits, CursorFits,
           Subscribed
<1> QED
  BY <1>2, <1>3

(* What a client shows when it has received what is on its way *)

Readings == [id : Nat, text : Seq(Nat)]
ReadFrame(b, f) ==
  IF Skipped(b.id, f) THEN b
  ELSE [id |-> Larger(b.id, f.seq), text |-> Shows(b.text, f)]

\* A frame makes of the cursor and the text what it makes of each.
LEMMA ReadFrameIs ==
  ASSUME NEW b \in Readings, NEW f \in Sent
  PROVE  /\ ReadFrame(b, f) \in Readings
         /\ ReadFrame(b, f).id = NextId(b.id, f)
         /\ ReadFrame(b, f).text = NextText(b.id, b.text, f)
<1>1. b.id \in Nat /\ b.text \in Seq(Nat) /\ f.seq \in Nat
  BY SentTypes DEF Readings
<1>2. Shows(b.text, f) \in Seq(Nat) /\ Larger(b.id, f.seq) \in Nat
  BY <1>1, ShowsType DEF Larger
<1> QED
  BY <1>1, <1>2 DEF ReadFrame, NextId, NextText, Readings

\* WillShow is the last value of the recursion that defines it.
LEMMA WillShowSteps ==
  ASSUME NEW c, NEW w \in Seq(Sent), w = wire[c],
         NEW b \in Readings, b = [id |-> lastId[c], text |-> shown[c]]
  PROVE  \E g \in [0 .. Len(w) -> Readings] :
           /\ g[0] = b
           /\ \A i \in 1 .. Len(w) : g[i] = ReadFrame(g[i - 1], w[i])
           /\ WillShow(c) = g[Len(w)].text
<1> DEFINE n == Len(w)
           h == [p \in Readings \X (1 .. n) |-> ReadFrame(p[1], w[p[2]])]
           Solution(g) ==
             g = [i \in 0 .. n |-> IF i = 0 THEN b ELSE ReadFrame(g[i - 1], w[i])]
<1>1. n \in Nat /\ \A i \in 1 .. n : w[i] \in Sent
  BY LenProperties, ElementOfSeq
<1>2. h \in [Readings \X (1 .. n) -> Readings]
  BY <1>1, ReadFrameIs
<1>3. \E g : Solves(g, n, Readings, b, h)
  <2> HIDE DEF h, n
  <2> QED
    BY <1>1, <1>2, RecursionSolved
<1>4. PICK f \in [0 .. n -> Readings] :
        f[0] = b /\ \A i \in 1 .. n : f[i] = h[<<f[i - 1], i>>]
  BY <1>3 DEF Solves
<1>5. \A i \in 1 .. n : f[i] = ReadFrame(f[i - 1], w[i])
  <2> SUFFICES ASSUME NEW i \in 1 .. n
               PROVE  f[i] = ReadFrame(f[i - 1], w[i])
    OBVIOUS
  <2>1. i - 1 \in 0 .. n
    BY <1>1
  <2>2. <<f[i - 1], i>> \in Readings \X (1 .. n)
    BY <2>1
  <2>3. h[<<f[i - 1], i>>] = ReadFrame(f[i - 1], w[i])
    BY <2>2
  <2> QED
    BY <1>4, <2>3
<1>6. Solution(f)
  <2>1. \A i \in 0 .. n : i # 0 => i \in 1 .. n
    BY <1>1
  <2> QED
    BY <1>4, <1>5, <2>1
<1> DEFINE d == CHOOSE g : Solution(g)
<1>7. Solution(d)
  BY <1>6
<1>8. WillShow(c) = d[n].text
  BY DEF WillShow, ReadFrame
<1> HIDE DEF d
<1>9. /\ 0 \in 0 .. n /\ \A i \in 1 .. n : i \in 0 .. n /\ i # 0
      /\ n \in 0 .. n
  BY <1>1
<1>10. d[0] = b /\ \A i \in 1 .. n : d[i] = ReadFrame(d[i - 1], w[i])
  BY <1>7, <1>9
<1> DEFINE Same == {i \in 0 .. n : d[i] = f[i]}
<1>11. 0 \in Same
  BY <1>4, <1>9, <1>10
<1>12. ASSUME NEW i \in 1 .. n, i - 1 \in Same
       PROVE  i \in Same
  <2>1. d[i] = ReadFrame(d[i - 1], w[i]) /\ f[i] = ReadFrame(f[i - 1], w[i]) /\ i \in 0 .. n
    BY <1>5, <1>9, <1>10
  <2> QED
    BY <1>12, <2>1
<1>13. n \in Same
  <2> HIDE DEF Same, n
  <2>1. \A i \in 0 .. n : i \in Same
    BY <1>1, <1>11, <1>12, UpTo
  <2> QED
    BY <1>9, <2>1
<1> QED
  BY <1>4, <1>5, <1>8, <1>13

\* A client that has received all that is on its way follows the log, and has
\* read all that is visible of it.
LEMMA WillShowFollows ==
  ASSUME TypeInv, StreamFits, NEW c \in Clients, Subscribed(c)
  PROVE  \E n \in Nat : /\ Follows(Log, CutDue, n, WillShow(c))
                        /\ \A v : In(v, Log) /\ Visible(v) => ~(n < v.seq)
<1>1. conn[c] # "ended"
  BY DEF Subscribed
<1> PICK w, b : w = wire[c] /\ b = [id |-> lastId[c], text |-> shown[c]]
  OBVIOUS
<1>2. /\ w \in Seq(Sent) /\ b \in Readings
      /\ Follows(Log, CutDue, b.id, b.text)
      /\ Complete(Log, b.id, w, 0) /\ Full(Log, b.id, w, 0)
  BY <1>1, ClientParts DEF Readings
<1>3. PICK g \in [0 .. Len(w) -> Readings] :
        /\ g[0] = b
        /\ \A i \in 1 .. Len(w) : g[i] = ReadFrame(g[i - 1], w[i])
        /\ WillShow(c) = g[Len(w)].text
  BY <1>2, WillShowSteps
<1> DEFINE n == Len(w)
           Fits(i) == /\ Follows(Log, CutDue, g[i].id, g[i].text)
                      /\ Complete(Log, g[i].id, w, i)
                      /\ Full(Log, g[i].id, w, i)
           Fitting == {i \in 0 .. n : Fits(i)}
<1>4. n \in Nat /\ 0 \in 0 .. n /\ n \in 0 .. n
      /\ \A i \in 1 .. n : i \in 0 .. n /\ i - 1 \in 0 .. n /\ i - 1 \in Nat /\ i - 1 < n
                           /\ (i - 1) + 1 = i
  BY <1>2, LenProperties
<1>5. 0 \in Fitting
  BY <1>2, <1>3, <1>4
<1>6. ASSUME NEW i \in 1 .. n, i - 1 \in Fitting
      PROVE  i \in Fitting
  <2> PICK j, a, f : j = i - 1 /\ a = g[i - 1] /\ f = w[i]
    OBVIOUS
  <2>1. /\ j \in Nat /\ j < Len(w) /\ j + 1 = i /\ a \in Readings /\ f = w[j + 1]
        /\ g[i] = ReadFrame(a, f) /\ f \in Sent
    BY <1>2, <1>3, <1>4, ElementOfSeq
  <2>2. /\ Follows(Log, CutDue, a.id, a.text) /\ Complete(Log, a.id, w, j)
        /\ Full(Log, a.id, w, j)
    BY <1>6
  <2>3. a.id \in Nat /\ a.text \in Seq(Nat) /\ Well(Log)
    BY <2>1 DEF Readings, StreamFits, LogFits
  <2>4. /\ Follows(Log, CutDue, NextId(a.id, f), NextText(a.id, a.text, f))
        /\ Complete(Log, NextId(a.id, f), w, j + 1)
        /\ Full(Log, NextId(a.id, f), w, j + 1)
    BY <1>2, <2>1, <2>2, <2>3, ReadStep
  <2>5. g[i].id = NextId(a.id, f) /\ g[i].text = NextText(a.id, a.text, f)
    BY <2>1, ReadFrameIs
  <2>6. Fits(i)
    BY <2>1, <2>4, <2>5
  <2> QED
    BY <1>4, <2>6
<1>7. Fits(n)
  <2> HIDE DEF Fitting, n
  <2>1. \A i \in 0 .. n : i \in Fitting
    BY <1>4, <1>5, <1>6, UpTo
  <2>2. n \in Fitting
    BY <1>4, <2>1
  <2> QED
    BY <2>2 DEF Fitting
<1>8. g[n].id \in Nat
  BY <1>3, <1>4 DEF Readings
<1>9. \A v : In(v, Log) /\ Visible(v) => ~(g[n].id < v.seq)
  <2>1. ~\E l \in n + 1 .. n : TRUE
    BY <1>4
  <2> QED
    BY <1>7, <2>1 DEF Full
<1> QED
  BY <1>3, <1>7, <1>8, <1>9

\* x is the text of s; it is more only while a cut is to come.
ReadsAll(s, tocome, x) ==
  StartsWith(s, Len(Lines(s)), x) /\ (Len(x) = Len(Lines(s)) \/ tocome)

\* Who follows a log and has read it all shows its text; more only while a cut
\* is to come.
LEMMA ReadAll ==
  ASSUME NEW s, Well(s), NEW p, NEW n \in Nat, NEW x, Follows(s, p, n, x),
         \A v : In(v, s) /\ Visible(v) => ~(n < v.seq)
  PROVE  ReadsAll(s, p, x)
<1> DEFINE K == Lines(s)
<1>1. /\ Len(K) \in Nat
      /\ \A i \in 1 .. Len(K) : In(K[i], s) /\ Visible(K[i]) /\ K[i].seq \in Nat
  BY LinesAre DEF Well
<1>2. PICK k \in Nat : /\ Reads(s, k, n) /\ StartsWith(s, k, x)
                       /\ Len(x) = k \/ (p /\ k = Len(K)) \/ CutNext(s, k, n)
  BY DEF Follows
<1>3. k \in 0 .. Len(K) /\ \A i \in 1 .. Len(K) : i <= k <=> K[i].seq <= n
  BY <1>2 DEF Reads
<1>4. ~CutNext(s, k, n)
  <2>1. ASSUME NEW g, In(g, s), Cut(g), g.seq > n
        PROVE  FALSE
    <3>1. g \in Sent /\ Visible(g)
      BY <2>1, InType DEF Well, Visible
    <3>2. g.seq \in Nat
      BY <3>1, SentTypes
    <3> QED
      BY <2>1, <3>1, <3>2
  <2> QED
    BY <2>1 DEF CutNext
<1>5. k = Len(K)
  <2> HIDE DEF K
  <2>1. \A i \in 1 .. Len(K) : i <= k
    BY <1>1, <1>3
  <2> QED
    BY <1>1, <1>3, <2>1
<1> QED
  BY <1>2, <1>4, <1>5 DEF ReadsAll

\* The invariant holds what FollowersShowTheReply says.
LEMMA StreamSuffices == StreamInv => FollowersShowTheReply
<1> SUFFICES ASSUME StreamInv, ~segmentLost, ~renumbered, NEW c \in Clients, Subscribed(c)
             PROVE  IF phase = "waiting" THEN kept = SubSeq(WillShow(c), 1, Len(kept))
                                         ELSE WillShow(c) = kept \o spoken
  BY DEF FollowersShowTheReply
<1>1. InMemory /\ phase # "over"
  BY DEF Subscribed, InMemory, LivePhases
<1>2. TypeInv /\ StreamFits
  BY <1>1 DEF StreamInv, CutoverInv, Good
<1>3. Well(Log) /\ TextOf(Log) = kept \o spoken
  BY <1>1, <1>2 DEF StreamFits, LogFits, TextFits
<1> DEFINE t == TextOf(Log)
           x == WillShow(c)
           m == Len(Lines(Log))
<1>4. PICK n \in Nat : /\ Follows(Log, CutDue, n, x)
                       /\ \A v : In(v, Log) /\ Visible(v) => ~(n < v.seq)
  BY <1>2, WillShowFollows
<1>5. StartsWith(Log, m, x) /\ (Len(x) = m \/ CutDue)
  <2> HIDE DEF x, m
  <2>1. ReadsAll(Log, CutDue, x)
    BY <1>3, <1>4, ReadAll
  <2> QED
    BY <2>1 DEF ReadsAll, m
<1>6. x \in Seq(Nat)
  <2> PICK w, b : w = wire[c] /\ b = [id |-> lastId[c], text |-> shown[c]]
    OBVIOUS
  <2>1. w \in Seq(Sent) /\ b \in Readings
    BY <1>2 DEF Readings, TypeInv, ClientTypes
  <2>2. PICK g \in [0 .. Len(w) -> Readings] : x = g[Len(w)].text
    BY <2>1, WillShowSteps
  <2>3. Len(w) \in 0 .. Len(w)
    BY <2>1, LenProperties
  <2> QED
    BY <2>2, <2>3 DEF Readings
<1>7. t \in Seq(Nat) /\ Len(t) = m /\ m \in Nat /\ \A i \in 1 .. m : t[i] = Lines(Log)[i].arg
  <2>1. t \in Seq(Nat) /\ Log \in Seq(Sent)
    BY <1>3, TextOfType DEF Well
  <2>2. m \in Nat
    BY <2>1, LinesAre
  <2>3. t = [i \in 1 .. m |-> Lines(Log)[i].arg]
    BY TextOfLines
  <2> HIDE DEF t, m
  <2>4. Len(t) = m
    BY <2>1, <2>2, <2>3, LenProperties
  <2> QED
    BY <2>1, <2>2, <2>3, <2>4
<1>8. m <= Len(x) /\ \A i \in 1 .. m : x[i] = t[i]
  BY <1>5, <1>7 DEF StartsWith
<1> HIDE DEF t, x, m
<1>9. CASE phase = "waiting"
  <2>1. kept = t
    <3>1. spoken = << >> /\ kept \in Seq(Nat)
      BY <1>2, <1>9 DEF StreamFits, PhaseFits, TypeInv, AttemptTypes
    <3>2. kept \o << >> = kept
      BY <3>1, ConcatEmptySeq
    <3> QED
      BY <1>3, <3>1, <3>2 DEF t
  <2>2. SubSeq(x, 1, m) = t
    <3>1. /\ SubSeq(x, 1, m) \in Seq(Nat) /\ Len(SubSeq(x, 1, m)) = m
          /\ \A i \in 1 .. m : SubSeq(x, 1, m)[i] = x[i]
      BY <1>6, <1>7, <1>8, SubSeqProperties, LenProperties
    <3> QED
      BY <1>7, <1>8, <3>1, SeqEqual
  <2>3. SubSeq(x, 1, Len(kept)) = kept
    BY <1>7, <2>1, <2>2
  <2> QED
    BY <1>9, <2>3 DEF x
<1>10. CASE phase # "waiting"
  <2>1. ~CutDue
    BY <1>1, <1>10 DEF CutDue, InMemory, LivePhases
  <2>2. x = t
    BY <1>5, <1>6, <1>7, <1>8, <2>1, SeqEqual
  <2> QED
    BY <1>3, <1>10, <2>2 DEF t, x
<1> QED
  BY <1>9, <1>10

\* Whatever is lost, joined, packed or recovered, a client that follows the run
\* shows exactly the reply so far (RunBuffer.tailAfter, RunCoordinator.join,
\* the recovery's partialLength, the client's cursor).
THEOREM RepliesShown == Spec => []FollowersShowTheReply
<1>1. Init => StreamInv
  BY InitTypes, InitCutover, InitFits DEF StreamInv
<1> QED
  BY <1>1, StreamStep, StreamSuffices, PTL DEF Spec

================================================================================
