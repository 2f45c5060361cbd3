---------------------------- MODULE ToolCallsProofs ----------------------------
(***************************************************************************)
(* Theorems about ToolCalls, for every set of runs, sessions and calls,    *)
(* every capacity of the lanes and every bound on resets and store errors. *)
(***************************************************************************)
EXTENDS ToolCalls, FiniteSetTheorems, WellFoundedInduction, TLAPS

-----------------------------------------------------------------------------
(* Which lane a call is in *)

\* The cases of laneOf exclude one another.
LEMMA LaneCases ==
  ASSUME NEW c \in Calls
  PROVE  /\ IsFrontend(c) => LaneOf(c) = <<SessionOf[RunOf[c]], "frontend">>
         /\ KindOf[c] = "dispatch" => LaneOf(c) = <<SessionOf[RunOf[c]], "subagent">>
         /\ ~IsFrontend(c) /\ KindOf[c] # "dispatch" => LaneOf(c) = <<"user", KindOf[c]>>
<1>1. ~IsFrontend(c) \/ ~(KindOf[c] = "dispatch")
  BY DEF IsFrontend
<1> QED
  BY <1>1, Zenon DEF LaneOf

\* Every call has a lane.
LEMMA LaneType ==
  ASSUME NEW c \in Calls
  PROVE  LaneOf(c) \in Lanes
<1>1. SessionOf[RunOf[c]] \in Sessions /\ KindOf[c] \in Kinds
  BY CallsAssumption
<1>2. ~IsFrontend(c) /\ KindOf[c] # "dispatch" => KindOf[c] \in {"read", "write"}
  BY <1>1 DEF IsFrontend, Kinds
<1> QED
  BY <1>1, <1>2, LaneCases DEF Lanes, UserLanes

\* Every lane has at least one slot.
LEMMA CapacityType ==
  ASSUME NEW l \in Lanes
  PROVE  Capacity(l) \in Nat \ {0}
<1>1. CASE l[2] = "read"
  <2>1. Capacity(l) = MaxReads
    BY <1>1, Zenon DEF Capacity
  <2> QED
    BY <2>1, LimitsAssumption
<1>2. CASE l[2] = "subagent"
  <2>1. ~("read" = "subagent")
    OBVIOUS
  <2>2. Capacity(l) = MaxSubagents
    BY <1>2, <2>1, Zenon DEF Capacity
  <2> QED
    BY <2>2, LimitsAssumption
<1>3. CASE l[2] # "read" /\ l[2] # "subagent"
  <2>1. Capacity(l) = 1
    BY <1>3, Zenon DEF Capacity
  <2> QED
    BY <2>1
<1> QED
  BY <1>1, <1>2, <1>3

\* A write's lane, of the user or of the session's browser, has one slot.
LEMMA ClaimedLane ==
  ASSUME NEW c \in Calls, IsClaimed(c)
  PROVE  Capacity(LaneOf(c)) = 1
<1>1. LaneOf(c)[2] # "read" /\ LaneOf(c)[2] # "subagent"
  BY LaneCases DEF IsClaimed, IsFrontend
<1> QED
  BY <1>1, Zenon DEF Capacity

\* Writes of one fingerprint are in one lane.
LEMMA TwinsShareLane ==
  ASSUME NEW c \in Calls, NEW d \in Calls,
         IsClaimed(c), IsClaimed(d), OpOf[c] = OpOf[d]
  PROVE  LaneOf(c) = LaneOf(d)
<1>1. KindOf[c] = KindOf[d]
  BY FingerprintAssumption
<1>2. IsFrontend(c) => SessionOf[RunOf[c]] = SessionOf[RunOf[d]] /\ IsFrontend(d)
  BY <1>1, FingerprintAssumption DEF IsFrontend
<1>3. ~IsFrontend(c) =>
        ~IsFrontend(d) /\ KindOf[c] # "dispatch" /\ KindOf[d] # "dispatch"
  BY <1>1 DEF IsFrontend, IsClaimed
<1> QED
  BY <1>1, <1>2, <1>3, LaneCases

\* A finite queue has a last place.
LEMMA HasLast ==
  ASSUME place \in [Calls -> Nat], NEW T \in SUBSET Calls, IsFiniteSet(T), T # {}
  PROVE  \E m \in T : \A x \in T : place[x] <= place[m]
<1> DEFINE HasMax(S) == \E m \in S : \A x \in S : place[x] <= place[m]
           Bad == {n \in Nat : \E S \in SUBSET Calls :
                     S # {} /\ IsFiniteSet(S) /\ Cardinality(S) = n /\ ~HasMax(S)}
           Less == {ss \in Nat \X Nat : ss[1] < ss[2]}
<1>1. Bad = {}
  <2> SUFFICES ASSUME Bad # {}
               PROVE  FALSE
    OBVIOUS
  <2>1. Less = OpToRel(<, Nat)
    BY DEF OpToRel
  <2>2. IsWellFoundedOn(Less, Nat)
    BY <2>1, NatLessThanWellFounded
  <2>3. Bad \subseteq Nat
    OBVIOUS
  <2> HIDE DEF HasMax
  <2>4. PICK n \in Bad : \A k \in Bad : ~(<<k, n>> \in Less)
    <3> HIDE DEF Bad, Less
    <3> QED
      BY <2>2, <2>3, WFMin
  <2>5. PICK S \in SUBSET Calls :
          S # {} /\ IsFiniteSet(S) /\ Cardinality(S) = n /\ ~HasMax(S)
    BY <2>4
  <2>6. PICK e \in S : TRUE
    BY <2>5
  <2> DEFINE R == S \ {e}
  <2>7. IsFiniteSet(R) /\ Cardinality(R) = Cardinality(S) - 1
        /\ Cardinality(R) \in Nat
    BY <2>5, <2>6, FS_RemoveElement, FS_CardinalityType
  <2>8. \A x \in S : place[x] \in Nat
    BY <2>5
  <2>9. CASE R = {}
    <3>1. \A x \in S : x = e
      BY <2>9
    <3> QED
      BY <2>5, <2>6, <2>8, <3>1 DEF HasMax
  <2>10. CASE R # {} /\ ~HasMax(R)
    <3>1. Cardinality(R) \in Bad
      BY <2>5, <2>7, <2>10
    <3>2. <<Cardinality(R), n>> \in Less
      BY <2>3, <2>4, <2>5, <2>7
    <3> QED
      BY <2>4, <3>1, <3>2
  <2>11. CASE HasMax(R)
    <3>1. PICK m \in R : \A x \in R : place[x] <= place[m]
      BY <2>11 DEF HasMax
    <3>2. CASE place[e] <= place[m]
      <4>1. \A x \in S : place[x] <= place[m]
        BY <3>1, <3>2
      <4> QED
        BY <2>5, <3>1, <4>1 DEF HasMax
    <3>3. CASE ~(place[e] <= place[m])
      <4>1. \A x \in S : place[x] <= place[e]
        BY <2>6, <2>8, <3>1, <3>3
      <4> QED
        BY <2>5, <2>6, <4>1 DEF HasMax
    <3> QED
      BY <3>2, <3>3
  <2> QED
    BY <2>9, <2>10, <2>11
<1>2. Cardinality(T) \in Nat
  BY FS_CardinalityType
<1>3. Cardinality(T) \notin Bad
  BY <1>1
<1> QED
  BY <1>2, <1>3

\* The last place taken is a place.
LEMMA LastPlaceType ==
  ASSUME place \in [Calls -> Nat], NEW l, IsFiniteSet(Queue(l))
  PROVE  LastPlace(l) \in Nat
<1> DEFINE Places == {0} \cup {place[x] : x \in Queue(l)}
<1>1. Queue(l) \in SUBSET Calls /\ Places \subseteq Nat
  BY DEF Queue
<1>2. \E n \in Places : \A x \in Queue(l) : place[x] <= n
  <2>1. CASE Queue(l) = {}
    BY <2>1
  <2>2. CASE Queue(l) # {}
    BY <1>1, <2>2, HasLast
  <2> QED
    BY <2>1, <2>2
<1>3. LastPlace(l) \in Places
  BY <1>2 DEF LastPlace
<1> QED
  BY <1>1, <1>3

-----------------------------------------------------------------------------
(* What a step does to the lanes *)

LaneTypes ==
  /\ pc \in [Calls -> Steps]
  /\ active \in [Lanes -> Nat]
  /\ place \in [Calls -> Nat]

\* Nothing bounds the calls there are, but a lane is only ever filled one by one.
LanesFinite ==
  \A l \in Lanes : IsFiniteSet(Holders(l)) /\ IsFiniteSet(Queue(l))

LanesInv == LaneTypes /\ SlotsAccounted /\ LanesFinite

\* Call c moves, and whoever else moves is granted the slot it waited for.
Moved(c, to) ==
  /\ pc'[c] = to
  /\ \A x \in Calls \ {c} : pc'[x] = pc[x] \/ (pc[x] = "waiting" /\ pc'[x] = "granted")

\* Nobody takes or gives back a slot; waiters may leave their queue.
LEMMA SlotsKept ==
  ASSUME LanesInv, LaneTypes', active' = active,
         \A c \in Calls : pc'[c] \in Holding <=> pc[c] \in Holding,
         \A c \in Calls : place'[c] # 0 => place'[c] = place[c] /\ pc'[c] = "waiting"
  PROVE  LanesInv'
<1>1. ASSUME NEW l \in Lanes
      PROVE  Holders(l)' = Holders(l) /\ Queue(l)' \subseteq Queue(l)
  BY DEF Holders, Queue
<1>2. ASSUME NEW l \in Lanes
      PROVE  IsFiniteSet(Holders(l)') /\ IsFiniteSet(Queue(l)')
  <2>1. IsFiniteSet(Queue(l)) /\ IsFiniteSet(Holders(l))
    BY DEF LanesInv, LanesFinite
  <2> QED
    BY <1>1, <2>1, FS_Subset
<1>3. ASSUME NEW l \in Lanes
      PROVE  /\ active'[l] = Cardinality(Holders(l)')
             /\ active'[l] <= Capacity(l)
             /\ Queue(l)' # {} => active'[l] = Capacity(l)
  BY <1>1 DEF LanesInv, SlotsAccounted
<1>4. ASSUME NEW l \in Lanes, NEW c \in Queue(l)'
      PROVE  pc'[c] = "waiting"
  BY DEF Queue
<1> QED
  BY <1>2, <1>3, <1>4 DEF LanesInv, LanesFinite, SlotsAccounted

\* Nobody moves.
LEMMA LanesStill ==
  ASSUME LanesInv, pc' = pc, active' = active, place' = place
  PROVE  LanesInv'
BY DEF LanesInv, LaneTypes, SlotsAccounted, LanesFinite, Holders, Queue

\* A call goes from one await to the next, keeping its slot or without one.
LEMMA GotoMoves ==
  ASSUME LanesInv, NEW c \in Calls, NEW to \in Steps, Goto(c, to),
         pc[c] # "waiting", pc[c] \in Holding <=> to \in Holding
  PROVE  LanesInv' /\ Moved(c, to)
<1>1. pc' = [pc EXCEPT ![c] = to] /\ active' = active /\ place' = place
  BY DEF Goto, lanes
<1>2. LaneTypes' /\ Moved(c, to)
  BY <1>1 DEF LaneTypes, LanesInv, Moved
<1>3. \A x \in Calls : place[x] # 0 => pc[x] = "waiting"
  BY LaneType DEF LanesInv, SlotsAccounted, Queue
<1>4. \A x \in Calls : place'[x] # 0 => place'[x] = place[x] /\ pc'[x] = "waiting"
  BY <1>1, <1>3 DEF LanesInv, LaneTypes
<1>5. \A x \in Calls : pc'[x] \in Holding <=> pc[x] \in Holding
  BY <1>1 DEF LanesInv, LaneTypes
<1> QED
  BY <1>1, <1>2, <1>4, <1>5, SlotsKept

\* Lane.acquire with a free slot.
LEMMA TakeMoves ==
  ASSUME LanesInv, NEW c \in Calls, pc[c] = "entering",
         active[LaneOf(c)] < Capacity(LaneOf(c)),
         active' = [active EXCEPT ![LaneOf(c)] = @ + 1],
         pc' = [pc EXCEPT ![c] = "granted"],
         place' = place
  PROVE  LanesInv' /\ Moved(c, "granted")
<1> DEFINE L == LaneOf(c)
<1>1. L \in Lanes /\ active[L] \in Nat /\ Capacity(L) \in Nat
  BY LaneType, CapacityType DEF LanesInv, LaneTypes
<1>2. LaneTypes' /\ Moved(c, "granted")
  BY <1>1 DEF LaneTypes, LanesInv, Moved, Steps, Holding
<1>3. Holders(L)' = Holders(L) \cup {c} /\ c \notin Holders(L)
  BY <1>1 DEF LanesInv, LaneTypes, Holders, Holding
<1>4. Queue(L) = {} /\ c \notin UNION {Queue(l) : l \in Lanes}
  BY <1>1 DEF LanesInv, SlotsAccounted
<1>5. \A l \in Lanes : Queue(l)' = Queue(l)
  BY DEF Queue
<1>6. \A l \in Lanes \ {L} : Holders(l)' = Holders(l) /\ active'[l] = active[l]
  BY <1>1 DEF LanesInv, LaneTypes, Holders
<1>7. /\ IsFiniteSet(Holders(L)')
      /\ Cardinality(Holders(L)') = Cardinality(Holders(L)) + 1
  BY <1>1, <1>3, FS_AddElement DEF LanesInv, LanesFinite
<1>8. active'[L] = active[L] + 1
  BY <1>1 DEF LanesInv, LaneTypes
<1>9. active'[L] = Cardinality(Holders(L)') /\ active'[L] <= Capacity(L)
  BY <1>1, <1>7, <1>8 DEF LanesInv, SlotsAccounted
<1>10. ASSUME NEW l \in Lanes, NEW x \in Queue(l)'
       PROVE  pc'[x] = "waiting"
  <2>1. x \in Queue(l) /\ x # c /\ x \in Calls
    BY <1>4, <1>5 DEF Queue
  <2>2. pc[x] = "waiting"
    BY <2>1 DEF LanesInv, SlotsAccounted
  <2> QED
    BY <2>1, <2>2 DEF LanesInv, LaneTypes
<1>11. SlotsAccounted'
  <2> HIDE DEF L
  <2>1. ASSUME NEW l \in Lanes
        PROVE  /\ active'[l] = Cardinality(Holders(l)')
               /\ active'[l] <= Capacity(l)
               /\ Queue(l)' # {} => active'[l] = Capacity(l)
    <3>1. CASE l = L
      BY <1>4, <1>5, <1>9, <3>1
    <3>2. CASE l # L
      BY <1>5, <1>6, <3>2 DEF LanesInv, SlotsAccounted
    <3> QED
      BY <3>1, <3>2
  <2> QED
    BY <1>10, <2>1 DEF SlotsAccounted
<1>12. LanesFinite'
  <2> HIDE DEF L
  <2> QED
    BY <1>5, <1>6, <1>7 DEF LanesInv, LanesFinite
<1> QED
  BY <1>2, <1>11, <1>12 DEF LanesInv

\* Lane.acquire with no slot free: the call joins the end of the queue.
LEMMA WaitMoves ==
  ASSUME LanesInv, NEW c \in Calls, pc[c] = "entering",
         active[LaneOf(c)] >= Capacity(LaneOf(c)),
         place' = [place EXCEPT ![c] = LastPlace(LaneOf(c)) + 1],
         pc' = [pc EXCEPT ![c] = "waiting"],
         active' = active
  PROVE  LanesInv' /\ Moved(c, "waiting")
<1> DEFINE L == LaneOf(c)
<1>1. L \in Lanes /\ active[L] \in Nat /\ Capacity(L) \in Nat
  BY LaneType, CapacityType DEF LanesInv, LaneTypes
<1>2. LastPlace(L) \in Nat
  BY <1>1, LastPlaceType DEF LanesInv, LaneTypes, LanesFinite
<1>3. LaneTypes' /\ Moved(c, "waiting")
  BY <1>2 DEF LaneTypes, LanesInv, Moved, Steps
<1>4. place'[c] # 0 /\ pc'[c] = "waiting"
  BY <1>2 DEF LanesInv, LaneTypes
<1>5. \A x \in Calls \ {c} : place'[x] = place[x] /\ pc'[x] = pc[x]
  BY DEF LanesInv, LaneTypes
<1>6. \A l \in Lanes : Holders(l)' = Holders(l)
  <2>1. pc[c] \notin Holding /\ pc'[c] \notin Holding
    BY <1>4 DEF Holding
  <2> QED
    BY <1>5, <2>1 DEF Holders
<1>7. Queue(L)' = Queue(L) \cup {c}
  BY <1>4, <1>5 DEF Queue
<1>8. \A l \in Lanes \ {L} : Queue(l)' = Queue(l)
  BY <1>5 DEF Queue
<1>9. active[L] = Capacity(L)
  BY <1>1 DEF LanesInv, SlotsAccounted
<1>10. ASSUME NEW l \in Lanes, NEW x \in Queue(l)'
       PROVE  pc'[x] = "waiting"
  <2>1. CASE x = c
    BY <1>4, <2>1
  <2>2. CASE x # c
    <3>1. x \in Calls /\ x \in Queue(l)
      BY <1>5, <2>2 DEF Queue
    <3> QED
      BY <1>5, <2>2, <3>1 DEF LanesInv, SlotsAccounted
  <2> QED
    BY <2>1, <2>2
<1>11. SlotsAccounted'
  <2> HIDE DEF L
  <2>1. ASSUME NEW l \in Lanes
        PROVE  Queue(l)' # {} => active'[l] = Capacity(l)
    <3>1. CASE l = L
      BY <1>9, <3>1
    <3>2. CASE l # L
      BY <1>8, <3>2 DEF LanesInv, SlotsAccounted
    <3> QED
      BY <3>1, <3>2
  <2> QED
    BY <1>6, <1>10, <2>1 DEF LanesInv, SlotsAccounted
<1>12. LanesFinite'
  <2>1. IsFiniteSet(Queue(L)')
    BY <1>1, <1>7, FS_AddElement DEF LanesInv, LanesFinite
  <2> HIDE DEF L
  <2> QED
    BY <1>6, <1>8, <2>1 DEF LanesInv, LanesFinite
<1> QED
  BY <1>3, <1>11, <1>12 DEF LanesInv

\* Lane.release: the slot passes to the first waiter, or is free again.
LEMMA LeaveMoves ==
  ASSUME LanesInv, NEW c \in Calls, NEW to \in Steps \ Holding, to # "waiting",
         pc[c] \in Holding, Leave(c, to)
  PROVE  LanesInv' /\ Moved(c, to)
<1> DEFINE L == LaneOf(c)
<1>1. L \in Lanes /\ active[L] \in Nat /\ Capacity(L) \in Nat \ {0}
  BY LaneType, CapacityType DEF LanesInv, LaneTypes
<1>2. c \in Holders(L) /\ IsFiniteSet(Holders(L))
  BY <1>1 DEF Holders, LanesInv, LanesFinite
<1>3. /\ IsFiniteSet(Holders(L) \ {c})
      /\ Cardinality(Holders(L) \ {c}) = active[L] - 1
      /\ active[L] - 1 \in Nat
  <2>1. /\ IsFiniteSet(Holders(L) \ {c})
        /\ Cardinality(Holders(L) \ {c}) = Cardinality(Holders(L)) - 1
    BY <1>2, FS_RemoveElement
  <2>2. Cardinality(Holders(L) \ {c}) \in Nat
    BY <2>1, FS_CardinalityType
  <2>3. active[L] = Cardinality(Holders(L))
    BY <1>1 DEF LanesInv, SlotsAccounted
  <2> QED
    BY <2>1, <2>2, <2>3
<1>4. \A x \in Calls : place[x] # 0 => pc[x] = "waiting"
  BY LaneType DEF LanesInv, SlotsAccounted, Queue
<1>5. "waiting" \notin Holding
  BY DEF Holding
<1>6. CASE Queue(L) = {} /\ active' = [active EXCEPT ![L] = @ - 1]
           /\ pc' = [pc EXCEPT ![c] = to] /\ place' = place
  <2>1. LaneTypes' /\ Moved(c, to)
    BY <1>1, <1>3, <1>6 DEF LaneTypes, LanesInv, Moved
  <2>2. pc'[c] = to /\ \A x \in Calls \ {c} : pc'[x] = pc[x]
    BY <1>6 DEF LanesInv, LaneTypes
  <2>3. Holders(L)' = Holders(L) \ {c}
    BY <2>2 DEF Holders
  <2>4. \A l \in Lanes \ {L} : Holders(l)' = Holders(l)
    BY <2>2 DEF Holders
  <2>5. \A l \in Lanes : Queue(l)' = Queue(l)
    BY <1>6 DEF Queue
  <2>6. active'[L] = active[L] - 1 /\ \A l \in Lanes \ {L} : active'[l] = active[l]
    BY <1>1, <1>6 DEF LanesInv, LaneTypes
  <2>7. active[L] <= Capacity(L)
    BY <1>1 DEF LanesInv, SlotsAccounted
  <2> HIDE DEF L
  <2>8. ASSUME NEW l \in Lanes
        PROVE  /\ IsFiniteSet(Holders(l)') /\ IsFiniteSet(Queue(l)')
               /\ active'[l] = Cardinality(Holders(l)')
               /\ active'[l] <= Capacity(l)
               /\ Queue(l)' # {} => active'[l] = Capacity(l)
    <3>1. CASE l = L
      <4>1. IsFiniteSet(Queue(l)') /\ Queue(l)' = {}
        BY <1>6, <2>5, <3>1, FS_EmptySet
      <4>2. active'[l] <= Capacity(l)
        BY <1>1, <2>6, <2>7, <3>1
      <4> QED
        BY <1>3, <2>3, <2>6, <3>1, <4>1, <4>2
    <3>2. CASE l # L
      <4>1. Holders(l)' = Holders(l) /\ Queue(l)' = Queue(l) /\ active'[l] = active[l]
        BY <2>4, <2>5, <2>6, <3>2
      <4> QED
        BY <4>1 DEF LanesInv, LanesFinite, SlotsAccounted
    <3> QED
      BY <3>1, <3>2
  <2>9. ASSUME NEW l \in Lanes, NEW x \in Queue(l)'
        PROVE  pc'[x] = "waiting"
    <3>1. x \in Calls /\ pc[x] = "waiting"
      BY <1>4, <1>6 DEF Queue
    <3>2. x # c
      BY <1>5, <3>1
    <3> QED
      BY <2>2, <3>1, <3>2
  <2>10. SlotsAccounted' /\ LanesFinite'
    BY <2>8, <2>9 DEF SlotsAccounted, LanesFinite
  <2> QED
    BY <2>1, <2>10 DEF LanesInv
<1>7. ASSUME NEW next \in Queue(L), pc' = [pc EXCEPT ![c] = to, ![next] = "granted"],
             place' = [place EXCEPT ![next] = 0], active' = active
      PROVE  LanesInv' /\ Moved(c, to)
  <2>1. next \in Calls /\ pc[next] = "waiting" /\ LaneOf(next) = L
    BY <1>4 DEF Queue
  <2>2. next # c
    BY <1>5, <2>1
  <2>3. pc'[c] = to /\ pc'[next] = "granted" /\ \A x \in Calls \ {c, next} : pc'[x] = pc[x]
    BY <1>7, <2>1, <2>2 DEF LanesInv, LaneTypes
  <2>4. place'[next] = 0 /\ \A x \in Calls \ {next} : place'[x] = place[x]
    BY <1>7, <2>1 DEF LanesInv, LaneTypes
  <2>5. LaneTypes'
    BY <1>7 DEF LaneTypes, LanesInv, Steps, Holding
  <2>6. Moved(c, to)
    BY <2>1, <2>3 DEF Moved
  <2>7. "granted" \in Holding
    BY DEF Holding
  <2>8. Holders(L)' = (Holders(L) \ {c}) \cup {next} /\ next \notin Holders(L) \ {c}
    BY <1>5, <2>1, <2>2, <2>3, <2>7 DEF Holders
  <2>9. \A l \in Lanes \ {L} : Holders(l)' = Holders(l)
    BY <2>1, <2>3 DEF Holders
  <2>10. \A l \in Lanes : Queue(l)' \subseteq Queue(l)
    BY <2>1, <2>4 DEF Queue
  <2>11. /\ IsFiniteSet(Holders(L)')
         /\ Cardinality(Holders(L)') = active[L]
    <3> DEFINE R == Holders(L) \ {c}
    <3>1. IsFiniteSet(R \cup {next}) /\ Cardinality(R \cup {next}) = Cardinality(R) + 1
      <4>1. IsFiniteSet(R) /\ next \notin R
        BY <1>3, <2>8
      <4> HIDE DEF R
      <4> QED
        BY <4>1, FS_AddElement
    <3>2. Cardinality(R) = active[L] - 1
      BY <1>3
    <3>3. Holders(L)' = R \cup {next}
      BY <2>8
    <3> HIDE DEF R
    <3> QED
      BY <1>1, <3>1, <3>2, <3>3
  <2>12. active[L] = Capacity(L)
    BY <1>1, <1>7 DEF LanesInv, SlotsAccounted
  <2> HIDE DEF L
  <2>13. ASSUME NEW l \in Lanes
         PROVE  /\ IsFiniteSet(Holders(l)') /\ IsFiniteSet(Queue(l)')
                /\ active'[l] = Cardinality(Holders(l)')
                /\ active'[l] <= Capacity(l)
                /\ Queue(l)' # {} => active'[l] = Capacity(l)
    <3>1. IsFiniteSet(Queue(l)')
      BY <2>10, FS_Subset DEF LanesInv, LanesFinite
    <3>2. CASE l = L
      BY <1>1, <1>7, <2>11, <2>12, <3>1, <3>2
    <3>3. CASE l # L
      <4>1. Holders(l)' = Holders(l)
        BY <2>9, <3>3
      <4> QED
        BY <1>7, <2>10, <3>1, <4>1 DEF LanesInv, LanesFinite, SlotsAccounted
    <3> QED
      BY <3>2, <3>3
  <2>14. ASSUME NEW l \in Lanes, NEW x \in Queue(l)'
         PROVE  pc'[x] = "waiting"
    <3>1. x \in Calls /\ pc[x] = "waiting" /\ x # next
      BY <1>4, <2>4 DEF Queue
    <3>2. x # c
      BY <1>5, <3>1
    <3> QED
      BY <2>3, <3>1, <3>2
  <2>15. SlotsAccounted' /\ LanesFinite'
    BY <2>13, <2>14 DEF SlotsAccounted, LanesFinite
  <2> QED
    BY <2>5, <2>6, <2>15 DEF LanesInv
<1>8. \/ Queue(L) = {} /\ active' = [active EXCEPT ![L] = @ - 1]
         /\ pc' = [pc EXCEPT ![c] = to] /\ place' = place
      \/ \E next \in Queue(L) :
           /\ pc' = [pc EXCEPT ![c] = to, ![next] = "granted"]
           /\ place' = [place EXCEPT ![next] = 0] /\ active' = active
  BY DEF Leave
<1> QED
  BY <1>6, <1>7, <1>8

-----------------------------------------------------------------------------
(* Where each step of a call takes it *)

\* The steps of the claim, and of a call let through by it.
Asking == {"claiming", "inspecting", "warning", "taking"}
Inside == {"running", "parked", "sent", "returned", "releasing"}

\* The graph issues a call.
LEMMA IssueMoves ==
  ASSUME LanesInv, NEW c \in Calls, Issue(c)
  PROVE  LanesInv' /\ Moved(c, "marking")
BY GotoMoves DEF Issue, Steps, Holding

\* A marked call goes on to its lane.
LEMMA MarkStartedMoves ==
  ASSUME LanesInv, NEW c \in Calls, MarkStarted(c)
  PROVE  LanesInv' /\ Moved(c, "entering")
BY GotoMoves DEF MarkStarted, Steps, Holding

\* A call that settles holds no slot.
LEMMA SettleMoves ==
  ASSUME LanesInv, NEW c \in Calls, NEW what, Settle(c, what),
         pc[c] \in {"marking", "ending"}
  PROVE  LanesInv' /\ Moved(c, "settled")
BY GotoMoves DEF Settle, Steps, Holding

\* Lane.acquire: refused, granted or queued.
LEMMA EnterMoves ==
  ASSUME LanesInv, NEW c \in Calls, Enter(c)
  PROVE  LanesInv' /\ \E to \in {"ending", "granted", "waiting"} : Moved(c, to)
<1>1. CASE Goto(c, "ending")
  <2>1. "ending" \in Steps /\ (pc[c] \in Holding <=> "ending" \in Holding) /\ pc[c] # "waiting"
    BY DEF Enter, Steps, Holding
  <2> QED
    BY <1>1, <2>1, GotoMoves
<1>2. CASE /\ active[LaneOf(c)] < Capacity(LaneOf(c))
           /\ active' = [active EXCEPT ![LaneOf(c)] = @ + 1]
           /\ pc' = [pc EXCEPT ![c] = "granted"]
           /\ place' = place
  BY <1>2, TakeMoves DEF Enter
<1>3. CASE /\ active[LaneOf(c)] >= Capacity(LaneOf(c))
           /\ place' = [place EXCEPT ![c] = LastPlace(LaneOf(c)) + 1]
           /\ pc' = [pc EXCEPT ![c] = "waiting"]
           /\ active' = active
  BY <1>3, WaitMoves DEF Enter
<1> QED
  BY <1>1, <1>2, <1>3 DEF Enter

\* A call that gives its slot back has only its mark left to finish.
LEMMA EndingMoves ==
  ASSUME LanesInv, NEW c \in Calls, Leave(c, "ending"), pc[c] \in Holding
  PROVE  LanesInv' /\ Moved(c, "ending")
BY LeaveMoves DEF Steps, Holding

\* Or, a read whose tool threw, its lane to queue for again.
LEMMA UnwindsMoves ==
  ASSUME LanesInv, NEW c \in Calls, Unwinds(c), pc[c] \in Holding
  PROVE  /\ LanesInv'
         /\ Moved(c, "ending") \/ (Moved(c, "entering") /\ IsRead(c))
<1>1. CASE Leave(c, "ending")
  BY <1>1, EndingMoves
<1>2. CASE Leave(c, "entering") /\ IsRead(c)
  BY <1>2, LeaveMoves DEF Steps, Holding
<1> QED
  BY <1>1, <1>2 DEF Unwinds, MayRetry

\* The tool is called: a frontend call parks.
LEMMA CallMoves ==
  ASSUME LanesInv, NEW c \in Calls, Call(c),
         pc[c] \in {"granted"} \cup Asking
  PROVE  /\ LanesInv'
         /\ IsFrontend(c) => Moved(c, "parked")
         /\ ~IsFrontend(c) => Moved(c, "running")
BY GotoMoves DEF Call, Steps, Holding, Asking

\* A claimed call goes to the ledger, any other is called at once.
LEMMA SlotUsedMoves ==
  ASSUME LanesInv, NEW c \in Calls, SlotUsed(c)
  PROVE  /\ LanesInv'
         /\ IsClaimed(c) => Moved(c, "claiming")
         /\ ~IsClaimed(c) /\ IsFrontend(c) => Moved(c, "parked")
         /\ ~IsClaimed(c) /\ ~IsFrontend(c) => Moved(c, "running")
<1>1. CASE IsClaimed(c)
  BY <1>1, GotoMoves DEF SlotUsed, Steps, Holding
<1>2. CASE ~IsClaimed(c)
  BY <1>2, CallMoves DEF SlotUsed
<1> QED
  BY <1>1, <1>2

\* What the call is told does not move it.
LEMMA AnswerMoves ==
  ASSUME LanesInv, NEW c \in Calls, NEW out, Answer(c, out),
         pc[c] \in {"running", "parked", "sent"}
  PROVE  LanesInv' /\ Moved(c, "returned")
BY GotoMoves DEF Answer, Steps, Holding

\* A socket takes the call.
LEMMA DispatchedMoves ==
  ASSUME LanesInv, NEW c \in Calls, Dispatched(c)
  PROVE  LanesInv' /\ Moved(c, "sent")
BY GotoMoves DEF Dispatched, Steps, Holding

\* The call unwinds, by way of its claim when that can be released.
LEMMA UnwindMoves ==
  ASSUME LanesInv, NEW c \in Calls, Unwind(c)
  PROVE  /\ LanesInv'
         /\ Uncertain(c) => Moved(c, "ending") \/ (Moved(c, "entering") /\ IsRead(c))
         /\ ~Uncertain(c) => Moved(c, "releasing")
<1>1. CASE Uncertain(c)
  BY <1>1, UnwindsMoves DEF Unwind, Holding
<1>2. CASE ~Uncertain(c)
  BY <1>2, GotoMoves DEF Unwind, Steps, Holding
<1> QED
  BY <1>1, <1>2

\* A released call is none that is tried again.
LEMMA ReleaseMoves ==
  ASSUME LanesInv, NEW c \in Calls, Release(c)
  PROVE  /\ LanesInv'
         /\ Moved(c, "ending") \/ (Moved(c, "entering") /\ IsRead(c))
BY UnwindsMoves DEF Release, Holding

\* What is counted as tried again is a call.
LEMMA UnwindsRetried ==
  ASSUME TypeOK, NEW c \in Calls, Unwinds(c)
  PROVE  retried' \subseteq Calls
BY DEF Unwinds, TypeOK

\* A stop: waiters leave their queue, a browser call's outcome is settled.
LEMMA AbortCases ==
  ASSUME NEW r \in Runs, Abort(r), NEW c \in Calls
  PROVE  /\ RunOf[c] = r /\ pc[c] = "waiting" =>
              pc'[c] = "ending" /\ result'[c] = "error" /\ place'[c] = 0
         /\ RunOf[c] = r /\ pc[c] = "parked" =>
              pc'[c] = "returned" /\ result'[c] = "error"
         /\ RunOf[c] = r /\ pc[c] = "sent" =>
              pc'[c] = "returned" /\ result'[c] = "unknown"
         /\ RunOf[c] # r \/ pc[c] \notin {"waiting", "parked", "sent"} =>
              pc'[c] = pc[c] /\ result'[c] = result[c]
         /\ RunOf[c] # r \/ pc[c] # "waiting" => place'[c] = place[c]
<1> DEFINE mine(step) == {x \in Calls : RunOf[x] = r /\ pc[x] = step}
<1>1. /\ pc' = [x \in Calls |->
            CASE x \in mine("waiting") -> "ending"
              [] x \in mine("parked") \cup mine("sent") -> "returned"
              [] OTHER -> pc[x]]
      /\ result' = [x \in Calls |->
            CASE x \in mine("waiting") \cup mine("parked") -> "error"
              [] x \in mine("sent") -> "unknown"
              [] OTHER -> result[x]]
      /\ place' = [x \in Calls |-> IF x \in mine("waiting") THEN 0 ELSE place[x]]
  BY DEF Abort
<1>2. /\ pc'[c] = CASE c \in mine("waiting") -> "ending"
                    [] c \in mine("parked") \cup mine("sent") -> "returned"
                    [] OTHER -> pc[c]
      /\ result'[c] = CASE c \in mine("waiting") \cup mine("parked") -> "error"
                        [] c \in mine("sent") -> "unknown"
                        [] OTHER -> result[c]
  <2> HIDE DEF mine
  <2> QED
    BY <1>1, Zenon
<1>3. /\ c \in mine("waiting") <=> RunOf[c] = r /\ pc[c] = "waiting"
      /\ c \in mine("parked") <=> RunOf[c] = r /\ pc[c] = "parked"
      /\ c \in mine("sent") <=> RunOf[c] = r /\ pc[c] = "sent"
  OBVIOUS
<1>4. /\ c \in mine("waiting") => c \notin mine("parked") /\ c \notin mine("sent")
      /\ c \in mine("parked") => c \notin mine("waiting") /\ c \notin mine("sent")
      /\ c \in mine("sent") => c \notin mine("waiting") /\ c \notin mine("parked")
  OBVIOUS
<1>5. IF c \in mine("waiting") THEN place'[c] = 0 ELSE place'[c] = place[c]
  BY <1>1
<1> HIDE DEF mine
<1>6. c \in mine("waiting") => pc'[c] = "ending" /\ result'[c] = "error"
  BY <1>2, <1>4, Zenon
<1>7. c \in mine("parked") => pc'[c] = "returned" /\ result'[c] = "error"
  BY <1>2, <1>4, Zenon
<1>8. c \in mine("sent") => pc'[c] = "returned" /\ result'[c] = "unknown"
  BY <1>2, <1>4, Zenon
<1>9. c \notin mine("waiting") /\ c \notin mine("parked") /\ c \notin mine("sent") =>
        pc'[c] = pc[c] /\ result'[c] = result[c]
  BY <1>2, Zenon
<1> QED
  BY <1>3, <1>5, <1>6, <1>7, <1>8, <1>9

\* A stop moves no slot.
LEMMA AbortMoves ==
  ASSUME LanesInv, NEW r \in Runs, Abort(r)
  PROVE  LanesInv'
<1>1. pc' \in [Calls -> Steps] /\ place' \in [Calls -> Nat] /\ active' = active
  <2>1. DOMAIN pc' = Calls /\ pc' = [x \in Calls |-> pc'[x]]
    BY Zenon DEF Abort
  <2>2. DOMAIN place' = Calls /\ place' = [x \in Calls |-> place'[x]]
    BY Zenon DEF Abort
  <2>3. \A x \in Calls : pc'[x] \in Steps /\ place'[x] \in Nat
    BY AbortCases DEF LanesInv, LaneTypes, Steps, Holding
  <2> QED
    BY <2>1, <2>2, <2>3 DEF Abort
<1>2. \A x \in Calls : pc'[x] \in Holding <=> pc[x] \in Holding
  BY AbortCases DEF Holding
<1>3. \A x \in Calls : place[x] # 0 => pc[x] = "waiting"
  BY LaneType DEF LanesInv, SlotsAccounted, Queue
<1>4. \A x \in Calls : place'[x] # 0 => place'[x] = place[x] /\ pc'[x] = "waiting"
  BY <1>3, AbortCases
<1> QED
  BY <1>1, <1>2, <1>4, SlotsKept DEF LanesInv, LaneTypes

\* After a reset no call is under way, and every lane is empty.
LEMMA CrashMoves ==
  ASSUME LanesInv, Crash
  PROVE  LanesInv'
<1>1. LaneTypes'
  BY DEF Crash, LaneTypes, Steps
<1>2. \A x \in Calls : pc'[x] \notin Holding /\ place'[x] = 0
  BY DEF Crash, Holding
<1>3. ASSUME NEW l \in Lanes
      PROVE  Holders(l)' = {} /\ Queue(l)' = {} /\ active'[l] = 0
  BY <1>2 DEF Crash, Holders, Queue
<1>4. IsFiniteSet({}) /\ Cardinality({}) = 0
  BY FS_EmptySet
<1>5. ASSUME NEW l \in Lanes
      PROVE  /\ IsFiniteSet(Holders(l)') /\ IsFiniteSet(Queue(l)')
             /\ active'[l] = Cardinality(Holders(l)')
             /\ active'[l] <= Capacity(l)
  BY <1>3, <1>4, CapacityType
<1> QED
  BY <1>1, <1>3, <1>5 DEF LanesInv, SlotsAccounted, LanesFinite

-----------------------------------------------------------------------------
(* The types and the slots *)

\* A slot is counted down only by a call that holds one: the types of the
\* lanes rest on their account.
TypeInv == TypeOK /\ SlotsAccounted /\ LanesFinite

\* Every call starts idle, in empty lanes.
LEMMA InitTypeInv == Init => TypeInv
<1> SUFFICES ASSUME Init PROVE TypeInv
  OBVIOUS
<1>1. TypeOK
  BY DEF Init, TypeOK, RunStatus, Marks, Claim, NoClaim, Steps, Results
<1>2. IsFiniteSet({}) /\ Cardinality({}) = 0
  BY FS_EmptySet
<1>3. ASSUME NEW l \in Lanes
      PROVE  Holders(l) = {} /\ Queue(l) = {} /\ active[l] = 0
  BY DEF Init, Holders, Queue, Holding
<1>4. ASSUME NEW l \in Lanes
      PROVE  /\ IsFiniteSet(Holders(l)) /\ IsFiniteSet(Queue(l))
             /\ active[l] = Cardinality(Holders(l))
             /\ active[l] <= Capacity(l)
  BY <1>2, <1>3, CapacityType
<1> QED
  BY <1>1, <1>3, <1>4 DEF TypeInv, SlotsAccounted, LanesFinite

\* What a call let through changes in the history.
LEMMA CallTypes ==
  ASSUME TypeOK, NEW c \in Calls, Call(c)
  PROVE  effects' \in [Calls -> Nat] /\ open' \subseteq Calls /\ refused' \in [Ops -> SUBSET Runs]
<1>1. OpOf[c] \in Ops
  BY CallsAssumption
<1>2. CASE IsFrontend(c)
  BY <1>1, <1>2 DEF Call, TypeOK
<1>3. CASE ~IsFrontend(c)
  BY <1>1, <1>3 DEF Call, Reaches, TypeOK
<1> QED
  BY <1>2, <1>3

\* Every step of a call keeps the types and the slots.
LEMMA CallTypeInv ==
  ASSUME TypeInv, NEW c \in Calls,
         Issue(c) \/ CallStep(c) \/ Dispatched(c) \/ StoreFault(c) \/ Persist(c)
  PROVE  TypeInv'
<1>1. LanesInv /\ TypeOK
  BY DEF TypeInv, LanesInv, LaneTypes, TypeOK
<1>2. SUFFICES LanesInv' /\ TypeOK'
  BY DEF TypeInv, LanesInv
<1>3. OpOf[c] \in Ops /\ RunOf[c] \in Runs
  BY CallsAssumption
<1> USE DEF TypeOK, LanesInv, LaneTypes
<1>3a. StoreError => storeErrors' \in Nat
  BY <1>1 DEF StoreError
<1>4. CASE Issue(c)
  BY <1>1, <1>4, IssueMoves DEF Issue, Rest, ledger, history
<1>5. CASE MarkStarted(c)
  BY <1>1, <1>5, MarkStartedMoves DEF MarkStarted, Rest, history, Marks
<1>6. CASE Interrupted(c)
  <2>1. LanesInv'
    BY <1>1, <1>6, SettleMoves DEF Interrupted
  <2> QED
    BY <1>1, <1>6, <2>1 DEF Interrupted, Settle, Tell, Rest, history, Marks, Results
<1>7. CASE MarkFails(c)
  <2>1. LanesInv'
    BY <1>1, <1>7, SettleMoves DEF MarkFails
  <2> QED
    BY <1>1, <1>7, <2>1
       DEF MarkFails, StoreError, Settle, Goto, Tell, Rest, ledger, history, Results
<1>8. CASE Enter(c)
  <2>1. LanesInv'
    BY <1>1, <1>8, EnterMoves
  <2> QED
    BY <1>1, <1>8, <2>1 DEF Enter, Tell, Rest, ledger, history, Results
<1>9. CASE SlotRefused(c)
  <2>1. LanesInv'
    BY <1>1, <1>9, EndingMoves DEF SlotRefused, Holding
  <2> QED
    BY <1>1, <1>9, <2>1 DEF SlotRefused, SlotFrame, Tell, Rest, history, Results
<1>10. CASE SlotUsed(c)
  <2>1. LanesInv'
    BY <1>1, <1>10, SlotUsedMoves
  <2>2. effects' \in [Calls -> Nat] /\ open' \subseteq Calls /\ refused' \in [Ops -> SUBSET Runs]
    BY <1>1, <1>10, CallTypes DEF SlotUsed, history
  <2> QED
    BY <1>1, <1>10, <2>1, <2>2 DEF SlotUsed, SlotFrame, Rest
<1>11. CASE ClaimInsert(c)
  <2>1. LanesInv'
    <3>1. CASE Call(c)
      BY <1>1, <1>11, <3>1, CallMoves DEF ClaimInsert, Asking
    <3>2. CASE Goto(c, "inspecting")
      BY <1>1, <1>11, <3>2, GotoMoves DEF ClaimInsert, Steps, Holding
    <3> QED
      BY <1>11, <3>1, <3>2 DEF ClaimInsert
  <2>2. effects' \in [Calls -> Nat] /\ open' \subseteq Calls /\ refused' \in [Ops -> SUBSET Runs]
    BY <1>1, <1>11, CallTypes DEF ClaimInsert, history
  <2>3. claim' \in [Ops -> Claim]
    BY <1>1, <1>3, <1>11 DEF ClaimInsert, Claim
  <2> QED
    BY <1>1, <1>11, <2>1, <2>2, <2>3 DEF ClaimInsert, SlotFrame, Rest
<1>12. ASSUME Block(c), pc[c] \in Holding
       PROVE  /\ LanesInv'
              /\ effects' \in [Calls -> Nat] /\ open' \subseteq Calls
              /\ refused' \in [Ops -> SUBSET Runs] /\ result' \in [Calls -> Results]
  <2>1. LanesInv'
    BY <1>1, <1>12, EndingMoves DEF Block
  <2> QED
    BY <1>1, <1>3, <1>12, <2>1 DEF Block, Tell, Results
<1>13. CASE ClaimRead(c)
  <2>1. CASE Call(c) /\ UNCHANGED result
    <3>1. LanesInv'
      BY <1>1, <1>13, <2>1, CallMoves DEF ClaimRead, Asking
    <3>2. effects' \in [Calls -> Nat] /\ open' \subseteq Calls /\ refused' \in [Ops -> SUBSET Runs]
      BY <1>1, <2>1, CallTypes
    <3> QED
      BY <1>1, <1>13, <2>1, <3>1, <3>2 DEF ClaimRead, SlotFrame, Rest
  <2>2. CASE Block(c)
    <3>1. pc[c] \in Holding
      BY <1>13 DEF ClaimRead, Holding
    <3> QED
      BY <1>1, <1>12, <1>13, <2>2, <3>1 DEF ClaimRead, SlotFrame, Rest
  <2>3. CASE (Goto(c, "taking") \/ Goto(c, "warning")) /\ UNCHANGED <<result, history>>
    <3>1. LanesInv'
      BY <1>1, <1>13, <2>3, GotoMoves DEF ClaimRead, Steps, Holding
    <3> QED
      BY <1>1, <1>13, <2>3, <3>1 DEF ClaimRead, SlotFrame, Rest, history
  <2> QED
    BY <1>13, <2>1, <2>2, <2>3 DEF ClaimRead
<1>14. CASE ClaimTake(c)
  <2>1. LanesInv'
    BY <1>1, <1>14, CallMoves DEF ClaimTake, Asking
  <2>2. effects' \in [Calls -> Nat] /\ open' \subseteq Calls /\ refused' \in [Ops -> SUBSET Runs]
    BY <1>1, <1>14, CallTypes DEF ClaimTake
  <2>3. claim' \in [Ops -> Claim]
    BY <1>1, <1>3, <1>14 DEF ClaimTake, Claim
  <2> QED
    BY <1>1, <1>14, <2>1, <2>2, <2>3 DEF ClaimTake, SlotFrame, Rest
<1>15. CASE ClaimWarn(c)
  <2>1. Block(c) /\ pc[c] \in Holding
    BY <1>15 DEF ClaimWarn, Holding
  <2>2. claim' \in [Ops -> Claim]
    BY <1>1, <1>3, <1>15 DEF ClaimWarn, Claim
  <2> QED
    BY <1>1, <1>12, <1>15, <2>1, <2>2 DEF ClaimWarn, SlotFrame, Rest
<1>16. CASE ClaimFails(c)
  <2>1. LanesInv'
    BY <1>1, <1>16, EndingMoves DEF ClaimFails, Holding
  <2> QED
    BY <1>1, <1>16, <1>3a, <2>1 DEF ClaimFails, SlotFrame, Tell, Rest, history, Results
<1>17. ASSUME NEW out \in Results, Answer(c, out), SlotFrame,
              pc[c] \in {"running", "parked", "sent"}
       PROVE  LanesInv' /\ TypeOK'
  <2>1. LanesInv'
    BY <1>1, <1>17, AnswerMoves
  <2> QED
    BY <1>1, <1>17, <2>1 DEF Answer, Tell, SlotFrame, Rest
<1>18. CASE Unsent(c)
  BY <1>17, <1>18 DEF Unsent, Results
<1>19. CASE \E out \in Results : Returns(c, out) \/ Answered(c, out)
  BY <1>17, <1>19 DEF Returns, Answered
<1>20. CASE Dispatched(c)
  <2>1. LanesInv'
    BY <1>1, <1>20, DispatchedMoves
  <2>2. effects' \in [Calls -> Nat] /\ open' \subseteq Calls
    BY <1>1, <1>20 DEF Dispatched, Reaches
  <2> QED
    BY <1>1, <1>20, <2>1, <2>2 DEF Dispatched, Rest, ledger
<1>21. CASE MarkSent(c)
  <2>1. LanesInv'
    BY <1>1, <1>21, LanesStill DEF MarkSent, lanes
  <2> QED
    BY <1>1, <1>21, <2>1 DEF MarkSent, Rest, Marks, history, lanes
<1>22. CASE MarkSentFails(c)
  <2>1. LanesInv'
    BY <1>1, <1>22, LanesStill DEF MarkSentFails, lanes
  <2> QED
    BY <1>1, <1>22, <2>1 DEF MarkSentFails, StoreError, Rest, ledger, history, lanes
<1>23. CASE Unwind(c)
  <2>1. LanesInv'
    BY <1>1, <1>23, UnwindMoves
  <2>2. retried' \subseteq Calls
    BY <1>1, <1>23, UnwindsRetried DEF Unwind
  <2> QED
    BY <1>1, <1>23, <2>1, <2>2 DEF Unwind, Rest, history
<1>24. Released(c) \in [Ops -> Claim]
  BY <1>1, <1>3 DEF Released, Claim, NoClaim
<1>25. CASE Release(c)
  <2>1. LanesInv'
    BY <1>1, <1>25, ReleaseMoves
  <2>2. retried' \subseteq Calls
    BY <1>1, <1>25, UnwindsRetried DEF Release
  <2> QED
    BY <1>1, <1>24, <1>25, <2>1, <2>2 DEF Release, Rest, history
<1>26. CASE ReleaseFails(c)
  <2>1. LanesInv'
    BY <1>1, <1>26, EndingMoves DEF ReleaseFails, Holding
  <2>2. claim' \in [Ops -> Claim]
    BY <1>1, <1>24, <1>26 DEF ReleaseFails
  <2> QED
    BY <1>1, <1>26, <1>3a, <2>1, <2>2 DEF ReleaseFails, SlotFrame, Tell, Rest, history, Results
<1>27. CASE Finish(c)
  <2>1. LanesInv'
    BY <1>1, <1>27, SettleMoves DEF Finish
  <2> QED
    BY <1>1, <1>27, <2>1 DEF Finish, Settle, Tell, Rest, history, Marks, Results
<1>28. CASE FinishFails(c)
  <2>1. LanesInv'
    BY <1>1, <1>28, SettleMoves DEF FinishFails
  <2>2. mark' \in [Calls -> Marks]
    BY <1>1, <1>28 DEF FinishFails, Marks
  <2> QED
    BY <1>1, <1>28, <2>1, <2>2 DEF FinishFails, StoreError, Settle, Goto, Tell, Rest, history,
       Results
<1>29. CASE Persist(c)
  <2>1. LanesInv'
    BY <1>1, <1>29, LanesStill DEF Persist, lanes
  <2> QED
    BY <1>1, <1>29, <2>1 DEF Persist, ledger, history, lanes, faults
<1> QED
  BY <1>4, <1>5, <1>6, <1>7, <1>8, <1>9, <1>10, <1>11, <1>13, <1>14, <1>15, <1>16, <1>18,
     <1>19, <1>20, <1>21, <1>22, <1>23, <1>25, <1>26, <1>27, <1>28, <1>29
     DEF CallStep, StoreFault

\* So does every step of a run, and a reset.
LEMMA RunTypeInv ==
  ASSUME TypeInv, (\E r \in Runs : Start(r) \/ Abort(r) \/ End(r)) \/ Crash
  PROVE  TypeInv'
<1>1. LanesInv /\ TypeOK
  BY DEF TypeInv, LanesInv, LaneTypes, TypeOK
<1>2. SUFFICES LanesInv' /\ TypeOK'
  BY DEF TypeInv, LanesInv
<1>3. ASSUME NEW r \in Runs, Start(r) \/ End(r)
      PROVE  LanesInv' /\ TypeOK'
  <2>1. LanesInv'
    BY <1>1, <1>3, LanesStill DEF Start, End, lanes
  <2> QED
    BY <1>1, <1>3, <2>1 DEF Start, End, RunFrame, TypeOK, RunStatus, ledger, lanes
<1>4. ASSUME NEW r \in Runs, Abort(r)
      PROVE  LanesInv' /\ TypeOK'
  <2>1. LanesInv'
    BY <1>1, <1>4, AbortMoves
  <2>2. result' \in [Calls -> Results]
    <3>1. DOMAIN result' = Calls /\ result' = [x \in Calls |-> result'[x]]
      BY <1>4, Zenon DEF Abort
    <3>2. \A x \in Calls : result'[x] \in Results
      BY <1>1, <1>4, AbortCases DEF TypeOK, Results
    <3> QED
      BY <3>1, <3>2
  <2> QED
    BY <1>1, <1>4, <2>1, <2>2 DEF Abort, RunFrame, TypeOK, LanesInv, LaneTypes, ledger
<1>5. CASE Crash
  <2>1. LanesInv'
    BY <1>1, <1>5, CrashMoves
  <2> QED
    BY <1>1, <1>5, <2>1 DEF Crash, TypeOK, LanesInv, LaneTypes, RunStatus, Results, ledger, history
<1> QED
  BY <1>3, <1>4, <1>5

\* The inductive step.
LEMMA NextTypeInv == TypeInv /\ [Next]_vars => TypeInv'
<1> SUFFICES ASSUME TypeInv, [Next]_vars PROVE TypeInv'
  OBVIOUS
<1>1. CASE UNCHANGED vars
  BY <1>1 DEF vars, lanes, ledger, history, faults, TypeInv, TypeOK, SlotsAccounted,
              LanesFinite, Holders, Queue
<1>2. CASE Next
  BY <1>2, CallTypeInv, RunTypeInv DEF Next
<1> QED
  BY <1>1, <1>2

\* The types and the slots, of every reachable state.
THEOREM TypeInvHolds == Spec => []TypeInv
<1> QED
  BY InitTypeInv, NextTypeInv, PTL DEF Spec

\* The tables, the lanes and the awaits hold what their types say
\* (do/run-store.ts, core/tool-scheduler.ts).
THEOREM TypesHold == Spec => []TypeOK
<1>1. TypeInv => TypeOK
  BY DEF TypeInv
<1> QED
  BY <1>1, TypeInvHolds, PTL

\* Whatever the order of grants, stops, returns and resets, a lane counts the
\* slots that are held, no more than it has, and nobody queues beside a free
\* one (Lane.acquire, Lane.release).
THEOREM SlotsHold == Spec => []SlotsAccounted
<1>1. TypeInv => SlotsAccounted
  BY DEF TypeInv
<1> QED
  BY <1>1, TypeInvHolds, PTL

-----------------------------------------------------------------------------
(* What a step of one call leaves alone *)

Idle == {"idle", "settled"}

\* What no step of call c changes: other calls but for the slot one of them is
\* granted, other fingerprints, and the runs.
Footprint(c) ==
  /\ run' = run /\ aborted' = aborted
  /\ \A x \in Calls \ {c} :
       /\ pc'[x] = pc[x] \/ (pc[x] = "waiting" /\ pc'[x] = "granted")
       /\ mark'[x] = mark[x] /\ result'[x] = result[x] /\ effects'[x] = effects[x]
       /\ x \in persisted' <=> x \in persisted
       /\ x \in sending' <=> x \in sending
       /\ x \in open' => x \in open
  /\ \A o \in Ops \ {OpOf[c]} : claim'[o] = claim[o] /\ refused'[o] = refused[o]
  /\ \A x \in Calls \ {c} : OpOf[x] # OpOf[c] => (x \in open' <=> x \in open)

\* A call let through touches its own history.
LEMMA CallFootprint ==
  ASSUME TypeOK, NEW c \in Calls, Call(c)
  PROVE  /\ \A x \in Calls \ {c} : effects'[x] = effects[x] /\ (x \in open' => x \in open)
         /\ \A x \in Calls \ {c} : OpOf[x] # OpOf[c] => (x \in open' <=> x \in open)
         /\ \A o \in Ops \ {OpOf[c]} : refused'[o] = refused[o]
<1>1. CASE IsFrontend(c)
  BY <1>1 DEF Call, TypeOK
<1>2. CASE ~IsFrontend(c)
  BY <1>2 DEF Call, Reaches, TypeOK
<1> QED
  BY <1>1, <1>2

\* A step of call c is one of these; those of its mark first.
LEMMA MarkFootprint ==
  ASSUME TypeInv, NEW c \in Calls,
         \/ Issue(c) \/ MarkStarted(c) \/ Interrupted(c) \/ MarkFails(c) \/ Finish(c)
         \/ FinishFails(c) \/ MarkSent(c) \/ MarkSentFails(c) \/ Persist(c)
  PROVE  Footprint(c)
<1>1. LanesInv /\ TypeOK
  BY DEF TypeInv, LanesInv, LaneTypes, TypeOK
<1> USE DEF TypeOK, Footprint, Rest, ledger, history, Moved
<1>2. CASE Issue(c)
  BY <1>1, <1>2, IssueMoves DEF Issue
<1>3. CASE MarkStarted(c)
  BY <1>1, <1>3, MarkStartedMoves DEF MarkStarted
<1>4. ASSUME NEW what, Settle(c, what), pc[c] \in {"marking", "ending"}
      PROVE  \A x \in Calls \ {c} :
               /\ pc'[x] = pc[x] \/ (pc[x] = "waiting" /\ pc'[x] = "granted")
               /\ result'[x] = result[x]
  BY <1>1, <1>4, SettleMoves DEF Settle, Tell
<1>5. CASE Interrupted(c)
  BY <1>1, <1>4, <1>5 DEF Interrupted
<1>6. CASE MarkFails(c)
  BY <1>1, <1>4, <1>6 DEF MarkFails
<1>7. CASE Finish(c)
  BY <1>1, <1>4, <1>7 DEF Finish
<1>8. CASE FinishFails(c)
  BY <1>1, <1>4, <1>8 DEF FinishFails
<1>9. CASE MarkSent(c)
  BY <1>1, <1>9 DEF MarkSent
<1>10. CASE MarkSentFails(c)
  BY <1>1, <1>10 DEF MarkSentFails
<1>11. CASE Persist(c)
  BY <1>1, <1>11 DEF Persist
<1> QED
  BY <1>2, <1>3, <1>5, <1>6, <1>7, <1>8, <1>9, <1>10, <1>11

\* Then those of its lane and its claim.
LEMMA ClaimFootprint ==
  ASSUME TypeInv, NEW c \in Calls,
         \/ Enter(c) \/ SlotRefused(c) \/ SlotUsed(c) \/ ClaimInsert(c) \/ ClaimRead(c)
         \/ ClaimTake(c) \/ ClaimWarn(c) \/ ClaimFails(c)
  PROVE  Footprint(c)
<1>1. LanesInv /\ TypeOK
  BY DEF TypeInv, LanesInv, LaneTypes, TypeOK
<1> DEFINE Untouched ==
      /\ \A x \in Calls \ {c} : effects'[x] = effects[x] /\ (x \in open' => x \in open)
      /\ \A x \in Calls \ {c} : OpOf[x] # OpOf[c] => (x \in open' <=> x \in open)
      /\ \A o \in Ops \ {OpOf[c]} : refused'[o] = refused[o]
           Alone == \A x \in Calls \ {c} :
                      pc'[x] = pc[x] \/ (pc[x] = "waiting" /\ pc'[x] = "granted")
<1>2. ASSUME Call(c), pc[c] \in {"granted"} \cup Asking
      PROVE  Untouched /\ Alone
  BY <1>1, <1>2, CallFootprint, CallMoves DEF Moved
<1>3. UNCHANGED history => Untouched
  BY DEF history
<1>4. ASSUME Block(c), pc[c] \in Holding
      PROVE  Untouched /\ Alone /\ \A x \in Calls \ {c} : result'[x] = result[x]
  <2>1. Alone
    BY <1>1, <1>4, EndingMoves DEF Block, Moved
  <2>2. OpOf[c] \in Ops
    BY CallsAssumption
  <2> QED
    BY <1>1, <1>4, <2>1, <2>2 DEF Block, Tell, TypeOK
<1>5. ASSUME Leave(c, "ending"), pc[c] \in Holding
      PROVE  Alone
  BY <1>1, <1>5, EndingMoves DEF Moved
<1>6. ASSUME NEW to, Goto(c, to)
      PROVE  Alone
  BY <1>1, <1>6 DEF Goto, TypeOK
<1>7. ASSUME NEW what, Tell(c, what)
      PROVE  \A x \in Calls \ {c} : result'[x] = result[x]
  BY <1>1, <1>7 DEF Tell, TypeOK
<1>8. pc[c] \in {"granted", "claiming", "inspecting", "warning", "taking"} =>
        pc[c] \in {"granted"} \cup Asking /\ pc[c] \in Holding
  BY DEF Asking, Holding
<1> HIDE DEF Untouched, Alone
<1> USE DEF Rest, SlotFrame
<1>9. /\ Untouched /\ Alone
      /\ \A x \in Calls \ {c} : mark'[x] = mark[x] /\ result'[x] = result[x]
      /\ \A o \in Ops \ {OpOf[c]} : claim'[o] = claim[o]
      /\ UNCHANGED <<run, aborted, persisted, sending>>
      => Footprint(c)
  BY DEF Untouched, Alone, Footprint
<1>10. CASE Enter(c)
  <2>1. Alone
    <3>1. \E to \in {"ending", "granted", "waiting"} : Moved(c, to)
      BY <1>1, <1>10, EnterMoves
    <3> QED
      BY <3>1 DEF Moved, Alone
  <2>2. \A x \in Calls \ {c} : result'[x] = result[x]
    BY <1>7, <1>10 DEF Enter
  <2> QED
    BY <1>3, <1>9, <1>10, <2>1, <2>2 DEF Enter, ledger
<1>11. CASE SlotRefused(c)
  BY <1>3, <1>5, <1>7, <1>8, <1>9, <1>11 DEF SlotRefused
<1>12. CASE SlotUsed(c)
  BY <1>2, <1>3, <1>6, <1>8, <1>9, <1>12 DEF SlotUsed
<1>13. CASE ClaimInsert(c)
  <2>1. \A o \in Ops \ {OpOf[c]} : claim'[o] = claim[o]
    BY <1>1, <1>13 DEF ClaimInsert, TypeOK
  <2>2. Untouched /\ Alone
    BY <1>2, <1>3, <1>6, <1>8, <1>13 DEF ClaimInsert
  <2> QED
    BY <1>9, <1>13, <2>1, <2>2 DEF ClaimInsert
<1>14. CASE ClaimRead(c)
  BY <1>2, <1>3, <1>4, <1>6, <1>8, <1>9, <1>14 DEF ClaimRead
<1>15. CASE ClaimTake(c)
  <2>1. \A o \in Ops \ {OpOf[c]} : claim'[o] = claim[o]
    BY <1>1, <1>15 DEF ClaimTake, TypeOK
  <2> QED
    BY <1>2, <1>8, <1>9, <1>15, <2>1 DEF ClaimTake
<1>16. CASE ClaimWarn(c)
  <2>1. \A o \in Ops \ {OpOf[c]} : claim'[o] = claim[o]
    BY <1>1, <1>16 DEF ClaimWarn, TypeOK
  <2> QED
    BY <1>4, <1>8, <1>9, <1>16, <2>1 DEF ClaimWarn
<1>17. CASE ClaimFails(c)
  BY <1>3, <1>5, <1>7, <1>8, <1>9, <1>17 DEF ClaimFails
<1> QED
  BY <1>10, <1>11, <1>12, <1>13, <1>14, <1>15, <1>16, <1>17

\* Then those of the tool and of the way back.
LEMMA ToolFootprint ==
  ASSUME TypeInv, NEW c \in Calls,
         \/ \E out \in Results : Returns(c, out) \/ Answered(c, out)
         \/ Unsent(c) \/ Dispatched(c) \/ Unwind(c) \/ Release(c) \/ ReleaseFails(c)
  PROVE  Footprint(c)
<1>1. LanesInv /\ TypeOK
  BY DEF TypeInv, LanesInv, LaneTypes, TypeOK
<1> USE DEF Rest, SlotFrame, TypeOK, Footprint
<1>2. ASSUME NEW out \in Results, Answer(c, out), SlotFrame
      PROVE  Footprint(c)
  BY <1>1, <1>2 DEF Answer, Goto, Tell
<1>3. CASE \E out \in Results : Returns(c, out) \/ Answered(c, out)
  BY <1>2, <1>3 DEF Returns, Answered
<1>4. CASE Unsent(c)
  BY <1>2, <1>4 DEF Unsent, Results
<1>5. CASE Dispatched(c)
  BY <1>1, <1>5 DEF Dispatched, Goto, Reaches, ledger
<1>6. ASSUME Leave(c, "ending"), pc[c] \in Holding
      PROVE  \A x \in Calls \ {c} :
               pc'[x] = pc[x] \/ (pc[x] = "waiting" /\ pc'[x] = "granted")
  BY <1>1, <1>6, EndingMoves DEF Moved
<1>7. pc[c] \in {"returned", "releasing"} => pc[c] \in Holding
  BY DEF Holding
<1>7a. ASSUME Unwinds(c), pc[c] \in Holding
       PROVE  \A x \in Calls \ {c} :
                pc'[x] = pc[x] \/ (pc[x] = "waiting" /\ pc'[x] = "granted")
  BY <1>1, <1>7a, UnwindsMoves DEF Moved
<1>8. CASE Unwind(c)
  BY <1>1, <1>7, <1>7a, <1>8 DEF Unwind, Goto, history
<1>9. \A o \in Ops \ {OpOf[c]} : Released(c)[o] = claim[o]
  BY <1>1 DEF Released
<1>10. CASE Release(c)
  BY <1>1, <1>7, <1>7a, <1>9, <1>10 DEF Release, history
<1>11. CASE ReleaseFails(c)
  BY <1>1, <1>6, <1>7, <1>9, <1>11 DEF ReleaseFails, Tell, history
<1> QED
  BY <1>3, <1>4, <1>5, <1>8, <1>10, <1>11

\* Any step of a call.
CallAction(c) == Issue(c) \/ CallStep(c) \/ Dispatched(c) \/ StoreFault(c) \/ Persist(c)

\* A step of call c keeps to c, but for the slot it may hand on.
LEMMA StepFootprint ==
  ASSUME TypeInv, NEW c \in Calls, CallAction(c)
  PROVE  Footprint(c)
BY MarkFootprint, ClaimFootprint, ToolFootprint DEF CallAction, CallStep, StoreFault

-----------------------------------------------------------------------------
(* Runs, and the steps a call can be at *)

\* A call is under way in a run that is going, or was stopped; one run of a
\* session is live; the calls of a run that has not started are untouched.
RunInv ==
  /\ \A c \in Calls : pc[c] \notin Idle /\ RunOf[c] \notin aborted => run[RunOf[c]] = "running"
  /\ \A r, s \in Runs :
       SessionOf[r] = SessionOf[s] /\ run[r] \in Live /\ run[s] \in Live => r = s
  /\ \A c \in Calls : run[RunOf[c]] = "new" =>
       pc[c] = "idle" /\ c \notin open /\ c \notin persisted /\ effects[c] = 0

\* Only a write asks for a claim, only a frontend call waits for a browser.
StepsInv ==
  \A c \in Calls :
    /\ pc[c] \in Asking \cup {"releasing"} => IsClaimed(c)
    /\ pc[c] \in {"parked", "sent"} => IsFrontend(c)

\* A step of c starts a call of a run that is going, or goes on with one that
\* is under way, or leaves all calls where they are.
LEMMA StepUnderway ==
  ASSUME TypeInv, NEW c \in Calls, CallAction(c)
  PROVE  \/ run[RunOf[c]] = "running"
         \/ pc[c] \notin Idle
         \/ pc[c] = "settled" /\ UNCHANGED <<pc, open, effects>>
         \/ UNCHANGED <<pc, open, effects, persisted>>
<1>1. CASE Issue(c)
  BY <1>1 DEF Issue
<1>2. CASE MarkStarted(c) \/ Interrupted(c) \/ Enter(c) \/ SlotRefused(c) \/ SlotUsed(c)
  BY <1>2 DEF MarkStarted, Interrupted, Enter, SlotRefused, SlotUsed, Idle
<1>3. CASE ClaimInsert(c) \/ ClaimRead(c) \/ ClaimTake(c) \/ ClaimWarn(c) \/ Unsent(c)
  BY <1>3 DEF ClaimInsert, ClaimRead, ClaimTake, ClaimWarn, Unsent, Idle
<1>4. CASE \E out \in Results : Returns(c, out) \/ Answered(c, out)
  BY <1>4 DEF Returns, Answered, Idle
<1>5. CASE Unwind(c) \/ Release(c) \/ Finish(c) \/ Dispatched(c)
  BY <1>5 DEF Unwind, Release, Finish, Dispatched, Idle
<1>6. CASE MarkFails(c) \/ ClaimFails(c) \/ ReleaseFails(c) \/ FinishFails(c)
  BY <1>6 DEF MarkFails, ClaimFails, ReleaseFails, FinishFails, Idle
<1>7. CASE MarkSent(c) \/ MarkSentFails(c)
  BY <1>7 DEF MarkSent, MarkSentFails, Rest, history
<1>8. CASE Persist(c)
  BY <1>8 DEF Persist, history
<1> QED
  BY <1>1, <1>2, <1>3, <1>4, <1>5, <1>6, <1>7, <1>8 DEF CallAction, CallStep, StoreFault

\* A step of a call keeps them.
LEMMA CallRunInv ==
  ASSUME TypeInv, RunInv, NEW c \in Calls, CallAction(c)
  PROVE  RunInv'
<1>1. Footprint(c)
  BY StepFootprint
<1>2. pc[c] \notin Idle => pc[c] # "idle"
  BY DEF Idle
<1>3. run[RunOf[c]] = "new" => UNCHANGED <<pc, open, effects, persisted>>
  BY <1>2, StepUnderway DEF RunInv
<1>4. ASSUME NEW x \in Calls, pc'[x] \notin Idle, RunOf[x] \notin aborted'
      PROVE  run'[RunOf[x]] = "running"
  <2>1. CASE x # c
    BY <1>1, <1>4, <2>1 DEF Footprint, RunInv, Idle
  <2>2. CASE x = c
    BY <1>1, <1>4, <2>2, StepUnderway DEF Footprint, RunInv, Idle
  <2> QED
    BY <2>1, <2>2
<1>5. ASSUME NEW x \in Calls, run'[RunOf[x]] = "new"
      PROVE  pc'[x] = "idle" /\ x \notin open' /\ x \notin persisted' /\ effects'[x] = 0
  <2>1. CASE x # c
    BY <1>1, <1>5, <2>1 DEF Footprint, RunInv
  <2>2. CASE x = c
    BY <1>1, <1>3, <1>5, <2>2 DEF Footprint, RunInv
  <2> QED
    BY <2>1, <2>2
<1> QED
  BY <1>1, <1>4, <1>5 DEF RunInv, Footprint

\* So does a step of a run, or a reset.
LEMMA RunRunInv ==
  ASSUME TypeInv, RunInv, (\E r \in Runs : Start(r) \/ Abort(r) \/ End(r)) \/ Crash
  PROVE  RunInv'
<1>1. TypeOK /\ RunOf \in [Calls -> Runs]
  BY CallsAssumption DEF TypeInv
<1> USE DEF TypeOK, RunInv, RunFrame, Live
<1>2. ASSUME NEW r \in Runs, Start(r)
      PROVE  RunInv'
  BY <1>1, <1>2 DEF Start
<1>3. ASSUME NEW r \in Runs, End(r)
      PROVE  RunInv'
  BY <1>1, <1>3 DEF End, Idle
<1>4. ASSUME NEW r \in Runs, Abort(r)
      PROVE  RunInv'
  <2>1. /\ run' = run /\ aborted' = aborted \cup {r}
        /\ open' = open /\ persisted' = persisted /\ effects' = effects
    BY <1>4 DEF Abort
  <2>2. \A x \in Calls : RunOf[x] # r => pc'[x] = pc[x]
    BY <1>4, AbortCases
  <2>3. \A x \in Calls : pc[x] = "idle" => pc'[x] = "idle"
    BY <1>4, AbortCases
  <2> QED
    BY <1>1, <2>1, <2>2, <2>3
<1>5. CASE Crash
  BY <1>1, <1>5 DEF Crash, history, Idle
<1> QED
  BY <1>2, <1>3, <1>4, <1>5

\* Where a step of c takes c.
LEMMA CallStepsInv ==
  ASSUME TypeInv, StepsInv, NEW c \in Calls, CallAction(c)
  PROVE  StepsInv'
<1>1. Footprint(c) /\ LanesInv
  BY StepFootprint DEF TypeInv, LanesInv, LaneTypes, TypeOK
<1> DEFINE Fits == /\ pc'[c] \in Asking \cup {"releasing"} => IsClaimed(c)
                   /\ pc'[c] \in {"parked", "sent"} => IsFrontend(c)
<1>2. SUFFICES Fits
  BY <1>1 DEF Footprint, StepsInv, Asking
<1>3. \A to \in {"marking", "entering", "granted", "waiting", "ending", "settled", "running",
                  "returned"} : Moved(c, to) => Fits
  BY DEF Moved, Asking
<1> USE DEF StepsInv
<1>4. pc'[c] = pc[c] => Fits
  OBVIOUS
<1>5. /\ Moved(c, "parked") /\ IsFrontend(c) => Fits
      /\ Moved(c, "sent") /\ IsFrontend(c) => Fits
      /\ \A to \in Asking \cup {"releasing"} : Moved(c, to) /\ IsClaimed(c) => Fits
  BY DEF Moved, Asking
<1>6. ASSUME Call(c), pc[c] \in {"granted"} \cup Asking
      PROVE  Fits
  <2>1. (Moved(c, "parked") /\ IsFrontend(c)) \/ Moved(c, "running")
    BY <1>1, <1>6, CallMoves
  <2> QED
    BY <1>3, <1>5, <2>1
<1>7. ASSUME Leave(c, "ending"), pc[c] \in Holding
      PROVE  Fits
  BY <1>1, <1>3, <1>7, EndingMoves
<1>8. ASSUME NEW to, Goto(c, to)
      PROVE  pc'[c] = to
  BY <1>1, <1>8 DEF Goto, LanesInv, LaneTypes
<1>9. pc[c] \in {"granted", "claiming", "inspecting", "warning", "taking", "returned", "releasing"} =>
        pc[c] \in Holding
  BY DEF Holding
<1> HIDE DEF Fits
<1>10. CASE Issue(c)
  BY <1>1, <1>3, <1>10, IssueMoves
<1>11. CASE MarkStarted(c)
  BY <1>1, <1>3, <1>11, MarkStartedMoves
<1>12. CASE Interrupted(c) \/ MarkFails(c) \/ Finish(c) \/ FinishFails(c)
  <2>1. PICK what : Settle(c, what) /\ pc[c] \in {"marking", "ending"}
    BY <1>12 DEF Interrupted, MarkFails, Finish, FinishFails
  <2> QED
    BY <1>1, <1>3, <2>1, SettleMoves
<1>13. CASE Enter(c)
  BY <1>1, <1>3, <1>13, EnterMoves
<1>14. CASE SlotRefused(c) \/ ClaimFails(c) \/ ReleaseFails(c)
  BY <1>7, <1>9, <1>14 DEF SlotRefused, ClaimFails, ReleaseFails
<1>14a. CASE Release(c)
  BY <1>1, <1>3, <1>14a, ReleaseMoves
<1>15. CASE SlotUsed(c)
  <2>1. "claiming" \in Asking
    BY DEF Asking
  <2> QED
    BY <1>1, <1>3, <1>5, <1>15, <2>1, SlotUsedMoves
<1>16. pc[c] \in Asking => IsClaimed(c)
  OBVIOUS
<1>17. CASE ClaimInsert(c)
  BY <1>6, <1>8, <1>16, <1>17 DEF ClaimInsert, Asking, Fits
<1>18. CASE ClaimRead(c) \/ ClaimTake(c) \/ ClaimWarn(c)
  BY <1>6, <1>7, <1>8, <1>9, <1>16, <1>18 DEF ClaimRead, ClaimTake, ClaimWarn, Block, Asking, Fits
<1>19. CASE Unsent(c) \/ \E out \in Results : Returns(c, out) \/ Answered(c, out)
  BY <1>8, <1>19 DEF Unsent, Returns, Answered, Answer, Fits, Asking
<1>20. CASE Dispatched(c)
  BY <1>1, <1>5, <1>20, DispatchedMoves DEF Dispatched
<1>21. CASE Unwind(c)
  BY <1>1, <1>3, <1>5, <1>21, UnwindMoves DEF Uncertain
<1>22. CASE MarkSent(c) \/ MarkSentFails(c) \/ Persist(c)
  BY <1>4, <1>22 DEF MarkSent, MarkSentFails, Persist
<1> QED
  BY <1>10, <1>11, <1>12, <1>13, <1>14, <1>14a, <1>15, <1>17, <1>18, <1>19, <1>20, <1>21, <1>22
     DEF CallAction, CallStep, StoreFault

\* A stop or a reset takes no call to a step it does not fit.
LEMMA RunStepsInv ==
  ASSUME StepsInv, (\E r \in Runs : Start(r) \/ Abort(r) \/ End(r)) \/ Crash
  PROVE  StepsInv'
<1>1. ASSUME NEW r \in Runs, Start(r) \/ End(r)
      PROVE  StepsInv'
  BY <1>1 DEF Start, End, StepsInv
<1>2. ASSUME NEW r \in Runs, Abort(r)
      PROVE  StepsInv'
  BY <1>2, AbortCases DEF StepsInv, Asking
<1>3. CASE Crash
  BY <1>3 DEF Crash, StepsInv, Asking
<1> QED
  BY <1>1, <1>2, <1>3

-----------------------------------------------------------------------------
(* The claims *)

\* What the steps of a claimed call rest on: a call past its claim owns it, and
\* no other write of its fingerprint is unaccounted for.
ClaimedInv(c) ==
  LET held == claim[OpOf[c]]
  IN  /\ pc[c] \in Asking \ {"claiming"} => held # NoClaim
      /\ pc[c] = "taking" => held.state = "warned" /\ held.owner # RunOf[c]
      /\ pc[c] \in Inside => /\ held.owner = RunOf[c]
                             /\ \A x \in open : OpOf[x] = OpOf[c] => x = c
      /\ pc[c] \in {"parked", "releasing"} => c \notin open
      /\ pc[c] = "returned" /\ result[c] # "unknown" => c \notin open

\* Another call of the run asks for the claim of x.
AskedAgain(x) ==
  \E c \in Calls : IsClaimed(c) /\ OpOf[c] = OpOf[x] /\ RunOf[c] = RunOf[x] /\ pc[c] \in Asking

\* A write of unknown outcome is on the books, under its own run as long as
\* that run is live or asks for it again.
OpenInv(x) ==
  LET held == claim[OpOf[x]]
  IN  /\ IsClaimed(x)
      /\ held # NoClaim
      /\ run[RunOf[x]] \in Live \/ AskedAgain(x) => held.owner = RunOf[x]

\* With them: whoever a warned claim names was told.
ClaimInv ==
  /\ \A c \in Calls : IsClaimed(c) => ClaimedInv(c)
  /\ \A x \in open : OpenInv(x)
  /\ \A o \in Ops : claim[o].state = "warned" => claim[o].owner \in refused[o]

\* Two writes of one fingerprint are never both past their lane.
LEMMA Exclusive ==
  ASSUME TypeInv, NEW c \in Calls, NEW d \in Calls, IsClaimed(c), IsClaimed(d),
         OpOf[c] = OpOf[d], pc[c] \in Holding, pc[d] \in Holding
  PROVE  c = d
<1> DEFINE L == LaneOf(c)
<1>1. L \in Lanes /\ Capacity(L) = 1 /\ LaneOf(d) = L
  BY LaneType, ClaimedLane, TwinsShareLane
<1>2. {c, d} \subseteq Holders(L)
  BY <1>1 DEF Holders
<1>3. IsFiniteSet(Holders(L)) /\ Cardinality(Holders(L)) <= 1
  BY <1>1 DEF TypeInv, SlotsAccounted, LanesFinite
<1>4. Cardinality({c, d}) <= Cardinality(Holders(L)) /\ IsFiniteSet({c, d})
  BY <1>2, <1>3, FS_Subset
<1>5. ASSUME c # d
      PROVE  FALSE
  <2>1. IsFiniteSet({c}) /\ Cardinality({c}) = 1
    BY FS_Singleton
  <2>2. Cardinality({c} \cup {d}) = Cardinality({c}) + 1
    BY <1>5, <2>1, FS_AddElement
  <2>3. {c, d} = {c} \cup {d}
    OBVIOUS
  <2>4. Cardinality({c, d}) \in Nat /\ Cardinality(Holders(L)) \in Nat
    BY <1>3, <1>4, FS_CardinalityType
  <2> QED
    BY <1>3, <1>4, <2>1, <2>2, <2>3, <2>4
<1> QED
  BY <1>5

\* The steps past the lane are held in it.
LEMMA AskingHolds == Asking \cup Inside \subseteq Holding
BY DEF Asking, Inside, Holding

\* A step that touches neither the ledger nor the history, of a call that is
\* then neither asking nor let through (or is where it was, or claims nothing).
LEMMA QuietKeepsClaims ==
  ASSUME TypeInv, ClaimInv, NEW c \in Calls, Footprint(c),
         claim' = claim, open' = open, \A o \in Ops : refused[o] \subseteq refused'[o],
         \/ pc'[c] \notin Asking \cup Inside
         \/ pc'[c] = pc[c] /\ result'[c] = result[c]
         \/ ~IsClaimed(c)
  PROVE  ClaimInv'
<1>0. "granted" \notin Asking \cup Inside
  BY DEF Asking, Inside
<1>1. \A x \in Calls : IsClaimed(x) /\ pc'[x] \in Asking \cup Inside =>
        pc'[x] = pc[x] /\ result'[x] = result[x]
  BY <1>0 DEF Footprint
<1>2. ASSUME NEW x \in Calls, IsClaimed(x)
      PROVE  ClaimedInv(x)'
  <2>1. CASE pc'[x] \in Asking \cup Inside
    <3>1. pc'[x] = pc[x] /\ result'[x] = result[x]
      BY <1>1, <1>2, <2>1
    <3>2. ClaimedInv(x)
      BY <1>2 DEF ClaimInv
    <3> QED
      BY <3>1, <3>2 DEF ClaimedInv
  <2>2. CASE pc'[x] \notin Asking \cup Inside
    BY <2>2 DEF ClaimedInv, Asking, Inside
  <2> QED
    BY <2>1, <2>2
<1>3. ASSUME NEW x \in open
      PROVE  OpenInv(x)'
  <2>1. AskedAgain(x)' => AskedAgain(x)
    BY <1>1 DEF AskedAgain
  <2>2. run' = run /\ OpenInv(x)
    BY DEF Footprint, ClaimInv
  <2> QED
    BY <2>1, <2>2 DEF OpenInv
<1>4. \A o \in Ops : claim'[o].state = "warned" => claim'[o].owner \in refused'[o]
  BY DEF ClaimInv
<1> QED
  BY <1>2, <1>3, <1>4 DEF ClaimInv

\* A step of a write past its lane: it alone deals with its fingerprint, so
\* what remains to show is about itself.
LEMMA OwnKeepsClaims ==
  ASSUME TypeInv, ClaimInv, NEW c \in Calls, Footprint(c), IsClaimed(c), pc[c] \in Holding,
         open' \subseteq Calls, ClaimedInv(c)',
         \A x \in open' : OpOf[x] = OpOf[c] =>
           /\ claim'[OpOf[c]] # NoClaim
           /\ run[RunOf[x]] \in Live \/ (RunOf[c] = RunOf[x] /\ pc'[c] \in Asking) =>
                claim'[OpOf[c]].owner = RunOf[x],
         claim'[OpOf[c]].state = "warned" => claim'[OpOf[c]].owner \in refused'[OpOf[c]]
  PROVE  ClaimInv'
<1>0. "granted" \notin Asking \cup Inside /\ TypeOK
  BY DEF Asking, Inside, TypeInv
<1>1. \A x \in Calls \ {c} : IsClaimed(x) /\ OpOf[x] = OpOf[c] => pc'[x] \notin Asking \cup Inside
  BY <1>0, Exclusive, AskingHolds DEF Footprint
<1>2. ASSUME NEW x \in Calls, IsClaimed(x)
      PROVE  ClaimedInv(x)'
  <2>1. CASE x = c
    BY <2>1
  <2>2. CASE pc'[x] \notin Asking \cup Inside
    BY <2>2 DEF ClaimedInv, Asking, Inside
  <2>3. CASE x # c /\ pc'[x] \in Asking \cup Inside
    <3>1. OpOf[x] \in Ops \ {OpOf[c]}
      BY <1>1, <1>2, <2>3, CallsAssumption
    <3>2. pc'[x] = pc[x] /\ result'[x] = result[x] /\ claim'[OpOf[x]] = claim[OpOf[x]]
      BY <1>0, <2>3, <3>1 DEF Footprint
    <3>3. \A y \in open' : OpOf[y] = OpOf[x] => y \in open
      BY <1>0, <3>1 DEF Footprint
    <3>4. ClaimedInv(x)
      BY <1>2 DEF ClaimInv
    <3> QED
      BY <3>2, <3>3, <3>4 DEF ClaimedInv
  <2> QED
    BY <2>1, <2>2, <2>3
<1>3. OpOf[c] \in Ops
  BY CallsAssumption
<1>4. ASSUME NEW x \in open'
      PROVE  OpenInv(x)'
  <2>1. x \in Calls /\ OpOf[x] \in Ops
    BY <1>3, CallsAssumption
  <2>2. IsClaimed(x)
    <3>1. CASE x = c
      BY <3>1
    <3>2. CASE x # c
      BY <2>1, <3>2 DEF Footprint, ClaimInv, OpenInv
    <3> QED
      BY <3>1, <3>2
  <2>3. CASE OpOf[x] = OpOf[c]
    <3>1. AskedAgain(x)' => RunOf[c] = RunOf[x] /\ pc'[c] \in Asking
      BY <1>1, <2>3 DEF AskedAgain
    <3>2. run' = run
      BY DEF Footprint
    <3> QED
      BY <2>2, <2>3, <3>1, <3>2 DEF OpenInv
  <2>4. CASE OpOf[x] # OpOf[c]
    <3>1. x \in open /\ claim'[OpOf[x]] = claim[OpOf[x]] /\ run' = run
      BY <2>1, <2>4 DEF Footprint
    <3>2. AskedAgain(x)' => AskedAgain(x)
      <4>1. ASSUME NEW d \in Calls, IsClaimed(d), OpOf[d] = OpOf[x], RunOf[d] = RunOf[x],
                   pc'[d] \in Asking
            PROVE  pc[d] \in Asking
        BY <1>0, <2>4, <4>1 DEF Footprint
      <4> QED
        BY <4>1 DEF AskedAgain
    <3>3. OpenInv(x)
      BY <3>1 DEF ClaimInv
    <3> QED
      BY <2>2, <3>1, <3>2, <3>3 DEF OpenInv
  <2> QED
    BY <2>3, <2>4
<1>5. \A o \in Ops : claim'[o].state = "warned" => claim'[o].owner \in refused'[o]
  BY DEF Footprint, ClaimInv
<1> QED
  BY <1>2, <1>4, <1>5 DEF ClaimInv

\* A write let through accounts for the earlier ones of its fingerprint.
LEMMA LetThroughKeepsClaims ==
  ASSUME TypeInv, ClaimInv, NEW c \in Calls, Footprint(c), IsClaimed(c), pc[c] \in Asking,
         open' \subseteq Calls, Call(c),
         claim' = [claim EXCEPT ![OpOf[c]] = [owner |-> RunOf[c], state |-> "pending"]]
  PROVE  ClaimInv'
<1>1. OpOf[c] \in Ops /\ LanesInv /\ TypeOK /\ pc[c] \in Holding
  BY CallsAssumption, AskingHolds DEF TypeInv, LanesInv, LaneTypes, TypeOK
<1>2. claim'[OpOf[c]] = [owner |-> RunOf[c], state |-> "pending"]
  BY <1>1 DEF TypeOK
<1>3. claim'[OpOf[c]].owner = RunOf[c] /\ claim'[OpOf[c]].state = "pending"
      /\ claim'[OpOf[c]] # NoClaim
  <2>1. NoClaim.state = "absent"
    BY DEF NoClaim
  <2> QED
    BY <1>2, <2>1
<1>4. ~IsRead(c)
  BY DEF IsRead, IsClaimed
<1>5. \/ pc'[c] = "parked" /\ open' = {x \in open : OpOf[x] # OpOf[c]}
      \/ pc'[c] = "running" /\ open' = {x \in open : OpOf[x] # OpOf[c]} \cup {c}
  BY <1>1, <1>4, CallMoves DEF Call, Reaches, Moved
<1>6. \A x \in open' : OpOf[x] = OpOf[c] => x = c
  BY <1>5
<1>7. pc'[c] = "parked" => c \notin open'
  BY <1>5
<1>8. pc'[c] \notin Asking /\ pc'[c] \notin {"releasing", "returned"}
  BY <1>5 DEF Asking
<1>9. ClaimedInv(c)'
  <2>1. pc'[c] # "taking" /\ pc'[c] \notin Asking \ {"claiming"}
    BY <1>8 DEF Asking
  <2> QED
    BY <1>3, <1>6, <1>7, <1>8, <2>1 DEF ClaimedInv
<1> QED
  BY <1>1, <1>3, <1>6, <1>8, <1>9, OwnKeepsClaims

\* The steps of the mark and the lane keep the claims.
LEMMA LaneKeepsClaims ==
  ASSUME TypeInv, RunInv, ClaimInv, NEW c \in Calls, Footprint(c), open' \subseteq Calls,
         \/ Issue(c) \/ MarkStarted(c) \/ Interrupted(c) \/ MarkFails(c) \/ Enter(c)
         \/ SlotRefused(c) \/ SlotUsed(c) \/ ClaimFails(c) \/ Finish(c) \/ FinishFails(c)
         \/ MarkSent(c) \/ MarkSentFails(c) \/ Persist(c)
  PROVE  ClaimInv'
<1>1. LanesInv /\ TypeOK
  BY DEF TypeInv, LanesInv, LaneTypes, TypeOK
<1>2. \A to \in {"marking", "entering", "granted", "waiting", "ending", "settled"} :
        Moved(c, to) => pc'[c] \notin Asking \cup Inside
  BY DEF Moved, Asking, Inside
<1>3. CASE Issue(c) \/ MarkStarted(c) \/ Enter(c)
  <2>1. pc'[c] \notin Asking \cup Inside
    BY <1>1, <1>2, <1>3, IssueMoves, MarkStartedMoves, EnterMoves
  <2>2. UNCHANGED <<claim, open, refused>>
    BY <1>3 DEF Issue, MarkStarted, Enter, ledger, history
  <2> QED
    BY <2>1, <2>2, QuietKeepsClaims
<1>4. CASE Interrupted(c) \/ MarkFails(c) \/ Finish(c) \/ FinishFails(c)
  <2>1. PICK what : Settle(c, what) /\ pc[c] \in {"marking", "ending"}
    BY <1>4 DEF Interrupted, MarkFails, Finish, FinishFails
  <2>2. pc'[c] \notin Asking \cup Inside
    BY <1>1, <1>2, <2>1, SettleMoves
  <2>3. UNCHANGED <<claim, open, refused>>
    BY <1>4 DEF Interrupted, MarkFails, Finish, FinishFails, ledger, history
  <2> QED
    BY <2>2, <2>3, QuietKeepsClaims
<1>5. CASE SlotRefused(c) \/ ClaimFails(c)
  <2>1. pc[c] \in Holding /\ Leave(c, "ending")
    BY <1>5 DEF SlotRefused, ClaimFails, Holding
  <2>2. pc'[c] \notin Asking \cup Inside
    BY <1>1, <1>2, <2>1, EndingMoves
  <2>3. UNCHANGED <<claim, open, refused>>
    BY <1>5 DEF SlotRefused, ClaimFails, history
  <2> QED
    BY <2>2, <2>3, QuietKeepsClaims
<1>6. CASE SlotUsed(c) /\ ~IsClaimed(c)
  <2>1. UNCHANGED <<claim, open, refused>>
    BY <1>6 DEF SlotUsed, Call, Reaches
  <2> QED
    BY <1>6, <2>1, QuietKeepsClaims
<1>7. CASE SlotUsed(c) /\ IsClaimed(c)
  <2>1. pc[c] = "granted" /\ RunOf[c] \notin aborted /\ UNCHANGED <<claim, open, refused>>
    BY <1>7 DEF SlotUsed, history
  <2>2. pc'[c] = "claiming"
    BY <1>1, <1>7, SlotUsedMoves DEF Moved
  <2>3. run[RunOf[c]] \in Live
    BY <2>1 DEF RunInv, Idle, Live
  <2>4. ClaimedInv(c)'
    BY <2>2 DEF ClaimedInv, Inside
  <2>5. ASSUME NEW x \in open', OpOf[x] = OpOf[c]
        PROVE  /\ claim'[OpOf[c]] # NoClaim
               /\ run[RunOf[x]] \in Live \/ (RunOf[c] = RunOf[x] /\ pc'[c] \in Asking) =>
                    claim'[OpOf[c]].owner = RunOf[x]
    <3>1. OpenInv(x)
      BY <2>1, <2>5 DEF ClaimInv
    <3> QED
      BY <2>1, <2>3, <2>5, <3>1 DEF OpenInv
  <2>6. claim'[OpOf[c]].state = "warned" => claim'[OpOf[c]].owner \in refused'[OpOf[c]]
    BY <2>1, CallsAssumption DEF ClaimInv
  <2>7. pc[c] \in Holding
    BY <2>1 DEF Holding
  <2> QED
    BY <1>7, <2>4, <2>5, <2>6, <2>7, OwnKeepsClaims
<1>8. CASE MarkSent(c) \/ MarkSentFails(c) \/ Persist(c)
  BY <1>8, QuietKeepsClaims DEF MarkSent, MarkSentFails, Persist, ledger, history
<1> QED
  BY <1>3, <1>4, <1>5, <1>6, <1>7, <1>8

\* The steps of the claim keep the claims.
LEMMA AskingKeepsClaims ==
  ASSUME TypeInv, StepsInv, ClaimInv, NEW c \in Calls, Footprint(c), open' \subseteq Calls,
         ClaimInsert(c) \/ ClaimRead(c) \/ ClaimTake(c) \/ ClaimWarn(c)
  PROVE  ClaimInv'
<1> DEFINE o == OpOf[c]
<1>1. LanesInv /\ TypeOK /\ o \in Ops /\ RunOf[c] \in Runs
  BY CallsAssumption DEF TypeInv, LanesInv, LaneTypes, TypeOK
<1>2. pc[c] \in Asking
  BY DEF ClaimInsert, ClaimRead, ClaimTake, ClaimWarn, Asking
<1>3. IsClaimed(c) /\ pc[c] \in Holding
  BY <1>2, AskingHolds DEF StepsInv
<1>4. ClaimedInv(c)
  BY <1>3 DEF ClaimInv
<1>5. \A x \in open : OpOf[x] = o =>
        /\ claim[o] # NoClaim
        /\ run[RunOf[x]] \in Live \/ RunOf[c] = RunOf[x] => claim[o].owner = RunOf[x]
  <2> SUFFICES ASSUME NEW x \in open, OpOf[x] = o
               PROVE  /\ claim[o] # NoClaim
                      /\ run[RunOf[x]] \in Live \/ RunOf[c] = RunOf[x] =>
                           claim[o].owner = RunOf[x]
    OBVIOUS
  <2>1. OpenInv(x)
    BY DEF ClaimInv
  <2>2. RunOf[c] = RunOf[x] => AskedAgain(x)
    BY <1>2, <1>3 DEF AskedAgain
  <2> QED
    BY <2>1, <2>2 DEF OpenInv
<1>6. ASSUME NEW to \in Asking, Goto(c, to), UNCHANGED <<claim, open, refused>>,
             claim[o] # NoClaim,
             to = "taking" => claim[o].state = "warned" /\ claim[o].owner # RunOf[c]
      PROVE  ClaimInv'
  <2>1. pc'[c] = to
    BY <1>1, <1>6 DEF Goto, LanesInv, LaneTypes
  <2>2. ClaimedInv(c)'
    BY <1>6, <2>1 DEF ClaimedInv, Asking, Inside
  <2>3. claim[o].state = "warned" => claim[o].owner \in refused[o]
    BY <1>1 DEF ClaimInv
  <2> QED
    BY <1>3, <1>5, <1>6, <2>2, <2>3, OwnKeepsClaims
<1>7. CASE ClaimInsert(c)
  <2>1. CASE claim[o] = NoClaim
    BY <1>2, <1>3, <1>7, <2>1, LetThroughKeepsClaims DEF ClaimInsert
  <2>2. CASE claim[o] # NoClaim
    <3>1. Goto(c, "inspecting") /\ UNCHANGED <<claim, open, refused>> /\ "inspecting" \in Asking
      BY <1>7, <2>2 DEF ClaimInsert, history, Asking
    <3> QED
      BY <1>6, <2>2, <3>1
  <2> QED
    BY <2>1, <2>2
<1>8. ASSUME Block(c)
      PROVE  /\ pc'[c] = "ending" /\ open' = open
             /\ refused' = [refused EXCEPT ![o] = @ \cup {RunOf[c]}]
  BY <1>1, <1>3, <1>8, EndingMoves DEF Block, Moved
<1>9. "ending" \notin Asking \cup Inside /\ "ending" # "taking"
  BY DEF Asking, Inside
<1>10. CASE ClaimRead(c)
  <2>1. claim[o] # NoClaim /\ claim' = claim
    BY <1>4, <1>10 DEF ClaimRead, ClaimedInv, Asking
  <2>2. CASE Goto(c, "taking") /\ claim[o].state = "warned" /\ claim[o].owner # RunOf[c]
             /\ UNCHANGED <<open, refused>>
    BY <1>6, <2>1, <2>2 DEF Asking
  <2>3. CASE Goto(c, "warning") /\ UNCHANGED <<open, refused>>
    BY <1>6, <2>1, <2>3 DEF Asking
  <2>4. CASE Block(c)
    <3>1. \A oo \in Ops : refused[oo] \subseteq refused'[oo]
      BY <1>1, <1>8, <2>4 DEF TypeOK
    <3> QED
      BY <1>8, <1>9, <2>1, <2>4, <3>1, QuietKeepsClaims
  <2> QED
    BY <1>10, <2>1, <2>2, <2>3, <2>4 DEF ClaimRead, history
<1>11. CASE ClaimTake(c)
  <2>1. claim[o] # NoClaim
    BY <1>4, <1>11 DEF ClaimTake, ClaimedInv, Asking
  <2> QED
    BY <1>2, <1>3, <1>11, <2>1, LetThroughKeepsClaims DEF ClaimTake
<1>12. CASE ClaimWarn(c)
  <2>1. Block(c)
    BY <1>12 DEF ClaimWarn
  <2>2. refused'[o] = refused[o] \cup {RunOf[c]}
        /\ \A oo \in Ops : refused[oo] \subseteq refused'[oo]
    BY <1>1, <1>8, <2>1 DEF TypeOK
  <2>3. CASE ~MayWarn(c)
    <3>1. claim' = claim
      BY <1>12, <2>3 DEF ClaimWarn
    <3> QED
      BY <1>8, <1>9, <2>1, <2>2, <3>1, QuietKeepsClaims
  <2>4. CASE MayWarn(c)
    <3>1. claim'[o] = [owner |-> RunOf[c], state |-> "warned"]
      BY <1>1, <1>12, <2>4 DEF ClaimWarn, TypeOK
    <3>2. claim'[o].owner = RunOf[c] /\ claim'[o] # NoClaim
      <4>1. NoClaim.state = "absent"
        BY DEF NoClaim
      <4> QED
        BY <3>1, <4>1
    <3>3. \A x \in open' : OpOf[x] = o /\ run[RunOf[x]] \in Live => RunOf[x] = RunOf[c]
      BY <1>5, <1>8, <2>1, <2>4 DEF MayWarn
    <3>4. pc'[c] = "ending"
      BY <1>8, <2>1
    <3>5. ClaimedInv(c)'
      BY <3>4 DEF ClaimedInv, Asking, Inside
    <3>6. pc'[c] \notin Asking
      BY <1>9, <3>4
    <3> QED
      BY <1>3, <2>2, <3>2, <3>3, <3>5, <3>6, OwnKeepsClaims
  <2> QED
    BY <2>3, <2>4
<1> QED
  BY <1>7, <1>10, <1>11, <1>12

\* The steps of the tool and the way back keep the claims.
LEMMA ToolKeepsClaims ==
  ASSUME TypeInv, StepsInv, ClaimInv, NEW c \in Calls, Footprint(c), open' \subseteq Calls,
         \/ \E out \in Results : Returns(c, out) \/ Answered(c, out)
         \/ Unsent(c) \/ Dispatched(c) \/ Unwind(c) \/ Release(c) \/ ReleaseFails(c)
  PROVE  ClaimInv'
<1> DEFINE o == OpOf[c]
<1>1. LanesInv /\ TypeOK /\ o \in Ops /\ RunOf[c] \in Runs
  BY CallsAssumption DEF TypeInv, LanesInv, LaneTypes, TypeOK
<1>2. pc[c] \in Inside /\ pc[c] \in Holding
  BY DEF Returns, Answered, Unsent, Dispatched, Unwind, Release, ReleaseFails, Inside, Holding
<1>3. c \in open => IsClaimed(c)
  BY DEF ClaimInv, OpenInv
<1>4. ASSUME IsClaimed(c)
      PROVE  /\ claim[o].owner = RunOf[c] /\ claim[o] # NoClaim
             /\ \A x \in open : OpOf[x] = o => x = c
             /\ pc[c] \in {"parked", "releasing"} => c \notin open
             /\ pc[c] = "returned" /\ result[c] # "unknown" => c \notin open
             /\ claim[o].state = "warned" => claim[o].owner \in refused[o]
  <2>1. ClaimedInv(c)
    BY <1>4 DEF ClaimInv
  <2>2. claim[o].owner = RunOf[c]
    BY <1>2, <2>1 DEF ClaimedInv
  <2>3. NoClaim.owner \notin Runs
    BY CallsAssumption DEF NoClaim
  <2> QED
    BY <1>1, <1>2, <2>1, <2>2, <2>3 DEF ClaimedInv, ClaimInv
<1>5. ASSUME IsClaimed(c), UNCHANGED <<claim, refused>>, pc'[c] \in Inside,
             open' \subseteq open \cup {c},
             pc'[c] \in {"parked", "releasing"} => c \notin open',
             pc'[c] = "returned" /\ result'[c] # "unknown" => c \notin open'
      PROVE  ClaimInv'
  <2>1. \A x \in open' : OpOf[x] = o => x = c
    BY <1>4, <1>5
  <2>2. pc'[c] \notin Asking
    BY <1>5 DEF Asking, Inside
  <2>3. ClaimedInv(c)'
    <3>1. pc'[c] # "taking" /\ pc'[c] \notin Asking \ {"claiming"}
      BY <2>2 DEF Asking
    <3> QED
      BY <1>4, <1>5, <2>1, <3>1 DEF ClaimedInv
  <2> QED
    BY <1>2, <1>4, <1>5, <2>1, <2>2, <2>3, OwnKeepsClaims
<1>6. ASSUME NEW out \in Results, Answer(c, out), pc[c] = "parked" => out # "unknown"
      PROVE  ClaimInv'
  <2>1. /\ pc'[c] = "returned" /\ result'[c] = out /\ UNCHANGED <<claim, refused>>
        /\ open' \subseteq open /\ (out # "unknown" => c \notin open')
    BY <1>1, <1>6 DEF Answer, Goto, Tell, TypeOK
  <2>2. CASE IsClaimed(c)
    <3>1. "returned" \in Inside
      BY DEF Inside
    <3> QED
      BY <1>5, <2>1, <2>2, <3>1
  <2>3. CASE ~IsClaimed(c)
    <3>1. open' = open
      BY <1>3, <1>6, <2>3 DEF Answer
    <3> QED
      BY <2>1, <2>3, <3>1, QuietKeepsClaims
  <2> QED
    BY <2>2, <2>3
<1>7. CASE \E out \in Results : Returns(c, out) \/ Answered(c, out)
  BY <1>6, <1>7 DEF Returns, Answered
<1>8. CASE Unsent(c)
  BY <1>6, <1>8 DEF Unsent, Results
<1>9. CASE Dispatched(c)
  <2>1. pc'[c] = "sent" /\ UNCHANGED <<claim, refused>>
    BY <1>1, <1>9, DispatchedMoves DEF Dispatched, Moved, ledger
  <2>2. CASE IsClaimed(c)
    <3>1. open' \subseteq open \cup {c} /\ "sent" \in Inside
      BY <1>9 DEF Dispatched, Reaches, Inside
    <3> QED
      BY <1>5, <2>1, <2>2, <3>1
  <2>3. CASE ~IsClaimed(c)
    <3>1. open' = open
      BY <1>9, <2>3 DEF Dispatched, Reaches
    <3> QED
      BY <2>1, <2>3, <3>1, QuietKeepsClaims
  <2> QED
    BY <2>2, <2>3
<1>10. CASE Unwind(c)
  <2>1. UNCHANGED <<claim, open, refused, result>> /\ pc[c] = "returned"
    BY <1>10 DEF Unwind, history
  <2>2. CASE Uncertain(c)
    <3>1. pc'[c] \in {"ending", "entering"}
      BY <1>1, <1>10, <2>2, UnwindMoves DEF Moved
    <3> QED
      BY <2>1, <3>1, QuietKeepsClaims DEF Asking, Inside
  <2>3. CASE ~Uncertain(c)
    <3>1. pc'[c] = "releasing" /\ IsClaimed(c) /\ result[c] # "unknown"
      BY <1>1, <1>10, <2>3, UnwindMoves DEF Moved, Uncertain
    <3>2. "releasing" \in Inside
      BY DEF Inside
    <3> QED
      BY <1>4, <1>5, <2>1, <3>1, <3>2
  <2> QED
    BY <2>2, <2>3
<1>11. CASE Release(c) \/ ReleaseFails(c)
  <2>1. pc[c] = "releasing" /\ claim' \in {claim, Released(c)} /\ UNCHANGED <<open, refused>>
        /\ (Release(c) \/ Leave(c, "ending"))
    BY <1>11 DEF Release, ReleaseFails, history
  <2>2. pc'[c] \in {"ending", "entering"}
    BY <1>1, <1>2, <2>1, EndingMoves, ReleaseMoves DEF Moved
  <2>3. pc'[c] \notin Asking \cup Inside
    BY <2>2 DEF Asking, Inside
  <2>4. IsClaimed(c)
    BY <2>1 DEF StepsInv
  <2>5. CASE claim' = claim
    BY <2>1, <2>3, <2>5, QuietKeepsClaims
  <2>6. CASE claim' = Released(c)
    <3>1. claim'[o] = NoClaim
      BY <1>1, <1>4, <2>4, <2>6 DEF Released, TypeOK
    <3>2. claim'[o].state = "absent"
      BY <3>1 DEF NoClaim
    <3>3. \A x \in open' : OpOf[x] # o
      BY <1>4, <2>1, <2>4
    <3>4. ClaimedInv(c)'
      BY <2>2 DEF ClaimedInv, Asking, Inside
    <3> QED
      BY <1>2, <2>4, <3>2, <3>3, <3>4, OwnKeepsClaims
  <2> QED
    BY <2>1, <2>5, <2>6
<1> QED
  BY <1>7, <1>8, <1>9, <1>10, <1>11

\* Every step of a call keeps the claims.
LEMMA CallClaimInv ==
  ASSUME TypeInv, RunInv, StepsInv, ClaimInv, NEW c \in Calls, CallAction(c)
  PROVE  ClaimInv'
<1>1. Footprint(c) /\ open' \subseteq Calls
  BY StepFootprint, CallTypeInv DEF CallAction, TypeInv, TypeOK
<1> QED
  BY <1>1, LaneKeepsClaims, AskingKeepsClaims, ToolKeepsClaims
     DEF CallAction, CallStep, StoreFault

\* A run that starts, stops or ends keeps the claims, and so does a reset.
LEMMA RunClaimInv ==
  ASSUME TypeInv, RunInv, ClaimInv, (\E r \in Runs : Start(r) \/ Abort(r) \/ End(r)) \/ Crash
  PROVE  ClaimInv'
<1>1. TypeOK /\ RunOf \in [Calls -> Runs]
  BY CallsAssumption DEF TypeInv
<1>2. UNCHANGED <<claim, open, refused>>
  BY DEF Start, Abort, End, Crash, RunFrame, ledger, history
<1>3. ASSUME NEW x \in open
      PROVE  run'[RunOf[x]] \in Live => run[RunOf[x]] \in Live
  <2>1. x \in Calls /\ run[RunOf[x]] # "new"
    BY <1>1 DEF RunInv, TypeOK
  <2>2. ASSUME NEW r \in Runs, Start(r) \/ Abort(r) \/ End(r)
        PROVE  run'[RunOf[x]] \in Live => run[RunOf[x]] \in Live
    BY <1>1, <2>1, <2>2 DEF Start, Abort, End, Live, TypeOK
  <2>3. CASE Crash
    BY <1>1, <2>1, <2>3 DEF Crash, Live, TypeOK
  <2> QED
    BY <2>2, <2>3
<1>4. ASSUME NEW x \in Calls, pc'[x] \in Asking
      PROVE  pc[x] \in Asking
  <2>1. ASSUME NEW r \in Runs, Start(r) \/ Abort(r) \/ End(r)
        PROVE  pc[x] \in Asking
    BY <1>4, <2>1, AbortCases DEF Start, End, Asking
  <2>2. CASE Crash
    BY <1>4, <2>2 DEF Crash, Asking
  <2> QED
    BY <2>1, <2>2
<1>5. ASSUME NEW x \in open
      PROVE  OpenInv(x)'
  <2>1. AskedAgain(x)' => AskedAgain(x)
    BY <1>4 DEF AskedAgain
  <2>2. OpenInv(x)
    BY DEF ClaimInv
  <2> QED
    BY <1>2, <1>3, <2>1, <2>2 DEF OpenInv
<1>6. ASSUME NEW x \in Calls, IsClaimed(x)
      PROVE  ClaimedInv(x)'
  <2>1. ClaimedInv(x)
    BY <1>6 DEF ClaimInv
  <2>2. ASSUME NEW r \in Runs, Start(r) \/ End(r)
        PROVE  ClaimedInv(x)'
    BY <1>2, <2>1, <2>2 DEF Start, End, ClaimedInv
  <2>3. ASSUME NEW r \in Runs, Abort(r)
        PROVE  ClaimedInv(x)'
    <3>1. CASE pc'[x] = pc[x] /\ result'[x] = result[x]
      BY <1>2, <2>1, <3>1 DEF ClaimedInv
    <3>2. CASE pc'[x] = "ending"
      BY <3>2 DEF ClaimedInv, Asking, Inside
    <3>3. CASE /\ pc[x] \in {"parked", "sent"} /\ pc'[x] = "returned"
               /\ pc[x] = "parked" \/ result'[x] = "unknown"
      BY <1>2, <2>1, <3>3 DEF ClaimedInv, Asking, Inside
    <3> QED
      BY <2>3, <3>1, <3>2, <3>3, AbortCases
  <2>4. CASE Crash
    <3>1. pc'[x] \in {"idle", "settled"}
      BY <2>4 DEF Crash
    <3> QED
      BY <3>1 DEF ClaimedInv, Asking, Inside
  <2> QED
    BY <2>2, <2>3, <2>4
<1>7. \A o \in Ops : claim'[o].state = "warned" => claim'[o].owner \in refused'[o]
  BY <1>2 DEF ClaimInv
<1> QED
  BY <1>2, <1>5, <1>6, <1>7 DEF ClaimInv

-----------------------------------------------------------------------------
(* What the claims are for *)

ClaimsInv == TypeInv /\ RunInv /\ StepsInv /\ ClaimInv

\* No claim is held before the first call.
LEMMA InitClaimsInv == Init => ClaimsInv
<1> SUFFICES ASSUME Init PROVE ClaimsInv
  OBVIOUS
<1>1. TypeInv
  BY InitTypeInv
<1>2. RunInv /\ StepsInv
  BY CallsAssumption DEF Init, RunInv, StepsInv, Idle, Asking, Live
<1>3. \A c \in Calls : ClaimedInv(c)
  BY DEF Init, ClaimedInv, Asking, Inside
<1>4. \A o \in Ops : claim[o].state # "warned"
  BY DEF Init, NoClaim
<1> QED
  BY <1>1, <1>2, <1>3, <1>4 DEF ClaimsInv, ClaimInv, Init

\* The inductive step.
LEMMA NextClaimsInv == ClaimsInv /\ [Next]_vars => ClaimsInv'
<1> SUFFICES ASSUME ClaimsInv, [Next]_vars PROVE ClaimsInv'
  OBVIOUS
<1>1. TypeInv /\ RunInv /\ StepsInv /\ ClaimInv /\ TypeInv'
  BY NextTypeInv DEF ClaimsInv
<1>2. CASE UNCHANGED vars
  <2>1. (RunInv /\ StepsInv)' /\ UNCHANGED <<claim, open, refused, pc, result, run>>
    BY <1>1, <1>2 DEF vars, lanes, ledger, history, faults, RunInv, StepsInv
  <2>2. ClaimInv'
    BY <1>1, <2>1 DEF ClaimInv, ClaimedInv, OpenInv, AskedAgain
  <2> QED
    BY <1>1, <2>1, <2>2 DEF ClaimsInv
<1>3. ASSUME NEW c \in Calls, CallAction(c)
      PROVE  ClaimsInv'
  BY <1>1, <1>3, CallRunInv, CallStepsInv, CallClaimInv DEF ClaimsInv
<1>4. CASE (\E r \in Runs : Start(r) \/ Abort(r) \/ End(r)) \/ Crash
  BY <1>1, <1>4, RunRunInv, RunStepsInv, RunClaimInv DEF ClaimsInv
<1> QED
  BY <1>2, <1>3, <1>4 DEF Next, CallAction

\* The claims, of every reachable state.
THEOREM ClaimsInvHolds == Spec => []ClaimsInv
<1> QED
  BY InitClaimsInv, NextClaimsInv, PTL DEF Spec

\* A write whose outcome nobody knows is on the books: no stop, reset, failed
\* release or takeover loses its claim (claimWrite, releaseWrite).
THEOREM UnknownStaysClaimed == Spec => []UnknownIsClaimed
<1>1. ClaimsInv => UnknownIsClaimed
  BY DEF ClaimsInv, ClaimInv, OpenInv, UnknownIsClaimed
<1> QED
  BY <1>1, ClaimsInvHolds, PTL

\* Only the three steps of claimWrite let a write through.
LEMMA LetThroughSteps ==
  ASSUME ClaimsInv, NEW c \in Calls, LetThrough(c), Next
  PROVE  ClaimInsert(c) \/ ClaimRead(c) \/ ClaimTake(c)
<1>1. TypeInv /\ LanesInv /\ TypeOK
  BY DEF ClaimsInv, TypeInv, LanesInv, LaneTypes, TypeOK
<1>2. pc[c] \in {"claiming", "inspecting", "taking"} /\ pc'[c] \in {"running", "parked"}
  BY DEF LetThrough
<1>3. ASSUME NEW e \in Calls, CallAction(e)
      PROVE  e = c
  BY <1>1, <1>2, <1>3, StepFootprint DEF Footprint
<1>4. ~(\E r \in Runs : Start(r) \/ Abort(r) \/ End(r)) /\ ~Crash
  <2>1. ASSUME NEW r \in Runs, Start(r) \/ Abort(r) \/ End(r)
        PROVE  FALSE
    BY <1>2, <2>1, AbortCases DEF Start, End
  <2>2. ASSUME Crash
        PROVE  FALSE
    BY <1>2, <2>2 DEF Crash
  <2> QED
    BY <2>1, <2>2
<1>5. CallAction(c)
  BY <1>3, <1>4 DEF Next, CallAction
<1>6. ~ClaimFails(c)
  <2>1. ASSUME ClaimFails(c)
        PROVE  FALSE
    <3>1. pc'[c] = "ending"
      BY <1>1, <2>1, EndingMoves DEF ClaimFails, Holding, Moved
    <3> QED
      BY <1>2, <3>1
  <2> QED
    BY <2>1
<1>7. ~(MarkSent(c) \/ MarkSentFails(c) \/ Persist(c))
  BY <1>2 DEF MarkSent, MarkSentFails, Persist
<1>8. ~(Issue(c) \/ MarkStarted(c) \/ Interrupted(c) \/ Enter(c) \/ SlotRefused(c) \/ SlotUsed(c)
        \/ ClaimWarn(c) \/ MarkFails(c))
  BY <1>2 DEF Issue, MarkStarted, Interrupted, Enter, SlotRefused, SlotUsed, ClaimWarn, MarkFails
<1>9. ~(Unsent(c) \/ Unwind(c) \/ Release(c) \/ ReleaseFails(c) \/ Finish(c) \/ FinishFails(c)
        \/ Dispatched(c) \/ \E out \in Results : Returns(c, out) \/ Answered(c, out))
  BY <1>2 DEF Unsent, Unwind, Release, ReleaseFails, Finish, FinishFails, Dispatched, Returns,
              Answered
<1> QED
  BY <1>5, <1>6, <1>7, <1>8, <1>9 DEF CallAction, CallStep, StoreFault

\* What the ledger says when a write is let through.
LEMMA LetThroughWarned ==
  ASSUME ClaimsInv, NEW c \in Calls, LetThrough(c), Next,
         NEW x \in open, OpOf[x] = OpOf[c]
  PROVE  RunOf[x] # RunOf[c] /\ \E r \in refused[OpOf[c]] : r # RunOf[c]
<1> DEFINE held == claim[OpOf[c]]
<1>1. IsClaimed(c) /\ ClaimedInv(c) /\ OpenInv(x) /\ OpOf[c] \in Ops
  BY CallsAssumption DEF LetThrough, ClaimsInv, ClaimInv
<1>2. held # NoClaim
  BY <1>1 DEF OpenInv
<1>3. TypeOK /\ pc'[c] \in {"running", "parked"}
  BY DEF ClaimsInv, TypeInv, LetThrough
<1>4. ~ClaimInsert(c)
  BY <1>2, <1>3 DEF ClaimInsert, Goto, TypeOK
<1>5. ~ClaimRead(c)
  <2>1. ASSUME ClaimRead(c)
        PROVE  FALSE
    <3>1. LanesInv /\ pc[c] \in Holding
      BY <2>1 DEF ClaimsInv, TypeInv, LanesInv, LaneTypes, TypeOK, ClaimRead, Holding
    <3>2. Block(c) => pc'[c] = "ending"
      BY <3>1, EndingMoves DEF Block, Moved
    <3>3. Goto(c, "taking") \/ Goto(c, "warning") \/ Block(c)
      BY <1>2, <2>1 DEF ClaimRead
    <3> QED
      BY <1>3, <3>2, <3>3 DEF Goto, TypeOK
  <2> QED
    BY <2>1
<1>6. ClaimTake(c)
  BY <1>4, <1>5, LetThroughSteps
<1>7. held.state = "warned" /\ held.owner # RunOf[c] /\ pc[c] \in Asking
  BY <1>1, <1>6 DEF ClaimTake, ClaimedInv, Asking
<1>8. held.owner \in refused[OpOf[c]]
  BY <1>1, <1>7 DEF ClaimsInv, ClaimInv
<1>9. RunOf[x] = RunOf[c] => AskedAgain(x)
  BY <1>1, <1>7 DEF AskedAgain
<1> QED
  BY <1>1, <1>7, <1>8, <1>9 DEF OpenInv

\* A write of unknown outcome is repeated only by a later turn, and after the
\* user was told by another one: whichever runs, stops, resets and rejected
\* table writes come in between (claimWrite).
THEOREM NeverBlindlyRepeated == Spec => NoBlindRepeat
<1>1. ClaimsInv /\ [Next]_vars =>
        [\A c \in Calls : LetThrough(c) =>
           \A x \in open : OpOf[x] = OpOf[c] =>
             /\ RunOf[x] # RunOf[c]
             /\ \E r \in refused[OpOf[c]] : r # RunOf[c]]_vars
  BY LetThroughWarned
<1> QED
  BY <1>1, ClaimsInvHolds, PTL DEF Spec, NoBlindRepeat

-----------------------------------------------------------------------------
(* The step of a call, seen from its mark, its effect and its claim *)

\* The steps between the mark and the effect.
Before == {"entering", "waiting", "granted", "parked"} \cup Asking

\* The mark is opened on the way in and finished on the way out.
MarkShape(c) ==
  /\ pc'[c] \in Before =>
       \/ IsRead(c)
       \/ pc[c] \in Before /\ mark'[c] = mark[c]
       \/ /\ pc[c] = "marking" /\ pc'[c] = "entering" /\ mark'[c] = "open"
          /\ mark[c] = "none" \/ Reruns(c)
  /\ \/ mark'[c] = mark[c]
     \/ pc'[c] = "entering"
     \/ pc'[c] = "settled" /\ mark'[c] = "done"
  /\ c \in sending => mark'[c] = mark[c] \/ pc[c] = "marking"
  /\ pc'[c] # "idle"
  /\ pc'[c] = "marking" =>
       pc[c] = "idle" /\ (ParentOf[c] \in Calls => pc[ParentOf[c]] = "running")
  /\ pc[c] \in Idle /\ pc'[c] \notin Idle =>
       pc[c] = "idle" /\ (ParentOf[c] \in Calls => pc[ParentOf[c]] = "running")

\* The effect takes place where the tool is called, or where a browser takes it.
EffectShape(c) ==
  /\ \/ effects'[c] = effects[c]
     \/ /\ ~IsRead(c) /\ effects'[c] = effects[c] + 1
        /\ \/ pc[c] \in Before /\ pc'[c] = "running" /\ ~IsFrontend(c)
           \/ pc[c] = "parked" /\ pc'[c] = "sent"
  /\ pc'[c] = "running" =>
       pc[c] \in Before /\ ~IsFrontend(c) /\ (~IsRead(c) => effects'[c] = effects[c] + 1)
  /\ c \in sending' => c \in sending \/ (pc[c] = "parked" /\ pc'[c] = "sent")
  /\ c \in sending \/ pc'[c] = "sent" => c \in sending'
  /\ c \in sending => (pc[c] = "sent" => pc'[c] = "returned")
  /\ c \in sending /\ ~IsRead(c) =>
       (pc[c] = "returned" => pc'[c] \in {"releasing", "ending"})
  /\ c \in sending => pc[c] \notin {"releasing", "ending"}
  /\ pc'[c] = "parked" =>
       /\ IsFrontend(c)
       /\ IsClaimed(c) => pc[c] = "taking" \/ (pc[c] = "claiming" /\ claim[OpOf[c]] = NoClaim)

\* The claim changes hands where the call asks for it, and where it lets go.
ClaimShape(c) ==
  LET held == claim[OpOf[c]]
  IN  /\ \/ claim'[OpOf[c]] = held
         \/ /\ IsClaimed(c)
            /\ \/ pc[c] = "claiming" /\ held = NoClaim
               \/ pc[c] = "taking"
               \/ pc[c] = "warning" /\ claim'[OpOf[c]].owner = RunOf[c]
               \/ pc[c] = "releasing" /\ c \notin sending
      /\ IsClaimed(c) /\ pc'[c] \in Inside \cup {"taking"} =>
           \/ pc[c] \in Inside
           \/ pc[c] = "claiming" /\ held = NoClaim
           \/ pc[c] = "taking"
           \/ pc[c] = "inspecting" /\ held.owner # RunOf[c]
      /\ pc'[c] \in Asking =>
           \/ pc[c] \in Asking
           \/ pc[c] = "granted" /\ RunOf[c] \notin aborted

Shape(c) == MarkShape(c) /\ EffectShape(c) /\ ClaimShape(c)

\* What a call let through does to its effect.
LEMMA CallEffect ==
  ASSUME TypeOK, NEW c \in Calls, Call(c)
  PROVE  IF IsFrontend(c) \/ IsRead(c)
           THEN effects'[c] = effects[c]
           ELSE effects'[c] = effects[c] + 1
<1>1. CASE IsFrontend(c)
  BY <1>1 DEF Call
<1>2. CASE ~IsFrontend(c)
  BY <1>2 DEF Call, Reaches, TypeOK
<1> QED
  BY <1>1, <1>2

\* The steps of the mark have that shape.
LEMMA MarkSteps ==
  ASSUME ClaimsInv, NEW c \in Calls,
         Issue(c) \/ MarkStarted(c) \/ Interrupted(c) \/ Finish(c) \/ Persist(c)
  PROVE  Shape(c)
<1>1. LanesInv /\ TypeOK
  BY DEF ClaimsInv, TypeInv, LanesInv, LaneTypes, TypeOK
<1> USE DEF Shape, MarkShape, EffectShape, ClaimShape, Before, Asking, Inside, Idle
<1>2. CASE Issue(c)
  <2>1. pc[c] = "idle" /\ pc'[c] = "marking" /\ UNCHANGED <<mark, effects, sending, claim>>
        /\ (ParentOf[c] \in Calls => pc[ParentOf[c]] = "running")
    BY <1>1, <1>2, IssueMoves DEF Issue, Moved, ledger, history
  <2> QED
    BY <2>1
<1>3. CASE MarkStarted(c)
  <2>1. pc[c] = "marking" /\ pc'[c] = "entering" /\ UNCHANGED <<effects, sending, claim>>
        /\ mark'[c] = "open" /\ (mark[c] = "none" \/ Reruns(c))
    BY <1>1, <1>3, MarkStartedMoves DEF MarkStarted, Moved, history, TypeOK
  <2> QED
    BY <2>1
<1>4. CASE Interrupted(c)
  <2>1. pc[c] = "marking" /\ pc'[c] = "settled" /\ UNCHANGED <<effects, sending, claim>>
        /\ mark'[c] = "done"
    BY <1>1, <1>4 DEF Interrupted, Settle, Goto, history, TypeOK
  <2> QED
    BY <2>1
<1>5. CASE Finish(c)
  <2>1. pc[c] = "ending" /\ UNCHANGED <<effects, sending, claim>> /\ c \notin sending
        /\ mark'[c] = "done" /\ pc'[c] = "settled"
    BY <1>1, <1>5 DEF Finish, Settle, Goto, history, TypeOK
  <2> QED
    BY <2>1
<1>6. CASE Persist(c)
  <2>1. pc[c] = "settled" /\ pc'[c] = "settled" /\ UNCHANGED <<mark, effects, sending, claim>>
    BY <1>6 DEF Persist, ledger, history
  <2> QED
    BY <2>1
<1> QED
  BY <1>2, <1>3, <1>4, <1>5, <1>6

\* So have those of the lane and the claim.
LEMMA ClaimSteps ==
  ASSUME ClaimsInv, NEW c \in Calls,
         \/ Enter(c) \/ SlotRefused(c) \/ SlotUsed(c) \/ ClaimInsert(c) \/ ClaimRead(c)
         \/ ClaimTake(c) \/ ClaimWarn(c)
  PROVE  Shape(c)
<1>1. LanesInv /\ TypeOK /\ OpOf[c] \in Ops
  BY CallsAssumption DEF ClaimsInv, TypeInv, LanesInv, LaneTypes, TypeOK
<1>2. pc[c] \in Asking => IsClaimed(c) /\ ClaimedInv(c) /\ ~IsRead(c)
  BY DEF ClaimsInv, StepsInv, ClaimInv, IsRead, IsClaimed
<1>3. UNCHANGED <<mark, sending>> /\ pc[c] \in {"entering", "granted"} \cup Asking
  BY DEF Enter, SlotRefused, SlotUsed, ClaimInsert, ClaimRead, ClaimTake, ClaimWarn, SlotFrame,
         ledger, Asking
<1>4. ASSUME Call(c), pc[c] \in {"granted"} \cup Asking
      PROVE  \/ /\ IsFrontend(c) /\ pc'[c] = "parked" /\ effects'[c] = effects[c]
             \/ /\ ~IsFrontend(c) /\ pc'[c] = "running"
                /\ IF IsRead(c) THEN effects'[c] = effects[c] ELSE effects'[c] = effects[c] + 1
  BY <1>1, <1>4, CallMoves, CallEffect DEF Moved
<1>5. ASSUME Block(c), pc[c] \in Holding
      PROVE  pc'[c] = "ending" /\ effects' = effects
  BY <1>1, <1>5, EndingMoves DEF Block, Moved
<1>6. ASSUME NEW to, Goto(c, to)
      PROVE  pc'[c] = to
  BY <1>1, <1>6 DEF Goto, TypeOK
<1>7. pc[c] \in Asking => pc[c] \in Holding
  BY AskingHolds
<1> USE DEF Shape, MarkShape, EffectShape, ClaimShape, Before, Asking, Inside, Idle
<1>8. CASE Enter(c)
  <2>1. pc'[c] \in {"ending", "granted", "waiting"} /\ UNCHANGED <<effects, claim>>
        /\ pc[c] = "entering"
    BY <1>1, <1>8, EnterMoves DEF Enter, Moved, ledger, history
  <2> QED
    BY <1>3, <2>1
<1>9. CASE SlotRefused(c)
  <2>1. pc'[c] = "ending" /\ UNCHANGED <<effects, claim>> /\ pc[c] = "granted"
    BY <1>1, <1>9, EndingMoves DEF SlotRefused, Moved, Holding, history
  <2> QED
    BY <1>3, <2>1
<1>10. CASE SlotUsed(c)
  <2>1. pc[c] = "granted" /\ UNCHANGED claim /\ RunOf[c] \notin aborted
    BY <1>10 DEF SlotUsed
  <2>2. CASE IsClaimed(c)
    <3>1. pc'[c] = "claiming" /\ UNCHANGED effects
      BY <1>6, <1>10, <2>2 DEF SlotUsed, history
    <3> QED
      BY <1>3, <2>1, <3>1
  <2>3. CASE ~IsClaimed(c)
    <3>1. Call(c)
      BY <1>10, <2>3 DEF SlotUsed
    <3> QED
      BY <1>3, <1>4, <2>1, <2>3, <3>1
  <2> QED
    BY <2>2, <2>3
<1>11. CASE ClaimInsert(c)
  <2>1. pc[c] = "claiming"
    BY <1>11 DEF ClaimInsert
  <2>2. CASE claim[OpOf[c]] = NoClaim
    <3>1. Call(c)
      BY <1>11, <2>2 DEF ClaimInsert
    <3> QED
      BY <1>2, <1>3, <1>4, <2>1, <2>2, <3>1
  <2>3. CASE claim[OpOf[c]] # NoClaim
    <3>1. pc'[c] = "inspecting" /\ UNCHANGED <<claim, effects>>
      BY <1>6, <1>11, <2>3 DEF ClaimInsert, history
    <3> QED
      BY <1>3, <2>1, <3>1
  <2> QED
    BY <2>2, <2>3
<1>12. CASE ClaimRead(c)
  <2>1. pc[c] = "inspecting" /\ UNCHANGED claim /\ claim[OpOf[c]] # NoClaim
    BY <1>2, <1>12 DEF ClaimRead, ClaimedInv
  <2>2. CASE Goto(c, "taking") /\ UNCHANGED effects /\ claim[OpOf[c]].owner # RunOf[c]
    BY <1>3, <1>6, <2>1, <2>2
  <2>3. CASE Goto(c, "warning") /\ UNCHANGED effects
    BY <1>3, <1>6, <2>1, <2>3
  <2>4. CASE Block(c)
    BY <1>3, <1>5, <1>7, <2>1, <2>4
  <2> QED
    BY <1>12, <2>1, <2>2, <2>3, <2>4 DEF ClaimRead, history
<1>13. CASE ClaimTake(c)
  <2>1. pc[c] = "taking" /\ Call(c)
    BY <1>13 DEF ClaimTake
  <2> QED
    BY <1>2, <1>3, <1>4, <2>1
<1>14. CASE ClaimWarn(c)
  <2>1. pc[c] = "warning" /\ Block(c)
    BY <1>14 DEF ClaimWarn
  <2>2. claim'[OpOf[c]] = claim[OpOf[c]] \/ claim'[OpOf[c]].owner = RunOf[c]
    BY <1>1, <1>14 DEF ClaimWarn, TypeOK
  <2> QED
    BY <1>2, <1>3, <1>5, <1>7, <2>1, <2>2
<1> QED
  BY <1>8, <1>9, <1>10, <1>11, <1>12, <1>13, <1>14

\* So have those of the tool and the way back.
LEMMA ToolSteps ==
  ASSUME ClaimsInv, NEW c \in Calls,
         \/ \E out \in Results : Returns(c, out) \/ Answered(c, out)
         \/ Unsent(c) \/ Dispatched(c) \/ Unwind(c) \/ Release(c)
  PROVE  Shape(c)
<1>1. LanesInv /\ TypeOK
  BY DEF ClaimsInv, TypeInv, LanesInv, LaneTypes, TypeOK
<1> USE DEF Shape, MarkShape, EffectShape, ClaimShape, Before, Asking, Inside, Idle
<1>2. ASSUME NEW out, Answer(c, out), SlotFrame
      PROVE  pc'[c] = "returned" /\ UNCHANGED <<mark, effects, sending, claim>>
  BY <1>1, <1>2 DEF Answer, SlotFrame, Goto, TypeOK
<1>3. CASE Unsent(c) \/ \E out \in Results : Returns(c, out) \/ Answered(c, out)
  <2>1. pc[c] \in {"running", "parked", "sent"} /\ \E out : Answer(c, out) /\ SlotFrame
    BY <1>3 DEF Unsent, Returns, Answered
  <2>2. pc'[c] = "returned" /\ UNCHANGED <<mark, effects, sending, claim>>
    BY <1>2, <2>1
  <2> QED
    BY <2>1, <2>2
<1>4. CASE Dispatched(c)
  <2>1. pc[c] = "parked" /\ pc'[c] = "sent" /\ UNCHANGED <<mark, claim>> /\ c \in sending'
    BY <1>1, <1>4, DispatchedMoves DEF Dispatched, Moved, ledger
  <2>2. IF IsRead(c) THEN effects'[c] = effects[c] ELSE effects'[c] = effects[c] + 1
    BY <1>1, <1>4 DEF Dispatched, Reaches, TypeOK
  <2> QED
    BY <2>1, <2>2
<1>5. CASE Unwind(c)
  <2>1. pc[c] = "returned" /\ UNCHANGED <<mark, effects, sending, claim>>
        /\ (pc'[c] \in {"releasing", "ending"} \/ (pc'[c] = "entering" /\ IsRead(c)))
    BY <1>1, <1>5, UnwindMoves DEF Unwind, Moved, history
  <2> QED
    BY <2>1
<1>6. CASE Release(c)
  <2>1. pc[c] = "releasing" /\ c \notin sending /\ UNCHANGED <<mark, effects, sending>>
    BY <1>6 DEF Release, history
  <2>3. IsClaimed(c) /\ ~IsRead(c)
    BY <2>1 DEF ClaimsInv, StepsInv, IsClaimed, IsRead
  <2>2. pc'[c] = "ending"
    BY <1>1, <1>6, <2>3, ReleaseMoves DEF Moved
  <2> QED
    BY <2>1, <2>2, <2>3
<1> QED
  BY <1>3, <1>4, <1>5, <1>6

-----------------------------------------------------------------------------
(* Once, as long as no table write is rejected *)

\* A call on its way to its effect has an open mark, and so has one whose
\* markSent is under way; a read tried again may have been sent already.
MarkInv ==
  /\ \A c \in Calls : ~IsRead(c) /\ pc[c] \in Before => mark[c] = "open"
  /\ \A c \in sending : ~IsRead(c) =>
       pc[c] \in {"sent", "returned", "releasing", "ending"} /\ mark[c] = "open"

\* A write, or a dispatch, has its effect once: before it, there is none.
EffectInv(c) ==
  /\ effects[c] <= 1
  /\ mark[c] = "none" \/ pc[c] = "parked" => effects[c] = 0
  /\ ~IsFrontend(c) /\ pc[c] \in Before => effects[c] = 0
  /\ KindOf[c] = "dispatch" /\ pc[c] = "running" => effects[c] = 1

\* An inner call starts under a dispatch that has started, which no reset
\* starts again.
InnerInv(c) ==
  LET d == ParentOf[c]
  IN  /\ pc[c] \notin Idle \/ effects[c] # 0 => effects[d] = 1
      /\ pc[c] = "idle" /\ pc[d] = "running" => effects[c] = 0
      /\ pc[c] \in Before \cup {"marking"} => effects[c] = 0

\* A browser write that was sent, that its mark does not yet say so, and that
\* its run may issue again.
Contested(c) ==
  /\ effects[c] # 0
  /\ mark[c] = "open"
  /\ run[RunOf[c]] \in Live \/ pc[c] \in Asking

\* Its claim stops the run from repeating it.
TopInv(c) ==
  Contested(c) =>
    /\ claim[OpOf[c]].owner = RunOf[c]
    /\ \A x \in Calls : IsClaimed(x) /\ OpOf[x] = OpOf[c] =>
         /\ pc[x] \in Inside \cup {"taking"} => x = c /\ c \in sending
         /\ pc[x] \in Asking => RunOf[x] = RunOf[c]

EffectsInv ==
  /\ \A c \in Calls : IsRead(c) => effects[c] = 0
  /\ \A c \in Calls : ~IsRead(c) => EffectInv(c)
  /\ \A c \in Calls : ~IsRead(c) /\ ParentOf[c] \in Calls => InnerInv(c)
  /\ \A c \in Calls : KindOf[c] = "frontendWrite" /\ ParentOf[c] \notin Calls => TopInv(c)

OnceInv == storeErrors = 0 => MarkInv /\ EffectsInv

\* A step of a call with no rejected write, other than the report of markSent.
ProperStep(c) == (Issue(c) \/ CallStep(c) \/ Dispatched(c) \/ Persist(c)) /\ ~MarkSent(c)

\* Every such step has the shape.
LEMMA ProperShape ==
  ASSUME ClaimsInv, NEW c \in Calls, ProperStep(c)
  PROVE  Shape(c) /\ Footprint(c)
<1>1. Shape(c)
  BY MarkSteps, ClaimSteps, ToolSteps DEF ProperStep, CallStep
<1>2. Footprint(c)
  BY StepFootprint DEF ProperStep, CallAction, ClaimsInv
<1> QED
  BY <1>1, <1>2

\* The mark is written before the call goes on, and finished after its report.
LEMMA ProperMarkInv ==
  ASSUME ClaimsInv, MarkInv, NEW c \in Calls, Footprint(c), MarkShape(c), EffectShape(c),
         sending' \subseteq Calls
  PROVE  MarkInv'
<1>1. ASSUME NEW x \in Calls, ~IsRead(x), pc'[x] \in Before
      PROVE  mark'[x] = "open"
  <2>1. CASE x = c
    BY <1>1, <2>1 DEF MarkInv, MarkShape
  <2>2. CASE x # c
    BY <1>1, <2>2 DEF MarkInv, Footprint, Before, Asking
  <2> QED
    BY <2>1, <2>2
<1>2. ASSUME NEW x \in sending', ~IsRead(x)
      PROVE  pc'[x] \in {"sent", "returned", "releasing", "ending"} /\ mark'[x] = "open"
  <2>1. CASE x = c /\ c \in sending
    BY <1>2, <2>1 DEF MarkInv, MarkShape, EffectShape
  <2>2. CASE x = c /\ c \notin sending
    <3>1. pc[c] = "parked" /\ pc'[c] = "sent"
      BY <1>2, <2>2 DEF EffectShape
    <3>2. mark[c] = "open"
      BY <1>2, <2>2, <3>1 DEF MarkInv, Before
    <3> QED
      BY <2>2, <3>1, <3>2 DEF MarkShape
  <2>3. CASE x # c
    BY <1>2, <2>3 DEF MarkInv, Footprint
  <2> QED
    BY <2>1, <2>2, <2>3
<1> QED
  BY <1>1, <1>2 DEF MarkInv

\* A browser write that parks has not been sent before: its own claim of then
\* would be in its way.
LEMMA ParksUnsent ==
  ASSUME ClaimsInv, MarkInv, EffectsInv, NEW c \in Calls, ~IsRead(c), EffectShape(c),
         pc'[c] = "parked"
  PROVE  effects[c] = 0
<1>1. IsFrontend(c) /\ IsClaimed(c) /\ KindOf[c] = "frontendWrite"
  BY DEF EffectShape, IsFrontend, IsRead, IsClaimed
<1>2. pc[c] = "taking" \/ (pc[c] = "claiming" /\ claim[OpOf[c]] = NoClaim)
  BY <1>1 DEF EffectShape
<1>3. CASE ParentOf[c] \in Calls
  BY <1>2, <1>3 DEF EffectsInv, InnerInv, Before, Asking
<1>4. CASE ParentOf[c] \notin Calls /\ effects[c] # 0
  <2>1. mark[c] = "open" /\ pc[c] \in Asking
    BY <1>2 DEF MarkInv, Before, Asking
  <2>2. Contested(c) /\ TopInv(c)
    BY <1>1, <1>4, <2>1 DEF Contested, EffectsInv
  <2>3. claim[OpOf[c]].owner = RunOf[c] /\ (pc[c] = "taking" => c \in sending)
    BY <1>1, <2>2 DEF TopInv
  <2>4. NoClaim.owner # RunOf[c]
    BY CallsAssumption DEF NoClaim
  <2>5. c \notin sending
    BY <1>2 DEF MarkInv
  <2> QED
    BY <1>2, <2>3, <2>4, <2>5
<1> QED
  BY <1>3, <1>4

\* The effect of the call that steps, and of the others.
LEMMA ProperEffectInv ==
  ASSUME ClaimsInv, MarkInv, EffectsInv, NEW c \in Calls, Footprint(c), Shape(c),
         NEW x \in Calls, ~IsRead(x)
  PROVE  EffectInv(x)'
<1>1. EffectInv(x) /\ effects[x] \in Nat
  BY DEF EffectsInv, ClaimsInv, TypeInv, TypeOK
<1>2. CASE x # c
  BY <1>1, <1>2 DEF Footprint, EffectInv, Before, Asking
<1>3. CASE x = c
  <2>1. pc'[c] = "parked" => effects[c] = 0 /\ effects'[c] = 0
    <3>1. pc'[c] = "parked" => effects[c] = 0
      BY <1>3, ParksUnsent DEF Shape
    <3> QED
      BY <3>1 DEF Shape, EffectShape
  <2>2. pc[c] = "parked" => IsFrontend(c) /\ pc[c] \in Before
    BY DEF ClaimsInv, StepsInv, Before
  <2>3. effects'[c] <= 1
    BY <1>1, <1>3, <2>2 DEF Shape, EffectShape, EffectInv
  <2>4. mark'[c] = "none" => effects'[c] = 0
    <3>1. mark'[c] = "none" => mark[c] = "none"
      BY <1>3 DEF Shape, MarkShape, Before
    <3>2. pc[c] \in Before => mark[c] = "open"
      BY <1>3 DEF MarkInv
    <3> QED
      BY <1>1, <1>3, <2>2, <3>1, <3>2 DEF Shape, EffectShape, EffectInv
  <2>5. ~IsFrontend(c) /\ pc'[c] \in Before => effects'[c] = 0
    <3>1. ~IsFrontend(c) /\ pc'[c] \in Before => effects[c] = 0
      BY <1>1, <1>3 DEF Shape, MarkShape, EffectInv, Reruns, NeverSent
    <3>2. pc'[c] \in Before => pc'[c] # "running" /\ pc'[c] # "sent"
      BY DEF Before, Asking
    <3> QED
      BY <3>1, <3>2 DEF Shape, EffectShape
  <2>6. KindOf[c] = "dispatch" /\ pc'[c] = "running" => effects'[c] = 1
    <3>1. pc'[c] = "running" => effects[c] = 0 /\ effects'[c] = effects[c] + 1
      BY <1>1, <1>3 DEF Shape, EffectShape, EffectInv
    <3> QED
      BY <3>1
  <2> QED
    BY <1>3, <2>1, <2>3, <2>4, <2>5, <2>6 DEF EffectInv
<1> QED
  BY <1>2, <1>3

\* An inner call and its dispatch.
LEMMA ProperInnerInv ==
  ASSUME ClaimsInv, MarkInv, EffectsInv, NEW c \in Calls, Footprint(c), Shape(c),
         NEW x \in Calls, ~IsRead(x), ParentOf[x] \in Calls
  PROVE  InnerInv(x)'
<1> DEFINE d == ParentOf[x]
<1>1. KindOf[d] = "dispatch" /\ ~IsRead(d) /\ ~IsFrontend(d) /\ d \in Calls
  BY DispatchAssumption DEF IsRead, IsFrontend
<1>2. EffectInv(d) /\ EffectInv(x) /\ InnerInv(x)
  BY <1>1 DEF EffectsInv
<1>3. effects \in [Calls -> Nat]
  BY DEF ClaimsInv, TypeInv, TypeOK
<1>4. effects[d] = 1 => effects'[d] = 1
  <2>1. CASE d = c
    <3>1. pc[d] # "parked"
      BY <1>1 DEF ClaimsInv, StepsInv
    <3>2. pc[d] \in Before => effects[d] = 0
      BY <1>1, <1>2 DEF EffectInv
    <3> QED
      BY <2>1, <3>1, <3>2 DEF Shape, EffectShape
  <2>2. CASE d # c
    BY <1>1, <2>2 DEF Footprint
  <2> QED
    BY <2>1, <2>2
<1>5. pc'[x] \notin Idle \/ effects'[x] # 0 => effects'[d] = 1
  <2>1. CASE x = c
    <3>1. effects'[x] # 0 => effects[x] # 0 \/ pc[x] \notin Idle
      BY <2>1 DEF Shape, EffectShape, Before, Asking, Idle
    <3>2. pc'[x] \notin Idle /\ pc[x] \in Idle => pc[d] = "running"
      BY <2>1 DEF Shape, MarkShape
    <3> QED
      BY <1>1, <1>2, <1>4, <3>1, <3>2 DEF InnerInv, EffectInv
  <2>2. CASE x # c
    BY <1>2, <1>4, <2>2 DEF Footprint, InnerInv, Idle
  <2> QED
    BY <2>1, <2>2
<1>6. pc'[x] = "idle" /\ pc'[d] = "running" => effects'[x] = 0
  <2>1. CASE x = c
    BY <2>1 DEF Shape, MarkShape
  <2>2. CASE x # c /\ d # c
    BY <1>1, <1>2, <2>2 DEF Footprint, InnerInv
  <2>3. CASE x # c /\ d = c
    <3>1. pc'[d] = "running" => effects[d] = 0
      BY <1>1, <1>2, <2>3 DEF Shape, EffectShape, EffectInv
    <3> QED
      BY <1>2, <2>3, <3>1 DEF Footprint, InnerInv
  <2> QED
    BY <2>1, <2>2, <2>3
<1>7. pc'[x] \in Before \cup {"marking"} => effects'[x] = 0
  <2>1. CASE x = c
    <3>1. pc'[x] \in Before \cup {"marking"} => effects[x] = 0
      BY <1>2, <2>1 DEF Shape, MarkShape, InnerInv, Before
    <3>2. pc'[x] \in Before \cup {"marking"} => pc'[x] # "running" /\ pc'[x] # "sent"
      BY DEF Before, Asking
    <3> QED
      BY <2>1, <3>1, <3>2 DEF Shape, EffectShape
  <2>2. CASE x # c
    BY <1>2, <2>2 DEF Footprint, InnerInv, Before, Asking
  <2> QED
    BY <2>1, <2>2
<1> QED
  BY <1>5, <1>6, <1>7 DEF InnerInv

\* A browser write and its claim.
LEMMA ProperTopInv ==
  ASSUME ClaimsInv, MarkInv, EffectsInv, NEW c \in Calls, Footprint(c), Shape(c),
         NEW x \in Calls, KindOf[x] = "frontendWrite", ParentOf[x] \notin Calls
  PROVE  TopInv(x)'
<1> DEFINE o == OpOf[x]
<1>1. TypeInv /\ RunInv /\ RunOf[x] \in Runs /\ RunOf[c] \in Runs /\ o \in Ops /\ OpOf[c] \in Ops
  BY CallsAssumption DEF ClaimsInv
<1>2. IsClaimed(x) /\ IsFrontend(x) /\ ~IsRead(x) /\ TopInv(x) /\ EffectInv(x)
  BY DEF EffectsInv, IsClaimed, IsFrontend, IsRead
<1>3. SUFFICES ASSUME Contested(x)'
               PROVE  /\ claim'[o].owner = RunOf[x]
                      /\ \A y \in Calls : IsClaimed(y) /\ OpOf[y] = o =>
                           /\ pc'[y] \in Inside \cup {"taking"} => y = x /\ x \in sending'
                           /\ pc'[y] \in Asking => RunOf[y] = RunOf[x]
  BY DEF TopInv
<1>4. run' = run /\ effects'[x] # 0 /\ mark'[x] = "open"
      /\ (run[RunOf[x]] \in Live \/ pc'[x] \in Asking)
  BY <1>3 DEF Contested, Footprint
<1>5. NoClaim.owner \notin Runs /\ "granted" \notin Asking \cup Inside \cup {"taking"}
  BY CallsAssumption DEF NoClaim, Asking, Inside
<1>6. Asking \cup Inside \cup {"taking"} \subseteq Holding /\ "granted" \in Holding
  BY DEF Asking, Inside, Holding
<1>7. CASE Contested(x)
  <2>1. /\ claim[o].owner = RunOf[x]
        /\ \A y \in Calls : IsClaimed(y) /\ OpOf[y] = o =>
             /\ pc[y] \in Inside \cup {"taking"} => y = x /\ x \in sending
             /\ pc[y] \in Asking => RunOf[y] = RunOf[x]
    BY <1>2, <1>7 DEF TopInv
  <2>2. claim[o] # NoClaim
    BY <1>1, <1>5, <2>1
  <2>3. x \in sending => pc[x] # "taking"
    BY <1>2 DEF MarkInv, IsRead
  <2>4. claim'[o].owner = RunOf[x]
    <3>1. CASE OpOf[c] # o
      BY <1>1, <2>1, <3>1 DEF Footprint
    <3>2. CASE OpOf[c] = o /\ claim'[o] # claim[o]
      <4>1. IsClaimed(c)
        BY <3>2 DEF Shape, ClaimShape
      <4>2. pc[c] # "taking" /\ ~(pc[c] = "releasing" /\ c \notin sending)
        BY <2>1, <2>3, <3>2, <4>1 DEF Inside
      <4>3. pc[c] = "warning" => RunOf[c] = RunOf[x]
        BY <2>1, <3>2, <4>1 DEF Asking
      <4> QED
        BY <2>2, <3>2, <4>2, <4>3 DEF Shape, ClaimShape
    <3> QED
      BY <2>1, <3>1, <3>2
  <2>5. ASSUME NEW y \in Calls, IsClaimed(y), OpOf[y] = o, pc'[y] \in Inside \cup {"taking"}
        PROVE  y = x /\ x \in sending'
    <3>1. CASE y # c
      BY <1>5, <2>1, <2>5, <3>1 DEF Footprint
    <3>2. CASE y = c
      <4>1. pc[c] \in Asking => claim[o].owner = RunOf[c]
        BY <2>1, <2>5, <3>2
      <4>2. pc[c] \in Inside \cup {"taking"}
        BY <2>2, <2>5, <3>2, <4>1 DEF Shape, ClaimShape, Asking
      <4>3. c = x /\ x \in sending
        BY <2>1, <2>5, <3>2, <4>2
      <4> QED
        BY <3>2, <4>3 DEF Shape, EffectShape
    <3> QED
      BY <3>1, <3>2
  <2>6. ASSUME NEW y \in Calls, IsClaimed(y), OpOf[y] = o, pc'[y] \in Asking
        PROVE  RunOf[y] = RunOf[x]
    <3>1. CASE y # c \/ pc[y] \in Asking
      BY <1>5, <2>1, <2>6, <3>1 DEF Footprint
    <3>2. CASE y = c /\ pc[c] = "granted" /\ RunOf[c] \notin aborted
      <4>1. run[RunOf[c]] \in Live
        BY <1>1, <3>2 DEF RunInv, Idle, Live
      <4>2. CASE run[RunOf[x]] \in Live
        <5>1. SessionOf[RunOf[x]] = SessionOf[RunOf[c]]
          BY <1>2, <2>6, <3>2, FingerprintAssumption
        <5> QED
          BY <1>1, <3>2, <4>1, <4>2, <5>1 DEF RunInv
      <4>3. CASE pc[x] \in Asking
        BY <1>1, <1>2, <1>6, <2>6, <3>2, <4>3, Exclusive
      <4> QED
        BY <1>7, <4>2, <4>3 DEF Contested
    <3>3. y # c \/ pc[y] \in Asking \/ (y = c /\ pc[c] = "granted" /\ RunOf[c] \notin aborted)
      BY <2>6 DEF Shape, ClaimShape
    <3> QED
      BY <3>1, <3>2, <3>3
  <2> QED
    BY <2>4, <2>5, <2>6
<1>8. CASE effects[x] = 0
  <2>1. x = c /\ pc[c] = "parked" /\ pc'[c] = "sent"
    BY <1>2, <1>4, <1>8 DEF Footprint, Shape, EffectShape
  <2>2. c \in sending'
    BY <2>1 DEF Shape, EffectShape
  <2>3. claim[o].owner = RunOf[x]
    BY <1>2, <2>1 DEF ClaimsInv, ClaimInv, ClaimedInv, Inside
  <2>4. claim'[o] = claim[o]
    BY <2>1 DEF Shape, ClaimShape
  <2>5. ASSUME NEW y \in Calls, IsClaimed(y), OpOf[y] = o, y # x
        PROVE  pc'[y] \notin Asking \cup Inside \cup {"taking"}
    <3>1. pc[x] \in Holding
      BY <2>1 DEF Holding
    <3>2. pc[y] \notin Holding
      BY <1>1, <1>2, <2>5, <3>1, Exclusive
    <3> QED
      BY <1>5, <1>6, <2>1, <2>5, <3>2 DEF Footprint
  <2> QED
    BY <2>1, <2>2, <2>3, <2>4, <2>5 DEF Asking
<1>9. CASE effects[x] # 0 /\ mark[x] # "open"
  <2>1. x = c /\ pc'[c] = "entering"
    BY <1>4, <1>9 DEF Footprint, Shape, MarkShape
  <2>2. mark[c] = "none" \/ Reruns(c)
    BY <1>2, <1>4, <1>9, <2>1 DEF Shape, MarkShape, Before
  <2> QED
    BY <1>2, <1>9, <2>1, <2>2 DEF Reruns, NeverSent, EffectInv
<1>10. CASE run[RunOf[x]] \notin Live /\ pc[x] \notin Asking
  <2>1. x = c /\ pc[c] = "granted" /\ RunOf[c] \notin aborted
    BY <1>4, <1>5, <1>10 DEF Footprint, Shape, ClaimShape
  <2> QED
    BY <1>1, <1>10, <2>1 DEF RunInv, Idle, Live
<1> QED
  BY <1>7, <1>8, <1>9, <1>10 DEF Contested

\* The report of markSent closes the case of a browser write of the main agent.
LEMMA MarkSentOnce ==
  ASSUME ClaimsInv, MarkInv, EffectsInv, NEW c \in Calls, MarkSent(c)
  PROVE  MarkInv' /\ EffectsInv'
<1>1. TypeOK
  BY DEF ClaimsInv, TypeInv
<1>2. /\ UNCHANGED <<run, pc, claim, effects>> /\ c \in sending /\ sending' = sending \ {c}
      /\ \A x \in Calls \ {c} : mark'[x] = mark[x]
      /\ mark'[c] = IF mark[c] = "open" /\ ParentOf[c] = NoCall THEN "sent" ELSE mark[c]
  BY <1>1 DEF MarkSent, Rest, history, TypeOK
<1>3. ~IsRead(c) => mark[c] = "open" /\ pc[c] \in {"sent", "returned", "releasing", "ending"}
  BY <1>2 DEF MarkInv
<1>4. MarkInv'
  <2>1. \A x \in sending' : x \in sending /\ x \in Calls /\ x # c
    BY <1>1, <1>2 DEF TypeOK
  <2>2. \A x \in Calls : ~IsRead(x) /\ pc'[x] \in Before => x # c
    BY <1>2, <1>3 DEF Before, Asking
  <2> QED
    BY <1>2, <2>1, <2>2 DEF MarkInv
<1>5. ASSUME NEW x \in Calls, ~IsRead(x)
      PROVE  EffectInv(x)'
  <2>1. EffectInv(x) /\ (mark'[x] = "none" => mark[x] = "none")
    BY <1>2, <1>3, <1>5 DEF EffectsInv
  <2> QED
    BY <1>2, <2>1 DEF EffectInv
<1>6. ASSUME NEW x \in Calls, ~IsRead(x), ParentOf[x] \in Calls
      PROVE  InnerInv(x)'
  BY <1>2, <1>6 DEF EffectsInv, InnerInv
<1>7. ASSUME NEW x \in Calls, KindOf[x] = "frontendWrite", ParentOf[x] \notin Calls
      PROVE  TopInv(x)'
  <2>1. TopInv(x)
    BY <1>7 DEF EffectsInv
  <2>2. CASE x = c
    <3>1. mark'[x] = "sent"
      BY <1>2, <1>3, <1>7, <2>2, CallsAssumption DEF IsRead
    <3> QED
      BY <3>1 DEF TopInv, Contested
  <2>3. CASE x # c
    <3>1. Contested(x)' => Contested(x)
      BY <1>2, <2>3 DEF Contested
    <3> QED
      BY <1>2, <2>1, <2>3, <3>1 DEF TopInv
  <2> QED
    BY <2>2, <2>3
<1> QED
  BY <1>2, <1>4, <1>5, <1>6, <1>7 DEF EffectsInv

\* Every step of a call with no rejected write.
LEMMA ProperOnce ==
  ASSUME ClaimsInv, MarkInv, EffectsInv, TypeInv', NEW c \in Calls, ProperStep(c)
  PROVE  MarkInv' /\ EffectsInv'
<1>1. Shape(c) /\ Footprint(c)
  BY ProperShape
<1>2. MarkInv'
  BY <1>1, ProperMarkInv DEF Shape, TypeInv, TypeOK
<1>3. ASSUME NEW x \in Calls, IsRead(x)
      PROVE  effects'[x] = 0
  <2>1. effects[x] = 0
    BY <1>3 DEF EffectsInv
  <2> QED
    BY <1>1, <1>3, <2>1 DEF Footprint, Shape, EffectShape
<1> QED
  BY <1>1, <1>2, <1>3, ProperEffectInv, ProperInnerInv, ProperTopInv DEF EffectsInv

\* A run that starts, stops or ends.
LEMMA RunOnce ==
  ASSUME ClaimsInv, MarkInv, EffectsInv, NEW r \in Runs, Start(r) \/ Abort(r) \/ End(r)
  PROVE  MarkInv' /\ EffectsInv'
<1>1. TypeOK /\ RunOf \in [Calls -> Runs] /\ RunInv
  BY CallsAssumption DEF ClaimsInv, TypeInv
<1>2. UNCHANGED <<mark, claim, sending, effects>>
  BY DEF Start, Abort, End, RunFrame, ledger
<1>3. ASSUME NEW x \in Calls
      PROVE  \/ pc'[x] = pc[x]
             \/ pc[x] = "waiting" /\ pc'[x] = "ending"
             \/ pc[x] \in {"parked", "sent"} /\ pc'[x] = "returned"
  BY AbortCases DEF Start, End
<1>4. ASSUME NEW x \in Calls, effects[x] # 0, run'[RunOf[x]] \in Live
      PROVE  run[RunOf[x]] \in Live
  <2>1. run[RunOf[x]] # "new"
    BY <1>1, <1>4 DEF RunInv
  <2> QED
    BY <1>1, <1>4, <2>1 DEF Start, Abort, End, Live, TypeOK
<1>5. MarkInv'
  <2>1. ASSUME NEW x \in Calls, ~IsRead(x), pc'[x] \in Before
        PROVE  mark'[x] = "open"
    BY <1>2, <1>3, <2>1 DEF MarkInv, Before, Asking
  <2>2. ASSUME NEW x \in sending, ~IsRead(x)
        PROVE  pc'[x] \in {"sent", "returned", "releasing", "ending"} /\ mark'[x] = "open"
    <3>1. x \in Calls
      BY <1>1 DEF TypeOK
    <3> QED
      BY <1>2, <1>3, <2>2, <3>1 DEF MarkInv
  <2> QED
    BY <1>2, <2>1, <2>2 DEF MarkInv
<1>6. ASSUME NEW x \in Calls, ~IsRead(x)
      PROVE  EffectInv(x)'
  <2>1. EffectInv(x)
    BY <1>6 DEF EffectsInv
  <2> QED
    BY <1>2, <1>3, <2>1 DEF EffectInv, Before, Asking
<1>7. ASSUME NEW x \in Calls, ~IsRead(x), ParentOf[x] \in Calls
      PROVE  InnerInv(x)'
  <2>1. InnerInv(x)
    BY <1>7 DEF EffectsInv
  <2> QED
    BY <1>2, <1>3, <1>7, <2>1 DEF InnerInv, Before, Asking, Idle
<1>8. ASSUME NEW x \in Calls, KindOf[x] = "frontendWrite", ParentOf[x] \notin Calls
      PROVE  TopInv(x)'
  <2>1. TopInv(x)
    BY <1>8 DEF EffectsInv
  <2>2. \A y \in Calls : /\ (pc'[y] \in Asking => pc[y] \in Asking)
                         /\ (pc'[y] \in Inside \cup {"taking"} => pc[y] \in Inside \cup {"taking"})
    BY <1>3 DEF Asking, Inside
  <2>3. ASSUME Contested(x)'
        PROVE  Contested(x)
    <3>1. effects[x] # 0 /\ mark[x] = "open" /\ (run'[RunOf[x]] \in Live \/ pc'[x] \in Asking)
      BY <1>2, <2>3 DEF Contested
    <3>2. run[RunOf[x]] \in Live \/ pc[x] \in Asking
      BY <1>4, <2>2, <3>1
    <3> QED
      BY <3>1, <3>2 DEF Contested
  <2>4. CASE ~Contested(x)'
    BY <2>4 DEF TopInv
  <2>5. CASE Contested(x)'
    BY <1>2, <2>1, <2>2, <2>3, <2>5 DEF TopInv
  <2> QED
    BY <2>4, <2>5
<1> QED
  BY <1>2, <1>5, <1>6, <1>7, <1>8 DEF EffectsInv

\* A reset.
LEMMA CrashOnce ==
  ASSUME ClaimsInv, MarkInv, EffectsInv, Crash
  PROVE  MarkInv' /\ EffectsInv'
<1>1. TypeOK /\ RunOf \in [Calls -> Runs]
  BY CallsAssumption DEF ClaimsInv, TypeInv
<1>2. UNCHANGED <<mark, claim, effects>> /\ sending' = {}
  BY DEF Crash, ledger, history
<1>3. \A x \in Calls : pc'[x] \in Idle
  BY DEF Crash, Idle
<1>4. \A x \in Calls : pc'[x] \notin Before \cup Inside \cup Asking \cup {"taking", "marking", "running"}
  BY <1>3 DEF Idle, Before, Inside, Asking
<1>5. MarkInv'
  BY <1>2, <1>4 DEF MarkInv
<1>6. ASSUME NEW x \in Calls, ~IsRead(x)
      PROVE  EffectInv(x)'
  <2>1. EffectInv(x) /\ pc'[x] # "parked"
    BY <1>4, <1>6 DEF EffectsInv, Before
  <2> QED
    BY <1>2, <1>4, <2>1 DEF EffectInv
<1>7. ASSUME NEW x \in Calls, ~IsRead(x), ParentOf[x] \in Calls
      PROVE  InnerInv(x)'
  <2>1. InnerInv(x)
    BY <1>7 DEF EffectsInv
  <2> QED
    BY <1>2, <1>3, <1>4, <1>7, <2>1 DEF InnerInv
<1>8. ASSUME NEW x \in Calls, KindOf[x] = "frontendWrite", ParentOf[x] \notin Calls
      PROVE  TopInv(x)'
  <2>1. TopInv(x)
    BY <1>8 DEF EffectsInv
  <2>2. run'[RunOf[x]] \in Live => run[RunOf[x]] \in Live
    BY <1>1 DEF Crash, Live, TypeOK
  <2>3. Contested(x)' => Contested(x)
    BY <1>2, <1>4, <2>2 DEF Contested
  <2> QED
    BY <1>2, <1>4, <2>1, <2>3 DEF TopInv
<1> QED
  BY <1>2, <1>5, <1>6, <1>7, <1>8 DEF EffectsInv

\* Nothing has had an effect before the first call.
LEMMA InitOnceInv == Init => OnceInv
BY CallsAssumption
   DEF Init, OnceInv, MarkInv, EffectsInv, EffectInv, InnerInv, TopInv, Contested, Before, Asking, Idle

\* The inductive step.
LEMMA NextOnceInv == ClaimsInv /\ OnceInv /\ [Next]_vars => OnceInv'
<1> SUFFICES ASSUME ClaimsInv, OnceInv, [Next]_vars, storeErrors' = 0
             PROVE  MarkInv' /\ EffectsInv'
  BY DEF OnceInv
<1>1. TypeInv /\ TypeInv' /\ storeErrors \in Nat
  BY NextTypeInv DEF ClaimsInv, TypeInv, TypeOK
<1>2. CASE UNCHANGED vars
  <2>1. UNCHANGED <<storeErrors, mark, pc, sending, effects, run, claim>>
    BY <1>2 DEF vars, ledger, history, faults
  <2>2. MarkInv /\ EffectsInv
    BY <2>1 DEF OnceInv
  <2> QED
    BY <2>1, <2>2 DEF MarkInv, EffectsInv, EffectInv, InnerInv, TopInv, Contested
<1>3. ASSUME NEW c \in Calls
      PROVE  ~StoreFault(c)
  BY <1>1 DEF StoreFault, MarkFails, ClaimFails, MarkSentFails, ReleaseFails, FinishFails,
              StoreError
<1>4. ASSUME NEW c \in Calls, Issue(c) \/ CallStep(c) \/ Dispatched(c) \/ Persist(c)
      PROVE  storeErrors' = storeErrors
  <2>1. CASE Issue(c) \/ Dispatched(c) \/ Persist(c)
    BY <2>1 DEF Issue, Dispatched, Persist, faults
  <2>2. CASE CallStep(c)
    BY <2>2 DEF CallStep, MarkStarted, Interrupted, Enter, SlotRefused, SlotUsed, ClaimInsert,
                ClaimRead, ClaimTake, ClaimWarn, Returns, Answered, Answer, Unsent, Unwind,
                Release, Finish, MarkSent
  <2> QED
    BY <1>4, <2>1, <2>2
<1>5. ASSUME NEW c \in Calls, Issue(c) \/ CallStep(c) \/ Dispatched(c) \/ Persist(c)
      PROVE  MarkInv' /\ EffectsInv'
  <2>1. MarkInv /\ EffectsInv
    BY <1>4, <1>5 DEF OnceInv
  <2> QED
    BY <1>1, <1>5, <2>1, ProperOnce, MarkSentOnce DEF ProperStep
<1>6. ASSUME (\E r \in Runs : Start(r) \/ Abort(r) \/ End(r)) \/ Crash
      PROVE  MarkInv' /\ EffectsInv'
  <2>1. storeErrors' = storeErrors
    BY <1>6 DEF Start, Abort, End, Crash, RunFrame
  <2>2. MarkInv /\ EffectsInv
    BY <2>1 DEF OnceInv
  <2> QED
    BY <1>6, <2>2, RunOnce, CrashOnce
<1> QED
  BY <1>2, <1>3, <1>5, <1>6 DEF Next

\* A write, or a dispatch, reaches the outside at most once per call of the
\* model, over any number of resets, as long as no table write is rejected
\* (startMark, markSent, finishMark and the resume policy).
THEOREM RunsOnce == Spec => []WriteRunsOnce
<1>1. TypeOK /\ OnceInv => WriteRunsOnce
  <2> SUFFICES ASSUME TypeOK, OnceInv, storeErrors = 0, NEW c \in Calls
               PROVE  effects[c] <= 1
    BY DEF WriteRunsOnce
  <2>1. CASE IsRead(c)
    BY <2>1 DEF OnceInv, EffectsInv
  <2>2. CASE ~IsRead(c)
    BY <2>2 DEF OnceInv, EffectsInv, EffectInv
  <2> QED
    BY <2>1, <2>2
<1>2. ClaimsInv => TypeOK
  BY DEF ClaimsInv, TypeInv
<1>3. Init => ClaimsInv /\ OnceInv
  BY InitClaimsInv, InitOnceInv
<1>4. ClaimsInv /\ OnceInv /\ [Next]_vars => (ClaimsInv /\ OnceInv)'
  BY NextClaimsInv, NextOnceInv
<1> QED
  BY <1>1, <1>2, <1>3, <1>4, PTL DEF Spec

=============================================================================
