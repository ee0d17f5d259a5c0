---------------------------- MODULE DropQueueProofs ----------------------------
(***************************************************************************)
(* The depth accounting of the drop queue, for any number of publishers    *)
(* and receivers and any capacity.                                         *)
(***************************************************************************)
EXTENDS DropQueue, FiniteSetTheorems, TLAPS

(* The compare-and-swap only succeeds on a depth that still has room, so   *)
(* what a publisher remembers is bounded too.                              *)
RoomSeen == \A p \in Publishers : at[p] = "compare" => depth[p] < Capacity

IInv == TypeOK /\ DepthAccounted /\ RoomSeen

(* The two sets behind the accounting are finite and counted by naturals. *)
LEMMA Counted ==
  ASSUME TypeOK
  PROVE  /\ IsFiniteSet(Reserving) /\ Cardinality(Reserving) \in Nat
         /\ IsFiniteSet(holds) /\ Cardinality(holds) \in Nat
         /\ Len(buffer) \in Nat
  BY DropQueueAssumption, FS_Subset, FS_CardinalityType DEF TypeOK, Reserving

(* A publisher that reserves or lets go moves the count by one. *)
LEMMA ReservingMoves ==
  ASSUME TypeOK, NEW p \in Publishers, NEW s \in Steps, at' = [at EXCEPT ![p] = s]
  PROVE  /\ at[p] \notin {"put", "rollback"} /\ s \in {"put", "rollback"} =>
              Cardinality(Reserving') = Cardinality(Reserving) + 1
         /\ at[p] \in {"put", "rollback"} /\ s \notin {"put", "rollback"} =>
              Cardinality(Reserving') = Cardinality(Reserving) - 1
         /\ (at[p] \in {"put", "rollback"} <=> s \in {"put", "rollback"}) =>
              Reserving' = Reserving
<1>0. at'[p] = s /\ \A q \in Publishers \ {p} : at'[q] = at[q]
  BY DEF TypeOK
<1>1. IsFiniteSet(Reserving)
  BY Counted
<1>2. CASE at[p] \notin {"put", "rollback"} /\ s \in {"put", "rollback"}
  <2>1. Reserving' = Reserving \cup {p} /\ p \notin Reserving
    BY <1>0, <1>2 DEF Reserving
  <2> QED
    BY <1>1, <1>2, <2>1, FS_AddElement
<1>3. CASE at[p] \in {"put", "rollback"} /\ s \notin {"put", "rollback"}
  <2>1. Reserving' = Reserving \ {p} /\ p \in Reserving
    BY <1>0, <1>3 DEF Reserving
  <2> QED
    BY <1>1, <1>3, <2>1, FS_RemoveElement
<1>4. CASE at[p] \in {"put", "rollback"} <=> s \in {"put", "rollback"}
  <2>1. Reserving' = Reserving
    BY <1>0, <1>4 DEF Reserving
  <2> QED
    BY <2>1, <1>4
<1> QED
  BY <1>2, <1>3, <1>4

(* The empty queue has no depth. *)
LEMMA InitInvariant == Init => IInv
<1> SUFFICES ASSUME Init PROVE IInv
  OBVIOUS
<1>1. TypeOK
  BY DropQueueAssumption DEF Init, TypeOK, Steps
<1>2. Reserving = {} /\ holds = {} /\ buffer = <<>> /\ queued = 0
  BY DEF Init, Reserving
<1>3. DepthAccounted
  BY <1>2, FS_EmptySet DEF DepthAccounted
<1> QED
  BY <1>1, <1>3 DEF IInv, RoomSeen, Init

(* Reading the depth, the failed exchange, the counters and the closing    *)
(* leave the depth alone.                                                  *)
LEMMA CounterStep ==
  ASSUME IInv, NEW p \in Publishers, Load(p) \/ CompareFails(p) \/ CountDrop(p) \/ Mark(p)
  PROVE  IInv'
<1>1. PICK s \in {"idle", "compare", "count"} :
        /\ at' = [at EXCEPT ![p] = s]
        /\ s = "compare" => queued < Capacity /\ depth' = [depth EXCEPT ![p] = queued]
  BY DEF Load, CompareFails, Observe, CountDrop, Mark
<1>2. at[p] \notin {"put", "rollback"}
  BY DEF Load, CompareFails, CountDrop, Mark
<1>3. Reserving' = Reserving
  BY <1>1, <1>2, ReservingMoves DEF IInv, Steps
<1>4. UNCHANGED <<buffer, queued, holds>>
  BY DEF Load, CompareFails, Observe, CountDrop, Mark
<1>5. TypeOK'
  <2>1. at' \in [Publishers -> Steps]
    BY <1>1 DEF IInv, TypeOK, Steps
  <2> QED
    <3>1. depth' \in [Publishers -> 0 .. Capacity] /\ high_water' \in 0 .. Capacity
      BY DropQueueAssumption DEF IInv, TypeOK, Load, CompareFails, Observe, CountDrop, Mark
    <3>2. dropped' \in Nat
      BY DEF IInv, TypeOK, Load, CompareFails, Observe, CountDrop, Mark
    <3> QED
      BY <1>4, <2>1, <3>1, <3>2
      DEF IInv, TypeOK, Load, CompareFails, Observe, CountDrop, Mark
<1>6. DepthAccounted'
  BY <1>3, <1>4 DEF IInv, DepthAccounted
<1>7. RoomSeen'
  BY <1>1 DEF IInv, RoomSeen, TypeOK, Load, CompareFails, Observe, CountDrop, Mark
<1> QED
  BY <1>5, <1>6, <1>7 DEF IInv

(* The exchange reserves one unit below the capacity. *)
LEMMA ReserveStep ==
  ASSUME IInv, NEW p \in Publishers, Reserve(p)
  PROVE  IInv'
<1>1. Cardinality(Reserving') = Cardinality(Reserving) + 1
  BY ReservingMoves DEF IInv, Steps, Reserve
<1>2. TypeOK'
  BY DropQueueAssumption DEF IInv, TypeOK, RoomSeen, Reserve, Steps
<1>3. DepthAccounted'
  BY <1>1, Counted DEF IInv, DepthAccounted, Reserve, TypeOK
<1>4. RoomSeen'
  BY DEF IInv, RoomSeen, TypeOK, Reserve
<1> QED
  BY <1>2, <1>3, <1>4 DEF IInv

(* Putting the item turns the reservation into a buffered one; a refusal   *)
(* keeps it, and the rollback gives it back.                               *)
LEMMA PutStep ==
  ASSUME IInv, NEW p \in Publishers, Put(p) \/ PutRefused(p) \/ Rollback(p)
  PROVE  IInv'
<1>1. CASE Put(p)
  <2>1. Cardinality(Reserving') = Cardinality(Reserving) - 1
    BY <1>1, ReservingMoves DEF IInv, Steps, Put
  <2>2. TypeOK' /\ RoomSeen'
    BY <1>1 DEF IInv, TypeOK, RoomSeen, Put, Steps
  <2>3. Len(buffer') = Len(buffer) + 1
    BY <1>1 DEF IInv, TypeOK, Put
  <2> QED
    BY <1>1, <2>1, <2>2, <2>3, Counted DEF IInv, DepthAccounted, Put, TypeOK
<1>2. CASE PutRefused(p)
  <2>1. Reserving' = Reserving
    BY <1>2, ReservingMoves DEF IInv, Steps, PutRefused
  <2>2. TypeOK' /\ RoomSeen'
    BY <1>2 DEF IInv, TypeOK, RoomSeen, PutRefused, Steps
  <2> QED
    BY <1>2, <2>1, <2>2 DEF IInv, DepthAccounted, PutRefused
<1>3. CASE Rollback(p)
  <2>1. Cardinality(Reserving') = Cardinality(Reserving) - 1
    BY <1>3, ReservingMoves DEF IInv, Steps, Rollback
  <2>2. p \in Reserving
    BY <1>3 DEF Rollback, Reserving
  <2>3. queued # 0
    BY <2>2, Counted, FS_EmptySet DEF IInv, DepthAccounted, TypeOK
  <2>4. TypeOK' /\ RoomSeen'
    BY <1>3, <2>3, DropQueueAssumption DEF IInv, TypeOK, RoomSeen, Rollback, Steps
  <2> QED
    BY <1>3, <2>1, <2>4, Counted DEF IInv, DepthAccounted, Rollback, TypeOK
<1> QED
  BY <1>1, <1>2, <1>3

(* A receiver takes an item and gives its depth back in a second step. *)
LEMMA ReceiveStep ==
  ASSUME IInv, NEW r \in Receivers, Get(r) \/ Release(r)
  PROVE  IInv'
<1>0. IsFiniteSet(holds) /\ Cardinality(holds) \in Nat
  BY Counted DEF IInv
<1>1. CASE Get(r)
  <2>1. Cardinality(holds') = Cardinality(holds) + 1
    BY <1>0, <1>1, FS_AddElement DEF Get
  <2>2. Reserving' = Reserving
    BY <1>1 DEF Get, Reserving
  <2>3. TypeOK' /\ RoomSeen' /\ Len(buffer') = Len(buffer) - 1
    BY <1>1 DEF IInv, TypeOK, RoomSeen, Get
  <2> QED
    BY <1>1, <2>1, <2>2, <2>3, Counted DEF IInv, DepthAccounted, Get, TypeOK
<1>2. CASE Release(r)
  <2>1. Cardinality(holds') = Cardinality(holds) - 1
    BY <1>0, <1>2, FS_RemoveElement DEF Release
  <2>2. Reserving' = Reserving
    BY <1>2 DEF Release, Reserving
  <2>3. queued # 0
    BY <1>0, <1>2, Counted, FS_EmptySet DEF IInv, DepthAccounted, TypeOK, Release
  <2>4. TypeOK' /\ RoomSeen'
    BY <1>2, <2>3, DropQueueAssumption DEF IInv, TypeOK, RoomSeen, Release
  <2> QED
    BY <1>2, <2>1, <2>2, <2>4, Counted DEF IInv, DepthAccounted, Release, TypeOK
<1> QED
  BY <1>1, <1>2

(* Every step of every thread keeps the accounting. *)
LEMMA StepInvariant == IInv /\ [Next]_vars => IInv'
<1> SUFFICES ASSUME IInv, [Next]_vars PROVE IInv'
  OBVIOUS
<1>1. ASSUME NEW p \in Publishers,
             Load(p) \/ CompareFails(p) \/ Reserve(p) \/ Put(p) \/ PutRefused(p)
             \/ Rollback(p) \/ CountDrop(p) \/ Mark(p)
      PROVE  IInv'
  BY <1>1, CounterStep, ReserveStep, PutStep
<1>2. ASSUME NEW r \in Receivers, Get(r) \/ Release(r)
      PROVE  IInv'
  BY <1>2, ReceiveStep
<1>3. CASE Close \/ UNCHANGED vars
  <2>1. Reserving' = Reserving
    BY <1>3 DEF Close, vars, Reserving
  <2> QED
    BY <1>3, <2>1 DEF IInv, TypeOK, DepthAccounted, RoomSeen, Close, vars
<1> QED
  BY <1>1, <1>2, <1>3 DEF Next

(* The accounting holds in every state the queue reaches. *)
LEMMA InvariantHolds == Spec => []IInv
  BY InitInvariant, StepInvariant, PTL DEF Spec

(* Depth, high-water mark and the depth a publisher remembers never leave  *)
(* 0 .. Capacity; the assertion of release() cannot fail.                  *)
THEOREM DropQueueTypeCorrect == Spec => []TypeOK
  BY InvariantHolds, PTL DEF IInv

(* No unit of depth is lost or invented. *)
THEOREM DropQueueDepthAccounted == Spec => []DepthAccounted
  BY InvariantHolds, PTL DEF IInv

(* The accounting leaves a place for every reservation. *)
LEMMA InvariantFits == IInv => ReservedFits
<1> SUFFICES ASSUME IInv, NEW p \in Publishers, at[p] = "put" PROVE Len(buffer) < Capacity
  BY DEF ReservedFits
<1>1. p \in Reserving
  BY DEF Reserving
<1>2. Cardinality(Reserving) # 0
  BY <1>1, Counted, FS_EmptySet DEF IInv
<1> QED
  BY <1>2, Counted, DropQueueAssumption DEF IInv, DepthAccounted, TypeOK

(* A publisher that reserved finds room in the storage. *)
THEOREM DropQueueReservedFits == Spec => []ReservedFits
  BY InvariantHolds, InvariantFits, PTL

================================================================================
