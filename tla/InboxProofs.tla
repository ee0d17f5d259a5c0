------------------------------ MODULE InboxProofs ------------------------------
(***************************************************************************)
(* The invariants of the inbox, for every capacity, set of producers, set  *)
(* of messages, turn length and kind of host.                              *)
(***************************************************************************)
EXTENDS Inbox, FiniteSetTheorems, SequenceTheorems, TLAPS

--------------------------------------------------------------------------------
(* Ring arithmetic: the index expression (head + i) % capacity of          *)
(* GenericInbox.zig visits each ring position once in Capacity offsets,    *)
(* and advancing head shifts the offsets by one.                           *)

(* Every offset of the ring names a slot, as order's index in append() and pop(). *)
LEMMA RingIndex ==
  ASSUME NEW C \in Nat \ {0}, NEW h \in 0 .. C - 1, NEW i \in 0 .. C
  PROVE  /\ (h + i) % C \in 0 .. C - 1
         /\ (h + i) % C = IF h + i < C THEN h + i ELSE h + i - C
OBVIOUS

(* The head is the position at offset zero. *)
LEMMA RingStart ==
  ASSUME NEW C \in Nat \ {0}, NEW h \in 0 .. C - 1
  PROVE  (h + 0) % C = h
OBVIOUS

(* Two offsets below the capacity never name one position. *)
LEMMA RingInjective ==
  ASSUME NEW C \in Nat \ {0}, NEW h \in 0 .. C - 1,
         NEW i \in 0 .. C - 1, NEW j \in 0 .. C - 1,
         (h + i) % C = (h + j) % C
  PROVE  i = j
OBVIOUS

(* Advancing the head, as pop() does, shifts every offset by one. *)
LEMMA RingShift ==
  ASSUME NEW C \in Nat \ {0}, NEW h \in 0 .. C - 1, NEW i \in Nat, i + 1 < C
  PROVE  (((h + 1) % C) + i) % C = (h + (i + 1)) % C
OBVIOUS

--------------------------------------------------------------------------------
(* The inductive invariant                                                 *)

IInv ==
  /\ TypeOK
  /\ RingHoldsReadySlots
  /\ ReservationsCounted
  /\ ReadyTracksWork
  /\ WakePosted
  /\ OneOwner
  /\ TicketsIssued
  /\ BudgetCovered

(* The ring lemmas for the positions of this inbox. *)
LEMMA PositionFacts ==
  ASSUME TypeOK
  PROVE  /\ \A i \in 0 .. Capacity : Position(i) \in Slots
         /\ \A i, j \in 0 .. Capacity - 1 : Position(i) = Position(j) => i = j
  <1> USE InboxAssumption DEF TypeOK, Slots, Position
  <1>1. ASSUME NEW i \in 0 .. Capacity PROVE Position(i) \in Slots
    BY RingIndex
  <1>2. ASSUME NEW i \in 0 .. Capacity - 1, NEW j \in 0 .. Capacity - 1,
               Position(i) = Position(j)
        PROVE  i = j
    BY <1>2, RingInjective
  <1> QED
    BY <1>1, <1>2

SlotStates == {"free", "reserved", "ready"}

(* How the counters of the inbox follow when one slot changes state. *)
LEMMA MoveCounted ==
  ASSUME TypeOK, ReservationsCounted, NEW s \in Slots, NEW st \in SlotStates,
         states' = [states EXCEPT ![s] = st]
  PROVE  /\ states[s] = "reserved" => reserved # 0
         /\ states[s] = "reserved" /\ st # "reserved"
              => Cardinality(InState("reserved"))' = reserved - 1
         /\ states[s] # "reserved" /\ st = "reserved"
              => Cardinality(InState("reserved"))' = reserved + 1
         /\ states[s] # "reserved" /\ st # "reserved"
              => Cardinality(InState("reserved"))' = reserved
         /\ states[s] = "ready" /\ st # "ready" => Cardinality(InState("ready"))' = len - 1
         /\ states[s] # "ready" /\ st = "ready" => Cardinality(InState("ready"))' = len + 1
         /\ states[s] # "ready" /\ st # "ready" => Cardinality(InState("ready"))' = len
  <1>1. states'[s] = st /\ \A t \in Slots : t # s => states'[t] = states[t]
    BY DEF TypeOK
  <1>2. ASSUME NEW q
        PROVE  /\ states[s] = q => Cardinality(SlotsIn(states, q)) # 0
               /\ states'[s] = q /\ states[s] # q => Cardinality(SlotsIn(states', q)) = Cardinality(SlotsIn(states, q)) + 1
               /\ states'[s] # q /\ states[s] = q => Cardinality(SlotsIn(states', q)) = Cardinality(SlotsIn(states, q)) - 1
               /\ states'[s] # q /\ states[s] # q => Cardinality(SlotsIn(states', q)) = Cardinality(SlotsIn(states, q))
    <2>1. IsFiniteSet(Slots)
      BY FS_Interval, InboxAssumption DEF Slots
    <2>2. IsFiniteSet(SlotsIn(states, q)) /\ Cardinality(SlotsIn(states, q)) \in Nat
      BY <2>1, FS_Subset, FS_CardinalityType DEF SlotsIn
    <2>3. SlotsIn(states', q) = IF states'[s] = q THEN SlotsIn(states, q) \cup {s}
                                  ELSE SlotsIn(states, q) \ {s}
      BY <1>1 DEF SlotsIn
    <2>4. s \in SlotsIn(states, q) <=> states[s] = q
      BY DEF SlotsIn
    <2>5. states[s] = q => Cardinality(SlotsIn(states, q)) # 0
      BY <2>2, <2>4, FS_EmptySet
    <2>6. CASE states'[s] = q
      <3>1. Cardinality(SlotsIn(states, q) \cup {s})
              = IF s \in SlotsIn(states, q) THEN Cardinality(SlotsIn(states, q))
                ELSE Cardinality(SlotsIn(states, q)) + 1
        BY <2>2, FS_AddElement
      <3>2. Cardinality(SlotsIn(states', q)) = Cardinality(SlotsIn(states, q) \cup {s})
        BY <2>3, <2>6
      <3> QED
        BY <2>2, <2>4, <2>5, <2>6, <3>1, <3>2
    <2>7. CASE states'[s] # q
      <3>1. Cardinality(SlotsIn(states, q) \ {s})
              = IF s \in SlotsIn(states, q) THEN Cardinality(SlotsIn(states, q)) - 1
                ELSE Cardinality(SlotsIn(states, q))
        BY <2>2, FS_RemoveElement
      <3>2. Cardinality(SlotsIn(states', q)) = Cardinality(SlotsIn(states, q) \ {s})
        BY <2>3, <2>7
      <3> QED
        BY <2>2, <2>4, <2>5, <2>7, <3>1, <3>2
    <2> QED
      BY <2>6, <2>7
  <1> QED
    BY <1>1, <1>2 DEF InState, ReservationsCounted

(* A slot in a third state leaves room: free, reserved and ready slots     *)
(* together are at most Capacity.                                          *)
LEMMA FreeSlotLeavesRoom ==
  ASSUME TypeOK, ReservationsCounted, NEW s \in Slots, states[s] = "free"
  PROVE  len + reserved < Capacity
  <1> DEFINE R == InState("reserved")
             Q == InState("ready")
  <1>1. IsFiniteSet(Slots) /\ Cardinality(Slots) = Capacity
    BY FS_Interval, InboxAssumption DEF Slots
  <1>2. /\ IsFiniteSet(R) /\ IsFiniteSet(Q)
        /\ Cardinality(R) = reserved /\ Cardinality(Q) = len
    BY <1>1, FS_Subset DEF InState, SlotsIn, ReservationsCounted
  <1>3. R \cap Q = {} /\ Cardinality(R \cap Q) = 0
    BY FS_EmptySet DEF InState, SlotsIn
  <1>4. Cardinality(R \cup Q) = reserved + len
    <2>1. Cardinality(R \cup Q) = Cardinality(R) + Cardinality(Q) - Cardinality(R \cap Q)
      BY <1>2, FS_Union
    <2> QED
      BY <2>1, <1>2, <1>3 DEF TypeOK
  <1>5. /\ R \cup Q \in SUBSET Slots
        /\ s \notin R \cup Q
    BY DEF InState, SlotsIn
  <1>6. Cardinality(R \cup Q) <= Capacity /\ Cardinality(R \cup Q) # Capacity
    BY <1>1, <1>5, FS_Subset
  <1> QED
    BY <1>4, <1>6, InboxAssumption DEF TypeOK

--------------------------------------------------------------------------------
(* The ring                                                                *)

(* Joining the ring: append() of a slot that was not ready. *)
LEMMA EnqueueKeepsRing ==
  ASSUME TypeOK, RingHoldsReadySlots, len < Capacity, head' = head,
         NEW s \in Slots, states[s] # "ready", NEW m \in Messages, Enqueue(s, m)
  PROVE  RingHoldsReadySlots'
  <1> DEFINE P(i) == Position(i)
  <1>1. \A i : Position(i)' = P(i)
    BY DEF Position
  <1>2. /\ \A i \in 0 .. len : P(i) \in Slots
        /\ \A i \in 0 .. len - 1 : P(i) # P(len)
    BY PositionFacts, InboxAssumption DEF TypeOK
  <1>3. len' = len + 1 /\ len \in Nat
    BY DEF Enqueue, TypeOK
  <1>4. \A i \in 0 .. len - 1 : order'[P(i)] = order[P(i)]
    BY <1>2, <1>3 DEF Enqueue, TypeOK
  <1>5. order'[P(len)] = s
    BY <1>2, <1>3 DEF Enqueue, TypeOK
  <1>6. /\ \A t \in Slots : t # s => states'[t] = states[t] /\ items'[t] = items[t]
        /\ states'[s] = "ready" /\ items'[s] = m
    BY DEF Enqueue, TypeOK
  <1>7. \A i \in 0 .. len - 1 : order[P(i)] \in Slots /\ order[P(i)] # s
    BY DEF RingHoldsReadySlots
  <1> HIDE DEF P
  <1>8. ASSUME NEW i \in 0 .. len
        PROVE  /\ order'[P(i)] \in Slots
               /\ states'[order'[P(i)]] = "ready"
               /\ items'[order'[P(i)]] \in Messages
    <2>1. CASE i = len
      BY <2>1, <1>5, <1>6
    <2>2. CASE i # len
      <3>1. i \in 0 .. len - 1
        BY <2>2, <1>3
      <3> QED
        BY <3>1, <1>4, <1>6, <1>7 DEF RingHoldsReadySlots, P
    <2> QED
      BY <2>1, <2>2
  <1>9. ASSUME NEW i \in 0 .. len, NEW j \in 0 .. len, order'[P(i)] = order'[P(j)]
        PROVE  i = j
    <2>1. CASE i = len \/ j = len
      BY <2>1, <1>3, <1>4, <1>5, <1>7, <1>9
    <2>2. CASE i # len /\ j # len
      <3>1. i \in 0 .. len - 1 /\ j \in 0 .. len - 1
        BY <2>2, <1>3
      <3> QED
        BY <3>1, <1>4, <1>9 DEF RingHoldsReadySlots, P
    <2> QED
      BY <2>1, <2>2
  <1>10. ASSUME NEW t \in Slots, states'[t] = "ready"
         PROVE  \E i \in 0 .. len : order'[P(i)] = t
    <2>1. CASE t = s
      BY <2>1, <1>3, <1>5
    <2>2. CASE t # s
      <3>1. states[t] = "ready"
        BY <2>2, <1>6, <1>10
      <3>2. PICK i \in 0 .. len - 1 : order[P(i)] = t
        BY <3>1 DEF RingHoldsReadySlots, P
      <3> QED
        BY <3>2, <1>3, <1>4
    <2> QED
      BY <2>1, <2>2
  <1>11. 0 .. len' - 1 = 0 .. len
    BY <1>3
  <1> QED
    BY <1>1, <1>8, <1>9, <1>10, <1>11 DEF RingHoldsReadySlots

(* Leaving the ring: pop() frees the slot at the head. *)
LEMMA PopKeepsRing ==
  ASSUME TypeOK, RingHoldsReadySlots, Pop
  PROVE  RingHoldsReadySlots'
  <1> DEFINE P(i) == Position(i)
             h == order[head]
  <1>1. /\ len \in 1 .. Capacity /\ len' = len - 1
        /\ order' = order /\ items' = items
        /\ P(0) = head
    <2>1. P(0) = head
      BY RingStart, InboxAssumption DEF TypeOK, Position, Slots
    <2> QED
      BY <2>1 DEF Pop, TypeOK
  <1>2. \A i \in 0 .. len - 2 : Position(i)' = P(i + 1)
    <2>1. SUFFICES ASSUME NEW i \in 0 .. len - 2 PROVE Position(i)' = P(i + 1)
      OBVIOUS
    <2>2. i \in Nat /\ i + 1 < Capacity
      BY <1>1, <2>1, InboxAssumption
    <2> QED
      BY <2>2, RingShift, InboxAssumption DEF Pop, Position, TypeOK, Slots
  <1>3. h \in Slots /\ states[h] = "ready"
    BY <1>1 DEF RingHoldsReadySlots
  <1>4. /\ \A t \in Slots : t # h => states'[t] = states[t]
        /\ states'[h] = "free"
    BY <1>3 DEF Pop, TypeOK
  <1>5. \A i \in 1 .. len - 1 : order[P(i)] # h
    BY <1>1 DEF RingHoldsReadySlots
  <1> HIDE DEF P, h
  <1>6. ASSUME NEW i \in 0 .. len - 2
        PROVE  /\ order[P(i + 1)] \in Slots
               /\ states'[order[P(i + 1)]] = "ready"
               /\ items[order[P(i + 1)]] \in Messages
    <2>1. i + 1 \in 0 .. len - 1 /\ i + 1 \in 1 .. len - 1
      BY <1>1
    <2> QED
      BY <2>1, <1>4, <1>5 DEF RingHoldsReadySlots, P
  <1>7. ASSUME NEW i \in 0 .. len - 2, NEW j \in 0 .. len - 2,
               order[P(i + 1)] = order[P(j + 1)]
        PROVE  i = j
    <2>1. i + 1 \in 0 .. len - 1 /\ j + 1 \in 0 .. len - 1
      BY <1>1
    <2>2. i + 1 = j + 1
      BY <2>1, <1>7 DEF RingHoldsReadySlots, P
    <2> QED
      BY <2>2, <1>1
  <1>8. ASSUME NEW t \in Slots, states'[t] = "ready"
        PROVE  \E i \in 0 .. len - 2 : order[P(i + 1)] = t
    <2>1. t # h /\ states[t] = "ready"
      BY <1>4, <1>8
    <2>2. PICK k \in 0 .. len - 1 : order[P(k)] = t
      BY <2>1 DEF RingHoldsReadySlots, P
    <2>3. k # 0
      BY <1>1, <2>1, <2>2 DEF h
    <2>4. k - 1 \in 0 .. len - 2 /\ (k - 1) + 1 = k
      BY <1>1, <2>3
    <2> QED
      BY <2>2, <2>4
  <1>9. 0 .. len' - 1 = 0 .. len - 2
    BY <1>1
  <1>10. \A i \in 0 .. len' - 1 :
           /\ order'[Position(i)'] \in Slots
           /\ states'[order'[Position(i)']] = "ready"
           /\ items'[order'[Position(i)']] \in Messages
    BY <1>1, <1>2, <1>6, <1>9
  <1>11. \A i, j \in 0 .. len' - 1 :
           order'[Position(i)'] = order'[Position(j)'] => i = j
    BY <1>1, <1>2, <1>7, <1>9
  <1>12. \A t \in Slots :
           states'[t] = "ready" => \E i \in 0 .. len' - 1 : order'[Position(i)'] = t
    BY <1>1, <1>2, <1>8, <1>9
  <1> QED
    BY <1>10, <1>11, <1>12 DEF RingHoldsReadySlots

(* Steps that leave the ready slots and the ring alone. *)
LEMMA RingUntouched ==
  ASSUME TypeOK, RingHoldsReadySlots,
         UNCHANGED <<order, head, len>>,
         \A s \in Slots : states'[s] = "ready" <=> states[s] = "ready",
         \A s \in Slots : items[s] \in Messages => items'[s] \in Messages
  PROVE  RingHoldsReadySlots'
  <1>1. \A i : Position(i)' = Position(i)
    BY DEF Position
  <1> QED
    BY <1>1 DEF RingHoldsReadySlots

--------------------------------------------------------------------------------
(* One lemma per action                                                    *)

(* reserve() keeps the invariant: the slot it claims is fresh in its generation. *)
LEMMA ReserveStep ==
  ASSUME IInv, NEW p \in Producers, Reserve(p)
  PROVE  IInv'
  <1> USE InboxAssumption DEF IInv
  <1>1. PICK s \in Slots :
          /\ Claimable(s)
          /\ states' = [states EXCEPT ![s] = "reserved"]
          /\ generations' = [generations EXCEPT ![s] = @ + 1]
          /\ reserved' = reserved + 1
          /\ tickets' = [tickets EXCEPT ![p] = [slot |-> s, generation |-> generations'[s]]]
          /\ UNCHANGED <<items, order, head, len, accepting, ready, wake, turnVars, received>>
    BY DEF Reserve
  <1>2. states[s] = "free" /\ generations[s] < MaxGeneration
    BY <1>1 DEF Claimable
  <1>3. len + reserved < Capacity
    BY <1>2, FreeSlotLeavesRoom
  <1>4. TypeOK'
    BY <1>1, <1>2, <1>3 DEF TypeOK, Ticket, turnVars
  <1>5. RingHoldsReadySlots'
    BY <1>1, <1>2, RingUntouched DEF TypeOK
  <1>6. ReservationsCounted'
    <2>1. Cardinality(InState("reserved"))' = Cardinality(InState("reserved")) + 1
      BY <1>1, <1>2, MoveCounted DEF SlotStates, ReservationsCounted
    <2>2. Cardinality(InState("ready"))' = Cardinality(InState("ready"))
      BY <1>1, <1>2, MoveCounted DEF SlotStates, ReservationsCounted
    <2> QED
      BY <2>1, <2>2, <1>1, <1>3 DEF ReservationsCounted, TypeOK
  <1>7. TicketsIssued'
    BY <1>1, <1>2 DEF TicketsIssued, TypeOK, Ticket
  <1>8. OneOwner'
    <2>1. ASSUME NEW q \in Producers, q # p
          PROVE  tickets'[q] # tickets'[p]
      BY <1>1, <1>2, <2>1 DEF TicketsIssued, TypeOK, Ticket
    <2>2. ASSUME NEW q \in Producers, q # p, Valid(tickets[q])'
          PROVE  Valid(tickets[q])
      BY <1>1, <1>2, <2>2 DEF TicketsIssued, TypeOK, Ticket, Valid
    <2> QED
      BY <2>1, <2>2, <1>1 DEF OneOwner, TypeOK
  <1>9. ReadyTracksWork' /\ WakePosted' /\ BudgetCovered'
    BY <1>1 DEF ReadyTracksWork, WakePosted, BudgetCovered, turnVars
  <1> QED
    BY <1>4, <1>5, <1>6, <1>7, <1>8, <1>9

(* release(), and publish() into a closed inbox, keep the invariant. *)
LEMMA FreeReservationStep ==
  ASSUME IInv, NEW p \in Producers, Valid(tickets[p]), FreeReservation(tickets[p])
  PROVE  IInv'
  <1> USE InboxAssumption DEF IInv
  <1> DEFINE s == tickets[p].slot
  <1>1. s \in Slots /\ states[s] = "reserved"
    BY DEF Valid, TypeOK, Ticket
  <1>2. states' = [states EXCEPT ![s] = "free"] /\ reserved' = reserved - 1
        /\ UNCHANGED <<generations, items, order, head, len, accepting, ready, wake,
                       turnVars, tickets, received>>
    BY DEF FreeReservation
  <1> HIDE DEF s
  <1>3. /\ Cardinality(InState("reserved"))' = reserved - 1
        /\ Cardinality(InState("ready"))' = len
        /\ reserved # 0
    <2>1. /\ Cardinality(InState("reserved"))' = Cardinality(InState("reserved")) - 1
          /\ Cardinality(InState("reserved")) # 0
      BY <1>1, <1>2, MoveCounted DEF SlotStates, ReservationsCounted
    <2>2. Cardinality(InState("ready"))' = Cardinality(InState("ready"))
      BY <1>1, <1>2, MoveCounted DEF SlotStates, ReservationsCounted
    <2> QED
      BY <2>1, <2>2 DEF ReservationsCounted
  <1>4. TypeOK'
    BY <1>1, <1>2, <1>3 DEF TypeOK, ReservationsCounted, turnVars
  <1>5. RingHoldsReadySlots'
    BY <1>1, <1>2, RingUntouched DEF TypeOK
  <1>6. ReservationsCounted'
    BY <1>2, <1>3 DEF ReservationsCounted, TypeOK
  <1>7. TicketsIssued'
    BY <1>2 DEF TicketsIssued
  <1>8. OneOwner'
    <2>1. ASSUME NEW q \in Producers, Valid(tickets[q])'
          PROVE  Valid(tickets[q])
      BY <1>1, <1>2, <2>1 DEF Valid, TypeOK, Ticket
    <2> QED
      BY <2>1, <1>2 DEF OneOwner
  <1>9. ReadyTracksWork' /\ WakePosted' /\ BudgetCovered'
    BY <1>2 DEF ReadyTracksWork, WakePosted, BudgetCovered, turnVars
  <1> QED
    BY <1>4, <1>5, <1>6, <1>7, <1>8, <1>9

(* publish() keeps the invariant: its reservation had kept a place in the ring. *)
LEMMA PublishStep ==
  ASSUME IInv, NEW p \in Producers, NEW m \in Messages, Publish(p, m)
  PROVE  IInv'
  <1> USE InboxAssumption DEF IInv
  <1> DEFINE s == tickets[p].slot
  <1>1. s \in Slots /\ states[s] = "reserved" /\ accepting
    BY DEF Publish, Valid, TypeOK, Ticket
  <1>2. Enqueue(s, m) /\ reserved' = reserved - 1
        /\ UNCHANGED <<generations, head, accepting, turnVars, tickets, received>>
    BY DEF Publish
  <1> HIDE DEF s
  <1>3. /\ states' = [states EXCEPT ![s] = "ready"]
        /\ len' = len + 1
    BY <1>2 DEF Enqueue
  <1>4. /\ Cardinality(InState("reserved"))' = reserved - 1
        /\ Cardinality(InState("ready"))' = len + 1
        /\ reserved # 0
    <2>1. /\ Cardinality(InState("reserved"))' = Cardinality(InState("reserved")) - 1
          /\ Cardinality(InState("reserved")) # 0
      BY <1>1, <1>3, MoveCounted DEF SlotStates, ReservationsCounted
    <2>2. Cardinality(InState("ready"))' = Cardinality(InState("ready")) + 1
      BY <1>1, <1>3, MoveCounted DEF SlotStates, ReservationsCounted
    <2> QED
      BY <2>1, <2>2 DEF ReservationsCounted
  <1>5. reserved > 0
    BY <1>4 DEF TypeOK
  <1>6. len < Capacity
    BY <1>5 DEF ReservationsCounted, TypeOK
  <1>7. ready' \in BOOLEAN /\ wake' \in BOOLEAN
    BY <1>2 DEF Enqueue, SignalIf, Signal, TypeOK
  <1>8. TypeOK'
    <2>1. Position(len) \in Slots
      BY PositionFacts DEF TypeOK
    <2>2. order' \in [Slots -> Slots \cup {Undefined}] /\ items' \in [Slots -> Messages \cup {Undefined}]
      BY <2>1, <1>1, <1>2 DEF Enqueue, TypeOK
    <2> QED
      BY <2>2, <1>1, <1>2, <1>3, <1>5, <1>6, <1>7 DEF TypeOK, turnVars
  <1>9. RingHoldsReadySlots'
    BY <1>1, <1>2, <1>6, EnqueueKeepsRing
  <1>10. ReservationsCounted'
    BY <1>2, <1>3, <1>4, <1>5 DEF ReservationsCounted, TypeOK
  <1>11. TicketsIssued'
    BY <1>2 DEF TicketsIssued
  <1>12. OneOwner'
    <2>1. ASSUME NEW q \in Producers, Valid(tickets[q])'
          PROVE  Valid(tickets[q])
      BY <1>1, <1>2, <1>3, <2>1 DEF Valid, TypeOK, Ticket
    <2> QED
      BY <2>1, <1>2 DEF OneOwner
  <1>13. ReadyTracksWork' /\ WakePosted' /\ BudgetCovered'
    BY <1>1, <1>2, <1>3 DEF ReadyTracksWork, WakePosted, BudgetCovered, turnVars, Enqueue,
                            SignalIf, Signal, TypeOK
  <1> QED
    BY <1>8, <1>9, <1>10, <1>11, <1>12, <1>13

(* post() keeps the invariant: a free slot implies room in the ring. *)
LEMMA PostStep ==
  ASSUME IInv, NEW m \in Messages, Post(m)
  PROVE  IInv'
  <1> USE InboxAssumption DEF IInv
  <1>1. PICK s \in Slots :
          /\ Claimable(s)
          /\ generations' = [generations EXCEPT ![s] = @ + 1]
          /\ Enqueue(s, m)
          /\ UNCHANGED <<head, reserved, accepting, turnVars, tickets, received>>
    BY DEF Post
  <1>2. states[s] = "free" /\ accepting /\ generations[s] < MaxGeneration
    BY <1>1 DEF Claimable
  <1>3. /\ states' = [states EXCEPT ![s] = "ready"]
        /\ len' = len + 1
    BY <1>1 DEF Enqueue
  <1>4. len + reserved < Capacity
    BY <1>2, FreeSlotLeavesRoom
  <1>5. /\ Cardinality(InState("reserved"))' = reserved
        /\ Cardinality(InState("ready"))' = len + 1
    BY <1>2, <1>3, MoveCounted DEF SlotStates
  <1>6. ready' \in BOOLEAN /\ wake' \in BOOLEAN
    BY <1>1 DEF Enqueue, SignalIf, Signal, TypeOK
  <1>7. TypeOK'
    <2>1. Position(len) \in Slots
      BY PositionFacts DEF TypeOK
    <2>2. order' \in [Slots -> Slots \cup {Undefined}] /\ items' \in [Slots -> Messages \cup {Undefined}]
      BY <2>1, <1>1 DEF Enqueue, TypeOK
    <2> QED
      BY <2>2, <1>1, <1>2, <1>3, <1>4, <1>6 DEF TypeOK, turnVars
  <1>8. RingHoldsReadySlots'
    BY <1>1, <1>2, <1>4, EnqueueKeepsRing DEF TypeOK
  <1>9. ReservationsCounted'
    BY <1>1, <1>3, <1>4, <1>5 DEF ReservationsCounted, TypeOK
  <1>10. TicketsIssued'
    BY <1>1 DEF TicketsIssued, TypeOK, Ticket
  <1>11. OneOwner'
    <2>1. ASSUME NEW q \in Producers, Valid(tickets[q])'
          PROVE  Valid(tickets[q])
      BY <1>1, <1>2, <1>3, <2>1 DEF Valid, TypeOK, Ticket
    <2> QED
      BY <2>1, <1>1 DEF OneOwner
  <1>12. ReadyTracksWork' /\ WakePosted' /\ BudgetCovered'
    BY <1>1, <1>2, <1>3 DEF ReadyTracksWork, WakePosted, BudgetCovered, turnVars, Enqueue,
                            SignalIf, Signal, TypeOK
  <1> QED
    BY <1>7, <1>8, <1>9, <1>10, <1>11, <1>12

(* notify() overwriting a queued message keeps the invariant. *)
LEMMA CoalesceStep ==
  ASSUME IInv, NEW m \in Messages, Coalesce(m)
  PROVE  IInv'
  <1> USE InboxAssumption DEF IInv
  <1>1. PICK i \in 0 .. len - 1 : items' = [items EXCEPT ![order[Position(i)]] = m]
    BY DEF Coalesce, SameKind
  <1>2. UNCHANGED <<states, generations, order, head, len, reserved, accepting,
                    ready, wake, turnVars, tickets, received>>
    BY DEF Coalesce
  <1>3. order[Position(i)] \in Slots
    BY <1>1 DEF RingHoldsReadySlots
  <1>4. TypeOK'
    BY <1>1, <1>2, <1>3 DEF TypeOK, turnVars
  <1>5. RingHoldsReadySlots'
    BY <1>1, <1>2, <1>3, RingUntouched DEF TypeOK
  <1>6. ReservationsCounted' /\ TicketsIssued' /\ OneOwner'
    BY <1>2 DEF ReservationsCounted, InState, SlotsIn, TicketsIssued, OneOwner, Valid
  <1>7. ReadyTracksWork' /\ WakePosted' /\ BudgetCovered'
    BY <1>2 DEF ReadyTracksWork, WakePosted, BudgetCovered, turnVars
  <1> QED
    BY <1>4, <1>5, <1>6, <1>7

(* What pop() does to everything but the turn's own variables. *)
LEMMA PopStep ==
  ASSUME IInv, Pop
  PROVE  /\ len' = len - 1 /\ len \in 1 .. Capacity
         /\ states' \in [Slots -> SlotStates] /\ head' \in Slots
         /\ ready' \in BOOLEAN /\ received' \in Messages
         /\ RingHoldsReadySlots' /\ ReservationsCounted' /\ ReadyTracksWork'
         /\ OneOwner' /\ TicketsIssued'
  <1> USE InboxAssumption DEF IInv
  <1> DEFINE s == order[head]
  <1>1. Position(0) = head
    BY RingStart DEF TypeOK, Position, Slots
  <1>2. /\ len \in 1 .. Capacity /\ len' = len - 1 /\ head' = Position(1)
        /\ received' = items[s]
        /\ states' = [states EXCEPT ![s] = "free"]
        /\ len' = 0 /\ accepting => ready' = FALSE
        /\ ~(len' = 0 /\ accepting) => ready' = ready
        /\ UNCHANGED <<generations, items, order, reserved, accepting, wake, tickets>>
    BY DEF Pop, TypeOK
  <1>3. s \in Slots /\ states[s] = "ready" /\ items[s] \in Messages
    BY <1>1, <1>2 DEF RingHoldsReadySlots
  <1> HIDE DEF s
  <1>4. head' \in Slots
    BY <1>2, PositionFacts DEF TypeOK
  <1>5. RingHoldsReadySlots'
    BY PopKeepsRing
  <1>6. ReservationsCounted'
    <2>1. /\ Cardinality(InState("reserved"))' = reserved
          /\ Cardinality(InState("ready"))' = len - 1
      BY <1>2, <1>3, MoveCounted DEF SlotStates
    <2> QED
      BY <2>1, <1>2 DEF ReservationsCounted, TypeOK
  <1>7. TicketsIssued'
    BY <1>2 DEF TicketsIssued
  <1>8. OneOwner'
    <2>1. ASSUME NEW q \in Producers, Valid(tickets[q])'
          PROVE  Valid(tickets[q])
      BY <1>2, <1>3, <2>1 DEF Valid, TypeOK, Ticket
    <2> QED
      BY <2>1, <1>2 DEF OneOwner
  <1>9. ReadyTracksWork' /\ ready' \in BOOLEAN
    <2>1. CASE len' = 0 /\ accepting
      BY <2>1, <1>2 DEF ReadyTracksWork, TypeOK
    <2>2. CASE ~(len' = 0 /\ accepting)
      <3>1. ready' = ready /\ len # 0
        BY <2>2, <1>2
      <3> QED
        BY <3>1, <2>2, <1>2 DEF ReadyTracksWork, TypeOK
    <2> QED
      BY <2>1, <2>2
  <1>10. states' \in [Slots -> SlotStates]
    BY <1>2, <1>3 DEF TypeOK, SlotStates
  <1> QED
    BY <1>2, <1>3, <1>4, <1>5, <1>6, <1>7, <1>8, <1>9, <1>10

(* next() and receive() keep the invariant: pop() plus the turn's budget. *)
LEMMA TakeStep ==
  ASSUME IInv, TakeNext \/ Receive
  PROVE  IInv'
  <1> USE InboxAssumption DEF IInv
  <1>1. Pop
    BY DEF TakeNext, Receive
  <1>2. UNCHANGED <<generations, items, order, reserved, accepting, wake, tickets, draining>>
    BY DEF Pop, TakeNext, Receive, turnVars
  <1>3. budget' \in [remaining : 0 .. Capacity, processed : Nat]
        /\ (draining => budget'.remaining = budget.remaining - 1)
    BY DEF TakeNext, Receive, turnVars, TypeOK
  <1>4. TypeOK'
    BY <1>1, <1>2, <1>3, PopStep DEF TypeOK, SlotStates
  <1>5. WakePosted'
    BY <1>1, <1>2, PopStep DEF WakePosted, TypeOK
  <1>6. BudgetCovered'
    BY <1>1, <1>2, <1>3, PopStep DEF BudgetCovered, TypeOK
  <1> QED
    BY <1>1, <1>4, <1>5, <1>6, PopStep

(* begin(), end() and close() keep the invariant: they touch no slot. *)
LEMMA TurnStep ==
  ASSUME IInv, BeginAfterWait \/ BeginOnWake \/ BeginOnOtherEvent \/ End \/ Close
  PROVE  IInv'
  <1> USE InboxAssumption DEF IInv
  <1>1. UNCHANGED <<slotVars, tickets, received>>
    BY DEF BeginAfterWait, BeginOnWake, BeginOnOtherEvent, OpenTurn, End, Close
  <1>2. TypeOK' /\ BudgetCovered'
    <2>1. CASE OpenTurn /\ wake' \in BOOLEAN
      <3>1. Smaller(len, MaxTurn) \in 0 .. len
        BY DEF Smaller, TypeOK
      <3> HIDE DEF Smaller
      <3>2. /\ budget' = [remaining |-> Smaller(len, MaxTurn), processed |-> 0]
            /\ draining' = TRUE /\ UNCHANGED <<accepting, ready>>
        BY <2>1 DEF OpenTurn
      <3>3. budget' \in [remaining : 0 .. Capacity, processed : Nat]
            /\ budget'.remaining <= len
        BY <3>1, <3>2 DEF TypeOK
      <3> QED
        BY <2>1, <3>2, <3>3, <1>1 DEF TypeOK, BudgetCovered, slotVars
    <2>2. CASE End
      BY <2>2, <1>1 DEF End, SignalIf, Signal, TypeOK, BudgetCovered, slotVars
    <2>3. CASE Close
      BY <2>3, <1>1 DEF Close, TypeOK, BudgetCovered, turnVars, slotVars
    <2> QED
      BY <2>1, <2>2, <2>3 DEF BeginAfterWait, BeginOnWake, BeginOnOtherEvent, TypeOK
  <1>3. RingHoldsReadySlots' /\ ReservationsCounted' /\ TicketsIssued' /\ OneOwner'
    <2>1. RingHoldsReadySlots'
      BY <1>1, RingUntouched DEF slotVars
    <2> QED
      BY <2>1, <1>1 DEF ReservationsCounted, InState, SlotsIn, TicketsIssued, OneOwner, Valid, slotVars
  <1>4. ReadyTracksWork'
    BY <1>1 DEF BeginAfterWait, BeginOnWake, BeginOnOtherEvent, OpenTurn, End, Close,
                SignalIf, Signal, ReadyTracksWork, TypeOK, slotVars
  <1>5. WakePosted'
    BY <1>1 DEF BeginAfterWait, BeginOnWake, BeginOnOtherEvent, OpenTurn, End, Close,
                SignalIf, Signal, WakePosted, TypeOK, slotVars, turnVars
  <1> QED
    BY <1>2, <1>3, <1>4, <1>5

--------------------------------------------------------------------------------

(* The inbox that init() returns satisfies the invariant. *)
LEMMA InitInvariant == Init => IInv
  <1> SUFFICES ASSUME Init PROVE IInv
    OBVIOUS
  <1> USE InboxAssumption DEF Init
  <1>1. TypeOK
    <2>1. 0 \in Slots /\ 0 \in 0 .. Capacity /\ 0 \in 0 .. MaxGeneration
      BY DEF Slots
    <2>2. budget \in [remaining : 0 .. Capacity, processed : Nat]
      BY <2>1
    <2> QED
      BY <2>1, <2>2 DEF TypeOK
  <1>2. RingHoldsReadySlots /\ ReadyTracksWork /\ WakePosted /\ BudgetCovered
    BY DEF RingHoldsReadySlots, ReadyTracksWork, WakePosted, BudgetCovered
  <1>3. ReservationsCounted
    <2>1. InState("reserved") = {} /\ InState("ready") = {}
      BY DEF InState, SlotsIn
    <2> QED
      BY <2>1, FS_EmptySet DEF ReservationsCounted
  <1>4. OneOwner /\ TicketsIssued
    BY DEF OneOwner, TicketsIssued, Valid
  <1> QED
    BY <1>1, <1>2, <1>3, <1>4 DEF IInv

(* Every method of the inbox keeps the invariant. *)
LEMMA StepInvariant == IInv /\ [Next]_vars => IInv'
  <1> SUFFICES ASSUME IInv, [Next]_vars PROVE IInv'
    OBVIOUS
  <1>1. ASSUME NEW p \in Producers, Reserve(p) PROVE IInv'
    BY <1>1, ReserveStep
  <1>2. ASSUME NEW p \in Producers, PublishClosed(p) \/ Release(p) PROVE IInv'
    BY <1>2, FreeReservationStep DEF PublishClosed, Release
  <1>3. ASSUME NEW p \in Producers, NEW m \in Messages, Publish(p, m) PROVE IInv'
    BY <1>3, PublishStep
  <1>4. ASSUME NEW m \in Messages, Post(m) \/ Notify(m) PROVE IInv'
    BY <1>4, PostStep, CoalesceStep DEF Notify
  <1>5. CASE TakeNext \/ Receive
    BY <1>5, TakeStep
  <1>6. CASE BeginAfterWait \/ BeginOnWake \/ BeginOnOtherEvent \/ End \/ Close
    BY <1>6, TurnStep
  <1>7. CASE UNCHANGED vars
    <2>1. RingHoldsReadySlots'
      BY <1>7, RingUntouched DEF IInv, vars
    <2> QED
      BY <2>1, <1>7 DEF IInv, vars, TypeOK, ReservationsCounted, InState, SlotsIn,
                ReadyTracksWork, WakePosted, OneOwner, TicketsIssued, Valid, BudgetCovered
  <1> QED
    BY <1>1, <1>2, <1>3, <1>4, <1>5, <1>6, <1>7 DEF Next

(* The invariant holds in every state the inbox reaches. *)
LEMMA InvariantHolds == Spec => []IInv
  BY InitInvariant, StepInvariant, PTL DEF Spec

(* Type correctness of the inbox. *)
THEOREM InboxTypeCorrect == Spec => []TypeOK
  BY InvariantHolds, PTL DEF IInv

(* pop() hands out only written messages, each slot once, for every        *)
(* capacity and every interleaving of reservations and publications.       *)
THEOREM InboxRing == Spec => []RingHoldsReadySlots
  BY InvariantHolds, PTL DEF IInv

(* The two counters agree with the slots and never exceed the capacity. *)
THEOREM InboxCounted == Spec => []ReservationsCounted
  BY InvariantHolds, PTL DEF IInv

(* No blocking host sleeps through a message or the closing. *)
THEOREM InboxNoLostWakeup == Spec => []ReadyTracksWork
  BY InvariantHolds, PTL DEF IInv

(* No native host is left without a wake while an open inbox holds work. *)
THEOREM InboxWakePosted == Spec => []WakePosted
  BY InvariantHolds, PTL DEF IInv

(* A valid ticket has one holder. *)
THEOREM InboxOneOwner == Spec => []OneOwner
  BY InvariantHolds, PTL DEF IInv

(* A turn's budget never outruns the queue. *)
THEOREM InboxBudgetCovered == Spec => []BudgetCovered
  BY InvariantHolds, PTL DEF IInv

--------------------------------------------------------------------------------
(* The inbox implements the first-in first-out mailbox                     *)

(* The queue a consumer sees: the refinement mapping of Fifo. *)
Queued == [i \in 1 .. len |-> items[order[Position(i - 1)]]]

(* The live range of the ring, read off in order, is a sequence of         *)
(* messages.                                                               *)
LEMMA QueuedFacts ==
  ASSUME IInv
  PROVE  /\ Queued \in Seq(Messages) /\ Len(Queued) = len /\ len \in 0 .. Capacity
         /\ \A i \in 1 .. len : Queued[i] = items[order[Position(i - 1)]]
  <1>1. len \in 0 .. Capacity /\ len \in Nat
    BY InboxAssumption DEF IInv, TypeOK
  <1>2. \A i \in 1 .. len : i - 1 \in 0 .. len - 1
    BY <1>1
  <1>3. \A i \in 1 .. len : items[order[Position(i - 1)]] \in Messages
    BY <1>2 DEF IInv, RingHoldsReadySlots
  <1>4. Queued \in [1 .. len -> Messages]
    BY <1>3 DEF Queued
  <1> QED
    BY <1>1, <1>4 DEF Queued

(* The same of the queue after a step. *)
LEMMA QueuedFactsNext ==
  ASSUME IInv'
  PROVE  /\ Queued' \in Seq(Messages) /\ Len(Queued') = len' /\ len' \in 0 .. Capacity
         /\ \A i \in 1 .. len' : Queued'[i] = items'[order'[Position(i - 1)']]
  <1>1. len' \in 0 .. Capacity /\ len' \in Nat
    BY InboxAssumption DEF IInv, TypeOK
  <1>2. \A i \in 1 .. len' : i - 1 \in 0 .. len' - 1
    <2>1. \A n \in Nat : \A i \in 1 .. n : i - 1 \in 0 .. n - 1
      OBVIOUS
    <2> QED
      BY <1>1, <2>1
  <1>3. \A i \in 1 .. len' : items'[order'[Position(i - 1)']] \in Messages
    BY <1>2 DEF IInv, RingHoldsReadySlots
  <1>4. Queued' \in [1 .. len' -> Messages]
    BY <1>3 DEF Queued
  <1> QED
    BY <1>1, <1>4 DEF Queued

(* append() puts the message at the tail of the queue. *)
LEMMA EnqueueAppends ==
  ASSUME IInv, IInv', head' = head, len < Capacity,
         NEW s \in Slots, states[s] # "ready", NEW m \in Messages, Enqueue(s, m)
  PROVE  Queued' = Append(Queued, m)
  <1>1. \A i : Position(i)' = Position(i)
    BY DEF Position
  <1>2. len' = len + 1 /\ len \in Nat
    BY DEF Enqueue, IInv, TypeOK
  <1>3. /\ \A i \in 0 .. len : Position(i) \in Slots
        /\ \A i \in 0 .. len - 1 : Position(i) # Position(len)
    BY PositionFacts, InboxAssumption DEF IInv, TypeOK
  <1>4. \A i \in 0 .. len - 1 : order'[Position(i)] = order[Position(i)]
    BY <1>2, <1>3 DEF Enqueue, IInv, TypeOK
  <1>5. order'[Position(len)] = s /\ items'[s] = m
    BY <1>2, <1>3 DEF Enqueue, IInv, TypeOK
  <1>6. \A i \in 0 .. len - 1 : order[Position(i)] \in Slots /\ order[Position(i)] # s
    BY DEF IInv, RingHoldsReadySlots
  <1>7. \A i \in 0 .. len - 1 : items'[order[Position(i)]] = items[order[Position(i)]]
    BY <1>6 DEF Enqueue, IInv, TypeOK
  <1>8. /\ Queued' \in Seq(Messages) /\ Len(Queued') = len'
        /\ \A i \in 1 .. len' : Queued'[i] = items'[order'[Position(i - 1)]]
    BY <1>1, QueuedFactsNext
  <1>9. \A i \in 1 .. len : Queued'[i] = Queued[i]
    <2> SUFFICES ASSUME NEW i \in 1 .. len PROVE Queued'[i] = Queued[i]
      OBVIOUS
    <2>1. i - 1 \in 0 .. len - 1 /\ i \in 1 .. len'
      BY <1>2
    <2> QED
      BY <2>1, <1>4, <1>7, <1>8, QueuedFacts
  <1>10. Queued'[len + 1] = m
    BY <1>2, <1>5, <1>8
  <1> QED
    BY <1>2, <1>8, <1>9, <1>10, QueuedFacts, AppendProperties, SeqEqual

(* pop() hands out the head of the queue and takes it off. *)
LEMMA PopTakesHead ==
  ASSUME IInv, IInv', Pop
  PROVE  Queued # <<>> /\ received' = Head(Queued) /\ Queued' = Tail(Queued)
  <1>1. /\ len \in 1 .. Capacity /\ len' = len - 1 /\ head' = Position(1)
        /\ order' = order /\ items' = items /\ received' = items[order[head]]
    BY InboxAssumption DEF Pop, IInv, TypeOK
  <1>2. Position(0) = head
    BY RingStart, InboxAssumption DEF IInv, TypeOK, Position, Slots
  <1>3. \A i \in 0 .. len - 2 : Position(i)' = Position(i + 1)
    <2> SUFFICES ASSUME NEW i \in 0 .. len - 2 PROVE Position(i)' = Position(i + 1)
      OBVIOUS
    <2>1. i \in Nat /\ i + 1 < Capacity
      BY <1>1, InboxAssumption
    <2> QED
      BY <1>1, <2>1, RingShift, InboxAssumption DEF Position, IInv, TypeOK, Slots
  <1>4. Queued # <<>> /\ Head(Queued) = Queued[1]
    BY <1>1, QueuedFacts
  <1>5. received' = Queued[1]
    BY <1>1, <1>2, QueuedFacts
  <1>6. /\ Queued' \in Seq(Messages) /\ Len(Queued') = len'
        /\ \A i \in 1 .. len' : Queued'[i] = items'[order'[Position(i - 1)']]
    BY QueuedFactsNext
  <1>7. ASSUME NEW i \in 1 .. len' PROVE Queued'[i] = Queued[i + 1]
    <2>1. i - 1 \in 0 .. len - 2 /\ i + 1 \in 1 .. len /\ (i - 1) + 1 = (i + 1) - 1
      BY <1>1
    <2>2. Position(i - 1)' = Position(i)
      BY <2>1, <1>1, <1>3
    <2>3. Queued'[i] = items[order[Position(i)]]
      BY <2>2, <1>1, <1>6
    <2>4. Queued[i + 1] = items[order[Position(i)]]
      BY <2>1, <1>1, QueuedFacts
    <2> QED
      BY <2>3, <2>4
  <1>8. Queued' = Tail(Queued)
    BY <1>1, <1>4, <1>6, <1>7, QueuedFacts, HeadTailProperties, SeqEqual
  <1> QED
    BY <1>4, <1>5, <1>8

(* notify() overwrites the oldest queued message of its kind where it      *)
(* stands.                                                                 *)
LEMMA CoalesceRefreshes ==
  ASSUME IInv, IInv', NEW m \in Messages, Coalesce(m)
  PROVE  \E i \in 1 .. Len(Queued) :
           /\ Tag[Queued[i]] = Tag[m]
           /\ \A j \in 1 .. i - 1 : Tag[Queued[j]] # Tag[m]
           /\ Queued' = [Queued EXCEPT ![i] = m]
  <1>1. PICK k \in SameKind(m) :
          /\ \A j \in SameKind(m) : k <= j
          /\ items' = [items EXCEPT ![order[Position(k)]] = m]
    BY DEF Coalesce
  <1>2. /\ k \in 0 .. len - 1 /\ Tag[items[order[Position(k)]]] = Tag[m] /\ len \in Nat
        /\ \A j \in 0 .. len - 1 : j < k => Tag[items[order[Position(j)]]] # Tag[m]
    BY <1>1, QueuedFacts DEF SameKind
  <1>3. UNCHANGED <<order, head, len>> /\ \A i : Position(i)' = Position(i)
    BY DEF Coalesce, Position
  <1>4. k + 1 \in 1 .. Len(Queued) /\ (k + 1) - 1 = k /\ Queued[k + 1] = items[order[Position(k)]]
    BY <1>2, QueuedFacts
  <1>5. ASSUME NEW j \in 1 .. (k + 1) - 1 PROVE Tag[Queued[j]] # Tag[m]
    <2>1. j - 1 \in 0 .. len - 1 /\ j - 1 < k /\ j \in 1 .. len
      BY <1>2
    <2> QED
      BY <2>1, <1>2, QueuedFacts
  <1>6. /\ Queued' \in Seq(Messages) /\ Len(Queued') = len
        /\ \A i \in 1 .. len : Queued'[i] = items'[order[Position(i - 1)]]
    BY <1>3, QueuedFactsNext
  <1>7. ASSUME NEW i \in 1 .. len PROVE Queued'[i] = IF i = k + 1 THEN m ELSE Queued[i]
    <2>1. i - 1 \in 0 .. len - 1 /\ (i - 1 = k <=> i = k + 1)
      BY <1>2
    <2>2. order[Position(i - 1)] \in Slots /\ order[Position(k)] \in Slots
      BY <1>2, <2>1 DEF IInv, RingHoldsReadySlots
    <2>3. order[Position(i - 1)] = order[Position(k)] => i - 1 = k
      BY <1>2, <2>1 DEF IInv, RingHoldsReadySlots
    <2>4. items'[order[Position(i - 1)]] = IF i - 1 = k THEN m ELSE items[order[Position(i - 1)]]
      BY <1>1, <2>2, <2>3 DEF IInv, TypeOK
    <2> QED
      BY <2>1, <2>4, <1>6, QueuedFacts
  <1>8. Queued' = [Queued EXCEPT ![k + 1] = m]
    BY <1>4, <1>6, <1>7, QueuedFacts, ExceptSeq, SeqEqual
  <1> QED
    BY <1>2, <1>4, <1>5, <1>8

(* Every step of the inbox is a step of the mailbox, or none. *)
LEMMA StepRefines == IInv /\ IInv' /\ [Next]_vars => [Fifo!FifoNext]_(Fifo!fifoVars)
  <1> SUFFICES ASSUME IInv, IInv', [Next]_vars PROVE [Fifo!FifoNext]_(Fifo!fifoVars)
    OBVIOUS
  <1>1. CASE UNCHANGED <<items, order, head, len, accepting, received>>
    BY <1>1 DEF Fifo!fifoVars, Position
  <1>2. ASSUME NEW m \in Messages, accepting, len < Capacity, Queued' = Append(Queued, m),
               UNCHANGED <<accepting, received>>
        PROVE  Fifo!Put(m)
    BY <1>2, QueuedFacts DEF Fifo!Put, Queued
  <1>3. ASSUME NEW p \in Producers, NEW m \in Messages, Publish(p, m) PROVE Fifo!Put(m)
    <2>1. tickets[p].slot \in Slots /\ states[tickets[p].slot] = "reserved"
      BY <1>3 DEF Publish, Valid, IInv, TypeOK, Ticket
    <2>2. len < Capacity
      <3>1. len' = len + 1 /\ len \in 0 .. Capacity /\ len' \in 0 .. Capacity
        BY <1>3 DEF Publish, Enqueue, IInv, TypeOK
      <3> QED
        BY <3>1, InboxAssumption
    <2> QED
      BY <1>2, <1>3, <2>1, <2>2, EnqueueAppends DEF Publish
  <1>4. ASSUME NEW m \in Messages, Post(m) PROVE Fifo!Put(m)
    <2>1. PICK s \in Slots :
            /\ Claimable(s) /\ Enqueue(s, m) /\ UNCHANGED <<head, reserved, accepting, turnVars, tickets, received>>
      BY <1>4 DEF Post
    <2>2. len < Capacity
      <3>1. len' = len + 1 /\ len \in 0 .. Capacity /\ len' \in 0 .. Capacity
        BY <2>1 DEF Enqueue, IInv, TypeOK
      <3> QED
        BY <3>1, InboxAssumption
    <2> QED
      BY <1>2, <2>1, <2>2, EnqueueAppends DEF Claimable
  <1>5. ASSUME NEW m \in Messages, Coalesce(m) PROVE Fifo!Refresh(m)
    BY <1>5, CoalesceRefreshes DEF Fifo!Refresh, Queued, Coalesce
  <1>6. CASE TakeNext \/ Receive
    <2>1. Pop
      BY <1>6 DEF TakeNext, Receive
    <2> QED
      BY <2>1, PopTakesHead DEF Fifo!Get, Fifo!FifoNext, Queued, Pop
  <1>7. CASE Close
    <2>1. UNCHANGED <<items, order, head, len, received>> /\ accepting' = FALSE
      BY <1>7 DEF Close, slotVars
    <2> QED
      BY <2>1 DEF Fifo!Shut, Fifo!FifoNext, Position
  <1>8. ASSUME NEW p \in Producers, Reserve(p) \/ PublishClosed(p) \/ Release(p)
        PROVE  UNCHANGED <<items, order, head, len, accepting, received>>
    BY <1>8 DEF Reserve, PublishClosed, Release, FreeReservation
  <1>9. CASE BeginAfterWait \/ BeginOnWake \/ BeginOnOtherEvent \/ End
    BY <1>1, <1>9 DEF BeginAfterWait, BeginOnWake, BeginOnOtherEvent, OpenTurn, End, slotVars
  <1>10. CASE UNCHANGED vars
    BY <1>1, <1>10 DEF vars
  <1>11. ASSUME NEW m \in Messages, Fifo!Put(m) \/ Fifo!Refresh(m) PROVE Fifo!FifoNext
    BY <1>11 DEF Fifo!FifoNext
  <1> QED
    BY <1>1, <1>3, <1>4, <1>5, <1>6, <1>7, <1>8, <1>9, <1>10, <1>11 DEF Next, Notify

(* The inbox implements the mailbox: what its consumer is handed is what   *)
(* its producers put in, in that order and at most Capacity at a time,     *)
(* with notifications refreshed in place and nothing admitted after        *)
(* close(), whatever slots, tickets, turns and wakes do (GenericInbox.zig). *)
THEOREM InboxImplementsFifo == Spec => ImplementsFifo
  <1>1. Init => Fifo!FifoInit
    BY DEF Init, Fifo!FifoInit
  <1> QED
    BY <1>1, StepRefines, InvariantHolds, PTL DEF Spec, ImplementsFifo, Fifo!FifoSpec

================================================================================
