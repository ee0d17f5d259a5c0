--------------------------------- MODULE Inbox ---------------------------------
(***************************************************************************)
(* lib/mailbox/GenericInbox.zig and DrainBudget.zig: the bounded inbox     *)
(* through which the workers of a client adapter report to its one         *)
(* consumer.  Every method body that runs under the mutex is one action;   *)
(* the consumer's turn (begin, next, end) is one action per call, so       *)
(* producers run between its calls.                                        *)
(***************************************************************************)
EXTENDS Naturals, Sequences, FiniteSets

CONSTANTS
  Capacity,       \* slots; 64 by default, at most 256 (a ticket names its slot in a byte)
  Producers,      \* workers that reserve before they start
  Messages,       \* values of the Message union
  Tag,            \* the active field of a message
  Undefined,      \* content of storage no one has written
  NoTicket,       \* a producer that never reserved
  MaxTurn,        \* DrainBudget.max_messages (32)
  MaxGeneration   \* largest generation a slot's u64 counter may reach

Slots == 0 .. Capacity - 1

ASSUME InboxAssumption ==
  /\ Capacity \in Nat \ {0}
  /\ MaxTurn \in Nat \ {0}
  /\ MaxGeneration \in Nat
  /\ Undefined \notin Messages
  /\ Undefined \notin Slots
  /\ NoTicket \notin [slot : Slots, generation : Nat]

VARIABLES
  states,       \* slot -> free | reserved | ready
  generations,  \* slot -> how often it was claimed
  items,        \* slot -> message
  order,        \* ring of the ready slots, oldest at head
  head, len,    \* live range of the ring
  reserved,     \* number of tickets out
  accepting,    \* not closed
  ready,        \* the std.Io.Event the blocking host sleeps on
  wake,         \* a native wake is posted and not yet taken by the host
  draining,     \* the consumer is inside begin .. end
  budget,       \* DrainBudget of the turn: remaining and processed
  tickets,      \* producer -> the last ticket it was issued
  received,     \* the last message handed to the consumer
  blocking      \* the adapter's host: TRUE, it sleeps in wait(); FALSE, a native
                \* wake starts its turns.  Chosen once.

vars == <<states, generations, items, order, head, len, reserved, accepting,
          ready, wake, draining, budget, tickets, received, blocking>>

slotVars == <<states, generations, items, order, head, len, reserved>>
turnVars == <<draining, budget>>

--------------------------------------------------------------------------------

Ticket == [slot : Slots, generation : Nat]

Position(i) == (head + i) % Capacity

Init ==
  /\ states = [s \in Slots |-> "free"]
  /\ generations = [s \in Slots |-> 0]
  /\ items = [s \in Slots |-> Undefined]
  /\ order = [s \in Slots |-> Undefined]
  /\ head = 0 /\ len = 0 /\ reserved = 0
  /\ accepting = TRUE
  /\ ready = FALSE /\ wake = FALSE
  /\ draining = FALSE
  /\ budget = [remaining |-> 0, processed |-> 0]
  /\ tickets = [p \in Producers |-> NoTicket]
  /\ received = Undefined
  /\ blocking \in BOOLEAN

(* claim() takes the first free slot of an open inbox; it fails with       *)
(* InboxClosed or InboxFull otherwise.                                     *)
Claimable(s) ==
  /\ accepting
  /\ states[s] = "free"
  /\ \A t \in Slots : t < s => states[t] # "free"
  /\ generations[s] < MaxGeneration

Valid(ticket) ==
  /\ ticket # NoTicket
  /\ states[ticket.slot] = "reserved"
  /\ generations[ticket.slot] = ticket.generation

(* signal() sets the event and posts the host's wake. *)
Signal == ready' = TRUE /\ wake' = TRUE

SignalIf(c) == IF c THEN Signal ELSE UNCHANGED <<ready, wake>>

(* Mutant: the ring is written as if it always started at zero. *)
EnqueueAtLength(s, m) ==
  /\ items' = [items EXCEPT ![s] = m]
  /\ states' = [states EXCEPT ![s] = "ready"]
  /\ order' = [order EXCEPT ![len % Capacity] = s]
  /\ len' = len + 1
  /\ SignalIf(len' = 1)

(* append() without the slot's accounting: the message lands in slot s,    *)
(* s joins the ring, and only the message that ends an empty spell         *)
(* signals.                                                                *)
Enqueue(s, m) ==
  /\ items' = [items EXCEPT ![s] = m]
  /\ states' = [states EXCEPT ![s] = "ready"]
  /\ order' = [order EXCEPT ![Position(len)] = s]
  /\ len' = len + 1
  /\ SignalIf(len' = 1)

--------------------------------------------------------------------------------
(* Producers                                                               *)

(* Mutant: the slot is claimed without opening a new generation. *)
ReserveSameGeneration(p) ==
  \E s \in Slots :
    /\ Claimable(s)
    /\ states' = [states EXCEPT ![s] = "reserved"]
    /\ reserved' = reserved + 1
    /\ tickets' = [tickets EXCEPT ![p] = [slot |-> s, generation |-> generations[s]]]
    /\ UNCHANGED <<generations, items, order, head, len, accepting, ready, wake,
                   turnVars, received>>

(* reserve(): also the first half of start(). *)
Reserve(p) ==
  \E s \in Slots :
    /\ Claimable(s)
    /\ states' = [states EXCEPT ![s] = "reserved"]
    /\ generations' = [generations EXCEPT ![s] = @ + 1]
    /\ reserved' = reserved + 1
    /\ tickets' = [tickets EXCEPT ![p] = [slot |-> s, generation |-> generations'[s]]]
    /\ UNCHANGED <<items, order, head, len, accepting, ready, wake, turnVars, received>>

(* Giving a reservation back: release(), and publish() into a closed inbox. *)
FreeReservation(ticket) ==
  /\ states' = [states EXCEPT ![ticket.slot] = "free"]
  /\ reserved' = reserved - 1
  /\ UNCHANGED <<generations, items, order, head, len, accepting, ready, wake,
                 turnVars, tickets, received>>

(* publish(): a stale ticket changes nothing but a counter, so that case   *)
(* is a stuttering step.  The producer keeps its copy of the ticket.       *)
Publish(p, m) ==
  /\ Valid(tickets[p])
  /\ accepting
  /\ Enqueue(tickets[p].slot, m)
  /\ reserved' = reserved - 1
  /\ UNCHANGED <<generations, head, accepting, turnVars, tickets, received>>

PublishClosed(p) ==
  /\ Valid(tickets[p])
  /\ ~accepting
  /\ FreeReservation(tickets[p])

(* Mutant: a ticket is released without asking whether it is still valid. *)
ReleaseUnchecked(p) ==
  /\ tickets[p] # NoTicket
  /\ reserved # 0
  /\ FreeReservation(tickets[p])

(* release(): start() calls it when the task could not be spawned. *)
Release(p) ==
  /\ Valid(tickets[p])
  /\ FreeReservation(tickets[p])

(* post(): claim and append in one critical section. *)
Post(m) ==
  \E s \in Slots :
    /\ Claimable(s)
    /\ generations' = [generations EXCEPT ![s] = @ + 1]
    /\ Enqueue(s, m)
    /\ UNCHANGED <<head, reserved, accepting, turnVars, tickets, received>>

(* Offsets of the queued messages with the field of m. *)
SameKind(m) == {i \in 0 .. len - 1 : Tag[items[order[Position(i)]]] = Tag[m]}

(* Mutant: the newest message of the kind is overwritten. *)
CoalesceNewest(m) ==
  /\ accepting
  /\ \E i \in SameKind(m) :
       /\ \A j \in SameKind(m) : i >= j
       /\ items' = [items EXCEPT ![order[Position(i)]] = m]
  /\ UNCHANGED <<states, generations, order, head, len, reserved, accepting,
                 ready, wake, turnVars, tickets, received>>

(* notify(): the oldest queued message of the kind is overwritten where it *)
(* stands; without one the notification is posted.                         *)
Coalesce(m) ==
  /\ accepting
  /\ \E i \in SameKind(m) :
       /\ \A j \in SameKind(m) : i <= j
       /\ items' = [items EXCEPT ![order[Position(i)]] = m]
  /\ UNCHANGED <<states, generations, order, head, len, reserved, accepting,
                 ready, wake, turnVars, tickets, received>>

Notify(m) ==
  \/ Coalesce(m)
  \/ SameKind(m) = {} /\ Post(m)

--------------------------------------------------------------------------------
(* The consumer                                                            *)

Smaller(a, b) == IF a <= b THEN a ELSE b

(* begin(): opens a turn over what is queued now. *)
OpenTurn ==
  /\ ~draining
  /\ draining' = TRUE
  /\ budget' = [remaining |-> Smaller(len, MaxTurn), processed |-> 0]
  /\ UNCHANGED <<slotVars, accepting, ready, tickets, received>>

(* A blocking host takes a turn when wait() returned, and leaves its loop  *)
(* when the inbox is closed and empty.                                     *)
BeginAfterWait ==
  /\ blocking
  /\ ready
  /\ accepting \/ len # 0
  /\ OpenTurn
  /\ UNCHANGED wake

(* A native host takes a turn on each window event; only the wake event    *)
(* consumes the posted wake.                                               *)
BeginOnWake == ~blocking /\ wake /\ wake' = FALSE /\ OpenTurn

BeginOnOtherEvent == ~blocking /\ UNCHANGED wake /\ OpenTurn

(* Mutant: every pop clears the event. *)
PopAlwaysResets ==
  /\ len # 0
  /\ received' = items[order[head]]
  /\ states' = [states EXCEPT ![order[head]] = "free"]
  /\ head' = Position(1)
  /\ len' = len - 1
  /\ ready' = FALSE
  /\ UNCHANGED <<generations, items, order, reserved, accepting, wake, tickets>>

(* pop(): hands out the head and clears the event when it was the last     *)
(* one of an open inbox.                                                   *)
Pop ==
  /\ len # 0
  /\ received' = items[order[head]]
  /\ states' = [states EXCEPT ![order[head]] = "free"]
  /\ head' = Position(1)
  /\ len' = len - 1
  /\ IF len' = 0 /\ accepting THEN ready' = FALSE ELSE UNCHANGED ready
  /\ UNCHANGED <<generations, items, order, reserved, accepting, wake, tickets>>

(* next(): the budget permits one handler even after its deadline; the     *)
(* deadline is a choice of the environment.                                *)
TakeNext ==
  /\ draining
  /\ budget.remaining # 0
  /\ Pop
  /\ budget' = [remaining |-> budget.remaining - 1, processed |-> budget.processed + 1]
  /\ UNCHANGED draining

(* receive(): single consumption outside a turn; it waits when pop() has   *)
(* nothing.                                                                *)
Receive ==
  /\ blocking /\ ~draining
  /\ Pop
  /\ UNCHANGED turnVars

(* Mutant: the turn ends without signalling for what it left behind. *)
EndSilently ==
  /\ draining
  /\ budget.remaining = 0 \/ budget.processed # 0
  /\ draining' = FALSE
  /\ UNCHANGED <<slotVars, accepting, ready, wake, budget, tickets, received>>

(* end(): reached when the budget is spent or its millisecond has passed;  *)
(* it signals again when messages are left behind.                         *)
End ==
  /\ draining
  /\ budget.remaining = 0 \/ budget.processed # 0
  /\ draining' = FALSE
  /\ SignalIf(len # 0 /\ accepting)
  /\ UNCHANGED <<slotVars, accepting, budget, tickets, received>>

(* close(), and deinit() before it joins the tasks. *)
Close ==
  /\ accepting' = FALSE
  /\ ready' = TRUE
  /\ UNCHANGED <<slotVars, wake, turnVars, tickets, received>>

Next ==
  /\ UNCHANGED blocking
  /\ \/ \E p \in Producers : Reserve(p) \/ PublishClosed(p) \/ Release(p)
     \/ \E p \in Producers, m \in Messages : Publish(p, m)
     \/ \E m \in Messages : Post(m) \/ Notify(m)
     \/ BeginAfterWait \/ BeginOnWake \/ BeginOnOtherEvent
     \/ TakeNext \/ Receive \/ End
     \/ Close

Hosted(A) == A /\ UNCHANGED blocking

(* The host runs its loop: it takes a turn when woken, drains and ends it. *)
Fairness ==
  /\ WF_vars(Hosted(BeginAfterWait)) /\ WF_vars(Hosted(BeginOnWake))
  /\ WF_vars(Hosted(TakeNext)) /\ WF_vars(Hosted(End))

Spec == Init /\ [][Next]_vars /\ Fairness

--------------------------------------------------------------------------------
(* Properties                                                              *)

(* Indices stay inside the ring, counters inside the capacity, and tickets *)
(* name slots.                                                             *)
TypeOK ==
  /\ states \in [Slots -> {"free", "reserved", "ready"}]
  /\ generations \in [Slots -> 0 .. MaxGeneration]
  /\ items \in [Slots -> Messages \cup {Undefined}]
  /\ order \in [Slots -> Slots \cup {Undefined}]
  /\ head \in Slots /\ len \in 0 .. Capacity /\ reserved \in 0 .. Capacity
  /\ accepting \in BOOLEAN /\ ready \in BOOLEAN /\ wake \in BOOLEAN
  /\ draining \in BOOLEAN
  /\ budget \in [remaining : 0 .. Capacity, processed : Nat]
  /\ tickets \in [Producers -> Ticket \cup {NoTicket}]
  /\ received \in Messages \cup {Undefined}

(* The live range of the ring names every ready slot exactly once and      *)
(* nothing else, and each of those slots holds a message: pop() never      *)
(* hands out unwritten storage or one slot twice.                          *)
RingHoldsReadySlots ==
  /\ \A i \in 0 .. len - 1 :
       /\ order[Position(i)] \in Slots
       /\ states[order[Position(i)]] = "ready"
       /\ items[order[Position(i)]] \in Messages
  /\ \A i, j \in 0 .. len - 1 :
       order[Position(i)] = order[Position(j)] => i = j
  /\ \A s \in Slots : states[s] = "ready" => \E i \in 0 .. len - 1 : order[Position(i)] = s

SlotsIn(f, state) == {s \in Slots : f[s] = state}
InState(state) == SlotsIn(states, state)

(* The reservation counter is the number of reserved slots, so an append   *)
(* into a reservation always finds room in the ring.                       *)
ReservationsCounted ==
  /\ reserved = Cardinality(InState("reserved"))
  /\ len = Cardinality(InState("ready"))
  /\ len + reserved <= Capacity

(* No lost wakeup for a blocking host: the event it sleeps on is set       *)
(* exactly while there is something to do, a message or the closing.       *)
ReadyTracksWork == ready <=> (len # 0 \/ ~accepting)

(* No lost wakeup for a native host: whenever an open inbox holds a        *)
(* message and no turn runs, a wake is posted, although producers signal   *)
(* only the first message of a batch.                                      *)
WakePosted == accepting /\ len # 0 /\ ~draining => wake

(* A reservation has one owner: while a ticket is valid no other producer  *)
(* holds the same one, so a stale completion cannot publish into the slot  *)
(* of a newer worker.                                                      *)
OneOwner ==
  \A p, q \in Producers : Valid(tickets[p]) /\ tickets[p] = tickets[q] => p = q

(* Generations only grow, so every ticket out is of its slot's past or     *)
(* present.                                                                *)
TicketsIssued ==
  \A p \in Producers :
    tickets[p] # NoTicket => tickets[p].generation <= generations[tickets[p].slot]

(* The budget of a turn covers only messages queued when it began, so      *)
(* next() never pops an empty inbox within its budget.                     *)
BudgetCovered == draining => budget.remaining <= len

(* The inbox is a first-in first-out queue that refreshes notifications in *)
(* place (FifoMailbox).                                                    *)
Fifo == INSTANCE FifoMailbox WITH
          queue <- [i \in 1 .. len |-> items[order[Position(i - 1)]]],
          open <- accepting

ImplementsFifo == Fifo!FifoSpec

(* Every admitted message is handed out: a full slot is drained however    *)
(* producers and the time budget interleave, as long as the host runs and  *)
(* the inbox stays open.                                                   *)
EveryMessageConsumed ==
  \A s \in Slots : states[s] = "ready" ~> (states[s] # "ready" \/ ~accepting)

(* A blocking host also drains what was queued when the inbox closed.      *)
DrainedAfterClose == (blocking /\ ~accepting) ~> (len = 0)

================================================================================
