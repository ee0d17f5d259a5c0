------------------------------ MODULE FifoMailbox ------------------------------
(***************************************************************************)
(* What a consumer may rely on of lib/mailbox: a bounded first-in          *)
(* first-out queue that a notification may refresh in place, that admits   *)
(* nothing once closed, and that hands out exactly its head.  Slots,       *)
(* tickets, the ring and the wake flags of GenericInbox.zig are all        *)
(* invisible here.                                                         *)
(***************************************************************************)
EXTENDS Naturals, Sequences

CONSTANTS Capacity,   \* how many messages fit
          Messages,   \* the values of the Message union
          Tag         \* the active field of each message

VARIABLES queue,      \* the messages admitted and not yet handed out
          open,       \* the mailbox still admits
          received    \* the last message handed out (or none)

fifoVars == <<queue, open, received>>

FifoInit == queue = <<>> /\ open = TRUE

(* A message enters at the tail of an open mailbox with room. *)
Put(m) ==
  /\ open
  /\ Len(queue) < Capacity
  /\ queue' = Append(queue, m)
  /\ UNCHANGED <<open, received>>

(* A notification overwrites the oldest queued message of its kind. *)
Refresh(m) ==
  /\ open
  /\ \E i \in 1 .. Len(queue) :
       /\ Tag[queue[i]] = Tag[m]
       /\ \A j \in 1 .. i - 1 : Tag[queue[j]] # Tag[m]
       /\ queue' = [queue EXCEPT ![i] = m]
  /\ UNCHANGED <<open, received>>

(* The consumer gets the head, also after the mailbox closed. *)
Get ==
  /\ queue # <<>>
  /\ received' = Head(queue)
  /\ queue' = Tail(queue)
  /\ UNCHANGED open

Shut ==
  /\ open' = FALSE
  /\ UNCHANGED <<queue, received>>

FifoNext ==
  \/ \E m \in Messages : Put(m) \/ Refresh(m)
  \/ Get
  \/ Shut

FifoSpec == FifoInit /\ [][FifoNext]_fifoVars

================================================================================
