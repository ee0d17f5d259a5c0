------------------------------- MODULE DropQueue -------------------------------
(***************************************************************************)
(* lib/dropqueue/GenericDropQueue.zig: fixed storage behind a std.Io.Queue *)
(* with lock-free admission.  Several threads publish and receive at once; *)
(* every access to the atomic counters and to the Io.Queue is one action.  *)
(* A publisher reserves depth before it puts its item, a receiver gives    *)
(* the depth back after it got one.                                        *)
(***************************************************************************)
EXTENDS Integers, Sequences, FiniteSets

CONSTANTS
  Publishers, Receivers,
  Capacity,      \* items the storage holds
  MaxDropped     \* bound on the refusals counted

ASSUME DropQueueAssumption ==
  /\ IsFiniteSet(Publishers) /\ IsFiniteSet(Receivers)
  /\ Capacity \in Nat \ {0} /\ MaxDropped \in Nat

VARIABLES
  buffer,       \* the Io.Queue: who published each buffered item
  open,         \* not closed
  queued,       \* depth reserved
  high_water, dropped,
  at,           \* publisher -> idle | compare | put | rollback | count | mark
  depth,        \* publisher -> the depth it read, then the one it reserved
  holds         \* receivers between getting an item and giving its depth back

vars == <<buffer, open, queued, high_water, dropped, at, depth, holds>>

Steps == {"idle", "compare", "put", "rollback", "count", "mark"}

Init ==
  /\ buffer = <<>> /\ open = TRUE
  /\ queued = 0 /\ high_water = 0 /\ dropped = 0
  /\ at = [p \in Publishers |-> "idle"]
  /\ depth = [p \in Publishers |-> 0]
  /\ holds = {}

--------------------------------------------------------------------------------
(* publish()                                                               *)

(* reserve() goes on with the depth it has just observed, or gives up. *)
Observe(p) ==
  /\ depth' = [depth EXCEPT ![p] = queued]
  /\ at' = [at EXCEPT ![p] = IF queued < Capacity THEN "compare" ELSE "count"]
  /\ UNCHANGED <<buffer, open, queued, high_water, dropped, holds>>

Load(p) == at[p] = "idle" /\ dropped < MaxDropped /\ Observe(p)

(* cmpxchgWeak(): a failure for no reason observes the same depth again. *)
CompareFails(p) == at[p] = "compare" /\ queued # depth[p] /\ Observe(p)

(* Mutant: the depth is written without comparing. *)
ReserveBlindly(p) ==
  /\ at[p] = "compare"
  /\ queued' = depth[p] + 1
  /\ depth' = [depth EXCEPT ![p] = @ + 1]
  /\ at' = [at EXCEPT ![p] = "put"]
  /\ UNCHANGED <<buffer, open, high_water, dropped, holds>>

Reserve(p) ==
  /\ at[p] = "compare" /\ queued = depth[p]
  /\ queued' = queued + 1
  /\ depth' = [depth EXCEPT ![p] = @ + 1]
  /\ at' = [at EXCEPT ![p] = "put"]
  /\ UNCHANGED <<buffer, open, high_water, dropped, holds>>

(* items.put() with a minimum of zero takes the item if the queue is open  *)
(* and its storage has room.                                               *)
Accepts == open /\ Len(buffer) < Capacity

Put(p) ==
  /\ at[p] = "put" /\ Accepts
  /\ buffer' = Append(buffer, p)
  /\ at' = [at EXCEPT ![p] = "mark"]
  /\ UNCHANGED <<open, queued, high_water, dropped, depth, holds>>

(* put() takes nothing from a closed or full queue, and the error of a     *)
(* canceled task counts as nothing taken, whatever the queue.              *)
PutRefused(p) ==
  /\ at[p] = "put"
  /\ at' = [at EXCEPT ![p] = "rollback"]
  /\ UNCHANGED <<buffer, open, queued, high_water, dropped, depth, holds>>

(* Mutant: a refused item keeps the depth it reserved. *)
KeepDepth(p) ==
  /\ at[p] = "rollback"
  /\ at' = [at EXCEPT ![p] = "count"]
  /\ UNCHANGED <<buffer, open, queued, high_water, dropped, depth, holds>>

Rollback(p) ==
  /\ at[p] = "rollback"
  /\ queued' = queued - 1
  /\ at' = [at EXCEPT ![p] = "count"]
  /\ UNCHANGED <<buffer, open, high_water, dropped, depth, holds>>

CountDrop(p) ==
  /\ at[p] = "count"
  /\ dropped' = dropped + 1
  /\ at' = [at EXCEPT ![p] = "idle"]
  /\ UNCHANGED <<buffer, open, queued, high_water, depth, holds>>

(* high_water.fetchMax(). *)
Mark(p) ==
  /\ at[p] = "mark"
  /\ high_water' = IF depth[p] > high_water THEN depth[p] ELSE high_water
  /\ at' = [at EXCEPT ![p] = "idle"]
  /\ UNCHANGED <<buffer, open, queued, dropped, depth, holds>>

--------------------------------------------------------------------------------
(* receive(), tryReceive() and close()                                     *)

(* Buffered items are still handed out after close(); an empty queue makes *)
(* receive() wait or fail and tryReceive() return null.                    *)
Get(r) ==
  /\ r \notin holds /\ buffer # <<>>
  /\ buffer' = Tail(buffer)
  /\ holds' = holds \cup {r}
  /\ UNCHANGED <<open, queued, high_water, dropped, at, depth>>

Release(r) ==
  /\ r \in holds
  /\ queued' = queued - 1
  /\ holds' = holds \ {r}
  /\ UNCHANGED <<buffer, open, high_water, dropped, at, depth>>

Close ==
  /\ open /\ open' = FALSE
  /\ UNCHANGED <<buffer, queued, high_water, dropped, at, depth, holds>>

Next ==
  \/ \E p \in Publishers :
       \/ Load(p) \/ CompareFails(p) \/ Reserve(p) \/ Put(p) \/ PutRefused(p)
       \/ Rollback(p) \/ CountDrop(p) \/ Mark(p)
  \/ \E r \in Receivers : Get(r) \/ Release(r)
  \/ Close

Spec == Init /\ [][Next]_vars

--------------------------------------------------------------------------------
(* Properties                                                              *)

(* Counters stay natural numbers below the capacity: in particular release *)
(* never takes the depth below zero, as its assertion demands.             *)
TypeOK ==
  /\ buffer \in Seq(Publishers) /\ open \in BOOLEAN
  /\ queued \in 0 .. Capacity /\ high_water \in 0 .. Capacity
  /\ dropped \in Nat
  /\ at \in [Publishers -> Steps] /\ depth \in [Publishers -> 0 .. Capacity]
  /\ holds \subseteq Receivers

Reserving == {p \in Publishers : at[p] \in {"put", "rollback"}}

(* Depth is neither lost nor invented by any interleaving of failed and    *)
(* successful publications and receptions: it is what is buffered, what is *)
(* about to be put or rolled back, and what receivers have yet to release. *)
(* A lost unit would shrink the queue for good.                            *)
DepthAccounted == queued = Len(buffer) + Cardinality(Reserving) + Cardinality(holds)

(* A reservation is worth a place: a publisher that got one finds room at  *)
(* its put(), and is refused only by a closed queue or when its task is    *)
(* canceled.                                                               *)
ReservedFits == \A p \in Publishers : at[p] = "put" => Len(buffer) < Capacity

================================================================================
