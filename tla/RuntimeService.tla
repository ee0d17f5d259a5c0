---------------------------- MODULE RuntimeService ----------------------------
(***************************************************************************)
(* Runtime.zig: the loop that gives every event to its handler and then    *)
(* flushes the clients, until a stop has been delivered; and deinit(),     *)
(* which unblocks and joins the actors before it writes the checkpoint and *)
(* releases what they borrowed.                                            *)
(***************************************************************************)
EXTENDS ClientConnection, SessionCheckpoint

VARIABLE r_phase        \* "running", "returned", "cancelled", "written", "released"

serviceVars == <<connectionVars, checkpointVars, r_phase>>

ServiceInit == ConnectionInit /\ CheckpointInit /\ r_phase = "running"

(* update(): run() returns after a client's event, and no other, once the  *)
(* stop is delivered.                                                      *)
ClientEvent == r_phase' = IF ShutdownDelivered(c_clients') THEN "returned" ELSE "running"

Changes(m) == m \in {"close"} \X Workspaces

OnReceive(key, m) ==
  /\ r_phase = "running" /\ Receive(key, m) /\ ClientEvent
  /\ IF Changes(m) THEN NoteChange ELSE UNCHANGED checkpointVars

OnReceiveFails(key) == r_phase = "running" /\ ReceiveFails(key) /\ ClientEvent /\ UNCHANGED checkpointVars
OnFinishSend(key) == r_phase = "running" /\ FinishSend(key) /\ ClientEvent /\ UNCHANGED checkpointVars

Quiet == r_phase = "running" /\ r_phase' = r_phase /\ UNCHANGED checkpointVars

OnAccept == Quiet /\ Accept
OnHandshake(h) == Quiet /\ FinishHandshake(h)
OnExpiry(h) == Quiet /\ ExpireHandshake(h)
OnSearch(key) == Quiet /\ AdvanceSearch(key)
OnDescent(key) == Quiet /\ FinishDescent(key)
OnRecheck(c) == Quiet /\ AnswerParked(c)

OnPaneExit(w) ==
  /\ r_phase = "running" /\ r_phase' = r_phase
  /\ Announce(w) /\ NoteChange

OnTick == r_phase = "running" /\ StartWrite /\ UNCHANGED <<connectionVars, r_phase>>
OnWritten == r_phase = "running" /\ FinishWrite /\ UNCHANGED <<connectionVars, r_phase>>
Worker == r_phase \in {"running", "returned"} /\ WorkerWrites /\ UNCHANGED <<connectionVars, r_phase>>

(* deinit(): shutdownAll() and loop.cancel(); the events of the joined     *)
(* actors are discarded.                                                   *)
Cancel ==
  /\ r_phase = "returned" /\ r_phase' = "cancelled"
  /\ c_actors' = {} /\ JoinWrite
  /\ UNCHANGED <<c_hand, c_expired, c_clients, c_next, c_stop, c_messages, c_exits, c_refusals>>

FinalWrite == r_phase = "cancelled" /\ r_phase' = "written" /\ WriteNow /\ UNCHANGED connectionVars

(* releaseAll(): every handshake and session, whatever its flags say. *)
Release ==
  /\ r_phase = "written" /\ r_phase' = "released"
  /\ c_hand' = [h \in Handshakes |-> "free"] /\ c_expired' = {} /\ c_clients' = [c \in Clients |-> None]
  /\ UNCHANGED <<c_actors, c_next, c_stop, c_messages, c_exits, c_refusals, checkpointVars>>

ServiceNext ==
  \/ \E key \in Keys : (\E m \in Requests : OnReceive(key, m)) \/ OnReceiveFails(key) \/ OnFinishSend(key)
  \/ \E key \in Keys : OnSearch(key) \/ OnDescent(key)
  \/ OnAccept \/ \E h \in Handshakes : OnHandshake(h) \/ OnExpiry(h)
  \/ \E c \in Clients : OnRecheck(c)
  \/ \E w \in Workspaces : OnPaneExit(w)
  \/ OnTick \/ OnWritten \/ Worker \/ Cancel \/ FinalWrite \/ Release

(* The actors of a client that end by themselves: a write when its peer    *)
(* reads or goes away, a search wake, a walk, and a read once the          *)
(* connection is shut down.                                                *)
ActorEnds(key) ==
  \/ OnFinishSend(key) \/ OnSearch(key) \/ OnDescent(key)
  \/ OnReceiveFails(key) /\ \E c \in Resolve(c_clients, key) : c_clients[c].closing

(* While a client has one in flight, one of its actors ends.  So does a    *)
(* handshake that was shut down; the maintenance tick comes, and teardown  *)
(* does not stop.                                                          *)
ServiceFairness ==
  /\ \A key \in Keys : WF_serviceVars(ActorEnds(key))
  /\ \A h \in Handshakes : WF_serviceVars(OnExpiry(h) \/ (h \in c_expired /\ OnHandshake(h)))
  /\ WF_serviceVars(Cancel \/ FinalWrite \/ Release)

ServiceSpec == ServiceInit /\ [][ServiceNext]_serviceVars /\ ServiceFairness

--------------------------------------------------------------------------------
(* Sessions, actors and the checkpoint keep their shape; no queue grows    *)
(* past its capacity and no more clients join than keys are given out.     *)
ServiceTypeOK ==
  /\ c_clients \in [Clients -> Session \cup {None}]
  /\ c_actors \subseteq Kinds \X Keys /\ c_next \in 1 .. MaxKeys + 1 /\ c_stop \in BOOLEAN
  /\ c_hand \in [Handshakes -> {"free", "joining", "refusing"}] /\ c_expired \subseteq Handshakes
  /\ c_messages \in 0 .. MaxMessages /\ c_exits \in 0 .. MaxExits /\ c_refusals \in 0 .. MaxRefusals
  /\ k_dirty \in BOOLEAN /\ k_skipped \in BOOLEAN /\ k_file \in {"current", "stale"}
  /\ k_pending \in [snapshot : {"none", "current", "stale"},
                    worker : {"none", "running", "renamed", "failed"}]
  /\ k_final \in {"none", "written", "failed"}
  /\ r_phase \in {"running", "returned", "cancelled", "written", "released"}

(* Nothing is held for ever: a dropped client is removed, a handshake with *)
(* a silent peer frees its slot, and a stop ends the runtime, although the *)
(* end is looked for after client events only (Runtime.zig:183).           *)
Settles ==
  /\ \A key \in Keys :
       (\E c \in Resolve(c_clients, key) : c_clients[c].closing) ~> (Resolve(c_clients, key) = {})
  /\ \A h \in Handshakes : (c_hand[h] # "free") ~> (c_hand[h] = "free")
  /\ c_stop ~> (r_phase = "released")

================================================================================
