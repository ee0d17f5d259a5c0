--------------------------- MODULE ClientConnection ---------------------------
(***************************************************************************)
(* The runtime's client connections: client_connection.zig, the handshake  *)
(* table and the session store of client/, and what delivery/Delivery.zig  *)
(* and ResponseQueue.zig send each of them.  The runtime's loop takes one  *)
(* event at a time: its handler runs and flush() follows.  Actors (a       *)
(* handshake, a read, a write, a search wake, a descent walk) run beside   *)
(* it, borrow their session's storage and post one event each.             *)
(*                                                                         *)
(* Left to CellDelivery: the cells, titles and graphics a client is sent.  *)
(* A response is counted, not told from another.                           *)
(***************************************************************************)
EXTENDS Integers, FiniteSets, FiniteSetsExt

CONSTANTS
  Handshakes,      \* handshake slots
  Clients,         \* client slots, numbered
  Workspaces,
  QueueCapacity,   \* response_queue.capacity
  MaxKeys,         \* bound: clients that ever joined
  MaxMessages,     \* bound: requests received
  MaxExits,        \* bound: tabs whose last pane exits
  MaxRefusals,     \* bound: actors the scheduler refuses to start
  None

Keys == 1 .. MaxKeys
Kinds == {"read", "write", "search", "descent"}

(* A retained client. *)
Session ==
  [key : Keys, pending : SUBSET Kinds,    \* its actors, by its own flags
   closing : BOOLEAN, parked : BOOLEAN,
   workspace : Workspaces \cup {None}, queued : 0 .. QueueCapacity,
   resync : Workspaces \cup {None}, stopping : BOOLEAN,
   lost : Workspaces \cup {None}]         \* history: the workspace a change of which it was not told

ASSUME ConnectionAssumption ==
  /\ Clients \subseteq Nat /\ IsFiniteSet(Clients) /\ IsFiniteSet(Handshakes)
  /\ {QueueCapacity, MaxKeys, MaxMessages, MaxExits, MaxRefusals} \subseteq Nat
  /\ None \notin Workspaces \cup Session

VARIABLES
  c_hand,       \* Handshakes -> "free", "joining", "refusing"
  c_expired,    \* handshakes whose connection was shut down
  c_clients,    \* Clients -> None or a session
  c_actors,     \* <<kind, key>> of the actors of sessions in flight
  c_next,       \* Store.next_generation
  c_stop,       \* shutdown.requested
  c_messages, c_exits, c_refusals

connectionVars == <<c_hand, c_expired, c_clients, c_actors, c_next, c_stop, c_messages, c_exits, c_refusals>>

(* A client that joined is read from. *)
NewSession(key) ==
  [key |-> key, pending |-> {"read"}, closing |-> FALSE, parked |-> FALSE,
   workspace |-> None, queued |-> 0, resync |-> None, stopping |-> FALSE, lost |-> None]

ConnectionInit ==
  /\ c_hand = [h \in Handshakes |-> "free"] /\ c_expired = {}
  /\ c_clients = [c \in Clients |-> None]
  /\ c_actors = {} /\ c_next = 1 /\ c_stop = FALSE 
  /\ c_messages = 0 /\ c_exits = 0 /\ c_refusals = 0

Retained == {c \in Clients : c_clients[c] # None}
Joining == {h \in Handshakes : c_hand[h] = "joining"}
Resolve(clients, key) == {c \in Clients : clients[c] # None /\ clients[c].key = key}
Active(s) == s # None /\ ~s.closing

--------------------------------------------------------------------------------
(* Teardown. *)

(* Mutant: a search wake in flight does not keep the session. *)
FinalizedEarly(s) == IF s.closing /\ s.pending \subseteq {"search"} THEN None ELSE s

(* finalize(): a closing session goes once its actors have retired. *)
Finalized(s) == IF s.closing /\ s.pending = {} THEN None ELSE s

(* drop(): the connection is shut down, the responses are cleared. *)
Dropped(s) ==
  Finalized([s EXCEPT !.closing = TRUE, !.queued = 0, !.resync = None, !.lost = None])

(* push() of an answer that must fit, or the client is dropped. *)
Answered(s) == IF s.queued = QueueCapacity THEN Dropped(s) ELSE [s EXCEPT !.queued = @ + 1]

(* Mutant: the first workspace recorded is kept. *)
ResyncFirst(s, w) == IF s.resync = None THEN w ELSE s.resync

(* The workspace a dropped notification asks to resynchronize. *)
ResyncOf(s, w) == w

(* pushOrDrop() of tab_closed. *)
Told(s, w) ==
  IF s.queued < QueueCapacity THEN [s EXCEPT !.queued = @ + 1]
  ELSE [s EXCEPT !.resync = ResyncOf(s, w), !.lost = w]

--------------------------------------------------------------------------------
(* Delivery: prepare() picks what is sent, commit() takes it off. *)
Picked(s) ==
  CASE s.stopping -> "stopping"
    [] ~s.stopping /\ s.queued > 0 -> "response"
    [] ~s.stopping /\ s.queued = 0 /\ s.resync # None -> "resync"
    [] OTHER -> "nothing"

Sends(s) == Active(s) /\ "write" \notin s.pending /\ Picked(s) # "nothing"

Committed(s) ==
  LET sent == [s EXCEPT !.pending = @ \cup {"write"}]
  IN CASE Picked(s) = "stopping" -> [sent EXCEPT !.stopping = FALSE]
       [] Picked(s) = "response" -> [sent EXCEPT !.queued = @ - 1]
       [] Picked(s) = "resync" -> [sent EXCEPT !.resync = None,
                                               !.lost = IF @ = s.resync THEN None ELSE @]

(* pump(): a write that cannot start drops the client. *)
Pumped(s, refused) == IF ~Sends(s) THEN s ELSE IF refused THEN Dropped(s) ELSE Committed(s)

(* flush(), after the handler left clients. *)
Flushed(clients) ==
  \E refused \in SUBSET {c \in Clients : Sends(clients[c])} :
    /\ c_refusals + Cardinality(refused) <= MaxRefusals
    /\ c_refusals' = c_refusals + Cardinality(refused)
    /\ c_clients' = [c \in Clients |-> Pumped(clients[c], c \in refused)]

(* The actors in flight: those before but for the one whose event this is, *)
(* and those the handler and the flush started.                            *)
Started(clients) == UNION {{<<kind, clients[c].key>> : kind \in clients[c].pending} : c \in {d \in Clients : clients[d] # None}}
ActorsAfter(done) == c_actors' = (c_actors \ done) \cup (Started(c_clients') \ (Started(c_clients) \ done))

(* shutdownDelivered(): no client is still to be told. *)
ShutdownDelivered(clients) ==
  c_stop' /\ \A c \in Clients : Active(clients[c]) =>
               ~clients[c].stopping /\ "write" \notin clients[c].pending

--------------------------------------------------------------------------------
(* Admission. *)

(* hasCapacityAfter(count()). *)
HasCapacityAfter == Cardinality(Retained) + Cardinality(Joining) < Cardinality(Clients)

(* accept(): a connection joins, is refused in its slot, or finds no slot. *)
Accept ==
  /\ ~c_stop
  /\ \E h \in Handshakes :
       /\ c_hand[h] = "free"
       /\ c_hand' = [c_hand EXCEPT ![h] = IF HasCapacityAfter THEN "joining" ELSE "refusing"]
  /\ Flushed(c_clients) /\ ActorsAfter({})
  /\ UNCHANGED <<c_expired, c_next, c_stop, c_messages, c_exits>>

(* finishHandshake(): the peer failed, or was refused, or joins.           *)
FinishHandshake(h) ==
  /\ c_hand[h] # "free"
  /\ c_hand' = [c_hand EXCEPT ![h] = "free"] /\ c_expired' = c_expired \ {h}
  /\ \/ Flushed(c_clients) /\ UNCHANGED c_next
     \/ /\ c_hand[h] = "joining" /\ h \notin c_expired /\ ~c_stop /\ c_next <= MaxKeys
        /\ Retained # Clients
        /\ Flushed([c_clients EXCEPT ![Min(Clients \ Retained)] = NewSession(c_next)])
        /\ c_next' = c_next + 1
  /\ ActorsAfter({})
  /\ UNCHANGED <<c_stop, c_messages, c_exits>>

(* expireHandshakes() on a maintenance tick. *)
ExpireHandshake(h) ==
  /\ c_hand[h] # "free" /\ h \notin c_expired /\ c_expired' = c_expired \cup {h}
  /\ Flushed(c_clients) /\ ActorsAfter({})
  /\ UNCHANGED <<c_hand, c_next, c_stop, c_messages, c_exits>>

--------------------------------------------------------------------------------
(* The requests a client may send, and what the session is after each. *)
Requests == {"ask", "search", "descent", "report", "stop"} \cup ({"view", "close"} \X Workspaces)

(* search: one that runs is superseded and its wake is kept; descent: one  *)
(* that runs is refused; report: parked until the pane is looked at again. *)
Handled(s, m) ==
  CASE m = "ask" -> Answered(s)
    [] m = "search" -> IF "search" \in s.pending THEN Answered(s) ELSE [s EXCEPT !.pending = @ \cup {"search"}]
    [] m = "descent" -> IF "descent" \in s.pending THEN Answered(s) ELSE [s EXCEPT !.pending = @ \cup {"descent"}]
    [] m = "report" -> [s EXCEPT !.parked = TRUE]
    [] m = "stop" -> s
    [] OTHER -> IF m[1] = "view" THEN Answered([s EXCEPT !.workspace = m[2], !.lost = None]) ELSE Answered(s)

(* resumeRead(): not while shutting down, and not while parked. *)
Resumed(s) ==
  IF s = None \/ c_stop' THEN s
  ELSE IF s.closing \/ s.parked \/ "read" \in s.pending THEN s ELSE [s EXCEPT !.pending = @ \cup {"read"}]

(* What a request does to the other clients: the observers of a workspace  *)
(* another client changed are to be resynchronized; a stop reaches all.    *)
Seen(s, m) ==
  IF ~Active(s) THEN s
  ELSE IF m = "stop" THEN [s EXCEPT !.stopping = TRUE]
  ELSE IF m \in {"close"} \X Workspaces /\ s.workspace = m[2] THEN [s EXCEPT !.resync = m[2], !.lost = m[2]]
  ELSE s

(* receive(): the read of client c ends. *)
Receive(key, m) ==
  /\ <<"read", key>> \in c_actors /\ c_messages < MaxMessages
  /\ \E c \in Resolve(c_clients, key) :
       LET s == [c_clients[c] EXCEPT !.pending = @ \ {"read"}]
       IN /\ ~s.closing
          /\ c_stop' = (c_stop \/ m = "stop")
          /\ LET stopped == m = "stop" /\ ~c_stop
                 handled == IF stopped THEN [s EXCEPT !.stopping = TRUE] ELSE Handled(s, m)
             IN Flushed([d \in Clients |->
                           IF d = c THEN Resumed(handled)
                           ELSE IF m = "stop" /\ ~stopped THEN c_clients[d] ELSE Seen(c_clients[d], m)])
  /\ c_messages' = c_messages + 1
  /\ ActorsAfter({<<"read", key>>})
  /\ UNCHANGED <<c_hand, c_expired, c_next, c_exits>>

(* The read fails, the frame is not a message, or the session was closing. *)
ReceiveFails(key) ==
  /\ <<"read", key>> \in c_actors
  /\ \E c \in Resolve(c_clients, key) :
       LET s == [c_clients[c] EXCEPT !.pending = @ \ {"read"}]
       IN Flushed([c_clients EXCEPT ![c] = Dropped(s)])
  /\ ActorsAfter({<<"read", key>>})
  /\ UNCHANGED <<c_hand, c_expired, c_next, c_stop, c_messages, c_exits>>

(* finishSend(). *)
FinishSend(key) ==
  /\ <<"write", key>> \in c_actors
  /\ \E c \in Resolve(c_clients, key), failed \in BOOLEAN :
       LET s == [c_clients[c] EXCEPT !.pending = @ \ {"write"}]
       IN Flushed([c_clients EXCEPT ![c] =
                     IF s.closing THEN Finalized(s) ELSE IF failed THEN Dropped(s) ELSE s])
  /\ ActorsAfter({<<"write", key>>})
  /\ UNCHANGED <<c_hand, c_expired, c_next, c_stop, c_messages, c_exits>>

(* Mutant: a wake of a closing client returns without finalize(). *)
WokenAndGone(s) == s

(* A worker's event finds its client closing. *)
Woken(s) == Finalized(s)

(* pane_search.advance(): a row budget later, or the answer. *)
AdvanceSearch(key) ==
  /\ <<"search", key>> \in c_actors
  /\ \E c \in Resolve(c_clients, key), complete \in BOOLEAN :
       LET s == [c_clients[c] EXCEPT !.pending = @ \ {"search"}]
       IN Flushed([c_clients EXCEPT ![c] =
                     IF s.closing THEN Woken(s)
                     ELSE IF complete THEN Answered(s) ELSE c_clients[c]])
  /\ ActorsAfter({<<"search", key>>})
  /\ UNCHANGED <<c_hand, c_expired, c_next, c_stop, c_messages, c_exits>>

(* finishDescent(). *)
FinishDescent(key) ==
  /\ <<"descent", key>> \in c_actors
  /\ \E c \in Resolve(c_clients, key) :
       LET s == [c_clients[c] EXCEPT !.pending = @ \ {"descent"}]
       IN Flushed([c_clients EXCEPT ![c] = IF s.closing THEN Woken(s) ELSE Answered(s)])
  /\ ActorsAfter({<<"descent", key>>})
  /\ UNCHANGED <<c_hand, c_expired, c_next, c_stop, c_messages, c_exits>>

(* answerParked() and expireParked(): the report is dispatched again and   *)
(* reading resumes.                                                        *)
AnswerParked(c) ==
  /\ Active(c_clients[c]) /\ c_clients[c].parked
  /\ c_stop' = c_stop
  /\ LET s == [c_clients[c] EXCEPT !.parked = FALSE]
     IN Flushed([c_clients EXCEPT ![c] = Resumed(Answered(s))])
  /\ ActorsAfter({})
  /\ UNCHANGED <<c_hand, c_expired, c_next, c_messages, c_exits>>

(* tab_removal.announce(): a tab's last pane exited, in a workspace that   *)
(* some client views (elsewhere it is a change like any other).            *)
Announce(w) ==
  /\ c_exits < MaxExits /\ c_exits' = c_exits + 1
  /\ \E c \in Retained : c_clients[c].workspace = w
  /\ Flushed([c \in Clients |-> IF Active(c_clients[c]) /\ c_clients[c].workspace = w THEN Told(c_clients[c], w)
                                ELSE c_clients[c]])
  /\ ActorsAfter({})
  /\ UNCHANGED <<c_hand, c_expired, c_next, c_stop, c_messages>>

--------------------------------------------------------------------------------
(* Every actor in flight has the session it borrows from, under its own    *)
(* key: a slot is not reused before its read, write, search and descent    *)
(* have retired (client_connection.zig:286), so no event is applied to a   *)
(* later client.                                                           *)
BorrowsHeld ==
  \A a \in c_actors : \E c \in Resolve(c_clients, a[2]) : a[1] \in c_clients[c].pending

(* A client that was not told of a change in the workspace it views is to  *)
(* be resynchronized with that workspace, whatever it viewed and lost      *)
(* before (ResponseQueue.zig:35).                                          *)
LossRemembered ==
  \A c \in Retained :
    LET s == c_clients[c]
    IN Active(s) /\ s.lost # None /\ s.lost = s.workspace => s.resync = s.lost

================================================================================
