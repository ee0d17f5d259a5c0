----------------------------- MODULE ServiceProofs -----------------------------
(***************************************************************************)
(* The safety of the runtime's service: sessions and the actors that       *)
(* borrow them, the changes a client was not told of, and the checkpoint,  *)
(* for any number of client slots, workspaces, queue places and requests.  *)
(***************************************************************************)
EXTENDS RuntimeService, FiniteSetTheorems, WellFoundedInduction, TLAPS

--------------------------------------------------------------------------------
(* The checkpoint                                                          *)

PendingWrite == [snapshot : {"none", "current", "stale"}, worker : {"none", "running", "renamed", "failed"}]

CheckpointTypeOK ==
  /\ k_dirty \in BOOLEAN /\ k_skipped \in BOOLEAN /\ k_file \in {"current", "stale"}
  /\ k_pending \in PendingWrite
  /\ k_final \in {"none", "written", "failed"}
  /\ r_phase \in {"running", "returned", "cancelled", "written", "released"}

(* A snapshot put in place and still current is the file; a change makes   *)
(* what is on its way and what is in place stale together.                 *)
PendingCoherent ==
  /\ (k_pending.snapshot = "none" <=> k_pending.worker = "none")
  /\ k_pending.worker = "renamed" /\ k_pending.snapshot = "current" => k_file = "current"
  /\ k_pending.snapshot = "stale" => k_file = "stale"

(* No write is pending once the actors are joined, and the last write      *)
(* comes after.                                                            *)
PhasesOrdered ==
  /\ r_phase \in {"running", "returned", "cancelled"} => k_final = "none"
  /\ r_phase \in {"cancelled", "written", "released"} => k_pending = NoWrite

CheckpointInv == ChangePersisted /\ CheckpointTypeOK /\ PendingCoherent /\ PhasesOrdered

(* No write pending is the record without a snapshot or a worker. *)
LEMMA NoWriteRecord ==
  ASSUME CheckpointInv
  PROVE  k_pending = NoWrite <=> k_pending.worker = "none"
  BY DEF CheckpointInv, CheckpointTypeOK, PendingCoherent, PendingWrite, NoWrite

(* Every step of the runtime keeps what the checkpoint owes. *)
LEMMA CheckpointStep == CheckpointInv /\ [ServiceNext]_serviceVars => CheckpointInv'
  <1> SUFFICES ASSUME CheckpointInv, [ServiceNext]_serviceVars PROVE CheckpointInv'
    OBVIOUS
  <1> USE NoWriteRecord DEF CheckpointInv, ChangePersisted, CheckpointTypeOK, PendingCoherent, PhasesOrdered, PendingWrite
  <1>1. CASE NoteChange /\ r_phase = "running" /\ r_phase' \in {"running", "returned"}
    BY <1>1 DEF NoteChange, NoWrite
  <1>2. CASE UNCHANGED checkpointVars /\ r_phase = "running" /\ r_phase' \in {"running", "returned"}
    BY <1>2 DEF checkpointVars
  <1>3. CASE OnTick
    <2>1. k_dirty /\ UNCHANGED <<k_file, k_final, r_phase>> /\ r_phase = "running" /\ k_dirty' = FALSE
      BY <1>3 DEF OnTick, StartWrite
    <2>2. CASE k_pending' = [snapshot |-> "current", worker |-> "running"] /\ UNCHANGED k_skipped
      BY <2>1, <2>2
    <2>3. CASE k_skipped' = TRUE /\ UNCHANGED k_pending
      BY <2>1, <2>3
    <2> QED
      BY <1>3, <2>2, <2>3 DEF OnTick, StartWrite
  <1>4. CASE OnWritten
    BY <1>4 DEF OnWritten, FinishWrite, DirtyAfter, NoWrite
  <1>5. CASE Worker
    <2>1. /\ UNCHANGED <<k_dirty, k_skipped, k_final, r_phase>> /\ k_pending.worker = "running"
          /\ r_phase \in {"running", "returned"}
      BY <1>5 DEF Worker, WorkerWrites
    <2>2. CASE k_pending' = [k_pending EXCEPT !.worker = "renamed"] /\ k_file' = k_pending.snapshot
      BY <2>1, <2>2
    <2>3. CASE k_pending' = [k_pending EXCEPT !.worker = "failed"] /\ UNCHANGED k_file
      BY <2>1, <2>3
    <2> QED
      BY <1>5, <2>2, <2>3 DEF Worker, WorkerWrites
  <1>6. CASE Cancel
    BY <1>6 DEF Cancel, JoinWrite, DiscardJoinedWrite, NoWrite
  <1>7. CASE FinalWrite
    BY <1>7 DEF FinalWrite, WriteNow
  <1>8. CASE Release
    BY <1>8 DEF Release, checkpointVars
  <1>9. CASE UNCHANGED serviceVars
    BY <1>9 DEF serviceVars, checkpointVars
  <1>10. ASSUME NEW key \in Keys, NEW m \in Requests, OnReceive(key, m) PROVE CheckpointInv'
    BY <1>1, <1>2, <1>10 DEF OnReceive, ClientEvent
  <1>11. ASSUME NEW key \in Keys, OnReceiveFails(key) \/ OnFinishSend(key) PROVE CheckpointInv'
    BY <1>2, <1>11 DEF OnReceiveFails, OnFinishSend, ClientEvent
  <1>12. ASSUME NEW key \in Keys, OnSearch(key) \/ OnDescent(key) PROVE CheckpointInv'
    BY <1>2, <1>12 DEF OnSearch, OnDescent, Quiet
  <1>13. ASSUME NEW h \in Handshakes, OnHandshake(h) \/ OnExpiry(h) PROVE CheckpointInv'
    BY <1>2, <1>13 DEF OnHandshake, OnExpiry, Quiet
  <1>14. ASSUME NEW c \in Clients, OnRecheck(c) PROVE CheckpointInv'
    BY <1>2, <1>14 DEF OnRecheck, Quiet
  <1>15. ASSUME NEW w \in Workspaces, OnPaneExit(w) PROVE CheckpointInv'
    BY <1>1, <1>15 DEF OnPaneExit
  <1>16. CASE OnAccept
    BY <1>2, <1>16 DEF OnAccept, Quiet
  <1> QED
    BY <1>3, <1>4, <1>5, <1>6, <1>7, <1>8, <1>9, <1>10, <1>11, <1>12, <1>13, <1>14, <1>15, <1>16
    DEF ServiceNext

(* The file holds what the runtime starts from. *)
LEMMA CheckpointStart == ServiceInit => CheckpointInv
  <1> SUFFICES ASSUME ServiceInit PROVE CheckpointInv
    OBVIOUS
  <1> USE DEF ServiceInit, CheckpointInit, NoWrite
  <1>1. CheckpointTypeOK
    BY DEF CheckpointTypeOK, PendingWrite
  <1>2. PendingCoherent
    BY DEF PendingCoherent
  <1> QED
    BY <1>1, <1>2 DEF CheckpointInv, PhasesOrdered, ChangePersisted

(* A change the file does not hold is owed to it, in every reachable state *)
(* of the runtime, and the write at shutdown holds the last change or has  *)
(* failed (CheckpointWriter.zig, session_checkpoint.zig).                  *)
THEOREM ServiceChangePersisted == ServiceSpec => []ChangePersisted
  <1>1. CheckpointInv => ChangePersisted
    BY DEF CheckpointInv
  <1> QED
    BY <1>1, CheckpointStart, CheckpointStep, PTL DEF ServiceSpec

--------------------------------------------------------------------------------
(* Sessions: what the operators of ClientConnection make of one            *)

(* LossRemembered for one session. *)
Remembers(s) == Active(s) /\ s.lost # None /\ s.lost = s.workspace => s.resync = s.lost

Sound(s) == s = None \/ (s \in Session /\ Remembers(s))

(* A session s became t, and of its actors at most the kinds in done have  *)
(* retired: the key is kept, and the session goes only with its last one.  *)
Keeps(s, t, done) ==
  IF t = None THEN s.pending \subseteq done
  ELSE t.key = s.key /\ s.pending \ done \subseteq t.pending

(* None is not a session, nor a workspace. *)
LEMMA NoneApart == None \notin Session /\ None \notin Workspaces
  BY ConnectionAssumption

(* The bounds are numbers. *)
LEMMA BoundsNat == QueueCapacity \in Nat /\ MaxKeys \in Nat /\ MaxRefusals \in Nat
  BY ConnectionAssumption

(* A set of numbers that is not empty has a least one. *)
LEMMA NatLeast ==
  ASSUME NEW T \in SUBSET Nat, T # {}
  PROVE  \E x \in T : \A y \in T : x <= y
  <1> DEFINE R == OpToRel(<, Nat)
  <1>1. PICK x \in T : \A y \in T : ~(<<y, x>> \in R)
    <2> HIDE DEF R
    <2> QED
      BY NatLessThanWellFounded, WFMin DEF R
  <1>2. \A y \in T : <<y, x>> \in R <=> y < x
    BY DEF OpToRel
  <1>3. \A y \in T : ~(y < x)
    <2> HIDE DEF R
    <2> QED
      BY <1>1, <1>2
  <1> QED
    BY <1>3

(* The least free slot is a free slot. *)
LEMMA LeastSlot ==
  ASSUME NEW S \in SUBSET Clients, Clients \ S # {}
  PROVE  Min(Clients \ S) \in Clients \ S
  <1> DEFINE T == Clients \ S
  <1>1. T \subseteq Nat /\ T # {}
    BY ConnectionAssumption
  <1>2. PICK x \in T : \A y \in T : x <= y
    BY <1>1, NatLeast
  <1> QED
    BY <1>2 DEF Min

(* finalize() removes a closing session without actors, and nothing else. *)
LEMMA FinalizedKeeps ==
  ASSUME NEW s \in Session, Remembers(s)
  PROVE  Sound(Finalized(s)) /\ Keeps(s, Finalized(s), {})
  BY NoneApart DEF Finalized, Sound, Keeps

(* drop() keeps a session as long as an actor borrows it. *)
LEMMA DroppedKeeps ==
  ASSUME NEW s \in Session
  PROVE  Sound(Dropped(s)) /\ Keeps(s, Dropped(s), {})
  <1> DEFINE t == [s EXCEPT !.closing = TRUE, !.queued = 0, !.resync = None, !.lost = None]
  <1>0. 0 \in 0 .. QueueCapacity
    BY BoundsNat
  <1>1. t \in Session /\ t.key = s.key /\ t.pending = s.pending /\ t.lost = None
    BY <1>0 DEF Session
  <1>2. Remembers(t)
    BY <1>1 DEF Remembers
  <1>3. Sound(Finalized(t)) /\ Keeps(t, Finalized(t), {})
    BY <1>1, <1>2, FinalizedKeeps
  <1>4. Dropped(s) = Finalized(t)
    BY DEF Dropped
  <1> HIDE DEF t
  <1> QED
    BY <1>1, <1>3, <1>4 DEF Keeps

(* push() queues an answer or drops the client. *)
LEMMA AnsweredKeeps ==
  ASSUME NEW s \in Session, Remembers(s)
  PROVE  Sound(Answered(s)) /\ Keeps(s, Answered(s), {})
  <1>1. CASE s.queued = QueueCapacity
    BY <1>1, DroppedKeeps DEF Answered
  <1>2. CASE s.queued # QueueCapacity
    <2> DEFINE t == [s EXCEPT !.queued = @ + 1]
    <2>1. t \in Session
      BY <1>2, BoundsNat DEF Session
    <2>2. /\ t.key = s.key /\ t.pending = s.pending /\ t.lost = s.lost /\ t.closing = s.closing
          /\ t.workspace = s.workspace /\ t.resync = s.resync
      BY DEF Session
    <2>3. Answered(s) = t
      BY <1>2 DEF Answered
    <2> HIDE DEF t
    <2> QED
      BY <2>1, <2>2, <2>3, NoneApart DEF Sound, Remembers, Keeps, Active
  <1> QED
    BY <1>1, <1>2

(* pushOrDrop() queues the notification or records what was lost. *)
LEMMA ToldKeeps ==
  ASSUME NEW s \in Session, Remembers(s), NEW w \in Workspaces
  PROVE  Sound(Told(s, w)) /\ Keeps(s, Told(s, w), {})
  <1>1. CASE s.queued < QueueCapacity
    <2> DEFINE t == [s EXCEPT !.queued = @ + 1]
    <2>1. t \in Session
      BY <1>1, BoundsNat DEF Session
    <2>2. /\ t.key = s.key /\ t.pending = s.pending /\ t.lost = s.lost /\ t.closing = s.closing
          /\ t.workspace = s.workspace /\ t.resync = s.resync
      BY DEF Session
    <2>3. Told(s, w) = t
      BY <1>1 DEF Told
    <2> HIDE DEF t
    <2> QED
      BY <2>1, <2>2, <2>3, NoneApart DEF Sound, Remembers, Keeps, Active
  <1>2. CASE ~(s.queued < QueueCapacity)
    <2> DEFINE t == [s EXCEPT !.resync = w, !.lost = w]
    <2>1. t \in Session /\ t.key = s.key /\ t.pending = s.pending /\ t.resync = t.lost
      BY DEF Session
    <2>2. Told(s, w) = t
      BY <1>2 DEF Told, ResyncOf
    <2> HIDE DEF t
    <2> QED
      BY <2>1, <2>2, NoneApart DEF Sound, Remembers, Keeps
  <1> QED
    BY <1>1, <1>2

(* commit() takes what is sent off the session and starts its write; a     *)
(* resynchronization that is sent is no longer owed.                       *)
LEMMA CommittedKeeps ==
  ASSUME NEW s \in Session, Remembers(s), Sends(s)
  PROVE  Sound(Committed(s)) /\ Keeps(s, Committed(s), {})
  <1> DEFINE sent == [s EXCEPT !.pending = @ \cup {"write"}]
  <1>1. sent \in Session /\ sent.pending = s.pending \cup {"write"}
    BY DEF Session, Kinds
  <1>2. /\ sent.key = s.key /\ sent.lost = s.lost /\ sent.closing = s.closing
        /\ sent.workspace = s.workspace /\ sent.resync = s.resync /\ sent.queued = s.queued
    BY DEF Session
  <1>3. CASE Picked(s) = "stopping"
    <2> DEFINE t == [sent EXCEPT !.stopping = FALSE]
    <2>1. t \in Session
      BY <1>1 DEF Session
    <2>2. /\ t.key = s.key /\ t.pending = sent.pending /\ t.lost = s.lost /\ t.closing = s.closing
          /\ t.workspace = s.workspace /\ t.resync = s.resync
      BY <1>1, <1>2 DEF Session
    <2>3. Committed(s) = t
      BY <1>3 DEF Committed
    <2> HIDE DEF t, sent
    <2> QED
      BY <1>1, <2>1, <2>2, <2>3, NoneApart DEF Sound, Remembers, Keeps, Active
  <1>4. CASE Picked(s) = "response"
    <2> DEFINE t == [sent EXCEPT !.queued = @ - 1]
    <2>0. s.queued > 0
      BY <1>4 DEF Picked
    <2>1. t \in Session
      <3>1. s.queued - 1 \in 0 .. QueueCapacity
        BY <2>0, BoundsNat DEF Session
      <3> HIDE DEF sent
      <3> QED
        BY <1>1, <1>2, <3>1 DEF Session
    <2>2. /\ t.key = s.key /\ t.pending = sent.pending /\ t.lost = s.lost /\ t.closing = s.closing
          /\ t.workspace = s.workspace /\ t.resync = s.resync
      BY <1>1, <1>2 DEF Session
    <2>3. Committed(s) = t
      BY <1>4 DEF Committed
    <2> HIDE DEF t, sent
    <2> QED
      BY <1>1, <2>1, <2>2, <2>3, NoneApart DEF Sound, Remembers, Keeps, Active
  <1>5. CASE Picked(s) = "resync"
    <2> DEFINE t == [sent EXCEPT !.resync = None, !.lost = IF @ = s.resync THEN None ELSE @]
    <2>1. t \in Session
      BY <1>1 DEF Session
    <2>2. /\ t.key = s.key /\ t.pending = sent.pending /\ t.closing = s.closing
          /\ t.workspace = s.workspace /\ t.lost = IF s.lost = s.resync THEN None ELSE s.lost
      BY <1>1, <1>2 DEF Session
    <2>3. Committed(s) = t
      BY <1>5 DEF Committed
    <2>4. ~s.closing
      BY DEF Sends, Active
    <2> HIDE DEF t, sent
    <2> QED
      BY <1>1, <2>1, <2>2, <2>3, <2>4, NoneApart DEF Sound, Remembers, Keeps, Active
  <1>6. Picked(s) \in {"stopping", "response", "resync"}
    BY DEF Sends, Picked
  <1> QED
    BY <1>3, <1>4, <1>5, <1>6

(* pump() keeps every actor, whatever it sends or drops. *)
LEMMA PumpedKeeps ==
  ASSUME NEW s, Sound(s), NEW refused \in BOOLEAN
  PROVE  /\ Sound(Pumped(s, refused))
         /\ s = None => Pumped(s, refused) = None
         /\ s # None => Keeps(s, Pumped(s, refused), {})
  <1>1. CASE ~Sends(s)
    BY <1>1 DEF Pumped, Keeps
  <1>2. CASE Sends(s)
    <2>1. s # None /\ s \in Session /\ Remembers(s)
      BY <1>2 DEF Sends, Active, Sound
    <2> QED
      BY <1>2, <2>1, DroppedKeeps, CommittedKeeps DEF Pumped
  <1> QED
    BY <1>1, <1>2

(* The handler of a request keeps the session's other actors. *)
LEMMA HandledKeeps ==
  ASSUME NEW s \in Session, Remembers(s), NEW m \in Requests
  PROVE  Sound(Handled(s, m)) /\ Keeps(s, Handled(s, m), {})
  <1>1. Sound(Answered(s)) /\ Keeps(s, Answered(s), {})
    BY AnsweredKeeps
  <1>2. Sound(s) /\ Keeps(s, s, {})
    BY NoneApart DEF Sound, Keeps
  <1>3. ASSUME NEW kind \in Kinds, NEW t, t = [s EXCEPT !.pending = @ \cup {kind}]
        PROVE  Sound(t) /\ Keeps(s, t, {})
    <2>1. t \in Session /\ t.pending = s.pending \cup {kind}
      BY <1>3 DEF Session
    <2>2. /\ t.key = s.key /\ t.lost = s.lost /\ t.closing = s.closing
          /\ t.workspace = s.workspace /\ t.resync = s.resync
      BY <1>3 DEF Session
    <2> QED
      BY <2>1, <2>2, NoneApart DEF Sound, Remembers, Keeps, Active
  <1>4. ASSUME NEW t, t = [s EXCEPT !.parked = TRUE]
        PROVE  Sound(t) /\ Keeps(s, t, {})
    <2>1. t \in Session /\ t.pending = s.pending
      BY <1>4 DEF Session
    <2>2. /\ t.key = s.key /\ t.lost = s.lost /\ t.closing = s.closing
          /\ t.workspace = s.workspace /\ t.resync = s.resync
      BY <1>4 DEF Session
    <2> QED
      BY <2>1, <2>2, NoneApart DEF Sound, Remembers, Keeps, Active
  <1>5. ASSUME NEW w \in Workspaces, NEW t, t = [s EXCEPT !.workspace = w, !.lost = None]
        PROVE  Sound(Answered(t)) /\ Keeps(s, Answered(t), {})
    <2>1. t \in Session /\ t.key = s.key /\ t.pending = s.pending /\ t.lost = None
      BY <1>5 DEF Session
    <2>2. Remembers(t)
      BY <2>1 DEF Remembers
    <2> QED
      BY <2>1, <2>2, AnsweredKeeps DEF Keeps
  <1>6. CASE m \in {"ask", "search", "descent", "report", "stop"}
    BY <1>1, <1>2, <1>3, <1>4, <1>6 DEF Handled, Kinds
  <1>7. CASE m \in {"view", "close"} \X Workspaces /\ m \notin {"ask", "search", "descent", "report", "stop"}
    BY <1>1, <1>5, <1>7 DEF Handled
  <1> QED
    BY <1>6, <1>7 DEF Requests

(* resumeRead() adds an actor to a session or leaves it alone. *)
LEMMA ResumedKeeps ==
  ASSUME NEW s, Sound(s)
  PROVE  Sound(Resumed(s)) /\ (s = None => Resumed(s) = None) /\ (s # None => Keeps(s, Resumed(s), {}))
  <1>1. CASE Resumed(s) = s
    BY <1>1 DEF Keeps
  <1>2. CASE s # None /\ Resumed(s) = [s EXCEPT !.pending = @ \cup {"read"}]
    <2> DEFINE t == [s EXCEPT !.pending = @ \cup {"read"}]
    <2>1. t \in Session /\ t.pending = s.pending \cup {"read"}
      BY <1>2 DEF Session, Sound, Kinds
    <2>2. /\ t.key = s.key /\ t.lost = s.lost /\ t.closing = s.closing
          /\ t.workspace = s.workspace /\ t.resync = s.resync
      BY <1>2 DEF Session, Sound
    <2>3. Resumed(s) = t
      BY <1>2
    <2> HIDE DEF t
    <2> QED
      BY <1>2, <2>1, <2>2, <2>3, NoneApart DEF Sound, Remembers, Keeps, Active
  <1> QED
    BY <1>1, <1>2 DEF Resumed

(* What a request does to another client starts and ends no actor. *)
LEMMA SeenKeeps ==
  ASSUME NEW s, Sound(s), NEW m \in Requests
  PROVE  Sound(Seen(s, m)) /\ (s = None => Seen(s, m) = None) /\ (s # None => Keeps(s, Seen(s, m), {}))
  <1>1. CASE Seen(s, m) = s
    BY <1>1 DEF Keeps
  <1>2. CASE Active(s) /\ Seen(s, m) = [s EXCEPT !.stopping = TRUE]
    <2> DEFINE t == [s EXCEPT !.stopping = TRUE]
    <2>1. t \in Session /\ t.pending = s.pending
      BY <1>2 DEF Session, Sound, Active
    <2>2. /\ t.key = s.key /\ t.lost = s.lost /\ t.closing = s.closing
          /\ t.workspace = s.workspace /\ t.resync = s.resync
      BY <1>2 DEF Session, Sound, Active
    <2>3. Seen(s, m) = t
      BY <1>2
    <2> HIDE DEF t
    <2> QED
      BY <1>2, <2>1, <2>2, <2>3, NoneApart DEF Sound, Remembers, Keeps, Active
  <1>3. ASSUME NEW w \in Workspaces, Active(s), Seen(s, m) = [s EXCEPT !.resync = w, !.lost = w]
        PROVE  Sound(Seen(s, m)) /\ s # None /\ Keeps(s, Seen(s, m), {})
    <2> DEFINE t == [s EXCEPT !.resync = w, !.lost = w]
    <2>1. t \in Session /\ t.pending = s.pending /\ t.key = s.key /\ t.lost = w /\ t.resync = w
      BY <1>3 DEF Session, Sound, Active
    <2>3. Seen(s, m) = t
      BY <1>3
    <2> HIDE DEF t
    <2> QED
      BY <1>3, <2>1, <2>3, NoneApart DEF Sound, Remembers, Keeps, Active
  <1>4. CASE Active(s) /\ m \in {"close"} \X Workspaces /\ Seen(s, m) = [s EXCEPT !.resync = m[2], !.lost = m[2]]
    <2>1. m[2] \in Workspaces
      BY <1>4
    <2> QED
      BY <1>3, <1>4, <2>1
  <1> QED
    BY <1>1, <1>2, <1>4 DEF Seen

--------------------------------------------------------------------------------
(* Sessions: the inductive invariant                                       *)

(* Keys are given out once, so no two slots hold one client. *)
KeysIssued(clients, next) ==
  /\ \A c \in Clients : clients[c] # None => clients[c].key < next
  /\ \A c, d \in Clients :
       clients[c] # None /\ clients[d] # None /\ clients[c].key = clients[d].key => c = d

(* The actors in flight are the ones the flags name, until they are joined. *)
ActorsAreFlags ==
  c_actors = IF r_phase \in {"running", "returned"} THEN Started(c_clients) ELSE {}

SessionsInv ==
  /\ c_clients \in [Clients -> Session \cup {None}]
  /\ \A c \in Clients : Sound(c_clients[c])
  /\ c_next \in 1 .. MaxKeys + 1
  /\ KeysIssued(c_clients, c_next)
  /\ ActorsAreFlags

(* The actors the flags of clients name. *)
LEMMA StartedMembers ==
  ASSUME NEW f, NEW a
  PROVE  a \in Started(f) <=> \E c \in Clients : f[c] # None /\ \E kind \in f[c].pending : a = <<kind, f[c].key>>
  BY DEF Started

(* A handler that leaves slots f, keeps the actors but for those of kinds  *)
(* done of the client key, and a flush, keep the invariant.                *)
LEMMA FlushedSessions ==
  ASSUME SessionsInv, r_phase = "running", r_phase' \in {"running", "returned"},
         NEW f, \A c \in Clients : Sound(f[c]),
         NEW key, NEW done,
         \A c \in Clients : c_clients[c] # None =>
           Keeps(c_clients[c], f[c], IF c_clients[c].key = key THEN done ELSE {}),
         c_next' \in 1 .. MaxKeys + 1, KeysIssued(f, c_next'),
         Flushed(f), ActorsAfter({<<kind, key>> : kind \in done})
  PROVE  SessionsInv'
  <1> DEFINE D == {<<kind, key>> : kind \in done}
  <1>1. PICK refused : c_clients' = [c \in Clients |-> Pumped(f[c], c \in refused)]
    BY DEF Flushed
  <1>2. ASSUME NEW c \in Clients
        PROVE  /\ c_clients'[c] = Pumped(f[c], c \in refused)
               /\ Sound(c_clients'[c])
               /\ f[c] = None => c_clients'[c] = None
               /\ f[c] # None => Keeps(f[c], c_clients'[c], {})
    <2>1. c_clients'[c] = Pumped(f[c], c \in refused)
      BY <1>1
    <2>2. (c \in refused) \in BOOLEAN
      OBVIOUS
    <2> QED
      BY <2>1, <2>2, PumpedKeeps
  <1>3. c_clients' \in [Clients -> Session \cup {None}]
    <2>1. \A c \in Clients : Pumped(f[c], c \in refused) \in Session \cup {None}
      BY <1>2 DEF Sound
    <2> QED
      BY <1>1, <2>1
  <1>4. \A c \in Clients : c_clients'[c] # None => f[c] # None /\ c_clients'[c].key = f[c].key
    BY <1>2 DEF Keeps
  <1>5. KeysIssued(c_clients', c_next')
    BY <1>4 DEF KeysIssued
  <1>6. Started(c_clients) \ D \subseteq Started(c_clients')
    <2> SUFFICES ASSUME NEW a \in Started(c_clients), a \notin D PROVE a \in Started(c_clients')
      OBVIOUS
    <2>0. PICK c \in Clients : c_clients[c] # None /\ \E kind \in c_clients[c].pending : a = <<kind, c_clients[c].key>>
      BY StartedMembers
    <2>1. PICK kind \in c_clients[c].pending : c_clients[c] # None /\ a = <<kind, c_clients[c].key>>
      BY <2>0
    <2>2. ~(c_clients[c].key = key /\ kind \in done)
      BY <2>1
    <2>3. f[c] # None /\ f[c].key = c_clients[c].key /\ kind \in f[c].pending
      BY <2>1, <2>2 DEF Keeps
    <2>4. c_clients'[c] # None /\ c_clients'[c].key = f[c].key /\ kind \in c_clients'[c].pending
      BY <2>3, <1>2 DEF Keeps
    <2> QED
      BY <2>1, <2>3, <2>4, StartedMembers
  <1>7. c_actors = Started(c_clients)
    BY DEF SessionsInv, ActorsAreFlags
  <1>8. c_actors' = Started(c_clients')
    BY <1>6, <1>7 DEF ActorsAfter
  <1> QED
    BY <1>2, <1>3, <1>5, <1>8 DEF SessionsInv, ActorsAreFlags

(* The same when the handler fills no slot. *)
LEMMA HandledSessions ==
  ASSUME SessionsInv, r_phase = "running", r_phase' \in {"running", "returned"},
         NEW f, \A c \in Clients : Sound(f[c]),
         NEW key, NEW done,
         \A c \in Clients : c_clients[c] # None =>
           Keeps(c_clients[c], f[c], IF c_clients[c].key = key THEN done ELSE {}),
         \A c \in Clients : c_clients[c] = None => f[c] = None,
         c_next' = c_next,
         Flushed(f), ActorsAfter({<<kind, key>> : kind \in done})
  PROVE  SessionsInv'
  <1>1. \A c \in Clients : f[c] # None => c_clients[c] # None /\ f[c].key = c_clients[c].key
    BY DEF Keeps
  <1>2. KeysIssued(f, c_next')
    BY <1>1 DEF SessionsInv, KeysIssued
  <1>3. c_next' \in 1 .. MaxKeys + 1
    BY DEF SessionsInv
  <1> QED
    BY <1>2, <1>3, FlushedSessions

(* A handler that touches one client, whose actor of the kind has ended. *)
LEMMA ActorEnded ==
  ASSUME SessionsInv, r_phase = "running", r_phase' \in {"running", "returned"},
         NEW key, NEW kind \in Kinds, NEW c \in Resolve(c_clients, key),
         NEW t, Sound(t), Keeps([c_clients[c] EXCEPT !.pending = @ \ {kind}], t, {}),
         c_next' = c_next,
         Flushed([c_clients EXCEPT ![c] = t]), ActorsAfter({<<kind, key>>})
  PROVE  SessionsInv'
  <1> DEFINE f == [c_clients EXCEPT ![c] = t]
  <1>1. c \in Clients /\ c_clients[c] # None /\ c_clients[c].key = key /\ c_clients[c] \in Session
    BY DEF Resolve, SessionsInv
  <1>2. f[c] = t /\ \A d \in Clients : d # c => f[d] = c_clients[d]
    BY <1>1 DEF SessionsInv
  <1>3. [c_clients[c] EXCEPT !.pending = @ \ {kind}].pending = c_clients[c].pending \ {kind}
    BY <1>1 DEF Session
  <1>4. [c_clients[c] EXCEPT !.pending = @ \ {kind}].key = c_clients[c].key
    BY <1>1 DEF Session
  <1>5. Keeps(c_clients[c], t, {kind})
    BY <1>3, <1>4 DEF Keeps
  <1>6. \A d \in Clients : Sound(f[d])
    BY <1>2 DEF SessionsInv
  <1>7. \A d \in Clients : c_clients[d] # None =>
          Keeps(c_clients[d], f[d], IF c_clients[d].key = key THEN {kind} ELSE {})
    BY <1>1, <1>2, <1>5 DEF Keeps
  <1>8. \A d \in Clients : c_clients[d] = None => f[d] = None
    BY <1>1, <1>2
  <1>9. {<<k, key>> : k \in {kind}} = {<<kind, key>>}
    OBVIOUS
  <1> HIDE DEF f
  <1>10. Flushed(f) /\ ActorsAfter({<<k, key>> : k \in {kind}})
    BY <1>9 DEF f
  <1> QED
    BY <1>6, <1>7, <1>8, <1>10, HandledSessions

(* A session one of whose actors has retired is a session like any other. *)
LEMMA RetiredSession ==
  ASSUME SessionsInv, NEW key, NEW c \in Resolve(c_clients, key), NEW kind \in Kinds
  PROVE  LET s == [c_clients[c] EXCEPT !.pending = @ \ {kind}]
         IN s \in Session /\ Remembers(s)
  <1> DEFINE s == [c_clients[c] EXCEPT !.pending = @ \ {kind}]
  <1>1. c_clients[c] \in Session /\ Remembers(c_clients[c])
    BY DEF Resolve, SessionsInv, Sound
  <1>2. s \in Session
    BY <1>1 DEF Session
  <1>3. /\ s.lost = c_clients[c].lost /\ s.closing = c_clients[c].closing
        /\ s.workspace = c_clients[c].workspace /\ s.resync = c_clients[c].resync
    BY <1>1 DEF Session
  <1> HIDE DEF s
  <1>4. Remembers(s)
    BY <1>1, <1>2, <1>3, NoneApart DEF Remembers, Active
  <1> QED
    BY <1>2, <1>4 DEF s

(* Events that change no session but by the flush. *)
LEMMA FlushOnly ==
  ASSUME SessionsInv, r_phase = "running", r_phase' \in {"running", "returned"},
         c_next' = c_next, Flushed(c_clients), ActorsAfter({})
  PROVE  SessionsInv'
  <1>1. {<<kind, 0>> : kind \in {}} = {}
    OBVIOUS
  <1>2. \A c \in Clients : Sound(c_clients[c]) /\ (c_clients[c] # None =>
          Keeps(c_clients[c], c_clients[c], IF c_clients[c].key = 0 THEN {} ELSE {}))
    BY DEF SessionsInv, Keeps
  <1> QED
    BY <1>1, <1>2, HandledSessions

(* A request keeps the invariant. *)
LEMMA ReceiveKeeps ==
  ASSUME SessionsInv, r_phase = "running", r_phase' \in {"running", "returned"},
         NEW key \in Keys, NEW m \in Requests, Receive(key, m)
  PROVE  SessionsInv'
  <1>1. PICK c \in Resolve(c_clients, key) :
          LET s == [c_clients[c] EXCEPT !.pending = @ \ {"read"}]
              stopped == m = "stop" /\ ~c_stop
              handled == IF stopped THEN [s EXCEPT !.stopping = TRUE] ELSE Handled(s, m)
          IN Flushed([d \in Clients |->
                        IF d = c THEN Resumed(handled)
                        ELSE IF m = "stop" /\ ~stopped THEN c_clients[d] ELSE Seen(c_clients[d], m)])
    BY DEF Receive
  <1> DEFINE s == [c_clients[c] EXCEPT !.pending = @ \ {"read"}]
             stopped == m = "stop" /\ ~c_stop
             handled == IF stopped THEN [s EXCEPT !.stopping = TRUE] ELSE Handled(s, m)
             f == [d \in Clients |->
                     IF d = c THEN Resumed(handled)
                     ELSE IF m = "stop" /\ ~stopped THEN c_clients[d] ELSE Seen(c_clients[d], m)]
  <1>2. c \in Clients /\ c_clients[c] # None /\ c_clients[c].key = key /\ c_clients[c] \in Session
    BY DEF Resolve, SessionsInv
  <1>3. s \in Session /\ Remembers(s)
    BY RetiredSession DEF Kinds
  <1>4. s.pending = c_clients[c].pending \ {"read"} /\ s.key = key
    BY <1>2 DEF Session
  <1> HIDE DEF s
  <1>5. Sound(handled) /\ Keeps(s, handled, {})
    <2>1. CASE stopped
      <3>1. [s EXCEPT !.stopping = TRUE] \in Session
        BY <1>3 DEF Session
      <3>2. /\ [s EXCEPT !.stopping = TRUE].key = s.key /\ [s EXCEPT !.stopping = TRUE].pending = s.pending
            /\ [s EXCEPT !.stopping = TRUE].lost = s.lost /\ [s EXCEPT !.stopping = TRUE].resync = s.resync
            /\ [s EXCEPT !.stopping = TRUE].closing = s.closing
            /\ [s EXCEPT !.stopping = TRUE].workspace = s.workspace
        BY <1>3 DEF Session
      <3>3. handled = [s EXCEPT !.stopping = TRUE]
        BY <2>1
      <3> HIDE DEF handled, stopped
      <3> QED
        BY <1>3, <3>1, <3>2, <3>3, NoneApart DEF Sound, Remembers, Keeps, Active
    <2>2. CASE ~stopped
      BY <1>3, <2>2, HandledKeeps
    <2> QED
      BY <2>1, <2>2
  <1> HIDE DEF handled
  <1>6. /\ Sound(Resumed(handled))
        /\ (handled = None => Resumed(handled) = None)
        /\ (handled # None => Keeps(handled, Resumed(handled), {}))
    BY <1>5, ResumedKeeps
  <1>7. Keeps(c_clients[c], Resumed(handled), {"read"})
    <2>1. Keeps(s, Resumed(handled), {})
      BY <1>5, <1>6 DEF Keeps
    <2> QED
      BY <1>2, <1>4, <2>1 DEF Keeps
  <1> HIDE DEF stopped
  <1>8. ASSUME NEW d \in Clients, d # c
        PROVE  /\ Sound(f[d]) /\ (c_clients[d] = None => f[d] = None)
               /\ c_clients[d] # None => Keeps(c_clients[d], f[d], {})
    <2>1. Sound(c_clients[d])
      BY DEF SessionsInv
    <2>2. f[d] \in {c_clients[d], Seen(c_clients[d], m)}
      BY <1>8
    <2>3. c_clients[d] # None => Keeps(c_clients[d], c_clients[d], {})
      BY DEF Keeps
    <2> HIDE DEF f
    <2> QED
      BY <2>1, <2>2, <2>3, SeenKeeps
  <1>9. f[c] = Resumed(handled)
    BY <1>2
  <1>10. \A d \in Clients : d # c /\ c_clients[d] # None => c_clients[d].key # key
    BY <1>2 DEF SessionsInv, KeysIssued
  <1>11. Flushed(f) /\ ActorsAfter({<<k, key>> : k \in {"read"}}) /\ c_next' = c_next
    <2>1. {<<k, key>> : k \in {"read"}} = {<<"read", key>>}
      OBVIOUS
    <2> QED
      BY <1>1, <2>1 DEF Receive, f, handled, s, stopped
  <1> HIDE DEF f
  <1>12. \A d \in Clients : /\ Sound(f[d]) /\ (c_clients[d] = None => f[d] = None)
                            /\ c_clients[d] # None =>
                                 Keeps(c_clients[d], f[d], IF c_clients[d].key = key THEN {"read"} ELSE {})
    BY <1>2, <1>6, <1>7, <1>8, <1>9, <1>10
  <1> QED
    BY <1>11, <1>12, HandledSessions

(* The ends of a read, a write, a search wake and a walk keep it. *)
LEMMA EndsKeep ==
  ASSUME SessionsInv, r_phase = "running", r_phase' \in {"running", "returned"}, NEW key \in Keys,
         ReceiveFails(key) \/ FinishSend(key) \/ AdvanceSearch(key) \/ FinishDescent(key)
  PROVE  SessionsInv'
  <1> USE DEF Kinds
  <1>1. CASE ReceiveFails(key)
    <2>1. PICK c \in Resolve(c_clients, key) :
            LET s == [c_clients[c] EXCEPT !.pending = @ \ {"read"}]
            IN Flushed([c_clients EXCEPT ![c] = Dropped(s)])
      BY <1>1 DEF ReceiveFails
    <2> QED
      BY <1>1, <2>1, RetiredSession, DroppedKeeps, ActorEnded DEF ReceiveFails
  <1>2. CASE FinishSend(key)
    <2>1. PICK c \in Resolve(c_clients, key), failed \in BOOLEAN :
            LET s == [c_clients[c] EXCEPT !.pending = @ \ {"write"}]
            IN Flushed([c_clients EXCEPT ![c] =
                          IF s.closing THEN Finalized(s) ELSE IF failed THEN Dropped(s) ELSE s])
      BY <1>2 DEF FinishSend
    <2> DEFINE s == [c_clients[c] EXCEPT !.pending = @ \ {"write"}]
               t == IF s.closing THEN Finalized(s) ELSE IF failed THEN Dropped(s) ELSE s
    <2>2. s \in Session /\ Remembers(s)
      BY RetiredSession
    <2>3. Flushed([c_clients EXCEPT ![c] = t]) /\ ActorsAfter({<<"write", key>>}) /\ c_next' = c_next
      BY <1>2, <2>1 DEF FinishSend
    <2>4. Sound(t) /\ Keeps(s, t, {})
      <3> HIDE DEF s
      <3>1. Sound(s) /\ Keeps(s, s, {})
        BY <2>2, NoneApart DEF Sound, Keeps
      <3> QED
        BY <2>2, <3>1, FinalizedKeeps, DroppedKeeps
    <2> HIDE DEF t
    <2> QED
      BY <2>3, <2>4, ActorEnded
  <1>3. CASE AdvanceSearch(key)
    <2>1. PICK c \in Resolve(c_clients, key), complete \in BOOLEAN :
            LET s == [c_clients[c] EXCEPT !.pending = @ \ {"search"}]
            IN Flushed([c_clients EXCEPT ![c] =
                          IF s.closing THEN Woken(s)
                          ELSE IF complete THEN Answered(s) ELSE c_clients[c]])
      BY <1>3 DEF AdvanceSearch
    <2> DEFINE s == [c_clients[c] EXCEPT !.pending = @ \ {"search"}]
               t == IF s.closing THEN Woken(s) ELSE IF complete THEN Answered(s) ELSE c_clients[c]
    <2>2. s \in Session /\ Remembers(s)
      BY RetiredSession
    <2>3. Flushed([c_clients EXCEPT ![c] = t]) /\ ActorsAfter({<<"search", key>>}) /\ c_next' = c_next
      BY <1>3, <2>1 DEF AdvanceSearch
    <2>4. Sound(t) /\ Keeps(s, t, {})
      <3>1. c_clients[c] \in Session /\ Sound(c_clients[c])
        BY DEF Resolve, SessionsInv
      <3>2. s.key = c_clients[c].key /\ s.pending \subseteq c_clients[c].pending
        BY <3>1 DEF Session
      <3> HIDE DEF s
      <3>3. Keeps(s, c_clients[c], {})
        BY <3>1, <3>2, NoneApart DEF Keeps
      <3> QED
        BY <2>2, <3>1, <3>3, FinalizedKeeps, AnsweredKeeps DEF Woken
    <2> HIDE DEF t
    <2> QED
      BY <2>3, <2>4, ActorEnded
  <1>4. CASE FinishDescent(key)
    <2>1. PICK c \in Resolve(c_clients, key) :
            LET s == [c_clients[c] EXCEPT !.pending = @ \ {"descent"}]
            IN Flushed([c_clients EXCEPT ![c] = IF s.closing THEN Woken(s) ELSE Answered(s)])
      BY <1>4 DEF FinishDescent
    <2> DEFINE s == [c_clients[c] EXCEPT !.pending = @ \ {"descent"}]
               t == IF s.closing THEN Woken(s) ELSE Answered(s)
    <2>2. s \in Session /\ Remembers(s)
      BY RetiredSession
    <2>3. Flushed([c_clients EXCEPT ![c] = t]) /\ ActorsAfter({<<"descent", key>>}) /\ c_next' = c_next
      BY <1>4, <2>1 DEF FinishDescent
    <2>4. Sound(t) /\ Keeps(s, t, {})
      <3> HIDE DEF s
      <3> QED
        BY <2>2, FinalizedKeeps, AnsweredKeeps DEF Woken
    <2> HIDE DEF t
    <2> QED
      BY <2>3, <2>4, ActorEnded
  <1> QED
    BY <1>1, <1>2, <1>3, <1>4

(* A client that joins takes an empty slot and a key not given out before. *)
LEMMA HandshakeKeeps ==
  ASSUME SessionsInv, r_phase = "running", r_phase' \in {"running", "returned"},
         NEW h \in Handshakes, FinishHandshake(h)
  PROVE  SessionsInv'
  <1>1. CASE Flushed(c_clients) /\ UNCHANGED c_next
    BY <1>1, FlushOnly DEF FinishHandshake
  <1>2. CASE /\ c_next <= MaxKeys /\ Retained # Clients
             /\ Flushed([c_clients EXCEPT ![Min(Clients \ Retained)] = NewSession(c_next)])
             /\ c_next' = c_next + 1
    <2> DEFINE c == Min(Clients \ Retained)
               f == [c_clients EXCEPT ![c] = NewSession(c_next)]
    <2>1. c \in Clients \ Retained
      BY <1>2, LeastSlot DEF Retained
    <2>2. c \in Clients /\ c_clients[c] = None
      BY <2>1 DEF Retained
    <2> HIDE DEF c
    <2>3. /\ NewSession(c_next) \in Session /\ NewSession(c_next).key = c_next
          /\ NewSession(c_next).lost = None
      <3>1. c_next \in Keys /\ 0 \in 0 .. QueueCapacity
        BY <1>2, BoundsNat DEF SessionsInv, Keys
      <3> QED
        BY <3>1 DEF NewSession, Session, Kinds
    <2>4. f[c] = NewSession(c_next) /\ \A d \in Clients : d # c => f[d] = c_clients[d]
      BY <2>2 DEF SessionsInv
    <2>5. \A d \in Clients : Sound(f[d])
      BY <2>3, <2>4 DEF SessionsInv, Sound, Remembers
    <2>6. \A d \in Clients : c_clients[d] # None =>
            Keeps(c_clients[d], f[d], IF c_clients[d].key = 0 THEN {} ELSE {})
      BY <2>2, <2>4 DEF Keeps
    <2>7. KeysIssued(f, c_next') /\ c_next' \in 1 .. MaxKeys + 1
      <3>1. c_next \in Nat /\ c_next' = c_next + 1 /\ c_next' \in 1 .. MaxKeys + 1
        BY <1>2, BoundsNat DEF SessionsInv
      <3>2. \A d \in Clients : d # c /\ f[d] # None => f[d].key < c_next /\ f[d].key \in Nat
        BY <2>4 DEF SessionsInv, KeysIssued, Session, Keys
      <3>3. \A d \in Clients : f[d] # None => f[d].key < c_next'
        BY <2>3, <2>4, <3>1, <3>2
      <3>4. \A d, e \in Clients : f[d] # None /\ f[e] # None /\ f[d].key = f[e].key => d = e
        <4> SUFFICES ASSUME NEW d \in Clients, NEW e \in Clients,
                            f[d] # None, f[e] # None, f[d].key = f[e].key
                     PROVE  d = e
          OBVIOUS
        <4>1. CASE d # c /\ e # c
          BY <4>1, <2>4 DEF SessionsInv, KeysIssued
        <4>2. CASE (d = c) # (e = c)
          BY <4>2, <2>3, <2>4, <3>1, <3>2
        <4> QED
          BY <4>1, <4>2
      <3> QED
        BY <3>1, <3>3, <3>4 DEF KeysIssued
    <2>8. Flushed(f) /\ ActorsAfter({<<kind, 0>> : kind \in {}})
      <3>1. {<<kind, 0>> : kind \in {}} = {}
        OBVIOUS
      <3> QED
        BY <1>2, <3>1 DEF FinishHandshake, c
    <2> HIDE DEF f
    <2> QED
      BY <2>5, <2>6, <2>7, <2>8, FlushedSessions
  <1> QED
    BY <1>1, <1>2 DEF FinishHandshake

(* A parked report that is answered, and a tab that is announced closed. *)
LEMMA AnnouncementsKeep ==
  ASSUME SessionsInv, r_phase = "running", r_phase' \in {"running", "returned"},
         (\E c \in Clients : AnswerParked(c)) \/ (\E w \in Workspaces : Announce(w))
  PROVE  SessionsInv'
  <1>0. {<<kind, 0>> : kind \in {}} = {}
    OBVIOUS
  <1>1. ASSUME NEW c \in Clients, AnswerParked(c) PROVE SessionsInv'
    <2> DEFINE s == [c_clients[c] EXCEPT !.parked = FALSE]
               t == Resumed(Answered(s))
               f == [c_clients EXCEPT ![c] = t]
    <2>1. c_clients[c] # None /\ c_clients[c] \in Session /\ Remembers(c_clients[c])
      BY <1>1 DEF AnswerParked, Active, SessionsInv, Sound
    <2>2. /\ s \in Session /\ s.key = c_clients[c].key /\ s.pending = c_clients[c].pending
          /\ s.lost = c_clients[c].lost /\ s.closing = c_clients[c].closing
          /\ s.workspace = c_clients[c].workspace /\ s.resync = c_clients[c].resync
      BY <2>1 DEF Session
    <2>3. Flushed(f) /\ ActorsAfter({}) /\ c_next' = c_next
      BY <1>1 DEF AnswerParked
    <2> HIDE DEF s
    <2>4. Remembers(s)
      BY <2>1, <2>2, NoneApart DEF Remembers, Active
    <2>5. Sound(Answered(s)) /\ Keeps(s, Answered(s), {})
      BY <2>2, <2>4, AnsweredKeeps
    <2>6. /\ Sound(t) /\ (Answered(s) = None => t = None)
          /\ (Answered(s) # None => Keeps(Answered(s), t, {}))
      BY <2>5, ResumedKeeps
    <2> HIDE DEF t
    <2>7. Keeps(c_clients[c], t, {})
      BY <2>2, <2>5, <2>6 DEF Keeps
    <2>8. f[c] = t /\ \A d \in Clients : d # c => f[d] = c_clients[d]
      BY DEF SessionsInv
    <2> HIDE DEF f
    <2>9. \A d \in Clients : /\ Sound(f[d]) /\ (c_clients[d] = None => f[d] = None)
                             /\ c_clients[d] # None =>
                                  Keeps(c_clients[d], f[d], IF c_clients[d].key = 0 THEN {} ELSE {})
      BY <2>1, <2>6, <2>7, <2>8 DEF SessionsInv, Keeps
    <2> QED
      BY <1>0, <2>3, <2>9, HandledSessions
  <1>2. ASSUME NEW w \in Workspaces, Announce(w) PROVE SessionsInv'
    <2> DEFINE f == [c \in Clients |-> IF Active(c_clients[c]) /\ c_clients[c].workspace = w
                                       THEN Told(c_clients[c], w) ELSE c_clients[c]]
    <2>1. Flushed(f) /\ ActorsAfter({}) /\ c_next' = c_next
      BY <1>2 DEF Announce
    <2>2. ASSUME NEW d \in Clients
          PROVE  /\ Sound(f[d]) /\ (c_clients[d] = None => f[d] = None)
                 /\ c_clients[d] # None =>
                      Keeps(c_clients[d], f[d], IF c_clients[d].key = 0 THEN {} ELSE {})
      <3>1. Sound(c_clients[d])
        BY DEF SessionsInv
      <3>2. CASE f[d] = c_clients[d]
        BY <3>1, <3>2 DEF Keeps
      <3>3. CASE Active(c_clients[d]) /\ f[d] = Told(c_clients[d], w)
        BY <3>1, <3>3, ToldKeeps DEF Active, Sound
      <3> QED
        BY <3>2, <3>3
    <2> HIDE DEF f
    <2> QED
      BY <1>0, <2>1, <2>2, HandledSessions
  <1> QED
    BY <1>1, <1>2

(* Every step of the runtime keeps the sessions and the actors' borrows. *)
LEMMA SessionsStep == SessionsInv /\ [ServiceNext]_serviceVars => SessionsInv'
  <1> SUFFICES ASSUME SessionsInv, [ServiceNext]_serviceVars PROVE SessionsInv'
    OBVIOUS
  <1>1. CASE UNCHANGED <<c_clients, c_actors, c_next>> /\ UNCHANGED r_phase
    BY <1>1 DEF SessionsInv, ActorsAreFlags
  <1>2. ASSUME NEW key \in Keys, NEW m \in Requests, OnReceive(key, m) PROVE SessionsInv'
    BY <1>2, ReceiveKeeps DEF OnReceive, ClientEvent
  <1>3. ASSUME NEW key \in Keys, OnReceiveFails(key) \/ OnFinishSend(key) PROVE SessionsInv'
    BY <1>3, EndsKeep DEF OnReceiveFails, OnFinishSend, ClientEvent
  <1>4. ASSUME NEW key \in Keys, OnSearch(key) \/ OnDescent(key) PROVE SessionsInv'
    BY <1>4, EndsKeep DEF OnSearch, OnDescent, Quiet
  <1>5. CASE OnAccept
    BY <1>5, FlushOnly DEF OnAccept, Accept, Quiet
  <1>6. ASSUME NEW h \in Handshakes, OnHandshake(h) PROVE SessionsInv'
    BY <1>6, HandshakeKeeps DEF OnHandshake, Quiet
  <1>7. ASSUME NEW h \in Handshakes, OnExpiry(h) PROVE SessionsInv'
    BY <1>7, FlushOnly DEF OnExpiry, ExpireHandshake, Quiet
  <1>8. ASSUME NEW c \in Clients, OnRecheck(c) PROVE SessionsInv'
    BY <1>8, AnnouncementsKeep DEF OnRecheck, Quiet
  <1>9. ASSUME NEW w \in Workspaces, OnPaneExit(w) PROVE SessionsInv'
    BY <1>9, AnnouncementsKeep DEF OnPaneExit
  <1>10. CASE OnTick \/ OnWritten \/ Worker
    BY <1>1, <1>10 DEF OnTick, OnWritten, Worker, connectionVars
  <1>11. CASE Cancel
    BY <1>11 DEF Cancel, SessionsInv, ActorsAreFlags
  <1>12. CASE FinalWrite
    BY <1>12 DEF FinalWrite, connectionVars, SessionsInv, ActorsAreFlags
  <1>13. CASE Release
    <2>1. /\ c_clients' = [c \in Clients |-> None] /\ r_phase = "written" /\ r_phase' = "released"
          /\ UNCHANGED <<c_actors, c_next>>
      BY <1>13 DEF Release
    <2>2. \A c \in Clients : c_clients'[c] = None
      BY <2>1
    <2>3. c_clients' \in [Clients -> Session \cup {None}]
      BY <2>1
    <2>4. \A c \in Clients : Sound(c_clients'[c])
      BY <2>2 DEF Sound
    <2>5. KeysIssued(c_clients', c_next')
      BY <2>2 DEF KeysIssued
    <2> QED
      BY <2>1, <2>3, <2>4, <2>5 DEF SessionsInv, ActorsAreFlags
  <1>14. CASE UNCHANGED serviceVars
    BY <1>1, <1>14 DEF serviceVars, connectionVars
  <1> QED
    BY <1>2, <1>3, <1>4, <1>5, <1>6, <1>7, <1>8, <1>9, <1>10, <1>11, <1>12, <1>13, <1>14
    DEF ServiceNext

(* No client is connected and nothing borrows when the runtime starts. *)
LEMMA SessionsStart == ServiceInit => SessionsInv
  <1> SUFFICES ASSUME ServiceInit PROVE SessionsInv
    OBVIOUS
  <1>1. /\ c_clients = [c \in Clients |-> None] /\ c_actors = {} /\ c_next = 1 /\ r_phase = "running"
    BY DEF ServiceInit, ConnectionInit
  <1>2. \A c \in Clients : c_clients[c] = None
    BY <1>1
  <1>3. Started(c_clients) = {}
    BY <1>2 DEF Started
  <1> QED
    BY <1>1, <1>2, <1>3, BoundsNat DEF SessionsInv, Sound, KeysIssued, ActorsAreFlags

(* An actor in flight has the session it borrows from, under its own key,  *)
(* through every handler, flush, drop, refusal and teardown: no slot is    *)
(* given to another client while a read, write, search or walk of the      *)
(* earlier one is out (client_connection.zig finalize()).                  *)
THEOREM ServiceBorrowsHeld == ServiceSpec => []BorrowsHeld
  <1>1. SessionsInv => BorrowsHeld
    <2> SUFFICES ASSUME SessionsInv, NEW a \in c_actors
                 PROVE  \E c \in Resolve(c_clients, a[2]) : a[1] \in c_clients[c].pending
      BY DEF BorrowsHeld
    <2>1. a \in Started(c_clients)
      BY DEF SessionsInv, ActorsAreFlags
    <2>2. PICK c \in Clients : c_clients[c] # None /\ \E kind \in c_clients[c].pending : a = <<kind, c_clients[c].key>>
      BY <2>1, StartedMembers
    <2> QED
      BY <2>2 DEF Resolve
  <1> QED
    BY <1>1, SessionsStart, SessionsStep, PTL DEF ServiceSpec

(* A client that missed a change of the workspace it views is owed a       *)
(* resynchronization of that workspace, however often its queue filled and *)
(* whatever it viewed before (ResponseQueue.zig pushOrDrop()).             *)
THEOREM ServiceLossRemembered == ServiceSpec => []LossRemembered
  <1>1. SessionsInv => LossRemembered
    BY DEF SessionsInv, LossRemembered, Retained, Sound, Remembers
  <1> QED
    BY <1>1, SessionsStart, SessionsStep, PTL DEF ServiceSpec

--------------------------------------------------------------------------------
(* The type invariant, and one slot for each client                        *)

(* The handshakes and the counters. *)
AdmissionTypeOK ==
  /\ c_stop \in BOOLEAN
  /\ c_hand \in [Handshakes -> {"free", "joining", "refusing"}] /\ c_expired \subseteq Handshakes
  /\ c_messages \in 0 .. MaxMessages /\ c_exits \in 0 .. MaxExits /\ c_refusals \in 0 .. MaxRefusals

(* A flush counts the writes the scheduler refused, up to the bound. *)
LEMMA FlushedCounts ==
  ASSUME NEW f, c_refusals \in 0 .. MaxRefusals, Flushed(f)
  PROVE  c_refusals' \in 0 .. MaxRefusals
  <1>1. PICK refused \in SUBSET {c \in Clients : Sends(f[c])} :
          /\ c_refusals + Cardinality(refused) <= MaxRefusals
          /\ c_refusals' = c_refusals + Cardinality(refused)
    BY DEF Flushed
  <1>2. refused \subseteq Clients /\ IsFiniteSet(Clients)
    BY ConnectionAssumption
  <1>3. IsFiniteSet(refused)
    BY <1>2, FS_Subset
  <1>4. Cardinality(refused) \in Nat
    BY <1>3, FS_CardinalityType
  <1> QED
    BY <1>1, <1>4, BoundsNat

(* Every step keeps the handshakes and the counters in their types. *)
LEMMA AdmissionStep == AdmissionTypeOK /\ [ServiceNext]_serviceVars => AdmissionTypeOK'
  <1> SUFFICES ASSUME AdmissionTypeOK, [ServiceNext]_serviceVars PROVE AdmissionTypeOK'
    OBVIOUS
  <1>0. MaxMessages \in Nat /\ MaxExits \in Nat /\ MaxRefusals \in Nat
    BY ConnectionAssumption
  <1>1. CASE UNCHANGED <<c_hand, c_expired, c_stop, c_messages, c_exits, c_refusals>>
    BY <1>1 DEF AdmissionTypeOK
  <1>2. ASSUME NEW key \in Keys, NEW m \in Requests, OnReceive(key, m) PROVE AdmissionTypeOK'
    <2>1. \E f : Flushed(f)
      BY <1>2 DEF OnReceive, Receive
    <2>2. c_refusals' \in 0 .. MaxRefusals
      BY <2>1, FlushedCounts DEF AdmissionTypeOK
    <2>3. /\ UNCHANGED <<c_hand, c_expired, c_exits>> /\ c_stop' \in BOOLEAN
          /\ c_messages < MaxMessages /\ c_messages' = c_messages + 1
      BY <1>2 DEF OnReceive, Receive
    <2> QED
      BY <1>0, <2>2, <2>3 DEF AdmissionTypeOK
  <1>3. ASSUME NEW f, Flushed(f), UNCHANGED <<c_hand, c_expired, c_stop, c_messages, c_exits>>
        PROVE  AdmissionTypeOK'
    BY <1>3, FlushedCounts DEF AdmissionTypeOK
  <1>4. ASSUME NEW key \in Keys, OnReceiveFails(key) \/ OnFinishSend(key) \/ OnSearch(key) \/ OnDescent(key)
        PROVE  AdmissionTypeOK'
    <2>1. \E f : Flushed(f)
      BY <1>4 DEF OnReceiveFails, OnFinishSend, OnSearch, OnDescent, ReceiveFails, FinishSend, AdvanceSearch, FinishDescent
    <2>2. UNCHANGED <<c_hand, c_expired, c_stop, c_messages, c_exits>>
      BY <1>4 DEF OnReceiveFails, OnFinishSend, OnSearch, OnDescent, ReceiveFails, FinishSend, AdvanceSearch, FinishDescent
    <2> QED
      BY <1>3, <2>1, <2>2
  <1>5. CASE OnAccept
    <2>1. c_refusals' \in 0 .. MaxRefusals
      BY <1>5, FlushedCounts DEF OnAccept, Accept, AdmissionTypeOK
    <2> QED
      BY <1>5, <2>1 DEF OnAccept, Accept, AdmissionTypeOK
  <1>6. ASSUME NEW h \in Handshakes, OnHandshake(h) PROVE AdmissionTypeOK'
    <2>1. c_refusals' \in 0 .. MaxRefusals
      BY <1>6, FlushedCounts DEF OnHandshake, FinishHandshake, AdmissionTypeOK
    <2> QED
      BY <1>6, <2>1 DEF OnHandshake, FinishHandshake, AdmissionTypeOK
  <1>7. ASSUME NEW h \in Handshakes, OnExpiry(h) PROVE AdmissionTypeOK'
    <2>1. c_refusals' \in 0 .. MaxRefusals
      BY <1>7, FlushedCounts DEF OnExpiry, ExpireHandshake, AdmissionTypeOK
    <2> QED
      BY <1>7, <2>1 DEF OnExpiry, ExpireHandshake, AdmissionTypeOK
  <1>8. ASSUME NEW c \in Clients, OnRecheck(c) PROVE AdmissionTypeOK'
    BY <1>3, <1>8 DEF OnRecheck, AnswerParked
  <1>9. ASSUME NEW w \in Workspaces, OnPaneExit(w) PROVE AdmissionTypeOK'
    <2>1. c_refusals' \in 0 .. MaxRefusals
      BY <1>9, FlushedCounts DEF OnPaneExit, Announce, AdmissionTypeOK
    <2> QED
      BY <1>0, <1>9, <2>1 DEF OnPaneExit, Announce, AdmissionTypeOK
  <1>10. CASE OnTick \/ OnWritten \/ Worker \/ FinalWrite \/ Cancel
    BY <1>1, <1>10 DEF OnTick, OnWritten, Worker, FinalWrite, Cancel, connectionVars
  <1>11. CASE Release
    BY <1>11 DEF Release, AdmissionTypeOK
  <1>12. CASE UNCHANGED serviceVars
    BY <1>1, <1>12 DEF serviceVars, connectionVars
  <1> QED
    BY <1>2, <1>4, <1>5, <1>6, <1>7, <1>8, <1>9, <1>10, <1>11, <1>12 DEF ServiceNext

(* Sessions, actors, handshakes and the checkpoint keep their types: no    *)
(* response queue passes its capacity and no key past the bound is used.   *)
THEOREM ServiceTypeCorrect == ServiceSpec => []ServiceTypeOK
  <1>1. ServiceInit => AdmissionTypeOK
    <2> SUFFICES ASSUME ServiceInit PROVE AdmissionTypeOK
      OBVIOUS
    <2>1. MaxMessages \in Nat /\ MaxExits \in Nat /\ MaxRefusals \in Nat
      BY ConnectionAssumption
    <2>2. c_hand \in [Handshakes -> {"free", "joining", "refusing"}]
      BY DEF ServiceInit, ConnectionInit
    <2>3. 0 \in 0 .. MaxMessages /\ 0 \in 0 .. MaxExits /\ 0 \in 0 .. MaxRefusals
      BY <2>1
    <2>4. /\ c_stop = FALSE /\ c_expired = {} /\ c_messages = 0 /\ c_exits = 0 /\ c_refusals = 0
      BY DEF ServiceInit, ConnectionInit
    <2> QED
      BY <2>2, <2>3, <2>4 DEF AdmissionTypeOK
  <1>2. SessionsInv => c_actors \subseteq Kinds \X Keys
    <2> SUFFICES ASSUME SessionsInv, NEW a \in c_actors PROVE a \in Kinds \X Keys
      OBVIOUS
    <2>1. a \in Started(c_clients)
      BY DEF SessionsInv, ActorsAreFlags
    <2>2. PICK c \in Clients : c_clients[c] # None /\ \E kind \in c_clients[c].pending : a = <<kind, c_clients[c].key>>
      BY <2>1, StartedMembers
    <2>3. c_clients[c] \in Session
      BY <2>2 DEF SessionsInv
    <2>4. c_clients[c].pending \subseteq Kinds /\ c_clients[c].key \in Keys
      BY <2>3 DEF Session
    <2> QED
      BY <2>2, <2>4
  <1>3. SessionsInv /\ CheckpointInv /\ AdmissionTypeOK => ServiceTypeOK
    BY <1>2 DEF SessionsInv, CheckpointInv, CheckpointTypeOK, AdmissionTypeOK, PendingWrite, ServiceTypeOK
  <1> QED
    BY <1>1, <1>3, AdmissionStep, SessionsStart, SessionsStep, CheckpointStart, CheckpointStep, PTL DEF ServiceSpec

================================================================================
