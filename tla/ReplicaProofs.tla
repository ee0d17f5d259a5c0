----------------------------- MODULE ReplicaProofs -----------------------------
(***************************************************************************)
(* What a client may count on, for any number of clients and any sizes:    *)
(* patches fit (PatchesApply), a replica with nothing in flight is the     *)
(* baseline the runtime diffs against, the exit follows the last frame,    *)
(* cells that wait have a timer (OwedCellsTimed), and the baseline is also *)
(* what the client will hold once it has read all that is on its way       *)
(* (ReplicaFollows).                                                       *)
(*                                                                         *)
(* The induction is over the conversation of one client with the runtime:  *)
(* its attachment a, the answers r queued for it, the messages d on their  *)
(* way to it and u from it, and its replica k.                             *)
(***************************************************************************)
EXTENDS DeliveryProofs, WellFoundedInduction

--------------------------------------------------------------------------------
(* The conversation                                                        *)

IsFrame(m) == m.type = "frame"
IsAck(m) == m.type = "ack"
AnswersOpen(m, id) == m.type = "opened" /\ m.id = id

(* Frames and requests are numbered from 1; the outstanding frame is the   *)
(* last one, and an attachment that has none outstanding and owes no       *)
(* snapshot had one acknowledged.                                          *)
Numbers(a) ==
  a # NoAttachment =>
    /\ a.next_frame_id > 0
    /\ a.outstanding # 0 => a.outstanding + 1 = a.next_frame_id
    /\ a.outstanding = 0 /\ ~a.snapshot_pending => a.acknowledged_frame_id # 0

Requests(r, d, u, k) ==
  /\ k.next_request > 0 /\ k.awaiting < k.next_request
  /\ \A i \in 1 .. Len(r) : r[i].id > 0 /\ r[i].id < k.next_request
  /\ \A i \in 1 .. Len(d) :
       /\ d[i].type = "opened" => d[i].id > 0 /\ d[i].id < k.next_request
       /\ IsFrame(d[i]) => d[i].frame_id > 0
  /\ \A i \in 1 .. Len(u) :
       /\ u[i].type = "open" => u[i].id > 0 /\ u[i].id < k.next_request
       /\ IsAck(u[i]) => u[i].frame_id > 0

(* After the first n messages of u the runtime has no attachment. *)
LetsGo(a, u, n) ==
  \/ a = NoAttachment /\ \A i \in 1 .. n : u[i].type # "open"
  \/ \E j \in 1 .. n : u[j].type = "detach" /\ \A i \in j .. n : u[i].type # "open"

(* The client has asked to open the pane: that request is the last one.    *)
Asked(a, r, d, u, k) ==
  /\ Len(u) > 0 /\ u[Len(u)].type = "open" /\ u[Len(u)].id = k.awaiting
  /\ LetsGo(a, u, Len(u) - 1)
  /\ \A i \in 1 .. Len(u) - 1 : u[i].type = "open" => u[i].id # k.awaiting
  /\ \A i \in 1 .. Len(r) : r[i].id # k.awaiting
  /\ \A i \in 1 .. Len(d) : ~AnswersOpen(d[i], k.awaiting)

(* The frame d[i] of the attachment: numbered in order, and, when it is    *)
(* the last one and no snapshot is owed, it turns k into the baseline.     *)
FrameOK(a, d, k, i) ==
  /\ d[i].frame_id < a.next_frame_id
  /\ \A j \in 1 .. Len(d) : j > i /\ IsFrame(d[j]) => d[i].frame_id < d[j].frame_id
  /\ d[i].frame_id + 1 = a.next_frame_id /\ ~a.snapshot_pending =>
       /\ d[i].size = Len(a.acknowledged)
       /\ \A x \in 1 .. d[i].size :
            a.acknowledged[x] = IF x \in DOMAIN d[i].cells THEN d[i].cells[x] ELSE k.cells[x]

Whole(m) == m.base = 0 /\ 1 .. m.size \subseteq DOMAIN m.cells

(* The runtime has answered and the client has not read it: it waits for   *)
(* the acknowledgement of a frame, and every frame after the answer is     *)
(* whole.                                                                  *)
Answered(a, r, d, u, k) ==
  /\ Len(u) = 0
  /\ a # NoAttachment => a.snapshot_pending \/ a.outstanding # 0
  /\ \A i \in 1 .. Len(r) : r[i].id = k.awaiting => r[i].ok \/ a = NoAttachment
  /\ \A j \in 1 .. Len(d) : AnswersOpen(d[j], k.awaiting) =>
       /\ d[j].ok \/ a = NoAttachment
       /\ \A i \in 1 .. Len(d) : i > j /\ IsFrame(d[i]) =>
            Whole(d[i]) /\ (a # NoAttachment => FrameOK(a, d, k, i))

(* The client has the pane.  A patch is the first frame on its way, and    *)
(* fits.  What the client acknowledged comes before what is on its way;    *)
(* when that is the last frame, or it is acknowledged, the replica is the  *)
(* baseline.                                                               *)
Fitting(d, k) ==
  \A i \in 1 .. Len(d) : IsFrame(d[i]) =>
    \/ Whole(d[i])
    \/ /\ d[i].base # 0 /\ d[i].base = k.applied /\ d[i].size = Len(k.cells)
       /\ \A j \in 1 .. Len(d) : j < i => ~IsFrame(d[j])

Acknowledged(a, d, u, k) ==
  \A i \in 1 .. Len(u) : IsAck(u[i]) =>
    /\ u[i].frame_id < a.next_frame_id
    /\ \A j \in 1 .. Len(d) : IsFrame(d[j]) => u[i].frame_id < d[j].frame_id
    /\ u[i].frame_id + 1 = a.next_frame_id =>
         k.applied = u[i].frame_id /\ (a.snapshot_pending \/ k.cells = a.acknowledged)

Settled(a, d, k) ==
  a.outstanding = 0 /\ ~a.snapshot_pending =>
    /\ \A i \in 1 .. Len(d) : ~IsFrame(d[i])
    /\ k.applied = a.acknowledged_frame_id /\ k.cells = a.acknowledged

Follows(a, d, u, k) ==
  /\ \A i \in 1 .. Len(u) : u[i].type \in {"ack", "resize", "snapshot"}
  /\ Fitting(d, k)
  /\ a # NoAttachment =>
       /\ \A i \in 1 .. Len(d) : IsFrame(d[i]) => FrameOK(a, d, k, i)
       /\ Acknowledged(a, d, u, k)
       /\ Settled(a, d, k)

Converses(a, r, d, u, k) ==
  /\ Numbers(a) /\ Requests(r, d, u, k)
  /\ k.attached => k.awaiting = 0 /\ Follows(a, d, u, k)
  /\ ~k.attached /\ k.awaiting = 0 => k.gone \/ LetsGo(a, u, Len(u))
  /\ ~k.attached /\ k.awaiting # 0 => Asked(a, r, d, u, k) \/ Answered(a, r, d, u, k)

Conversation(c) == Converses(attachments[c], sessions[c].responses, down[c], up[c], clients[c])

--------------------------------------------------------------------------------
(* The flush                                                               *)

Owed(c) == Attached(c) /\ ~sessions[c].send_pending /\ PatchWanted(attachments[c])

(* The clients the flush has passed and owes cells have left a deadline    *)
(* for the timer, which is armed when it ends.                             *)
Timed ==
  /\ pane.sync # "on"
  /\ \A c \in Clients : Owed(c) => IF pump = 0 THEN timer ELSE c < pump => sessions[c].deadline

(* A screen that needs no rendering shows the terminal. *)
Shown == ~pane.render_pending => pane.screen = pane.terminal

(* An attachment that observed the present screen has a baseline of its    *)
(* size.                                                                   *)
Sized == \A c \in Clients : Attached(c) /\ attachments[c].observed => SameSize(attachments[c])

ReplicaInv == Shown /\ Sized /\ \A c \in Clients : Conversation(c)

--------------------------------------------------------------------------------
(* One conversation, step by step                                          *)

Answer == [id : Nat, ok : BOOLEAN]

Talks(a, r, d, u, k) ==
  /\ a \in Attachment \cup {NoAttachment} /\ r \in Seq(Answer)
  /\ d \in Seq(Downward) /\ u \in Seq(Upward) /\ k \in ClientPane
  /\ Converses(a, r, d, u, k)

(* What is left of a queue when its head is taken. *)
LEMMA Taken ==
  ASSUME NEW S, NEW s \in Seq(S), s # <<>>
  PROVE  /\ Len(s) \in Nat /\ Len(s) > 0 /\ Head(s) = s[1] /\ Head(s) \in S
         /\ Tail(s) \in Seq(S) /\ Len(Tail(s)) = Len(s) - 1
         /\ \A i \in 1 .. Len(Tail(s)) : i + 1 \in 1 .. Len(s) /\ Tail(s)[i] = s[i + 1]
  OBVIOUS

(* The requests with other messages on the way to the client. *)
LEMMA RequestsOnWay ==
  ASSUME NEW r, NEW d, NEW u, NEW k, Requests(r, d, u, k), NEW e,
         \A i \in 1 .. Len(e) : /\ e[i].type = "opened" => e[i].id > 0 /\ e[i].id < k.next_request
                                /\ IsFrame(e[i]) => e[i].frame_id > 0
  PROVE  Requests(r, e, u, k)
<1>1. /\ k.next_request > 0 /\ k.awaiting < k.next_request
      /\ \A i \in 1 .. Len(r) : r[i].id > 0 /\ r[i].id < k.next_request
  BY DEF Requests
<1>2. \A i \in 1 .. Len(u) : /\ u[i].type = "open" => u[i].id > 0 /\ u[i].id < k.next_request
                             /\ IsAck(u[i]) => u[i].frame_id > 0
  BY DEF Requests
<1> QED BY <1>1, <1>2 DEF Requests

(* What a queue is when a message is added. *)
LEMMA Added ==
  ASSUME NEW S, NEW s \in Seq(S), NEW m \in S
  PROVE  /\ Append(s, m) \in Seq(S) /\ Len(s) \in Nat /\ Len(Append(s, m)) = Len(s) + 1
         /\ Append(s, m)[Len(s) + 1] = m
         /\ \A i \in 1 .. Len(s) : Append(s, m)[i] = s[i]
  OBVIOUS

(* Whatever the runtime does to an attachment without sending a frame and  *)
(* without an acknowledgement: at most it comes to owe a snapshot.         *)
Drift(a, b) ==
  /\ b.next_frame_id = a.next_frame_id /\ b.acknowledged_frame_id = a.acknowledged_frame_id
  /\ \/ b.snapshot_pending /\ b.outstanding \in {0, a.outstanding}
     \/ /\ b.snapshot_pending = a.snapshot_pending /\ b.outstanding = a.outstanding
        /\ b.acknowledged = a.acknowledged

(* The conversation goes on after it. *)
LEMMA DriftTalks ==
  ASSUME NEW a \in Attachment, NEW b \in Attachment, NEW r, NEW d, NEW u, NEW k,
         Talks(a, r, d, u, k), Drift(a, b)
  PROVE  Talks(b, r, d, u, k)
<1> USE DEF Talks, Converses
<1>0. a # NoAttachment /\ b # NoAttachment
  BY DeliveryAssumption
<1>1. /\ b.next_frame_id = a.next_frame_id /\ b.acknowledged_frame_id = a.acknowledged_frame_id
      /\ ~b.snapshot_pending => /\ ~a.snapshot_pending /\ b.outstanding = a.outstanding
                                /\ b.acknowledged = a.acknowledged
      /\ b.outstanding # 0 => b.outstanding = a.outstanding
      /\ a.outstanding # 0 \/ a.snapshot_pending => b.outstanding # 0 \/ b.snapshot_pending
  BY DEF Drift
<1>2. Numbers(b)
  BY <1>0, <1>1 DEF Numbers
<1>3. \A i \in 1 .. Len(d) : FrameOK(a, d, k, i) => FrameOK(b, d, k, i)
  BY <1>1 DEF FrameOK
<1>4. ASSUME k.attached PROVE Follows(b, d, u, k)
  <2>1. Follows(a, d, u, k)
    BY <1>4
  <2>2. Acknowledged(b, d, u, k) /\ Settled(b, d, k)
    BY <1>0, <1>1, <2>1 DEF Follows, Acknowledged, Settled
  <2> QED BY <1>0, <1>3, <2>1, <2>2 DEF Follows
<1>5. \A n : LetsGo(a, u, n) => LetsGo(b, u, n)
  BY <1>0 DEF LetsGo
<1>6. Asked(a, r, d, u, k) => Asked(b, r, d, u, k)
  BY <1>5 DEF Asked
<1>7. Answered(a, r, d, u, k) => Answered(b, r, d, u, k)
  BY <1>0, <1>1, <1>3 DEF Answered
<1> QED BY <1>2, <1>4, <1>5, <1>6, <1>7

(* So does it when the attachment ends. *)
LEMMA LossTalks ==
  ASSUME NEW a, NEW r, NEW d, NEW u, NEW k, Talks(a, r, d, u, k)
  PROVE  Talks(NoAttachment, r, d, u, k)
<1> USE DEF Talks, Converses
<1>1. Numbers(NoAttachment)
  BY DEF Numbers
<1>2. k.attached => Follows(NoAttachment, d, u, k)
  BY DEF Follows
<1>3. \A n : LetsGo(a, u, n) => LetsGo(NoAttachment, u, n)
  BY DEF LetsGo
<1>4. Asked(a, r, d, u, k) => Asked(NoAttachment, r, d, u, k)
  BY <1>3 DEF Asked
<1>5. Answered(a, r, d, u, k) => Answered(NoAttachment, r, d, u, k)
  BY DEF Answered
<1> QED BY <1>1, <1>2, <1>3, <1>4, <1>5

(* A detach that is on its way is still, or has taken the attachment. *)
LEMMA TailLetsGo ==
  ASSUME NEW a, NEW b, NEW u \in Seq(Upward), u # <<>>, NEW n \in 1 .. Len(u), LetsGo(a, u, n),
         \/ b = NoAttachment /\ u[1].type = "detach"
         \/ u[1].type = "open"
         \/ u[1].type # "detach" /\ (a = NoAttachment => b = NoAttachment)
  PROVE  LetsGo(b, Tail(u), n - 1)
<1>1. /\ Len(u) \in Nat /\ Len(Tail(u)) = Len(u) - 1
      /\ \A i \in 1 .. Len(Tail(u)) : i + 1 \in 1 .. Len(u) /\ Tail(u)[i] = u[i + 1]
  BY Taken
<1>2. \A i \in 1 .. n - 1 : i \in 1 .. Len(Tail(u)) /\ i + 1 \in 1 .. n /\ Tail(u)[i] = u[i + 1]
  BY <1>1
<1>3. CASE a = NoAttachment /\ \A i \in 1 .. n : u[i].type # "open"
  BY <1>1, <1>2, <1>3 DEF LetsGo
<1>4. ASSUME NEW j \in 1 .. n, u[j].type = "detach", \A i \in j .. n : u[i].type # "open"
      PROVE  LetsGo(b, Tail(u), n - 1)
  <2>1. CASE j = 1
    <3>1. b = NoAttachment
      BY <1>4, <2>1
    <3>2. \A i \in 1 .. n - 1 : Tail(u)[i].type # "open"
      BY <1>2, <1>4, <2>1
    <3> QED BY <3>1, <3>2 DEF LetsGo
  <2>2. CASE j # 1
    <3>1. j - 1 \in 1 .. n - 1 /\ Tail(u)[j - 1] = u[j]
      <4>1. j - 1 \in 1 .. n - 1 /\ (j - 1) + 1 = j
        BY <1>1, <2>2
      <4> QED BY <1>2, <4>1
    <3>2. \A i \in j - 1 .. n - 1 : Tail(u)[i].type # "open"
      <4> SUFFICES ASSUME NEW i \in j - 1 .. n - 1 PROVE Tail(u)[i].type # "open"
        OBVIOUS
      <4>1. i \in 1 .. n - 1 /\ i + 1 \in j .. n
        BY <1>1, <3>1
      <4> QED BY <1>2, <1>4, <4>1
    <3> QED BY <1>4, <3>1, <3>2 DEF LetsGo
  <2> QED BY <2>1, <2>2
<1> QED BY <1>3, <1>4 DEF LetsGo

(* Every request but an open leaves the numbers and the answers alone. *)
LEMMA TailRequests ==
  ASSUME NEW r, NEW d, NEW u \in Seq(Upward), NEW k, u # <<>>, Requests(r, d, u, k)
  PROVE  Requests(r, d, Tail(u), k)
  BY Taken DEF Requests

(* The runtime takes a request that is not an open.  b is the attachment   *)
(* after it: gone after a detach, there when it was.                       *)
LEMMA TakeTalks ==
  ASSUME NEW a, NEW b, NEW r, NEW d, NEW u, NEW k, Talks(a, r, d, u, k), u # <<>>,
         b \in Attachment \cup {NoAttachment}, Numbers(b),
         \/ b = NoAttachment /\ u[1].type = "detach"
         \/ u[1].type \notin {"detach", "open"} /\ (a = NoAttachment => b = NoAttachment),
         k.attached /\ b # NoAttachment =>
           /\ a # NoAttachment
           /\ \A i \in 1 .. Len(d) : FrameOK(a, d, k, i) => FrameOK(b, d, k, i)
           /\ Acknowledged(a, d, u, k) => Acknowledged(b, d, Tail(u), k)
           /\ Follows(a, d, u, k) => Settled(b, d, k)
  PROVE  Talks(b, r, d, Tail(u), k)
<1> USE DEF Talks, Converses
<1>1. /\ Len(u) \in Nat /\ Len(u) > 0 /\ Len(Tail(u)) = Len(u) - 1 /\ Tail(u) \in Seq(Upward)
      /\ \A i \in 1 .. Len(Tail(u)) : i + 1 \in 1 .. Len(u) /\ Tail(u)[i] = u[i + 1]
  BY Taken
<1>2. Requests(r, d, Tail(u), k)
  BY TailRequests
<1>3. ASSUME NEW n \in 1 .. Len(u), LetsGo(a, u, n) PROVE LetsGo(b, Tail(u), n - 1)
  <2>1. \/ b = NoAttachment /\ u[1].type = "detach"
        \/ u[1].type # "detach" /\ (a = NoAttachment => b = NoAttachment)
    OBVIOUS
  <2> QED BY <1>3, <2>1, TailLetsGo
<1>4. ~k.attached /\ k.awaiting = 0 => k.gone \/ LetsGo(b, Tail(u), Len(Tail(u)))
  <2>1. Len(u) \in 1 .. Len(u)
    BY <1>1
  <2> QED BY <1>1, <1>3, <2>1
<1>5. ASSUME Asked(a, r, d, u, k) PROVE Asked(b, r, d, Tail(u), k)
  <2>1. Len(u) > 1
    BY <1>1, <1>5 DEF Asked
  <2>2. LetsGo(b, Tail(u), Len(Tail(u)) - 1)
    <3>1. Len(u) - 1 \in 1 .. Len(u) /\ LetsGo(a, u, Len(u) - 1)
      BY <1>1, <1>5, <2>1 DEF Asked
    <3> QED BY <1>1, <1>3, <3>1
  <2>3. Tail(u)[Len(Tail(u))] = u[Len(u)] /\ Len(Tail(u)) > 0
    BY <1>1, <2>1
  <2>4. \A i \in 1 .. Len(Tail(u)) - 1 : Tail(u)[i].type = "open" => Tail(u)[i].id # k.awaiting
    <3> SUFFICES ASSUME NEW i \in 1 .. Len(Tail(u)) - 1
                 PROVE  Tail(u)[i].type = "open" => Tail(u)[i].id # k.awaiting
      OBVIOUS
    <3>1. i + 1 \in 1 .. Len(u) - 1 /\ Tail(u)[i] = u[i + 1]
      BY <1>1
    <3> QED BY <1>5, <3>1 DEF Asked
  <2> QED BY <1>5, <2>2, <2>3, <2>4 DEF Asked
<1>6. ~Answered(a, r, d, u, k)
  BY <1>1 DEF Answered
<1>7. ASSUME k.attached PROVE Follows(b, d, Tail(u), k)
  <2>1. Follows(a, d, u, k)
    BY <1>7
  <2>2. \A i \in 1 .. Len(Tail(u)) : Tail(u)[i].type \in {"ack", "resize", "snapshot"}
    BY <1>1, <2>1 DEF Follows
  <2> QED BY <1>7, <2>1, <2>2 DEF Follows
<1> QED BY <1>1, <1>2, <1>4, <1>5, <1>6, <1>7

(* A resize, a snapshot that is asked for, and an acknowledgement of       *)
(* another frame than the outstanding one.                                 *)
LEMMA OtherTalks ==
  ASSUME NEW a, NEW r, NEW d, NEW u, NEW k, Talks(a, r, d, u, k), u # <<>>,
         u[1].type \notin {"detach", "open"}
  PROVE  Talks(a, r, d, Tail(u), k)
<1>1. Acknowledged(a, d, u, k) => Acknowledged(a, d, Tail(u), k)
  <2>1. \A i \in 1 .. Len(Tail(u)) : i + 1 \in 1 .. Len(u) /\ Tail(u)[i] = u[i + 1]
    <3>1. u \in Seq(Upward)
      BY DEF Talks
    <3> QED BY <3>1, Taken
  <2> SUFFICES ASSUME Acknowledged(a, d, u, k), NEW i \in 1 .. Len(Tail(u)), IsAck(Tail(u)[i])
               PROVE  /\ Tail(u)[i].frame_id < a.next_frame_id
                      /\ \A j \in 1 .. Len(d) : IsFrame(d[j]) => Tail(u)[i].frame_id < d[j].frame_id
                      /\ Tail(u)[i].frame_id + 1 = a.next_frame_id =>
                           k.applied = Tail(u)[i].frame_id /\ (a.snapshot_pending \/ k.cells = a.acknowledged)
    BY ONLY DEF Acknowledged
  <2>2. i + 1 \in 1 .. Len(u) /\ Tail(u)[i] = u[i + 1]
    BY ONLY <2>1
  <2>3. PICK j \in 1 .. Len(u) : Tail(u)[i] = u[j]
    BY ONLY <2>2
  <2>4. IsAck(u[j])
    BY <2>3
  <2> QED BY ONLY <2>3, <2>4, Acknowledged(a, d, u, k) DEF Acknowledged
<1>2. Follows(a, d, u, k) /\ a # NoAttachment => Settled(a, d, k)
  BY DEF Follows
<1>3. a \in Attachment \cup {NoAttachment} /\ Numbers(a)
  BY DEF Talks, Converses
<1> QED BY <1>1, <1>2, <1>3, TakeTalks

(* detach(). *)
LEMMA DetachTalks ==
  ASSUME NEW a, NEW r, NEW d, NEW u, NEW k, Talks(a, r, d, u, k), u # <<>>, u[1].type = "detach"
  PROVE  Talks(NoAttachment, r, d, Tail(u), k)
<1>1. Numbers(NoAttachment)
  BY DEF Numbers
<1> QED BY <1>1, TakeTalks

(* acknowledge() of the outstanding frame: it is the last one sent, so     *)
(* nothing is on its way and the replica is the baseline.                  *)
LEMMA AckTalks ==
  ASSUME NEW a \in Attachment, NEW b, NEW r, NEW d, NEW u, NEW k, Talks(a, r, d, u, k), u # <<>>,
         u[1].type = "ack", a.outstanding = u[1].frame_id,
         b = [a EXCEPT !.acknowledged_frame_id = u[1].frame_id, !.outstanding = 0]
  PROVE  Talks(b, r, d, Tail(u), k)
<1>0. a # NoAttachment
  BY DeliveryAssumption
<1>1. u \in Seq(Upward) /\ d \in Seq(Downward) /\ Numbers(a) /\ Requests(r, d, u, k)
  BY DEF Talks, Converses
<1>2. 1 \in 1 .. Len(u) /\ u[1] \in Upward
  BY <1>1
<1>3. u[1].frame_id \in Nat /\ u[1].frame_id > 0
  BY <1>1, <1>2 DEF Requests, IsAck, Upward
<1>4. /\ b \in Attachment /\ b.next_frame_id = a.next_frame_id /\ b.acknowledged = a.acknowledged
      /\ b.snapshot_pending = a.snapshot_pending /\ b.outstanding = 0
      /\ b.acknowledged_frame_id = u[1].frame_id
  BY <1>3 DEF Attachment
<1>5. b # NoAttachment
  BY <1>4, DeliveryAssumption
<1>6. Numbers(b)
  BY <1>0, <1>1, <1>3, <1>4, <1>5 DEF Numbers
<1>7. \A i \in 1 .. Len(d) : FrameOK(a, d, k, i) => FrameOK(b, d, k, i)
  BY <1>4 DEF FrameOK
<1>8. Acknowledged(a, d, u, k) => Acknowledged(b, d, Tail(u), k)
  BY <1>1, <1>4, Taken DEF Acknowledged
<1>9. ASSUME Follows(a, d, u, k) PROVE Settled(b, d, k)
  <2>1. a.outstanding + 1 = a.next_frame_id /\ a.next_frame_id \in Nat
    BY <1>0, <1>1, <1>3 DEF Numbers, Attachment
  <2>2. /\ k.applied = u[1].frame_id /\ (a.snapshot_pending \/ k.cells = a.acknowledged)
        /\ \A j \in 1 .. Len(d) : IsFrame(d[j]) => u[1].frame_id < d[j].frame_id
    BY <1>0, <1>2, <1>9, <2>1 DEF Follows, Acknowledged, IsAck
  <2>3. \A i \in 1 .. Len(d) : IsFrame(d[i]) => d[i].frame_id < a.next_frame_id /\ d[i].frame_id \in Nat
    BY <1>0, <1>1, <1>9, DownwardCases DEF Follows, FrameOK, IsFrame
  <2>4. \A i \in 1 .. Len(d) : ~IsFrame(d[i])
    BY <1>3, <2>1, <2>2, <2>3
  <2> QED BY <1>4, <2>2, <2>4 DEF Settled
<1> QED BY <1>0, <1>4, <1>5, <1>6, <1>7, <1>8, <1>9, TakeTalks

(* open(): it creates the attachment the client waits for, or it is one    *)
(* whose answer the client will ignore.                                    *)
LEMMA OpenTalks ==
  ASSUME NEW a, NEW b, NEW r, NEW d, NEW u, NEW k, Talks(a, r, d, u, k), u # <<>>,
         u[1].type = "open", NEW ok \in BOOLEAN,
         b \in Attachment \cup {NoAttachment}, Numbers(b),
         a = NoAttachment => b = NoAttachment \/ (ok /\ b.snapshot_pending)
  PROVE  Talks(b, Append(r, [id |-> u[1].id, ok |-> ok]), d, Tail(u), k)
<1> DEFINE m == [id |-> u[1].id, ok |-> ok]
           s == Append(r, m)
<1> USE DEF Talks, Converses
<1>1. /\ Len(u) \in Nat /\ Len(u) > 0 /\ Len(Tail(u)) = Len(u) - 1 /\ Tail(u) \in Seq(Upward)
      /\ \A i \in 1 .. Len(Tail(u)) : i + 1 \in 1 .. Len(u) /\ Tail(u)[i] = u[i + 1]
  BY Taken
<1>2. u[1] \in Upward /\ 1 \in 1 .. Len(u)
  BY <1>1
<1>3. u[1].id \in Nat /\ u[1].id > 0 /\ u[1].id < k.next_request
  <2>1. u[1].id \in Nat
    BY <1>2, UpwardCases
  <2>2. Requests(r, d, u, k)
    OBVIOUS
  <2> QED BY <1>2, <2>1, <2>2 DEF Requests
<1>4. m \in Answer /\ m.id = u[1].id /\ m.ok = ok
  BY <1>3 DEF Answer
<1> HIDE DEF m
<1>5. /\ s \in Seq(Answer) /\ Len(r) \in Nat /\ Len(s) = Len(r) + 1 /\ s[Len(r) + 1] = m
      /\ \A i \in 1 .. Len(r) : s[i] = r[i]
  BY <1>4, Added
<1> HIDE DEF s
<1>6. \A i \in 1 .. Len(s) : s[i] = m \/ (i \in 1 .. Len(r) /\ s[i] = r[i])
  BY <1>5
<1>7. Requests(s, d, Tail(u), k)
  <2>1. Requests(r, d, Tail(u), k)
    BY TailRequests
  <2>2. \A i \in 1 .. Len(s) : s[i].id > 0 /\ s[i].id < k.next_request
    BY <1>3, <1>4, <1>6 DEF Requests
  <2> QED BY <2>1, <2>2 DEF Requests
<1>8. ~k.attached /\ ~Answered(a, r, d, u, k)
  BY <1>1, <1>2 DEF Follows, Answered
<1>9. ~k.attached /\ k.awaiting = 0 => k.gone \/ LetsGo(b, Tail(u), Len(Tail(u)))
  <2>1. Len(u) \in 1 .. Len(u)
    BY <1>1
  <2> QED BY <1>1, <2>1, TailLetsGo
<1>10. ASSUME Asked(a, r, d, u, k), Len(u) > 1 PROVE Asked(b, s, d, Tail(u), k)
  <2>1. LetsGo(b, Tail(u), Len(Tail(u)) - 1)
    <3>1. Len(u) - 1 \in 1 .. Len(u) /\ LetsGo(a, u, Len(u) - 1)
      BY <1>1, <1>10 DEF Asked
    <3> QED BY <1>1, <3>1, TailLetsGo
  <2>2. Tail(u)[Len(Tail(u))] = u[Len(u)] /\ Len(Tail(u)) > 0
    BY <1>1, <1>10
  <2>3. \A i \in 1 .. Len(Tail(u)) - 1 : Tail(u)[i].type = "open" => Tail(u)[i].id # k.awaiting
    <3> SUFFICES ASSUME NEW i \in 1 .. Len(Tail(u)) - 1
                 PROVE  Tail(u)[i].type = "open" => Tail(u)[i].id # k.awaiting
      OBVIOUS
    <3>1. i + 1 \in 1 .. Len(u) - 1 /\ Tail(u)[i] = u[i + 1]
      BY <1>1
    <3> QED BY <1>10, <3>1 DEF Asked
  <2>4. m.id # k.awaiting
    <3>1. 1 \in 1 .. Len(u) - 1
      BY <1>1, <1>10
    <3> QED BY <1>4, <1>10, <3>1 DEF Asked
  <2>5. \A i \in 1 .. Len(s) : s[i].id # k.awaiting
    BY <1>6, <1>10, <2>4 DEF Asked
  <2> QED BY <1>10, <2>1, <2>2, <2>3, <2>5 DEF Asked
<1>11. ASSUME Asked(a, r, d, u, k), Len(u) = 1 PROVE Answered(b, s, d, Tail(u), k)
  <2>1. a = NoAttachment
    BY <1>1, <1>11 DEF Asked, LetsGo
  <2>2. Len(Tail(u)) = 0
    BY <1>1, <1>11
  <2>3. \A i \in 1 .. Len(s) : s[i].id = k.awaiting => s[i].ok \/ b = NoAttachment
    BY <1>4, <1>6, <1>11, <2>1 DEF Asked
  <2> QED BY <1>11, <2>1, <2>2, <2>3 DEF Asked, Answered
<1>12. Talks(b, s, d, Tail(u), k)
  BY <1>1, <1>5, <1>7, <1>8, <1>9, <1>10, <1>11
<1> QED BY <1>12 DEF s, m

(* A frame is sent: a whole one, or a patch of the settled baseline. *)
LEMMA FrameTalks ==
  ASSUME NEW a \in Attachment, NEW b \in Attachment, NEW r, NEW d, NEW u, NEW k,
         Talks(a, r, d, u, k), NEW m \in Downward, IsFrame(m),
         m.frame_id = a.next_frame_id, m.size = Len(b.acknowledged),
         b.next_frame_id = a.next_frame_id + 1, b.outstanding = a.next_frame_id,
         ~b.snapshot_pending,
         \/ Whole(m) /\ \A x \in 1 .. m.size : b.acknowledged[x] = m.cells[x]
         \/ /\ a.outstanding = 0 /\ ~a.snapshot_pending /\ m.base = a.acknowledged_frame_id
            /\ Len(a.acknowledged) = m.size
            /\ \A x \in 1 .. m.size :
                 b.acknowledged[x] = IF x \in DOMAIN m.cells THEN m.cells[x] ELSE a.acknowledged[x]
  PROVE  Talks(b, r, Append(d, m), u, k)
<1> DEFINE e == Append(d, m)
<1>0. a # NoAttachment /\ b # NoAttachment
  BY DeliveryAssumption
<1>1. /\ d \in Seq(Downward) /\ u \in Seq(Upward) /\ r \in Seq(Answer) /\ k \in ClientPane
      /\ Numbers(a) /\ Requests(r, d, u, k)
  BY DEF Talks, Converses
<1>2. /\ e \in Seq(Downward) /\ Len(d) \in Nat /\ Len(e) = Len(d) + 1 /\ e[Len(d) + 1] = m
      /\ \A i \in 1 .. Len(d) : e[i] = d[i]
  BY <1>1, Added
<1> HIDE DEF e
<1>3. \A i \in 1 .. Len(e) : (i = Len(d) + 1 /\ e[i] = m) \/ (i \in 1 .. Len(d) /\ e[i] = d[i])
  BY <1>2
<1>4. a.next_frame_id \in Nat /\ a.next_frame_id > 0
  BY <1>0, <1>1 DEF Numbers, Attachment
<1>5. Numbers(b)
  BY <1>4 DEF Numbers
<1>6. Requests(r, e, u, k)
  <2>1. \A i \in 1 .. Len(e) : /\ e[i].type = "opened" => e[i].id > 0 /\ e[i].id < k.next_request
                               /\ IsFrame(e[i]) => e[i].frame_id > 0
    BY <1>1, <1>3, <1>4 DEF Requests, IsFrame
  <2> QED BY <1>1, <2>1 DEF Requests
<1>7. \A n : LetsGo(a, u, n) => LetsGo(b, u, n)
  BY <1>0 DEF LetsGo
<1>8. ASSUME Asked(a, r, d, u, k) PROVE Asked(b, r, e, u, k)
  <2>1. \A i \in 1 .. Len(e) : ~AnswersOpen(e[i], k.awaiting)
    BY <1>3, <1>8 DEF Asked, AnswersOpen, IsFrame
  <2> QED BY <1>7, <1>8, <2>1 DEF Asked
<1>9. ASSUME NEW i \in 1 .. Len(d), IsFrame(d[i]), FrameOK(a, d, k, i) PROVE FrameOK(b, e, k, i)
  <2>1. e[i] = d[i] /\ d[i].frame_id \in Nat /\ d[i].frame_id < a.next_frame_id
    BY <1>1, <1>2, <1>9, DownwardCases DEF FrameOK, IsFrame
  <2>2. \A j \in 1 .. Len(e) : j > i /\ IsFrame(e[j]) => e[i].frame_id < e[j].frame_id
    BY <1>3, <1>9, <2>1 DEF FrameOK
  <2> QED BY <1>4, <2>1, <2>2 DEF FrameOK
<1>10. ASSUME \A x \in 1 .. m.size :
               b.acknowledged[x] = IF x \in DOMAIN m.cells THEN m.cells[x] ELSE k.cells[x]
       PROVE  FrameOK(b, e, k, Len(d) + 1)
  <2>1. \A j \in 1 .. Len(e) : ~(j > Len(d) + 1)
    BY <1>2
  <2> QED BY <1>2, <1>4, <1>10, <2>1 DEF FrameOK
<1>11. ASSUME Answered(a, r, d, u, k) PROVE Answered(b, r, e, u, k)
  <2>1. a.snapshot_pending \/ a.outstanding # 0
    BY <1>0, <1>11 DEF Answered
  <2>2. Whole(m) /\ \A x \in 1 .. m.size : b.acknowledged[x] = m.cells[x]
    BY <2>1
  <2>3. FrameOK(b, e, k, Len(d) + 1)
    BY <1>10, <2>2 DEF Whole
  <2>4. b.outstanding # 0
    BY <1>4
  <2>5. ASSUME NEW j \in 1 .. Len(e), AnswersOpen(e[j], k.awaiting)
        PROVE  /\ e[j].ok \/ b = NoAttachment
               /\ \A i \in 1 .. Len(e) : i > j /\ IsFrame(e[i]) =>
                    Whole(e[i]) /\ FrameOK(b, e, k, i)
    <3>1. j \in 1 .. Len(d) /\ e[j] = d[j] /\ AnswersOpen(d[j], k.awaiting)
      BY <1>3, <2>5 DEF AnswersOpen, IsFrame
    <3>2. d[j].ok
      BY <1>0, <1>11, <3>1 DEF Answered
    <3>3. ASSUME NEW i \in 1 .. Len(e), i > j, IsFrame(e[i]) PROVE Whole(e[i]) /\ FrameOK(b, e, k, i)
      <4>1. CASE i = Len(d) + 1
        BY <1>2, <2>2, <2>3, <4>1
      <4>2. CASE i # Len(d) + 1
        <5>1. i \in 1 .. Len(d) /\ e[i] = d[i]
          BY <1>3, <4>2
        <5>2. Whole(d[i]) /\ FrameOK(a, d, k, i)
          BY <1>0, <1>11, <3>1, <3>3, <5>1 DEF Answered
        <5> QED BY <1>9, <3>3, <5>1, <5>2
      <4> QED BY <4>1, <4>2
    <3> QED BY <3>1, <3>2, <3>3
  <2> QED BY <1>0, <1>11, <2>4, <2>5 DEF Answered
<1>12. ASSUME k.attached PROVE k.awaiting = 0 /\ Follows(b, e, u, k)
  <2>1. k.awaiting = 0 /\ Follows(a, d, u, k)
    BY <1>12 DEF Talks, Converses
  <2>2. /\ Fitting(d, k) /\ \A i \in 1 .. Len(d) : IsFrame(d[i]) => FrameOK(a, d, k, i)
        /\ Acknowledged(a, d, u, k) /\ Settled(a, d, k)
    BY <1>0, <2>1 DEF Follows
  <2>3. \/ Whole(m) /\ FrameOK(b, e, k, Len(d) + 1)
        \/ /\ \A i \in 1 .. Len(d) : ~IsFrame(d[i])
           /\ m.base # 0 /\ m.base = k.applied /\ m.size = Len(k.cells)
           /\ FrameOK(b, e, k, Len(d) + 1)
    <3>1. CASE Whole(m) /\ \A x \in 1 .. m.size : b.acknowledged[x] = m.cells[x]
      BY <1>10, <3>1 DEF Whole
    <3>2. CASE /\ a.outstanding = 0 /\ ~a.snapshot_pending /\ m.base = a.acknowledged_frame_id
               /\ Len(a.acknowledged) = m.size
               /\ \A x \in 1 .. m.size :
                    b.acknowledged[x] = IF x \in DOMAIN m.cells THEN m.cells[x] ELSE a.acknowledged[x]
      <4>1. /\ \A i \in 1 .. Len(d) : ~IsFrame(d[i])
            /\ k.applied = a.acknowledged_frame_id /\ k.cells = a.acknowledged
        BY <2>2, <3>2 DEF Settled
      <4>2. a.acknowledged_frame_id # 0
        BY <1>0, <1>1, <3>2 DEF Numbers
      <4>3. FrameOK(b, e, k, Len(d) + 1)
        BY <1>10, <3>2, <4>1
      <4> QED BY <3>2, <4>1, <4>2, <4>3
    <3> QED BY <3>1, <3>2
  <2>4. \A i \in 1 .. Len(e) : IsFrame(e[i]) => FrameOK(b, e, k, i)
    BY <1>3, <1>9, <2>2, <2>3
  <2>5. Fitting(e, k)
    <3> SUFFICES ASSUME NEW i \in 1 .. Len(e), IsFrame(e[i]), ~Whole(e[i])
                 PROVE  /\ e[i].base # 0 /\ e[i].base = k.applied /\ e[i].size = Len(k.cells)
                        /\ \A j \in 1 .. Len(e) : j < i => ~IsFrame(e[j])
      BY DEF Fitting
    <3>1. CASE i = Len(d) + 1
      BY <1>3, <2>3, <3>1
    <3>2. CASE i # Len(d) + 1
      <4>1. i \in 1 .. Len(d) /\ e[i] = d[i]
        BY <1>3, <3>2
      <4>2. /\ d[i].base # 0 /\ d[i].base = k.applied /\ d[i].size = Len(k.cells)
            /\ \A j \in 1 .. Len(d) : j < i => ~IsFrame(d[j])
        BY <2>2, <4>1 DEF Fitting
      <4>3. \A j \in 1 .. Len(e) : j < i => j \in 1 .. Len(d)
        BY <1>2, <4>1
      <4> QED BY <1>2, <4>1, <4>2, <4>3
    <3> QED BY <3>1, <3>2
  <2>6. Acknowledged(b, e, u, k)
    <3> SUFFICES ASSUME NEW i \in 1 .. Len(u), IsAck(u[i])
                 PROVE  /\ u[i].frame_id < b.next_frame_id
                        /\ \A j \in 1 .. Len(e) : IsFrame(e[j]) => u[i].frame_id < e[j].frame_id
                        /\ u[i].frame_id + 1 # b.next_frame_id
      BY DEF Acknowledged
    <3>1. u[i].frame_id \in Nat
      BY <1>1, UpwardCases DEF IsAck
    <3>2. /\ u[i].frame_id < a.next_frame_id
          /\ \A j \in 1 .. Len(d) : IsFrame(d[j]) => u[i].frame_id < d[j].frame_id
      BY <2>2 DEF Acknowledged
    <3>3. ASSUME NEW j \in 1 .. Len(e), IsFrame(e[j]) PROVE u[i].frame_id < e[j].frame_id
      <4>1. CASE j = Len(d) + 1
        BY <1>3, <1>4, <3>1, <3>2, <4>1
      <4>2. CASE j # Len(d) + 1
        <5>1. j \in 1 .. Len(d) /\ e[j] = d[j]
          BY <1>3, <4>2
        <5> QED BY <3>2, <3>3, <5>1
      <4> QED BY <4>1, <4>2
    <3>4. u[i].frame_id < b.next_frame_id /\ u[i].frame_id + 1 # b.next_frame_id
      BY <1>4, <3>1, <3>2
    <3> QED BY <3>3, <3>4
  <2>7. Settled(b, e, k)
    BY <1>4 DEF Settled
  <2> QED BY <2>1, <2>4, <2>5, <2>6, <2>7 DEF Follows
<1>13. Talks(b, r, e, u, k)
  BY <1>1, <1>2, <1>5, <1>6, <1>7, <1>8, <1>11, <1>12 DEF Talks, Converses
<1> QED BY <1>13 DEF e

(* The exit is sent, or the first answer of the queue. *)
LEMMA PlainTalks ==
  ASSUME NEW a, NEW r, NEW s \in Seq(Answer), NEW d, NEW u, NEW k, Talks(a, r, d, u, k),
         NEW m \in Downward,
         \A i \in 1 .. Len(s) : \E j \in 1 .. Len(r) : s[i] = r[j],
         \/ m.type = "exited"
         \/ m.type = "opened" /\ \E j \in 1 .. Len(r) : m.id = r[j].id /\ m.ok = r[j].ok
  PROVE  Talks(a, s, Append(d, m), u, k)
<1> DEFINE e == Append(d, m)
<1>1. /\ d \in Seq(Downward) /\ u \in Seq(Upward) /\ r \in Seq(Answer) /\ k \in ClientPane
      /\ Numbers(a) /\ Requests(r, d, u, k) /\ a \in Attachment \cup {NoAttachment}
  BY DEF Talks, Converses
<1>2. /\ e \in Seq(Downward) /\ Len(d) \in Nat /\ Len(e) = Len(d) + 1 /\ e[Len(d) + 1] = m
      /\ \A i \in 1 .. Len(d) : e[i] = d[i]
  BY <1>1, Added
<1> HIDE DEF e
<1>3. \A i \in 1 .. Len(e) : (i = Len(d) + 1 /\ e[i] = m) \/ (i \in 1 .. Len(d) /\ e[i] = d[i])
  BY <1>2
<1>4. ~IsFrame(m)
  BY DEF IsFrame
<1>5. Requests(s, e, u, k)
  <2>1. \A i \in 1 .. Len(e) : /\ e[i].type = "opened" => e[i].id > 0 /\ e[i].id < k.next_request
                               /\ IsFrame(e[i]) => e[i].frame_id > 0
    BY <1>1, <1>3, <1>4 DEF Requests
  <2>2. \A i \in 1 .. Len(s) : s[i].id > 0 /\ s[i].id < k.next_request
    BY <1>1 DEF Requests
  <2> QED BY <1>1, <2>1, <2>2 DEF Requests
<1>6. ASSUME Asked(a, r, d, u, k) PROVE Asked(a, s, e, u, k)
  <2>1. \A i \in 1 .. Len(e) : ~AnswersOpen(e[i], k.awaiting)
    BY <1>3, <1>6 DEF Asked, AnswersOpen
  <2>2. \A i \in 1 .. Len(s) : s[i].id # k.awaiting
    BY <1>6 DEF Asked
  <2> QED BY <1>6, <2>1, <2>2 DEF Asked
<1>7. ASSUME NEW i \in 1 .. Len(d), FrameOK(a, d, k, i) PROVE FrameOK(a, e, k, i)
  <2>1. e[i] = d[i]
    BY <1>2
  <2>2. \A j \in 1 .. Len(e) : j > i /\ IsFrame(e[j]) => e[i].frame_id < e[j].frame_id
    BY <1>3, <1>4, <1>7, <2>1 DEF FrameOK
  <2> QED BY <1>7, <2>1, <2>2 DEF FrameOK
<1>8. ASSUME Answered(a, r, d, u, k) PROVE Answered(a, s, e, u, k)
  <2>1. \A i \in 1 .. Len(s) : s[i].id = k.awaiting => s[i].ok \/ a = NoAttachment
    BY <1>8 DEF Answered
  <2>2. ASSUME NEW j \in 1 .. Len(e), AnswersOpen(e[j], k.awaiting)
        PROVE  /\ e[j].ok \/ a = NoAttachment
               /\ \A i \in 1 .. Len(e) : i > j /\ IsFrame(e[i]) =>
                    Whole(e[i]) /\ (a # NoAttachment => FrameOK(a, e, k, i))
    <3>1. CASE j = Len(d) + 1
      <4>1. e[j] = m
        BY <1>2, <3>1
      <4>2. m.ok \/ a = NoAttachment
        BY <1>8, <2>2, <4>1 DEF Answered, AnswersOpen
      <4>3. \A i \in 1 .. Len(e) : ~(i > j)
        BY <1>2, <3>1
      <4> QED BY <4>1, <4>2, <4>3
    <3>2. CASE j # Len(d) + 1
      <4>1. j \in 1 .. Len(d) /\ e[j] = d[j]
        BY <1>3, <3>2
      <4>2. /\ d[j].ok \/ a = NoAttachment
            /\ \A i \in 1 .. Len(d) : i > j /\ IsFrame(d[i]) =>
                 Whole(d[i]) /\ (a # NoAttachment => FrameOK(a, d, k, i))
        BY <1>8, <2>2, <4>1 DEF Answered
      <4> QED BY <1>3, <1>4, <1>7, <4>1, <4>2
    <3> QED BY <3>1, <3>2
  <2> QED BY <1>8, <2>1, <2>2 DEF Answered
<1>9. ASSUME k.attached PROVE k.awaiting = 0 /\ Follows(a, e, u, k)
  <2>1. k.awaiting = 0 /\ Follows(a, d, u, k)
    BY <1>9 DEF Talks, Converses
  <2>2. Fitting(e, k)
    <3> SUFFICES ASSUME NEW i \in 1 .. Len(e), IsFrame(e[i]), ~Whole(e[i])
                 PROVE  /\ e[i].base # 0 /\ e[i].base = k.applied /\ e[i].size = Len(k.cells)
                        /\ \A j \in 1 .. Len(e) : j < i => ~IsFrame(e[j])
      BY DEF Fitting
    <3>1. i \in 1 .. Len(d) /\ e[i] = d[i]
      BY <1>3, <1>4
    <3>2. /\ d[i].base # 0 /\ d[i].base = k.applied /\ d[i].size = Len(k.cells)
          /\ \A j \in 1 .. Len(d) : j < i => ~IsFrame(d[j])
      BY <2>1, <3>1 DEF Fitting, Follows
    <3> QED BY <1>3, <1>4, <3>1, <3>2
  <2>3. ASSUME a # NoAttachment
        PROVE  /\ \A i \in 1 .. Len(e) : IsFrame(e[i]) => FrameOK(a, e, k, i)
               /\ Acknowledged(a, e, u, k) /\ Settled(a, e, k)
    <3>1. \A i \in 1 .. Len(e) : IsFrame(e[i]) => FrameOK(a, e, k, i)
      BY <1>3, <1>4, <1>7, <2>1, <2>3 DEF Follows
    <3>2. Acknowledged(a, e, u, k)
      <4>1. Acknowledged(a, d, u, k)
        BY <2>1, <2>3 DEF Follows
      <4> QED BY <1>3, <1>4, <4>1 DEF Acknowledged
    <3>3. Settled(a, e, k)
      BY <1>3, <1>4, <2>1, <2>3 DEF Follows, Settled
    <3> QED BY <3>1, <3>2, <3>3
  <2> QED BY <2>1, <2>2, <2>3 DEF Follows
<1>10. Talks(a, s, e, u, k)
  BY <1>1, <1>2, <1>5, <1>6, <1>8, <1>9 DEF Talks, Converses
<1> QED BY <1>10 DEF e

(* A message that changes nothing in the replica is read. *)
LEMMA ReadTalks ==
  ASSUME NEW a, NEW r, NEW d, NEW u, NEW k, Talks(a, r, d, u, k), d # <<>>
  PROVE  Talks(a, r, Tail(d), u, k)
<1> DEFINE e == Tail(d)
<1>1. /\ d \in Seq(Downward) /\ u \in Seq(Upward) /\ r \in Seq(Answer) /\ k \in ClientPane
      /\ Numbers(a) /\ Requests(r, d, u, k) /\ a \in Attachment \cup {NoAttachment}
  BY DEF Talks, Converses
<1>2. /\ Len(d) \in Nat /\ Len(d) > 0 /\ e \in Seq(Downward) /\ Len(e) = Len(d) - 1
      /\ \A i \in 1 .. Len(e) : i + 1 \in 1 .. Len(d) /\ e[i] = d[i + 1]
  BY <1>1, Taken
<1> HIDE DEF e
<1>3. Requests(r, e, u, k)
  BY <1>1, <1>2 DEF Requests
<1>4. Asked(a, r, d, u, k) => Asked(a, r, e, u, k)
  BY <1>2 DEF Asked
<1>5. ASSUME NEW i \in 1 .. Len(e), FrameOK(a, d, k, i + 1) PROVE FrameOK(a, e, k, i)
  <2>1. e[i] = d[i + 1] /\ i \in Nat
    BY <1>2
  <2>2. \A j \in 1 .. Len(e) : j > i /\ IsFrame(e[j]) => e[i].frame_id < e[j].frame_id
    <3> SUFFICES ASSUME NEW j \in 1 .. Len(e), j > i, IsFrame(e[j]) PROVE e[i].frame_id < e[j].frame_id
      OBVIOUS
    <3>1. j + 1 \in 1 .. Len(d) /\ e[j] = d[j + 1] /\ j + 1 > i + 1
      BY <1>2, <2>1
    <3> QED BY <1>5, <2>1, <3>1 DEF FrameOK
  <2> QED BY <1>5, <2>1, <2>2 DEF FrameOK
<1>6. ASSUME Answered(a, r, d, u, k) PROVE Answered(a, r, e, u, k)
  <2>1. ASSUME NEW j \in 1 .. Len(e), AnswersOpen(e[j], k.awaiting)
        PROVE  /\ e[j].ok \/ a = NoAttachment
               /\ \A i \in 1 .. Len(e) : i > j /\ IsFrame(e[i]) =>
                    Whole(e[i]) /\ (a # NoAttachment => FrameOK(a, e, k, i))
    <3>1. j + 1 \in 1 .. Len(d) /\ e[j] = d[j + 1]
      BY <1>2
    <3>2. /\ d[j + 1].ok \/ a = NoAttachment
          /\ \A i \in 1 .. Len(d) : i > j + 1 /\ IsFrame(d[i]) =>
               Whole(d[i]) /\ (a # NoAttachment => FrameOK(a, d, k, i))
      BY <1>6, <2>1, <3>1 DEF Answered
    <3>3. \A i \in 1 .. Len(e) : i > j => i + 1 > j + 1
      BY <1>2
    <3> QED BY <1>2, <1>5, <3>1, <3>2, <3>3
  <2> QED BY <1>6, <2>1 DEF Answered
<1>7. ASSUME k.attached PROVE k.awaiting = 0 /\ Follows(a, e, u, k)
  <2>1. k.awaiting = 0 /\ Follows(a, d, u, k)
    BY <1>7 DEF Talks, Converses
  <2>2. Fitting(e, k)
    <3> SUFFICES ASSUME NEW i \in 1 .. Len(e), IsFrame(e[i]), ~Whole(e[i])
                 PROVE  /\ e[i].base # 0 /\ e[i].base = k.applied /\ e[i].size = Len(k.cells)
                        /\ \A j \in 1 .. Len(e) : j < i => ~IsFrame(e[j])
      BY DEF Fitting
    <3>1. i + 1 \in 1 .. Len(d) /\ e[i] = d[i + 1]
      BY <1>2
    <3>2. /\ d[i + 1].base # 0 /\ d[i + 1].base = k.applied /\ d[i + 1].size = Len(k.cells)
          /\ \A j \in 1 .. Len(d) : j < i + 1 => ~IsFrame(d[j])
      BY <2>1, <3>1 DEF Fitting, Follows
    <3>3. \A j \in 1 .. Len(e) : j < i => j + 1 < i + 1 /\ j + 1 \in 1 .. Len(d) /\ e[j] = d[j + 1]
      BY <1>2
    <3> QED BY <3>1, <3>2, <3>3
  <2>3. ASSUME a # NoAttachment
        PROVE  /\ \A i \in 1 .. Len(e) : IsFrame(e[i]) => FrameOK(a, e, k, i)
               /\ Acknowledged(a, e, u, k) /\ Settled(a, e, k)
    <3>1. \A i \in 1 .. Len(e) : IsFrame(e[i]) => FrameOK(a, e, k, i)
      BY <1>2, <1>5, <2>1, <2>3 DEF Follows
    <3>2. Acknowledged(a, e, u, k)
      <4>1. Acknowledged(a, d, u, k)
        BY <2>1, <2>3 DEF Follows
      <4> QED BY <1>2, <4>1 DEF Acknowledged
    <3>3. Settled(a, e, k)
      BY <1>2, <2>1, <2>3 DEF Follows, Settled
    <3> QED BY <3>1, <3>2, <3>3
  <2> QED BY <2>1, <2>2, <2>3 DEF Follows
<1>8. Talks(a, r, e, u, k)
  BY <1>1, <1>2, <1>3, <1>4, <1>6, <1>7 DEF Talks, Converses
<1> QED BY <1>8 DEF e

(* The client leaves the pane for good. *)
LEMMA LeftTalks ==
  ASSUME NEW a, NEW r, NEW d, NEW u, NEW k, Talks(a, r, d, u, k)
  PROVE  Talks(a, r, d, u, Left(k))
<1> DEFINE l == Left(k)
<1>1. k \in ClientPane
  BY DEF Talks
<1>2. /\ l \in ClientPane /\ l.attached = FALSE /\ l.gone = TRUE /\ l.awaiting = k.awaiting
      /\ l.cells = k.cells /\ l.next_request = k.next_request /\ l.applied = k.applied
  BY <1>1 DEF Left, ClientPane
<1> HIDE DEF l
<1>3. Requests(r, d, u, k) => Requests(r, d, u, l)
  BY <1>2 DEF Requests
<1>4. Asked(a, r, d, u, k) => Asked(a, r, d, u, l)
  BY <1>2 DEF Asked
<1>5. Answered(a, r, d, u, k) => Answered(a, r, d, u, l)
  BY <1>2 DEF Answered, FrameOK
<1>6. Talks(a, r, d, u, l)
  BY <1>2, <1>3, <1>4, <1>5 DEF Talks, Converses
<1> QED BY <1>6 DEF l

(* The client asks for a snapshot or for another size. *)
LEMMA AskTalks ==
  ASSUME NEW a, NEW r, NEW d, NEW u, NEW k, Talks(a, r, d, u, k), k.attached,
         NEW m \in Upward, m.type \in {"resize", "snapshot"}
  PROVE  Talks(a, r, d, Append(u, m), k)
<1> DEFINE v == Append(u, m)
<1>1. /\ d \in Seq(Downward) /\ u \in Seq(Upward) /\ r \in Seq(Answer) /\ k \in ClientPane
      /\ Numbers(a) /\ Requests(r, d, u, k) /\ a \in Attachment \cup {NoAttachment}
      /\ k.awaiting = 0 /\ Follows(a, d, u, k)
  BY DEF Talks, Converses
<1>2. /\ v \in Seq(Upward) /\ Len(u) \in Nat /\ Len(v) = Len(u) + 1 /\ v[Len(u) + 1] = m
      /\ \A i \in 1 .. Len(u) : v[i] = u[i]
  BY <1>1, Added
<1> HIDE DEF v
<1>3. \A i \in 1 .. Len(v) : v[i] = m \/ (i \in 1 .. Len(u) /\ v[i] = u[i])
  BY <1>2
<1>4. Requests(r, d, v, k)
  <2>1. \A i \in 1 .. Len(v) : /\ v[i].type = "open" => v[i].id > 0 /\ v[i].id < k.next_request
                               /\ IsAck(v[i]) => v[i].frame_id > 0
    BY <1>1, <1>3 DEF Requests, IsAck
  <2> QED BY <1>1, <2>1 DEF Requests
<1>5. Follows(a, d, v, k)
  <2>1. \A i \in 1 .. Len(v) : v[i].type \in {"ack", "resize", "snapshot"}
    BY <1>1, <1>3 DEF Follows
  <2>2. Acknowledged(a, d, u, k) => Acknowledged(a, d, v, k)
    BY <1>3 DEF Acknowledged, IsAck
  <2> QED BY <1>1, <2>1, <2>2 DEF Follows
<1>6. Talks(a, r, d, v, k)
  BY <1>1, <1>2, <1>4, <1>5 DEF Talks, Converses
<1> QED BY <1>6 DEF v

(* The client lets the pane go. *)
LEMMA AskDetachTalks ==
  ASSUME NEW a, NEW r, NEW d, NEW u, NEW k, Talks(a, r, d, u, k), NEW m \in Upward, m.type = "detach"
  PROVE  Talks(a, r, d, Append(u, m), [k EXCEPT !.attached = FALSE, !.awaiting = 0])
<1> DEFINE v == Append(u, m)
           l == [k EXCEPT !.attached = FALSE, !.awaiting = 0]
<1>1. /\ d \in Seq(Downward) /\ u \in Seq(Upward) /\ r \in Seq(Answer) /\ k \in ClientPane
      /\ Numbers(a) /\ Requests(r, d, u, k) /\ a \in Attachment \cup {NoAttachment}
  BY DEF Talks, Converses
<1>2. /\ v \in Seq(Upward) /\ Len(u) \in Nat /\ Len(v) = Len(u) + 1 /\ v[Len(u) + 1] = m
      /\ \A i \in 1 .. Len(u) : v[i] = u[i]
  BY <1>1, Added
<1>3. /\ l \in ClientPane /\ l.attached = FALSE /\ l.awaiting = 0
      /\ l.next_request = k.next_request /\ k.next_request \in Nat
  BY <1>1 DEF ClientPane
<1> HIDE DEF v, l
<1>4. \A i \in 1 .. Len(v) : v[i] = m \/ (i \in 1 .. Len(u) /\ v[i] = u[i])
  BY <1>2
<1>5. Requests(r, d, v, l)
  <2>1. \A i \in 1 .. Len(v) : /\ v[i].type = "open" => v[i].id > 0 /\ v[i].id < k.next_request
                               /\ IsAck(v[i]) => v[i].frame_id > 0
    BY <1>1, <1>4 DEF Requests, IsAck
  <2> QED BY <1>1, <1>3, <2>1 DEF Requests
<1>6. LetsGo(a, v, Len(v))
  <2>1. Len(u) + 1 \in 1 .. Len(v) /\ \A i \in Len(u) + 1 .. Len(v) : v[i].type # "open"
    BY <1>2
  <2> QED BY <1>2, <2>1 DEF LetsGo
<1>7. Talks(a, r, d, v, l)
  BY <1>1, <1>2, <1>3, <1>5, <1>6 DEF Talks, Converses
<1> QED BY <1>7 DEF v, l

(* The client asks to open the pane. *)
LEMMA AskOpenTalks ==
  ASSUME NEW a, NEW r, NEW d, NEW u, NEW k, Talks(a, r, d, u, k),
         ~k.attached, k.awaiting = 0, ~k.gone,
         NEW m \in Upward, m.type = "open", m.id = k.next_request
  PROVE  Talks(a, r, d, Append(u, m), [k EXCEPT !.awaiting = k.next_request, !.next_request = @ + 1])
<1> DEFINE v == Append(u, m)
           l == [k EXCEPT !.awaiting = k.next_request, !.next_request = @ + 1]
<1>1. /\ d \in Seq(Downward) /\ u \in Seq(Upward) /\ r \in Seq(Answer) /\ k \in ClientPane
      /\ Numbers(a) /\ Requests(r, d, u, k) /\ a \in Attachment \cup {NoAttachment}
      /\ LetsGo(a, u, Len(u))
  BY DEF Talks, Converses
<1>2. /\ v \in Seq(Upward) /\ Len(u) \in Nat /\ Len(v) = Len(u) + 1 /\ v[Len(u) + 1] = m
      /\ \A i \in 1 .. Len(u) : v[i] = u[i]
  BY <1>1, Added
<1>3. /\ l \in ClientPane /\ l.attached = FALSE /\ l.awaiting = k.next_request
      /\ l.next_request = k.next_request + 1 /\ k.next_request \in Nat
  <2>1. k.next_request \in Nat /\ k.next_request + 1 \in Nat
    BY <1>1 DEF ClientPane
  <2>2. ASSUME NEW n \in Nat, NEW o \in Nat
        PROVE  [k EXCEPT !.awaiting = n, !.next_request = o] \in ClientPane
    BY <1>1 DEF ClientPane
  <2>3. l \in ClientPane
    BY <2>1, <2>2
  <2>4. /\ l.attached = FALSE /\ l.awaiting = k.next_request
        /\ l.next_request = k.next_request + 1
    BY <1>1 DEF ClientPane
  <2> QED BY <2>1, <2>3, <2>4
<1> HIDE DEF v, l
<1>4. \A i \in 1 .. Len(v) : v[i] = m \/ (i \in 1 .. Len(u) /\ v[i] = u[i])
  BY <1>2
<1>5. k.next_request > 0
  BY <1>1 DEF Requests
<1>6. \A i \in 1 .. Len(r) : r[i].id \in Nat /\ r[i].id > 0 /\ r[i].id < k.next_request
  <2>1. \A i \in 1 .. Len(r) : r[i] \in Answer
    BY <1>1
  <2>2. \A i \in 1 .. Len(r) : r[i].id \in Nat
    BY <2>1 DEF Answer
  <2> QED BY <1>1, <2>2 DEF Requests
<1>7. \A i \in 1 .. Len(d) : d[i].type = "opened" =>
        d[i].id \in Nat /\ d[i].id > 0 /\ d[i].id < k.next_request
  BY <1>1, DownwardCases DEF Requests
<1>8. \A i \in 1 .. Len(u) : u[i].type = "open" =>
        u[i].id \in Nat /\ u[i].id > 0 /\ u[i].id < k.next_request
  BY <1>1, UpwardCases DEF Requests
<1>9. Requests(r, d, v, l)
  <2>1. \A i \in 1 .. Len(v) : v[i].type = "open" => v[i].id > 0 /\ v[i].id < l.next_request
    BY <1>3, <1>4, <1>5, <1>8
  <2>2. \A i \in 1 .. Len(v) : IsAck(v[i]) => v[i].frame_id > 0
    BY <1>1, <1>4 DEF Requests, IsAck
  <2>3. \A i \in 1 .. Len(r) : r[i].id > 0 /\ r[i].id < l.next_request
    BY <1>3, <1>6
  <2>4. \A i \in 1 .. Len(d) : d[i].type = "opened" => d[i].id > 0 /\ d[i].id < l.next_request
    BY <1>3, <1>7
  <2>5. \A i \in 1 .. Len(d) : IsFrame(d[i]) => d[i].frame_id > 0
    BY <1>1 DEF Requests
  <2>6. l.next_request > 0 /\ l.awaiting < l.next_request
    BY <1>3
  <2> QED BY <2>1, <2>2, <2>3, <2>4, <2>5, <2>6 DEF Requests
<1>10. LetsGo(a, v, Len(v) - 1)
  <2>1. Len(v) - 1 = Len(u)
    BY <1>2
  <2>2. \A j \in 1 .. Len(u) : \A i \in j .. Len(u) : i \in 1 .. Len(u) /\ v[i] = u[i]
    BY <1>2
  <2>3. LetsGo(a, v, Len(u))
    BY <1>1, <1>2, <2>2 DEF LetsGo
  <2> QED BY <2>1, <2>3
<1>11. Asked(a, r, d, v, l)
  <2>1. Len(v) > 0 /\ v[Len(v)] = m
    BY <1>2
  <2>2. \A i \in 1 .. Len(v) - 1 : v[i].type = "open" => v[i].id # l.awaiting
    <3>1. \A i \in 1 .. Len(v) - 1 : i \in 1 .. Len(u) /\ v[i] = u[i]
      BY <1>2
    <3> QED BY <1>3, <1>8, <3>1
  <2>3. \A i \in 1 .. Len(r) : r[i].id # l.awaiting
    BY <1>3, <1>6
  <2>4. \A i \in 1 .. Len(d) : ~AnswersOpen(d[i], l.awaiting)
    BY <1>3, <1>7 DEF AnswersOpen
  <2> QED BY <1>3, <1>10, <2>1, <2>2, <2>3, <2>4 DEF Asked
<1>12. Talks(a, r, d, v, l)
  <2>1. l.awaiting # 0
    BY <1>3, <1>5
  <2> QED BY <1>1, <1>2, <1>3, <1>9, <1>11, <2>1 DEF Talks, Converses
<1> QED BY <1>12 DEF v, l

(* The answer the client waits for is read. *)
LEMMA OpenedTalks ==
  ASSUME NEW a, NEW r, NEW d, NEW u, NEW k, Talks(a, r, d, u, k), d # <<>>,
         AnswersOpen(d[1], k.awaiting)
  PROVE  Talks(a, r, Tail(d), u, [k EXCEPT !.awaiting = 0, !.attached = d[1].ok])
<1> DEFINE e == Tail(d)
           l == [k EXCEPT !.awaiting = 0, !.attached = d[1].ok]
<1>1. /\ d \in Seq(Downward) /\ u \in Seq(Upward) /\ r \in Seq(Answer) /\ k \in ClientPane
      /\ Numbers(a) /\ Requests(r, d, u, k) /\ a \in Attachment \cup {NoAttachment}
  BY DEF Talks, Converses
<1>2. /\ Len(d) \in Nat /\ Len(d) > 0 /\ e \in Seq(Downward) /\ Len(e) = Len(d) - 1
      /\ \A i \in 1 .. Len(e) : i + 1 \in 1 .. Len(d) /\ e[i] = d[i + 1]
  BY <1>1, Taken
<1>3. 1 \in 1 .. Len(d) /\ d[1] \in Downward
  BY <1>1, <1>2
<1>4. d[1].ok \in BOOLEAN /\ d[1].id \in Nat /\ k.awaiting > 0
  BY <1>1, <1>3, DownwardCases DEF Requests, AnswersOpen
<1>5. /\ l \in ClientPane /\ l.attached = d[1].ok /\ l.awaiting = 0
      /\ l.cells = k.cells /\ l.next_request = k.next_request /\ l.applied = k.applied
  <2>1. ASSUME NEW b \in BOOLEAN PROVE [k EXCEPT !.awaiting = 0, !.attached = b] \in ClientPane
    BY <1>1 DEF ClientPane
  <2>2. l \in ClientPane
    BY <1>4, <2>1
  <2> QED BY <1>1, <2>2 DEF ClientPane
<1> HIDE DEF e, l
<1>6. Answered(a, r, d, u, k)
  <2>1. ~k.attached /\ k.awaiting # 0
    BY <1>4 DEF Talks, Converses
  <2>2. ~Asked(a, r, d, u, k)
    BY <1>3 DEF Asked
  <2> QED BY <2>1, <2>2 DEF Talks, Converses
<1>7. Requests(r, e, u, l)
  <2>1. Requests(r, e, u, k)
    BY <1>1, <1>2 DEF Requests
  <2>2. l.awaiting < l.next_request
    BY <1>1, <1>5 DEF Requests
  <2> QED BY <1>5, <2>1, <2>2 DEF Requests
<1>8. ASSUME NEW i \in 1 .. Len(e), IsFrame(e[i])
      PROVE  Whole(e[i]) /\ (a # NoAttachment => FrameOK(a, e, l, i))
  <2>1. i + 1 \in 1 .. Len(d) /\ e[i] = d[i + 1] /\ i + 1 > 1 /\ i \in Nat
    BY <1>2
  <2>2. Whole(d[i + 1]) /\ (a # NoAttachment => FrameOK(a, d, k, i + 1))
    BY <1>3, <1>6, <1>8, <2>1 DEF Answered
  <2>3. ASSUME a # NoAttachment
        PROVE  \A j \in 1 .. Len(e) : j > i /\ IsFrame(e[j]) => e[i].frame_id < e[j].frame_id
    <3> SUFFICES ASSUME NEW j \in 1 .. Len(e), j > i, IsFrame(e[j]) PROVE e[i].frame_id < e[j].frame_id
      OBVIOUS
    <3>1. j + 1 \in 1 .. Len(d) /\ e[j] = d[j + 1] /\ j + 1 > i + 1
      BY <1>2, <2>1
    <3> QED BY <2>1, <2>2, <2>3, <3>1 DEF FrameOK
  <2>4. a # NoAttachment => FrameOK(a, e, l, i)
    BY <1>5, <2>1, <2>2, <2>3 DEF FrameOK
  <2> QED BY <2>1, <2>2, <2>4
<1>9. Len(u) = 0 /\ (a # NoAttachment => a.snapshot_pending \/ a.outstanding # 0)
  BY <1>6 DEF Answered
<1>10. Follows(a, e, u, l)
  <2>1. Fitting(e, l)
    BY <1>8 DEF Fitting
  <2>2. a # NoAttachment => Acknowledged(a, e, u, l) /\ Settled(a, e, l)
    BY <1>9 DEF Acknowledged, Settled
  <2> QED BY <1>8, <1>9, <2>1, <2>2 DEF Follows
<1>11. ~l.attached => LetsGo(a, u, Len(u))
  <2>1. d[1].ok \/ a = NoAttachment
    BY <1>3, <1>6 DEF Answered
  <2> QED BY <1>5, <1>9, <2>1 DEF LetsGo
<1>12. Talks(a, r, e, u, l)
  BY <1>1, <1>2, <1>5, <1>7, <1>10, <1>11 DEF Talks, Converses
<1> QED BY <1>12 DEF e, l

(* The client applies the frame it reads, and acknowledges it. *)
LEMMA AppliedTalks ==
  ASSUME NEW a, NEW r, NEW d, NEW u, NEW k, Talks(a, r, d, u, k), d # <<>>,
         IsFrame(d[1]), k.attached,
         NEW m \in Upward, IsAck(m), m.frame_id = d[1].frame_id
  PROVE  /\ Applies(k, d[1]) /\ Fits(k, d[1])
         /\ Talks(a, r, Tail(d), Append(u, m), Applied(k, d[1]))
<1> DEFINE e == Tail(d)
           v == Append(u, m)
           f == d[1]
           l == Applied(k, f)
<1>1. /\ d \in Seq(Downward) /\ u \in Seq(Upward) /\ r \in Seq(Answer) /\ k \in ClientPane
      /\ Numbers(a) /\ Requests(r, d, u, k) /\ a \in Attachment \cup {NoAttachment}
      /\ k.awaiting = 0 /\ Follows(a, d, u, k)
  BY DEF Talks, Converses
<1>2. /\ Len(d) \in Nat /\ Len(d) > 0 /\ e \in Seq(Downward) /\ Len(e) = Len(d) - 1
      /\ \A i \in 1 .. Len(e) : i + 1 \in 1 .. Len(d) /\ e[i] = d[i + 1]
  BY <1>1, Taken
<1>3. /\ v \in Seq(Upward) /\ Len(u) \in Nat /\ Len(v) = Len(u) + 1 /\ v[Len(u) + 1] = m
      /\ \A i \in 1 .. Len(u) : v[i] = u[i]
  BY <1>1, Added
<1>4. 1 \in 1 .. Len(d) /\ f \in Downward
  BY <1>1, <1>2
<1>5. f.frame_id \in Nat /\ f.size \in Nat /\ f.frame_id > 0
  BY <1>1, <1>4, DownwardCases, DeliveryAssumption DEF Requests, IsFrame
<1>6. Whole(f) \/ (f.base = k.applied /\ f.size = Len(k.cells))
  BY <1>1, <1>4 DEF Follows, Fitting
<1>7. Applies(k, f) /\ Fits(k, f)
  BY <1>6 DEF Applies, Fits, Whole
<1>8. l \in ClientPane
  BY <1>1, <1>4, <1>7, AppliedType DEF IsFrame
<1>9. /\ l.applied = f.frame_id /\ l.attached /\ l.awaiting = 0 /\ l.next_request = k.next_request
      /\ l.cells = [i \in 1 .. f.size |-> IF i \in DOMAIN f.cells THEN f.cells[i]
                                          ELSE (IF f.size = Len(k.cells) THEN k.cells
                                                ELSE Cleared(f.size))[i]]
  BY <1>1 DEF Applied, ClientPane
<1> HIDE DEF e, v, f, l
<1>10. /\ l.cells \in Seq(Values) /\ Len(l.cells) = f.size
       /\ \A i \in 1 .. f.size : l.cells[i] = IF i \in DOMAIN f.cells THEN f.cells[i] ELSE k.cells[i]
  <2>1. l.cells \in Seq(Values)
    BY <1>8 DEF ClientPane
  <2>2. DOMAIN l.cells = 1 .. f.size
    BY <1>9
  <2>3. Len(l.cells) = f.size
    BY <1>5, <2>1, <2>2
  <2>4. \A i \in 1 .. f.size : l.cells[i] = IF i \in DOMAIN f.cells THEN f.cells[i] ELSE k.cells[i]
    BY <1>6, <1>9 DEF Whole
  <2> QED BY <2>1, <2>3, <2>4
<1>11. \A i \in 1 .. Len(v) : v[i] = m \/ (i \in 1 .. Len(u) /\ v[i] = u[i])
  BY <1>3
<1>12. Requests(r, e, v, l)
  <2>1. Requests(r, e, u, k)
    <3>1. \A i \in 1 .. Len(e) : /\ e[i].type = "opened" => e[i].id > 0 /\ e[i].id < k.next_request
                                 /\ IsFrame(e[i]) => e[i].frame_id > 0
      <4>1. \A i \in 1 .. Len(d) : /\ d[i].type = "opened" => d[i].id > 0 /\ d[i].id < k.next_request
                                   /\ IsFrame(d[i]) => d[i].frame_id > 0
        BY <1>1 DEF Requests
      <4>2. \A i \in 1 .. Len(e) : i + 1 \in 1 .. Len(d) /\ e[i] = d[i + 1]
        BY <1>2
      <4> QED BY <4>1, <4>2
    <3> QED BY <1>1, <3>1, RequestsOnWay
  <2>2. \A i \in 1 .. Len(v) : /\ v[i].type = "open" => v[i].id > 0 /\ v[i].id < k.next_request
                               /\ IsAck(v[i]) => v[i].frame_id > 0
    BY <1>5, <1>11, <2>1 DEF Requests, IsAck, f
  <2> QED BY <1>1, <1>9, <2>1, <2>2 DEF Requests
<1>13. ASSUME NEW i \in 1 .. Len(e), IsFrame(e[i])
       PROVE  /\ Whole(e[i])
              /\ a # NoAttachment => FrameOK(a, e, l, i) /\ f.frame_id < e[i].frame_id
  <2>1. i + 1 \in 1 .. Len(d) /\ e[i] = d[i + 1] /\ i + 1 > 1 /\ i \in Nat
    BY <1>2
  <2>2. Whole(d[i + 1])
    BY <1>1, <1>4, <1>13, <2>1 DEF Follows, Fitting
  <2>3. ASSUME a # NoAttachment PROVE FrameOK(a, e, l, i) /\ f.frame_id < e[i].frame_id
    <3>1. FrameOK(a, d, k, i + 1) /\ FrameOK(a, d, k, 1)
      BY <1>1, <1>4, <1>13, <2>1, <2>3 DEF Follows
    <3>2. f.frame_id < e[i].frame_id
      BY <1>13, <2>1, <3>1 DEF FrameOK, f
    <3>3. \A j \in 1 .. Len(e) : j > i /\ IsFrame(e[j]) => e[i].frame_id < e[j].frame_id
      <4> SUFFICES ASSUME NEW j \in 1 .. Len(e), j > i, IsFrame(e[j]) PROVE e[i].frame_id < e[j].frame_id
        OBVIOUS
      <4>1. j + 1 \in 1 .. Len(d) /\ e[j] = d[j + 1] /\ j + 1 > i + 1
        BY <1>2, <2>1
      <4> QED BY <2>1, <3>1, <4>1 DEF FrameOK
    <3>4. FrameOK(a, e, l, i)
      BY <2>1, <2>2, <3>1, <3>3 DEF FrameOK, Whole
    <3> QED BY <3>2, <3>4
  <2> QED BY <2>1, <2>2, <2>3
<1>14. ASSUME a # NoAttachment PROVE Acknowledged(a, e, v, l) /\ Settled(a, e, l)
  <2>1. a \in Attachment
    BY <1>1, <1>14
  <2>2. FrameOK(a, d, k, 1) /\ Acknowledged(a, d, u, k) /\ Settled(a, d, k)
    BY <1>1, <1>4, <1>14 DEF Follows, f
  <2>3. a.next_frame_id \in Nat /\ a.acknowledged \in Seq(Values) /\ f.frame_id < a.next_frame_id
    BY <2>1, <2>2 DEF Attachment, FrameOK, f
  <2>4. Settled(a, e, l)
    BY <1>4, <2>2 DEF Settled, f
  <2>5. f.frame_id + 1 = a.next_frame_id /\ ~a.snapshot_pending => l.cells = a.acknowledged
    <3> SUFFICES ASSUME f.frame_id + 1 = a.next_frame_id, ~a.snapshot_pending
                 PROVE  l.cells = a.acknowledged
      OBVIOUS
    <3>1. /\ f.size = Len(a.acknowledged)
          /\ \A x \in 1 .. f.size :
               a.acknowledged[x] = IF x \in DOMAIN f.cells THEN f.cells[x] ELSE k.cells[x]
      BY <2>2 DEF FrameOK, f
    <3>2. Len(l.cells) = Len(a.acknowledged) /\ \A x \in 1 .. Len(l.cells) : l.cells[x] = a.acknowledged[x]
      BY <1>10, <3>1
    <3> QED BY <1>10, <2>3, <3>2
  <2>6. ASSUME NEW i \in 1 .. Len(v), IsAck(v[i])
        PROVE  /\ v[i].frame_id < a.next_frame_id
               /\ \A j \in 1 .. Len(e) : IsFrame(e[j]) => v[i].frame_id < e[j].frame_id
               /\ v[i].frame_id + 1 = a.next_frame_id =>
                    l.applied = v[i].frame_id /\ (a.snapshot_pending \/ l.cells = a.acknowledged)
    <3>1. CASE v[i] = m
      BY <1>9, <1>13, <1>14, <2>3, <2>5, <3>1 DEF f
    <3>2. CASE i \in 1 .. Len(u) /\ v[i] = u[i]
      <4>1. u[i].frame_id < a.next_frame_id /\ u[i].frame_id < f.frame_id /\ u[i].frame_id \in Nat
        <5>1. u[i] \in Upward
          BY <1>1, <3>2
        <5> QED BY <1>4, <2>2, <2>6, <3>2, <5>1, UpwardCases DEF Acknowledged, IsAck, f
      <4>2. u[i].frame_id + 1 # a.next_frame_id
        BY <1>5, <2>3, <4>1
      <4>3. \A j \in 1 .. Len(e) : IsFrame(e[j]) => u[i].frame_id < e[j].frame_id
        <5> SUFFICES ASSUME NEW j \in 1 .. Len(e), IsFrame(e[j]) PROVE u[i].frame_id < e[j].frame_id
          OBVIOUS
        <5>1. f.frame_id < e[j].frame_id /\ e[j] \in Downward
          BY <1>2, <1>13, <1>14
        <5>2. e[j].frame_id \in Nat
          BY <5>1, DownwardCases DEF IsFrame
        <5> QED BY <1>5, <4>1, <5>1, <5>2
      <4> QED BY <3>2, <4>1, <4>2, <4>3
    <3> QED BY <1>11, <3>1, <3>2
  <2> QED BY <2>4, <2>6 DEF Acknowledged
<1>15. Follows(a, e, v, l)
  <2>1. \A i \in 1 .. Len(v) : v[i].type \in {"ack", "resize", "snapshot"}
    BY <1>1, <1>11 DEF Follows, IsAck
  <2>2. Fitting(e, l)
    BY <1>13 DEF Fitting
  <2> QED BY <1>13, <1>14, <2>1, <2>2 DEF Follows
<1>16. Talks(a, r, e, v, l)
  BY <1>1, <1>2, <1>3, <1>8, <1>9, <1>12, <1>15 DEF Talks, Converses
<1> QED BY <1>7, <1>16 DEF e, v, l, f

(* Whatever the client reads, with what it answers. *)
LEMMA DeliverTalks ==
  ASSUME NEW a, NEW r, NEW d, NEW u, NEW k, Talks(a, r, d, u, k), d # <<>>
  PROVE  Talks(a, r, Tail(d), u \o Reply(k, Head(d)), Received(k, Head(d)))
<1> DEFINE f == Head(d)
<1>1. d \in Seq(Downward) /\ u \in Seq(Upward) /\ k \in ClientPane
  BY DEF Talks
<1>2. f = d[1] /\ f \in Downward /\ 1 \in 1 .. Len(d)
  BY <1>1, Taken
<1>3. f.type \in {"frame", "opened", "exited"}
  BY <1>2, DownwardCases
<1>4. Talks(a, r, Tail(d), u, k)
  BY ReadTalks
<1>5. u \o <<>> = u
  BY <1>1
<1> HIDE DEF f
<1>6. CASE f.type = "exited"
  <2>1. Received(k, f) = Left(k) /\ Reply(k, f) = <<>>
    BY <1>6 DEF Received, Reply
  <2> QED BY <1>4, <1>5, <2>1, LeftTalks DEF f
<1>7. CASE f.type = "opened"
  <2>1. /\ Reply(k, f) = <<>>
        /\ Received(k, f) = IF f.id # k.awaiting THEN k
                            ELSE [k EXCEPT !.awaiting = 0, !.attached = f.ok]
    BY <1>7 DEF Received, Reply
  <2>2. CASE f.id # k.awaiting
    BY <1>4, <1>5, <2>1, <2>2 DEF f
  <2>3. CASE f.id = k.awaiting
    <3>1. Talks(a, r, Tail(d), u, [k EXCEPT !.awaiting = 0, !.attached = f.ok])
      BY <1>2, <1>7, <2>3, OpenedTalks DEF AnswersOpen
    <3> QED BY <1>5, <2>1, <2>3, <3>1 DEF f
  <2> QED BY <2>2, <2>3
<1>8. CASE f.type = "frame" /\ ~k.attached
  <2>1. Received(k, f) = k /\ Reply(k, f) = <<>>
    BY <1>8 DEF Received, Reply, Applies
  <2> QED BY <1>4, <1>5, <2>1 DEF f
<1>9. CASE f.type = "frame" /\ k.attached
  <2> DEFINE m == [type |-> "ack", frame_id |-> f.frame_id]
  <2>1. m \in Upward /\ IsAck(m) /\ m.frame_id = d[1].frame_id
    BY <1>2, <1>9, DownwardCases DEF Upward, IsAck
  <2> HIDE DEF m
  <2>2. /\ Applies(k, f) /\ Fits(k, f)
        /\ Talks(a, r, Tail(d), Append(u, m), Applied(k, f))
    BY <1>2, <1>9, <2>1, AppliedTalks DEF IsFrame
  <2>3. Received(k, f) = Applied(k, f) /\ Reply(k, f) = <<m>>
    BY <1>9, <2>2 DEF Received, Reply, m
  <2>4. u \o <<m>> = Append(u, m)
    BY <1>1, <2>1
  <2> QED BY <2>2, <2>3, <2>4 DEF f
<1> QED BY <1>3, <1>6, <1>7, <1>8, <1>9

--------------------------------------------------------------------------------
(* Every conversation, action by action                                    *)

Holds(c) == Talks(attachments[c], sessions[c].responses, down[c], up[c], clients[c])

(* The conversations are in shape. *)
LEMMA ConversationsHold ==
  ASSUME IInv, NEW c \in Clients
  PROVE  Conversation(c) <=> Holds(c)
<1>1. attachments[c] \in Attachment \cup {NoAttachment}
  BY DEF IInv, Covered, Attachables
<1>2. sessions[c] \in Session /\ down[c] \in Seq(Downward) /\ up[c] \in Seq(Upward)
      /\ clients[c] \in ClientPane
  BY DEF IInv, Wire
<1>3. sessions[c].responses \in Seq(Answer)
  BY <1>2 DEF Session, Answer
<1> QED BY <1>1, <1>2, <1>3 DEF Conversation, Holds, Talks

(* What becomes of an attachment that neither sends nor is acknowledged. *)
Moved(a, b) ==
  \/ b = a \/ b = NoAttachment
  \/ a \in Attachment /\ b \in Attachment /\ Drift(a, b) /\ b.exit_sent = a.exit_sent

(* One such step after another. *)
LEMMA MovedTwice ==
  ASSUME NEW a, NEW b, NEW e, Moved(a, b), Moved(b, e)
  PROVE  Moved(a, e)
<1>1. CASE b = a \/ e = b \/ e = NoAttachment
  BY <1>1 DEF Moved
<1>2. CASE b = NoAttachment
  BY <1>2, DeliveryAssumption DEF Moved
<1>3. CASE /\ a \in Attachment /\ b \in Attachment /\ e \in Attachment
           /\ Drift(a, b) /\ Drift(b, e)
           /\ b.exit_sent = a.exit_sent /\ e.exit_sent = b.exit_sent
  <2>1. /\ e.next_frame_id = a.next_frame_id
        /\ e.acknowledged_frame_id = a.acknowledged_frame_id
    BY <1>3 DEF Drift
  <2>2. \/ e.snapshot_pending /\ e.outstanding \in {0, a.outstanding}
        \/ /\ e.snapshot_pending = a.snapshot_pending /\ e.outstanding = a.outstanding
           /\ e.acknowledged = a.acknowledged
    BY <1>3 DEF Drift
  <2> QED BY <1>3, <2>1, <2>2 DEF Moved, Drift
<1> QED BY <1>1, <1>2, <1>3 DEF Moved

(* The conversation goes on. *)
LEMMA MovedTalks ==
  ASSUME NEW a, NEW b, Moved(a, b), NEW r, NEW d, NEW u, NEW k, Talks(a, r, d, u, k)
  PROVE  Talks(b, r, d, u, k)
  BY DriftTalks, LossTalks DEF Moved

(* Flags that no conversation looks at. *)
LEMMA FlagsMove ==
  ASSUME NEW a \in Attachment, NEW x \in BOOLEAN, NEW y \in BOOLEAN
  PROVE  /\ Moved(a, [a EXCEPT !.observed = FALSE])
         /\ Moved(a, [a EXCEPT !.snapshot_pending = TRUE])
         /\ Moved(a, [a EXCEPT !.paced = FALSE])
         /\ Moved(a, [a EXCEPT !.deadline = x])
         /\ Moved(a, [a EXCEPT !.observed = TRUE, !.paced = x, !.deadline = FALSE])
<1>1. Moved(a, [a EXCEPT !.observed = FALSE])
  BY DEF Moved, Drift, Attachment
<1>2. Moved(a, [a EXCEPT !.snapshot_pending = TRUE])
  BY DEF Moved, Drift, Attachment
<1>3. Moved(a, [a EXCEPT !.paced = FALSE])
  BY DEF Moved, Drift, Attachment
<1>4. Moved(a, [a EXCEPT !.deadline = x])
  BY DEF Moved, Drift, Attachment
<1>5. Moved(a, [a EXCEPT !.observed = TRUE, !.paced = x, !.deadline = FALSE])
  BY DEF Moved, Drift, Attachment
<1> QED BY <1>1, <1>2, <1>3, <1>4, <1>5

(* A render or a resize of the pane. *)
LEMMA UnobservedMove ==
  ASSUME NEW as \in Attachables, NEW c \in Clients
  PROVE  Moved(as[c], Unobserved(as)[c])
<1>1. as[c] = NoAttachment \/ as[c] \in Attachment
  BY DEF Attachables
<1>2. CASE as[c] = NoAttachment
  BY <1>2 DEF Moved, Unobserved
<1>3. CASE as[c] # NoAttachment
  <2>1. Unobserved(as)[c] = [as[c] EXCEPT !.observed = FALSE]
    BY <1>3 DEF Unobserved
  <2> QED BY <1>1, <1>3, <2>1, FlagsMove
<1> QED BY <1>2, <1>3

(* An attachment follows the size of the pane. *)
LEMMA ResizeMove ==
  ASSUME NEW a \in Attachment, NEW p, PaneOK(p)
  PROVE  Moved(a, ResizeIfNeeded(a, p)) /\ ResizeIfNeeded(a, p) \in Attachment
<1>1. CASE Len(a.acknowledged) = Len(p.screen)
  BY <1>1 DEF ResizeIfNeeded, Moved
<1>2. CASE Len(a.acknowledged) # Len(p.screen)
  <2>1. Cleared(Len(p.screen)) \in Seq(Values)
    BY ClearedRows DEF PaneOK, Pane
  <2> DEFINE rows == Cleared(Len(p.screen))
             b == [a EXCEPT !.acknowledged = rows, !.outstanding = 0, !.snapshot_pending = TRUE]
  <2>2. ResizeIfNeeded(a, p) = b
    BY <1>2 DEF ResizeIfNeeded
  <2> HIDE DEF rows
  <2>3. b \in Attachment /\ Drift(a, b) /\ b.exit_sent = a.exit_sent
    BY <2>1 DEF Attachment, Drift, rows
  <2> HIDE DEF b
  <2> QED BY <2>2, <2>3 DEF Moved
<1> QED BY <1>1, <1>2

(* A size is offered. *)
LEMMA OfferMove ==
  ASSUME IInv, NEW c, NEW n, NEW x \in Clients
  PROVE  /\ Moved(attachments[x], AttachmentsAfterOffer(c, n)[x])
         /\ AttachmentsAfterOffer(c, n) \in Attachables
<1>1. attachments \in Attachables
  BY DEF IInv, Covered
<1>2. Moved(attachments[x], Unobserved(attachments)[x])
  BY <1>1, UnobservedMove
<1>3. Unobserved(attachments) \in Attachables
  <2>1. \A y \in Clients : Unobserved(attachments)[y] \in Attachment \cup {NoAttachment}
    BY <1>1 DEF Unobserved, Attachables, Attachment
  <2> QED BY <2>1 DEF Unobserved, Attachables
<1> QED BY <1>1, <1>2, <1>3 DEF AttachmentsAfterOffer, Moved

(* A step that tells x nothing and takes nothing from it. *)
Stands(x) ==
  /\ Moved(attachments[x], attachments'[x])
  /\ down'[x] = down[x] /\ up'[x] = up[x] /\ clients'[x] = clients[x]
  /\ sessions'[x].responses = sessions[x].responses
  /\ sessions'[x].send_pending = sessions[x].send_pending
  /\ sessions'[x].detach = sessions[x].detach

(* Such a step leaves the conversation in order. *)
LEMMA StandsTalks ==
  ASSUME NEW x \in Clients, Holds(x), Stands(x)
  PROVE  Holds(x)'
  BY MovedTalks DEF Holds, Stands

(* The events of the pane. *)
LEMMA PaneEventsStand ==
  ASSUME IInv, IInv', NEW c \in Clients,
         \/ InlineOutput \/ StartIngest \/ FinishIngest \/ EndOutput \/ ChildExits
         \/ Settle \/ TimerDue \/ Tick \/ HoldExpires
  PROVE  Stands(c)
<1>1. UNCHANGED <<sessions, clients, down, up>>
  BY DEF InlineOutput, StartIngest, FinishIngest, EndOutput, ChildExits, Settle, TimerDue, Tick,
         HoldExpires, clientSide
<1>2. CASE UNCHANGED attachments
  BY <1>1, <1>2 DEF Stands, Moved
<1>3. CASE InlineOutput \/ FinishIngest
  <2>1. PICK q : AfterIngest(q)
    BY <1>3 DEF InlineOutput, FinishIngest
  <2> DEFINE as == IF q.pending_size # 0 THEN Unobserved(attachments) ELSE attachments
  <2>2. attachments' = [x \in Clients |-> IF Attached(x) THEN ResizeIfNeeded(as[x], pane')
                                          ELSE NoAttachment]
    BY <2>1 DEF AfterIngest
  <2>3. attachments \in Attachables /\ PaneOK(pane')
    BY DEF IInv, Covered
  <2>4. Moved(attachments[c], as[c])
    BY <2>3, UnobservedMove DEF Moved
  <2>5. ASSUME Attached(c) PROVE as[c] \in Attachment
    <3>1. attachments[c] \in Attachment /\ attachments[c] # NoAttachment
      BY <2>3, <2>5 DEF Attached, Attachables
    <3>2. [attachments[c] EXCEPT !.observed = FALSE] \in Attachment
      BY <3>1 DEF Attachment
    <3> QED BY <3>1, <3>2 DEF Unobserved
  <2> HIDE DEF as
  <2>6. Moved(as[c], attachments'[c])
    <3>1. CASE Attached(c)
      BY <2>2, <2>3, <2>5, <3>1, ResizeMove
    <3>2. CASE ~Attached(c)
      BY <2>2, <3>2 DEF Moved
    <3> QED BY <3>1, <3>2
  <2> QED BY <1>1, <2>4, <2>6, MovedTwice DEF Stands
<1> QED BY <1>2, <1>3 DEF StartIngest, EndOutput, ChildExits, Settle, TimerDue, Tick, HoldExpires

(* The requests of c, as the runtime takes them. *)
LEMMA ReceiveTalks ==
  ASSUME IInv, IInv', NEW c \in Clients, Receive(c), Holds(c)
  PROVE  Holds(c)'
<1> DEFINE a == attachments[c]
           b == attachments'[c]
           r == sessions[c].responses
           d == down[c]
           u == up[c]
           k == clients[c]
           m == u[1]
<1>1. /\ attachments \in Attachables /\ PaneOK(pane) /\ attachments' \in Attachables /\ PaneOK(pane')
      /\ sessions \in [Clients -> Session] /\ up \in [Clients -> Seq(Upward)]
  BY DEF IInv, Covered, Wire
<1>2. /\ u \in Seq(Upward) /\ u # <<>> /\ m = Head(u) /\ m \in Upward
      /\ up'[c] = Tail(u) /\ down'[c] = d /\ clients'[c] = k
  <2>1. u \in Seq(Upward) /\ u # <<>>
    BY <1>1 DEF Receive
  <2> QED BY <1>1, <2>1, Taken DEF Receive
<1>3. Talks(a, r, d, u, k)
  BY DEF Holds
<1>4. /\ a \in Attachment \cup {NoAttachment} /\ b \in Attachment \cup {NoAttachment}
      /\ Attached(c) <=> a # NoAttachment
  BY <1>1 DEF Attachables, Attached
<1>5. \/ m.type = "open" /\ Open(c, m)
      \/ m.type = "resize" /\ Resize(c, m)
      \/ m.type = "detach" /\ DetachPane(c)
      \/ m.type = "ack" /\ Acknowledge(c, m)
      \/ m.type = "snapshot" /\ RequestSnapshot(c)
  BY <1>2, UpwardCases DEF Receive
<1> SUFFICES Talks(b, sessions'[c].responses, d, Tail(u), k)
  BY <1>2 DEF Holds
<1> HIDE DEF a, b, r, d, u, k, m
<1>6. CASE m.type = "open" /\ Open(c, m)
  <2>1. ASSUME NEW ok, sessions' = [sessions EXCEPT ![c].responses = Append(@, [id |-> m.id, ok |-> ok])]
        PROVE  sessions'[c].responses = Append(r, [id |-> m.id, ok |-> ok])
    BY <1>1, <2>1 DEF Session, r
  <2>2. CASE pane.exit
    <3>1. sessions'[c].responses = Append(r, [id |-> m.id, ok |-> FALSE]) /\ b = a
      BY <1>6, <2>1, <2>2 DEF Open, a, b
    <3>2. Numbers(a)
      BY <1>3 DEF Talks, Converses
    <3> QED BY <1>2, <1>3, <1>4, <1>6, <3>1, <3>2, OpenTalks DEF m
  <2>3. CASE ~pane.exit
    <3> DEFINE as == AttachmentsAfterOffer(c, m.size)
               x == as[c]
    <3>1. sessions'[c].responses = Append(r, [id |-> m.id, ok |-> TRUE])
      BY <1>6, <2>1, <2>3 DEF Open
    <3>2. Moved(a, x) /\ as \in Attachables
      BY OfferMove DEF a
    <3>3. b = ResizeIfNeeded(IF x = NoAttachment THEN Fresh(pane') ELSE x, pane')
      BY <1>6, <2>3, <3>2 DEF Open, b, Attachables
    <3>4. x \in Attachment \cup {NoAttachment}
      BY <3>2 DEF Attachables
    <3> HIDE DEF x, as
    <3>5. Talks(x, r, d, u, k)
      BY <1>3, <3>2, MovedTalks
    <3>6. Numbers(b) /\ (x = NoAttachment => b.snapshot_pending)
      <4>1. CASE x = NoAttachment
        <5>1. /\ Fresh(pane').acknowledged = Cleared(Len(pane'.screen))
              /\ Fresh(pane').snapshot_pending /\ Fresh(pane').next_frame_id = 1
              /\ Fresh(pane').outstanding = 0
          BY DEF Fresh
        <5>2. Len(Cleared(Len(pane'.screen))) = Len(pane'.screen)
          BY <1>1, ClearedRows DEF PaneOK, Pane
        <5>3. b = Fresh(pane')
          BY <3>3, <4>1, <5>1, <5>2 DEF ResizeIfNeeded
        <5> QED BY <5>1, <5>3 DEF Numbers
      <4>2. CASE x # NoAttachment
        <5>1. Moved(x, b)
          BY <1>1, <3>3, <3>4, <4>2, ResizeMove
        <5>2. Talks(b, r, d, u, k)
          BY <3>5, <5>1, MovedTalks
        <5> QED BY <4>2, <5>2 DEF Talks, Converses
      <4> QED BY <4>1, <4>2
    <3>7. u # <<>> /\ u[1].type = "open" /\ b \in Attachment \cup {NoAttachment}
      BY <1>2, <1>4, <1>6 DEF m
    <3>8. Talks(b, Append(r, [id |-> u[1].id, ok |-> TRUE]), d, Tail(u), k)
      BY <3>5, <3>6, <3>7, OpenTalks
    <3> QED BY <3>1, <3>8 DEF m
  <2> QED BY <2>2, <2>3
<1>7. CASE m.type = "resize" /\ Resize(c, m)
  <2>1. Talks(a, r, d, Tail(u), k)
    BY <1>2, <1>3, <1>7, OtherTalks DEF m
  <2>2. sessions'[c].responses = r
    BY <1>7 DEF Resize, r
  <2>3. CASE ~Attached(c) \/ lease \notin {Nobody, c}
    BY <1>7, <2>1, <2>2, <2>3 DEF Resize, a, b
  <2>4. CASE Attached(c) /\ lease \in {Nobody, c}
    <3> DEFINE as == AttachmentsAfterOffer(c, m.size)
    <3>1. Moved(a, as[c]) /\ as \in Attachables
      BY OfferMove DEF a
    <3>2. as[c] \in Attachment
      <4>1. a \in Attachment /\ a # NoAttachment
        BY <1>4, <2>4
      <4>2. [a EXCEPT !.observed = FALSE] \in Attachment
        BY <4>1 DEF Attachment
      <4>3. as[c] = a \/ as[c] = [a EXCEPT !.observed = FALSE]
        BY <4>1 DEF AttachmentsAfterOffer, Unobserved, a
      <4> QED BY <4>1, <4>2, <4>3
    <3>3. b = as[c] \/ b = ResizeIfNeeded(as[c], pane')
      BY <1>7, <2>4, <3>1 DEF Resize, b, Attachables
    <3> HIDE DEF as
    <3>4. Moved(as[c], b)
      <4>1. Moved(as[c], as[c])
        BY DEF Moved
      <4> QED BY <1>1, <3>2, <3>3, <4>1, ResizeMove
    <3>5. Talks(as[c], r, d, Tail(u), k)
      BY <2>1, <3>1, MovedTalks
    <3> QED BY <2>2, <3>4, <3>5, MovedTalks
  <2> QED BY <2>3, <2>4
<1>8. CASE m.type = "detach" /\ DetachPane(c)
  <2>1. b = NoAttachment /\ sessions'[c].responses = r
    BY <1>1, <1>8 DEF DetachPane, b, r, Attachables
  <2> QED BY <1>2, <1>3, <1>8, <2>1, DetachTalks DEF m
<1>9. CASE m.type = "ack" /\ Acknowledge(c, m)
  <2>1. sessions'[c].responses = r
    BY <1>9 DEF Acknowledge, r
  <2>2. CASE Attached(c) /\ a.outstanding = m.frame_id
    <3>1. b = [a EXCEPT !.acknowledged_frame_id = m.frame_id, !.outstanding = 0]
      BY <1>1, <1>9, <2>2 DEF Acknowledge, a, b, Attachables
    <3>2. a \in Attachment
      BY <1>4, <2>2
    <3> QED BY <1>2, <1>3, <1>9, <2>1, <2>2, <3>1, <3>2, AckTalks DEF m
  <2>3. CASE ~(Attached(c) /\ a.outstanding = m.frame_id)
    <3>1. b = a
      BY <1>9, <2>3 DEF Acknowledge, a, b
    <3> QED BY <1>2, <1>3, <1>9, <2>1, <3>1, OtherTalks DEF m
  <2> QED BY <2>2, <2>3
<1>10. CASE m.type = "snapshot" /\ RequestSnapshot(c)
  <2>1. Talks(a, r, d, Tail(u), k) /\ sessions'[c].responses = r
    BY <1>2, <1>3, <1>10, OtherTalks DEF m, RequestSnapshot, r
  <2>2. Moved(a, b)
    <3>1. CASE Attached(c)
      <4>1. b = [a EXCEPT !.snapshot_pending = TRUE]
        BY <1>1, <1>10, <3>1 DEF RequestSnapshot, a, b, Attachables
      <4> QED BY <1>4, <3>1, <4>1, FlagsMove
    <3>2. CASE ~Attached(c)
      BY <1>10, <3>2 DEF RequestSnapshot, Moved, a, b
    <3> QED BY <3>1, <3>2
  <2> QED BY <2>1, <2>2, MovedTalks
<1> QED BY <1>5, <1>6, <1>7, <1>8, <1>9, <1>10

(* The other clients only see the pane resized. *)
LEMMA ReceiveOthersStand ==
  ASSUME IInv, IInv', NEW c \in Clients, Receive(c), NEW x \in Clients, x # c
  PROVE  Stands(x)
<1>1. /\ attachments \in Attachables /\ sessions \in [Clients -> Session]
      /\ up \in [Clients -> Seq(Upward)]
  BY DEF IInv, Covered, Wire
<1>2. up'[x] = up[x] /\ down'[x] = down[x] /\ clients'[x] = clients[x]
  BY <1>1 DEF Receive
<1>3. PICK m : \/ Open(c, m) \/ Resize(c, m) \/ DetachPane(c) \/ Acknowledge(c, m)
               \/ RequestSnapshot(c)
  <2>1. Head(up[c]) \in Upward
    BY <1>1, Taken DEF Receive
  <2> QED BY <2>1, UpwardCases DEF Receive
<1>4. sessions'[x] = sessions[x]
  BY <1>1, <1>3 DEF Open, Resize, DetachPane, Acknowledge, RequestSnapshot
<1>5. Moved(attachments[x], AttachmentsAfterOffer(c, m.size)[x])
      /\ AttachmentsAfterOffer(c, m.size) \in Attachables
  BY OfferMove
<1>6. attachments'[x] = attachments[x] \/ attachments'[x] = AttachmentsAfterOffer(c, m.size)[x]
  <2>1. CASE DetachPane(c) \/ Acknowledge(c, m) \/ RequestSnapshot(c)
    BY <1>1, <2>1 DEF DetachPane, Acknowledge, RequestSnapshot, Attachables
  <2>2. CASE Open(c, m)
    BY <1>5, <2>2 DEF Open, Attachables
  <2>3. CASE Resize(c, m)
    BY <1>5, <2>3 DEF Resize, Attachables
  <2> QED BY <1>3, <2>1, <2>2, <2>3
<1>7. Moved(attachments[x], attachments'[x])
  BY <1>5, <1>6 DEF Moved
<1> QED BY <1>2, <1>4, <1>7 DEF Stands

(* The frame m makes the attachment b of a: its rows become the baseline's, *)
(* and it is whole or its base is the frame that was acknowledged.         *)
Sends(a, b, m) ==
  /\ a \in Attachment /\ b \in Attachment /\ m \in Downward /\ IsFrame(m)
  /\ m.frame_id = a.next_frame_id /\ m.size = Len(b.acknowledged)
  /\ b.next_frame_id = a.next_frame_id + 1 /\ b.outstanding = a.next_frame_id
  /\ ~b.snapshot_pending /\ b.exit_sent = a.exit_sent
  /\ \/ Whole(m) /\ \A x \in 1 .. m.size : b.acknowledged[x] = m.cells[x]
     \/ /\ a.outstanding = 0 /\ ~a.snapshot_pending /\ m.base = a.acknowledged_frame_id
        /\ Len(a.acknowledged) = m.size
        /\ \A x \in 1 .. m.size :
             b.acknowledged[x] = IF x \in DOMAIN m.cells THEN m.cells[x] ELSE a.acknowledged[x]

(* SendFrame sends such a frame. *)
LEMMA SendFrameSends ==
  ASSUME IInv, NEW c \in Clients, Attached(c), SameSize(attachments[c]),
         NEW base, NEW rows \in SUBSET DOMAIN pane.screen, NEW paced \in BOOLEAN,
         SendFrame(c, base, rows, paced),
         \/ base = 0 /\ rows = DOMAIN pane.screen
         \/ /\ base = attachments[c].acknowledged_frame_id
            /\ attachments[c].outstanding = 0 /\ ~attachments[c].snapshot_pending
  PROVE  \E m : Sends(attachments[c], attachments'[c], m) /\ down'[c] = Append(down[c], m)
<1> DEFINE a == attachments[c]
           b == attachments'[c]
           s == NowRendered.screen
           t == [i \in DOMAIN a.acknowledged |-> IF i \in rows THEN s[i] ELSE a.acknowledged[i]]
           m == [type |-> "frame", frame_id |-> a.next_frame_id, base |-> base,
                 size |-> Len(s), cells |-> [i \in rows |-> s[i]]]
<1>1. /\ Covered(NowRendered, NowAttachments) /\ Len(s) = Len(pane.screen)
  BY NowCovers DEF IInv
<1>2. a \in Attachment /\ NowAttachments \in Attachables
  BY <1>1 DEF IInv, Covered, Attachables, Attached
<1>3. /\ s \in Seq(Values) /\ Len(s) \in Sizes /\ Len(s) \in Nat
      /\ a.acknowledged \in Seq(Values) /\ Len(a.acknowledged) = Len(s)
      /\ DOMAIN a.acknowledged = 1 .. Len(s) /\ DOMAIN pane.screen = 1 .. Len(s)
  BY <1>1, <1>2 DEF IInv, Covered, PaneOK, Pane, Attachment, SameSize
<1>4. b = [a EXCEPT !.acknowledged = t, !.observed = TRUE, !.next_frame_id = a.next_frame_id + 1,
                    !.outstanding = a.next_frame_id, !.snapshot_pending = FALSE,
                    !.paced = paced, !.deadline = FALSE]
  BY <1>2 DEF SendFrame, Attachables
<1>5. Send(c, m, FALSE)
  BY DEF SendFrame
<1> HIDE DEF s
<1>6. \A i \in 1 .. Len(s) : s[i] \in Values /\ a.acknowledged[i] \in Values
  BY <1>3
<1>7. m \in Downward
  <2>1. [i \in rows |-> s[i]] \in [rows -> Values]
    BY <1>3, <1>6
  <2>2. rows \in SUBSET Rows
    BY <1>3 DEF Rows
  <2>3. a.next_frame_id \in Nat /\ base \in Nat
    BY <1>2 DEF Attachment
  <2>4. ASSUME NEW f \in Nat, NEW g \in Nat, NEW n \in Sizes, NEW x \in [rows -> Values]
        PROVE  [type |-> "frame", frame_id |-> f, base |-> g, size |-> n, cells |-> x] \in Downward
    BY <2>2 DEF Downward
  <2> QED BY <1>3, <2>1, <2>3, <2>4
<1>8. /\ IsFrame(m) /\ m.frame_id = a.next_frame_id /\ m.size = Len(s) /\ m.base = base
      /\ DOMAIN m.cells = rows /\ \A i \in rows : m.cells[i] = s[i]
  BY DEF IsFrame
<1> HIDE DEF m
<1>9. t \in Seq(Values) /\ Len(t) = Len(s)
  <2>1. t \in [1 .. Len(s) -> Values]
    BY <1>3, <1>6
  <2> HIDE DEF t
  <2> QED BY <1>3, <2>1
<1>10. \A i \in 1 .. Len(s) : t[i] = IF i \in rows THEN s[i] ELSE a.acknowledged[i]
  BY <1>3
<1> HIDE DEF t
<1>11. /\ b \in Attachment /\ b.acknowledged = t /\ b.next_frame_id = a.next_frame_id + 1
       /\ b.outstanding = a.next_frame_id /\ ~b.snapshot_pending /\ b.exit_sent = a.exit_sent
  <2>1. ASSUME NEW f \in Nat, NEW o \in Nat
        PROVE  [a EXCEPT !.acknowledged = t, !.observed = TRUE, !.next_frame_id = f,
                         !.outstanding = o, !.snapshot_pending = FALSE, !.paced = paced,
                         !.deadline = FALSE] \in Attachment
    BY <1>2, <1>9 DEF Attachment
  <2>2. a.next_frame_id \in Nat /\ a.next_frame_id + 1 \in Nat
    BY <1>2 DEF Attachment
  <2> HIDE DEF a, b
  <2>3. [a EXCEPT !.acknowledged = t, !.observed = TRUE, !.next_frame_id = a.next_frame_id + 1,
                  !.outstanding = a.next_frame_id, !.snapshot_pending = FALSE, !.paced = paced,
                  !.deadline = FALSE] \in Attachment
    BY <2>1, <2>2
  <2>4. b \in Attachment
    BY <1>4, <2>3
  <2> QED BY <1>2, <1>4, <2>4 DEF Attachment
<1> HIDE DEF a, b
<1>12. \/ Whole(m) /\ \A x \in 1 .. m.size : b.acknowledged[x] = m.cells[x]
       \/ /\ a.outstanding = 0 /\ ~a.snapshot_pending /\ m.base = a.acknowledged_frame_id
          /\ Len(a.acknowledged) = m.size
          /\ \A x \in 1 .. m.size :
               b.acknowledged[x] = IF x \in DOMAIN m.cells THEN m.cells[x] ELSE a.acknowledged[x]
  <2>1. CASE base = 0 /\ rows = DOMAIN pane.screen
    BY <1>3, <1>8, <1>10, <1>11, <2>1 DEF Whole
  <2>2. CASE /\ base = attachments[c].acknowledged_frame_id
             /\ attachments[c].outstanding = 0 /\ ~attachments[c].snapshot_pending
    BY <1>3, <1>8, <1>10, <1>11, <2>2 DEF a
  <2> QED BY <2>1, <2>2
<1>13. down'[c] = Append(down[c], m)
  BY <1>5 DEF Send, IInv, Wire
<1>14. Sends(a, b, m)
  BY <1>2, <1>7, <1>8, <1>9, <1>11, <1>12 DEF Sends
<1> QED BY <1>13, <1>14 DEF a, b

(* A snapshot, or a patch of the rows that differ. *)
LEMMA SendCells ==
  ASSUME IInv, NEW c \in Clients, SendSnapshot(c) \/ SendPatch(c)
  PROVE  /\ \E m : Sends(attachments[c], attachments'[c], m) /\ down'[c] = Append(down[c], m)
         /\ up' = up /\ clients' = clients /\ sessions'[c].responses = sessions[c].responses
<1>1. Attached(c) /\ SameSize(attachments[c])
  BY DEF SendSnapshot, SendPatch, Offered
<1>2. ASSUME NEW base, NEW rows, NEW paced, SendFrame(c, base, rows, paced)
      PROVE  up' = up /\ clients' = clients /\ sessions'[c].responses = sessions[c].responses
  BY <1>2 DEF SendFrame, Send, IInv, Wire, Session
<1>3. CASE SendSnapshot(c)
  <2>1. attachments[c].paced \in BOOLEAN
    BY <1>1 DEF IInv, Covered, Attachables, Attached, Attachment
  <2>2. SendFrame(c, 0, DOMAIN pane.screen, attachments[c].paced)
    BY <1>3 DEF SendSnapshot
  <2> QED BY <1>1, <1>2, <2>1, <2>2, SendFrameSends
<1>4. CASE SendPatch(c)
  <2>1. ~attachments[c].snapshot_pending /\ attachments[c].outstanding = 0
    BY <1>4 DEF SendPatch, PatchDue, PatchWanted
  <2>2. PICK paced \in BOOLEAN :
          \/ SendFrame(c, attachments[c].acknowledged_frame_id, Damage(attachments[c]), paced)
          \/ SendFrame(c, 0, DOMAIN pane.screen, paced)
    BY <1>4 DEF SendPatch
  <2>3. CASE SendFrame(c, attachments[c].acknowledged_frame_id, Damage(attachments[c]), paced)
    <3>1. Damage(attachments[c]) \in SUBSET DOMAIN pane.screen
      BY <1>1, <2>1, DamageExact DEF IInv
    <3> QED BY <1>1, <1>2, <2>1, <2>3, <3>1, SendFrameSends
  <2>4. CASE SendFrame(c, 0, DOMAIN pane.screen, paced)
    BY <1>1, <1>2, <2>4, SendFrameSends
  <2> QED BY <2>2, <2>3, <2>4
<1> QED BY <1>3, <1>4

(* The conversation goes on. *)
LEMMA SendCellsTalk ==
  ASSUME IInv, NEW c \in Clients, Holds(c), SendSnapshot(c) \/ SendPatch(c)
  PROVE  Holds(c)'
<1>1. PICK m : Sends(attachments[c], attachments'[c], m) /\ down'[c] = Append(down[c], m)
  BY SendCells
<1>2. up' = up /\ clients' = clients /\ sessions'[c].responses = sessions[c].responses
  BY SendCells
<1>3. Talks(attachments'[c], sessions[c].responses, Append(down[c], m), up[c], clients[c])
  BY <1>1, FrameTalks DEF Holds, Sends
<1> QED BY <1>1, <1>2, <1>3 DEF Holds

(* The flush has nothing for c, and time passes. *)
LEMMA IdleStands ==
  ASSUME IInv, NEW c \in Clients, ObserveUnchanged(c) \/ SendNothing(c) \/ PaceElapses(c)
  PROVE  Stands(c)
<1> DEFINE a == attachments[c]
<1>1. /\ attachments \in Attachables /\ NowAttachments \in Attachables
      /\ sessions \in [Clients -> Session]
  BY NowCovers DEF IInv, Covered, Wire
<1>2. a = NoAttachment \/ a \in Attachment
  BY <1>1 DEF Attachables
<1>3. /\ down' = down /\ up' = up /\ clients' = clients
      /\ sessions'[c].responses = sessions[c].responses
      /\ sessions'[c].send_pending = sessions[c].send_pending
      /\ sessions'[c].detach = sessions[c].detach
  <2>1. CASE ObserveUnchanged(c) \/ PaceElapses(c)
    BY <2>1 DEF ObserveUnchanged, PaceElapses, clientSide
  <2>2. CASE SendNothing(c)
    BY <1>1, <2>2 DEF SendNothing, clientSide, Session
  <2> QED BY <2>1, <2>2
<1>4. CASE ObserveUnchanged(c)
  <2>1. a \in Attachment
    BY <1>2, <1>4 DEF ObserveUnchanged, Offered, Attached
  <2>2. PICK x \in BOOLEAN :
          attachments'[c] = [a EXCEPT !.observed = TRUE, !.paced = x, !.deadline = FALSE]
    BY <1>1, <1>4 DEF ObserveUnchanged, Attachables
  <2> QED BY <1>3, <2>1, <2>2, FlagsMove DEF Stands
<1>5. CASE SendNothing(c) /\ Offered(c)
  <2>1. a \in Attachment
    BY <1>2, <1>5 DEF Offered, Attached
  <2>2. attachments'[c] = [a EXCEPT !.deadline = Throttled(a)] /\ Throttled(a) \in BOOLEAN
    BY <1>1, <1>5 DEF SendNothing, Attachables, Throttled, PatchWanted
  <2>3. Moved(a, attachments'[c])
    BY <2>1, <2>2, FlagsMove
  <2> QED BY <1>3, <2>3 DEF Stands
<1>6. CASE SendNothing(c) /\ ~Offered(c)
  BY <1>3, <1>6 DEF SendNothing, Moved, Stands
<1>7. CASE PaceElapses(c)
  <2>1. a \in Attachment /\ attachments'[c] = [a EXCEPT !.paced = FALSE]
    BY <1>1, <1>2, <1>7 DEF PaceElapses, Attached, Attachables
  <2> QED BY <1>3, <2>1, FlagsMove DEF Stands
<1> QED BY <1>4, <1>5, <1>6, <1>7

(* The rest of the flush for c, and the end of a write. *)
LEMMA PumpTalks ==
  ASSUME IInv, NEW c \in Clients, Holds(c), SendExit(c) \/ SendResponse(c) \/ SendDone(c)
  PROVE  Holds(c)'
<1> DEFINE a == attachments[c]
           r == sessions[c].responses
<1>1. /\ attachments \in Attachables /\ NowAttachments \in Attachables
      /\ sessions \in [Clients -> Session] /\ down \in [Clients -> Seq(Downward)]
  BY NowCovers DEF IInv, Covered, Wire
<1>2. a = NoAttachment \/ a \in Attachment
  BY <1>1 DEF Attachables
<1>3. Talks(a, r, down[c], up[c], clients[c])
  BY DEF Holds
<1>4. CASE SendExit(c)
  <2>1. Attached(c) /\ a \in Attachment
    BY <1>2, <1>4 DEF SendExit, Offered, Attached
  <2>2. attachments'[c] = [a EXCEPT !.exit_sent = TRUE, !.deadline = FALSE]
    BY <1>1, <1>4 DEF SendExit, Attachables
  <2>3. attachments'[c] \in Attachment /\ Drift(a, attachments'[c])
    BY <2>1, <2>2 DEF Drift, Attachment
  <2> DEFINE m == [type |-> "exited"]
  <2>4. /\ down'[c] = Append(down[c], m) /\ up' = up /\ clients' = clients
        /\ sessions'[c].responses = r
    BY <1>1, <1>4 DEF SendExit, Send, Session
  <2>5. m \in Downward /\ m.type = "exited"
    BY DEF Downward
  <2> HIDE DEF m
  <2>6. r \in Seq(Answer)
    BY <1>3 DEF Talks
  <2>7. Talks(a, r, Append(down[c], m), up[c], clients[c])
    BY <1>3, <2>5, <2>6, PlainTalks
  <2>8. Talks(attachments'[c], r, Append(down[c], m), up[c], clients[c])
    BY <2>1, <2>3, <2>7, DriftTalks
  <2> QED BY <2>4, <2>8 DEF Holds
<1>5. CASE SendResponse(c)
  <2>1. r \in Seq(Answer) /\ r # <<>>
    BY <1>3, <1>5 DEF Talks, SendResponse
  <2>2. /\ Head(r) = r[1] /\ Head(r) \in Answer /\ Tail(r) \in Seq(Answer) /\ 1 \in 1 .. Len(r)
        /\ \A i \in 1 .. Len(Tail(r)) : \E j \in 1 .. Len(r) : Tail(r)[i] = r[j]
    <3>1. /\ Len(r) \in Nat /\ Len(r) > 0 /\ Head(r) = r[1] /\ Head(r) \in Answer
          /\ Tail(r) \in Seq(Answer)
          /\ \A i \in 1 .. Len(Tail(r)) : i + 1 \in 1 .. Len(r) /\ Tail(r)[i] = r[i + 1]
      BY <2>1, Taken
    <3> HIDE DEF r
    <3> QED BY <3>1
  <2> DEFINE m == [type |-> "opened", id |-> r[1].id, ok |-> r[1].ok]
  <2>3. m \in Downward /\ m.type = "opened" /\ m.id = r[1].id /\ m.ok = r[1].ok
    BY <2>2 DEF Downward, Answer
  <2>4. /\ down'[c] = Append(down[c], m) /\ up' = up /\ clients' = clients
        /\ attachments' = attachments /\ sessions'[c].responses = Tail(r)
    BY <1>1, <1>5, <2>2 DEF SendResponse, Session
  <2> HIDE DEF m
  <2>5. Talks(a, Tail(r), Append(down[c], m), up[c], clients[c])
    <3>1. m.type = "opened" /\ \E j \in 1 .. Len(r) : m.id = r[j].id /\ m.ok = r[j].ok
      BY <2>2, <2>3
    <3>2. /\ Tail(r) \in Seq(Answer) /\ m \in Downward
          /\ \A i \in 1 .. Len(Tail(r)) : \E j \in 1 .. Len(r) : Tail(r)[i] = r[j]
      BY <2>2, <2>3
    <3> QED BY ONLY <1>3, <3>1, <3>2, PlainTalks
  <2> QED BY <2>4, <2>5 DEF Holds
<1>6. CASE SendDone(c)
  <2>1. /\ down' = down /\ up' = up /\ clients' = clients
        /\ sessions'[c].responses = r
    BY <1>1, <1>6 DEF SendDone, clientSide, Session
  <2>2. Moved(a, attachments'[c])
    BY <1>1, <1>6 DEF SendDone, Moved, Attachables
  <2> QED BY <1>3, <2>1, <2>2, MovedTalks DEF Holds
<1> QED BY <1>4, <1>5, <1>6

(* The other clients meanwhile see the pane rendered. *)
LEMMA PumpOthersStand ==
  ASSUME IInv, NEW c \in Clients, NEW x \in Clients, x # c,
         \/ SendSnapshot(c) \/ SendPatch(c) \/ ObserveUnchanged(c)
         \/ SendExit(c) \/ SendResponse(c) \/ SendNothing(c) \/ PaceElapses(c) \/ SendDone(c)
  PROVE  Stands(x)
<1>1. /\ attachments \in Attachables /\ NowAttachments \in Attachables
      /\ sessions \in [Clients -> Session] /\ down \in [Clients -> Seq(Downward)]
  BY NowCovers DEF IInv, Covered, Wire
<1>2. Moved(attachments[x], NowAttachments[x])
  BY <1>1, UnobservedMove DEF NowAttachments, Moved
<1>3. CASE SendSnapshot(c) \/ SendPatch(c)
  <2>1. PICK base, rows, paced : SendFrame(c, base, rows, paced)
    BY <1>3 DEF SendSnapshot, SendPatch
  <2>2. /\ attachments'[x] = NowAttachments[x] /\ down'[x] = down[x] /\ up' = up
        /\ clients' = clients /\ sessions'[x] = sessions[x]
    BY <1>1, <2>1 DEF SendFrame, Send, Attachables
  <2> QED BY <1>2, <2>2 DEF Stands
<1>4. CASE ObserveUnchanged(c)
  <2>1. /\ attachments'[x] = NowAttachments[x] /\ down' = down /\ up' = up
        /\ clients' = clients /\ sessions' = sessions
    BY <1>1, <1>4 DEF ObserveUnchanged, Attachables, clientSide
  <2> QED BY <1>2, <2>1 DEF Stands
<1>5. CASE SendExit(c) \/ SendResponse(c) \/ SendNothing(c) \/ PaceElapses(c) \/ SendDone(c)
  <2>1. /\ attachments'[x] = attachments[x] /\ down'[x] = down[x] /\ up' = up
        /\ clients' = clients /\ sessions'[x] = sessions[x]
    BY <1>1, <1>5 DEF SendExit, Send, SendResponse, SendNothing, PaceElapses, SendDone,
                      Attachables, clientSide
  <2> QED BY <2>1 DEF Stands, Moved
<1> QED BY <1>3, <1>4, <1>5

(* What the clients do. *)
LEMMA ClientTalks ==
  ASSUME IInv, NEW c \in Clients, Holds(c),
         Deliver(c) \/ DeliverFails(c) \/ AskOpen(c) \/ AskDetach(c) \/ AskResize(c)
  PROVE  Holds(c)'
<1> DEFINE a == attachments[c]
           r == sessions[c].responses
           d == down[c]
           u == up[c]
           k == clients[c]
<1>1. /\ down \in [Clients -> Seq(Downward)] /\ up \in [Clients -> Seq(Upward)]
      /\ clients \in [Clients -> ClientPane]
  BY DEF IInv, Wire
<1>2. Talks(a, r, d, u, k)
  BY DEF Holds
<1>3. attachments' = attachments /\ sessions' = sessions
  BY DEF Deliver, DeliverFails, AskOpen, AskDetach, AskResize
<1> SUFFICES Talks(a, r, down'[c], up'[c], clients'[c])
  BY <1>3 DEF Holds
<1>4. CASE Deliver(c)
  <2>1. /\ d # <<>> /\ down'[c] = Tail(d) /\ up'[c] = u \o Reply(k, Head(d))
        /\ clients'[c] = Received(k, Head(d))
    BY <1>1, <1>4 DEF Deliver
  <2> QED BY <1>2, <2>1, DeliverTalks
<1>5. CASE DeliverFails(c)
  <2> DEFINE m == [type |-> "snapshot"]
  <2>1. /\ d # <<>> /\ down'[c] = Tail(d) /\ up'[c] = Append(u, m) /\ clients'[c] = k /\ k.attached
    BY <1>1, <1>5 DEF DeliverFails, Applies
  <2>2. m \in Upward /\ m.type \in {"resize", "snapshot"}
    BY DEF Upward
  <2> HIDE DEF m
  <2>3. Talks(a, r, Tail(d), u, k)
    BY <1>2, <2>1, ReadTalks
  <2> QED BY <2>1, <2>2, <2>3, AskTalks
<1>6. CASE AskOpen(c)
  <2>1. PICK n \in Sizes : up' = [up EXCEPT ![c] = Append(@, [type |-> "open", id |-> k.next_request, size |-> n])]
    BY <1>6 DEF AskOpen
  <2> DEFINE m == [type |-> "open", id |-> k.next_request, size |-> n]
  <2>2. /\ ~k.attached /\ k.awaiting = 0 /\ ~k.gone /\ down'[c] = d /\ up'[c] = Append(u, m)
        /\ clients'[c] = [k EXCEPT !.awaiting = k.next_request, !.next_request = @ + 1]
    BY <1>1, <1>6, <2>1 DEF AskOpen
  <2>3. k.next_request \in Nat
    BY <1>1 DEF ClientPane
  <2>4. m \in Upward /\ m.type = "open" /\ m.id = k.next_request
    BY <2>3 DEF Upward
  <2> HIDE DEF m, a, r, d, u, k
  <2>5. Talks(a, r, d, Append(u, m), [k EXCEPT !.awaiting = k.next_request, !.next_request = @ + 1])
    BY <1>2, <2>2, <2>4, AskOpenTalks, Zenon
  <2> QED BY <2>2, <2>5, Zenon
<1>7. CASE AskDetach(c)
  <2> DEFINE m == [type |-> "detach"]
  <2>1. /\ down'[c] = d /\ up'[c] = Append(u, m)
        /\ clients'[c] = [k EXCEPT !.attached = FALSE, !.awaiting = 0]
    BY <1>1, <1>7 DEF AskDetach
  <2>2. m \in Upward /\ m.type = "detach"
    BY DEF Upward
  <2> HIDE DEF m, a, r, d, u, k
  <2>3. Talks(a, r, d, Append(u, m), [k EXCEPT !.attached = FALSE, !.awaiting = 0])
    BY <1>2, <2>2, AskDetachTalks, Zenon
  <2> QED BY <2>1, <2>3, Zenon
<1>8. CASE AskResize(c)
  <2>1. PICK n \in Sizes : up' = [up EXCEPT ![c] = Append(@, [type |-> "resize", size |-> n])]
    BY <1>8 DEF AskResize
  <2> DEFINE m == [type |-> "resize", size |-> n]
  <2>2. k.attached /\ down'[c] = d /\ up'[c] = Append(u, m) /\ clients'[c] = k
    BY <1>1, <1>8, <2>1 DEF AskResize
  <2>3. m \in Upward /\ m.type \in {"resize", "snapshot"}
    BY DEF Upward
  <2> HIDE DEF m
  <2> QED BY <1>2, <2>2, <2>3, AskTalks
<1> QED BY <1>4, <1>5, <1>6, <1>7, <1>8

(* One client never touches the conversation of another. *)
LEMMA ClientOthersStand ==
  ASSUME IInv, NEW c \in Clients, NEW x \in Clients, x # c,
         Deliver(c) \/ DeliverFails(c) \/ AskOpen(c) \/ AskDetach(c) \/ AskResize(c)
  PROVE  Stands(x)
<1>1. /\ down \in [Clients -> Seq(Downward)] /\ up \in [Clients -> Seq(Upward)]
      /\ clients \in [Clients -> ClientPane]
  BY DEF IInv, Wire
<1>2. /\ attachments' = attachments /\ sessions' = sessions
      /\ down'[x] = down[x] /\ up'[x] = up[x] /\ clients'[x] = clients[x]
  BY <1>1 DEF Deliver, DeliverFails, AskOpen, AskDetach, AskResize
<1> QED BY <1>2 DEF Stands, Moved

--------------------------------------------------------------------------------
(* The screen and the baselines                                            *)

(* Renders and resizes show the terminal. *)
LEMMA ShowsTerminal ==
  ASSUME NEW p \in Pane
  PROVE  /\ Rendered(p).screen = Rendered(p).terminal
         /\ \A n : Resized(p, n).screen = Resized(p, n).terminal
         /\ \A i, v, s : Ingested(p, i, v, s).render_pending
<1>1. Rendered(p).screen = Rendered(p).terminal
  BY DEF Rendered, Pane
<1>2. \A n : Resized(p, n).screen = Resized(p, n).terminal
  BY DEF Resized, Pane
<1>3. \A i, v, s : Ingested(p, i, v, s).render_pending
  BY DEF Ingested, Pane
<1> QED BY <1>1, <1>2, <1>3

(* Every step keeps the screen that needs no rendering up to date. *)
LEMMA NextShown ==
  ASSUME IInv, IInv', Shown, [Next]_vars
  PROVE  Shown'
<1>1. pane \in Pane
  BY DEF IInv, Covered, PaneOK
<1>2. CASE pane' = pane
  BY <1>2 DEF Shown
<1>3. CASE pane' = NowRendered
  BY <1>1, <1>3, ShowsTerminal DEF Shown, NowRendered
<1>4. CASE InlineOutput \/ FinishIngest
  <2>1. PICK i \in DOMAIN pane.terminal, v \in Values, s \in SyncModes :
          AfterIngest(Ingested(pane, i, v, s))
    BY <1>4 DEF InlineOutput, FinishIngest
  <2> DEFINE q == Ingested(pane, i, v, s)
  <2>2. q \in Pane
    BY IngestCovers DEF SyncModes, IInv, Covered, PaneOK
  <2>3. q.render_pending
    BY <1>1, ShowsTerminal
  <2> HIDE DEF q
  <2>4. pane' = q \/ \E n : pane' = Resized(q, n)
    BY <2>1 DEF AfterIngest, q
  <2> QED BY <2>2, <2>3, <2>4, ShowsTerminal DEF Shown
<1>5. CASE StartIngest \/ EndOutput \/ ChildExits \/ HoldExpires \/ Settle
  <2>1. /\ pane'.screen = pane.screen /\ pane'.terminal = pane.terminal
        /\ pane'.render_pending = pane.render_pending
    BY <1>1, <1>5 DEF StartIngest, EndOutput, ChildExits, HoldExpires, Settle, Pane
  <2> QED BY <2>1 DEF Shown
<1>6. ASSUME NEW c \in Clients, Receive(c) PROVE Shown'
  <2>1. PICK m : \/ Open(c, m) \/ Resize(c, m) \/ DetachPane(c) \/ Acknowledge(c, m)
                 \/ RequestSnapshot(c)
    <3>1. Head(up[c]) \in Upward
      BY <1>6, Taken DEF Receive, IInv, Wire
    <3> QED BY <1>6, <3>1, UpwardCases DEF Receive
  <2>2. pane' = pane \/ \E n : pane' = PaneAfterOffer(c, n)
    BY <2>1 DEF Open, Resize, DetachPane, Acknowledge, RequestSnapshot
  <2>3. ASSUME NEW n, pane' = PaneAfterOffer(c, n) PROVE Shown'
    <3>1. CASE pane' = [pane EXCEPT !.pending_size = n]
      <4>1. /\ pane'.screen = pane.screen /\ pane'.terminal = pane.terminal
            /\ pane'.render_pending = pane.render_pending
        BY <1>1, <3>1 DEF Pane
      <4> QED BY <4>1 DEF Shown
    <3>2. CASE pane' = Resized(pane, n)
      BY <1>1, <3>2, ShowsTerminal DEF Shown
    <3> QED BY <1>2, <2>3, <3>1, <3>2 DEF PaneAfterOffer
  <2> QED BY <1>2, <2>2, <2>3
<1>7. ASSUME NEW c \in Clients, SendSnapshot(c) \/ SendPatch(c) \/ ObserveUnchanged(c)
      PROVE  pane' = NowRendered
  BY <1>7 DEF SendSnapshot, SendPatch, ObserveUnchanged, SendFrame
<1>8. ASSUME NEW c \in Clients,
             \/ SendExit(c) \/ SendResponse(c) \/ SendNothing(c) \/ PaceElapses(c) \/ SendDone(c)
             \/ Deliver(c) \/ DeliverFails(c) \/ AskOpen(c) \/ AskDetach(c) \/ AskResize(c)
      PROVE  pane' = pane
  BY <1>8 DEF SendExit, SendResponse, SendNothing, PaceElapses, SendDone, Deliver, DeliverFails,
              AskOpen, AskDetach, AskResize
<1>9. CASE TimerDue \/ Tick \/ UNCHANGED vars
  BY <1>2, <1>9 DEF TimerDue, Tick, vars
<1> QED BY <1>2, <1>3, <1>4, <1>5, <1>6, <1>7, <1>8, <1>9 DEF Next

(* The baseline of an attachment that observed p has its size. *)
Measured(p, a) == a # NoAttachment /\ a.observed => Len(a.acknowledged) = Len(p.screen)

(* An attachment that follows the pane has its size. *)
LEMMA ResizeMeasured ==
  ASSUME NEW a \in Attachment, NEW p, PaneOK(p)
  PROVE  Measured(p, ResizeIfNeeded(a, p))
<1>1. Len(Cleared(Len(p.screen))) = Len(p.screen)
  BY ClearedRows DEF PaneOK, Pane
<1>2. CASE Len(a.acknowledged) = Len(p.screen)
  BY <1>2 DEF ResizeIfNeeded, Measured
<1>3. CASE Len(a.acknowledged) # Len(p.screen)
  <2>1. ResizeIfNeeded(a, p).acknowledged = Cleared(Len(p.screen))
    BY <1>3 DEF ResizeIfNeeded, Attachment
  <2> QED BY <1>1, <2>1 DEF Measured
<1> QED BY <1>2, <1>3

(* Nobody has observed a screen that has just been rendered or resized. *)
LEMMA UnobservedMeasured ==
  ASSUME NEW as \in Attachables, NEW p, NEW c \in Clients
  PROVE  Measured(p, Unobserved(as)[c])
  BY DEF Attachables, Unobserved, Measured, Attachment

(* Every step keeps the sizes. *)
LEMMA NextSized ==
  ASSUME IInv, IInv', Sized, [Next]_vars
  PROVE  Sized'
<1> SUFFICES ASSUME NEW x \in Clients PROVE Measured(pane', attachments'[x])
  BY DEF Sized, Measured, Attached, SameSize
<1>1. Measured(pane, attachments[x])
  BY DEF Sized, Measured, Attached, SameSize
<1>2. /\ attachments \in Attachables /\ attachments' \in Attachables
      /\ NowAttachments \in Attachables
      /\ PaneOK(pane) /\ PaneOK(pane') /\ pane \in Pane
      /\ Len(NowRendered.screen) = Len(pane.screen)
  BY NowCovers DEF IInv, Covered, PaneOK
<1>3. attachments[x] = NoAttachment \/ attachments[x] \in Attachment
  BY <1>2 DEF Attachables
<1>4. CASE /\ pane'.screen = pane.screen
           /\ \/ attachments'[x] = attachments[x] \/ attachments'[x] = NoAttachment
              \/ /\ attachments[x] # NoAttachment
                 /\ attachments'[x].observed = attachments[x].observed
                 /\ attachments'[x].acknowledged = attachments[x].acknowledged
  BY <1>1, <1>4 DEF Measured
<1>5. Measured(NowRendered, NowAttachments[x])
  BY <1>1, <1>2, UnobservedMeasured DEF NowRendered, NowAttachments
<1>6. CASE InlineOutput \/ FinishIngest
  <2>1. PICK q : AfterIngest(q)
    BY <1>6 DEF InlineOutput, FinishIngest
  <2> DEFINE as == IF q.pending_size # 0 THEN Unobserved(attachments) ELSE attachments
  <2>2. CASE Attached(x)
    <3>1. attachments[x] \in Attachment /\ attachments[x] # NoAttachment
      BY <1>3, <2>2 DEF Attached
    <3>2. [attachments[x] EXCEPT !.observed = FALSE] \in Attachment
      BY <3>1 DEF Attachment
    <3>3. as[x] \in Attachment
      BY <3>1, <3>2 DEF Unobserved
    <3>4. attachments'[x] = ResizeIfNeeded(as[x], pane')
      BY <2>1, <2>2 DEF AfterIngest
    <3> QED BY <1>2, <3>3, <3>4, ResizeMeasured
  <2>3. CASE ~Attached(x)
    BY <2>1, <2>3 DEF AfterIngest, Measured
  <2> QED BY <2>2, <2>3
<1>7. CASE \/ StartIngest \/ EndOutput \/ ChildExits \/ HoldExpires \/ Settle \/ TimerDue \/ Tick
           \/ UNCHANGED vars
  <2>1. pane'.screen = pane.screen /\ attachments' = attachments
    BY <1>2, <1>7 DEF StartIngest, EndOutput, ChildExits, HoldExpires, Settle, TimerDue, Tick, vars, Pane
  <2> QED BY <1>4, <2>1
<1>8. ASSUME NEW c \in Clients, Receive(c) PROVE Measured(pane', attachments'[x])
  <2>1. PICK m \in Upward : \/ Open(c, m) \/ Resize(c, m) \/ DetachPane(c)
                 \/ Acknowledge(c, m) \/ RequestSnapshot(c)
    <3>1. Head(up[c]) \in Upward
      BY <1>8, Taken DEF Receive, IInv, Wire
    <3> QED BY <1>8, <3>1, UpwardCases DEF Receive
  <2>2. CASE DetachPane(c) \/ Acknowledge(c, m) \/ RequestSnapshot(c)
    <3>1. pane' = pane
      BY <2>2 DEF DetachPane, Acknowledge, RequestSnapshot
    <3>2. CASE attachments'[x] = attachments[x] \/ attachments'[x] = NoAttachment
      BY <1>4, <3>1, <3>2
    <3>3. CASE attachments'[x] # attachments[x] /\ attachments'[x] # NoAttachment
      <4>1. x = c /\ Attached(c) /\ attachments[x] \in Attachment /\ attachments[x] # NoAttachment
        BY <1>2, <1>3, <2>2, <3>3 DEF DetachPane, Acknowledge, RequestSnapshot, Attachables, Attached
      <4>2. /\ attachments'[x].observed = attachments[x].observed
            /\ attachments'[x].acknowledged = attachments[x].acknowledged
        BY <1>2, <2>2, <3>3, <4>1 DEF DetachPane, Acknowledge, RequestSnapshot, Attachables, Attachment
      <4> QED BY <1>4, <3>1, <4>1, <4>2
    <3> QED BY <3>2, <3>3
  <2>3. CASE (Open(c, m) /\ pane.exit) \/ (Resize(c, m) /\ (~Attached(c) \/ lease \notin {Nobody, c}))
    BY <1>4, <2>3 DEF Open, Resize
  <2>4. CASE (Open(c, m) /\ ~pane.exit) \/ (Resize(c, m) /\ Attached(c) /\ lease \in {Nobody, c})
    <3> DEFINE as == AttachmentsAfterOffer(c, m.size)
    <3>1. as \in Attachables
      BY OfferMove
    <3>2. pane' = PaneAfterOffer(c, m.size)
      BY <2>4 DEF Open, Resize
    <3>3. Measured(pane', as[x])
      <4>1. CASE Offers(c, m.size) /\ ~pane.ingest_pending
        BY <1>2, <3>2, <4>1, UnobservedMeasured DEF AttachmentsAfterOffer
      <4>2. CASE ~(Offers(c, m.size) /\ ~pane.ingest_pending)
        <5>1. pane'.screen = pane.screen
          BY <1>2, <3>2, <4>2 DEF PaneAfterOffer, Pane
        <5>2. as[x] = attachments[x]
          BY <4>2 DEF AttachmentsAfterOffer
        <5> QED BY <1>1, <5>1, <5>2 DEF Measured
      <4> QED BY <4>1, <4>2
    <3>4. CASE attachments'[x] = as[x]
      BY <3>3, <3>4
    <3>5. CASE attachments'[x] # as[x]
      <4>1. x = c
        BY <2>4, <3>1, <3>5 DEF Open, Resize, Attachables
      <4>2. PICK a : (a = Fresh(pane') \/ (a = as[x] /\ a # NoAttachment))
                     /\ attachments'[x] = ResizeIfNeeded(a, pane')
        <5>1. CASE Open(c, m) /\ ~pane.exit
          <6>1. attachments'[x] = ResizeIfNeeded(IF as[x] = NoAttachment THEN Fresh(pane') ELSE as[x], pane')
            BY <3>1, <4>1, <5>1 DEF Open, Attachables
          <6> QED BY <6>1
        <5>2. CASE Resize(c, m) /\ Attached(c) /\ lease \in {Nobody, c}
          <6>1. attachments'[x] = ResizeIfNeeded(as[x], pane')
            BY <3>1, <3>5, <4>1, <5>2 DEF Resize, Attachables
          <6>2. as[x] # NoAttachment
            <7>1. attachments[x] \in Attachment /\ attachments[x] # NoAttachment
              BY <1>3, <4>1, <5>2 DEF Attached
            <7>2. [attachments[x] EXCEPT !.observed = FALSE] \in Attachment
              BY <7>1 DEF Attachment
            <7> QED BY <7>1, <7>2, DeliveryAssumption DEF AttachmentsAfterOffer, Unobserved
          <6> QED BY <6>1, <6>2
        <5> QED BY <2>4, <5>1, <5>2
      <4>3. a \in Attachment
        BY <1>2, <3>1, <4>2, FreshKept DEF Attachables
      <4> QED BY <1>2, <4>2, <4>3, ResizeMeasured
    <3> QED BY <3>4, <3>5
  <2> QED BY <2>1, <2>2, <2>3, <2>4
<1>9. ASSUME NEW c \in Clients, SendSnapshot(c) \/ SendPatch(c) PROVE Measured(pane', attachments'[x])
  <2>1. PICK base, rows, paced : SendFrame(c, base, rows, paced)
    BY <1>9 DEF SendSnapshot, SendPatch
  <2>2. pane' = NowRendered /\ SameSize(attachments[c]) /\ Attached(c)
    BY <1>9, <2>1 DEF SendFrame, SendSnapshot, SendPatch, Offered
  <2>3. CASE x # c
    BY <1>2, <1>5, <2>1, <2>2, <2>3 DEF SendFrame, Attachables
  <2>4. CASE x = c
    <3> DEFINE a == attachments[c]
    <3>1. a \in Attachment
      BY <1>3, <2>2, <2>4 DEF Attached
    <3>2. attachments'[c].acknowledged =
            [i \in DOMAIN a.acknowledged |-> IF i \in rows THEN NowRendered.screen[i] ELSE a.acknowledged[i]]
      BY <1>2, <2>1, <3>1 DEF SendFrame, Attachables, Attachment
    <3>3. DOMAIN attachments'[c].acknowledged = 1 .. Len(a.acknowledged) /\ Len(a.acknowledged) \in Nat
      BY <3>1, <3>2 DEF Attachment
    <3>4. attachments'[c] = NoAttachment \/ attachments'[c].acknowledged \in Seq(Values)
      BY <1>2 DEF Attachables, Attachment
    <3>5. attachments'[c] # NoAttachment => Len(attachments'[c].acknowledged) = Len(a.acknowledged)
      BY <3>3, <3>4
    <3> QED BY <1>2, <2>2, <2>4, <3>5 DEF Measured, SameSize
  <2> QED BY <2>3, <2>4
<1>10. ASSUME NEW c \in Clients, ObserveUnchanged(c) PROVE Measured(pane', attachments'[x])
  <2>1. pane' = NowRendered /\ SameSize(attachments[c]) /\ Attached(c)
    BY <1>10 DEF ObserveUnchanged, Offered
  <2>2. CASE x # c
    BY <1>2, <1>5, <1>10, <2>1, <2>2 DEF ObserveUnchanged, Attachables
  <2>3. CASE x = c
    <3>1. attachments'[c].acknowledged = attachments[c].acknowledged
      BY <1>2, <1>3, <1>10, <2>1, <2>3 DEF ObserveUnchanged, Attachables, Attached, Attachment
    <3> QED BY <1>2, <2>1, <2>3, <3>1 DEF Measured, SameSize
  <2> QED BY <2>2, <2>3
<1>11. ASSUME NEW c \in Clients,
              \/ SendExit(c) \/ SendResponse(c) \/ SendNothing(c) \/ PaceElapses(c) \/ SendDone(c)
              \/ Deliver(c) \/ DeliverFails(c) \/ AskOpen(c) \/ AskDetach(c) \/ AskResize(c)
       PROVE  Measured(pane', attachments'[x])
  <2>1. pane' = pane
    BY <1>11 DEF SendExit, SendResponse, SendNothing, PaceElapses, SendDone, Deliver, DeliverFails,
                 AskOpen, AskDetach, AskResize
  <2>2. CASE x # c \/ ~Attached(x)
    <3>1. attachments'[x] = attachments[x] \/ attachments'[x] = NoAttachment
      BY <1>2, <1>11, <2>2 DEF SendExit, SendResponse, SendNothing, PaceElapses, SendDone, Deliver,
           DeliverFails, AskOpen, AskDetach, AskResize, Attachables, Offered, Attached
    <3> QED BY <1>4, <2>1, <3>1
  <2>3. CASE x = c /\ Attached(x)
    <3>1. attachments[x] \in Attachment /\ attachments[x] # NoAttachment
      BY <1>3, <2>3 DEF Attached
    <3>2. \/ attachments'[x] = attachments[x] \/ attachments'[x] = NoAttachment
          \/ /\ attachments'[x].observed = attachments[x].observed
             /\ attachments'[x].acknowledged = attachments[x].acknowledged
      <4>1. CASE SendExit(c)
        BY <1>2, <2>3, <3>1, <4>1 DEF SendExit, Attachables, Attachment
      <4>2. CASE SendNothing(c)
        BY <1>2, <2>3, <3>1, <4>2 DEF SendNothing, Attachables, Attachment
      <4>3. CASE PaceElapses(c)
        BY <1>2, <2>3, <3>1, <4>3 DEF PaceElapses, Attachables, Attachment
      <4>4. CASE \/ SendResponse(c) \/ SendDone(c) \/ Deliver(c) \/ DeliverFails(c)
                 \/ AskOpen(c) \/ AskDetach(c) \/ AskResize(c)
        BY <1>2, <2>3, <4>4 DEF SendResponse, SendDone, Deliver, DeliverFails, AskOpen, AskDetach,
             AskResize, Attachables
      <4> QED BY <1>11, <4>1, <4>2, <4>3, <4>4
    <3> QED BY <1>4, <2>1, <3>1, <3>2
  <2> QED BY <2>2, <2>3
<1> QED BY <1>6, <1>7, <1>8, <1>9, <1>10, <1>11 DEF Next

--------------------------------------------------------------------------------
(* Deadlines                                                               *)

(* What a flush owes x is not more for another client's render. *)
LEMMA RenderOwes ==
  ASSUME IInv, NEW x \in Clients, pane' = NowRendered, attachments'[x] = NowAttachments[x],
         sessions'[x] = sessions[x], Owed(x)'
  PROVE  Owed(x) /\ sessions'[x].deadline = sessions[x].deadline
<1>1. pane \in Pane /\ (attachments[x] = NoAttachment \/ attachments[x] \in Attachment)
  BY DEF IInv, Covered, PaneOK, Attachables
<1>2. CASE ~pane.render_pending
  BY <1>2 DEF NowRendered, NowAttachments, Owed, PatchWanted, Attached
<1>3. CASE pane.render_pending
  <2>1. pane'.ingest_pending = pane.ingest_pending
    BY <1>1, <1>3 DEF NowRendered, Rendered, Pane
  <2>2. CASE attachments[x] = NoAttachment
    BY <1>3, <2>2 DEF NowAttachments, Unobserved, Owed, Attached
  <2>3. CASE attachments[x] # NoAttachment
    <3>1. /\ attachments'[x].snapshot_pending = attachments[x].snapshot_pending
          /\ attachments'[x].outstanding = attachments[x].outstanding
      BY <1>1, <1>3, <2>3 DEF NowAttachments, Unobserved, Attachment
    <3> QED BY <1>3, <2>1, <2>3, <3>1 DEF Owed, PatchWanted, Attached
  <2> QED BY <2>2, <2>3
<1> QED BY <1>2, <1>3

(* Output is not held back where it is not synchronized. *)
LEMMA NextUnheld ==
  ASSUME IInv, [Next]_vars, ~Disturbed, pane.sync # "on"
  PROVE  pane'.sync # "on"
<1>1. pane \in Pane
  BY DEF IInv, Covered, PaneOK
<1>2. ASSUME NEW q \in Pane PROVE Rendered(q).sync = q.sync /\ \A n : Resized(q, n).sync = q.sync
  BY DEF Rendered, Resized, Pane
<1>3. CASE InlineOutput \/ FinishIngest
  <2>1. PICK i \in DOMAIN pane.terminal, v \in Values, s \in SyncModes :
          AfterIngest(Ingested(pane, i, v, s))
    BY <1>3 DEF InlineOutput, FinishIngest
  <2> DEFINE q == Ingested(pane, i, v, s)
  <2>2. q \in Pane /\ s = "off"
    BY IngestCovers DEF SyncModes, IInv, Covered, PaneOK
  <2>3. q.sync = "off"
    BY <1>1, <2>2 DEF Ingested, Pane
  <2> HIDE DEF q
  <2>4. pane' = q \/ \E n : pane' = Resized(q, n)
    BY <2>1 DEF AfterIngest, q
  <2> QED BY <1>2, <2>2, <2>3, <2>4
<1>4. CASE StartIngest \/ EndOutput \/ ChildExits \/ HoldExpires \/ Settle
  BY <1>1, <1>4 DEF StartIngest, EndOutput, ChildExits, HoldExpires, Settle, Pane
<1>5. ASSUME NEW c \in Clients, Receive(c) PROVE pane'.sync # "on"
  <2>1. PICK m : \/ Open(c, m) \/ Resize(c, m) \/ DetachPane(c) \/ Acknowledge(c, m)
                 \/ RequestSnapshot(c)
    <3>1. Head(up[c]) \in Upward
      BY <1>5, Taken DEF Receive, IInv, Wire
    <3> QED BY <1>5, <3>1, UpwardCases DEF Receive
  <2>2. pane' = pane \/ \E n : pane' = PaneAfterOffer(c, n)
    BY <2>1 DEF Open, Resize, DetachPane, Acknowledge, RequestSnapshot
  <2>3. ASSUME NEW n PROVE PaneAfterOffer(c, n).sync = pane.sync
    <3>1. [pane EXCEPT !.pending_size = n].sync = pane.sync
      BY <1>1 DEF Pane
    <3> QED BY <1>1, <1>2, <3>1 DEF PaneAfterOffer
  <2> QED BY <2>2, <2>3
<1>6. ASSUME NEW c \in Clients, SendSnapshot(c) \/ SendPatch(c) \/ ObserveUnchanged(c)
      PROVE  pane'.sync # "on"
  <2>1. pane' = NowRendered
    BY <1>6 DEF SendSnapshot, SendPatch, ObserveUnchanged, SendFrame
  <2> QED BY <1>1, <1>2, <2>1 DEF NowRendered
<1>7. ASSUME NEW c \in Clients,
             \/ SendExit(c) \/ SendResponse(c) \/ SendNothing(c) \/ PaceElapses(c) \/ SendDone(c)
             \/ Deliver(c) \/ DeliverFails(c) \/ AskOpen(c) \/ AskDetach(c) \/ AskResize(c)
      PROVE  pane' = pane
  BY <1>7 DEF SendExit, SendResponse, SendNothing, PaceElapses, SendDone, Deliver, DeliverFails,
              AskOpen, AskDetach, AskResize
<1>8. CASE TimerDue \/ Tick \/ UNCHANGED vars
  BY <1>8 DEF TimerDue, Tick, vars
<1> QED BY <1>3, <1>4, <1>5, <1>6, <1>7, <1>8 DEF Next

(* Every step keeps the deadlines: an event starts the flush again, which  *)
(* leaves a deadline at every client it passes and arms the timer.         *)
LEMMA NextTimed ==
  ASSUME IInv, IInv', [Next]_vars, ~Disturbed, Timed
  PROVE  Timed'
<1>1. pane'.sync # "on"
  BY NextUnheld DEF Timed
<1>2. /\ pane \in Pane /\ attachments \in Attachables /\ NowAttachments \in Attachables
      /\ sessions \in [Clients -> Session] /\ pump \in 0 .. MaxClients + 1 /\ timer \in BOOLEAN
  BY NowCovers DEF IInv, Covered, PaneOK, Wire
<1>3. Clients = 1 .. MaxClients /\ MaxClients \in Nat \ {0}
  BY DeliveryAssumption DEF Clients
<1> SUFFICES ASSUME NEW x \in Clients, Owed(x)'
             PROVE  IF pump' = 0 THEN timer' ELSE x < pump' => sessions'[x].deadline
  BY <1>1 DEF Timed
<1>4. CASE pump' = 1
  BY <1>3, <1>4
<1>5. CASE /\ Owed(x) /\ pump' = pump /\ timer' = timer /\ sessions'[x].deadline = sessions[x].deadline
  BY <1>5 DEF Timed
<1>6. attachments[x] = NoAttachment \/ attachments[x] \in Attachment
  BY <1>2 DEF Attachables
<1>7. CASE \/ InlineOutput \/ StartIngest \/ FinishIngest \/ EndOutput \/ ChildExits
           \/ TimerDue \/ Tick \/ \E c \in Clients : Receive(c) \/ SendDone(c)
  <2>1. pump' = 1
    BY <1>7 DEF InlineOutput, StartIngest, FinishIngest, EndOutput, ChildExits, TimerDue, Tick,
                Receive, SendDone, Flush
  <2> QED BY <1>4, <2>1
<1>8. ASSUME NEW c \in Clients,
             SendSnapshot(c) \/ SendPatch(c) \/ SendExit(c) \/ SendResponse(c)
      PROVE  IF pump' = 0 THEN timer' ELSE x < pump' => sessions'[x].deadline
  <2>1. pump = c /\ pump' = c + 1 /\ pump' # 0 /\ pump # 0 /\ sessions'[c].send_pending
    <3>1. pump = c /\ pump' = pump + 1
      BY <1>8 DEF SendSnapshot, SendPatch, SendExit, SendResponse, SendFrame, Send, Offered, Pumps
    <3>2. sessions'[c].send_pending
      <4>1. sessions[c] \in Session
        BY <1>2
      <4>2. CASE SendResponse(c)
        BY <1>2, <4>1, <4>2 DEF SendResponse, Session
      <4>3. CASE SendExit(c)
        BY <1>2, <4>1, <4>3 DEF SendExit, Send, Session
      <4>4. CASE SendSnapshot(c)
        BY <1>2, <4>1, <4>4 DEF SendSnapshot, SendFrame, Send, Session
      <4>5. CASE SendPatch(c)
        BY <1>2, <4>1, <4>5 DEF SendPatch, SendFrame, Send, Session
      <4> QED BY <1>8, <4>2, <4>3, <4>4, <4>5
    <3> QED BY <1>3, <3>1, <3>2
  <2>2. x # c
    BY <2>1 DEF Owed
  <2>3. sessions'[x] = sessions[x]
    BY <1>2, <1>8, <2>2 DEF SendSnapshot, SendPatch, SendExit, SendResponse, SendFrame, Send
  <2>4. Owed(x)
    <3>1. CASE SendSnapshot(c) \/ SendPatch(c)
      <4>1. pane' = NowRendered /\ attachments'[x] = NowAttachments[x]
        BY <1>2, <2>2, <3>1 DEF SendSnapshot, SendPatch, SendFrame, Attachables
      <4> QED BY <2>3, <4>1, RenderOwes
    <3>2. CASE SendExit(c) \/ SendResponse(c)
      <4>1. pane' = pane /\ attachments'[x] = attachments[x]
        BY <1>2, <2>2, <3>2 DEF SendExit, SendResponse, Attachables
      <4> QED BY <2>3, <4>1 DEF Owed, Attached, PatchWanted
    <3> QED BY <1>8, <3>1, <3>2
  <2>5. x < pump' => x < pump
    BY <1>3, <2>1, <2>2
  <2> QED BY <2>1, <2>3, <2>4, <2>5 DEF Timed
<1>9. ASSUME NEW c \in Clients, ObserveUnchanged(c)
      PROVE  IF pump' = 0 THEN timer' ELSE x < pump' => sessions'[x].deadline
  <2>1. pump = c /\ pump' = pump /\ timer' = timer /\ sessions' = sessions /\ pane' = NowRendered
    BY <1>9 DEF ObserveUnchanged, Offered, Pumps
  <2>2. CASE x = c
    BY <1>3, <2>1, <2>2
  <2>3. CASE x # c
    <3>1. attachments'[x] = NowAttachments[x]
      BY <1>2, <1>9, <2>3 DEF ObserveUnchanged, Attachables
    <3>2. Owed(x)
      BY <2>1, <3>1, RenderOwes
    <3> QED BY <1>5, <2>1, <3>2
  <2> QED BY <2>2, <2>3
<1>10. ASSUME NEW c \in Clients, SendNothing(c)
       PROVE  IF pump' = 0 THEN timer' ELSE x < pump' => sessions'[x].deadline
  <2>1. pump = c /\ pump' = c + 1 /\ pump' # 0 /\ pump # 0 /\ pane' = pane
    <3>1. pump = c /\ pump' = pump + 1 /\ pane' = pane
      BY <1>10 DEF SendNothing, Pumps
    <3> QED BY <1>3, <3>1
  <2>0. sessions'[x].send_pending = sessions[x].send_pending
    <3>1. PICK e : sessions' = [sessions EXCEPT ![c].deadline = e]
      BY <1>10 DEF SendNothing
    <3> QED BY <1>2, <3>1 DEF Session
  <2>2. Owed(x)
    <3>1. CASE attachments'[x] = attachments[x]
      BY <2>0, <2>1, <3>1 DEF Owed, Attached, PatchWanted
    <3>2. CASE attachments'[x] # attachments[x]
      <4>1. x = c /\ Offered(c) /\ Attached(x)
        BY <1>2, <1>10, <3>2 DEF SendNothing, Attachables, Offered
      <4>2. /\ attachments'[x].snapshot_pending = attachments[x].snapshot_pending
            /\ attachments'[x].outstanding = attachments[x].outstanding
            /\ attachments'[x].observed = attachments[x].observed
        BY <1>2, <1>6, <1>10, <4>1 DEF SendNothing, Attachables, Attached, Attachment
      <4> QED BY <2>0, <2>1, <4>1, <4>2 DEF Owed, PatchWanted
    <3> QED BY <3>1, <3>2
  <2>3. CASE x # c
    <3>1. sessions'[x] = sessions[x]
      BY <1>2, <1>10, <2>3 DEF SendNothing
    <3>2. x < pump' => x < pump
      BY <1>3, <2>1, <2>3
    <3> QED BY <2>1, <2>2, <3>1, <3>2 DEF Timed
  <2>4. CASE x = c
    <3>1. Offered(c)
      <4>1. HasDelivery(attachments[c])
        BY <2>2, <2>4 DEF Owed, PatchWanted, HasDelivery
      <4> QED BY <1>10, <2>1, <2>2, <2>4, <4>1 DEF Offered, SendNothing, Owed, Pumps
    <3>2. Throttled(attachments[c])
      <4>1. PatchWanted(attachments[c]) /\ ~PatchDue(attachments[c])
        BY <1>10, <2>2, <2>4, <3>1 DEF SendNothing, CellsPass, Owed
      <4>2. ~Holding
        BY DEF Timed, Holding
      <4> QED BY <4>1, <4>2 DEF PatchDue
    <3>3. sessions'[c].deadline = Throttled(attachments[c])
      BY <1>2, <1>10, <3>1 DEF SendNothing, Session
    <3> QED BY <2>1, <2>4, <3>2, <3>3
  <2> QED BY <2>3, <2>4
<1>11. CASE Settle
  <2>1. pump = MaxClients + 1 /\ pump' = 0 /\ attachments' = attachments /\ sessions' = sessions
    BY <1>11 DEF Settle
  <2>2. pane'.ingest_pending = pane.ingest_pending /\ pane'.render_pending = pane.render_pending
    BY <1>2, <1>11 DEF Settle, Pane
  <2>3. Owed(x)
    BY <2>1, <2>2 DEF Owed, Attached, PatchWanted
  <2>4. pump # 0 /\ x < pump
    BY <1>3, <2>1
  <2>5. sessions[x].deadline /\ ~sessions[x].send_pending
    BY <2>3, <2>4 DEF Timed, Owed
  <2>6. timer'
    BY <1>2, <1>11, <2>5 DEF Settle
  <2> QED BY <2>1, <2>6
<1>12. ASSUME NEW c \in Clients, PaceElapses(c)
       PROVE  IF pump' = 0 THEN timer' ELSE x < pump' => sessions'[x].deadline
  <2>1. pump' = pump /\ timer' = timer /\ sessions' = sessions /\ pane' = pane
    BY <1>12 DEF PaceElapses
  <2>2. Owed(x)
    <3>1. CASE x = c
      <4>1. attachments[x] \in Attachment /\ Attached(x)
        BY <1>6, <1>12, <3>1 DEF PaceElapses, Attached
      <4>2. /\ attachments'[x].snapshot_pending = attachments[x].snapshot_pending
            /\ attachments'[x].outstanding = attachments[x].outstanding
            /\ attachments'[x].observed = attachments[x].observed
        BY <1>2, <1>12, <3>1, <4>1 DEF PaceElapses, Attachables, Attachment
      <4> QED BY <2>1, <4>1, <4>2 DEF Owed, PatchWanted
    <3>2. CASE x # c
      <4>1. attachments'[x] = attachments[x]
        BY <1>2, <1>12, <3>2 DEF PaceElapses, Attachables
      <4> QED BY <2>1, <4>1 DEF Owed, Attached, PatchWanted
    <3> QED BY <3>1, <3>2
  <2> QED BY <1>5, <2>1, <2>2
<1>13. CASE UNCHANGED <<pane, attachments, sessions, timer, pump>>
  BY <1>5, <1>13 DEF Owed, Attached, PatchWanted
<1>14. ASSUME NEW c \in Clients,
              Deliver(c) \/ DeliverFails(c) \/ AskOpen(c) \/ AskDetach(c) \/ AskResize(c)
       PROVE  UNCHANGED <<pane, attachments, sessions, timer, pump>>
  BY <1>14 DEF Deliver, DeliverFails, AskOpen, AskDetach, AskResize
<1>15. ~HoldExpires
  BY DEF HoldExpires, Timed
<1>16. CASE UNCHANGED vars
  BY <1>13, <1>16 DEF vars
<1> QED BY <1>7, <1>8, <1>9, <1>10, <1>11, <1>12, <1>13, <1>14, <1>15, <1>16 DEF Next

--------------------------------------------------------------------------------
(* The invariants and the theorems                                         *)

(* Nothing has been asked or sent. *)
LEMMA InitReplica == Init => ReplicaInv /\ Timed
<1> SUFFICES ASSUME Init PROVE ReplicaInv /\ Timed
  OBVIOUS
<1>1. Shown /\ Sized /\ Timed
  BY DEF Init, Shown, Sized, Timed, Owed, Attached
<1>2. ASSUME NEW c \in Clients PROVE Conversation(c)
  <2>1. /\ attachments[c] = NoAttachment /\ sessions[c].responses = <<>>
        /\ down[c] = <<>> /\ up[c] = <<>>
        /\ clients[c].attached = FALSE /\ clients[c].awaiting = 0 /\ clients[c].next_request = 1
    BY DEF Init
  <2>2. LetsGo(attachments[c], up[c], Len(up[c]))
    BY <2>1 DEF LetsGo
  <2>3. Numbers(attachments[c]) /\ Requests(sessions[c].responses, down[c], up[c], clients[c])
    BY <2>1 DEF Numbers, Requests
  <2> QED BY <2>1, <2>2, <2>3 DEF Conversation, Converses
<1> QED BY <1>1, <1>2 DEF ReplicaInv

(* Every step keeps every conversation. *)
LEMMA NextReplica == IInv /\ ReplicaInv /\ [Next]_vars => ReplicaInv'
<1> SUFFICES ASSUME IInv, ReplicaInv, [Next]_vars PROVE ReplicaInv'
  OBVIOUS
<1>1. IInv'
  BY NextIInv
<1>2. Shown' /\ Sized'
  BY <1>1, NextShown, NextSized DEF ReplicaInv
<1> SUFFICES ASSUME NEW x \in Clients PROVE Holds(x)'
  BY <1>2 DEF ReplicaInv, Conversation, Holds, Talks
<1>3. Holds(x)
  BY ConversationsHold DEF ReplicaInv
<1>4. ASSUME Stands(x) PROVE Holds(x)'
  BY <1>3, <1>4, StandsTalks
<1>5. CASE \/ InlineOutput \/ StartIngest \/ FinishIngest \/ EndOutput \/ ChildExits
           \/ Settle \/ TimerDue \/ Tick \/ HoldExpires
  BY <1>1, <1>4, <1>5, PaneEventsStand
<1>6. ASSUME NEW c \in Clients, Receive(c) PROVE Holds(x)'
  BY <1>1, <1>3, <1>4, <1>6, ReceiveTalks, ReceiveOthersStand
<1>7. ASSUME NEW c \in Clients, SendSnapshot(c) \/ SendPatch(c) PROVE Holds(x)'
  BY <1>3, <1>4, <1>7, SendCellsTalk, PumpOthersStand
<1>8. ASSUME NEW c \in Clients, ObserveUnchanged(c) \/ SendNothing(c) \/ PaceElapses(c)
      PROVE  Holds(x)'
  BY <1>3, <1>4, <1>8, IdleStands, PumpOthersStand
<1>9. ASSUME NEW c \in Clients, SendExit(c) \/ SendResponse(c) \/ SendDone(c)
      PROVE  Holds(x)'
  BY <1>3, <1>4, <1>9, PumpTalks, PumpOthersStand
<1>10. ASSUME NEW c \in Clients,
              Deliver(c) \/ DeliverFails(c) \/ AskOpen(c) \/ AskDetach(c) \/ AskResize(c)
       PROVE  Holds(x)'
  BY <1>3, <1>4, <1>10, ClientTalks, ClientOthersStand
<1>11. CASE UNCHANGED vars
  BY <1>3, <1>11 DEF vars, Holds
<1> QED BY <1>5, <1>6, <1>7, <1>8, <1>9, <1>10, <1>11 DEF Next

(* The conversations stay what they are throughout. *)
LEMMA ReplicaHolds == Spec => [](IInv /\ ReplicaInv)
<1>1. Init => IInv /\ ReplicaInv
  BY InitIInv, InitReplica
<1>2. IInv /\ ReplicaInv /\ [Next]_vars => (IInv /\ ReplicaInv)'
  BY NextIInv, NextReplica
<1> QED BY <1>1, <1>2, PTL DEF Spec

(* No patch that reaches an attached client is one it cannot apply: its    *)
(* base is the frame that client applied last and its size the client's,   *)
(* through resizes, detaches, reopened panes and frames that could not be  *)
(* stored, for any number of clients and any sizes.  So the resync branch  *)
(* of pane_frame.receive() and error.PatchSizeMismatch are not reached.    *)
THEOREM CellPatchesApply == Spec => []PatchesApply
<1>1. IInv /\ ReplicaInv => PatchesApply
  <2> SUFFICES ASSUME IInv, ReplicaInv, NEW c \in Clients, down[c] # <<>>,
                      Head(down[c]).type = "frame", clients[c].attached, Head(down[c]).base # 0
               PROVE  /\ Head(down[c]).base = clients[c].applied
                      /\ Head(down[c]).size = Len(clients[c].cells)
    BY DEF PatchesApply
  <2>1. down[c] \in Seq(Downward)
    BY DEF IInv, Wire
  <2>2. 1 \in 1 .. Len(down[c]) /\ Head(down[c]) = down[c][1]
    BY <2>1, Taken
  <2>3. Fitting(down[c], clients[c])
    BY DEF ReplicaInv, Conversation, Converses, Follows
  <2> QED BY <2>2, <2>3 DEF Fitting, Whole, IsFrame
<1> QED BY <1>1, ReplicaHolds, PTL

(* An attachment with no frame outstanding that owes no snapshot.          *)
Quiet(c) == Attached(c) /\ attachments[c].outstanding = 0 /\ ~attachments[c].snapshot_pending

(* Nothing on the wire, nothing to catch up with: the replica of a client  *)
(* that has the pane is the baseline the runtime diffs the next patch      *)
(* against, under the frame id that patch will name as its base.           *)
ReplicaSettled ==
  \A c \in Clients : Quiet(c) /\ clients[c].attached =>
    /\ clients[c].cells = attachments[c].acknowledged
    /\ clients[c].applied = attachments[c].acknowledged_frame_id
    /\ \A i \in 1 .. Len(down[c]) : down[c][i].type # "frame"

(* CellSync.acknowledge() only has to compare frame ids: once the          *)
(* outstanding frame is acknowledged, whatever was lost, resized, reopened *)
(* or asked for in between, the client holds the baseline.                 *)
THEOREM CellReplicaSettled == Spec => []ReplicaSettled
<1>1. ReplicaInv => ReplicaSettled
  <2> SUFFICES ASSUME ReplicaInv, NEW c \in Clients, Quiet(c), clients[c].attached
               PROVE  /\ clients[c].cells = attachments[c].acknowledged
                      /\ clients[c].applied = attachments[c].acknowledged_frame_id
                      /\ \A i \in 1 .. Len(down[c]) : down[c][i].type # "frame"
    BY DEF ReplicaSettled
  <2>1. Settled(attachments[c], down[c], clients[c])
    BY DEF ReplicaInv, Conversation, Converses, Follows, Quiet, Attached
  <2> QED BY <2>1 DEF Settled, Quiet, IsFrame
<1> QED BY <1>1, ReplicaHolds, PTL

(* prepareExit() sends the exit to a client whose replica is the final     *)
(* screen of the terminal, and not only will be.                           *)
ExitFindsFinalScreen ==
  [][\A c \in Clients : SendExit(c) /\ clients[c].attached => clients[c].cells = pane.terminal]_vars

(* Whatever was throttled, held back, unacknowledged, resized or being     *)
(* ingested when the child died, its exit is announced to a client that    *)
(* already shows its last output.                                          *)
THEOREM CellExitFindsFinalScreen == Spec => ExitFindsFinalScreen
<1>1. ASSUME IInv, ReplicaInv, NEW c \in Clients, SendExit(c), clients[c].attached
      PROVE  clients[c].cells = pane.terminal
  <2> DEFINE a == attachments[c]
  <2>1. /\ Attached(c) /\ a.outstanding = 0 /\ ~a.snapshot_pending /\ a.observed
        /\ ~pane.render_pending
    BY <1>1 DEF SendExit, Offered, ExitDue
  <2>2. clients[c].cells = a.acknowledged
    BY <1>1, <2>1 DEF ReplicaInv, Conversation, Converses, Follows, Settled, Attached
  <2>3. a \in Attachment /\ Clean(pane, a) /\ pane.screen \in Seq(Values)
    BY <1>1, <2>1 DEF IInv, Covered, Kept, Attached, PaneOK, Pane
  <2>4. a.acknowledged \in Seq(Values) /\ Len(a.acknowledged) = Len(pane.screen)
    BY <1>1, <2>1, <2>3 DEF ReplicaInv, Sized, SameSize, Attachment
  <2>5. \A i \in 1 .. Len(pane.screen) : a.acknowledged[i] = pane.screen[i]
    BY <2>1, <2>3, <2>4 DEF Clean
  <2>6. a.acknowledged = pane.screen
    BY <2>3, <2>4, <2>5
  <2>7. pane.screen = pane.terminal
    BY <1>1, <2>1 DEF ReplicaInv, Shown
  <2> QED BY <2>2, <2>6, <2>7
<1>2. IInv /\ ReplicaInv =>
        [\A c \in Clients : SendExit(c) /\ clients[c].attached => clients[c].cells = pane.terminal]_vars
  BY <1>1
<1> QED BY <1>2, ReplicaHolds, PTL DEF ExitFindsFinalScreen

(* However many clients share the one publication timer, and whenever it   *)
(* was armed, cells that wait with nothing else to cause a flush have it   *)
(* armed: scheduleCellPublication() strands nobody.                        *)
THEOREM CellOwedCellsTimed == Spec => []OwedCellsTimed
<1>1. Init => IInv /\ (~Disturbed => Timed)
  BY InitIInv, InitReplica
<1>2. IInv /\ (~Disturbed => Timed) /\ [Next]_vars => (IInv /\ (~Disturbed => Timed))'
  BY NextIInv, NextTimed
<1>3. (~Disturbed => Timed) => OwedCellsTimed
  BY DEF Timed, OwedCellsTimed, Owed
<1> QED BY <1>1, <1>2, <1>3, PTL DEF Spec

--------------------------------------------------------------------------------
(* One client alone                                                        *)

(* The baseline has the size of the screen, observed or not. *)
Exact(p, a) == a # NoAttachment => Len(a.acknowledged) = Len(p.screen)

(* Every step of a pane with one client keeps the sizes equal: whoever     *)
(* resizes the pane is the client whose attachment follows.                *)
LEMMA NextExact ==
  ASSUME MaxClients = 1, IInv, IInv', [Next]_vars, Exact(pane, attachments[1])
  PROVE  Exact(pane', attachments'[1])
<1> DEFINE a == attachments[1]
<1>1. \A c \in Clients : c = 1
  BY DEF Clients
<1>2. 1 \in Clients
  BY DEF Clients
<1>3. /\ attachments \in Attachables /\ attachments' \in Attachables
      /\ NowAttachments \in Attachables
      /\ PaneOK(pane) /\ PaneOK(pane') /\ pane \in Pane
      /\ Len(NowRendered.screen) = Len(pane.screen)
  BY NowCovers DEF IInv, Covered, PaneOK
<1>4. a = NoAttachment \/ a \in Attachment
  BY <1>2, <1>3 DEF Attachables
<1>5. ASSUME NEW b \in Attachment PROVE Exact(pane', ResizeIfNeeded(b, pane'))
  <2>1. Len(Cleared(Len(pane'.screen))) = Len(pane'.screen)
    BY <1>3, ClearedRows DEF PaneOK, Pane
  <2>2. CASE Len(b.acknowledged) = Len(pane'.screen)
    BY <2>2 DEF ResizeIfNeeded, Exact
  <2>3. CASE Len(b.acknowledged) # Len(pane'.screen)
    <3>1. ResizeIfNeeded(b, pane').acknowledged = Cleared(Len(pane'.screen))
      BY <2>3 DEF ResizeIfNeeded, Attachment
    <3> QED BY <2>1, <3>1 DEF Exact
  <2> QED BY <2>2, <2>3
<1>6. CASE /\ Len(pane'.screen) = Len(pane.screen)
           /\ \/ attachments'[1] = a \/ attachments'[1] = NoAttachment
              \/ /\ a # NoAttachment
                 /\ Len(attachments'[1].acknowledged) = Len(a.acknowledged)
  BY <1>6 DEF Exact
<1>7. CASE InlineOutput \/ FinishIngest
  <2>1. PICK q : AfterIngest(q)
    BY <1>7 DEF InlineOutput, FinishIngest
  <2> DEFINE as == IF q.pending_size # 0 THEN Unobserved(attachments) ELSE attachments
  <2>2. CASE Attached(1)
    <3>1. a \in Attachment /\ a # NoAttachment
      BY <1>4, <2>2 DEF Attached
    <3>2. [a EXCEPT !.observed = FALSE] \in Attachment
      BY <3>1 DEF Attachment
    <3>3. as[1] \in Attachment
      BY <1>2, <3>1, <3>2 DEF Unobserved
    <3>4. attachments'[1] = ResizeIfNeeded(as[1], pane')
      BY <1>2, <2>1, <2>2 DEF AfterIngest
    <3> QED BY <1>5, <3>3, <3>4
  <2>3. CASE ~Attached(1)
    BY <1>2, <2>1, <2>3 DEF AfterIngest, Exact
  <2> QED BY <2>2, <2>3
<1>8. CASE \/ StartIngest \/ EndOutput \/ ChildExits \/ HoldExpires \/ Settle \/ TimerDue \/ Tick
           \/ UNCHANGED vars
  <2>1. pane'.screen = pane.screen /\ attachments' = attachments
    BY <1>3, <1>8 DEF StartIngest, EndOutput, ChildExits, HoldExpires, Settle, TimerDue, Tick, vars, Pane
  <2> QED BY <1>6, <2>1
<1>9. CASE Receive(1)
  <2>1. PICK m \in Upward : \/ Open(1, m) \/ Resize(1, m) \/ DetachPane(1)
                            \/ Acknowledge(1, m) \/ RequestSnapshot(1)
    <3>1. Head(up[1]) \in Upward
      BY <1>2, <1>9, Taken DEF Receive, IInv, Wire
    <3> QED BY <1>9, <3>1, UpwardCases DEF Receive
  <2>2. CASE DetachPane(1) \/ Acknowledge(1, m) \/ RequestSnapshot(1)
    <3>1. pane' = pane
      BY <2>2 DEF DetachPane, Acknowledge, RequestSnapshot
    <3>2. CASE attachments'[1] = a \/ attachments'[1] = NoAttachment
      BY <1>6, <3>1, <3>2
    <3>3. CASE attachments'[1] # a /\ attachments'[1] # NoAttachment
      <4>1. Attached(1) /\ a \in Attachment /\ a # NoAttachment
        BY <1>2, <1>3, <1>4, <2>2, <3>3 DEF DetachPane, Acknowledge, RequestSnapshot, Attachables, Attached
      <4>2. attachments'[1].acknowledged = a.acknowledged
        BY <1>2, <1>3, <2>2, <3>3, <4>1 DEF DetachPane, Acknowledge, RequestSnapshot, Attachables, Attachment
      <4> QED BY <1>6, <3>1, <4>1, <4>2
    <3> QED BY <3>2, <3>3
  <2>3. CASE (Open(1, m) /\ pane.exit) \/ (Resize(1, m) /\ (~Attached(1) \/ lease \notin {Nobody, 1}))
    BY <1>6, <2>3 DEF Open, Resize
  <2> DEFINE as == AttachmentsAfterOffer(1, m.size)
  <2>4. as \in Attachables
    BY <1>2, OfferMove
  <2>5. CASE Open(1, m) /\ ~pane.exit
    <3>1. attachments'[1] = ResizeIfNeeded(IF as[1] = NoAttachment THEN Fresh(pane') ELSE as[1], pane')
      BY <1>2, <2>4, <2>5 DEF Open, Attachables
    <3>2. (IF as[1] = NoAttachment THEN Fresh(pane') ELSE as[1]) \in Attachment
      BY <1>2, <1>3, <2>4, FreshKept DEF Attachables
    <3> QED BY <1>5, <3>1, <3>2
  <2>6. CASE Resize(1, m) /\ Attached(1) /\ lease \in {Nobody, 1}
    <3>1. a \in Attachment /\ a # NoAttachment
      BY <1>4, <2>6 DEF Attached
    <3>2. CASE pane.ingest_pending
      <4>1. attachments'[1] = a
        BY <2>6, <3>2 DEF Resize, AttachmentsAfterOffer
      <4>2. pane'.screen = pane.screen
        BY <1>3, <2>6, <3>2 DEF Resize, PaneAfterOffer, Pane
      <4> QED BY <1>6, <4>1, <4>2
    <3>3. CASE ~pane.ingest_pending
      <4>1. attachments'[1] = ResizeIfNeeded(as[1], pane')
        BY <1>2, <2>4, <2>6, <3>3 DEF Resize, Attachables
      <4>2. [a EXCEPT !.observed = FALSE] \in Attachment
        BY <3>1 DEF Attachment
      <4>3. as[1] \in Attachment
        BY <1>2, <3>1, <4>2 DEF AttachmentsAfterOffer, Unobserved
      <4> QED BY <1>5, <4>1, <4>3
    <3> QED BY <3>2, <3>3
  <2> QED BY <2>1, <2>2, <2>3, <2>5, <2>6
<1>10. CASE SendSnapshot(1) \/ SendPatch(1)
  <2>1. PICK base, rows, paced : SendFrame(1, base, rows, paced)
    BY <1>10 DEF SendSnapshot, SendPatch
  <2>2. pane' = NowRendered /\ Attached(1) /\ a \in Attachment /\ a # NoAttachment
    BY <1>4, <1>10, <2>1 DEF SendFrame, SendSnapshot, SendPatch, Offered, Attached
  <2>3. attachments'[1].acknowledged =
          [i \in DOMAIN a.acknowledged |-> IF i \in rows THEN NowRendered.screen[i] ELSE a.acknowledged[i]]
    BY <1>2, <1>3, <2>1, <2>2 DEF SendFrame, Attachables, Attachment
  <2>4. DOMAIN attachments'[1].acknowledged = 1 .. Len(a.acknowledged) /\ Len(a.acknowledged) \in Nat
    BY <2>2, <2>3 DEF Attachment
  <2>5. attachments'[1] = NoAttachment \/ attachments'[1].acknowledged \in Seq(Values)
    BY <1>2, <1>3 DEF Attachables, Attachment
  <2>6. attachments'[1] # NoAttachment => Len(attachments'[1].acknowledged) = Len(a.acknowledged)
    BY <2>4, <2>5
  <2> QED BY <1>3, <1>6, <2>2, <2>6
<1>11. CASE ObserveUnchanged(1)
  <2>1. pane' = NowRendered /\ Attached(1) /\ a \in Attachment /\ a # NoAttachment
    BY <1>4, <1>11 DEF ObserveUnchanged, Offered, Attached
  <2>2. attachments'[1].acknowledged = a.acknowledged
    BY <1>2, <1>3, <1>11, <2>1 DEF ObserveUnchanged, Attachables, Attachment
  <2> QED BY <1>3, <1>6, <2>1, <2>2
<1>12. CASE \/ SendExit(1) \/ SendResponse(1) \/ SendNothing(1) \/ PaceElapses(1) \/ SendDone(1)
            \/ Deliver(1) \/ DeliverFails(1) \/ AskOpen(1) \/ AskDetach(1) \/ AskResize(1)
  <2>1. pane' = pane
    BY <1>12 DEF SendExit, SendResponse, SendNothing, PaceElapses, SendDone, Deliver, DeliverFails,
                 AskOpen, AskDetach, AskResize
  <2>2. CASE attachments'[1] = a \/ attachments'[1] = NoAttachment
    BY <1>6, <2>1, <2>2
  <2>3. CASE attachments'[1] # a /\ attachments'[1] # NoAttachment
    <3>1. (SendExit(1) \/ SendNothing(1) \/ PaceElapses(1)) /\ Attached(1)
      BY <1>2, <1>3, <1>12, <2>3 DEF SendExit, SendResponse, SendNothing, PaceElapses, SendDone, Deliver,
           DeliverFails, AskOpen, AskDetach, AskResize, Attachables, Offered
    <3>2. a \in Attachment /\ a # NoAttachment
      BY <1>4, <3>1 DEF Attached
    <3>3. attachments'[1].acknowledged = a.acknowledged
      <4>1. CASE SendExit(1)
        BY <1>2, <1>3, <3>2, <4>1 DEF SendExit, Attachables, Attachment
      <4>2. CASE SendNothing(1)
        BY <1>2, <1>3, <3>2, <4>2 DEF SendNothing, Attachables, Attachment
      <4>3. CASE PaceElapses(1)
        BY <1>2, <1>3, <3>2, <4>3 DEF PaceElapses, Attachables, Attachment
      <4> QED BY <3>1, <4>1, <4>2, <4>3
    <3> QED BY <1>6, <2>1, <3>2, <3>3
  <2> QED BY <2>2, <2>3
<1> QED BY <1>1, <1>7, <1>8, <1>9, <1>10, <1>11, <1>12 DEF Next

(* With one client, of whatever sizes, the assertion of collectSpans()     *)
(* holds whenever the flush prepares cells, a resize deferred by an ingest *)
(* or repeated by a reopened pane included.  The hypothesis is needed:     *)
(* a second client that resizes the pane leaves the first one behind,      *)
(* which the violating instance of this property shows.                    *)
THEOREM CellSizesAgreeAlone ==
  ASSUME MaxClients = 1
  PROVE  Spec => []SizesAgree
<1>1. Init => IInv /\ Exact(pane, attachments[1])
  <2>1. Init => Exact(pane, attachments[1])
    BY DEF Init, Exact, Clients
  <2> QED BY <2>1, InitIInv
<1>2. IInv /\ Exact(pane, attachments[1]) /\ [Next]_vars => (IInv /\ Exact(pane, attachments[1]))'
  BY NextIInv, NextExact
<1>3. Exact(pane, attachments[1]) => SizesAgree
  BY DEF Exact, SizesAgree, SameSize, Offered, Attached, Clients
<1> QED BY <1>1, <1>2, <1>3, PTL DEF Spec

--------------------------------------------------------------------------------
(* Reading what is on its way                                              *)
(*                                                                         *)
(* Replica(c) folds the messages on their way into what the client holds.  *)
(* A fold is a recursive function on sets of indices; that there is one,   *)
(* and what it yields, follow by least counterexample.                     *)

(* A set of numbers that has an element has a least one. *)
LEMMA Least ==
  ASSUME NEW T \in SUBSET Nat, T # {}
  PROVE  \E n \in T : \A m \in T : n =< m
<1> DEFINE R == OpToRel(<, Nat)
<1>1. R = {x \in Nat \X Nat : x[1] < x[2]}
  BY DEF OpToRel
<1>2. IsWellFoundedOn(R, Nat)
  BY NatLessThanWellFounded
<1> HIDE DEF R
<1>3. PICK n \in T : \A m \in T : ~(<<m, n>> \in R)
  BY <1>2, WFMin
<1>4. \A m \in T : ~(m < n)
  BY <1>1, <1>3
<1> QED BY <1>4

(* What a replica is once it has read the messages of d, and after each.  *)
Reaches(k, d) == FoldLeft(Received, k, d)

Reads(g, k, d) ==
  /\ g[0] = k
  /\ \A i \in 1 .. Len(d) : g[i] = Received(g[i - 1], d[i])

FoldedBy(f, k, d, n) ==
  f = [s \in SUBSET (1 .. n) |->
         IF s = {} THEN k ELSE Received(f[s \ {Max(s)}], d[Max(s)])]

(* The greatest of numbers up to n that has n among them. *)
LEMMA MaxOf ==
  ASSUME NEW n \in Nat, NEW s, s \subseteq 1 .. n, n \in s
  PROVE  Max(s) = n
<1>1. \A y \in s : y \in Int /\ n >= y
  OBVIOUS
<1>2. \A x \in s : (\A y \in s : x >= y) => x = n
  BY <1>1
<1> QED BY <1>1, <1>2 DEF Max

(* For any number of messages there is a function that satisfies the       *)
(* recursive equation by which the library defines a fold.                 *)
LEMMA Folded ==
  ASSUME NEW k, NEW d
  PROVE  \A n \in Nat : \E f : FoldedBy(f, k, d, n)
<1> DEFINE T == {n \in Nat : ~\E f : FoldedBy(f, k, d, n)}
<1> SUFFICES ASSUME T # {} PROVE FALSE
  OBVIOUS
<1>1. PICK n \in T : \A m \in T : n =< m
  BY Least
<1>2. n \in Nat /\ ~\E f : FoldedBy(f, k, d, n)
  BY <1>1
<1>3. CASE n = 0
  <2> DEFINE f == [s \in SUBSET (1 .. 0) |-> k]
  <2>1. \A s \in SUBSET (1 .. 0) : s = {}
    OBVIOUS
  <2>2. FoldedBy(f, k, d, 0)
    BY <2>1 DEF FoldedBy
  <2> QED BY <1>2, <1>3, <2>2
<1>4. CASE n # 0
  <2>1. n - 1 \in Nat /\ n - 1 \notin T
    BY <1>1, <1>2, <1>4
  <2>2. PICK f : FoldedBy(f, k, d, n - 1)
    BY <2>1
  <2> DEFINE e == [s \in SUBSET (1 .. n) |-> IF n \in s THEN Received(f[s \ {n}], d[n]) ELSE f[s]]
  <2>3. \A s \in SUBSET (1 .. n - 1) :
          f[s] = IF s = {} THEN k ELSE Received(f[s \ {Max(s)}], d[Max(s)])
    BY <2>2 DEF FoldedBy
  <2>4. \A s \in SUBSET (1 .. n) :
          e[s] = IF s = {} THEN k ELSE Received(e[s \ {Max(s)}], d[Max(s)])
    <3> SUFFICES ASSUME NEW s \in SUBSET (1 .. n)
                 PROVE  e[s] = IF s = {} THEN k ELSE Received(e[s \ {Max(s)}], d[Max(s)])
      OBVIOUS
    <3>1. CASE n \in s
      <4>1. Max(s) = n
        BY <1>2, <3>1, MaxOf
      <4>2. s \ {n} \in SUBSET (1 .. n) /\ n \notin s \ {n}
        OBVIOUS
      <4>3. e[s \ {n}] = f[s \ {n}]
        BY <4>2
      <4> QED BY <3>1, <4>1, <4>3
    <3>2. CASE n \notin s
      <4>1. s \in SUBSET (1 .. n - 1) /\ e[s] = f[s]
        BY <1>2, <3>2
      <4>2. s \ {Max(s)} \in SUBSET (1 .. n) /\ n \notin s \ {Max(s)}
        BY <3>2
      <4>3. e[s \ {Max(s)}] = f[s \ {Max(s)}]
        BY <4>2
      <4> QED BY <2>3, <4>1, <4>3
    <3> QED BY <3>1, <3>2
  <2>5. FoldedBy(e, k, d, n)
    <3>1. e = [s \in SUBSET (1 .. n) |-> e[s]]
      OBVIOUS
    <3> HIDE DEF e
    <3> QED BY <2>4, <3>1 DEF FoldedBy
  <2> QED BY <1>2, <2>5
<1> QED BY <1>3, <1>4

(* The fold reads the messages one after the other. *)
LEMMA FoldReads ==
  ASSUME NEW S, NEW k, NEW d \in Seq(S)
  PROVE  \E g : Reads(g, k, d) /\ Reaches(k, d) = g[Len(d)]
<1> DEFINE n == Len(d)
           f == CHOOSE f : FoldedBy(f, k, d, n)
<1>1. n \in Nat /\ DOMAIN d = 1 .. n
  OBVIOUS
<1>2. FoldedBy(f, k, d, n)
  BY <1>1, Folded
<1>3. Reaches(k, d) = f[1 .. n]
  BY <1>1 DEF Reaches, FoldLeft, MapThenFoldSet, FoldedBy
<1>4. \A s \in SUBSET (1 .. n) : f[s] = IF s = {} THEN k ELSE Received(f[s \ {Max(s)}], d[Max(s)])
  BY <1>2 DEF FoldedBy
<1> HIDE DEF f, n
<1> DEFINE g == [i \in 0 .. n |-> f[1 .. i]]
<1>5. g[0] = k
  <2>1. 1 .. 0 = {} /\ 0 \in 0 .. n
    BY <1>1
  <2>2. f[{}] = k
    BY <1>4
  <2>3. f[1 .. 0] = k
    BY <2>1, <2>2, Zenon
  <2> QED BY <2>1, <2>3
<1>6. \A i \in 1 .. n : g[i] = Received(g[i - 1], d[i])
  <2> SUFFICES ASSUME NEW i \in 1 .. n PROVE g[i] = Received(g[i - 1], d[i])
    OBVIOUS
  <2>1. /\ i \in Nat /\ i - 1 \in 0 .. n /\ i \in 0 .. n /\ 1 .. i \in SUBSET (1 .. n)
        /\ i \in 1 .. i /\ 1 .. i # {} /\ (1 .. i) \ {i} = 1 .. (i - 1)
    BY <1>1
  <2>2. Max(1 .. i) = i
    BY <2>1, MaxOf
  <2>3. f[1 .. i] = Received(f[1 .. (i - 1)], d[i])
    BY <1>4, <2>1, <2>2
  <2> QED BY <2>1, <2>3
<1>7. g[n] = f[1 .. n]
  BY <1>1
<1> HIDE DEF g
<1>8. Reads(g, k, d)
  BY <1>5, <1>6 DEF Reads, n
<1> QED BY <1>3, <1>7, <1>8 DEF n

(* There is one way to read them. *)
LEMMA ReadsOnce ==
  ASSUME NEW S, NEW k, NEW d \in Seq(S), NEW g, NEW h, Reads(g, k, d), Reads(h, k, d)
  PROVE  \A i \in 0 .. Len(d) : g[i] = h[i]
<1> DEFINE T == {i \in 0 .. Len(d) : g[i] # h[i]}
<1> SUFFICES ASSUME T # {} PROVE FALSE
  OBVIOUS
<1>1. T \in SUBSET Nat
  OBVIOUS
<1>2. PICK i \in T : \A j \in T : i =< j
  BY <1>1, Least
<1>3. i # 0
  BY <1>2 DEF Reads
<1>4. i \in 1 .. Len(d) /\ i - 1 \in 0 .. Len(d) /\ i - 1 \notin T
  BY <1>2, <1>3
<1>5. g[i - 1] = h[i - 1]
  BY <1>4
<1> QED BY <1>2, <1>4, <1>5 DEF Reads

(* Whoever reads them so ends where the fold does. *)
LEMMA FoldIs ==
  ASSUME NEW S, NEW k, NEW d \in Seq(S), NEW g, Reads(g, k, d)
  PROVE  Reaches(k, d) = g[Len(d)]
<1>1. PICK h : Reads(h, k, d) /\ Reaches(k, d) = h[Len(d)]
  BY FoldReads
<1>2. g[Len(d)] = h[Len(d)]
  BY <1>1, ReadsOnce
<1> QED BY <1>1, <1>2

(* Nothing on its way changes nothing. *)
LEMMA FoldNone ==
  ASSUME NEW k
  PROVE  Reaches(k, <<>>) = k
<1> DEFINE g == [i \in 0 .. 0 |-> k]
<1>1. Reads(g, k, <<>>) /\ <<>> \in Seq({}) /\ g[Len(<<>>)] = k
  BY DEF Reads
<1> HIDE DEF g
<1> QED BY <1>1, FoldIs

(* A message added is read last. *)
LEMMA FoldAdded ==
  ASSUME NEW S, NEW k, NEW d \in Seq(S), NEW m \in S
  PROVE  Reaches(k, Append(d, m)) = Received(Reaches(k, d), m)
<1> DEFINE e == Append(d, m)
           n == Len(d)
<1>1. /\ e \in Seq(S) /\ n \in Nat /\ Len(e) = n + 1 /\ e[n + 1] = m
      /\ \A i \in 1 .. n : e[i] = d[i]
  BY Added
<1>2. PICK g : Reads(g, k, e) /\ Reaches(k, e) = g[Len(e)]
  BY <1>1, FoldReads
<1> HIDE DEF e
<1>3. Reads(g, k, d) /\ g[n + 1] = Received(g[n], m)
  <2>1. \A i \in 1 .. n + 1 : g[i] = Received(g[i - 1], e[i])
    BY <1>1, <1>2 DEF Reads
  <2>2. n + 1 \in 1 .. n + 1 /\ (n + 1) - 1 = n
    BY <1>1
  <2>3. \A i \in 1 .. n : i \in 1 .. n + 1
    BY <1>1
  <2>4. g[n + 1] = Received(g[n], m)
    BY <1>1, <2>1, <2>2
  <2> QED BY <1>1, <1>2, <2>1, <2>3, <2>4 DEF Reads
<1>4. Reaches(k, d) = g[n]
  BY <1>3, FoldIs
<1> QED BY <1>1, <1>2, <1>3, <1>4 DEF e

(* The first message may as well be read at once. *)
LEMMA FoldTaken ==
  ASSUME NEW S, NEW k, NEW d \in Seq(S), d # <<>>
  PROVE  Reaches(k, d) = Reaches(Received(k, Head(d)), Tail(d))
<1> DEFINE e == Tail(d)
           n == Len(d)
<1>1. /\ n \in Nat /\ n > 0 /\ Head(d) = d[1] /\ e \in Seq(S) /\ Len(e) = n - 1
      /\ \A i \in 1 .. Len(e) : i + 1 \in 1 .. n /\ e[i] = d[i + 1]
  BY Taken
<1>2. PICK g : Reads(g, k, d) /\ Reaches(k, d) = g[n]
  BY FoldReads
<1> DEFINE h == [i \in 0 .. n - 1 |-> g[i + 1]]
<1> HIDE DEF e, n
<1>3. g[0] = k /\ \A i \in 1 .. n : g[i] = Received(g[i - 1], d[i])
  BY <1>2 DEF Reads, n
<1>4. h[0] = Received(k, Head(d))
  BY <1>1, <1>3
<1>5. \A i \in 1 .. n - 1 : h[i] = Received(h[i - 1], e[i])
  <2> SUFFICES ASSUME NEW i \in 1 .. n - 1 PROVE h[i] = Received(h[i - 1], e[i])
    OBVIOUS
  <2>1. i \in 0 .. n - 1 /\ i - 1 \in 0 .. n - 1 /\ i + 1 \in 1 .. n /\ (i + 1) - 1 = i /\ (i - 1) + 1 = i
    BY <1>1
  <2>2. h[i] = g[i + 1] /\ h[i - 1] = g[i]
    BY <2>1
  <2>3. g[i + 1] = Received(g[i], d[i + 1])
    BY <1>3, <2>1
  <2>4. e[i] = d[i + 1]
    BY <1>1
  <2> QED BY <2>2, <2>3, <2>4
<1>6. h[n - 1] = g[n]
  BY <1>1
<1> HIDE DEF h
<1>7. Reads(h, Received(k, Head(d)), e)
  BY <1>1, <1>4, <1>5 DEF Reads
<1>8. Reaches(Received(k, Head(d)), e) = h[Len(e)]
  <2> DEFINE q == Received(k, Head(d))
  <2> HIDE DEF q
  <2>1. Reads(h, q, e)
    BY <1>7 DEF q
  <2>2. Reaches(q, e) = h[Len(e)]
    BY <1>1, <2>1, FoldIs
  <2> QED BY <2>2 DEF q
<1> QED BY <1>1, <1>2, <1>6, <1>8 DEF e

(* What the replica and every message respect, it respects in the end. *)
LEMMA FoldWithin ==
  ASSUME NEW S, NEW k, NEW d \in Seq(S), NEW P, k \in P,
         \A i \in 1 .. Len(d) : \A x \in P : Received(x, d[i]) \in P
  PROVE  Reaches(k, d) \in P
<1>1. PICK g : Reads(g, k, d) /\ Reaches(k, d) = g[Len(d)]
  BY FoldReads
<1> DEFINE T == {i \in 0 .. Len(d) : g[i] \notin P}
<1> SUFFICES ASSUME T # {} PROVE FALSE
  BY <1>1
<1>2. T \in SUBSET Nat
  OBVIOUS
<1>3. PICK i \in T : \A j \in T : i =< j
  BY <1>2, Least
<1>4. i # 0
  BY <1>1, <1>3 DEF Reads
<1>5. i \in 1 .. Len(d) /\ i - 1 \in 0 .. Len(d) /\ i - 1 \notin T
  BY <1>3, <1>4
<1>6. g[i - 1] \in P
  BY <1>5
<1>7. g[i] = Received(g[i - 1], d[i])
  BY <1>1, <1>5 DEF Reads
<1> QED BY <1>3, <1>5, <1>6, <1>7

(* What an exit does to the fields of a replica. *)
LEMMA ReadExited ==
  ASSUME NEW k \in ClientPane, NEW m \in Downward, m.type = "exited", NEW f, f = Received(k, m)
  PROVE  /\ f.cells = k.cells /\ f.applied = k.applied
         /\ ~f.attached /\ f.awaiting = k.awaiting
<1>1. f = Left(k)
  BY DEF Received
<1> QED BY <1>1 DEF Left, ClientPane

(* What an answer does to them. *)
LEMMA ReadOpened ==
  ASSUME NEW k \in ClientPane, NEW m \in Downward, m.type = "opened", NEW f, f = Received(k, m)
  PROVE  /\ f.cells = k.cells /\ f.applied = k.applied /\ f.gone = k.gone
         /\ m.id # k.awaiting => f = k
         /\ m.id = k.awaiting => f.attached = m.ok /\ f.awaiting = 0
<1>1. f = IF m.id # k.awaiting THEN k ELSE [k EXCEPT !.awaiting = 0, !.attached = m.ok]
  BY DEF Received
<1> QED BY <1>1 DEF ClientPane

(* What a frame does to the others than the cells. *)
LEMMA ReadFrame ==
  ASSUME NEW k \in ClientPane, NEW m \in Downward, m.type = "frame", NEW f, f = Received(k, m)
  PROVE  /\ f.awaiting = k.awaiting
         /\ ~k.attached => f = k
         /\ k.attached /\ Fits(k, m) => f.attached /\ f.gone = k.gone
<1>1. f = IF ~Applies(k, m) THEN k ELSE IF Fits(k, m) THEN Applied(k, m) ELSE Left(k)
  BY DEF Received
<1>2. ASSUME NEW z, NEW n
      PROVE  /\ [k EXCEPT !.applied = n, !.cells = z].awaiting = k.awaiting
             /\ [k EXCEPT !.applied = n, !.cells = z].attached = k.attached
             /\ [k EXCEPT !.applied = n, !.cells = z].gone = k.gone
  BY DEF ClientPane
<1>3. /\ Applied(k, m).awaiting = k.awaiting /\ Applied(k, m).attached = k.attached
      /\ Applied(k, m).gone = k.gone
  BY <1>2 DEF Applied
<1>4. Left(k).awaiting = k.awaiting
  BY DEF Left, ClientPane
<1> QED BY <1>1, <1>3, <1>4 DEF Applies

(* A replica that has the pane waits for no answer. *)
LEMMA FoldTyped ==
  ASSUME NEW k \in ClientPane, k.attached => k.awaiting = 0, NEW d \in Seq(Downward)
  PROVE  LET f == Reaches(k, d) IN f \in ClientPane /\ (f.attached => f.awaiting = 0)
<1> DEFINE P == {x \in ClientPane : x.attached => x.awaiting = 0}
<1>1. ASSUME NEW i \in 1 .. Len(d), NEW x \in P PROVE Received(x, d[i]) \in P
  <2>1. d[i] \in Downward /\ x \in ClientPane /\ (x.attached => x.awaiting = 0)
    OBVIOUS
  <2> DEFINE f == Received(x, d[i])
  <2>2. f = Received(x, d[i]) /\ f \in ClientPane
    BY <2>1, ReceivedType
  <2> HIDE DEF f
  <2>3. CASE d[i].type = "exited"
    <3>1. ~f.attached
      BY <2>1, <2>2, <2>3, ReadExited
    <3> QED BY <2>2, <3>1
  <2>4. CASE d[i].type = "opened"
    <3>1. f = x \/ f.awaiting = 0
      BY <2>1, <2>2, <2>4, ReadOpened
    <3> QED BY <2>1, <2>2, <3>1
  <2>5. CASE d[i].type = "frame"
    <3>1. f.awaiting = x.awaiting /\ (~x.attached => f = x)
      BY <2>1, <2>2, <2>5, ReadFrame
    <3> QED BY <2>1, <2>2, <3>1
  <2> QED BY <2>1, <2>3, <2>4, <2>5, DownwardCases
<1>2. k \in P
  OBVIOUS
<1> HIDE DEF P
<1>3. Reaches(k, d) \in P
  BY <1>1, <1>2, FoldWithin
<1> QED BY <1>3 DEF P

(* One that waits for an answer which is not on its way goes on waiting. *)
LEMMA FoldIdle ==
  ASSUME NEW k \in ClientPane, ~k.attached, NEW d \in Seq(Downward),
         \A i \in 1 .. Len(d) : ~AnswersOpen(d[i], k.awaiting)
  PROVE  LET f == Reaches(k, d) IN ~f.attached /\ f.awaiting = k.awaiting
<1> DEFINE P == {x \in ClientPane : ~x.attached /\ x.awaiting = k.awaiting}
<1>1. ASSUME NEW i \in 1 .. Len(d), NEW x \in P PROVE Received(x, d[i]) \in P
  <2>1. d[i] \in Downward /\ x \in ClientPane /\ ~x.attached /\ x.awaiting = k.awaiting
    OBVIOUS
  <2>2. d[i].type = "opened" => d[i].id # x.awaiting
    BY <2>1 DEF AnswersOpen
  <2> DEFINE f == Received(x, d[i])
  <2>3. f = Received(x, d[i]) /\ f \in ClientPane
    BY <2>1, ReceivedType
  <2> HIDE DEF f
  <2>4. CASE d[i].type = "exited"
    <3>1. ~f.attached /\ f.awaiting = x.awaiting
      BY <2>1, <2>3, <2>4, ReadExited
    <3> QED BY <2>1, <2>3, <3>1
  <2>5. CASE d[i].type = "opened"
    <3>1. f = x
      BY <2>1, <2>2, <2>3, <2>5, ReadOpened
    <3> QED BY <2>3, <3>1
  <2>6. CASE d[i].type = "frame"
    <3>1. f = x
      BY <2>1, <2>3, <2>6, ReadFrame
    <3> QED BY <2>3, <3>1
  <2> QED BY <2>1, <2>4, <2>5, <2>6, DownwardCases
<1>2. k \in P
  OBVIOUS
<1> HIDE DEF P
<1>3. Reaches(k, d) \in P
  BY <1>1, <1>2, FoldWithin
<1> QED BY <1>3 DEF P

(* Only frames change what is shown. *)
LEMMA FoldFrameless ==
  ASSUME NEW k \in ClientPane, NEW d \in Seq(Downward), \A i \in 1 .. Len(d) : ~IsFrame(d[i])
  PROVE  LET f == Reaches(k, d) IN f.cells = k.cells /\ f.applied = k.applied
<1> DEFINE P == {x \in ClientPane : x.cells = k.cells /\ x.applied = k.applied}
<1>1. ASSUME NEW i \in 1 .. Len(d), NEW x \in P PROVE Received(x, d[i]) \in P
  <2>1. d[i] \in Downward /\ x \in ClientPane /\ x.cells = k.cells /\ x.applied = k.applied
        /\ d[i].type # "frame"
    BY DEF IsFrame
  <2> DEFINE f == Received(x, d[i])
  <2>2. d[i].type = "opened" \/ d[i].type = "exited"
    BY <2>1, DownwardCases
  <2>3. f = Received(x, d[i]) /\ f \in ClientPane
    BY <2>1, ReceivedType
  <2> HIDE DEF f
  <2>4. CASE d[i].type = "opened"
    <3>1. f.cells = x.cells /\ f.applied = x.applied
      BY <2>1, <2>3, <2>4, ReadOpened
    <3> QED BY <2>1, <2>3, <3>1
  <2>5. CASE d[i].type = "exited"
    <3>1. f.cells = x.cells /\ f.applied = x.applied
      BY <2>1, <2>3, <2>5, ReadExited
    <3> QED BY <2>1, <2>3, <3>1
  <2> QED BY <2>2, <2>4, <2>5
<1>2. k \in P
  OBVIOUS
<1> HIDE DEF P
<1>3. Reaches(k, d) \in P
  BY <1>1, <1>2, FoldWithin
<1> QED BY <1>3 DEF P

(* Snapshots never take the pane from a client, nor do answers it does not *)
(* wait for.                                                               *)
LEMMA FoldStays ==
  ASSUME NEW k \in ClientPane, k.attached, k.awaiting = 0, NEW d \in Seq(Downward),
         \A i \in 1 .. Len(d) : /\ d[i].type # "exited"
                                /\ d[i].type = "opened" => d[i].id # 0
                                /\ d[i].type = "frame" => d[i].base = 0
  PROVE  Reaches(k, d).attached
<1> DEFINE P == {x \in ClientPane : x.attached /\ x.awaiting = 0}
<1>1. ASSUME NEW i \in 1 .. Len(d), NEW x \in P PROVE Received(x, d[i]) \in P
  <2>1. d[i] \in Downward /\ x \in ClientPane /\ x.attached /\ x.awaiting = 0
    OBVIOUS
  <2>2. d[i].type = "opened" => d[i].id # x.awaiting
    BY <2>1
  <2>3. d[i].type = "frame" => Fits(x, d[i])
    BY DEF Fits
  <2> DEFINE f == Received(x, d[i])
  <2>4. f = Received(x, d[i]) /\ f \in ClientPane
    BY <2>1, ReceivedType
  <2> HIDE DEF f
  <2>5. CASE d[i].type = "opened"
    <3>1. f = x
      BY <2>1, <2>2, <2>4, <2>5, ReadOpened
    <3> QED BY <2>4, <3>1
  <2>6. CASE d[i].type = "frame"
    <3>1. f.attached /\ f.awaiting = x.awaiting
      BY <2>1, <2>3, <2>4, <2>6, ReadFrame
    <3> QED BY <2>1, <2>4, <3>1
  <2> QED BY <2>1, <2>5, <2>6, DownwardCases
<1>2. k \in P
  OBVIOUS
<1> HIDE DEF P
<1>3. Reaches(k, d) \in P
  BY <1>1, <1>2, FoldWithin
<1> QED BY <1>3 DEF P

--------------------------------------------------------------------------------
(* What the client will hold                                               *)
(*                                                                         *)
(* ReplicaFollows is not inductive: a snapshot owed, an open or a detach   *)
(* on its way, and an exit being written each suspend it, and what happens *)
(* then decides whether it comes back.  Mirrors says, beside it (Level),   *)
(* that an open only ever reaches a client without an attachment (Opens),  *)
(* that a client with one has the pane or is about to be told so before    *)
(* any frame (Hopes), and that only a dead child ends a client (Over).     *)

(* What the runtime is told before the next snapshot or open: nothing that *)
(* disturbs the patches, and nothing that ends the attachment.             *)
Calm(u) == \A i \in 1 .. Len(u) : u[i].type \in {"ack", "resize"}
Stays(u) == \A i \in 1 .. Len(u) : u[i].type \notin {"open", "detach"}

LastFrame(a) == IF a.outstanding # 0 THEN a.outstanding ELSE a.acknowledged_frame_id

(* f is what the client will hold once it has read all that is on its way. *)
Level(a, u, f) ==
  a # NoAttachment /\ ~a.snapshot_pending /\ Calm(u) =>
    f.cells = a.acknowledged /\ f.applied = LastFrame(a)

(* An open reaches the runtime when the client has no attachment. *)
Opens(a, u) == \A i \in 1 .. Len(u) : u[i].type = "open" => LetsGo(a, u, i - 1)

(* The exit is being written: the attachment ends with that write. *)
Leaving(s) == s.send_pending /\ s.detach

(* The client of an attachment will have the pane by then, or is about to  *)
(* be told so before any cells.                                            *)
Hopes(a, s, u, f) ==
  a # NoAttachment /\ Stays(u) /\ ~Leaving(s) =>
    \/ f.attached
    \/ /\ f.awaiting # 0
       /\ \E i \in 1 .. Len(s.responses) : s.responses[i].id = f.awaiting
       /\ \A i \in 1 .. Len(s.responses) : s.responses[i].id = f.awaiting => s.responses[i].ok

(* A client that left, or will, was told of an exit. *)
Exited(d) == \E i \in 1 .. Len(d) : d[i].type = "exited"
Over(a, s, d, k, x) == k.gone \/ Exited(d) => x /\ (a # NoAttachment => Leaving(s))

Mirrors(a, s, d, u, k, f, x) ==
  Level(a, u, f) /\ Opens(a, u) /\ Hopes(a, s, u, f) /\ Over(a, s, d, k, x)

Mirror(c) ==
  Mirrors(attachments[c], sessions[c], down[c], up[c], clients[c], Reaches(clients[c], down[c]),
          pane.exit)

MirrorInv == \A c \in Clients : Mirror(c)

(* An attachment that goes has gone for every request behind. *)
LEMMA LetsGoAfter ==
  ASSUME NEW a, NEW b, NEW u, NEW n, LetsGo(a, u, n), a = NoAttachment => b = NoAttachment
  PROVE  LetsGo(b, u, n)
  BY DEF LetsGo

(* A step that tells the client nothing and takes nothing from it. *)
LEMMA StandsMirrors ==
  ASSUME NEW x \in Clients, Stands(x), Mirror(x), pane.exit => pane'.exit
  PROVE  Mirror(x)'
<1> DEFINE a == attachments[x]
           b == attachments'[x]
           s == sessions[x]
           t == sessions'[x]
           u == up[x]
           f == Reaches(clients[x], down[x])
<1>1. /\ down'[x] = down[x] /\ up'[x] = u /\ clients'[x] = clients[x]
      /\ t.responses = s.responses /\ t.send_pending = s.send_pending /\ t.detach = s.detach
      /\ Moved(a, b)
  BY DEF Stands
<1>2. Reaches(clients'[x], down'[x]) = f
  BY <1>1
<1>3. Mirrors(a, s, down[x], u, clients[x], f, pane.exit)
  BY DEF Mirror
<1> SUFFICES Mirrors(b, t, down[x], u, clients[x], f, pane'.exit)
  BY <1>1, <1>2 DEF Mirror
<1> HIDE DEF a, b, s, t, u, f
<1>4. /\ a = NoAttachment => b = NoAttachment
      /\ b # NoAttachment => /\ a # NoAttachment
                             /\ ~b.snapshot_pending => /\ ~a.snapshot_pending
                                                       /\ b.acknowledged = a.acknowledged
                                                       /\ LastFrame(b) = LastFrame(a)
  BY <1>1, DeliveryAssumption DEF Moved, Drift, LastFrame
<1>5. Level(b, u, f)
  BY <1>3, <1>4 DEF Mirrors, Level
<1>6. Opens(b, u)
  BY <1>3, <1>4, LetsGoAfter DEF Mirrors, Opens
<1>7. Leaving(t) = Leaving(s)
  BY <1>1 DEF Leaving
<1>8. Hopes(b, t, u, f)
  BY <1>1, <1>3, <1>4, <1>7 DEF Mirrors, Hopes
<1>9. Over(b, t, down[x], clients[x], pane'.exit)
  BY <1>3, <1>4, <1>7 DEF Mirrors, Over
<1> QED BY <1>5, <1>6, <1>8, <1>9 DEF Mirrors

(* A message of the client: an open follows a detach. *)
LEMMA OpensAdded ==
  ASSUME NEW a, NEW u \in Seq(Upward), Opens(a, u), NEW m \in Upward,
         m.type = "open" => LetsGo(a, u, Len(u))
  PROVE  Opens(a, Append(u, m))
<1> DEFINE v == Append(u, m)
<1>1. /\ v \in Seq(Upward) /\ Len(u) \in Nat /\ Len(v) = Len(u) + 1 /\ v[Len(u) + 1] = m
      /\ \A i \in 1 .. Len(u) : v[i] = u[i]
  BY Added
<1> HIDE DEF v
<1>2. ASSUME NEW i \in 1 .. Len(v), v[i].type = "open" PROVE LetsGo(a, v, i - 1)
  <2>1. i - 1 \in 0 .. Len(u) /\ (i \in 1 .. Len(u) \/ i - 1 = Len(u))
    BY <1>1
  <2>2. LetsGo(a, u, i - 1)
    <3>1. CASE i \in 1 .. Len(u)
      BY <1>1, <1>2, <3>1 DEF Opens
    <3>2. CASE i - 1 = Len(u)
      <4>1. i = Len(u) + 1
        BY <1>1, <3>2
      <4> QED BY <1>1, <1>2, <3>2, <4>1
    <3> QED BY <2>1, <3>1, <3>2
  <2>3. /\ \A h \in 1 .. i - 1 : v[h] = u[h]
        /\ \A j \in 1 .. i - 1 : \A h \in j .. i - 1 : v[h] = u[h]
    BY <1>1, <2>1
  <2> QED BY <2>2, <2>3 DEF LetsGo
<1>3. Opens(a, v)
  BY <1>2 DEF Opens
<1> QED BY <1>3 DEF v

(* It asks for neither an open nor a detach. *)
LEMMA AskMirrors ==
  ASSUME NEW a, NEW s, NEW d, NEW u \in Seq(Upward), NEW k, NEW f, NEW x,
         Mirrors(a, s, d, u, k, f, x), NEW m \in Upward, m.type \in {"ack", "resize", "snapshot"}
  PROVE  Mirrors(a, s, d, Append(u, m), k, f, x)
<1> DEFINE v == Append(u, m)
<1>1. /\ v \in Seq(Upward) /\ Len(u) \in Nat /\ Len(v) = Len(u) + 1 /\ v[Len(u) + 1] = m
      /\ \A i \in 1 .. Len(u) : v[i] = u[i]
  BY Added
<1> HIDE DEF v
<1>2. \A i \in 1 .. Len(u) : i \in 1 .. Len(v) /\ v[i] = u[i]
  BY <1>1
<1>3. (Calm(v) => Calm(u)) /\ (Stays(v) => Stays(u))
  BY <1>2 DEF Calm, Stays
<1>4. Opens(a, v)
  BY OpensAdded DEF Mirrors, v
<1>5. Level(a, v, f) /\ Hopes(a, s, v, f)
  BY <1>3 DEF Mirrors, Level, Hopes
<1>6. Mirrors(a, s, d, v, k, f, x)
  BY <1>4, <1>5 DEF Mirrors
<1> QED BY <1>6 DEF v

(* A message read was on its way. *)
LEMMA DeliverMirrors ==
  ASSUME NEW a, NEW s, NEW d, NEW u, NEW k, NEW x, Talks(a, s.responses, d, u, k), d # <<>>,
         Mirrors(a, s, d, u, k, Reaches(k, d), x)
  PROVE  LET l == Received(k, Head(d))
         IN Mirrors(a, s, Tail(d), u \o Reply(k, Head(d)), l, Reaches(l, Tail(d)), x)
<1> DEFINE m == Head(d)
           l == Received(k, m)
           e == Tail(d)
           f == Reaches(k, d)
<1>1. d \in Seq(Downward) /\ u \in Seq(Upward) /\ k \in ClientPane
  BY DEF Talks
<1>2. /\ m = d[1] /\ m \in Downward /\ 1 \in 1 .. Len(d) /\ Len(e) = Len(d) - 1
      /\ \A i \in 1 .. Len(e) : i + 1 \in 1 .. Len(d) /\ e[i] = d[i + 1]
  BY <1>1, Taken
<1>3. Reaches(l, e) = f /\ l = Received(k, m)
  BY <1>1, FoldTaken
<1> HIDE DEF m, l, e, f
<1>4. m.type = "frame" /\ k.attached => Applies(k, m) /\ Fits(k, m)
  BY <1>2 DEF Talks, Converses, Follows, Fitting, Whole, Applies, Fits, IsFrame
<1>5. Exited(e) => Exited(d)
  BY <1>2 DEF Exited
<1>6. l.gone => k.gone \/ Exited(d)
  <2>1. CASE m.type = "exited"
    BY <1>2, <2>1 DEF Exited
  <2>2. CASE m.type = "opened"
    <3>1. l.gone = k.gone
      BY <1>1, <1>2, <1>3, <2>2, ReadOpened
    <3> QED BY <3>1
  <2>3. CASE m.type = "frame" /\ k.attached
    <3>1. l.gone = k.gone
      BY <1>1, <1>2, <1>3, <1>4, <2>3, ReadFrame
    <3> QED BY <3>1
  <2>4. CASE m.type = "frame" /\ ~k.attached
    <3>1. l = k
      BY <1>1, <1>2, <1>3, <2>4, ReadFrame
    <3> QED BY <3>1
  <2> QED BY <1>2, <2>1, <2>2, <2>3, <2>4, DownwardCases
<1>7. Mirrors(a, s, d, u, k, f, x)
  BY DEF f
<1>8. Mirrors(a, s, e, u, l, f, x)
  BY <1>5, <1>6, <1>7 DEF Mirrors, Over
<1>9. CASE m.type = "frame" /\ k.attached
  <2> DEFINE n == [type |-> "ack", frame_id |-> m.frame_id]
  <2>1. n \in Upward /\ n.type = "ack"
    BY <1>2, <1>9, DownwardCases DEF Upward
  <2>2. Reply(k, m) = <<n>>
    BY <1>4, <1>9 DEF Reply
  <2> HIDE DEF n
  <2>3. u \o <<n>> = Append(u, n)
    BY <1>1, <2>1
  <2>4. Mirrors(a, s, e, Append(u, n), l, f, x)
    BY <1>1, <1>8, <2>1, AskMirrors
  <2> QED BY <1>3, <2>2, <2>3, <2>4 DEF m, l, e
<1>10. CASE ~(m.type = "frame" /\ k.attached)
  <2>1. Reply(k, m) = <<>>
    BY <1>10 DEF Reply
  <2>2. u \o <<>> = u
    BY <1>1
  <2> QED BY <1>3, <1>8, <2>1, <2>2 DEF m, l, e
<1> QED BY <1>9, <1>10

(* It asks for one of them. *)
LEMMA AskAgainMirrors ==
  ASSUME NEW a, NEW s, NEW d, NEW u \in Seq(Upward), NEW k, NEW f, NEW x,
         Mirrors(a, s, d, u, k, f, x), NEW m \in Upward, m.type \in {"open", "detach"},
         m.type = "open" => LetsGo(a, u, Len(u)), NEW l, l.gone = k.gone, NEW g
  PROVE  Mirrors(a, s, d, Append(u, m), l, g, x)
<1> DEFINE v == Append(u, m)
<1>1. /\ v \in Seq(Upward) /\ Len(u) \in Nat /\ Len(v) = Len(u) + 1 /\ v[Len(u) + 1] = m
  BY Added
<1>2. Opens(a, v)
  BY OpensAdded DEF Mirrors
<1> HIDE DEF v
<1>3. Len(u) + 1 \in 1 .. Len(v)
  BY <1>1
<1>4. ~Calm(v) /\ ~Stays(v)
  BY <1>1, <1>3 DEF Calm, Stays
<1>5. Mirrors(a, s, d, v, l, g, x)
  BY <1>2, <1>4 DEF Mirrors, Level, Hopes, Over
<1> QED BY <1>5 DEF v

(* A frame that cannot be stored: all that follow it are whole. *)
LEMMA DeliverFailsMirrors ==
  ASSUME NEW a, NEW s, NEW d, NEW u, NEW k, NEW x, Talks(a, s.responses, d, u, k), d # <<>>,
         Mirrors(a, s, d, u, k, Reaches(k, d), x), IsFrame(d[1]), k.attached,
         NEW m \in Upward, m.type = "snapshot"
  PROVE  Mirrors(a, s, Tail(d), Append(u, m), k, Reaches(k, Tail(d)), x)
<1> DEFINE e == Tail(d)
           v == Append(u, m)
           f == Reaches(k, d)
           g == Reaches(k, e)
<1>1. /\ d \in Seq(Downward) /\ u \in Seq(Upward) /\ k \in ClientPane
      /\ Requests(s.responses, d, u, k) /\ k.awaiting = 0 /\ Fitting(d, k)
  BY DEF Talks, Converses, Follows
<1>2. /\ 1 \in 1 .. Len(d) /\ e \in Seq(Downward)
      /\ \A i \in 1 .. Len(e) : i + 1 \in 1 .. Len(d) /\ 1 < i + 1 /\ e[i] = d[i + 1]
  BY <1>1, Taken
<1>3. /\ v \in Seq(Upward) /\ Len(u) \in Nat /\ Len(v) = Len(u) + 1 /\ v[Len(u) + 1] = m
  BY <1>1, Added
<1>4. Opens(a, v)
  BY <1>1, OpensAdded DEF Mirrors
<1>5. Mirrors(a, s, d, u, k, f, x)
  OBVIOUS
<1> HIDE DEF e, v, f
<1>6. \A i \in 1 .. Len(e) : /\ e[i].type = "opened" => e[i].id # 0
                             /\ e[i].type = "frame" => e[i].base = 0
  <2> SUFFICES ASSUME NEW i \in 1 .. Len(e)
               PROVE  /\ e[i].type = "opened" => e[i].id # 0
                      /\ e[i].type = "frame" => e[i].base = 0
    OBVIOUS
  <2>1. i + 1 \in 1 .. Len(d) /\ 1 < i + 1 /\ e[i] = d[i + 1] /\ d[i + 1] \in Downward
    BY <1>1, <1>2
  <2>2. d[i + 1].type = "opened" => d[i + 1].id \in Nat /\ d[i + 1].id > 0
    BY <1>1, <2>1, DownwardCases DEF Requests
  <2>3. d[i + 1].type = "frame" => d[i + 1].base = 0
    BY <1>1, <1>2, <2>1 DEF Fitting, Whole, IsFrame
  <2> QED BY <2>1, <2>2, <2>3
<1>7. Exited(e) => Exited(d)
  BY <1>2 DEF Exited
<1>8. ~Calm(v)
  <2>1. Len(u) + 1 \in 1 .. Len(v)
    BY <1>3
  <2> QED BY <1>3, <2>1 DEF Calm
<1>9. ASSUME a # NoAttachment, ~Leaving(s) PROVE g.attached
  <2>1. ~Exited(e)
    BY <1>5, <1>7, <1>9 DEF Mirrors, Over
  <2>2. \A i \in 1 .. Len(e) : e[i].type # "exited"
    BY <2>1 DEF Exited
  <2> QED BY <1>1, <1>2, <1>6, <2>2, FoldStays
<1> HIDE DEF g
<1>10. Mirrors(a, s, e, v, k, g, x)
  BY <1>4, <1>5, <1>7, <1>8, <1>9 DEF Mirrors, Level, Hopes, Over
<1> QED BY <1>10 DEF e, v, g

(* The runtime takes what asks for neither an open nor a detach; b is the  *)
(* attachment after it.                                                    *)
LEMMA TakeMirrors ==
  ASSUME NEW a, NEW b, NEW s, NEW d, NEW u \in Seq(Upward), NEW k, NEW f, NEW x, NEW y,
         Mirrors(a, s, d, u, k, f, x), u # <<>>, u[1].type \notin {"open", "detach"}, x => y,
         a = NoAttachment => b = NoAttachment,
         b # NoAttachment /\ ~b.snapshot_pending =>
           /\ u[1].type # "snapshot" /\ ~a.snapshot_pending
           /\ b.acknowledged = a.acknowledged /\ LastFrame(b) = LastFrame(a)
  PROVE  Mirrors(b, s, d, Tail(u), k, f, y)
<1> DEFINE v == Tail(u)
<1>1. /\ Len(u) \in Nat /\ Len(u) > 0 /\ Len(v) = Len(u) - 1 /\ u[1] \in Upward
      /\ \A i \in 1 .. Len(v) : i + 1 \in 1 .. Len(u) /\ v[i] = u[i + 1]
  BY Taken
<1>2. Opens(b, v)
  <2> SUFFICES ASSUME NEW i \in 1 .. Len(v), v[i].type = "open" PROVE LetsGo(b, v, i - 1)
    BY DEF Opens
  <2>1. i + 1 \in 1 .. Len(u) /\ u[i + 1] = v[i] /\ (i + 1) - 1 = i /\ i \in 1 .. Len(u)
    BY <1>1
  <2>2. LetsGo(a, u, i)
    BY <2>1 DEF Mirrors, Opens
  <2> QED BY <2>1, <2>2, TailLetsGo
<1> HIDE DEF v
<1>3. \A i \in 1 .. Len(u) : i = 1 \/ (i - 1 \in 1 .. Len(v) /\ u[i] = v[i - 1])
  <2> SUFFICES ASSUME NEW i \in 1 .. Len(u), i # 1 PROVE i - 1 \in 1 .. Len(v) /\ u[i] = v[i - 1]
    OBVIOUS
  <2>1. i - 1 \in 1 .. Len(v) /\ (i - 1) + 1 = i
    BY <1>1
  <2> QED BY <1>1, <2>1
<1>4. Stays(v) => Stays(u)
  BY <1>3 DEF Stays
<1>5. Calm(v) /\ u[1].type # "snapshot" => Calm(u)
  BY <1>1, <1>3, UpwardCases DEF Calm
<1>6. Level(b, v, f) /\ Hopes(b, s, v, f) /\ Over(b, s, d, k, y)
  BY <1>4, <1>5 DEF Mirrors, Level, Hopes, Over
<1>7. Mirrors(b, s, d, v, k, f, y)
  BY <1>2, <1>6 DEF Mirrors
<1> QED BY <1>7 DEF v

(* open(): there is no attachment when it arrives, and unless the client   *)
(* has moved on it waits for just this answer.                             *)
LEMMA OpenMirrors ==
  ASSUME NEW a, NEW b, NEW s, NEW t, NEW d, NEW u, NEW k, NEW x \in BOOLEAN, NEW y,
         Talks(a, s.responses, d, u, k), u # <<>>, u[1].type = "open", x => y,
         Mirrors(a, s, d, u, k, Reaches(k, d), x),
         t.responses = Append(s.responses, [id |-> u[1].id, ok |-> ~x]),
         x => b = a, ~x => b.snapshot_pending
  PROVE  Mirrors(b, t, d, Tail(u), k, Reaches(k, d), y)
<1> DEFINE v == Tail(u)
           f == Reaches(k, d)
           r == s.responses
           m == [id |-> u[1].id, ok |-> ~x]
<1>1. /\ d \in Seq(Downward) /\ u \in Seq(Upward) /\ k \in ClientPane /\ r \in Seq(Answer)
      /\ Requests(r, d, u, k)
  BY DEF Talks, Converses
<1>2. /\ Len(u) \in Nat /\ Len(u) > 0 /\ Len(v) = Len(u) - 1 /\ u[1] \in Upward
      /\ 1 \in 1 .. Len(u)
      /\ \A i \in 1 .. Len(v) : i + 1 \in 1 .. Len(u) /\ v[i] = u[i + 1]
  BY <1>1, Taken
<1>3. Opens(b, v)
  <2> SUFFICES ASSUME NEW i \in 1 .. Len(v), v[i].type = "open" PROVE LetsGo(b, v, i - 1)
    BY DEF Opens
  <2>1. i + 1 \in 1 .. Len(u) /\ u[i + 1] = v[i] /\ (i + 1) - 1 = i /\ i \in 1 .. Len(u)
    BY <1>2
  <2>2. LetsGo(a, u, i)
    BY <2>1 DEF Mirrors, Opens
  <2> QED BY <1>1, <2>1, <2>2, TailLetsGo
<1>4. Mirrors(a, s, d, u, k, f, x)
  OBVIOUS
<1>5. u[1].id \in Nat /\ u[1].id > 0 /\ m \in Answer /\ m.id = u[1].id /\ m.ok = ~x
  <2>1. u[1].id \in Nat
    BY <1>2, UpwardCases
  <2> QED BY <1>1, <1>2, <2>1 DEF Requests, Answer
<1>6. /\ t.responses = Append(r, m)
      /\ Len(r) \in Nat /\ Len(t.responses) = Len(r) + 1 /\ t.responses[Len(r) + 1] = m
      /\ \A i \in 1 .. Len(r) : t.responses[i] = r[i]
  BY <1>1, <1>5, Added
<1>7. f.awaiting = k.awaiting \/ k.attached \/ ~\A i \in 1 .. Len(d) : ~AnswersOpen(d[i], k.awaiting)
  BY <1>1, FoldIdle
<1> SUFFICES Mirrors(b, t, d, v, k, f, y)
  OBVIOUS
<1> HIDE DEF v, f, m, r
<1>8. a = NoAttachment
  <2>1. LetsGo(a, u, 1 - 1)
    BY <1>2, <1>4 DEF Mirrors, Opens
  <2> QED BY <2>1 DEF LetsGo
<1>9. CASE x
  BY <1>3, <1>4, <1>8, <1>9 DEF Mirrors, Level, Hopes, Over
<1>10. CASE ~x
  <2>1. ~k.gone /\ ~Exited(d)
    BY <1>4, <1>10 DEF Mirrors, Over
  <2>2. ASSUME Stays(v)
        PROVE  /\ f.awaiting = m.id
               /\ \A i \in 1 .. Len(r) : r[i].id # f.awaiting
    <3>1. ~k.attached
      BY <1>2 DEF Talks, Converses, Follows
    <3>2. k.awaiting # 0
      <4>1. ~LetsGo(a, u, Len(u))
        <5>1. \A j \in 1 .. Len(u) : u[j].type # "detach"
          <6> SUFFICES ASSUME NEW j \in 1 .. Len(u), j # 1 PROVE u[j].type # "detach"
            OBVIOUS
          <6>1. j - 1 \in 1 .. Len(v) /\ (j - 1) + 1 = j
            BY <1>2
          <6> QED BY <1>2, <2>2, <6>1 DEF Stays
        <5> QED BY <1>2, <5>1 DEF LetsGo
      <4> QED BY <2>1, <3>1, <4>1 DEF Talks, Converses
    <3>3. Asked(a, r, d, u, k)
      BY <1>2, <3>1, <3>2 DEF Talks, Converses, Answered, r
    <3>4. Len(u) = 1
      <4> SUFFICES ASSUME Len(u) # 1 PROVE FALSE
        OBVIOUS
      <4>1. Len(u) - 1 \in 1 .. Len(v) /\ (Len(u) - 1) + 1 = Len(u)
        BY <1>2
      <4>2. v[Len(u) - 1].type = "open"
        BY <1>2, <3>3, <4>1 DEF Asked
      <4> QED BY <2>2, <4>1, <4>2 DEF Stays
    <3>5. m.id = k.awaiting
      BY <1>5, <3>3, <3>4 DEF Asked
    <3>6. f.awaiting = k.awaiting
      BY <1>7, <3>1, <3>3 DEF Asked
    <3> QED BY <3>3, <3>5, <3>6 DEF Asked
  <2>3. Hopes(b, t, v, f)
    <3> SUFFICES ASSUME Stays(v)
                 PROVE  /\ f.awaiting # 0
                        /\ \E i \in 1 .. Len(t.responses) : t.responses[i].id = f.awaiting
                        /\ \A i \in 1 .. Len(t.responses) :
                             t.responses[i].id = f.awaiting => t.responses[i].ok
      BY DEF Hopes
    <3>1. f.awaiting = m.id /\ f.awaiting # 0
      BY <1>5, <2>2
    <3>2. Len(r) + 1 \in 1 .. Len(t.responses)
      BY <1>6
    <3>3. \A i \in 1 .. Len(t.responses) :
            t.responses[i] = m \/ (i \in 1 .. Len(r) /\ t.responses[i] = r[i])
      BY <1>6
    <3>4. m.ok
      BY <1>5, <1>10
    <3> QED BY <1>6, <2>2, <3>1, <3>2, <3>3, <3>4
  <2> QED BY <1>3, <1>10, <2>1, <2>3 DEF Mirrors, Level, Over
<1> QED BY <1>9, <1>10

(* Once the outstanding frame is acknowledged and no snapshot is owed, a   *)
(* client that will have the pane already shows the baseline.              *)
LEMMA CaughtUp ==
  ASSUME NEW a, NEW r, NEW d, NEW u, NEW k, Talks(a, r, d, u, k), a # NoAttachment, ~k.gone,
         a.outstanding = 0, ~a.snapshot_pending, Reaches(k, d).attached
  PROVE  LET f == Reaches(k, d)
         IN f.cells = a.acknowledged /\ f.applied = a.acknowledged_frame_id
<1> DEFINE f == Reaches(k, d)
<1>1. d \in Seq(Downward) /\ k \in ClientPane /\ Requests(r, d, u, k)
  BY DEF Talks, Converses
<1>2. k.attached
  <2> SUFFICES ASSUME ~k.attached PROVE FALSE
    OBVIOUS
  <2>1. CASE k.awaiting = 0
    <3>1. \A i \in 1 .. Len(d) : ~AnswersOpen(d[i], k.awaiting)
      BY <1>1, <2>1 DEF Requests, AnswersOpen
    <3> QED BY <1>1, <3>1, FoldIdle
  <2>2. CASE Asked(a, r, d, u, k)
    <3>1. \A i \in 1 .. Len(d) : ~AnswersOpen(d[i], k.awaiting)
      BY <2>2 DEF Asked
    <3> QED BY <1>1, <3>1, FoldIdle
  <2>3. ~Answered(a, r, d, u, k)
    BY DEF Answered
  <2> QED BY <2>1, <2>2, <2>3 DEF Talks, Converses
<1>3. Settled(a, d, k)
  BY <1>2 DEF Talks, Converses, Follows
<1>4. \A i \in 1 .. Len(d) : ~IsFrame(d[i])
  BY <1>3 DEF Settled
<1>5. f.cells = k.cells /\ f.applied = k.applied
  BY <1>1, <1>4, FoldFrameless
<1> HIDE DEF f
<1>6. f.cells = a.acknowledged /\ f.applied = a.acknowledged_frame_id
  BY <1>3, <1>5 DEF Settled
<1> QED BY <1>6 DEF f

(* A frame leaves for a client that, by the time it reads it, has the pane *)
(* and shows the base of a patch.                                          *)
LEMMA FrameMirrors ==
  ASSUME NEW a, NEW b, NEW s, NEW t, NEW d, NEW u, NEW k, NEW x,
         Talks(a, s.responses, d, u, k), Mirrors(a, s, d, u, k, Reaches(k, d), x),
         s.responses = <<>>, ~s.send_pending, NEW m, Sends(a, b, m)
  PROVE  Mirrors(b, t, Append(d, m), u, k, Reaches(k, Append(d, m)), x)
<1> DEFINE e == Append(d, m)
           f == Reaches(k, d)
           g == Reaches(k, e)
<1> USE DEF Sends
<1>1. /\ d \in Seq(Downward) /\ u \in Seq(Upward) /\ k \in ClientPane /\ Numbers(a)
      /\ k.attached => k.awaiting = 0
  BY DEF Talks, Converses
<1>2. /\ Len(d) \in Nat /\ Len(e) = Len(d) + 1 /\ e[Len(d) + 1] = m
      /\ \A i \in 1 .. Len(d) : e[i] = d[i]
  BY <1>1, Added
<1>3. g = Received(f, m)
  BY <1>1, FoldAdded
<1>4. a # NoAttachment /\ b # NoAttachment
  BY DeliveryAssumption
<1>5. f \in ClientPane
  BY <1>1, FoldTyped
<1>6. Mirrors(a, s, d, u, k, f, x)
  OBVIOUS
<1>7. ~Leaving(s)
  BY DEF Leaving
<1>8. ~k.gone /\ ~Exited(d)
  BY <1>4, <1>6, <1>7 DEF Mirrors, Over
<1>9. a.outstanding = 0 /\ ~a.snapshot_pending /\ f.attached =>
        f.cells = a.acknowledged /\ f.applied = a.acknowledged_frame_id
  BY <1>4, <1>8, CaughtUp
<1> SUFFICES Mirrors(b, t, e, u, k, g, x)
  OBVIOUS
<1> HIDE DEF e, f, g
<1>10. ASSUME Stays(u) PROVE g.attached /\ g.cells = b.acknowledged /\ g.applied = LastFrame(b)
  <2>1. f.attached
    BY <1>4, <1>6, <1>7, <1>10 DEF Mirrors, Hopes
  <2>2. Applies(f, m) /\ Fits(f, m)
    BY <1>9, <2>1 DEF Applies, Fits, Whole
  <2>3. g = Applied(f, m)
    BY <1>3, <2>2 DEF Received, IsFrame
  <2>4. g.attached
    BY <1>3, <1>5, <2>1, <2>2, ReadFrame DEF IsFrame
  <2> DEFINE old == IF m.size = Len(f.cells) THEN f.cells ELSE Cleared(m.size)
             new == [i \in 1 .. m.size |-> IF i \in DOMAIN m.cells THEN m.cells[i] ELSE old[i]]
  <2>5. g = [f EXCEPT !.applied = m.frame_id, !.cells = new]
    BY <2>3 DEF Applied
  <2>6. new = b.acknowledged
    <3>1. \A i \in 1 .. m.size :
            b.acknowledged[i] = IF i \in DOMAIN m.cells THEN m.cells[i] ELSE old[i]
      BY <1>9, <2>1 DEF Whole
    <3>2. b.acknowledged \in Seq(Values) /\ m.size = Len(b.acknowledged)
      BY DEF Attachment
    <3>3. b.acknowledged = [i \in 1 .. m.size |-> b.acknowledged[i]]
      BY <3>2
    <3> HIDE DEF old
    <3> QED BY <3>1, <3>3
  <2> HIDE DEF new
  <2>7. g.applied = m.frame_id /\ g.cells = new
    BY <1>5, <2>5 DEF ClientPane
  <2>8. LastFrame(b) = m.frame_id
    <3>1. a.next_frame_id \in Nat /\ a.next_frame_id > 0
      BY <1>1, <1>4 DEF Numbers, Attachment
    <3> QED BY <3>1 DEF LastFrame
  <2> QED BY <2>4, <2>6, <2>7, <2>8
<1>11. Calm(u) => Stays(u)
  BY DEF Calm, Stays
<1>12. Opens(b, u)
  BY <1>4, <1>6, LetsGoAfter DEF Mirrors, Opens
<1>13. ~Exited(e)
  <2>1. \A i \in 1 .. Len(e) : e[i] = m \/ (i \in 1 .. Len(d) /\ e[i] = d[i])
    BY <1>2
  <2> QED BY <1>8, <2>1 DEF Exited, IsFrame
<1> QED BY <1>8, <1>10, <1>11, <1>12, <1>13 DEF Mirrors, Level, Hopes, Over

(* The exit leaves. *)
LEMMA ExitMirrors ==
  ASSUME NEW a, NEW b, NEW s, NEW t, NEW d, NEW u, NEW k, NEW x, x,
         Talks(a, s.responses, d, u, k), Mirrors(a, s, d, u, k, Reaches(k, d), x),
         a \in Attachment, b \in Attachment,
         b.snapshot_pending = a.snapshot_pending, b.acknowledged = a.acknowledged,
         LastFrame(b) = LastFrame(a), NEW m \in Downward, m.type = "exited", Leaving(t)
  PROVE  Mirrors(b, t, Append(d, m), u, k, Reaches(k, Append(d, m)), x)
<1> DEFINE e == Append(d, m)
           f == Reaches(k, d)
           g == Reaches(k, e)
<1>1. /\ d \in Seq(Downward) /\ k \in ClientPane /\ (k.attached => k.awaiting = 0)
  BY DEF Talks, Converses
<1>2. g = Received(f, m)
  BY <1>1, FoldAdded
<1>3. a # NoAttachment
  BY DeliveryAssumption
<1>4. f \in ClientPane
  BY <1>1, FoldTyped
<1>5. Mirrors(a, s, d, u, k, f, x)
  OBVIOUS
<1> SUFFICES Mirrors(b, t, e, u, k, g, x)
  OBVIOUS
<1> HIDE DEF e, f, g
<1>6. g.cells = f.cells /\ g.applied = f.applied
  BY <1>2, <1>4, ReadExited
<1>7. Opens(b, u)
  BY <1>3, <1>5, LetsGoAfter DEF Mirrors, Opens
<1>8. Level(b, u, g)
  BY <1>3, <1>5, <1>6 DEF Mirrors, Level
<1> QED BY <1>7, <1>8 DEF Mirrors, Hopes, Over

(* An answer leaves. *)
LEMMA AnswerMirrors ==
  ASSUME NEW a, NEW s, NEW t, NEW d, NEW u, NEW k, NEW x,
         Talks(a, s.responses, d, u, k), Mirrors(a, s, d, u, k, Reaches(k, d), x),
         s.responses # <<>>, ~s.send_pending, t.responses = Tail(s.responses),
         NEW m \in Downward, m.type = "opened",
         m.id = s.responses[1].id, m.ok = s.responses[1].ok
  PROVE  Mirrors(a, t, Append(d, m), u, k, Reaches(k, Append(d, m)), x)
<1> DEFINE e == Append(d, m)
           f == Reaches(k, d)
           g == Reaches(k, e)
           r == s.responses
           q == Tail(r)
<1>1. /\ d \in Seq(Downward) /\ k \in ClientPane /\ (k.attached => k.awaiting = 0)
      /\ r \in Seq(Answer) /\ Requests(r, d, u, k)
  BY DEF Talks, Converses
<1>2. /\ Len(d) \in Nat /\ Len(e) = Len(d) + 1 /\ e[Len(d) + 1] = m
      /\ \A i \in 1 .. Len(d) : e[i] = d[i]
  BY <1>1, Added
<1>3. g = Received(f, m)
  BY <1>1, FoldAdded
<1>4. f \in ClientPane /\ (f.attached => f.awaiting = 0)
  BY <1>1, FoldTyped
<1>5. Mirrors(a, s, d, u, k, f, x)
  OBVIOUS
<1>6. /\ Len(r) \in Nat /\ Len(r) > 0 /\ Len(q) = Len(r) - 1 /\ 1 \in 1 .. Len(r)
      /\ \A i \in 1 .. Len(q) : i + 1 \in 1 .. Len(r) /\ q[i] = r[i + 1]
  BY <1>1, Taken
<1>7. m.id # 0
  <2>1. m.id \in Nat
    BY DownwardCases
  <2> QED BY <1>1, <1>6, <2>1 DEF Requests
<1> SUFFICES Mirrors(a, t, e, u, k, g, x)
  OBVIOUS
<1> HIDE DEF e, f, g, r, q
<1>8. /\ g.cells = f.cells /\ g.applied = f.applied
      /\ m.id # f.awaiting => g = f
      /\ m.id = f.awaiting => g.attached = m.ok /\ g.awaiting = 0
  BY <1>3, <1>4, ReadOpened
<1>9. Level(a, u, g)
  BY <1>5, <1>8 DEF Mirrors, Level
<1>10. ~Leaving(s)
  BY DEF Leaving
<1>11. Hopes(a, t, u, g)
  <2> SUFFICES ASSUME a # NoAttachment, Stays(u), ~g.attached
               PROVE  /\ g.awaiting # 0
                      /\ \E i \in 1 .. Len(q) : q[i].id = g.awaiting
                      /\ \A i \in 1 .. Len(q) : q[i].id = g.awaiting => q[i].ok
    BY DEF Hopes, q, r
  <2>1. ~f.attached
    BY <1>4, <1>7, <1>8
  <2>2. /\ f.awaiting # 0
        /\ \E i \in 1 .. Len(r) : r[i].id = f.awaiting
        /\ \A i \in 1 .. Len(r) : r[i].id = f.awaiting => r[i].ok
    BY <1>5, <1>10, <2>1 DEF Mirrors, Hopes, r
  <2>3. r[1].id # f.awaiting /\ g = f
    BY <1>6, <1>8, <2>2 DEF r
  <2>4. PICK i \in 1 .. Len(r) : r[i].id = f.awaiting
    BY <2>2
  <2>5. i - 1 \in 1 .. Len(q) /\ (i - 1) + 1 = i
    BY <1>6, <2>3, <2>4
  <2>6. q[i - 1].id = f.awaiting
    BY <1>6, <2>4, <2>5
  <2> QED BY <1>6, <2>2, <2>3, <2>5, <2>6
<1>12. Exited(e) => Exited(d)
  <2>1. \A i \in 1 .. Len(e) : e[i] = m \/ (i \in 1 .. Len(d) /\ e[i] = d[i])
    BY <1>2
  <2> QED BY <2>1 DEF Exited
<1>13. Over(a, t, e, k, x)
  BY <1>5, <1>10, <1>12 DEF Mirrors, Over
<1> QED BY <1>5, <1>9, <1>11, <1>13 DEF Mirrors

(* A write ends. *)
LEMMA DoneMirrors ==
  ASSUME NEW a, NEW s, NEW t, NEW d, NEW u, NEW k, NEW f, NEW x, Mirrors(a, s, d, u, k, f, x),
         s.send_pending, ~t.send_pending, t.responses = s.responses
  PROVE  Mirrors(IF s.detach THEN NoAttachment ELSE a, t, d, u, k, f, x)
<1>1. CASE s.detach
  <2>1. Opens(NoAttachment, u)
    BY LetsGoAfter DEF Mirrors, Opens
  <2>2. Mirrors(NoAttachment, t, d, u, k, f, x)
    BY <2>1 DEF Mirrors, Level, Hopes, Over
  <2> QED BY <1>1, <2>2
<1>2. CASE ~s.detach
  <2>1. ~Leaving(s)
    BY <1>2 DEF Leaving
  <2>2. Mirrors(a, t, d, u, k, f, x)
    BY <2>1 DEF Mirrors, Hopes, Over
  <2> QED BY <1>2, <2>2
<1> QED BY <1>1, <1>2

--------------------------------------------------------------------------------
(* Every replica, action by action                                         *)

(* A child that exited does not come back. *)
LEMMA ExitStays ==
  ASSUME IInv, [Next]_vars, pane.exit
  PROVE  pane'.exit
<1>1. pane \in Pane
  BY DEF IInv, Covered, PaneOK
<1>2. ASSUME NEW p \in Pane, p.exit, NEW n PROVE Resized(p, n).exit /\ Rendered(p).exit
  BY <1>2 DEF Resized, Rendered, Pane
<1>3. CASE InlineOutput \/ FinishIngest
  <2>1. PICK i \in DOMAIN pane.terminal, v \in Values, z \in SyncModes :
          AfterIngest(Ingested(pane, i, v, z))
    BY <1>3 DEF InlineOutput, FinishIngest
  <2> DEFINE p == Ingested(pane, i, v, z)
  <2>2. ASSUME NEW q, NEW y
        PROVE  /\ [pane EXCEPT !.terminal = q, !.render_pending = TRUE, !.dirty = TRUE,
                               !.ingest_pending = FALSE, !.sync = y].exit
    BY <1>1 DEF Pane
  <2>3. p.exit
    BY <1>1 DEF Ingested, Pane
  <2>4. Resized(p, p.pending_size).exit
    BY <2>3 DEF Resized, Ingested
  <2> HIDE DEF p
  <2> QED BY <2>1, <2>3, <2>4 DEF AfterIngest, p
<1>4. CASE StartIngest \/ EndOutput \/ ChildExits \/ HoldExpires \/ Settle
  BY <1>1, <1>4 DEF StartIngest, EndOutput, ChildExits, HoldExpires, Settle, Pane
<1>5. CASE TimerDue \/ Tick \/ UNCHANGED vars
  BY <1>5 DEF TimerDue, Tick, vars
<1>6. ASSUME NEW c \in Clients, Receive(c) PROVE pane'.exit
  <2>1. Head(up[c]) \in Upward
    BY <1>6, Taken DEF Receive, IInv, Wire
  <2>2. PICK m : \/ Open(c, m) \/ Resize(c, m) \/ DetachPane(c) \/ Acknowledge(c, m)
                 \/ RequestSnapshot(c)
    BY <1>6, <2>1, UpwardCases DEF Receive
  <2>3. PaneAfterOffer(c, m.size).exit
    <3>1. [pane EXCEPT !.pending_size = m.size].exit
      BY <1>1 DEF Pane
    <3> QED BY <1>1, <1>2, <3>1 DEF PaneAfterOffer
  <2> QED BY <2>2, <2>3 DEF Open, Resize, DetachPane, Acknowledge, RequestSnapshot
<1>7. ASSUME NEW c \in Clients,
             \/ SendSnapshot(c) \/ SendPatch(c) \/ ObserveUnchanged(c)
             \/ SendExit(c) \/ SendResponse(c) \/ SendNothing(c) \/ PaceElapses(c) \/ SendDone(c)
      PROVE  pane'.exit
  <2>1. NowRendered.exit
    BY <1>1, <1>2 DEF NowRendered
  <2> QED BY <1>7, <2>1 DEF SendSnapshot, SendPatch, SendFrame, ObserveUnchanged, SendExit,
                           SendResponse, SendNothing, PaceElapses, SendDone
<1>8. ASSUME NEW c \in Clients,
             Deliver(c) \/ DeliverFails(c) \/ AskOpen(c) \/ AskDetach(c) \/ AskResize(c)
      PROVE  pane'.exit
  BY <1>8 DEF Deliver, DeliverFails, AskOpen, AskDetach, AskResize
<1> QED BY <1>3, <1>4, <1>5, <1>6, <1>7, <1>8 DEF Next

(* What the client does. *)
LEMMA ClientMirrors ==
  ASSUME IInv, NEW c \in Clients, Holds(c), Mirror(c),
         Deliver(c) \/ DeliverFails(c) \/ AskOpen(c) \/ AskDetach(c) \/ AskResize(c)
  PROVE  Mirror(c)'
<1> DEFINE a == attachments[c]
           s == sessions[c]
           d == down[c]
           u == up[c]
           k == clients[c]
           x == pane.exit
<1>1. /\ down \in [Clients -> Seq(Downward)] /\ up \in [Clients -> Seq(Upward)]
      /\ clients \in [Clients -> ClientPane]
  BY DEF IInv, Wire
<1>2. Talks(a, s.responses, d, u, k) /\ Mirrors(a, s, d, u, k, Reaches(k, d), x)
  BY DEF Holds, Mirror
<1>3. attachments' = attachments /\ sessions' = sessions /\ pane' = pane
  BY DEF Deliver, DeliverFails, AskOpen, AskDetach, AskResize
<1> SUFFICES Mirrors(a, s, down'[c], up'[c], clients'[c], Reaches(clients'[c], down'[c]), x)
  BY <1>3 DEF Mirror
<1>4. u \in Seq(Upward) /\ k \in ClientPane
  BY <1>1
<1>5. CASE Deliver(c)
  <2>1. /\ d # <<>> /\ down'[c] = Tail(d) /\ up'[c] = u \o Reply(k, Head(d))
        /\ clients'[c] = Received(k, Head(d))
    BY <1>1, <1>5 DEF Deliver
  <2> HIDE DEF a, s, d, u, k, x
  <2> QED BY <1>2, <2>1, DeliverMirrors
<1>6. CASE DeliverFails(c)
  <2> DEFINE m == [type |-> "snapshot"]
  <2>1. /\ d # <<>> /\ down'[c] = Tail(d) /\ up'[c] = Append(u, m) /\ clients'[c] = k /\ k.attached
        /\ Head(d).type = "frame"
    BY <1>1, <1>6 DEF DeliverFails, Applies
  <2>2. IsFrame(d[1])
    BY <1>1, <2>1, Taken DEF IsFrame
  <2>3. m \in Upward /\ m.type = "snapshot"
    BY DEF Upward
  <2> HIDE DEF m, a, s, d, u, k, x
  <2> QED BY <1>2, <2>1, <2>2, <2>3, DeliverFailsMirrors
<1>7. CASE AskOpen(c)
  <2>1. PICK n \in Sizes : up' = [up EXCEPT ![c] = Append(@, [type |-> "open", id |-> k.next_request, size |-> n])]
    BY <1>7 DEF AskOpen
  <2> DEFINE m == [type |-> "open", id |-> k.next_request, size |-> n]
  <2>2. /\ ~k.attached /\ k.awaiting = 0 /\ ~k.gone /\ down'[c] = d /\ up'[c] = Append(u, m)
        /\ clients'[c] = [k EXCEPT !.awaiting = k.next_request, !.next_request = @ + 1]
    BY <1>1, <1>7, <2>1 DEF AskOpen
  <2>3. k.next_request \in Nat
    BY <1>1 DEF ClientPane
  <2>4. m \in Upward /\ m.type = "open"
    BY <2>3 DEF Upward
  <2>5. clients'[c].gone = k.gone
    BY <1>1, <2>2 DEF ClientPane
  <2>6. LetsGo(a, u, Len(u))
    BY <1>2, <2>2 DEF Talks, Converses
  <2> DEFINE l == clients'[c]
  <2> HIDE DEF m, a, s, d, u, k, x, l
  <2>7. Mirrors(a, s, d, Append(u, m), l, Reaches(l, d), x)
    <3>1. l.gone = k.gone
      BY <2>5 DEF l
    <3> QED BY <1>2, <1>4, <2>4, <2>6, <3>1, AskAgainMirrors
  <2> QED BY <2>2, <2>7 DEF l
<1>8. CASE AskDetach(c)
  <2> DEFINE m == [type |-> "detach"]
  <2>1. /\ down'[c] = d /\ up'[c] = Append(u, m)
        /\ clients'[c] = [k EXCEPT !.attached = FALSE, !.awaiting = 0]
    BY <1>1, <1>8 DEF AskDetach
  <2>2. m \in Upward /\ m.type = "detach"
    BY DEF Upward
  <2>3. clients'[c].gone = k.gone
    BY <1>1, <2>1 DEF ClientPane
  <2> DEFINE l == clients'[c]
  <2> HIDE DEF m, a, s, d, u, k, x, l
  <2>4. Mirrors(a, s, d, Append(u, m), l, Reaches(l, d), x)
    <3>1. l.gone = k.gone
      BY <2>3 DEF l
    <3> QED BY <1>2, <1>4, <2>2, <3>1, AskAgainMirrors
  <2> QED BY <2>1, <2>4 DEF l
<1>9. CASE AskResize(c)
  <2>1. PICK n \in Sizes : up' = [up EXCEPT ![c] = Append(@, [type |-> "resize", size |-> n])]
    BY <1>9 DEF AskResize
  <2> DEFINE m == [type |-> "resize", size |-> n]
  <2>2. down'[c] = d /\ up'[c] = Append(u, m) /\ clients'[c] = k
    BY <1>1, <1>9, <2>1 DEF AskResize
  <2>3. m \in Upward /\ m.type \in {"ack", "resize", "snapshot"}
    BY DEF Upward
  <2> HIDE DEF m, a, s, d, u, k, x
  <2> QED BY <1>2, <1>4, <2>2, <2>3, AskMirrors
<1> QED BY <1>5, <1>6, <1>7, <1>8, <1>9

(* A resize request moves the attachment that sent it. *)
LEMMA ResizeMoves ==
  ASSUME IInv, IInv', NEW c \in Clients, NEW m, Resize(c, m)
  PROVE  Moved(attachments[c], attachments'[c])
<1> DEFINE a == attachments[c]
           b == attachments'[c]
<1>1. attachments \in Attachables /\ PaneOK(pane')
  BY DEF IInv, Covered
<1>2. a \in Attachment \cup {NoAttachment} /\ (Attached(c) <=> a # NoAttachment)
  BY <1>1 DEF Attachables, Attached
<1> HIDE DEF a, b
<1>3. CASE ~Attached(c) \/ lease \notin {Nobody, c}
  <2>1. b = a
    BY <1>3 DEF Resize, a, b
  <2> QED BY <2>1 DEF Moved, a, b
<1>4. CASE Attached(c) /\ lease \in {Nobody, c}
  <2> DEFINE as == AttachmentsAfterOffer(c, m.size)
  <2>1. Moved(a, as[c]) /\ as \in Attachables
    BY OfferMove DEF a
  <2>2. as[c] \in Attachment
    <3>1. a \in Attachment /\ a # NoAttachment
      BY <1>2, <1>4
    <3>2. [a EXCEPT !.observed = FALSE] \in Attachment
      BY <3>1 DEF Attachment
    <3>3. as[c] = a \/ as[c] = [a EXCEPT !.observed = FALSE]
      BY <3>1 DEF AttachmentsAfterOffer, Unobserved, a
    <3> QED BY <3>1, <3>2, <3>3
  <2>3. b = as[c] \/ b = ResizeIfNeeded(as[c], pane')
    BY <1>4, <2>1 DEF Resize, b, Attachables
  <2> HIDE DEF as
  <2>4. Moved(as[c], b)
    <3>1. Moved(as[c], as[c])
      BY DEF Moved
    <3> QED BY <1>1, <2>2, <2>3, <3>1, ResizeMove
  <2>5. Moved(a, b)
    BY <2>1, <2>4, MovedTwice
  <2> QED BY <2>5 DEF a, b
<1> QED BY <1>3, <1>4

(* The requests of c, as the runtime takes them. *)
LEMMA ReceiveMirrors ==
  ASSUME IInv, IInv', NEW c \in Clients, Receive(c), Holds(c), Mirror(c), pane.exit => pane'.exit
  PROVE  Mirror(c)'
<1> DEFINE a == attachments[c]
           b == attachments'[c]
           s == sessions[c]
           t == sessions'[c]
           d == down[c]
           u == up[c]
           k == clients[c]
           f == Reaches(k, d)
           m == u[1]
           x == pane.exit
           y == pane'.exit
<1>1. /\ attachments \in Attachables /\ PaneOK(pane) /\ attachments' \in Attachables /\ PaneOK(pane')
      /\ sessions \in [Clients -> Session] /\ up \in [Clients -> Seq(Upward)]
  BY DEF IInv, Covered, Wire
<1>2. /\ u \in Seq(Upward) /\ u # <<>> /\ m = Head(u) /\ m \in Upward
      /\ up'[c] = Tail(u) /\ down'[c] = d /\ clients'[c] = k
  <2>1. u \in Seq(Upward) /\ u # <<>>
    BY <1>1 DEF Receive
  <2> QED BY <1>1, <2>1, Taken DEF Receive
<1>3. Talks(a, s.responses, d, u, k) /\ Mirrors(a, s, d, u, k, f, x)
  BY DEF Holds, Mirror
<1>4. /\ a \in Attachment \cup {NoAttachment} /\ b \in Attachment \cup {NoAttachment}
      /\ Attached(c) <=> a # NoAttachment
      /\ x \in BOOLEAN
  BY <1>1 DEF Attachables, Attached, PaneOK, Pane
<1>5. \/ m.type = "open" /\ Open(c, m)
      \/ m.type = "resize" /\ Resize(c, m)
      \/ m.type = "detach" /\ DetachPane(c)
      \/ m.type = "ack" /\ Acknowledge(c, m)
      \/ m.type = "snapshot" /\ RequestSnapshot(c)
  BY <1>2, UpwardCases DEF Receive
<1>6. x => y
  OBVIOUS
<1> SUFFICES Mirrors(b, t, d, Tail(u), k, f, y)
  BY <1>2 DEF Mirror
<1> HIDE DEF a, b, s, t, d, u, k, f, m, x, y
<1>7. ASSUME m.type \in {"resize", "snapshot"}, t = s, Moved(a, b),
             m.type = "snapshot" => b = NoAttachment \/ b.snapshot_pending
      PROVE  Mirrors(b, t, d, Tail(u), k, f, y)
  <2>1. /\ a = NoAttachment => b = NoAttachment
        /\ b # NoAttachment /\ ~b.snapshot_pending =>
             /\ ~a.snapshot_pending
             /\ b.acknowledged = a.acknowledged /\ LastFrame(b) = LastFrame(a)
    BY <1>7, DeliveryAssumption DEF Moved, Drift, LastFrame
  <2>2. u[1].type \notin {"open", "detach"}
    BY <1>7 DEF m
  <2>3. b # NoAttachment /\ ~b.snapshot_pending => u[1].type # "snapshot"
    BY <1>7 DEF m
  <2> QED BY <1>2, <1>3, <1>6, <1>7, <2>1, <2>2, <2>3, TakeMirrors
<1>8. CASE m.type = "open" /\ Open(c, m)
  <2>1. t.responses = Append(s.responses, [id |-> u[1].id, ok |-> ~x])
    <3>1. ASSUME NEW ok, sessions' = [sessions EXCEPT ![c].responses = Append(@, [id |-> m.id, ok |-> ok])]
          PROVE  t.responses = Append(s.responses, [id |-> m.id, ok |-> ok])
      BY <1>1, <3>1 DEF Session, s, t
    <3>2. CASE x
      <4>1. t.responses = Append(s.responses, [id |-> m.id, ok |-> FALSE]) /\ (~x) = FALSE
        BY <1>8, <3>1, <3>2 DEF Open, x
      <4> QED BY <4>1 DEF m
    <3>3. CASE ~x
      <4>1. t.responses = Append(s.responses, [id |-> m.id, ok |-> TRUE]) /\ (~x) = TRUE
        BY <1>8, <3>1, <3>3 DEF Open, x
      <4> QED BY <4>1 DEF m
    <3> QED BY <3>2, <3>3
  <2>2. x => b = a
    BY <1>8 DEF Open, a, b, x
  <2>3. a = NoAttachment
    <3>1. 1 \in 1 .. Len(u) /\ u[1].type = "open"
      BY <1>2, <1>8 DEF m
    <3>2. LetsGo(a, u, 1 - 1)
      BY <1>3, <3>1 DEF Mirrors, Opens
    <3> QED BY <3>2 DEF LetsGo
  <2>4. ASSUME ~x PROVE b.snapshot_pending
    <3> DEFINE as == AttachmentsAfterOffer(c, m.size)
    <3>1. Moved(a, as[c]) /\ as \in Attachables
      BY OfferMove DEF a
    <3>2. as[c] = NoAttachment
      BY <2>3, <3>1, DeliveryAssumption DEF Moved
    <3>3. b = ResizeIfNeeded(Fresh(pane'), pane')
      BY <1>8, <2>4, <3>1, <3>2 DEF Open, b, x, Attachables
    <3>4. /\ Fresh(pane').acknowledged = Cleared(Len(pane'.screen))
          /\ Fresh(pane').snapshot_pending
      BY DEF Fresh
    <3>5. Len(Cleared(Len(pane'.screen))) = Len(pane'.screen)
      BY <1>1, ClearedRows DEF PaneOK, Pane
    <3>6. b = Fresh(pane')
      BY <3>3, <3>4, <3>5 DEF ResizeIfNeeded
    <3> QED BY <3>4, <3>6
  <2>5. u[1].type = "open"
    BY <1>8 DEF m
  <2>6. Mirrors(b, t, d, Tail(u), k, Reaches(k, d), y)
    BY <1>2, <1>3, <1>4, <1>6, <2>1, <2>2, <2>4, <2>5, OpenMirrors DEF f
  <2> QED BY <2>6 DEF f
<1>9. CASE m.type = "resize" /\ Resize(c, m)
  <2>1. t = s
    BY <1>9 DEF Resize, s, t
  <2>2. Moved(a, b)
    BY <1>9, ResizeMoves DEF a, b
  <2> QED BY <1>7, <1>9, <2>1, <2>2
<1>10. CASE m.type = "detach" /\ DetachPane(c)
  <2>1. b = NoAttachment /\ t = s
    BY <1>1, <1>10 DEF DetachPane, b, s, t, Attachables
  <2> DEFINE v == Tail(u)
  <2>2. Opens(b, v)
    <3> SUFFICES ASSUME NEW i \in 1 .. Len(v), v[i].type = "open" PROVE LetsGo(b, v, i - 1)
      BY DEF Opens
    <3>1. i + 1 \in 1 .. Len(u) /\ u[i + 1] = v[i] /\ (i + 1) - 1 = i /\ i \in 1 .. Len(u)
      BY <1>2, Taken
    <3>2. LetsGo(a, u, i)
      BY <1>3, <3>1 DEF Mirrors, Opens
    <3> QED BY <1>2, <1>10, <2>1, <3>1, <3>2, TailLetsGo DEF m
  <2> HIDE DEF v
  <2>3. Mirrors(b, t, d, v, k, f, y)
    BY <1>3, <1>6, <2>1, <2>2 DEF Mirrors, Level, Hopes, Over
  <2> QED BY <2>3 DEF v
<1>11. CASE m.type = "ack" /\ Acknowledge(c, m)
  <2>1. t = s
    BY <1>11 DEF Acknowledge, s, t
  <2>2. u[1].type = "ack"
    BY <1>11 DEF m
  <2>3. CASE Attached(c) /\ a.outstanding = m.frame_id
    <3>1. b = [a EXCEPT !.acknowledged_frame_id = m.frame_id, !.outstanding = 0]
      BY <1>1, <1>11, <2>3 DEF Acknowledge, a, b, Attachables
    <3>2. a \in Attachment /\ a # NoAttachment
      BY <1>4, <2>3
    <3>3. m.frame_id # 0
      <4>1. Requests(s.responses, d, u, k) /\ 1 \in 1 .. Len(u)
        BY <1>2, <1>3 DEF Talks, Converses
      <4>2. m.frame_id \in Nat
        BY <1>2, <1>11, UpwardCases
      <4> QED BY <1>11, <4>1, <4>2 DEF Requests, IsAck, m
    <3>4. /\ b.snapshot_pending = a.snapshot_pending /\ b.acknowledged = a.acknowledged
          /\ b.outstanding = 0 /\ b.acknowledged_frame_id = m.frame_id
      BY <3>1, <3>2 DEF Attachment
    <3>5. LastFrame(b) = LastFrame(a)
      BY <2>3, <3>3, <3>4 DEF LastFrame
    <3> QED BY <1>2, <1>3, <1>6, <2>1, <2>2, <3>2, <3>4, <3>5, TakeMirrors
  <2>4. CASE ~(Attached(c) /\ a.outstanding = m.frame_id)
    <3>1. b = a
      BY <1>11, <2>4 DEF Acknowledge, a, b
    <3>2. Mirrors(a, s, d, Tail(u), k, f, y)
      <4>1. u[1].type \notin {"open", "detach"} /\ u[1].type # "snapshot"
        BY <2>2
      <4> QED BY <1>2, <1>3, <1>6, <4>1, TakeMirrors
    <3> QED BY <2>1, <3>1, <3>2
  <2> QED BY <2>3, <2>4
<1>12. CASE m.type = "snapshot" /\ RequestSnapshot(c)
  <2>1. t = s
    BY <1>12 DEF RequestSnapshot, s, t
  <2>2. CASE Attached(c)
    <3>1. b = [a EXCEPT !.snapshot_pending = TRUE] /\ a \in Attachment
      BY <1>1, <1>4, <1>12, <2>2 DEF RequestSnapshot, a, b, Attachables
    <3>2. Moved(a, b) /\ b.snapshot_pending
      <4>1. b.snapshot_pending
        BY <3>1 DEF Attachment
      <4> QED BY <3>1, <4>1, FlagsMove
    <3> QED BY <1>7, <1>12, <2>1, <3>2
  <2>3. CASE ~Attached(c)
    <3>1. b = a /\ a = NoAttachment
      BY <1>4, <1>12, <2>3 DEF RequestSnapshot, a, b
    <3> QED BY <1>7, <1>12, <2>1, <3>1 DEF Moved
  <2> QED BY <2>2, <2>3
<1> QED BY <1>5, <1>8, <1>9, <1>10, <1>11, <1>12

(* The flush for c, and the end of a write. *)
LEMMA PumpMirrors ==
  ASSUME IInv, NEW c \in Clients, Holds(c), Mirror(c), pane.exit => pane'.exit,
         SendSnapshot(c) \/ SendPatch(c) \/ SendExit(c) \/ SendResponse(c) \/ SendDone(c)
  PROVE  Mirror(c)'
<1> DEFINE a == attachments[c]
           b == attachments'[c]
           s == sessions[c]
           t == sessions'[c]
           d == down[c]
           u == up[c]
           k == clients[c]
           x == pane.exit
           y == pane'.exit
<1>1. /\ attachments \in Attachables /\ sessions \in [Clients -> Session]
      /\ down \in [Clients -> Seq(Downward)]
  BY DEF IInv, Covered, Wire
<1>2. a = NoAttachment \/ a \in Attachment
  BY <1>1 DEF Attachables
<1>3. Talks(a, s.responses, d, u, k) /\ Mirrors(a, s, d, u, k, Reaches(k, d), x)
  BY DEF Holds, Mirror
<1>4. up'[c] = u /\ clients'[c] = k
  <2>1. CASE SendSnapshot(c) \/ SendPatch(c)
    BY <2>1, SendCells
  <2>2. CASE SendExit(c) \/ SendResponse(c) \/ SendDone(c)
    BY <2>2 DEF SendExit, Send, SendResponse, SendDone, clientSide
  <2> QED BY <2>1, <2>2
<1> SUFFICES Mirrors(b, t, down'[c], u, k, Reaches(k, down'[c]), x)
  BY <1>4 DEF Mirror, Mirrors, Over
<1>5. CASE SendSnapshot(c) \/ SendPatch(c)
  <2>1. PICK m : Sends(a, b, m) /\ down'[c] = Append(d, m)
    BY <1>5, SendCells
  <2>2. s.responses = <<>> /\ ~s.send_pending
    BY <1>5 DEF SendSnapshot, SendPatch, Offered
  <2> HIDE DEF a, b, s, t, d, u, k, x, y
  <2> QED BY <1>3, <2>1, <2>2, FrameMirrors
<1>6. CASE SendExit(c)
  <2>1. a \in Attachment /\ pane.exit
    BY <1>2, <1>6 DEF SendExit, Offered, Attached, ExitDue
  <2>2. b = [a EXCEPT !.exit_sent = TRUE, !.deadline = FALSE]
    BY <1>1, <1>6 DEF SendExit, Attachables
  <2>3. /\ b \in Attachment /\ b.snapshot_pending = a.snapshot_pending
        /\ b.acknowledged = a.acknowledged /\ LastFrame(b) = LastFrame(a)
    BY <2>1, <2>2 DEF Attachment, LastFrame
  <2> DEFINE m == [type |-> "exited"]
  <2>4. down'[c] = Append(d, m) /\ t.send_pending /\ t.detach
    BY <1>1, <1>6 DEF SendExit, Send, Session
  <2>5. m \in Downward /\ m.type = "exited"
    BY DEF Downward
  <2>6. Leaving(t) /\ x
    BY <2>1, <2>4 DEF Leaving
  <2> HIDE DEF m, a, b, s, t, d, u, k, x, y
  <2> QED BY <1>3, <2>1, <2>3, <2>4, <2>5, <2>6, ExitMirrors
<1>7. CASE SendResponse(c)
  <2> DEFINE r == s.responses
  <2>1. r \in Seq(Answer) /\ r # <<>> /\ ~s.send_pending
    BY <1>3, <1>7 DEF Talks, SendResponse
  <2>2. Head(r) = r[1] /\ Head(r) \in Answer
    BY <2>1, Taken
  <2> DEFINE m == [type |-> "opened", id |-> r[1].id, ok |-> r[1].ok]
  <2>3. m \in Downward /\ m.type = "opened" /\ m.id = r[1].id /\ m.ok = r[1].ok
    BY <2>2 DEF Downward, Answer
  <2>4. down'[c] = Append(d, m) /\ b = a /\ t.responses = Tail(r)
    BY <1>1, <1>7, <2>2 DEF SendResponse, Session
  <2>5. /\ s.responses # <<>> /\ t.responses = Tail(s.responses)
        /\ m.id = s.responses[1].id /\ m.ok = s.responses[1].ok
    BY <2>1, <2>3, <2>4
  <2> HIDE DEF m, r, a, b, s, t, d, u, k, x, y
  <2>6. Mirrors(a, t, Append(d, m), u, k, Reaches(k, Append(d, m)), x)
    BY <1>3, <2>1, <2>3, <2>5, AnswerMirrors
  <2> QED BY <2>4, <2>6
<1>8. CASE SendDone(c)
  <2>1. /\ s.send_pending /\ ~t.send_pending /\ t.responses = s.responses /\ down'[c] = d
        /\ b = IF s.detach THEN NoAttachment ELSE a
    BY <1>1, <1>8 DEF SendDone, Session, Attachables, clientSide
  <2> HIDE DEF a, b, s, t, d, u, k, x, y
  <2> QED BY <1>3, <2>1, DoneMirrors
<1> QED BY <1>5, <1>6, <1>7, <1>8

(* At first no client has anything. *)
LEMMA InitMirror == Init => MirrorInv
<1> SUFFICES ASSUME Init, NEW c \in Clients PROVE Mirror(c)
  BY DEF MirrorInv
<1>1. /\ attachments[c] = NoAttachment /\ down[c] = <<>> /\ up[c] = <<>> /\ ~clients[c].gone
  BY DEF Init
<1>2. ~Exited(down[c]) /\ Opens(attachments[c], up[c])
  BY <1>1 DEF Exited, Opens
<1> QED BY <1>1, <1>2 DEF Mirror, Mirrors, Level, Hopes, Over

(* Every step keeps every replica in line. *)
LEMMA NextMirror == IInv /\ ReplicaInv /\ MirrorInv /\ [Next]_vars => MirrorInv'
<1> SUFFICES ASSUME IInv, ReplicaInv, MirrorInv, [Next]_vars, NEW x \in Clients PROVE Mirror(x)'
  BY DEF MirrorInv
<1>1. IInv' /\ (pane.exit => pane'.exit)
  BY NextIInv, ExitStays
<1>2. Mirror(x) /\ Holds(x)
  BY ConversationsHold DEF ReplicaInv, MirrorInv
<1>3. ASSUME Stands(x) PROVE Mirror(x)'
  BY <1>1, <1>2, <1>3, StandsMirrors
<1>4. CASE \/ InlineOutput \/ StartIngest \/ FinishIngest \/ EndOutput \/ ChildExits
           \/ Settle \/ TimerDue \/ Tick \/ HoldExpires
  BY <1>1, <1>3, <1>4, PaneEventsStand
<1>5. ASSUME NEW c \in Clients, Receive(c) PROVE Mirror(x)'
  BY <1>1, <1>2, <1>3, <1>5, ReceiveMirrors, ReceiveOthersStand
<1>6. ASSUME NEW c \in Clients,
             SendSnapshot(c) \/ SendPatch(c) \/ SendExit(c) \/ SendResponse(c) \/ SendDone(c)
      PROVE  Mirror(x)'
  BY <1>1, <1>2, <1>3, <1>6, PumpMirrors, PumpOthersStand
<1>7. ASSUME NEW c \in Clients, ObserveUnchanged(c) \/ SendNothing(c) \/ PaceElapses(c)
      PROVE  Mirror(x)'
  BY <1>3, <1>7, IdleStands, PumpOthersStand
<1>8. ASSUME NEW c \in Clients,
             Deliver(c) \/ DeliverFails(c) \/ AskOpen(c) \/ AskDetach(c) \/ AskResize(c)
      PROVE  Mirror(x)'
  BY <1>2, <1>3, <1>8, ClientMirrors, ClientOthersStand
<1>9. CASE UNCHANGED vars
  BY <1>2, <1>9 DEF vars, Mirror
<1> QED BY <1>4, <1>5, <1>6, <1>7, <1>8, <1>9 DEF Next

(* The replicas stay in line throughout. *)
LEMMA MirrorHolds == Spec => [](IInv /\ ReplicaInv /\ MirrorInv)
<1>1. Init => IInv /\ ReplicaInv /\ MirrorInv
  BY InitIInv, InitReplica, InitMirror
<1>2. IInv /\ ReplicaInv /\ MirrorInv /\ [Next]_vars => (IInv /\ ReplicaInv /\ MirrorInv)'
  BY NextIInv, NextReplica, NextMirror
<1> QED BY <1>1, <1>2, PTL DEF Spec

(* The baseline a patch is diffed against, which CellSync overwrites when  *)
(* it sends a frame, is what the client will hold once it has read what is *)
(* on its way, under the frame id the next patch will name: whatever was   *)
(* resized, reopened, lost or acknowledged late, for any number of clients *)
(* and any sizes.                                                          *)
THEOREM CellReplicaFollows == Spec => []ReplicaFollows
<1>1. MirrorInv /\ IInv => ReplicaFollows
  <2> SUFFICES ASSUME MirrorInv, IInv, NEW c \in Clients, Attached(c),
                      ~attachments[c].snapshot_pending, Undisturbed(c)
               PROVE  /\ Replica(c).cells = attachments[c].acknowledged
                      /\ Replica(c).applied = LastFrame(attachments[c])
    BY DEF ReplicaFollows, LastFrame
  <2>1. Level(attachments[c], up[c], Reaches(clients[c], down[c]))
    BY DEF MirrorInv, Mirror, Mirrors
  <2>2. up[c] \in Seq(Upward)
    BY DEF IInv, Wire
  <2>3. Calm(up[c])
    BY <2>2 DEF Undisturbed, Calm
  <2>4. Replica(c) = Reaches(clients[c], down[c])
    BY DEF Replica, Reaches
  <2> QED BY <2>1, <2>3, <2>4 DEF Level, Attached
<1> QED BY <1>1, MirrorHolds, PTL

(* A request never marks the exit as sent. *)
LEMMA ReceiveSendsNoExit ==
  ASSUME IInv, IInv', NEW c \in Clients, Receive(c), Mirror(c), Attached(c),
         attachments'[c] # NoAttachment
  PROVE  attachments'[c].exit_sent = attachments[c].exit_sent
<1> DEFINE a == attachments[c]
           b == attachments'[c]
           u == up[c]
           m == u[1]
<1>1. attachments \in Attachables /\ up \in [Clients -> Seq(Upward)]
  BY DEF IInv, Covered, Wire
<1>2. a \in Attachment /\ a # NoAttachment
  BY <1>1 DEF Attachables, Attached
<1>3. u \in Seq(Upward) /\ u # <<>>
  BY <1>1 DEF Receive
<1>4. m = Head(u) /\ m \in Upward /\ 1 \in 1 .. Len(u)
  BY <1>3, Taken
<1>5. \/ m.type = "open"
      \/ Resize(c, m) \/ DetachPane(c) \/ Acknowledge(c, m) \/ RequestSnapshot(c)
  BY <1>4, UpwardCases DEF Receive
<1>6. m.type # "open"
  <2> SUFFICES ASSUME m.type = "open" PROVE FALSE
    OBVIOUS
  <2>1. LetsGo(a, u, 1 - 1)
    BY <1>4 DEF Mirror, Mirrors, Opens
  <2> QED BY <1>2, <2>1 DEF LetsGo
<1> SUFFICES ASSUME b # NoAttachment PROVE b.exit_sent = a.exit_sent
  OBVIOUS
<1>7. CASE Resize(c, m)
  <2>1. Moved(a, b)
    BY <1>7, ResizeMoves
  <2> QED BY <2>1 DEF Moved
<1>8. CASE DetachPane(c)
  BY <1>1, <1>8 DEF DetachPane, Attachables
<1>9. CASE Acknowledge(c, m)
  <2>1. b = a \/ b = [a EXCEPT !.acknowledged_frame_id = m.frame_id, !.outstanding = 0]
    BY <1>1, <1>9 DEF Acknowledge, Attachables
  <2> HIDE DEF a, b
  <2> QED BY <1>2, <2>1 DEF Attachment
<1>10. CASE RequestSnapshot(c)
  <2>1. b = a \/ b = [a EXCEPT !.snapshot_pending = TRUE]
    BY <1>1, <1>10 DEF RequestSnapshot, Attachables
  <2> HIDE DEF a, b
  <2> QED BY <1>2, <2>1 DEF Attachment
<1> QED BY <1>5, <1>6, <1>7, <1>8, <1>9, <1>10

(* Only the exit lane marks the exit as sent. *)
LEMMA OnlyExitSends ==
  ASSUME IInv, IInv', MirrorInv, Next, NEW x \in Clients, Attached(x),
         ~attachments[x].exit_sent, attachments'[x] # NoAttachment, attachments'[x].exit_sent
  PROVE  SendExit(x)
<1>1. Mirror(x)
  BY DEF MirrorInv
<1>2. ~Stands(x)
  BY DEF Stands, Moved
<1>3. ~(\/ InlineOutput \/ StartIngest \/ FinishIngest \/ EndOutput \/ ChildExits
        \/ Settle \/ TimerDue \/ Tick \/ HoldExpires)
  BY <1>2, PaneEventsStand
<1>4. ASSUME NEW c \in Clients, Receive(c) PROVE FALSE
  BY <1>1, <1>2, <1>4, ReceiveSendsNoExit, ReceiveOthersStand
<1>5. ASSUME NEW c \in Clients, SendSnapshot(c) \/ SendPatch(c) PROVE FALSE
  <2>1. c = x
    BY <1>2, <1>5, PumpOthersStand
  <2>2. PICK m : Sends(attachments[x], attachments'[x], m)
    BY <1>5, <2>1, SendCells
  <2> QED BY <2>2 DEF Sends
<1>6. ASSUME NEW c \in Clients, SendExit(c) PROVE SendExit(x)
  BY <1>2, <1>6, PumpOthersStand
<1>7. ASSUME NEW c \in Clients, SendResponse(c) \/ SendDone(c) PROVE FALSE
  <2>1. c = x
    BY <1>2, <1>7, PumpOthersStand
  <2>2. attachments[x] = attachments'[x] \/ attachments'[x] = NoAttachment
    BY <1>7, <2>1 DEF SendResponse, SendDone, IInv, Covered, Attachables
  <2> QED BY <2>2
<1>8. ASSUME NEW c \in Clients, ObserveUnchanged(c) \/ SendNothing(c) \/ PaceElapses(c)
      PROVE  FALSE
  BY <1>2, <1>8, IdleStands, PumpOthersStand
<1>9. ASSUME NEW c \in Clients,
             Deliver(c) \/ DeliverFails(c) \/ AskOpen(c) \/ AskDetach(c) \/ AskResize(c)
      PROVE  FALSE
  <2>1. attachments' = attachments
    BY <1>9 DEF Deliver, DeliverFails, AskOpen, AskDetach, AskResize
  <2> QED BY <2>1
<1> QED BY <1>3, <1>4, <1>5, <1>6, <1>7, <1>8, <1>9 DEF Next

(* When the runtime says that the child is gone, the client that will have *)
(* the pane once it has read what is on its way will by then show all that *)
(* the terminal holds: no order of output, ingest, acknowledgement, resize *)
(* and reopening puts the exit ahead of the last frame.                    *)
THEOREM CellExitAfterLastFrame == Spec => ExitAfterLastFrame
<1>1. ASSUME IInv, ReplicaInv, MirrorInv, Next, NEW c \in Clients, Attached(c),
             ~attachments[c].exit_sent, attachments'[c] # NoAttachment,
             attachments'[c].exit_sent, Replica(c).attached
      PROVE  Replica(c).cells = pane.terminal
  <2> DEFINE a == attachments[c]
             k == clients[c]
  <2>0. SendExit(c)
    BY <1>1, NextIInv, OnlyExitSends
  <2>1. /\ Attached(c) /\ a.outstanding = 0 /\ ~a.snapshot_pending /\ a.observed
        /\ ~pane.render_pending /\ ~sessions[c].send_pending
    BY <2>0 DEF SendExit, Offered, ExitDue
  <2>2. Replica(c).cells = a.acknowledged
    <3>1. Talks(a, sessions[c].responses, down[c], up[c], k)
      BY <1>1, ConversationsHold DEF ReplicaInv, Holds
    <3>2. ~k.gone
      BY <1>1, <2>1 DEF MirrorInv, Mirror, Mirrors, Over, Leaving, Attached
    <3>3. Replica(c) = Reaches(k, down[c])
      BY DEF Replica, Reaches
    <3>4. Reaches(k, down[c]).attached /\ a # NoAttachment
      BY <1>1, <3>3 DEF Attached
    <3> HIDE DEF a, k
    <3> QED BY <2>1, <3>1, <3>2, <3>3, <3>4, CaughtUp
  <2>3. a \in Attachment /\ Clean(pane, a) /\ pane.screen \in Seq(Values)
    BY <1>1, <2>1 DEF IInv, Covered, Kept, Attached, PaneOK, Pane
  <2>4. a.acknowledged \in Seq(Values) /\ Len(a.acknowledged) = Len(pane.screen)
    BY <1>1, <2>1, <2>3 DEF ReplicaInv, Sized, SameSize, Attachment
  <2>5. \A i \in 1 .. Len(pane.screen) : a.acknowledged[i] = pane.screen[i]
    BY <2>1, <2>3, <2>4 DEF Clean
  <2>6. a.acknowledged = pane.screen
    BY <2>3, <2>4, <2>5
  <2>7. pane.screen = pane.terminal
    BY <1>1, <2>1 DEF ReplicaInv, Shown
  <2> QED BY <2>2, <2>6, <2>7
<1>2. IInv /\ ReplicaInv /\ MirrorInv /\ [Next]_vars =>
        [\A c \in Clients :
           Attached(c) /\ ~attachments[c].exit_sent /\ attachments'[c] # NoAttachment
           /\ attachments'[c].exit_sent /\ Replica(c).attached =>
             Replica(c).cells = pane.terminal]_vars
  BY <1>1
<1> QED BY <1>2, MirrorHolds, PTL DEF Spec, ExitAfterLastFrame

================================================================================
