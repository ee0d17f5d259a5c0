------------------------------ MODULE CellDelivery ------------------------------
(***************************************************************************)
(* How the screen of one pane reaches the clients attached to it:          *)
(* rendering and row damage (backend/pane/Pane.zig), the cell              *)
(* synchronization of an attachment (runtime/attachment), the delivery of  *)
(* one message at a time to each client (runtime/client_delivery.zig,      *)
(* runtime/delivery), the publication timer, and the client's replica of   *)
(* the pane (model/panes).                                                 *)
(*                                                                         *)
(* The runtime handles one event at a time and flushes after each.  The    *)
(* flush is taken client by client: `pump` is its position, and no event   *)
(* is handled before it has ended.  Clients, writers and time run in       *)
(* between.  A message channel is a reliable stream in each direction.     *)
(***************************************************************************)
EXTENDS Naturals, SequencesExt

CONSTANTS
  MaxClients,    \* client slots, pumped in this order
  Values, Blank, \* contents of a row
  Sizes,         \* heights a client may offer
  FirstSize,     \* height the pane is launched with
  MaxMoves,      \* bound on output, opens, detaches, resizes and failed applications
  Disturbed,     \* TRUE: the child synchronizes its output, timers may not start
  NoAttachment

Clients == 1 .. MaxClients
Nobody == 0

(* What the runtime keeps of the pane and, in CellSync, of each client. *)
Pane == [terminal : Seq(Values), screen : Seq(Values), damaged_rows : SUBSET Nat,
         dirty : BOOLEAN, render_pending : BOOLEAN, ingest_pending : BOOLEAN,
         pending_size : Sizes \cup {0}, output_done : BOOLEAN, exit : BOOLEAN,
         sync : {"off", "on", "expired"}]

Attachment ==
  [acknowledged : Seq(Values), observed : BOOLEAN, next_frame_id : Nat,
   acknowledged_frame_id : Nat, outstanding : Nat, snapshot_pending : BOOLEAN,
   exit_sent : BOOLEAN, paced : BOOLEAN, deadline : BOOLEAN]

ASSUME DeliveryAssumption ==
  /\ MaxClients \in Nat \ {0} /\ MaxMoves \in Nat
  /\ Blank \in Values
  /\ Sizes \subseteq Nat \ {0} /\ FirstSize \in Sizes
  /\ Disturbed \in BOOLEAN
  /\ NoAttachment \notin Attachment

VARIABLES
  pane,         \* the runtime's pane: terminal, rendered screen, damage, flags
  attachments,  \* client -> the runtime's rendering state for it
  lease,        \* the client holding the workspace's geometry lease
  sessions,     \* client -> queued answers, the write in flight, its deadline
  down, up,     \* client -> messages on their way to it, and from it
  clients,      \* client -> its replica of the pane
  timer,        \* cell_timer.pending
  pump,         \* 0 between updates, else where the flush stands
  moves         \* moves of the environment so far

vars == <<pane, attachments, lease, sessions, down, up, clients, timer, pump, moves>>

clientSide == <<clients, down, up>>

(* A terminal keeps its rows when resized; a cell buffer is cleared. *)
Fit(rows, n) == [i \in 1 .. n |-> IF i <= Len(rows) THEN rows[i] ELSE Blank]

Cleared(n) == [i \in 1 .. n |-> Blank]

(* Pane.create() has rendered the empty terminal. *)
Init ==
  /\ pane = [terminal |-> Cleared(FirstSize), screen |-> Cleared(FirstSize),
             damaged_rows |-> 1 .. FirstSize, dirty |-> TRUE, render_pending |-> FALSE,
             ingest_pending |-> FALSE, pending_size |-> 0,
             output_done |-> FALSE, exit |-> FALSE, sync |-> "off"]
  /\ attachments = [c \in Clients |-> NoAttachment]
  /\ lease = Nobody
  /\ sessions = [c \in Clients |-> [responses |-> <<>>, send_pending |-> FALSE,
                                    detach |-> FALSE, deadline |-> FALSE]]
  /\ down = [c \in Clients |-> <<>>] /\ up = [c \in Clients |-> <<>>]
  /\ clients = [c \in Clients |-> [cells |-> <<>>, applied |-> 0, attached |-> FALSE,
                                   awaiting |-> 0, next_request |-> 1, gone |-> FALSE]]
  /\ timer = FALSE /\ pump = 0 /\ moves = 0

Attached(c) == attachments[c] # NoAttachment

Ready == pump = 0

Flush == pump' = 1

Move == moves < MaxMoves /\ moves' = moves + 1

--------------------------------------------------------------------------------
(* Rendering and attachments                                               *)

(* Mutant: earlier damage is forgotten by the next render. *)
RenderedAfresh(p) ==
  [p EXCEPT !.screen = p.terminal, !.render_pending = FALSE, !.dirty = TRUE,
            !.damaged_rows = {i \in DOMAIN p.terminal : p.terminal[i] # p.screen[i]}]

(* render(): the rows that changed are copied and marked damaged, and the  *)
(* cell revision advances.  Only equality of revisions is ever asked, so   *)
(* an attachment keeps whether it has observed the present one.            *)
Rendered(p) ==
  [p EXCEPT !.screen = p.terminal, !.render_pending = FALSE, !.dirty = TRUE,
            !.damaged_rows = @ \cup {i \in DOMAIN p.terminal : p.terminal[i] # p.screen[i]}]

(* applyPendingResize(): fresh storage, rendered in full. *)
Resized(p, n) ==
  [p EXCEPT !.terminal = Fit(@, n), !.screen = Fit(p.terminal, n), !.pending_size = 0,
            !.damaged_rows = 1 .. n, !.render_pending = FALSE, !.dirty = TRUE]

Unobserved(as) ==
  [c \in Clients |-> IF as[c] = NoAttachment THEN NoAttachment
                     ELSE [as[c] EXCEPT !.observed = FALSE]]

(* CellSync.init(). *)
Fresh(p) ==
  [acknowledged |-> Cleared(Len(p.screen)), observed |-> FALSE,
   next_frame_id |-> 1, acknowledged_frame_id |-> 0, outstanding |-> 0,
   snapshot_pending |-> TRUE, exit_sent |-> FALSE, paced |-> FALSE, deadline |-> FALSE]

(* Mutant: the baseline is resized, and the client is not told. *)
ResizeWithoutSnapshot(a, p) ==
  IF Len(a.acknowledged) = Len(p.screen) THEN a
  ELSE [a EXCEPT !.acknowledged = Cleared(Len(p.screen)), !.outstanding = 0]

ResizeIfNeeded(a, p) ==
  IF Len(a.acknowledged) = Len(p.screen) THEN a
  ELSE [a EXCEPT !.acknowledged = Cleared(Len(p.screen)), !.outstanding = 0,
                 !.snapshot_pending = TRUE]

--------------------------------------------------------------------------------
(* Events of the pane                                                      *)

(* ingest(): the child wrote row i, and may have opened or closed a block  *)
(* of synchronized output. *)
Ingested(p, i, v, s) ==
  [p EXCEPT !.terminal[i] = v, !.render_pending = TRUE, !.dirty = TRUE,
            !.ingest_pending = FALSE,
            !.sync = IF s = "off" \/ @ = "off" THEN s ELSE @]

(* finishIngest(): a deferred resize is applied, every attachment follows. *)
AfterIngest(p) ==
  /\ pane' = IF p.pending_size # 0 THEN Resized(p, p.pending_size) ELSE p
  /\ LET as == IF p.pending_size # 0 THEN Unobserved(attachments) ELSE attachments
     IN attachments' = [c \in Clients |-> IF Attached(c) THEN ResizeIfNeeded(as[c], pane')
                                          ELSE NoAttachment]

SyncModes == IF Disturbed THEN {"off", "on"} ELSE {"off"}

(* Few bytes are ingested within the event that brought them. *)
InlineOutput ==
  /\ Ready /\ Move /\ Flush
  /\ ~pane.output_done /\ ~pane.ingest_pending
  /\ \E i \in DOMAIN pane.terminal, v \in Values, s \in SyncModes :
       AfterIngest(Ingested(pane, i, v, s))
  /\ UNCHANGED <<lease, sessions, clientSide, timer>>

StartIngest ==
  /\ Ready /\ Move /\ Flush
  /\ ~pane.output_done /\ ~pane.ingest_pending
  /\ pane' = [pane EXCEPT !.ingest_pending = TRUE]
  /\ UNCHANGED <<attachments, lease, sessions, clientSide, timer>>

FinishIngest ==
  /\ Ready /\ Flush
  /\ pane.ingest_pending
  /\ \E i \in DOMAIN pane.terminal, v \in Values, s \in SyncModes :
       AfterIngest(Ingested(pane, i, v, s))
  /\ UNCHANGED <<lease, sessions, clientSide, timer, moves>>

EndOutput ==
  /\ Ready /\ Flush
  /\ ~pane.output_done /\ ~pane.ingest_pending
  /\ pane' = [pane EXCEPT !.output_done = TRUE]
  /\ UNCHANGED <<attachments, lease, sessions, clientSide, timer, moves>>

ChildExits ==
  /\ Ready /\ Flush
  /\ ~pane.exit
  /\ pane' = [pane EXCEPT !.exit = TRUE]
  /\ UNCHANGED <<attachments, lease, sessions, clientSide, timer, moves>>

--------------------------------------------------------------------------------
(* Requests of the clients                                                 *)

(* requestResize() and, unless an ingest runs, applyPendingResize(), for   *)
(* the client that holds or takes the lease; p is the pane after it and as *)
(* the attachments, in which only c's own will follow the new size.        *)
Offers(c, n) ==
  /\ lease \in {Nobody, c}
  /\ n # (IF pane.pending_size # 0 THEN pane.pending_size ELSE Len(pane.screen))

PaneAfterOffer(c, n) ==
  IF ~Offers(c, n) THEN pane
  ELSE IF pane.ingest_pending THEN [pane EXCEPT !.pending_size = n]
  ELSE Resized(pane, n)

AttachmentsAfterOffer(c, n) ==
  IF Offers(c, n) /\ ~pane.ingest_pending THEN Unobserved(attachments) ELSE attachments

LeaseAfterOffer(c) == IF lease = Nobody THEN c ELSE lease

(* pane_attachment.open(): a client already attached keeps its state; a    *)
(* pane whose child exited is not found.                                   *)
Open(c, m) ==
  IF pane.exit
  THEN /\ sessions' = [sessions EXCEPT ![c].responses = Append(@, [id |-> m.id, ok |-> FALSE])]
       /\ UNCHANGED <<pane, attachments, lease>>
  ELSE /\ sessions' = [sessions EXCEPT ![c].responses = Append(@, [id |-> m.id, ok |-> TRUE])]
       /\ lease' = LeaseAfterOffer(c)
       /\ pane' = PaneAfterOffer(c, m.size)
       /\ LET as == AttachmentsAfterOffer(c, m.size)
          IN attachments' = [as EXCEPT ![c] =
               ResizeIfNeeded(IF @ = NoAttachment THEN Fresh(pane') ELSE @, pane')]

(* Mutant: the attachment is not resized with its pane. *)
ResizePaneOnly(c, m) ==
  IF ~Attached(c) \/ lease \notin {Nobody, c}
  THEN UNCHANGED <<pane, attachments, lease, sessions>>
  ELSE /\ lease' = LeaseAfterOffer(c)
       /\ pane' = PaneAfterOffer(c, m.size)
       /\ attachments' = AttachmentsAfterOffer(c, m.size)
       /\ UNCHANGED sessions

(* pane_resize.resize(). *)
Resize(c, m) ==
  IF ~Attached(c) \/ lease \notin {Nobody, c}
  THEN UNCHANGED <<pane, attachments, lease, sessions>>
  ELSE /\ lease' = LeaseAfterOffer(c)
       /\ pane' = PaneAfterOffer(c, m.size)
       /\ LET as == AttachmentsAfterOffer(c, m.size)
          IN attachments' = IF pane.ingest_pending THEN as
                            ELSE [as EXCEPT ![c] = ResizeIfNeeded(@, pane')]
       /\ UNCHANGED sessions

(* pane_attachment.detach(): the last attachment of a client frees its     *)
(* lease. *)
DetachPane(c) ==
  /\ attachments' = [attachments EXCEPT ![c] = NoAttachment]
  /\ lease' = IF Attached(c) /\ lease = c THEN Nobody ELSE lease
  /\ UNCHANGED <<pane, sessions>>

(* Mutant: any acknowledgement frees the next patch. *)
AcknowledgeAny(c, m) ==
  /\ attachments' =
       IF Attached(c) /\ attachments[c].outstanding # 0
       THEN [attachments EXCEPT ![c].acknowledged_frame_id = m.frame_id, ![c].outstanding = 0]
       ELSE attachments
  /\ UNCHANGED <<pane, lease, sessions>>

(* CellSync.acknowledge(): only the outstanding frame is acknowledged. *)
Acknowledge(c, m) ==
  /\ attachments' =
       IF Attached(c) /\ attachments[c].outstanding = m.frame_id
       THEN [attachments EXCEPT ![c].acknowledged_frame_id = m.frame_id, ![c].outstanding = 0]
       ELSE attachments
  /\ UNCHANGED <<pane, lease, sessions>>

RequestSnapshot(c) ==
  /\ attachments' = IF Attached(c) THEN [attachments EXCEPT ![c].snapshot_pending = TRUE]
                    ELSE attachments
  /\ UNCHANGED <<pane, lease, sessions>>

Receive(c) ==
  /\ Ready /\ Flush
  /\ up[c] # <<>>
  /\ up' = [up EXCEPT ![c] = Tail(@)]
  /\ LET m == Head(up[c])
     IN CASE m.type = "open" -> Open(c, m)
          [] m.type = "resize" -> Resize(c, m)
          [] m.type = "detach" -> DetachPane(c)
          [] m.type = "ack" -> Acknowledge(c, m)
          [] m.type = "snapshot" -> RequestSnapshot(c)
  /\ UNCHANGED <<clients, down, timer, moves>>

(* finishSend(): the write ended; an exit that was sent ends the           *)
(* attachment. *)
SendDone(c) ==
  /\ Ready /\ Flush
  /\ sessions[c].send_pending
  /\ sessions' = [sessions EXCEPT ![c].send_pending = FALSE, ![c].detach = FALSE]
  /\ attachments' = IF sessions[c].detach THEN [attachments EXCEPT ![c] = NoAttachment]
                    ELSE attachments
  /\ UNCHANGED <<pane, lease, clientSide, timer, moves>>

--------------------------------------------------------------------------------
(* The flush: client_delivery.pump() for one client after the other        *)

HasDelivery(a) ==
  \/ a.deadline \/ a.snapshot_pending
  \/ a.outstanding = 0 /\ (pane.render_pending \/ ~a.observed)
  \/ ~a.exit_sent /\ pane.exit

Pumps(c) == pump = c

(* Nothing ranks above the attachment's lanes. *)
Offered(c) ==
  /\ Pumps(c)
  /\ ~sessions[c].send_pending /\ sessions[c].responses = <<>>
  /\ Attached(c) /\ HasDelivery(attachments[c])

(* Mutant: a hold without a deadline. *)
HoldingForever == ~pane.output_done /\ pane.sync # "off"

Holding == ~pane.output_done /\ pane.sync = "on"

SnapshotDue(a) == ~pane.ingest_pending /\ a.snapshot_pending /\ ~Holding

PatchWanted(a) ==
  /\ ~pane.ingest_pending /\ ~a.snapshot_pending /\ a.outstanding = 0
  /\ pane.render_pending \/ ~a.observed

Throttled(a) == PatchWanted(a) /\ ~pane.output_done /\ a.paced

PatchDue(a) == PatchWanted(a) /\ ~Throttled(a) /\ ~Holding

(* Mutant: the exit goes out as soon as the output has ended. *)
ExitDueAtOnce(a) ==
  /\ ~pane.ingest_pending /\ ~a.exit_sent
  /\ pane.output_done /\ pane.exit
  /\ ~a.snapshot_pending

(* prepareExit(): after the last cells were sent and acknowledged. *)
ExitDue(a) ==
  /\ ~pane.ingest_pending /\ ~a.exit_sent
  /\ pane.output_done /\ pane.exit
  /\ a.outstanding = 0 /\ ~a.snapshot_pending
  /\ ~pane.render_pending /\ a.observed

Send(c, m, detach) ==
  /\ down' = [down EXCEPT ![c] = Append(@, m)]
  /\ sessions' = [sessions EXCEPT ![c].send_pending = TRUE, ![c].detach = detach,
                                  ![c].deadline = FALSE]
  /\ pump' = pump + 1
  /\ UNCHANGED <<lease, clients, up, timer, moves>>

(* CellSync.prepare() begins with the pending render. *)
NowRendered == IF pane.render_pending THEN Rendered(pane) ELSE pane

NowAttachments == IF pane.render_pending THEN Unobserved(attachments) ELSE attachments

(* The frame of rows, from base, becomes the outstanding one and its rows  *)
(* the baseline of the next; pacing has credit left for another or not.    *)
SendFrame(c, base, rows, paced) ==
  LET a == attachments[c]
      p == NowRendered
  IN /\ pane' = p
     /\ attachments' = [NowAttachments EXCEPT ![c] =
          [a EXCEPT !.acknowledged = [i \in DOMAIN @ |-> IF i \in rows THEN p.screen[i] ELSE @[i]],
                    !.observed = TRUE, !.next_frame_id = @ + 1,
                    !.outstanding = a.next_frame_id, !.snapshot_pending = FALSE,
                    !.paced = paced, !.deadline = FALSE]]
     /\ Send(c, [type |-> "frame", frame_id |-> a.next_frame_id, base |-> base,
                 size |-> Len(p.screen), cells |-> [i \in rows |-> p.screen[i]]], FALSE)

(* collectSpans() asserts that the screen and the baseline have one size,  *)
(* and the copy of a snapshot needs it: the runtime goes no further where  *)
(* they differ.                                                            *)
SameSize(a) == Len(a.acknowledged) = Len(pane.screen)

Damage(a) == {i \in NowRendered.damaged_rows : NowRendered.screen[i] # a.acknowledged[i]}

SendSnapshot(c) ==
  /\ Offered(c) /\ SnapshotDue(attachments[c]) /\ SameSize(attachments[c])
  /\ SendFrame(c, 0, DOMAIN pane.screen, attachments[c].paced)

(* The damaged rows that differ, or all of them when the spans are too     *)
(* many for a patch.                                                       *)
SendPatch(c) ==
  LET a == attachments[c]
  IN /\ Offered(c) /\ PatchDue(a) /\ SameSize(a) /\ Damage(a) # {}
     /\ \E paced \in BOOLEAN :
          \/ SendFrame(c, a.acknowledged_frame_id, Damage(a), paced)
          \/ SendFrame(c, 0, DOMAIN pane.screen, paced)

(* Nothing differs: the revision is observed and the other lanes follow. *)
ObserveUnchanged(c) ==
  LET a == attachments[c]
  IN /\ Offered(c) /\ PatchDue(a) /\ SameSize(a) /\ Damage(a) = {}
     /\ pane' = NowRendered
     /\ \E paced \in BOOLEAN :
          attachments' = [NowAttachments EXCEPT ![c] =
            [a EXCEPT !.observed = TRUE, !.paced = paced, !.deadline = FALSE]]
     /\ UNCHANGED <<lease, sessions, clientSide, timer, pump, moves>>

CellsPass(a) == ~SnapshotDue(a) /\ ~PatchDue(a)

SendExit(c) ==
  /\ Offered(c) /\ CellsPass(attachments[c]) /\ ExitDue(attachments[c])
  /\ attachments' = [attachments EXCEPT ![c].exit_sent = TRUE, ![c].deadline = FALSE]
  /\ Send(c, [type |-> "exited"], TRUE)
  /\ UNCHANGED pane

(* An answer to a request precedes everything of the attachment. *)
SendResponse(c) ==
  /\ Pumps(c)
  /\ ~sessions[c].send_pending /\ sessions[c].responses # <<>>
  /\ LET m == Head(sessions[c].responses)
     IN down' = [down EXCEPT ![c] = Append(@, [type |-> "opened", id |-> m.id, ok |-> m.ok])]
  /\ sessions' = [sessions EXCEPT ![c].responses = Tail(@), ![c].send_pending = TRUE,
                                  ![c].deadline = FALSE]
  /\ pump' = pump + 1
  /\ UNCHANGED <<pane, attachments, lease, clients, up, timer, moves>>

(* Mutant: the session forgets the deadline of its attachment. *)
SendNothingUntimed(c) ==
  /\ Pumps(c)
  /\ IF Offered(c)
     THEN /\ CellsPass(attachments[c]) /\ ~ExitDue(attachments[c])
          /\ attachments' = [attachments EXCEPT ![c].deadline = Throttled(attachments[c])]
     ELSE /\ sessions[c].send_pending \/ sessions[c].responses = <<>>
          /\ UNCHANGED attachments
  /\ sessions' = [sessions EXCEPT ![c].deadline = FALSE]
  /\ pump' = pump + 1
  /\ UNCHANGED <<pane, lease, clientSide, timer, moves>>

(* Cells that were throttled leave a deadline for the timer. *)
SendNothing(c) ==
  /\ Pumps(c)
  /\ IF Offered(c)
     THEN /\ CellsPass(attachments[c]) /\ ~ExitDue(attachments[c])
          /\ attachments' = [attachments EXCEPT ![c].deadline = Throttled(attachments[c])]
          /\ sessions' = [sessions EXCEPT ![c].deadline = Throttled(attachments[c])]
     ELSE /\ sessions[c].send_pending \/ sessions[c].responses = <<>>
          /\ sessions' = [sessions EXCEPT ![c].deadline = FALSE]
          /\ UNCHANGED attachments
  /\ pump' = pump + 1
  /\ UNCHANGED <<pane, lease, clientSide, timer, moves>>

(* scheduleCellPublication(), then settleDamage(). *)
Settle ==
  /\ pump = MaxClients + 1
  /\ pump' = 0
  /\ IF ~timer /\ \E c \in Clients : ~sessions[c].send_pending /\ sessions[c].deadline
     THEN timer' \in (IF Disturbed THEN BOOLEAN ELSE {TRUE})
     ELSE UNCHANGED timer
  /\ pane' = IF pane.dirty /\ ~pane.render_pending
                  /\ \A c \in Clients : Attached(c) => attachments[c].observed
             THEN [pane EXCEPT !.damaged_rows = {}, !.dirty = FALSE]
             ELSE pane
  /\ UNCHANGED <<attachments, lease, sessions, clientSide, moves>>

(* cell_publication_due: the armed deadline is the earliest one wanted or  *)
(* an obsolete one before it.                                              *)
TimerDue ==
  /\ Ready /\ Flush /\ timer
  /\ timer' = FALSE
  /\ UNCHANGED <<pane, attachments, lease, sessions, clientSide, moves>>

(* The agent tick: one of the periodic events that flush. *)
Tick ==
  /\ Ready /\ Flush
  /\ UNCHANGED <<pane, attachments, lease, sessions, clientSide, timer, moves>>

(* Time passes: the pacer of c has credit again, or a hold expires. *)
PaceElapses(c) ==
  /\ Attached(c) /\ attachments[c].paced
  /\ attachments' = [attachments EXCEPT ![c].paced = FALSE]
  /\ UNCHANGED <<pane, lease, sessions, clientSide, timer, pump, moves>>

HoldExpires ==
  /\ pane.sync = "on"
  /\ pane' = [pane EXCEPT !.sync = "expired"]
  /\ UNCHANGED <<attachments, lease, sessions, clientSide, timer, pump, moves>>

--------------------------------------------------------------------------------
(* The client                                                              *)

(* pane_frame.receive(), applyFrame() and applyBuffer(): a patch of        *)
(* another size is an error that ends the client.                          *)
Applies(k, m) == k.attached /\ (m.base = 0 \/ m.base = k.applied)

Fits(k, m) == m.base = 0 \/ m.size = Len(k.cells)

Applied(k, m) ==
  LET old == IF m.size = Len(k.cells) THEN k.cells ELSE Cleared(m.size)
  IN [k EXCEPT !.applied = m.frame_id,
               !.cells = [i \in 1 .. m.size |-> IF i \in DOMAIN m.cells THEN m.cells[i]
                                                ELSE old[i]]]

Left(k) == [k EXCEPT !.attached = FALSE, !.gone = TRUE]

Received(k, m) ==
  CASE m.type = "frame" -> IF ~Applies(k, m) THEN k
                           ELSE IF Fits(k, m) THEN Applied(k, m) ELSE Left(k)
    [] m.type = "opened" -> IF m.id # k.awaiting THEN k
                            ELSE [k EXCEPT !.awaiting = 0, !.attached = m.ok]
    [] m.type = "exited" -> Left(k)

Reply(k, m) ==
  IF m.type # "frame" \/ ~k.attached THEN <<>>
  ELSE IF ~Applies(k, m) THEN <<[type |-> "snapshot"]>>
  ELSE IF Fits(k, m) THEN <<[type |-> "ack", frame_id |-> m.frame_id]>> ELSE <<>>

Deliver(c) ==
  /\ down[c] # <<>>
  /\ down' = [down EXCEPT ![c] = Tail(@)]
  /\ clients' = [clients EXCEPT ![c] = Received(@, Head(down[c]))]
  /\ up' = [up EXCEPT ![c] = @ \o Reply(clients[c], Head(down[c]))]
  /\ UNCHANGED <<pane, attachments, lease, sessions, timer, pump, moves>>

(* limit_reached.recover(): a frame that cannot be stored asks for a       *)
(* snapshot instead.                                                       *)
DeliverFails(c) ==
  /\ Move /\ down[c] # <<>>
  /\ Head(down[c]).type = "frame" /\ Applies(clients[c], Head(down[c]))
  /\ down' = [down EXCEPT ![c] = Tail(@)]
  /\ up' = [up EXCEPT ![c] = Append(@, [type |-> "snapshot"])]
  /\ UNCHANGED <<pane, attachments, lease, sessions, clients, timer, pump>>

(* attachVisiblePanes(): unless attached or asked for already. *)
AskOpen(c) ==
  LET k == clients[c]
  IN /\ Move
     /\ ~k.attached /\ k.awaiting = 0 /\ ~k.gone
     /\ \E n \in Sizes :
          up' = [up EXCEPT ![c] = Append(@, [type |-> "open", id |-> k.next_request, size |-> n])]
     /\ clients' = [clients EXCEPT ![c].awaiting = k.next_request, ![c].next_request = @ + 1]
     /\ UNCHANGED <<pane, attachments, lease, sessions, down, timer, pump>>

(* detachTab(): the answer to a pending open will be ignored. *)
AskDetach(c) ==
  /\ Move
  /\ clients[c].attached \/ clients[c].awaiting # 0
  /\ up' = [up EXCEPT ![c] = Append(@, [type |-> "detach"])]
  /\ clients' = [clients EXCEPT ![c].attached = FALSE, ![c].awaiting = 0]
  /\ UNCHANGED <<pane, attachments, lease, sessions, down, timer, pump>>

AskResize(c) ==
  /\ Move /\ clients[c].attached
  /\ \E n \in Sizes \ {Len(clients[c].cells)} :
       up' = [up EXCEPT ![c] = Append(@, [type |-> "resize", size |-> n])]
  /\ UNCHANGED <<pane, attachments, lease, sessions, down, clients, timer, pump>>

Next ==
  \/ InlineOutput \/ StartIngest \/ FinishIngest \/ EndOutput \/ ChildExits
  \/ \E c \in Clients :
       \/ Receive(c) \/ SendDone(c)
       \/ SendSnapshot(c) \/ SendPatch(c) \/ ObserveUnchanged(c)
       \/ SendExit(c) \/ SendResponse(c) \/ SendNothing(c)
       \/ PaceElapses(c)
       \/ Deliver(c) \/ DeliverFails(c) \/ AskOpen(c) \/ AskDetach(c) \/ AskResize(c)
  \/ Settle \/ TimerDue \/ Tick \/ HoldExpires

(* Every completion that is queued is handled, the flush runs to its end,  *)
(* clients read, and time passes.  A completion waits for the end of each  *)
(* flush, hence the strong fairness.  The periodic tick is counted on only *)
(* where the timer is not enough.                                          *)
Fairness ==
  /\ WF_vars(Settle) /\ WF_vars(HoldExpires)
  /\ SF_vars(TimerDue) /\ SF_vars(FinishIngest)
  /\ Disturbed => WF_vars(Tick)
  /\ \A c \in Clients :
       /\ WF_vars(SendSnapshot(c) \/ SendPatch(c) \/ ObserveUnchanged(c)
                  \/ SendExit(c) \/ SendResponse(c) \/ SendNothing(c))
       /\ SF_vars(Receive(c)) /\ SF_vars(SendDone(c))
       /\ WF_vars(PaceElapses(c)) /\ WF_vars(Deliver(c))

Spec == Init /\ [][Next]_vars /\ Fairness

--------------------------------------------------------------------------------
(* Properties                                                              *)

Session == [responses : Seq([id : Nat, ok : BOOLEAN]), send_pending : BOOLEAN,
            detach : BOOLEAN, deadline : BOOLEAN]

Rows == UNION {1 .. n : n \in Sizes}

Downward ==
  [type : {"frame"}, frame_id : Nat, base : Nat, size : Sizes,
   cells : UNION {[rows -> Values] : rows \in SUBSET Rows}]
  \cup [type : {"exited"}] \cup [type : {"opened"}, id : Nat, ok : BOOLEAN]

Upward ==
  [type : {"open"}, id : Nat, size : Sizes] \cup [type : {"resize"}, size : Sizes]
  \cup [type : {"detach", "snapshot"}] \cup [type : {"ack"}, frame_id : Nat]

ClientPane == [cells : Seq(Values), applied : Nat, attached : BOOLEAN, awaiting : Nat,
               next_request : Nat, gone : BOOLEAN]

(* The records of the runtime and of the clients, and the messages between *)
(* them, keep their shape; the terminal, its rendered screen and its       *)
(* damage have one height, whatever resize was applied or deferred.        *)
TypeOK ==
  /\ pane \in Pane
  /\ Len(pane.terminal) = Len(pane.screen) /\ Len(pane.screen) \in Sizes
  /\ pane.damaged_rows \subseteq 1 .. Len(pane.screen)
  /\ attachments \in [Clients -> Attachment \cup {NoAttachment}]
  /\ sessions \in [Clients -> Session] /\ clients \in [Clients -> ClientPane]
  /\ down \in [Clients -> Seq(Downward)] /\ up \in [Clients -> Seq(Upward)]
  /\ lease \in Clients \cup {Nobody}
  /\ timer \in BOOLEAN /\ pump \in 0 .. MaxClients + 1 /\ moves \in 0 .. MaxMoves

(* Cell damage is shared by every client of a pane and cleared by the      *)
(* flush (settleDamage()), while each attachment has its own baseline: a   *)
(* row outside damaged_rows is one no attachment has to send.  Otherwise   *)
(* collectSpans() skips it and that client keeps the old row for good.     *)
DamageCovers ==
  \A c \in Clients :
    Attached(c) /\ ~attachments[c].snapshot_pending /\ SameSize(attachments[c]) =>
      \A i \in DOMAIN pane.screen \ pane.damaged_rows :
        pane.screen[i] = attachments[c].acknowledged[i]

(* What c will hold once everything on its way has arrived. *)
Replica(c) == FoldLeft(Received, clients[c], down[c])

Undisturbed(c) == \A i \in DOMAIN up[c] : up[c][i].type \in {"ack", "resize"}

(* The runtime diffs against `acknowledged`, which it overwrites when a    *)
(* frame is sent and not when it is acknowledged: as long as no snapshot   *)
(* is owed or asked for, it is exactly what the client holds once it has   *)
(* applied what is in flight, under the frame id that the next patch will  *)
(* name as its base.                                                       *)
ReplicaFollows ==
  \A c \in Clients :
    Attached(c) /\ ~attachments[c].snapshot_pending /\ Undisturbed(c) =>
      LET a == attachments[c]
      IN /\ Replica(c).cells = a.acknowledged
         /\ Replica(c).applied = IF a.outstanding # 0 THEN a.outstanding
                                 ELSE a.acknowledged_frame_id

(* A patch that reaches an attached client fits: its base is the frame the *)
(* client applied last and its size is the client's, so the resync branch  *)
(* of pane_frame.receive() and error.PatchSizeMismatch of applyFrame() are *)
(* never taken, across resizes, detaches, reopened panes and lost frames.  *)
PatchesApply ==
  \A c \in Clients :
    LET m == Head(down[c])
    IN down[c] # <<>> /\ m.type = "frame" /\ clients[c].attached /\ m.base # 0 =>
         m.base = clients[c].applied /\ m.size = Len(clients[c].cells)

(* Whenever the flush prepares cells, the baseline of the attachment has   *)
(* the size of the pane, as the assertion of collectSpans() demands.       *)
SizesAgree ==
  \A c \in Clients :
    Offered(c) /\ ~CellsPass(attachments[c]) => SameSize(attachments[c])

(* The exit of the child is announced after its last output: a client      *)
(* still attached holds the final screen by the time it reads the exit,    *)
(* whatever was throttled, held back, unacknowledged or being ingested     *)
(* when the child died (prepareExit()).                                    *)
ExitAfterLastFrame ==
  [][\A c \in Clients :
       Attached(c) /\ ~attachments[c].exit_sent /\ attachments'[c] # NoAttachment
       /\ attachments'[c].exit_sent /\ Replica(c).attached =>
         Replica(c).cells = pane.terminal]_vars

(* Cells that wait are never stranded: between two events, an attachment   *)
(* that is owed cells, with no write, acknowledgement or ingest on its way *)
(* to cause the next flush, has a publication timer armed, although one    *)
(* timer serves every client and was armed before some of the deadlines    *)
(* were known.  A timer that cannot start and synchronized output leave it *)
(* to the tick (Converges).                                                *)
OwedCellsTimed ==
  ~Disturbed /\ pump = 0 =>
    \A c \in Clients :
      Attached(c) /\ ~sessions[c].send_pending /\ PatchWanted(attachments[c]) => timer

(* A client never stays behind: again and again its requests are answered  *)
(* and it either has let go of the pane or shows what the terminal holds   *)
(* of a child that still runs.  Where a timer could not start or output    *)
(* was held back, the periodic tick is what it counts on; an exit with no  *)
(* cells to send must be offered all the same.                             *)
Converges ==
  \A c \in Clients :
    []<>(clients[c].awaiting = 0
         /\ (clients[c].attached =>
               clients[c].cells = pane.terminal /\ ~(pane.exit /\ pane.output_done)))

================================================================================
