---------------------------- MODULE DeliveryProofs ----------------------------
(***************************************************************************)
(* Row damage is enough for every client of a pane, for any number of      *)
(* clients, any sizes and any contents.  The damage flags of a pane are    *)
(* shared and each attachment has its own baseline, so the induction needs *)
(* more than DamageCovers: an attachment that observed the present         *)
(* revision has the whole screen as its baseline.  That is what allows     *)
(* settleDamage() to forget the damage.                                    *)
(***************************************************************************)
EXTENDS CellDelivery, TLAPS

PaneOK(p) ==
  /\ p \in Pane
  /\ Len(p.terminal) = Len(p.screen) /\ Len(p.screen) \in Sizes
  /\ p.damaged_rows \subseteq 1 .. Len(p.screen)

(* The rows of the screen that a does not have to send are the ones its    *)
(* baseline has.                                                           *)
Clean(p, a) ==
  ~a.snapshot_pending /\ Len(a.acknowledged) = Len(p.screen) =>
    \A i \in 1 .. Len(p.screen) :
      i \notin p.damaged_rows \/ a.observed => p.screen[i] = a.acknowledged[i]

Kept(p, a) == a = NoAttachment \/ (a \in Attachment /\ Clean(p, a))

(* A cleared buffer has the size asked for. *)
LEMMA ClearedRows ==
  ASSUME NEW n \in Nat
  PROVE  Cleared(n) \in Seq(Values) /\ Len(Cleared(n)) = n
  BY DeliveryAssumption DEF Cleared

(* A resized terminal has the size asked for. *)
LEMMA FitRows ==
  ASSUME NEW n \in Nat, NEW rows \in Seq(Values)
  PROVE  Fit(rows, n) \in Seq(Values) /\ Len(Fit(rows, n)) = n
<1>1. \A i \in 1 .. n : (IF i <= Len(rows) THEN rows[i] ELSE Blank) \in Values
  BY DeliveryAssumption
<1> QED
  BY <1>1 DEF Fit

(* render() marks every row it changes. *)
LEMMA RenderedClean ==
  ASSUME NEW p, PaneOK(p)
  PROVE  /\ PaneOK(Rendered(p))
         /\ \A a \in Attachment : Clean(p, a) => Clean(Rendered(p), [a EXCEPT !.observed = FALSE])
<1>0. p \in Pane
  BY DEF PaneOK
<1>1. Rendered(p) \in Pane /\ Rendered(p).screen = p.terminal /\ Rendered(p).terminal = p.terminal
  <2>1. ASSUME NEW d \in SUBSET Nat
        PROVE  [p EXCEPT !.screen = p.terminal, !.render_pending = FALSE, !.dirty = TRUE,
                         !.damaged_rows = d] \in Pane
    BY <1>0 DEF Pane
  <2>2. p.damaged_rows \cup {i \in DOMAIN p.terminal : p.terminal[i] # p.screen[i]} \in SUBSET Nat
    BY <1>0 DEF Pane
  <2>3. Rendered(p) \in Pane
    BY <2>1, <2>2 DEF Rendered
  <2>4. Rendered(p).screen = p.terminal /\ Rendered(p).terminal = p.terminal
    BY <1>0 DEF Rendered, Pane
  <2> QED
    BY <2>3, <2>4
<1>2. Rendered(p).damaged_rows =
        p.damaged_rows \cup {i \in DOMAIN p.terminal : p.terminal[i] # p.screen[i]}
  BY DEF Rendered, PaneOK, Pane
<1>3. DOMAIN p.terminal = 1 .. Len(p.screen) /\ Len(p.terminal) = Len(p.screen)
  BY DEF PaneOK, Pane
<1>4. ASSUME NEW a \in Attachment, Clean(p, a)
      PROVE  Clean(Rendered(p), [a EXCEPT !.observed = FALSE])
  <2>1. /\ [a EXCEPT !.observed = FALSE].acknowledged = a.acknowledged
        /\ [a EXCEPT !.observed = FALSE].snapshot_pending = a.snapshot_pending
        /\ [a EXCEPT !.observed = FALSE].observed = FALSE
    BY DEF Attachment
  <2> QED
    BY <1>1, <1>2, <1>3, <1>4, <2>1 DEF Clean
<1>5. Rendered(p).damaged_rows \subseteq 1 .. Len(Rendered(p).screen)
  BY <1>1, <1>2, <1>3 DEF PaneOK
<1>6. Len(Rendered(p).terminal) = Len(Rendered(p).screen) /\ Len(Rendered(p).screen) \in Sizes
  BY <1>1, <1>3 DEF PaneOK
<1> QED
  BY <1>1, <1>4, <1>5, <1>6 DEF PaneOK

(* applyPendingResize() marks everything. *)
LEMMA ResizedClean ==
  ASSUME NEW p, PaneOK(p), NEW n \in Sizes
  PROVE  /\ PaneOK(Resized(p, n))
         /\ \A a \in Attachment : Clean(Resized(p, n), [a EXCEPT !.observed = FALSE])
<1>0. n \in Nat
  BY DeliveryAssumption
<1>1. /\ Fit(p.terminal, n) \in Seq(Values) /\ Len(Fit(p.terminal, n)) = n
  BY <1>0, FitRows DEF PaneOK, Pane
<1>2. /\ Resized(p, n) \in Pane /\ Resized(p, n).terminal = Fit(p.terminal, n)
      /\ Resized(p, n).screen = Fit(p.terminal, n) /\ Resized(p, n).damaged_rows = 1 .. n
  <2>1. ASSUME NEW t \in Seq(Values), NEW d \in SUBSET Nat
        PROVE  [p EXCEPT !.terminal = t, !.screen = t, !.pending_size = 0,
                         !.damaged_rows = d, !.render_pending = FALSE, !.dirty = TRUE] \in Pane
    BY DEF PaneOK, Pane
  <2>2. Resized(p, n) = [p EXCEPT !.terminal = Fit(p.terminal, n), !.screen = Fit(p.terminal, n),
                                  !.pending_size = 0, !.damaged_rows = 1 .. n,
                                  !.render_pending = FALSE, !.dirty = TRUE]
    BY DEF Resized
  <2>3. 1 .. n \in SUBSET Nat
    BY <1>0
  <2>5. Resized(p, n) \in Pane
    BY <1>1, <2>1, <2>2, <2>3
  <2>4. /\ Resized(p, n).terminal = Fit(p.terminal, n) /\ Resized(p, n).screen = Fit(p.terminal, n)
        /\ Resized(p, n).damaged_rows = 1 .. n
    BY <2>2 DEF PaneOK, Pane
  <2> QED
    BY <2>4, <2>5
<1>3. ASSUME NEW a \in Attachment PROVE Clean(Resized(p, n), [a EXCEPT !.observed = FALSE])
  BY <1>1, <1>2 DEF Clean, Attachment
<1> QED
  BY <1>1, <1>2, <1>3 DEF PaneOK

(* resizeIfNeeded() owes a snapshot wherever it clears a baseline. *)
LEMMA ResizeIfNeededClean ==
  ASSUME NEW p, PaneOK(p), NEW a \in Attachment, Clean(p, a)
  PROVE  ResizeIfNeeded(a, p) \in Attachment /\ Clean(p, ResizeIfNeeded(a, p))
<1>1. Len(p.screen) \in Nat
  BY DEF PaneOK, Pane
<1>2. Cleared(Len(p.screen)) \in Seq(Values)
  BY <1>1, ClearedRows
<1>3. CASE Len(a.acknowledged) = Len(p.screen)
  BY <1>3 DEF ResizeIfNeeded
<1>4. CASE Len(a.acknowledged) # Len(p.screen)
  <2>1. ResizeIfNeeded(a, p) = [a EXCEPT !.acknowledged = Cleared(Len(p.screen)),
                                         !.outstanding = 0, !.snapshot_pending = TRUE]
    BY <1>4 DEF ResizeIfNeeded
  <2>2. ASSUME NEW rows \in Seq(Values)
        PROVE  [a EXCEPT !.acknowledged = rows, !.outstanding = 0,
                         !.snapshot_pending = TRUE] \in Attachment
    BY DEF Attachment
  <2>3. ResizeIfNeeded(a, p).snapshot_pending = TRUE
    BY <2>1 DEF Attachment
  <2> QED
    BY <1>2, <2>1, <2>2, <2>3 DEF Clean
<1> QED
  BY <1>3, <1>4

(* CellSync.init() owes a snapshot. *)
LEMMA FreshKept ==
  ASSUME NEW p, PaneOK(p)
  PROVE  Fresh(p) \in Attachment /\ Clean(p, Fresh(p))
<1>1. Len(p.screen) \in Nat
  BY DEF PaneOK, Pane
<1>2. Cleared(Len(p.screen)) \in Seq(Values)
  BY <1>1, ClearedRows
<1>3. Fresh(p) \in Attachment
  BY <1>2 DEF Fresh, Attachment
<1>4. Fresh(p).snapshot_pending = TRUE
  BY DEF Fresh
<1> QED
  BY <1>3, <1>4 DEF Clean

(* The present cells are unobserved by everyone after a render or resize. *)
LEMMA UnobservedKept ==
  ASSUME NEW p, NEW as, NEW c \in Clients,
         as[c] = NoAttachment \/ as[c] \in Attachment,
         \A a \in Attachment : a = as[c] => Clean(p, [a EXCEPT !.observed = FALSE])
  PROVE  Kept(p, Unobserved(as)[c])
<1>1. CASE as[c] = NoAttachment
  BY <1>1 DEF Kept, Unobserved
<1>2. CASE as[c] # NoAttachment
  <2>1. Unobserved(as)[c] = [as[c] EXCEPT !.observed = FALSE] /\ as[c] \in Attachment
    BY <1>2 DEF Unobserved
  <2>2. [as[c] EXCEPT !.observed = FALSE] \in Attachment
    BY <2>1 DEF Attachment
  <2> QED
    BY <2>1, <2>2 DEF Kept
<1> QED
  BY <1>1, <1>2

(* Clean only looks at the screen, the damage and three fields of an       *)
(* attachment, and a pending snapshot makes it vacuous.                    *)
LEMMA CleanFrame ==
  ASSUME NEW p, NEW q, NEW a, NEW b, Clean(p, a),
         q.screen = p.screen, q.damaged_rows = p.damaged_rows,
         b.acknowledged = a.acknowledged, b.observed = a.observed,
         b.snapshot_pending = a.snapshot_pending \/ b.snapshot_pending = TRUE
  PROVE  Clean(q, b)
  BY DEF Clean

--------------------------------------------------------------------------------
(* The runtime's side of the invariant, and what keeps it                  *)

Attachables == [Clients -> Attachment \cup {NoAttachment}]

Covered(p, as) == PaneOK(p) /\ as \in Attachables /\ \A c \in Clients : Kept(p, as[c])

(* One attachment is replaced by one that is clean. *)
LEMMA ReplaceOne ==
  ASSUME NEW p, NEW as, Covered(p, as), NEW c \in Clients, NEW a, Kept(p, a)
  PROVE  Covered(p, [as EXCEPT ![c] = a])
<1>1. a \in Attachment \cup {NoAttachment}
  BY DEF Kept
<1>2. [as EXCEPT ![c] = a] \in Attachables
  BY <1>1 DEF Covered, Attachables
<1>3. ASSUME NEW d \in Clients PROVE Kept(p, [as EXCEPT ![c] = a][d])
  BY DEF Covered, Attachables
<1> QED
  BY <1>2, <1>3 DEF Covered

(* A change of the pane that touches neither its screen nor its damage. *)
LEMMA PaneFlags ==
  ASSUME NEW p, NEW q, NEW as, Covered(p, as), PaneOK(q),
         q.screen = p.screen, q.damaged_rows = p.damaged_rows
  PROVE  Covered(q, as)
<1>1. ASSUME NEW c \in Clients PROVE Kept(q, as[c])
  BY CleanFrame DEF Covered, Kept, Clean
<1> QED
  BY <1>1 DEF Covered

(* A render covers every attachment, unobserved. *)
LEMMA RenderCovers ==
  ASSUME NEW p, NEW as, Covered(p, as)
  PROVE  Covered(Rendered(p), Unobserved(as))
<1>1. PaneOK(Rendered(p))
  BY RenderedClean DEF Covered
<1>2. ASSUME NEW c \in Clients PROVE Kept(Rendered(p), Unobserved(as)[c])
  <2>1. as[c] = NoAttachment \/ as[c] \in Attachment
    BY DEF Covered, Attachables
  <2>2. ASSUME NEW a \in Attachment, a = as[c], a # NoAttachment
        PROVE  Clean(Rendered(p), [a EXCEPT !.observed = FALSE])
    BY <2>2, RenderedClean DEF Covered, Kept
  <2>3. CASE as[c] = NoAttachment
    BY <2>3 DEF Kept, Unobserved
  <2>4. CASE as[c] # NoAttachment
    BY <2>1, <2>2, <2>4, UnobservedKept
  <2> QED
    BY <2>3, <2>4
<1>3. Unobserved(as) \in Attachables
  BY <1>2 DEF Attachables, Unobserved, Kept
<1> QED
  BY <1>1, <1>2, <1>3 DEF Covered

(* So does a resize. *)
LEMMA ResizeCovers ==
  ASSUME NEW p, NEW as, Covered(p, as), NEW n \in Sizes
  PROVE  Covered(Resized(p, n), Unobserved(as))
<1>1. PaneOK(Resized(p, n))
  BY ResizedClean DEF Covered
<1>2. ASSUME NEW c \in Clients PROVE Kept(Resized(p, n), Unobserved(as)[c])
  <2>1. as[c] = NoAttachment \/ as[c] \in Attachment
    BY DEF Covered, Attachables
  <2>2. \A a \in Attachment : a = as[c] => Clean(Resized(p, n), [a EXCEPT !.observed = FALSE])
    BY ResizedClean DEF Covered
  <2> QED
    BY <2>1, <2>2, UnobservedKept
<1>3. Unobserved(as) \in Attachables
  BY <1>2 DEF Attachables, Unobserved, Kept
<1> QED
  BY <1>1, <1>2, <1>3 DEF Covered

(* Every attachment follows the pane: refreshAttachments(). *)
LEMMA FollowCovers ==
  ASSUME NEW p, NEW as, Covered(p, as), NEW bs,
         bs = [c \in Clients |-> IF as[c] # NoAttachment THEN ResizeIfNeeded(as[c], p)
                                 ELSE NoAttachment]
  PROVE  Covered(p, bs)
<1>1. ASSUME NEW c \in Clients PROVE Kept(p, bs[c])
  <2>1. CASE as[c] = NoAttachment
    BY <2>1 DEF Kept
  <2>2. CASE as[c] # NoAttachment
    <3>1. as[c] \in Attachment /\ Clean(p, as[c])
      BY <2>2 DEF Covered, Kept
    <3> QED
      BY <2>2, <3>1, ResizeIfNeededClean DEF Kept, Covered
  <2> QED
    BY <2>1, <2>2
<1>2. bs \in Attachables
  BY <1>1 DEF Attachables, Kept
<1> QED
  BY <1>1, <1>2 DEF Covered

--------------------------------------------------------------------------------
(* Events of the pane                                                      *)

(* A row that the child writes changes the terminal, not the screen. *)
LEMMA IngestCovers ==
  ASSUME NEW as, Covered(pane, as), NEW i \in DOMAIN pane.terminal, NEW v \in Values,
         NEW s \in {"off", "on"}
  PROVE  Covered(Ingested(pane, i, v, s), as)
<1> DEFINE q == Ingested(pane, i, v, s)
<1>0. PaneOK(pane) /\ pane \in Pane
  BY DEF Covered, PaneOK
<1>1. /\ [pane.terminal EXCEPT ![i] = v] \in Seq(Values)
      /\ Len([pane.terminal EXCEPT ![i] = v]) = Len(pane.terminal)
  BY <1>0 DEF Pane
<1>2. ASSUME NEW t \in Seq(Values), NEW m \in {"off", "on", "expired"}
      PROVE  [pane EXCEPT !.terminal = t, !.render_pending = TRUE, !.dirty = TRUE,
                          !.ingest_pending = FALSE, !.sync = m] \in Pane
  BY <1>0 DEF Pane
<1>3. (IF s = "off" \/ pane.sync = "off" THEN s ELSE pane.sync) \in {"off", "on", "expired"}
  BY <1>0 DEF Pane
<1>4. q = [pane EXCEPT !.terminal = [pane.terminal EXCEPT ![i] = v],
                       !.render_pending = TRUE, !.dirty = TRUE, !.ingest_pending = FALSE,
                       !.sync = IF s = "off" \/ pane.sync = "off" THEN s ELSE pane.sync]
  BY <1>0 DEF Ingested, Pane
<1>5. q \in Pane
  <2> DEFINE t == [pane.terminal EXCEPT ![i] = v]
             m == IF s = "off" \/ pane.sync = "off" THEN s ELSE pane.sync
  <2>1. t \in Seq(Values) /\ m \in {"off", "on", "expired"}
    BY <1>1, <1>3
  <2>2. q = [pane EXCEPT !.terminal = t, !.render_pending = TRUE, !.dirty = TRUE,
                         !.ingest_pending = FALSE, !.sync = m]
    BY <1>4
  <2> HIDE DEF t, m, q
  <2> QED
    BY <1>2, <2>1, <2>2
<1>6. /\ q.terminal = [pane.terminal EXCEPT ![i] = v] /\ q.screen = pane.screen
      /\ q.damaged_rows = pane.damaged_rows
  BY <1>0, <1>4 DEF Pane
<1>7. PaneOK(q)
  BY <1>0, <1>1, <1>5, <1>6 DEF PaneOK
<1> QED
  BY <1>6, <1>7, PaneFlags

(* finishIngest() leaves everything covered. *)
LEMMA AfterIngestCovers ==
  ASSUME NEW p, Covered(p, attachments), AfterIngest(p)
  PROVE  Covered(pane', attachments')
<1>1. p.pending_size \in Sizes \cup {0}
  BY DEF Covered, PaneOK, Pane
<1> DEFINE as == IF p.pending_size # 0 THEN Unobserved(attachments) ELSE attachments
<1>2. Covered(pane', as)
  <2>1. CASE p.pending_size = 0
    BY <2>1 DEF AfterIngest
  <2>2. CASE p.pending_size # 0
    <3>1. p.pending_size \in Sizes
      BY <1>1, <2>2
    <3> QED
      BY <2>2, <3>1, ResizeCovers DEF AfterIngest
  <2> QED
    BY <2>1, <2>2
<1>3. \A c \in Clients : Attached(c) <=> as[c] # NoAttachment
  <2>1. ASSUME NEW c \in Clients PROVE Attached(c) <=> Unobserved(attachments)[c] # NoAttachment
    <3>1. attachments[c] # NoAttachment => Unobserved(attachments)[c] = [attachments[c] EXCEPT !.observed = FALSE]
      BY DEF Unobserved
    <3>2. attachments[c] # NoAttachment => attachments[c] \in Attachment
      BY DEF Covered, Attachables
    <3>3. attachments[c] # NoAttachment => [attachments[c] EXCEPT !.observed = FALSE] \in Attachment
      BY <3>2 DEF Attachment
    <3>4. attachments[c] = NoAttachment => Unobserved(attachments)[c] = NoAttachment
      BY DEF Unobserved
    <3> QED
      BY <3>1, <3>3, <3>4, DeliveryAssumption DEF Attached
  <2> QED
    BY <2>1 DEF Attached
<1>4. attachments' = [c \in Clients |-> IF as[c] # NoAttachment THEN ResizeIfNeeded(as[c], pane')
                                        ELSE NoAttachment]
  BY <1>3 DEF AfterIngest
<1> QED
  BY <1>2, <1>4, FollowCovers

(* Any field but the screen, the terminal and the damage may change. *)
LEMMA FlagCovers ==
  ASSUME NEW as, Covered(pane, as), NEW q \in Pane,
         q.screen = pane.screen, q.terminal = pane.terminal, q.damaged_rows = pane.damaged_rows
  PROVE  Covered(q, as)
  BY PaneFlags DEF Covered, PaneOK

(* The events of the pane keep every attachment covered. *)
LEMMA PaneEventsCover ==
  ASSUME Covered(pane, attachments),
         InlineOutput \/ StartIngest \/ FinishIngest \/ EndOutput \/ ChildExits \/ HoldExpires
  PROVE  Covered(pane', attachments')
<1>0. pane \in Pane
  BY DEF Covered, PaneOK
<1>1. CASE InlineOutput \/ FinishIngest
  <2>1. PICK i \in DOMAIN pane.terminal, v \in Values, s \in SyncModes :
          AfterIngest(Ingested(pane, i, v, s))
    BY <1>1 DEF InlineOutput, FinishIngest
  <2>2. s \in {"off", "on"}
    BY DEF SyncModes
  <2> QED
    BY <2>1, <2>2, IngestCovers, AfterIngestCovers
<1>2. CASE StartIngest
  <2>1. [pane EXCEPT !.ingest_pending = TRUE] \in Pane
    BY <1>0 DEF Pane
  <2> QED
    BY <1>0, <1>2, <2>1, FlagCovers DEF StartIngest, Pane
<1>3. CASE EndOutput
  <2>1. [pane EXCEPT !.output_done = TRUE] \in Pane
    BY <1>0 DEF Pane
  <2> QED
    BY <1>0, <1>3, <2>1, FlagCovers DEF EndOutput, Pane
<1>4. CASE ChildExits
  <2>1. [pane EXCEPT !.exit = TRUE] \in Pane
    BY <1>0 DEF Pane
  <2> QED
    BY <1>0, <1>4, <2>1, FlagCovers DEF ChildExits, Pane
<1>5. CASE HoldExpires
  <2>1. [pane EXCEPT !.sync = "expired"] \in Pane
    BY <1>0 DEF Pane
  <2> QED
    BY <1>0, <1>5, <2>1, FlagCovers DEF HoldExpires, Pane
<1> QED
  BY <1>1, <1>2, <1>3, <1>4, <1>5

--------------------------------------------------------------------------------
(* Requests of the clients                                                 *)

(* An offered size: the pane and the attachments before the one that asked *)
(* follows.                                                                *)
LEMMA OfferCovers ==
  ASSUME Covered(pane, attachments), NEW c \in Clients, NEW n \in Sizes
  PROVE  Covered(PaneAfterOffer(c, n), AttachmentsAfterOffer(c, n))
<1>1. CASE ~Offers(c, n)
  BY <1>1 DEF PaneAfterOffer, AttachmentsAfterOffer
<1>2. CASE Offers(c, n) /\ pane.ingest_pending
  <2>0. pane \in Pane
    BY DEF Covered, PaneOK
  <2>1. [pane EXCEPT !.pending_size = n] \in Pane
    BY <2>0 DEF Pane
  <2>2. Covered([pane EXCEPT !.pending_size = n], attachments)
    BY <2>0, <2>1, FlagCovers DEF Pane
  <2> QED
    BY <1>2, <2>2 DEF PaneAfterOffer, AttachmentsAfterOffer
<1>3. CASE Offers(c, n) /\ ~pane.ingest_pending
  BY <1>3, ResizeCovers DEF PaneAfterOffer, AttachmentsAfterOffer
<1> QED
  BY <1>1, <1>2, <1>3

(* The attachment of the client that asked follows, or is created. *)
LEMMA FollowOne ==
  ASSUME NEW p, NEW as, Covered(p, as), NEW c \in Clients
  PROVE  /\ as[c] # NoAttachment => Covered(p, [as EXCEPT ![c] = ResizeIfNeeded(@, p)])
         /\ as[c] = NoAttachment => Covered(p, [as EXCEPT ![c] = ResizeIfNeeded(Fresh(p), p)])
<1>1. PaneOK(p) /\ Kept(p, as[c])
  BY DEF Covered
<1>2. ASSUME as[c] # NoAttachment PROVE Kept(p, ResizeIfNeeded(as[c], p))
  BY <1>1, <1>2, ResizeIfNeededClean DEF Kept
<1>3. Kept(p, ResizeIfNeeded(Fresh(p), p))
  BY <1>1, FreshKept, ResizeIfNeededClean DEF Kept
<1> QED
  BY <1>2, <1>3, ReplaceOne

(* open() *)
LEMMA OpenCovers ==
  ASSUME Covered(pane, attachments), NEW c \in Clients, NEW m, m.size \in Sizes, Open(c, m)
  PROVE  Covered(pane', attachments')
<1>1. CASE pane.exit
  BY <1>1 DEF Open
<1>2. CASE ~pane.exit
  <2> DEFINE p == PaneAfterOffer(c, m.size)
             as == AttachmentsAfterOffer(c, m.size)
  <2>1. Covered(p, as)
    BY OfferCovers
  <2>2. pane' = p /\ attachments' = [as EXCEPT ![c] =
               ResizeIfNeeded(IF @ = NoAttachment THEN Fresh(p) ELSE @, p)]
    BY <1>2 DEF Open
  <2> HIDE DEF p, as
  <2>3. CASE as[c] = NoAttachment
    <3>1. attachments' = [as EXCEPT ![c] = ResizeIfNeeded(Fresh(p), p)]
      BY <2>2, <2>3
    <3>2. Covered(p, [as EXCEPT ![c] = ResizeIfNeeded(Fresh(p), p)])
      BY <2>1, <2>3, FollowOne
    <3> QED
      BY <2>2, <3>1, <3>2
  <2>4. CASE as[c] # NoAttachment
    <3>1. attachments' = [as EXCEPT ![c] = ResizeIfNeeded(@, p)]
      BY <2>2, <2>4
    <3>2. Covered(p, [as EXCEPT ![c] = ResizeIfNeeded(@, p)])
      BY <2>1, <2>4, FollowOne
    <3> QED
      BY <2>2, <3>1, <3>2
  <2> QED
    BY <2>3, <2>4
<1> QED
  BY <1>1, <1>2

(* resize() *)
LEMMA ResizeRequestCovers ==
  ASSUME Covered(pane, attachments), NEW c \in Clients, NEW m, m.size \in Sizes, Resize(c, m)
  PROVE  Covered(pane', attachments')
<1>1. CASE ~Attached(c) \/ lease \notin {Nobody, c}
  BY <1>1 DEF Resize
<1>2. CASE Attached(c) /\ lease \in {Nobody, c}
  <2> DEFINE p == PaneAfterOffer(c, m.size)
             as == AttachmentsAfterOffer(c, m.size)
  <2>1. Covered(p, as)
    BY OfferCovers
  <2>2. /\ pane' = p
        /\ attachments' = as \/ attachments' = [as EXCEPT ![c] = ResizeIfNeeded(@, p)]
    BY <1>2 DEF Resize
  <2>3. as[c] # NoAttachment
    <3>1. attachments[c] # NoAttachment /\ attachments[c] \in Attachment
      BY <1>2 DEF Attached, Covered, Attachables
    <3>2. [attachments[c] EXCEPT !.observed = FALSE] \in Attachment
      BY <3>1 DEF Attachment
    <3>3. Unobserved(attachments)[c] = [attachments[c] EXCEPT !.observed = FALSE]
      BY <3>1 DEF Unobserved
    <3>4. Unobserved(attachments)[c] # NoAttachment
      BY <3>2, <3>3, DeliveryAssumption
    <3> QED
      BY <3>1, <3>4 DEF AttachmentsAfterOffer
  <2> HIDE DEF p, as
  <2>4. Covered(p, [as EXCEPT ![c] = ResizeIfNeeded(@, p)])
    BY <2>1, <2>3, FollowOne
  <2> QED
    BY <2>1, <2>2, <2>4
<1> QED
  BY <1>1, <1>2

(* detach(), acknowledge(), requestSnapshot(), and the end of a write. *)
LEMMA RequestsCover ==
  ASSUME Covered(pane, attachments), NEW c \in Clients,
         \/ DetachPane(c) \/ RequestSnapshot(c) \/ SendDone(c) \/ PaceElapses(c)
         \/ \E m : m.frame_id \in Nat /\ Acknowledge(c, m)
  PROVE  Covered(pane', attachments')
<1>0. /\ PaneOK(pane) /\ Kept(pane, attachments[c]) /\ attachments \in Attachables
      /\ Attached(c) => attachments[c] \in Attachment /\ Clean(pane, attachments[c])
  BY DEF Covered, Kept, Attached
<1>1. Kept(pane, NoAttachment)
  BY DEF Kept
<1>2. CASE DetachPane(c)
  BY <1>1, <1>2, ReplaceOne DEF DetachPane
<1>3. CASE SendDone(c)
  BY <1>1, <1>3, ReplaceOne DEF SendDone
<1>4. CASE RequestSnapshot(c)
  <2>1. CASE ~Attached(c)
    BY <1>4, <2>1 DEF RequestSnapshot
  <2>2. CASE Attached(c)
    <3> DEFINE b == [attachments[c] EXCEPT !.snapshot_pending = TRUE]
    <3>1. b \in Attachment /\ b.snapshot_pending = TRUE
      BY <1>0, <2>2 DEF Attachment
    <3>2. Kept(pane, b)
      BY <3>1 DEF Kept, Clean
    <3>3. attachments' = [attachments EXCEPT ![c] = b] /\ pane' = pane
      BY <1>4, <2>2 DEF RequestSnapshot
    <3> QED
      BY <3>2, <3>3, ReplaceOne
  <2> QED
    BY <2>1, <2>2
<1>5. CASE PaceElapses(c)
  <2> DEFINE b == [attachments[c] EXCEPT !.paced = FALSE]
  <2>1. /\ b \in Attachment /\ b.acknowledged = attachments[c].acknowledged
        /\ b.observed = attachments[c].observed
        /\ b.snapshot_pending = attachments[c].snapshot_pending
    BY <1>0, <1>5 DEF PaceElapses, Attachment
  <2>2. Kept(pane, b)
    BY <1>0, <1>5, <2>1, CleanFrame DEF Kept, PaceElapses
  <2>3. attachments' = [attachments EXCEPT ![c] = b] /\ pane' = pane
    BY <1>5 DEF PaceElapses
  <2> QED
    BY <2>2, <2>3, ReplaceOne
<1>6. CASE \E m : m.frame_id \in Nat /\ Acknowledge(c, m)
  <2>0. PICK m : m.frame_id \in Nat /\ Acknowledge(c, m)
    BY <1>6
  <2>1. CASE ~(Attached(c) /\ attachments[c].outstanding = m.frame_id)
    BY <2>0, <2>1 DEF Acknowledge
  <2>2. CASE Attached(c) /\ attachments[c].outstanding = m.frame_id
    <3> DEFINE b == [attachments[c] EXCEPT !.acknowledged_frame_id = m.frame_id, !.outstanding = 0]
    <3>1. /\ b \in Attachment /\ b.acknowledged = attachments[c].acknowledged
          /\ b.observed = attachments[c].observed
          /\ b.snapshot_pending = attachments[c].snapshot_pending
      BY <1>0, <2>0, <2>2 DEF Attachment
    <3>2. Kept(pane, b)
      BY <1>0, <2>2, <3>1, CleanFrame DEF Kept
    <3>3. attachments' = [attachments EXCEPT ![c] = b] /\ pane' = pane
      BY <1>0, <2>0, <2>2 DEF Acknowledge, Attachables
    <3> QED
      BY <3>2, <3>3, ReplaceOne
  <2> QED
    BY <2>1, <2>2
<1> QED
  BY <1>2, <1>3, <1>4, <1>5, <1>6

--------------------------------------------------------------------------------
(* The flush                                                               *)

(* The pending render covers every attachment. *)
LEMMA NowCovers ==
  ASSUME Covered(pane, attachments)
  PROVE  /\ Covered(NowRendered, NowAttachments)
         /\ Len(NowRendered.screen) = Len(pane.screen)
<1>1. CASE pane.render_pending
  <2>1. Len(Rendered(pane).screen) = Len(pane.screen)
    BY DEF Covered, PaneOK, Pane, Rendered
  <2> QED
    BY <1>1, <2>1, RenderCovers DEF NowRendered, NowAttachments
<1>2. CASE ~pane.render_pending
  BY <1>2 DEF NowRendered, NowAttachments
<1> QED
  BY <1>1, <1>2

(* Outside Damage, the baseline has what the screen shows. *)
LEMMA DamageExact ==
  ASSUME Covered(pane, attachments), NEW c \in Clients, Attached(c),
         ~attachments[c].snapshot_pending, SameSize(attachments[c])
  PROVE  /\ Damage(attachments[c]) \subseteq DOMAIN pane.screen
         /\ \A i \in DOMAIN pane.screen \ Damage(attachments[c]) :
              NowRendered.screen[i] = attachments[c].acknowledged[i]
<1> DEFINE p == NowRendered
           a == attachments[c]
           b == NowAttachments[c]
<1>1. Covered(p, NowAttachments) /\ Len(p.screen) = Len(pane.screen)
  BY NowCovers
<1>2. a \in Attachment /\ a # NoAttachment
  BY DEF Covered, Attachables, Attached
<1>3. b \in Attachment /\ b.acknowledged = a.acknowledged /\ b.snapshot_pending = a.snapshot_pending
  BY <1>2 DEF NowAttachments, Unobserved, Attachment
<1>4. Clean(p, b)
  BY <1>1, <1>3, DeliveryAssumption DEF Covered, Kept
<1>5. \A i \in 1 .. Len(p.screen) : i \notin p.damaged_rows => p.screen[i] = a.acknowledged[i]
  BY <1>1, <1>3, <1>4 DEF Clean, SameSize
<1>6. DOMAIN pane.screen = 1 .. Len(p.screen)
  BY <1>1 DEF Covered, PaneOK, Pane
<1>7. p.damaged_rows \subseteq 1 .. Len(p.screen)
  BY <1>1 DEF Covered, PaneOK
<1> QED
  BY <1>5, <1>6, <1>7 DEF Damage

(* A frame that carries every row that differs makes the baseline whole. *)
LEMMA FrameCovers ==
  ASSUME Covered(pane, attachments), NEW c \in Clients, Attached(c), SameSize(attachments[c]),
         NEW rows, NEW base, NEW paced \in BOOLEAN,
         \A i \in DOMAIN pane.screen \ rows :
           NowRendered.screen[i] = attachments[c].acknowledged[i],
         SendFrame(c, base, rows, paced)
  PROVE  Covered(pane', attachments')
<1> DEFINE p == NowRendered
           a == attachments[c]
           t == [i \in DOMAIN a.acknowledged |-> IF i \in rows THEN p.screen[i]
                                                 ELSE a.acknowledged[i]]
           b == [a EXCEPT !.acknowledged = t, !.observed = TRUE,
                          !.next_frame_id = @ + 1, !.outstanding = a.next_frame_id,
                          !.snapshot_pending = FALSE, !.paced = paced, !.deadline = FALSE]
<1>1. Covered(p, NowAttachments) /\ Len(p.screen) = Len(pane.screen)
  BY NowCovers
<1>2. a \in Attachment /\ a # NoAttachment
  BY DEF Covered, Attachables, Attached
<1>3. /\ p.screen \in Seq(Values) /\ a.acknowledged \in Seq(Values)
      /\ DOMAIN pane.screen = 1 .. Len(p.screen) /\ Len(a.acknowledged) = Len(p.screen)
  BY <1>1, <1>2 DEF Covered, PaneOK, Pane, Attachment, SameSize
<1>4. t \in Seq(Values) /\ Len(t) = Len(p.screen) /\ \A i \in 1 .. Len(p.screen) : t[i] = p.screen[i]
  <2>1. DOMAIN a.acknowledged = 1 .. Len(p.screen)
    BY <1>3
  <2>2. \A i \in 1 .. Len(p.screen) : t[i] = p.screen[i]
    BY <1>3, <2>1
  <2>3. \A i \in 1 .. Len(p.screen) : p.screen[i] \in Values
    BY <1>3
  <2>4. t \in [1 .. Len(p.screen) -> Values] /\ Len(p.screen) \in Nat
    BY <1>3, <2>1, <2>2, <2>3
  <2> HIDE DEF t
  <2> QED
    BY <2>2, <2>4
<1>5. b \in Attachment /\ b.acknowledged = t
  <2>1. ASSUME NEW u \in Seq(Values), NEW f \in Nat, NEW o \in Nat
        PROVE  [a EXCEPT !.acknowledged = u, !.observed = TRUE, !.next_frame_id = f,
                         !.outstanding = o, !.snapshot_pending = FALSE, !.paced = paced,
                         !.deadline = FALSE] \in Attachment
    BY <1>2 DEF Attachment
  <2>2. t \in Seq(Values)
    BY <1>4
  <2>3. a.next_frame_id + 1 \in Nat /\ a.next_frame_id \in Nat
    BY <1>2 DEF Attachment
  <2> HIDE DEF t
  <2>4. b \in Attachment
    BY <2>1, <2>2, <2>3
  <2>5. b.acknowledged = t
    BY <1>2 DEF Attachment
  <2> QED
    BY <2>4, <2>5
<1>6. pane' = p /\ attachments' = [NowAttachments EXCEPT ![c] = b]
  BY DEF SendFrame
<1> HIDE DEF p, t, b
<1>7. Kept(p, b)
  BY <1>4, <1>5 DEF Kept, Clean
<1> QED
  BY <1>1, <1>6, <1>7, ReplaceOne

(* A snapshot or a patch. *)
LEMMA SendCellsCover ==
  ASSUME Covered(pane, attachments), NEW c \in Clients, SendSnapshot(c) \/ SendPatch(c)
  PROVE  Covered(pane', attachments')
<1>1. Attached(c) /\ SameSize(attachments[c])
  BY DEF SendSnapshot, SendPatch, Offered
<1>2. CASE SendSnapshot(c)
  <2>1. attachments[c].paced \in BOOLEAN
    BY <1>1 DEF Covered, Attachables, Attached, Attachment
  <2> QED
    BY <1>1, <1>2, <2>1, FrameCovers DEF SendSnapshot
<1>3. CASE SendPatch(c)
  <2>1. ~attachments[c].snapshot_pending
    BY <1>3 DEF SendPatch, PatchDue, PatchWanted
  <2>2. PICK paced \in BOOLEAN :
          \/ SendFrame(c, attachments[c].acknowledged_frame_id, Damage(attachments[c]), paced)
          \/ SendFrame(c, 0, DOMAIN pane.screen, paced)
    BY <1>3 DEF SendPatch
  <2>3. CASE SendFrame(c, attachments[c].acknowledged_frame_id, Damage(attachments[c]), paced)
    BY <1>1, <2>1, <2>3, DamageExact, FrameCovers
  <2>4. CASE SendFrame(c, 0, DOMAIN pane.screen, paced)
    BY <1>1, <2>4, FrameCovers
  <2> QED
    BY <2>2, <2>3, <2>4
<1> QED
  BY <1>2, <1>3

(* A revision that changes nothing may be observed without a frame. *)
LEMMA ObserveCovers ==
  ASSUME Covered(pane, attachments), NEW c \in Clients, ObserveUnchanged(c)
  PROVE  Covered(pane', attachments')
<1> DEFINE p == NowRendered
           a == attachments[c]
<1>1. /\ Attached(c) /\ SameSize(a) /\ ~a.snapshot_pending /\ Damage(a) = {}
      /\ a \in Attachment /\ pane' = p
  BY DEF ObserveUnchanged, Offered, PatchDue, PatchWanted, Covered, Attachables, Attached
<1>2. Covered(p, NowAttachments) /\ Len(p.screen) = Len(pane.screen)
  BY NowCovers
<1>3. \A i \in 1 .. Len(p.screen) : p.screen[i] = a.acknowledged[i]
  BY <1>1, <1>2, DamageExact DEF Covered, PaneOK, Pane
<1>4. PICK paced \in BOOLEAN : attachments' = [NowAttachments EXCEPT ![c] =
            [a EXCEPT !.observed = TRUE, !.paced = paced, !.deadline = FALSE]]
  BY DEF ObserveUnchanged
<1> DEFINE b == [a EXCEPT !.observed = TRUE, !.paced = paced, !.deadline = FALSE]
<1>5. b \in Attachment /\ b.acknowledged = a.acknowledged
  BY <1>1 DEF Attachment
<1>6. attachments' = [NowAttachments EXCEPT ![c] = b]
  BY <1>4
<1> HIDE DEF p, b
<1>7. Kept(p, b)
  BY <1>3, <1>5 DEF Kept, Clean
<1> QED
  BY <1>1, <1>2, <1>6, <1>7, ReplaceOne

(* settleDamage() forgets the damage only when every baseline is whole. *)
LEMMA SettleCovers ==
  ASSUME Covered(pane, attachments), Settle
  PROVE  Covered(pane', attachments')
<1> DEFINE q == [pane EXCEPT !.damaged_rows = {}, !.dirty = FALSE]
<1>1. pane \in Pane /\ PaneOK(pane)
  BY DEF Covered, PaneOK
<1>2. q \in Pane /\ q.screen = pane.screen /\ q.terminal = pane.terminal /\ q.damaged_rows = {}
  BY <1>1 DEF Pane
<1>3. PaneOK(q)
  BY <1>1, <1>2 DEF PaneOK
<1>4. ASSUME \A c \in Clients : Attached(c) => attachments[c].observed
      PROVE  Covered(q, attachments)
  <2>1. ASSUME NEW c \in Clients PROVE Kept(q, attachments[c])
    <3>1. CASE attachments[c] = NoAttachment
      BY <3>1 DEF Kept
    <3>2. CASE attachments[c] # NoAttachment
      <4>1. attachments[c] \in Attachment /\ Clean(pane, attachments[c]) /\ attachments[c].observed
        BY <1>4, <3>2 DEF Covered, Kept, Attached
      <4> HIDE DEF q
      <4> QED
        BY <1>2, <4>1 DEF Kept, Clean
    <3> QED
      BY <3>1, <3>2
  <2> HIDE DEF q
  <2> QED
    BY <1>3, <2>1 DEF Covered
<1> QED
  BY <1>4 DEF Settle

(* The rest of the flush touches no row. *)
LEMMA SendRestCovers ==
  ASSUME Covered(pane, attachments), NEW c \in Clients,
         SendExit(c) \/ SendResponse(c) \/ SendNothing(c)
  PROVE  Covered(pane', attachments')
<1>1. CASE UNCHANGED <<pane, attachments>>
  BY <1>1
<1>2. ASSUME Attached(c), NEW e \in BOOLEAN, NEW d \in BOOLEAN
      PROVE  Covered(pane, [attachments EXCEPT ![c] =
                              [attachments[c] EXCEPT !.exit_sent = e, !.deadline = d]])
  <2> DEFINE b == [attachments[c] EXCEPT !.exit_sent = e, !.deadline = d]
  <2>1. attachments[c] \in Attachment /\ Clean(pane, attachments[c])
    BY <1>2 DEF Covered, Kept, Attached
  <2>2. /\ b \in Attachment /\ b.acknowledged = attachments[c].acknowledged
        /\ b.observed = attachments[c].observed
        /\ b.snapshot_pending = attachments[c].snapshot_pending
    BY <2>1 DEF Attachment
  <2> HIDE DEF b
  <2>3. Kept(pane, b)
    BY <2>1, <2>2, CleanFrame DEF Kept
  <2>4. Covered(pane, [attachments EXCEPT ![c] = b])
    BY <2>3, ReplaceOne
  <2> QED
    BY <2>4 DEF b
<1>3. Attached(c) => attachments[c] \in Attachment
  BY DEF Covered, Kept, Attached
<1>4. CASE SendExit(c)
  <2>1. Attached(c) /\ pane' = pane
    BY <1>4 DEF SendExit, Offered
  <2>2. attachments' = [attachments EXCEPT ![c] =
                          [attachments[c] EXCEPT !.exit_sent = TRUE, !.deadline = FALSE]]
    BY <1>4 DEF SendExit, Covered, Attachables
  <2> QED
    BY <1>2, <2>1, <2>2
<1>5. CASE SendNothing(c) /\ Offered(c)
  <2> DEFINE d == Throttled(attachments[c])
  <2>1. Attached(c) /\ pane' = pane
    BY <1>5 DEF SendNothing, Offered
  <2>2. d \in BOOLEAN
    BY DEF Throttled, PatchWanted
  <2>3. attachments[c].exit_sent \in BOOLEAN
    BY <1>3, <2>1 DEF Attachment
  <2>4. [attachments[c] EXCEPT !.deadline = d]
          = [attachments[c] EXCEPT !.exit_sent = attachments[c].exit_sent, !.deadline = d]
    BY <1>3, <2>1 DEF Attachment
  <2>5. attachments' = [attachments EXCEPT ![c] = [attachments[c] EXCEPT !.deadline = d]]
    BY <1>5 DEF SendNothing, Covered, Attachables
  <2> HIDE DEF d
  <2> QED
    BY <1>2, <2>1, <2>2, <2>3, <2>4, <2>5
<1>6. CASE SendResponse(c) \/ (SendNothing(c) /\ ~Offered(c))
  BY <1>1, <1>6 DEF SendResponse, SendNothing
<1> QED
  BY <1>4, <1>5, <1>6

--------------------------------------------------------------------------------
(* Sessions, clients and the messages between them keep their shape        *)

Wire ==
  /\ sessions \in [Clients -> Session] /\ clients \in [Clients -> ClientPane]
  /\ down \in [Clients -> Seq(Downward)] /\ up \in [Clients -> Seq(Upward)]
  /\ lease \in Clients \cup {Nobody}
  /\ timer \in BOOLEAN /\ pump \in 0 .. MaxClients + 1 /\ moves \in 0 .. MaxMoves

(* What arrives, by its type. *)
LEMMA DownwardCases ==
  ASSUME NEW m \in Downward
  PROVE  /\ m.type \in {"frame", "opened", "exited"}
         /\ m.type = "frame" => /\ m.frame_id \in Nat /\ m.base \in Nat /\ m.size \in Sizes
                                /\ \A i \in DOMAIN m.cells : m.cells[i] \in Values
         /\ m.type = "opened" => m.id \in Nat /\ m.ok \in BOOLEAN
  BY DEF Downward

(* What is asked, by its type. *)
LEMMA UpwardCases ==
  ASSUME NEW m \in Upward
  PROVE  /\ m.type \in {"open", "resize", "detach", "snapshot", "ack"}
         /\ m.type = "open" => m.id \in Nat /\ m.size \in Sizes
         /\ m.type = "resize" => m.size \in Sizes
         /\ m.type = "ack" => m.frame_id \in Nat
  BY DEF Upward

(* A frame is applied to a replica of any size. *)
LEMMA AppliedType ==
  ASSUME NEW k \in ClientPane, NEW m \in Downward, m.type = "frame", Fits(k, m)
  PROVE  Applied(k, m) \in ClientPane
<1> DEFINE old == IF m.size = Len(k.cells) THEN k.cells ELSE Cleared(m.size)
           t == [i \in 1 .. m.size |-> IF i \in DOMAIN m.cells THEN m.cells[i] ELSE old[i]]
<1>1. /\ m.frame_id \in Nat /\ m.size \in Nat
      /\ \A i \in DOMAIN m.cells : m.cells[i] \in Values
  BY DownwardCases, DeliveryAssumption
<1>2. old \in Seq(Values) /\ Len(old) = m.size
  BY <1>1, ClearedRows DEF ClientPane
<1> HIDE DEF old
<1>3. \A i \in 1 .. m.size : old[i] \in Values
  BY <1>1, <1>2
<1>4. t \in Seq(Values)
  BY <1>1, <1>3
<1>5. Applied(k, m) = [k EXCEPT !.applied = m.frame_id, !.cells = t]
  BY DEF Applied, old
<1> HIDE DEF t
<1> QED
  BY <1>1, <1>4, <1>5 DEF ClientPane

(* Whatever a client reads, its replica keeps its shape. *)
LEMMA ReceivedType ==
  ASSUME NEW k \in ClientPane, NEW m \in Downward
  PROVE  Received(k, m) \in ClientPane
<1>1. Left(k) \in ClientPane
  BY DEF Left, ClientPane
<1>2. CASE m.type = "frame"
  <2>1. Received(k, m) = IF ~Applies(k, m) THEN k ELSE IF Fits(k, m) THEN Applied(k, m) ELSE Left(k)
    BY <1>2 DEF Received
  <2> QED
    BY <1>1, <1>2, <2>1, AppliedType
<1>3. CASE m.type = "opened"
  <2>1. Received(k, m) = IF m.id # k.awaiting THEN k ELSE [k EXCEPT !.awaiting = 0, !.attached = m.ok]
    BY <1>3 DEF Received
  <2>2. m.ok \in BOOLEAN
    BY <1>3, DownwardCases
  <2>3. ASSUME NEW b \in BOOLEAN
        PROVE  [k EXCEPT !.awaiting = 0, !.attached = b] \in ClientPane
    BY DEF ClientPane
  <2> QED
    BY <2>1, <2>2, <2>3
<1>4. CASE m.type = "exited"
  BY <1>1, <1>4 DEF Received
<1> QED
  BY <1>2, <1>3, <1>4, DownwardCases

(* A client answers with requests. *)
LEMMA ReplyType ==
  ASSUME NEW k \in ClientPane, NEW m \in Downward
  PROVE  Reply(k, m) \in Seq(Upward)
<1>1. [type |-> "snapshot"] \in Upward
  BY DEF Upward
<1>2. m.type = "frame" => [type |-> "ack", frame_id |-> m.frame_id] \in Upward
  BY DownwardCases DEF Upward
<1>3. CASE m.type # "frame" \/ ~k.attached
  BY <1>3 DEF Reply
<1>4. CASE m.type = "frame" /\ k.attached /\ ~Applies(k, m)
  BY <1>1, <1>4 DEF Reply
<1>5. CASE m.type = "frame" /\ k.attached /\ Applies(k, m)
  BY <1>2, <1>5 DEF Reply
<1> QED
  BY <1>3, <1>4, <1>5

(* What the clients do keeps everything in shape. *)
LEMMA ClientWire ==
  ASSUME Wire, NEW c \in Clients,
         Deliver(c) \/ DeliverFails(c) \/ AskOpen(c) \/ AskDetach(c) \/ AskResize(c)
  PROVE  Wire' /\ UNCHANGED <<pane, attachments>>
<1>1. clients[c] \in ClientPane /\ down[c] \in Seq(Downward) /\ up[c] \in Seq(Upward)
  BY DEF Wire
<1>2. moves' \in 0 .. MaxMoves
  BY DeliveryAssumption DEF Wire, Deliver, DeliverFails, AskOpen, AskDetach, AskResize, Move
<1>3. down' \in [Clients -> Seq(Downward)]
  <2>1. down[c] # <<>> => Tail(down[c]) \in Seq(Downward)
    BY <1>1
  <2> QED
    BY <2>1 DEF Wire, Deliver, DeliverFails, AskOpen, AskDetach, AskResize
<1>4. up' \in [Clients -> Seq(Upward)]
  <2>0. ASSUME NEW s \in Seq(Upward) PROVE [up EXCEPT ![c] = s] \in [Clients -> Seq(Upward)]
    BY DEF Wire
  <2>1. CASE Deliver(c)
    <3>1. Head(down[c]) \in Downward
      BY <1>1, <2>1 DEF Deliver
    <3>2. Reply(clients[c], Head(down[c])) \in Seq(Upward)
      BY <1>1, <3>1, ReplyType
    <3>3. up[c] \o Reply(clients[c], Head(down[c])) \in Seq(Upward)
      BY <1>1, <3>2
    <3> QED
      BY <2>0, <2>1, <3>3 DEF Deliver
  <2>2. ASSUME NEW m \in Upward PROVE Append(up[c], m) \in Seq(Upward)
    BY <1>1
  <2>3. CASE DeliverFails(c)
    <3>1. [type |-> "snapshot"] \in Upward
      BY DEF Upward
    <3>2. Append(up[c], [type |-> "snapshot"]) \in Seq(Upward)
      BY <2>2, <3>1
    <3> QED
      BY <2>0, <2>3, <3>2 DEF DeliverFails
  <2>4. CASE AskOpen(c)
    <3>1. clients[c].next_request \in Nat
      BY <1>1 DEF ClientPane
    <3>2. PICK n \in Sizes :
            up' = [up EXCEPT ![c] = Append(@, [type |-> "open", id |-> clients[c].next_request,
                                               size |-> n])]
      BY <2>4 DEF AskOpen
    <3>3. [type |-> "open", id |-> clients[c].next_request, size |-> n] \in Upward
      BY <3>1 DEF Upward
    <3>4. Append(up[c], [type |-> "open", id |-> clients[c].next_request, size |-> n]) \in Seq(Upward)
      BY <2>2, <3>3
    <3> QED
      BY <2>0, <3>2, <3>4
  <2>5. CASE AskDetach(c)
    <3>1. [type |-> "detach"] \in Upward
      BY DEF Upward
    <3>2. Append(up[c], [type |-> "detach"]) \in Seq(Upward)
      BY <2>2, <3>1
    <3> QED
      BY <2>0, <2>5, <3>2 DEF AskDetach
  <2>6. CASE AskResize(c)
    <3>1. PICK n \in Sizes : up' = [up EXCEPT ![c] = Append(@, [type |-> "resize", size |-> n])]
      BY <2>6 DEF AskResize
    <3>2. [type |-> "resize", size |-> n] \in Upward
      BY DEF Upward
    <3>3. Append(up[c], [type |-> "resize", size |-> n]) \in Seq(Upward)
      BY <2>2, <3>2
    <3> QED
      BY <2>0, <3>1, <3>3
  <2> QED
    BY <2>1, <2>3, <2>4, <2>5, <2>6
<1>5. clients' \in [Clients -> ClientPane]
  <2>0. ASSUME NEW k \in ClientPane PROVE [clients EXCEPT ![c] = k] \in [Clients -> ClientPane]
    BY DEF Wire
  <2>1. CASE Deliver(c)
    <3>1. Head(down[c]) \in Downward
      BY <1>1, <2>1 DEF Deliver
    <3>2. Received(clients[c], Head(down[c])) \in ClientPane
      BY <1>1, <3>1, ReceivedType
    <3> QED
      BY <2>0, <2>1, <3>2 DEF Deliver
  <2>2. CASE DeliverFails(c) \/ AskResize(c)
    BY <2>2 DEF DeliverFails, AskResize, Wire
  <2>3. CASE AskOpen(c)
    <3>0. ASSUME NEW q \in Nat, NEW r \in Nat
          PROVE  [clients[c] EXCEPT !.awaiting = q, !.next_request = r] \in ClientPane
      BY <1>1 DEF ClientPane
    <3>1. [clients[c] EXCEPT !.awaiting = clients[c].next_request, !.next_request = @ + 1] \in ClientPane
      <4>1. clients[c].next_request \in Nat /\ clients[c].next_request + 1 \in Nat
        BY <1>1 DEF ClientPane
      <4> QED
        BY <3>0, <4>1
    <3>2. clients' = [clients EXCEPT ![c] =
            [clients[c] EXCEPT !.awaiting = clients[c].next_request, !.next_request = @ + 1]]
      BY <1>1, <2>3 DEF AskOpen, ClientPane, Wire
    <3> QED
      BY <2>0, <3>1, <3>2
  <2>4. CASE AskDetach(c)
    <3>1. [clients[c] EXCEPT !.attached = FALSE, !.awaiting = 0] \in ClientPane
      BY <1>1 DEF ClientPane
    <3>2. clients' = [clients EXCEPT ![c] = [clients[c] EXCEPT !.attached = FALSE, !.awaiting = 0]]
      BY <1>1, <2>4 DEF AskDetach, ClientPane, Wire
    <3> QED
      BY <2>0, <3>1, <3>2
  <2> QED
    BY <2>1, <2>2, <2>3, <2>4
<1>6. UNCHANGED <<pane, attachments, lease, sessions, timer, pump>>
  BY DEF Deliver, DeliverFails, AskOpen, AskDetach, AskResize
<1> QED
  BY <1>2, <1>3, <1>4, <1>5, <1>6 DEF Wire

Answers == Seq([id : Nat, ok : BOOLEAN])

(* The edits of a session. *)
LEMMA SessionEdits ==
  ASSUME NEW x \in Session, NEW t \in Answers, NEW d \in BOOLEAN
  PROVE  /\ [x EXCEPT !.responses = t] \in Session
         /\ [x EXCEPT !.deadline = d] \in Session
         /\ [x EXCEPT !.send_pending = TRUE, !.detach = d, !.deadline = FALSE] \in Session
         /\ [x EXCEPT !.send_pending = FALSE, !.detach = FALSE] \in Session
         /\ [x EXCEPT !.responses = t, !.send_pending = TRUE, !.deadline = FALSE] \in Session
<1>1. Session = [responses : Answers, send_pending : BOOLEAN, detach : BOOLEAN, deadline : BOOLEAN]
  BY DEF Session, Answers
<1>2. [x EXCEPT !.responses = t] \in Session
  BY <1>1
<1>3. [x EXCEPT !.deadline = d] \in Session
  BY <1>1
<1>4. [x EXCEPT !.send_pending = TRUE, !.detach = d, !.deadline = FALSE] \in Session
  BY <1>1
<1>5. [x EXCEPT !.send_pending = FALSE, !.detach = FALSE] \in Session
  BY <1>1
<1>6. [x EXCEPT !.responses = t, !.send_pending = TRUE, !.deadline = FALSE] \in Session
  BY <1>1
<1> QED
  BY <1>2, <1>3, <1>4, <1>5, <1>6

(* One session is edited. *)
LEMMA SessionTypes ==
  ASSUME Wire, NEW c \in Clients
  PROVE  /\ \A r \in [id : Nat, ok : BOOLEAN] :
              [sessions EXCEPT ![c].responses = Append(@, r)] \in [Clients -> Session]
         /\ \A d \in BOOLEAN :
              /\ [sessions EXCEPT ![c].send_pending = TRUE, ![c].detach = d,
                                  ![c].deadline = FALSE] \in [Clients -> Session]
              /\ [sessions EXCEPT ![c].deadline = d] \in [Clients -> Session]
         /\ [sessions EXCEPT ![c].send_pending = FALSE, ![c].detach = FALSE] \in [Clients -> Session]
         /\ sessions[c].responses # <<>> =>
              [sessions EXCEPT ![c].responses = Tail(@), ![c].send_pending = TRUE,
                               ![c].deadline = FALSE] \in [Clients -> Session]
<1>1. /\ sessions \in [Clients -> Session] /\ sessions[c] \in Session
      /\ sessions[c].responses \in Answers
  BY DEF Wire, Session, Answers
<1>2. ASSUME NEW x \in Session PROVE [sessions EXCEPT ![c] = x] \in [Clients -> Session]
  BY <1>1
<1>3. <<>> \in Answers
  BY DEF Answers
<1>4. ASSUME NEW r \in [id : Nat, ok : BOOLEAN]
      PROVE  [sessions EXCEPT ![c].responses = Append(@, r)] \in [Clients -> Session]
  <2>1. Append(sessions[c].responses, r) \in Answers
    BY <1>1 DEF Answers
  <2>2. [sessions[c] EXCEPT !.responses = Append(sessions[c].responses, r)] \in Session
    BY <1>1, <2>1, SessionEdits
  <2> QED
    BY <1>2, <2>2
<1>5. ASSUME NEW d \in BOOLEAN
      PROVE  /\ [sessions EXCEPT ![c].send_pending = TRUE, ![c].detach = d, ![c].deadline = FALSE]
                  \in [Clients -> Session]
             /\ [sessions EXCEPT ![c].deadline = d] \in [Clients -> Session]
  <2>1. /\ [sessions[c] EXCEPT !.send_pending = TRUE, !.detach = d, !.deadline = FALSE] \in Session
        /\ [sessions[c] EXCEPT !.deadline = d] \in Session
    BY <1>1, <1>3, SessionEdits
  <2>2. [sessions EXCEPT ![c].send_pending = TRUE, ![c].detach = d, ![c].deadline = FALSE]
          = [sessions EXCEPT ![c] = [sessions[c] EXCEPT !.send_pending = TRUE, !.detach = d,
                                                        !.deadline = FALSE]]
    BY <1>1
  <2> QED
    BY <1>2, <2>1, <2>2
<1>6. [sessions EXCEPT ![c].send_pending = FALSE, ![c].detach = FALSE] \in [Clients -> Session]
  <2>1. [sessions[c] EXCEPT !.send_pending = FALSE, !.detach = FALSE] \in Session
    BY <1>1, <1>3, SessionEdits
  <2>2. [sessions EXCEPT ![c].send_pending = FALSE, ![c].detach = FALSE]
          = [sessions EXCEPT ![c] = [sessions[c] EXCEPT !.send_pending = FALSE, !.detach = FALSE]]
    BY <1>1
  <2> QED
    BY <1>2, <2>1, <2>2
<1>7. ASSUME sessions[c].responses # <<>>
      PROVE  [sessions EXCEPT ![c].responses = Tail(@), ![c].send_pending = TRUE,
                              ![c].deadline = FALSE] \in [Clients -> Session]
  <2>1. Tail(sessions[c].responses) \in Answers
    BY <1>1, <1>7 DEF Answers
  <2>2. [sessions[c] EXCEPT !.responses = Tail(sessions[c].responses), !.send_pending = TRUE,
                            !.deadline = FALSE] \in Session
    BY <1>1, <2>1, SessionEdits
  <2>3. [sessions EXCEPT ![c].responses = Tail(@), ![c].send_pending = TRUE, ![c].deadline = FALSE]
          = [sessions EXCEPT ![c] = [sessions[c] EXCEPT !.responses = Tail(sessions[c].responses),
                                                        !.send_pending = TRUE, !.deadline = FALSE]]
    BY <1>1
  <2> QED
    BY <1>2, <2>2, <2>3
<1> QED
  BY <1>4, <1>5, <1>6, <1>7

(* A request is taken from its stream and answered. *)
LEMMA ReceiveKeeps ==
  ASSUME Covered(pane, attachments), Wire, NEW c \in Clients, Receive(c)
  PROVE  Covered(pane', attachments') /\ Wire'
<1> DEFINE m == Head(up[c])
<1>1. up[c] \in Seq(Upward) /\ up[c] # <<>>
  BY DEF Receive, Wire
<1>2. m \in Upward /\ Tail(up[c]) \in Seq(Upward)
  BY <1>1
<1>3. up' \in [Clients -> Seq(Upward)]
  BY <1>2 DEF Receive, Wire
<1>4. /\ UNCHANGED <<clients, down, timer, moves>> /\ pump' = 1
      /\ pump' \in 0 .. MaxClients + 1
  BY DeliveryAssumption DEF Receive, Flush
<1>5. \/ m.type = "open" /\ Open(c, m)
      \/ m.type = "resize" /\ Resize(c, m)
      \/ m.type = "detach" /\ DetachPane(c)
      \/ m.type = "ack" /\ Acknowledge(c, m)
      \/ m.type = "snapshot" /\ RequestSnapshot(c)
  BY <1>2, UpwardCases DEF Receive
<1> HIDE DEF m
<1>6. Covered(pane', attachments') /\ lease' \in Clients \cup {Nobody}
      /\ sessions' \in [Clients -> Session]
  <2>1. CASE m.type = "open" /\ Open(c, m)
    <3>1. m.id \in Nat /\ m.size \in Sizes
      BY <1>2, <2>1, UpwardCases
    <3>2. lease' \in Clients \cup {Nobody}
      BY <2>1 DEF Open, LeaseAfterOffer, Wire
    <3>3. \A b \in BOOLEAN : [id |-> m.id, ok |-> b] \in [id : Nat, ok : BOOLEAN]
      BY <3>1
    <3>4. sessions' \in [Clients -> Session]
      <4>1. PICK b \in BOOLEAN :
              sessions' = [sessions EXCEPT ![c].responses = Append(@, [id |-> m.id, ok |-> b])]
        BY <2>1 DEF Open
      <4>2. [sessions EXCEPT ![c].responses = Append(@, [id |-> m.id, ok |-> b])]
              \in [Clients -> Session]
        BY <3>3, SessionTypes
      <4> QED
        BY <4>1, <4>2
    <3> QED
      BY <2>1, <3>1, <3>2, <3>4, OpenCovers
  <2>2. CASE m.type = "resize" /\ Resize(c, m)
    <3>1. m.size \in Sizes
      BY <1>2, <2>2, UpwardCases
    <3>2. lease' \in Clients \cup {Nobody} /\ sessions' = sessions
      BY <2>2 DEF Resize, LeaseAfterOffer, Wire
    <3> QED
      BY <2>2, <3>1, <3>2, ResizeRequestCovers DEF Wire
  <2>3. CASE m.type = "detach" /\ DetachPane(c)
    <3>1. lease' \in Clients \cup {Nobody} /\ sessions' = sessions
      BY <2>3 DEF DetachPane, Wire
    <3> QED
      BY <2>3, <3>1, RequestsCover DEF Wire
  <2>4. CASE m.type = "ack" /\ Acknowledge(c, m)
    <3>1. lease' = lease /\ sessions' = sessions
      BY <2>4 DEF Acknowledge
    <3>2. m.frame_id \in Nat
      BY <1>2, <2>4, UpwardCases
    <3> QED
      BY <2>4, <3>1, <3>2, RequestsCover DEF Wire
  <2>5. CASE m.type = "snapshot" /\ RequestSnapshot(c)
    <3>1. lease' = lease /\ sessions' = sessions
      BY <2>5 DEF RequestSnapshot
    <3> QED
      BY <2>5, <3>1, RequestsCover DEF Wire
  <2> QED
    BY <1>5, <2>1, <2>2, <2>3, <2>4, <2>5
<1> QED
  BY <1>3, <1>4, <1>6 DEF Wire

(* One message joins the stream to c, and the flush goes on. *)
LEMMA SendWire ==
  ASSUME Wire, NEW c \in Clients, pump = c, NEW m \in Downward, NEW d \in BOOLEAN, Send(c, m, d)
  PROVE  Wire'
<1>1. down' \in [Clients -> Seq(Downward)]
  <2>1. Append(down[c], m) \in Seq(Downward)
    BY DEF Wire
  <2> QED
    BY <2>1 DEF Send, Wire
<1>2. sessions' \in [Clients -> Session]
  BY SessionTypes DEF Send
<1>3. pump' \in 0 .. MaxClients + 1
  BY DeliveryAssumption DEF Send, Clients
<1> QED
  BY <1>1, <1>2, <1>3 DEF Send, Wire

(* The flush keeps everything in shape. *)
LEMMA PumpWire ==
  ASSUME Covered(pane, attachments), Wire, NEW c \in Clients,
         SendSnapshot(c) \/ SendPatch(c) \/ SendExit(c) \/ SendResponse(c) \/ SendNothing(c)
  PROVE  Wire'
<1>1. pump = c /\ pump + 1 \in 0 .. MaxClients + 1
  <2>1. pump = c
    BY DEF SendSnapshot, SendPatch, SendExit, SendResponse, SendNothing, Offered, Pumps
  <2> QED
    BY <2>1, DeliveryAssumption DEF Clients
<1>2. ASSUME Attached(c), NEW base \in Nat, NEW rows \in SUBSET DOMAIN pane.screen, NEW paced,
             SendFrame(c, base, rows, paced)
      PROVE  Wire'
  <2> DEFINE p == NowRendered
             f == attachments[c].next_frame_id
             t == [i \in rows |-> p.screen[i]]
             m == [type |-> "frame", frame_id |-> f, base |-> base, size |-> Len(p.screen),
                   cells |-> t]
  <2>1. /\ p.screen \in Seq(Values) /\ Len(p.screen) \in Sizes
        /\ DOMAIN pane.screen = 1 .. Len(p.screen)
    BY NowCovers DEF Covered, PaneOK, Pane
  <2>2. f \in Nat
    BY <1>2 DEF Attached, Covered, Attachables, Attachment
  <2>3. rows \in SUBSET Rows
    BY <2>1 DEF Rows
  <2>4. t \in [rows -> Values]
    BY <2>1
  <2>5. Send(c, m, FALSE)
    BY <1>2 DEF SendFrame
  <2>6. m \in Downward
    <3> HIDE DEF t, f, p
    <3>1. t \in UNION {[r -> Values] : r \in SUBSET Rows}
      BY <2>3, <2>4
    <3>2. Len(p.screen) \in Sizes
      BY <2>1
    <3> QED
      BY <2>2, <3>1, <3>2 DEF Downward
  <2> HIDE DEF m
  <2> QED
    BY <1>1, <2>5, <2>6, SendWire
<1>3. CASE SendSnapshot(c)
  BY <1>2, <1>3 DEF SendSnapshot, Offered
<1>4. CASE SendPatch(c)
  <2>1. Attached(c) /\ SameSize(attachments[c]) /\ ~attachments[c].snapshot_pending
    BY <1>4 DEF SendPatch, Offered, PatchDue, PatchWanted
  <2>2. Damage(attachments[c]) \in SUBSET DOMAIN pane.screen
    BY <2>1, DamageExact
  <2>3. attachments[c].acknowledged_frame_id \in Nat
    BY <2>1 DEF Attached, Covered, Attachables, Attachment
  <2> QED
    BY <1>2, <1>4, <2>1, <2>2, <2>3 DEF SendPatch
<1>5. CASE SendExit(c)
  <2>1. [type |-> "exited"] \in Downward
    BY DEF Downward
  <2> QED
    BY <1>1, <1>5, <2>1, SendWire DEF SendExit
<1>6. CASE SendResponse(c)
  <2> DEFINE r == Head(sessions[c].responses)
             m == [type |-> "opened", id |-> r.id, ok |-> r.ok]
  <2>1. r \in [id : Nat, ok : BOOLEAN]
    <3>1. sessions[c].responses \in Seq([id : Nat, ok : BOOLEAN]) /\ sessions[c].responses # <<>>
      BY <1>6 DEF SendResponse, Wire, Session
    <3>2. ASSUME NEW S, NEW q \in Seq(S), q # <<>> PROVE Head(q) \in S
      BY <3>2
    <3> QED
      BY <3>1, <3>2
  <2>2. m \in Downward
    BY <2>1 DEF Downward
  <2>3. Append(down[c], m) \in Seq(Downward)
    BY <2>2 DEF Wire
  <2>4. down' \in [Clients -> Seq(Downward)]
    BY <1>6, <2>3 DEF SendResponse, Wire
  <2>5. sessions' \in [Clients -> Session]
    BY <1>6, SessionTypes DEF SendResponse
  <2> QED
    BY <1>1, <1>6, <2>4, <2>5 DEF SendResponse, Wire
<1>7. CASE SendNothing(c)
  <2>1. Throttled(attachments[c]) \in BOOLEAN
    BY DEF Throttled, PatchWanted
  <2>2. sessions' \in [Clients -> Session]
    <3>1. PICK d \in BOOLEAN : sessions' = [sessions EXCEPT ![c].deadline = d]
      BY <1>7, <2>1 DEF SendNothing
    <3>2. [sessions EXCEPT ![c].deadline = d] \in [Clients -> Session]
      BY SessionTypes
    <3> QED
      BY <3>1, <3>2
  <2> QED
    BY <1>1, <1>7, <2>2 DEF SendNothing, Wire, clientSide
<1> QED
  BY <1>3, <1>4, <1>5, <1>6, <1>7

(* So does everything else. *)
LEMMA RestWire ==
  ASSUME Wire,
         \/ InlineOutput \/ StartIngest \/ FinishIngest \/ EndOutput \/ ChildExits
         \/ Settle \/ TimerDue \/ Tick \/ HoldExpires
         \/ \E c \in Clients : SendDone(c) \/ PaceElapses(c) \/ ObserveUnchanged(c)
  PROVE  Wire'
<1>1. UNCHANGED <<lease, clients, down, up>>
  BY DEF InlineOutput, StartIngest, FinishIngest, EndOutput, ChildExits, Settle, TimerDue, Tick,
         HoldExpires, SendDone, PaceElapses, ObserveUnchanged, clientSide
<1>2. pump' \in 0 .. MaxClients + 1
  <2>1. pump' \in {0, 1, pump}
    BY DEF InlineOutput, StartIngest, FinishIngest, EndOutput, ChildExits, Settle, TimerDue, Tick,
           HoldExpires, SendDone, PaceElapses, ObserveUnchanged, Flush
  <2> QED
    BY <2>1, DeliveryAssumption DEF Wire
<1>3. moves' \in 0 .. MaxMoves
  <2>1. Move \/ moves' = moves
    BY DEF InlineOutput, StartIngest, FinishIngest, EndOutput, ChildExits, Settle, TimerDue, Tick,
           HoldExpires, SendDone, PaceElapses, ObserveUnchanged
  <2> QED
    BY <2>1, DeliveryAssumption DEF Move, Wire
<1>4. timer' \in BOOLEAN
  BY DEF InlineOutput, StartIngest, FinishIngest, EndOutput, ChildExits, Settle, TimerDue, Tick,
         HoldExpires, SendDone, PaceElapses, ObserveUnchanged, Wire
<1>5. sessions' \in [Clients -> Session]
  <2>1. CASE \E c \in Clients : SendDone(c)
    <3>1. PICK c \in Clients :
            sessions' = [sessions EXCEPT ![c].send_pending = FALSE, ![c].detach = FALSE]
      BY <2>1 DEF SendDone
    <3> QED
      BY <3>1, SessionTypes
  <2>2. CASE ~\E c \in Clients : SendDone(c)
    BY <2>2 DEF InlineOutput, StartIngest, FinishIngest, EndOutput, ChildExits, Settle, TimerDue,
                Tick, HoldExpires, PaceElapses, ObserveUnchanged, Wire
  <2> QED
    BY <2>1, <2>2
<1> QED
  BY <1>1, <1>2, <1>3, <1>4, <1>5 DEF Wire

--------------------------------------------------------------------------------
(* The invariant and the theorems                                          *)

IInv == Covered(pane, attachments) /\ Wire

(* The pane is launched without an attachment. *)
LEMMA InitIInv == Init => IInv
<1> SUFFICES ASSUME Init PROVE IInv
  OBVIOUS
<1>1. FirstSize \in Nat /\ FirstSize \in Sizes
  BY DeliveryAssumption
<1>2. Cleared(FirstSize) \in Seq(Values) /\ Len(Cleared(FirstSize)) = FirstSize
  BY <1>1, ClearedRows
<1>3. PaneOK(pane)
  BY <1>1, <1>2 DEF Init, PaneOK, Pane
<1>4. attachments \in Attachables /\ \A c \in Clients : Kept(pane, attachments[c])
  BY DEF Init, Attachables, Kept
<1>5. Wire
  <2>1. [responses |-> <<>>, send_pending |-> FALSE, detach |-> FALSE, deadline |-> FALSE] \in Session
    BY DEF Session
  <2>2. [cells |-> <<>>, applied |-> 0, attached |-> FALSE, awaiting |-> 0,
         next_request |-> 1, gone |-> FALSE] \in ClientPane
    BY DEF ClientPane
  <2>0. pump = 0 /\ moves = 0
    BY DEF Init
  <2>3. pump \in 0 .. MaxClients + 1 /\ moves \in 0 .. MaxMoves
    BY <2>0, DeliveryAssumption
  <2>6. timer \in BOOLEAN
    BY DEF Init
  <2>4. sessions \in [Clients -> Session] /\ clients \in [Clients -> ClientPane]
    BY <2>1, <2>2 DEF Init
  <2>5. down \in [Clients -> Seq(Downward)] /\ up \in [Clients -> Seq(Upward)]
    BY DEF Init
  <2> QED
    BY <2>3, <2>4, <2>5, <2>6 DEF Init, Wire
<1> QED
  BY <1>3, <1>4, <1>5 DEF IInv, Covered

(* Every step keeps the invariant. *)
LEMMA NextIInv == IInv /\ [Next]_vars => IInv'
<1> SUFFICES ASSUME Covered(pane, attachments), Wire, [Next]_vars
             PROVE  Covered(pane', attachments') /\ Wire'
  BY DEF IInv
<1>1. CASE \/ InlineOutput \/ StartIngest \/ FinishIngest \/ EndOutput \/ ChildExits \/ HoldExpires
  BY <1>1, PaneEventsCover, RestWire
<1>2. CASE \E c \in Clients : Receive(c)
  BY <1>2, ReceiveKeeps
<1>3. CASE \E c \in Clients : SendDone(c) \/ PaceElapses(c)
  BY <1>3, RequestsCover, RestWire
<1>4. CASE \E c \in Clients : SendSnapshot(c) \/ SendPatch(c)
  BY <1>4, SendCellsCover, PumpWire
<1>5. CASE \E c \in Clients : ObserveUnchanged(c)
  BY <1>5, ObserveCovers, RestWire
<1>6. CASE \E c \in Clients : SendExit(c) \/ SendResponse(c) \/ SendNothing(c)
  BY <1>6, SendRestCovers, PumpWire
<1>7. CASE \E c \in Clients : Deliver(c) \/ DeliverFails(c) \/ AskOpen(c) \/ AskDetach(c) \/ AskResize(c)
  BY <1>7, ClientWire
<1>8. CASE Settle
  BY <1>8, SettleCovers, RestWire
<1>9. CASE TimerDue \/ Tick
  BY <1>9, RestWire DEF TimerDue, Tick
<1>10. CASE UNCHANGED vars
  BY <1>10 DEF vars, Wire
<1> QED
  BY <1>1, <1>2, <1>3, <1>4, <1>5, <1>6, <1>7, <1>8, <1>9, <1>10 DEF Next

(* The invariant holds throughout. *)
LEMMA DeliveryIInv == Spec => []IInv
  BY InitIInv, NextIInv, PTL DEF Spec

(* The records of Pane, CellSync, the sessions and the client replicas,    *)
(* and the messages between them, keep their shape, and the terminal, its  *)
(* screen and its damage keep one height, for any number of clients and    *)
(* any sizes.                                                              *)
THEOREM CellTypeCorrect == Spec => []TypeOK
<1>1. IInv => TypeOK
  BY DEF IInv, Covered, PaneOK, Attachables, Wire, TypeOK
<1> QED
  BY <1>1, DeliveryIInv, PTL

(* A row that settleDamage() forgot, or that no render marked, is a row    *)
(* that every attached client was already sent, however many clients       *)
(* share the pane, whatever their sizes and however they interleave.       *)
THEOREM CellDamageCovers == Spec => []DamageCovers
<1>1. IInv => DamageCovers
  <2> SUFFICES ASSUME Covered(pane, attachments), NEW c \in Clients, Attached(c),
                      ~attachments[c].snapshot_pending, SameSize(attachments[c]),
                      NEW i \in DOMAIN pane.screen \ pane.damaged_rows
               PROVE  pane.screen[i] = attachments[c].acknowledged[i]
    BY DEF IInv, DamageCovers
  <2>1. Clean(pane, attachments[c]) /\ DOMAIN pane.screen = 1 .. Len(pane.screen)
    BY DEF Covered, Kept, Attached, PaneOK, Pane
  <2> QED
    BY <2>1 DEF Clean, SameSize
<1> QED
  BY <1>1, DeliveryIInv, PTL

================================================================================
