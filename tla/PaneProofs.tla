------------------------------ MODULE PaneProofs ------------------------------
(***************************************************************************)
(* The safety of panes: the actors that borrow one, the read that is never *)
(* lost, the store's counters, tabs, and what collection destroys, for any *)
(* number of panes, clients, tabs and queue slots.                         *)
(***************************************************************************)
EXTENDS PaneLifecycle, FiniteSetTheorems, TLAPS

--------------------------------------------------------------------------------
(* One pane and the tasks in flight for it                                 *)

(* The flags are the tasks; a write in flight has something to write; a    *)
(* child that exited is not waited for.                                    *)
Borrowed(p, t) ==
  /\ p \in Pane /\ t \in SUBSET Kinds
  /\ FlagsMatch(p, t)
  /\ p.response_pending => p.responses # 0
  /\ p.input_write_len <= p.input
  /\ p.exit => ~p.wait_pending

(* ReadNeverLost for one pane. *)
Reads(p) ==
  /\ ~p.output_done => p.output_pending \/ p.ingest_pending \/ p.output_held
  /\ ~(p.output_pending /\ p.ingest_pending)
  /\ p.output_held => p.media_working /\ ~p.output_pending /\ ~p.ingest_pending
  /\ p.output_done => ~p.output_pending /\ ~p.ingest_pending /\ ~p.output_held

(* What is queued has an actor that will take it, unless a resize may fail *)
(* half done.                                                              *)
Observed(p) == p.history_pending => p.observing
Responded(p) == p.responses # 0 => p.response_pending \/ p.ingest_pending \/ p.media_working
Settled(p) == ResizeFailsLate \/ (Observed(p) /\ Responded(p))

(* The exit of a launched pane that is drained is queued for history. *)
ExitNoted(p) == p.launch = "running" /\ p.exit /\ p.output_done => p.history_exit_queued

Sound(p) == Reads(p) /\ Settled(p) /\ ExitNoted(p)

Outcome == [p : Pane, t : SUBSET Kinds, ok : BOOLEAN]

(* A start that made r of w: it may add an actor or fail, takes from the   *)
(* queues of the observers and leaves the rest of the pane alone.          *)
Extends(w, r) ==
  /\ r.ok => w.ok
  /\ r.p.tab = w.p.tab /\ r.p.launch = w.p.launch /\ r.p.close_requested = w.p.close_requested
  /\ r.p.exit = w.p.exit /\ r.p.output_pending = w.p.output_pending
  /\ r.p.ingest_pending = w.p.ingest_pending /\ r.p.output_held = w.p.output_held
  /\ r.p.output_done = w.p.output_done /\ r.p.history_exit_queued = w.p.history_exit_queued
  /\ r.p.observers = w.p.observers /\ r.p.responses = w.p.responses /\ r.p.input = w.p.input
  /\ w.p.observing => r.p.observing
  /\ w.p.media_working => r.p.media_working
  /\ w.p.response_pending => r.p.response_pending
  /\ r.p.history_pending => w.p.history_pending
  /\ w.t \subseteq r.t

Good(w) == w \in Outcome /\ Borrowed(w.p, w.t)

(* q is p but for the fields named. *)
SameBut(p, q, fields) ==
  /\ "tab" \notin fields => q.tab = p.tab
  /\ "launch" \notin fields => q.launch = p.launch
  /\ "close_requested" \notin fields => q.close_requested = p.close_requested
  /\ "exit" \notin fields => q.exit = p.exit
  /\ "wait_pending" \notin fields => q.wait_pending = p.wait_pending
  /\ "output_pending" \notin fields => q.output_pending = p.output_pending
  /\ "ingest_pending" \notin fields => q.ingest_pending = p.ingest_pending
  /\ "output_held" \notin fields => q.output_held = p.output_held
  /\ "output_done" \notin fields => q.output_done = p.output_done
  /\ "response_pending" \notin fields => q.response_pending = p.response_pending
  /\ "responses" \notin fields => q.responses = p.responses
  /\ "input_write_len" \notin fields => q.input_write_len = p.input_write_len
  /\ "input" \notin fields => q.input = p.input
  /\ "observing" \notin fields => q.observing = p.observing
  /\ "history_pending" \notin fields => q.history_pending = p.history_pending
  /\ "media_working" \notin fields => q.media_working = p.media_working
  /\ "media_pending" \notin fields => q.media_pending = p.media_pending
  /\ "history_exit_queued" \notin fields => q.history_exit_queued = p.history_exit_queued
  /\ "actor_count" \notin fields => q.actor_count = p.actor_count
  /\ "observers" \notin fields => q.observers = p.observers

(* Tasks are counted one by one. *)
LEMMA TaskCount ==
  ASSUME NEW t \in SUBSET Kinds
  PROVE  /\ Cardinality(t) \in 0 .. 7 /\ (Cardinality(t) = 0 => t = {})
         /\ \A kind \in Kinds \ t : Cardinality(t \cup {kind}) = Cardinality(t) + 1 /\ Cardinality(t) < 7
         /\ \A kind \in t : Cardinality(t \ {kind}) = Cardinality(t) - 1 /\ Cardinality(t) > 0
  <1>1. IsFiniteSet(Kinds) /\ Cardinality(Kinds) = 7
    <2>1. IsFiniteSet({}) /\ Cardinality({}) = 0
      BY FS_EmptySet
    <2>2. IsFiniteSet({"wait"}) /\ Cardinality({"wait"}) = 1
      BY FS_Singleton
    <2>3. IsFiniteSet({"wait", "read"}) /\ Cardinality({"wait", "read"}) = 2
      <3>1. {"wait", "read"} = {"wait"} \cup {"read"}
        OBVIOUS
      <3> QED
        BY <2>2, <3>1, FS_AddElement
    <2>4. IsFiniteSet({"wait", "read", "ingest"}) /\ Cardinality({"wait", "read", "ingest"}) = 3
      <3>1. {"wait", "read", "ingest"} = {"wait", "read"} \cup {"ingest"}
        OBVIOUS
      <3> QED
        BY <2>3, <3>1, FS_AddElement
    <2>5. IsFiniteSet({"wait", "read", "ingest", "respond"}) /\ Cardinality({"wait", "read", "ingest", "respond"}) = 4
      <3>1. {"wait", "read", "ingest", "respond"} = {"wait", "read", "ingest"} \cup {"respond"}
        OBVIOUS
      <3> QED
        BY <2>4, <3>1, FS_AddElement
    <2>6. IsFiniteSet({"wait", "read", "ingest", "respond", "input"}) /\ Cardinality({"wait", "read", "ingest", "respond", "input"}) = 5
      <3>1. {"wait", "read", "ingest", "respond", "input"} = {"wait", "read", "ingest", "respond"} \cup {"input"}
        OBVIOUS
      <3> QED
        BY <2>5, <3>1, FS_AddElement
    <2>7. /\ IsFiniteSet({"wait", "read", "ingest", "respond", "input", "observe"})
          /\ Cardinality({"wait", "read", "ingest", "respond", "input", "observe"}) = 6
      <3>1. {"wait", "read", "ingest", "respond", "input", "observe"}
              = {"wait", "read", "ingest", "respond", "input"} \cup {"observe"}
        OBVIOUS
      <3> QED
        BY <2>6, <3>1, FS_AddElement
    <2>8. Kinds = {"wait", "read", "ingest", "respond", "input", "observe"} \cup {"media"}
      BY DEF Kinds
    <2> QED
      BY <2>7, <2>8, FS_AddElement
  <1>2. IsFiniteSet(t) /\ Cardinality(t) <= 7 /\ Cardinality(t) \in Nat
    BY <1>1, FS_Subset, FS_CardinalityType
  <1>3. ASSUME NEW kind \in Kinds \ t
        PROVE  Cardinality(t \cup {kind}) = Cardinality(t) + 1 /\ Cardinality(t) < 7
    <2>1. Cardinality(t \cup {kind}) = Cardinality(t) + 1
      BY <1>2, <1>3, FS_AddElement
    <2>2. t \cup {kind} \subseteq Kinds
      BY <1>3
    <2>3. Cardinality(t \cup {kind}) <= 7
      BY <1>1, <2>2, FS_Subset
    <2> QED
      BY <1>2, <2>1, <2>3
  <1>4. ASSUME NEW kind \in t
        PROVE  Cardinality(t \ {kind}) = Cardinality(t) - 1 /\ Cardinality(t) > 0
    <2>1. Cardinality(t \ {kind}) = Cardinality(t) - 1
      BY <1>2, <1>4, FS_RemoveElement
    <2>2. Cardinality(t) # 0
      BY <1>2, <1>4, FS_EmptySet
    <2> QED
      BY <1>2, <2>1, <2>2
  <1>5. Cardinality(t) \in 0 .. 7 /\ (Cardinality(t) = 0 => t = {})
    BY <1>2, FS_EmptySet
  <1> QED
    BY <1>3, <1>4, <1>5

(* What a spawn that succeeds makes of the pane. *)
LEMMA SpawnedOutcome ==
  ASSUME NEW w, Good(w), NEW kind \in Kinds, kind \notin w.t, NEW begun \in Pane,
         begun.actor_count = w.p.actor_count, NEW r, r = Spawned(w, kind, begun)
  PROVE  /\ r \in Outcome /\ r.t = w.t \cup {kind} /\ r.ok = w.ok
         /\ SameBut(begun, r.p, {"actor_count"}) /\ r.p.actor_count = Cardinality(r.t)
  <1>0. w \in Outcome /\ w.t \in SUBSET Kinds /\ w.ok \in BOOLEAN /\ w.p.actor_count = Cardinality(w.t)
    BY DEF Good, Outcome, Borrowed, FlagsMatch
  <1> DEFINE q == [begun EXCEPT !.actor_count = @ + 1]
  <1>1. begun.actor_count + 1 \in 0 .. 8 /\ begun.actor_count + 1 = Cardinality(w.t \cup {kind})
    BY <1>0, TaskCount
  <1>2. q \in Pane
    BY <1>1 DEF Pane
  <1>3. SameBut(begun, q, {"actor_count"}) /\ q.actor_count = begun.actor_count + 1
    BY DEF SameBut, Pane
  <1>4. r = [p |-> q, t |-> w.t \cup {kind}, ok |-> w.ok]
    BY DEF Spawned
  <1> HIDE DEF q
  <1> QED
    BY <1>0, <1>1, <1>2, <1>3, <1>4 DEF Outcome

(* What one that fails makes of it. *)
LEMMA FailedOutcome ==
  ASSUME NEW w, Good(w), NEW q \in Pane, NEW r, r = [p |-> q, t |-> w.t, ok |-> FALSE]
  PROVE  r \in Outcome /\ r.p = q /\ r.t = w.t /\ r.ok = FALSE
  BY DEF Good, Outcome

(* r is what a handled completion of kind leaves of the pane q. *)
Ends(k, kind, q, r) ==
  /\ r \in Outcome /\ r.t = tasks[k] \ {kind} /\ r.ok = TRUE
  /\ SameBut(q, r.p, {"actor_count"}) /\ r.p.actor_count = Cardinality(r.t)

(* A handled completion is one borrow less. *)
LEMMA FinishedOutcome ==
  ASSUME NEW k \in Keys, NEW kind \in Kinds, kind \in tasks[k], Borrowed(panes[k], tasks[k]), NEW q \in Pane,
         q.actor_count = panes[k].actor_count, NEW r, r = Finished(k, kind, q)
  PROVE  Ends(k, kind, q, r)
  <1>0. tasks[k] \in SUBSET Kinds /\ panes[k].actor_count = Cardinality(tasks[k])
    BY DEF Borrowed, FlagsMatch
  <1> DEFINE z == [q EXCEPT !.actor_count = @ - 1]
  <1>1. q.actor_count - 1 \in 0 .. 8 /\ q.actor_count - 1 = Cardinality(tasks[k] \ {kind})
    BY <1>0, TaskCount
  <1>2. z \in Pane
    BY <1>1 DEF Pane
  <1>3. SameBut(q, z, {"actor_count"}) /\ z.actor_count = q.actor_count - 1
    BY DEF SameBut, Pane
  <1>4. r = [p |-> z, t |-> tasks[k] \ {kind}, ok |-> TRUE]
    BY DEF Finished
  <1> HIDE DEF z
  <1> QED
    BY <1>0, <1>1, <1>2, <1>3, <1>4 DEF Outcome, Ends

(* An outcome's pane may be replaced. *)
LEMMA WithOutcome ==
  ASSUME NEW w \in Outcome, NEW q \in Pane
  PROVE  With(w, q) \in Outcome /\ With(w, q).p = q /\ With(w, q).t = w.t /\ With(w, q).ok = w.ok
  BY DEF With, Outcome

(* beginHistoryObservation() leaves no batch without its actor. *)
LEMMA ObservationStarts ==
  ASSUME NEW w, Good(w), NEW r \in StartObservation(w)
  PROVE  /\ Good(r) /\ Extends(w, r) /\ Observed(r.p) /\ r.p.media_pending = w.p.media_pending
         /\ r.ok /\ w.p.history_pending => r.p.observing
  <1>0. w.p \in Pane /\ w.t \in SUBSET Kinds /\ w.ok \in BOOLEAN /\ w \in Outcome
    BY DEF Good, Outcome
  <1> DEFINE begun == [w.p EXCEPT !.observing = TRUE, !.history_pending = FALSE, !.recheck = FALSE]
             lost == [w.p EXCEPT !.history_pending = FALSE]
  <1>1. CASE r = w /\ (w.p.observing \/ ~w.p.history_pending)
    BY <1>1 DEF Extends, Observed
  <1>2. CASE r = Spawned(w, "observe", begun) /\ ~w.p.observing
    <2>1. "observe" \in Kinds /\ "observe" \notin w.t
      BY <1>2 DEF Good, Borrowed, FlagsMatch, Kinds
    <2>2. begun \in Pane
      BY <1>0 DEF Pane
    <2>3. SameBut(w.p, begun, {"observing", "history_pending"}) /\ begun.observing = TRUE /\ begun.history_pending = FALSE
      BY <1>0 DEF SameBut, Pane
    <2> HIDE DEF begun
    <2>4. begun.actor_count = w.p.actor_count
      BY <2>3 DEF SameBut
    <2>5. /\ r \in Outcome /\ r.t = w.t \cup {"observe"} /\ r.ok = w.ok
          /\ SameBut(begun, r.p, {"actor_count"}) /\ r.p.actor_count = Cardinality(r.t)
      BY <1>2, <2>1, <2>2, <2>4, SpawnedOutcome
    <2>6. Borrowed(r.p, r.t)
      BY <1>0, <1>2, <2>1, <2>3, <2>5 DEF SameBut, Borrowed, FlagsMatch, Good, Outcome
    <2> QED
      BY <1>0, <2>3, <2>5, <2>6 DEF SameBut, Good, Extends, Observed
  <1>3. CASE r = [p |-> lost, t |-> w.t, ok |-> FALSE]
    <2>1. lost \in Pane
      BY <1>0 DEF Pane
    <2>2. SameBut(w.p, lost, {"history_pending"}) /\ lost.history_pending = FALSE
      BY <1>0 DEF SameBut, Pane
    <2> HIDE DEF lost
    <2>3. r \in Outcome /\ r.p = lost /\ r.t = w.t /\ r.ok = FALSE
      BY <1>3, <2>1, FailedOutcome
    <2>4. Borrowed(r.p, r.t)
      BY <2>1, <2>2, <2>3 DEF SameBut, Borrowed, FlagsMatch, Good
    <2> QED
      BY <1>0, <2>2, <2>3, <2>4 DEF SameBut, Good, Extends, Observed
  <1> QED
    BY <1>1, <1>2, <1>3 DEF StartObservation, Spawn

(* beginMediaProcessing() starts the turn that is due, or has failed. *)
LEMMA MediaStarts ==
  ASSUME NEW w, Good(w), NEW r \in StartMedia(w)
  PROVE  Good(r) /\ Extends(w, r) /\ (r.ok /\ w.p.media_pending => r.p.media_working)
  <1>0. w.p \in Pane /\ w.t \in SUBSET Kinds /\ w.ok \in BOOLEAN /\ w \in Outcome
    BY DEF Good, Outcome
  <1> DEFINE begun == [w.p EXCEPT !.media_working = TRUE, !.media_pending = FALSE]
             lost == [w.p EXCEPT !.media_pending = FALSE]
  <1>1. CASE r = w /\ (w.p.media_working \/ ~w.p.media_pending)
    BY <1>1 DEF Extends, Good
  <1>2. CASE r = Spawned(w, "media", begun) /\ ~w.p.media_working
    <2>1. "media" \in Kinds /\ "media" \notin w.t
      BY <1>2 DEF Good, Borrowed, FlagsMatch, Kinds
    <2>2. begun \in Pane
      BY <1>0 DEF Pane
    <2>3. SameBut(w.p, begun, {"media_working", "media_pending"}) /\ begun.media_working = TRUE /\ begun.media_pending = FALSE
      BY <1>0 DEF SameBut, Pane
    <2> HIDE DEF begun
    <2>4. begun.actor_count = w.p.actor_count
      BY <2>3 DEF SameBut
    <2>5. /\ r \in Outcome /\ r.t = w.t \cup {"media"} /\ r.ok = w.ok
          /\ SameBut(begun, r.p, {"actor_count"}) /\ r.p.actor_count = Cardinality(r.t)
      BY <1>2, <2>1, <2>2, <2>4, SpawnedOutcome
    <2>6. Borrowed(r.p, r.t)
      BY <1>0, <1>2, <2>1, <2>3, <2>5 DEF SameBut, Borrowed, FlagsMatch, Good, Outcome
    <2> QED
      BY <1>0, <2>3, <2>5, <2>6 DEF SameBut, Good, Extends
  <1>3. CASE r = [p |-> lost, t |-> w.t, ok |-> FALSE]
    <2>1. lost \in Pane
      BY <1>0 DEF Pane
    <2>2. SameBut(w.p, lost, {"media_pending"}) /\ lost.media_pending = FALSE
      BY <1>0 DEF SameBut, Pane
    <2> HIDE DEF lost
    <2>3. r \in Outcome /\ r.p = lost /\ r.t = w.t /\ r.ok = FALSE
      BY <1>3, <2>1, FailedOutcome
    <2>4. Borrowed(r.p, r.t)
      BY <2>1, <2>2, <2>3 DEF SameBut, Borrowed, FlagsMatch, Good
    <2> QED
      BY <1>0, <2>2, <2>3, <2>4 DEF SameBut, Good, Extends
  <1> QED
    BY <1>1, <1>2, <1>3 DEF StartMedia, Spawn

(* A response that is queued is written, or the start has failed. *)
LEMMA ResponseStarts ==
  ASSUME NEW w, Good(w), NEW r \in StartResponseWrite(w)
  PROVE  Good(r) /\ Extends(w, r) /\ (r.ok => Responded(r.p))
  <1>0. w.p \in Pane /\ w.t \in SUBSET Kinds /\ w.ok \in BOOLEAN /\ w \in Outcome
    BY DEF Good, Outcome
  <1> DEFINE begun == [w.p EXCEPT !.response_pending = TRUE]
             lost == w.p
  <1>1. CASE r = w /\ (w.p.response_pending \/ w.p.responses = 0)
    BY <1>1 DEF Extends, Responded
  <1>2. CASE r = Spawned(w, "respond", begun) /\ ~w.p.response_pending /\ w.p.responses # 0
    <2>1. "respond" \in Kinds /\ "respond" \notin w.t
      BY <1>2 DEF Good, Borrowed, FlagsMatch, Kinds
    <2>2. begun \in Pane
      BY <1>0 DEF Pane
    <2>3. SameBut(w.p, begun, {"response_pending"}) /\ begun.response_pending = TRUE
      BY <1>0 DEF SameBut, Pane
    <2> HIDE DEF begun
    <2>4. begun.actor_count = w.p.actor_count
      BY <2>3 DEF SameBut
    <2>5. /\ r \in Outcome /\ r.t = w.t \cup {"respond"} /\ r.ok = w.ok
          /\ SameBut(begun, r.p, {"actor_count"}) /\ r.p.actor_count = Cardinality(r.t)
      BY <1>2, <2>1, <2>2, <2>4, SpawnedOutcome
    <2>6. Borrowed(r.p, r.t)
      BY <1>0, <1>2, <2>1, <2>3, <2>5 DEF SameBut, Borrowed, FlagsMatch, Good, Outcome
    <2> QED
      BY <1>0, <2>3, <2>5, <2>6 DEF SameBut, Good, Extends, Responded
  <1>3. CASE r = [p |-> lost, t |-> w.t, ok |-> FALSE]
    <2>1. lost \in Pane
      BY <1>0 DEF Pane
    <2>2. SameBut(w.p, lost, {})
      BY <1>0 DEF SameBut, Pane
    <2> HIDE DEF lost
    <2>3. r \in Outcome /\ r.p = lost /\ r.t = w.t /\ r.ok = FALSE
      BY <1>3, <2>1, FailedOutcome
    <2>4. Borrowed(r.p, r.t)
      BY <2>1, <2>2, <2>3 DEF SameBut, Borrowed, FlagsMatch, Good
    <2> QED
      BY <1>0, <2>2, <2>3, <2>4 DEF SameBut, Good, Extends, Responded
  <1> QED
    BY <1>1, <1>2, <1>3 DEF StartResponseWrite, Spawn

(* A write of input starts with part of what is queued. *)
LEMMA InputStarts ==
  ASSUME NEW w, Good(w), NEW r \in StartInputWrite(w)
  PROVE  Good(r) /\ Extends(w, r)
  <1>0. w.p \in Pane /\ w.t \in SUBSET Kinds /\ w.ok \in BOOLEAN /\ w \in Outcome
    BY DEF Good, Outcome
  <1>1. CASE r = w
    BY <1>1 DEF Extends
  <1>2. ASSUME w.p.input_write_len = 0, NEW n \in 1 .. w.p.input,
               r \in Spawn(w, "input", [w.p EXCEPT !.input_write_len = n], w.p)
        PROVE  Good(r) /\ Extends(w, r)
    <2> DEFINE begun == [w.p EXCEPT !.input_write_len = n]
    <2>0. "input" \in Kinds /\ "input" \notin w.t
      BY <1>2 DEF Good, Borrowed, FlagsMatch, Kinds
    <2>1. w.p.input \in 0 .. MaxInput /\ MaxInput \in Nat
      BY <1>0, PaneAssumption DEF Pane
    <2>2. n \in 0 .. MaxInput /\ n # 0 /\ n <= w.p.input
      BY <1>2, <2>1
    <2>3. begun \in Pane /\ SameBut(w.p, begun, {"input_write_len"}) /\ begun.input_write_len = n
      BY <1>0, <2>2 DEF SameBut, Pane
    <2> HIDE DEF begun
    <2>4. CASE r = Spawned(w, "input", begun)
      <3>1. begun.actor_count = w.p.actor_count
        BY <2>3 DEF SameBut
      <3>2. /\ r \in Outcome /\ r.t = w.t \cup {"input"} /\ r.ok = w.ok
            /\ SameBut(begun, r.p, {"actor_count"}) /\ r.p.actor_count = Cardinality(r.t)
        BY <2>0, <2>3, <2>4, <3>1, SpawnedOutcome
      <3>3. Borrowed(r.p, r.t)
        BY <1>0, <1>2, <2>0, <2>2, <2>3, <3>2 DEF SameBut, Borrowed, FlagsMatch, Good, Outcome
      <3> QED
        BY <1>0, <2>3, <3>2, <3>3 DEF SameBut, Good, Extends
    <2>5. CASE r = [p |-> w.p, t |-> w.t, ok |-> FALSE]
      BY <1>0, <2>5, FailedOutcome DEF Good, Extends
    <2> QED
      BY <1>2, <2>4, <2>5 DEF Spawn, begun
  <1> QED
    BY <1>1, <1>2 DEF StartInputWrite

(* A read starts, or the pane is as it was. *)
LEMMA ReadStarts ==
  ASSUME NEW w, Good(w), "read" \notin w.t, NEW r \in StartRead(w)
  PROVE  /\ Good(r)
         /\ \/ /\ r.t = w.t \cup {"read"} /\ r.ok = w.ok /\ r.p.output_pending = TRUE
               /\ SameBut(w.p, r.p, {"output_pending", "actor_count"})
            \/ r.p = w.p /\ r.t = w.t /\ r.ok = FALSE
  <1>0. w.p \in Pane /\ w.t \in SUBSET Kinds /\ w.ok \in BOOLEAN /\ w \in Outcome
    BY DEF Good, Outcome
  <1> DEFINE begun == [w.p EXCEPT !.output_pending = TRUE]
  <1>1. "read" \in Kinds
    BY DEF Kinds
  <1>2. begun \in Pane /\ SameBut(w.p, begun, {"output_pending"}) /\ begun.output_pending = TRUE
    BY <1>0 DEF SameBut, Pane
  <1> HIDE DEF begun
  <1>3. CASE r = Spawned(w, "read", begun)
    <2>1. begun.actor_count = w.p.actor_count
      BY <1>2 DEF SameBut
    <2>2. /\ r \in Outcome /\ r.t = w.t \cup {"read"} /\ r.ok = w.ok
          /\ SameBut(begun, r.p, {"actor_count"}) /\ r.p.actor_count = Cardinality(r.t)
      BY <1>1, <1>2, <1>3, <2>1, SpawnedOutcome
    <2>3. Borrowed(r.p, r.t)
      BY <1>0, <1>2, <2>2 DEF SameBut, Borrowed, FlagsMatch, Good, Outcome
    <2> QED
      BY <1>2, <2>2, <2>3 DEF SameBut, Good
  <1>4. CASE r = [p |-> w.p, t |-> w.t, ok |-> FALSE]
    BY <1>0, <1>4, FailedOutcome DEF Good
  <1> QED
    BY <1>3, <1>4 DEF StartRead, Spawn, begun

(* The VT ingests on an actor, or the pane is as it was. *)
LEMMA IngestStarts ==
  ASSUME NEW w, Good(w), "ingest" \notin w.t,
         NEW r \in Spawn(w, "ingest", [w.p EXCEPT !.ingest_pending = TRUE], w.p)
  PROVE  /\ Good(r)
         /\ \/ /\ r.t = w.t \cup {"ingest"} /\ r.ok = w.ok /\ r.p.ingest_pending = TRUE
               /\ SameBut(w.p, r.p, {"ingest_pending", "actor_count"})
            \/ r.p = w.p /\ r.t = w.t /\ r.ok = FALSE
  <1>0. w.p \in Pane /\ w.t \in SUBSET Kinds /\ w.ok \in BOOLEAN /\ w \in Outcome
    BY DEF Good, Outcome
  <1> DEFINE begun == [w.p EXCEPT !.ingest_pending = TRUE]
  <1>1. "ingest" \in Kinds
    BY DEF Kinds
  <1>2. begun \in Pane /\ SameBut(w.p, begun, {"ingest_pending"}) /\ begun.ingest_pending = TRUE
    BY <1>0 DEF SameBut, Pane
  <1> HIDE DEF begun
  <1>3. CASE r = Spawned(w, "ingest", begun)
    <2>1. begun.actor_count = w.p.actor_count
      BY <1>2 DEF SameBut
    <2>2. /\ r \in Outcome /\ r.t = w.t \cup {"ingest"} /\ r.ok = w.ok
          /\ SameBut(begun, r.p, {"actor_count"}) /\ r.p.actor_count = Cardinality(r.t)
      BY <1>1, <1>2, <1>3, <2>1, SpawnedOutcome
    <2>3. Borrowed(r.p, r.t)
      BY <1>0, <1>2, <2>2 DEF SameBut, Borrowed, FlagsMatch, Good, Outcome
    <2> QED
      BY <1>2, <2>2, <2>3 DEF SameBut, Good
  <1>4. CASE r = [p |-> w.p, t |-> w.t, ok |-> FALSE]
    BY <1>0, <1>4, FailedOutcome DEF Good
  <1> QED
    BY <1>3, <1>4 DEF Spawn, begun

(* What applyPendingResize() may change: it queues a response and fills    *)
(* both batches.                                                           *)
ResizeFields == {"responses", "history_pending", "media_pending"}

(* A terminal that is resized may answer its child. *)
LEMMA AnsweredPane ==
  ASSUME NEW p \in Pane, NEW q \in Answered(p)
  PROVE  q \in Pane /\ SameBut(p, q, {"responses"}) /\ (p.responses # 0 => q.responses # 0)
  <1>1. CASE q = p
    BY <1>1 DEF SameBut
  <1>2. CASE p.responses < MaxResponses /\ q = [p EXCEPT !.responses = @ + 1]
    <2>1. p.responses + 1 \in 0 .. MaxResponses /\ p.responses + 1 # 0
      BY <1>2, PaneAssumption DEF Pane
    <2> QED
      BY <1>2, <2>1 DEF SameBut, Pane
  <1> QED
    BY <1>1, <1>2 DEF Answered

(* The size is committed and both observers are to see it. *)
LEMMA ResizedPane ==
  ASSUME NEW p \in Pane
  PROVE  /\ Resized(p) \in Pane /\ SameBut(p, Resized(p), {"history_pending", "media_pending"})
         /\ Resized(p).history_pending = TRUE /\ Resized(p).media_pending = TRUE
  BY DEF Resized, SameBut, Pane

(* A resize that succeeds, and one that fails early or late. *)
LEMMA AppliedPane ==
  ASSUME NEW p \in Pane, NEW q \in ApplySucceeds(p) \cup ApplyFails(p)
  PROVE  /\ q \in Pane /\ SameBut(p, q, ResizeFields) /\ (p.responses # 0 => q.responses # 0)
         /\ q \in ApplySucceeds(p) /\ p.resize => q.media_pending = TRUE
         /\ q \in ApplyFails(p) /\ ~ResizeFailsLate => q = p
  <1>1. CASE q = p
    <2>1. q \in ApplySucceeds(p) => ~p.resize \/ q.media_pending = TRUE
      <3>1. ASSUME q \in Answered(Resized(p)) PROVE q.media_pending = TRUE
        BY <3>1, ResizedPane, AnsweredPane DEF SameBut
      <3> QED
        BY <3>1 DEF ApplySucceeds
    <2> QED
      BY <1>1, <2>1 DEF SameBut
  <1>2. CASE q \in Answered(Resized(p))
    <2>1. /\ Resized(p) \in Pane /\ SameBut(p, Resized(p), {"history_pending", "media_pending"})
          /\ Resized(p).media_pending = TRUE
      BY ResizedPane
    <2>2. q \in Pane /\ SameBut(Resized(p), q, {"responses"}) /\ (Resized(p).responses # 0 => q.responses # 0)
      BY <1>2, <2>1, AnsweredPane
    <2>3. SameBut(p, q, ResizeFields) /\ (p.responses # 0 => q.responses # 0) /\ q.media_pending = TRUE
      BY <2>1, <2>2 DEF SameBut, ResizeFields
    <2>4. q \in ApplyFails(p) /\ ~ResizeFailsLate => q = p
      BY DEF ApplyFails
    <2> QED
      BY <2>2, <2>3, <2>4
  <1>3. CASE q \in Answered(p) /\ ResizeFailsLate /\ q \notin Answered(Resized(p)) /\ q # p
    <2>1. q \in Pane /\ SameBut(p, q, {"responses"}) /\ (p.responses # 0 => q.responses # 0)
      BY <1>3, AnsweredPane
    <2>2. SameBut(p, q, ResizeFields)
      BY <2>1 DEF SameBut, ResizeFields
    <2> QED
      BY <1>3, <2>1, <2>2 DEF ApplySucceeds
  <1> QED
    BY <1>1, <1>2, <1>3 DEF ApplySucceeds, ApplyFails

(* The pane p became q within one update: the same pane of the same tab,   *)
(* closing if it was.                                                      *)
Becomes(p, q) ==
  /\ q.tab = p.tab /\ q.launch = p.launch /\ q.exit = p.exit
  /\ p.close_requested => q.close_requested
  /\ q.history_exit_queued = p.history_exit_queued

(* Starts follow one another. *)
LEMMA ExtendsTransitive ==
  ASSUME NEW w \in Outcome, NEW r \in Outcome, NEW z \in Outcome, Extends(w, r), Extends(r, z)
  PROVE  Extends(w, z)
  BY DEF Extends, Outcome

(* A start keeps what was settled. *)
LEMMA ExtendsKeeps ==
  ASSUME NEW w \in Outcome, NEW r \in Outcome, Extends(w, r)
  PROVE  /\ Reads(w.p) => Reads(r.p)
         /\ Observed(w.p) => Observed(r.p)
         /\ Responded(w.p) => Responded(r.p)
         /\ ExitNoted(w.p) => ExitNoted(r.p)
         /\ \A p \in Pane : Becomes(p, w.p) => Becomes(p, r.p)
  BY DEF Extends, Reads, Observed, Responded, ExitNoted, Becomes

(* Fields no actor's flag or count depends on. *)
LooseFields ==
  {"tab", "launch", "close_requested", "output_held", "output_done", "responses", "history_pending",
   "media_pending", "history_exit_queued", "observers"}

(* They may be replaced while actors run. *)
LEMMA ReplacedGood ==
  ASSUME NEW w, Good(w), NEW q \in Pane, SameBut(w.p, q, LooseFields),
         w.p.response_pending => q.responses # 0
  PROVE  Good(With(w, q)) /\ With(w, q).p = q /\ With(w, q).t = w.t /\ With(w, q).ok = w.ok
  <1>1. w \in Outcome
    BY DEF Good
  <1>2. With(w, q) \in Outcome /\ With(w, q).p = q /\ With(w, q).t = w.t /\ With(w, q).ok = w.ok
    BY <1>1, WithOutcome
  <1>3. Borrowed(q, w.t)
    BY DEF SameBut, LooseFields, Good, Borrowed, FlagsMatch
  <1> QED
    BY <1>2, <1>3 DEF Good

(* A pane whose output goes on and that nobody reads. *)
Unread(p) == ~p.output_done /\ ~p.output_pending /\ ~p.ingest_pending /\ ~p.output_held

(* finishIngest() arms the read, holds it behind a running media turn, or  *)
(* has failed.                                                             *)
LEMMA RearmedPane ==
  ASSUME NEW w, Good(w), Unread(w.p), NEW r \in Rearmed(w)
  PROVE  /\ Good(r) /\ SameBut(w.p, r.p, {"output_pending", "output_held", "actor_count"})
         /\ "read" \in r.t \/ r.p.output_held => Reads(r.p)
         /\ "read" \notin r.t /\ ~r.p.output_held => ~r.ok
  <1>0. w.p \in Pane /\ w \in Outcome /\ "read" \notin w.t
    BY DEF Good, Outcome, Unread, Borrowed, FlagsMatch
  <1>1. CASE w.p.media_working /\ r = With(w, [w.p EXCEPT !.output_held = TRUE])
    <2> DEFINE q == [w.p EXCEPT !.output_held = TRUE]
    <2>1. q \in Pane /\ SameBut(w.p, q, {"output_held"}) /\ q.output_held = TRUE
      BY <1>0 DEF Pane, SameBut
    <2> HIDE DEF q
    <2>2. SameBut(w.p, q, LooseFields) /\ (w.p.response_pending => q.responses # 0)
      BY <2>1 DEF SameBut, LooseFields, Good, Borrowed
    <2>3. Good(r) /\ r.p = q
      BY <1>1, <2>1, <2>2, ReplacedGood DEF q
    <2> QED
      BY <1>1, <2>1, <2>3 DEF SameBut, Reads, Unread
  <1>2. CASE r \in StartRead(w)
    <2>1. /\ Good(r)
          /\ \/ /\ r.t = w.t \cup {"read"} /\ r.ok = w.ok /\ r.p.output_pending = TRUE
                /\ SameBut(w.p, r.p, {"output_pending", "actor_count"})
             \/ r.p = w.p /\ r.t = w.t /\ r.ok = FALSE
      BY <1>0, <1>2, ReadStarts
    <2> QED
      BY <1>0, <2>1 DEF SameBut, Reads, Unread
  <1> QED
    BY <1>1, <1>2 DEF Rearmed

(* What finishIngest() and an inline ingest leave: the read is taken care  *)
(* of and what was queued has its actor, unless the update fails.          *)
LEMMA AfterIngestPane ==
  ASSUME NEW w, Good(w), Unread(w.p), NEW r \in AfterIngest(w)
  PROVE  /\ Good(r) /\ Becomes(w.p, r.p) /\ r.p.output_done = FALSE
         /\ r.ok => Reads(r.p) /\ Observed(r.p) /\ Responded(r.p)
  <1>0. w.p \in Pane /\ w \in Outcome
    BY DEF Good, Outcome
  <1>1. PICK q \in ApplySucceeds(w.p) \cup {RequestClose(x) : x \in ApplyFails(w.p)} :
          \E a \in Rearmed(With(w, q)) :
            r \in IF "read" \notin a.t /\ ~a.p.output_held THEN {a}
                  ELSE UNION {UNION {StartResponseWrite(m) : m \in StartMedia(o)} : o \in StartObservation(a)}
    BY DEF AfterIngest
  <1>2. q \in Pane /\ SameBut(w.p, q, ResizeFields \cup {"close_requested"})
        /\ (w.p.responses # 0 => q.responses # 0) /\ (w.p.close_requested => q.close_requested)
    <2>1. CASE q \in ApplySucceeds(w.p)
      <3>1. q \in Pane /\ SameBut(w.p, q, ResizeFields) /\ (w.p.responses # 0 => q.responses # 0)
        BY <1>0, <2>1, AppliedPane
      <3> QED
        BY <3>1 DEF SameBut, ResizeFields
    <2>2. ASSUME NEW x \in ApplyFails(w.p), q = RequestClose(x)
          PROVE  q \in Pane /\ SameBut(w.p, q, ResizeFields \cup {"close_requested"})
                 /\ (w.p.responses # 0 => q.responses # 0) /\ (w.p.close_requested => q.close_requested)
      <3>1. x \in Pane /\ SameBut(w.p, x, ResizeFields) /\ (w.p.responses # 0 => x.responses # 0)
        BY <1>0, <2>2, AppliedPane
      <3>2. q \in Pane /\ SameBut(x, q, {"close_requested"}) /\ q.close_requested = TRUE
        BY <2>2, <3>1 DEF RequestClose, SameBut, Pane
      <3> QED
        BY <3>1, <3>2 DEF SameBut, ResizeFields
    <2> QED
      BY <2>1, <2>2
  <1>3. SameBut(w.p, q, LooseFields) /\ (w.p.response_pending => q.responses # 0)
    BY <1>2 DEF SameBut, LooseFields, ResizeFields, Good, Borrowed
  <1>4. Good(With(w, q)) /\ With(w, q).p = q
    BY <1>2, <1>3, ReplacedGood
  <1>5. Unread(q) /\ Becomes(w.p, q)
    BY <1>2 DEF SameBut, ResizeFields, Unread, Becomes
  <1>6. PICK a \in Rearmed(With(w, q)) :
          r \in IF "read" \notin a.t /\ ~a.p.output_held THEN {a}
                ELSE UNION {UNION {StartResponseWrite(m) : m \in StartMedia(o)} : o \in StartObservation(a)}
    BY <1>1
  <1>7. /\ Good(a) /\ SameBut(q, a.p, {"output_pending", "output_held", "actor_count"})
        /\ "read" \in a.t \/ a.p.output_held => Reads(a.p)
        /\ "read" \notin a.t /\ ~a.p.output_held => ~a.ok
    BY <1>4, <1>5, <1>6, RearmedPane
  <1>8. Becomes(w.p, a.p) /\ a.p.output_done = FALSE
    BY <1>0, <1>2, <1>5, <1>7 DEF SameBut, ResizeFields, Becomes, Unread, Pane
  <1>9. CASE r = a /\ "read" \notin a.t /\ ~a.p.output_held
    BY <1>7, <1>8, <1>9
  <1>10. ASSUME "read" \in a.t \/ a.p.output_held,
                NEW o \in StartObservation(a), NEW m \in StartMedia(o), r \in StartResponseWrite(m)
         PROVE  /\ Good(r) /\ Becomes(w.p, r.p) /\ r.p.output_done = FALSE
                /\ r.ok => Reads(r.p) /\ Observed(r.p) /\ Responded(r.p)
    <2>1. Good(o) /\ Extends(a, o) /\ Observed(o.p)
      BY <1>7, <1>10, ObservationStarts
    <2>2. Good(m) /\ Extends(o, m)
      BY <1>10, <2>1, MediaStarts
    <2>3. Good(r) /\ Extends(m, r) /\ (r.ok => Responded(r.p))
      BY <1>10, <2>2, ResponseStarts
    <2>4. a \in Outcome /\ o \in Outcome /\ m \in Outcome /\ r \in Outcome
      BY <1>7, <2>1, <2>2, <2>3 DEF Good
    <2>5. Extends(o, r)
      BY <2>2, <2>3, <2>4, ExtendsTransitive
    <2>6. Extends(a, r)
      BY <2>1, <2>4, <2>5, ExtendsTransitive
    <2>7. Reads(r.p) /\ Becomes(w.p, r.p)
      BY <1>0, <1>7, <1>8, <1>10, <2>4, <2>6, ExtendsKeeps
    <2>8. Observed(r.p)
      BY <2>1, <2>4, <2>5, ExtendsKeeps
    <2>9. r.p.output_done = FALSE
      BY <1>8, <2>6 DEF Extends
    <2> QED
      BY <2>3, <2>7, <2>8, <2>9
  <1>11. CASE ~("read" \notin a.t /\ ~a.p.output_held)
    <2>1. PICK o \in StartObservation(a) : r \in UNION {StartResponseWrite(m) : m \in StartMedia(o)}
      BY <1>6, <1>11
    <2>2. PICK m \in StartMedia(o) : r \in StartResponseWrite(m)
      BY <2>1
    <2> QED
      BY <1>10, <1>11, <2>2
  <1> QED
    BY <1>6, <1>9, <1>11

(* finishMedia() takes a held read up again, or the update fails. *)
LEMMA ResumedPane ==
  ASSUME NEW w, Good(w), w.p.output_held => "read" \notin w.t, NEW r \in ResumeRead(w)
  PROVE  /\ Good(r) /\ SameBut(w.p, r.p, {"output_pending", "output_held", "actor_count"})
         /\ \/ r = w /\ ~w.p.output_held
            \/ w.p.output_held /\ r.ok = w.ok /\ r.p.output_pending = TRUE /\ r.p.output_held = FALSE
            \/ r.ok = FALSE
  <1>0. w.p \in Pane /\ w \in Outcome
    BY DEF Good, Outcome
  <1>1. CASE r = w /\ ~w.p.output_held
    BY <1>1 DEF SameBut
  <1>2. CASE w.p.output_held /\ \E s \in StartRead(With(w, [w.p EXCEPT !.output_held = FALSE])) :
                                  r = IF "read" \in s.t THEN s ELSE With(s, w.p)
    <2> DEFINE q == [w.p EXCEPT !.output_held = FALSE]
               v == With(w, q)
    <2>1. PICK s \in StartRead(v) : r = IF "read" \in s.t THEN s ELSE With(s, w.p)
      BY <1>2
    <2>2. q \in Pane /\ SameBut(w.p, q, {"output_held"}) /\ q.output_held = FALSE
      BY <1>0 DEF Pane, SameBut
    <2> HIDE DEF q
    <2>3. SameBut(w.p, q, LooseFields) /\ (w.p.response_pending => q.responses # 0)
      BY <2>2 DEF SameBut, LooseFields, Good, Borrowed
    <2>4. Good(v) /\ v.p = q /\ v.t = w.t /\ v.ok = w.ok
      BY <2>2, <2>3, ReplacedGood
    <2> HIDE DEF v
    <2>5. /\ Good(s)
          /\ \/ /\ s.t = v.t \cup {"read"} /\ s.ok = v.ok /\ s.p.output_pending = TRUE
                /\ SameBut(v.p, s.p, {"output_pending", "actor_count"})
             \/ s.p = v.p /\ s.t = v.t /\ s.ok = FALSE
      BY <1>2, <2>1, <2>4, ReadStarts
    <2>6. CASE "read" \in s.t
      BY <1>2, <2>1, <2>2, <2>4, <2>5, <2>6 DEF SameBut
    <2>7. CASE "read" \notin s.t
      <3>1. s.p = q /\ s.t = w.t /\ s.ok = FALSE /\ r = With(s, w.p) /\ s \in Outcome
        BY <2>1, <2>4, <2>5, <2>7 DEF Good
      <3>2. r \in Outcome /\ r.p = w.p /\ r.t = w.t /\ r.ok = FALSE
        BY <1>0, <3>1, WithOutcome
      <3> QED
        BY <3>2 DEF Good, SameBut
    <2> QED
      BY <2>6, <2>7
  <1> QED
    BY <1>1, <1>2 DEF ResumeRead

--------------------------------------------------------------------------------
(* The store                                                               *)

Exited(f) == {k \in Live(f) : f[k].exit}

(* Panes f with tasks t, the counters n and e, tabs ts, and the next       *)
(* identities of a pane and a tab.                                         *)
StoreOK(f, t, n, e, ts, nk, nt) ==
  /\ f \in [Keys -> Pane \cup {NoPane}] /\ t \in [Keys -> SUBSET Kinds]
  /\ \A k \in Keys : f[k] = NoPane => t[k] = {}
  /\ nk \in 1 .. MaxKey + 1 /\ \A k \in Keys : k >= nk => f[k] = NoPane
  /\ n = Cardinality(Live(f)) /\ n <= Capacity /\ e = Cardinality(Exited(f))
  /\ ts \subseteq TabIds /\ nt \in 1 .. MaxTab + 1 /\ \A tab \in ts : tab < nt

(* TabsHeld for panes f and tabs ts. *)
TabsOK(f, ts) ==
  /\ \A tab \in ts : \E k \in Live(f) : f[k].tab = tab
  /\ \A k \in Live(f) : f[k].tab \notin ts => f[k].close_requested \/ f[k].exit

BorrowsOK(f, t) == \A k \in Live(f) : Borrowed(f[k], t[k])

(* The inductive invariant: the store in every phase, the actors and tabs  *)
(* until they are joined, and what an update owes while the loop runs.     *)
PaneInv ==
  /\ StoreOK(panes, tasks, count, exited_count, tabs, next_key, next_tab)
  /\ phase \in {"running", "failed", "stopped", "joined", "released"}
  /\ phase \in {"running", "failed", "stopped"} => BorrowsOK(panes, tasks) /\ TabsOK(panes, tabs)
  /\ phase = "running" => \A k \in Live(panes) : Sound(panes[k])
  /\ ResizeFailsLate \/ CollectedWhenFree
  /\ phase \in {"joined", "released"} => \A k \in Keys : tasks[k] = {}

(* A pane in the store is a pane. *)
LEMMA LivePane ==
  ASSUME NEW f \in [Keys -> Pane \cup {NoPane}], NEW k \in Keys
  PROVE  (k \in Live(f) <=> f[k] \in Pane) /\ (k \in Live(f) <=> f[k] # NoPane)
  BY PaneAssumption DEF Live

(* The store holds finitely many panes. *)
LEMMA LiveFinite ==
  ASSUME NEW f, NEW S \in SUBSET Live(f)
  PROVE  IsFiniteSet(S) /\ Cardinality(S) \in Nat
  <1>1. IsFiniteSet(Keys)
    BY PaneAssumption, FS_Interval DEF Keys
  <1>2. S \subseteq Keys
    BY DEF Live
  <1> QED
    BY <1>1, <1>2, FS_Subset, FS_CardinalityType

(* The media turn a flush starts on a pane. *)
LEMMA MediaTurn ==
  ASSUME NEW p, NEW t, Borrowed(p, t), p.media_pending, ~p.media_working
  PROVE  LET q == [p EXCEPT !.media_working = TRUE, !.media_pending = FALSE, !.actor_count = @ + 1]
             l == [p EXCEPT !.media_pending = FALSE]
         IN /\ Borrowed(q, t \cup {"media"}) /\ Borrowed(l, t)
            /\ SameBut(p, q, {"media_working", "media_pending", "actor_count"})
            /\ q.media_working = TRUE /\ SameBut(p, l, {"media_pending"})
  <1> DEFINE q == [p EXCEPT !.media_working = TRUE, !.media_pending = FALSE, !.actor_count = @ + 1]
             l == [p EXCEPT !.media_pending = FALSE]
  <1>0. p \in Pane /\ t \in SUBSET Kinds
    BY DEF Borrowed
  <1>1. "media" \in Kinds \ t
    BY DEF Borrowed, FlagsMatch, Kinds
  <1>2. p.actor_count + 1 \in 0 .. 8 /\ p.actor_count + 1 = Cardinality(t \cup {"media"})
    BY <1>0, <1>1, TaskCount DEF Borrowed, FlagsMatch
  <1>3. q \in Pane /\ l \in Pane
    BY <1>0, <1>2 DEF Pane
  <1>4. /\ SameBut(p, q, {"media_working", "media_pending", "actor_count"}) /\ SameBut(p, l, {"media_pending"})
        /\ q.media_working = TRUE /\ q.actor_count = p.actor_count + 1
    BY <1>0 DEF SameBut, Pane
  <1> HIDE DEF q, l
  <1>5. Borrowed(q, t \cup {"media"})
    BY <1>1, <1>2, <1>3, <1>4 DEF SameBut, Borrowed, FlagsMatch
  <1>6. Borrowed(l, t)
    BY <1>3, <1>4 DEF SameBut, Borrowed, FlagsMatch
  <1> QED
    BY <1>4, <1>5, <1>6 DEF q, l

(* flush() keeps the invariant of what the handler left, and leaves no     *)
(* exited pane that nothing borrows.                                       *)
LEMMA FlushKeeps ==
  ASSUME NEW f, NEW t, NEW n, NEW e, NEW ts,
         StoreOK(f, t, n, e, ts, next_key', next_tab'), BorrowsOK(f, t), TabsOK(f, ts),
         \A k \in Live(f) : Sound(f[k]), Flush(f, t, n, e, ts)
  PROVE  PaneInv'
  <1> DEFINE dead == Collectable(f, e)
             due == {k \in Live(f) \ dead : f[k].media_pending /\ ~f[k].media_working}
             turn(k) == [f[k] EXCEPT !.media_working = TRUE, !.media_pending = FALSE, !.actor_count = @ + 1]
             lost(k) == [f[k] EXCEPT !.media_pending = FALSE]
  <1>1. PICK failed \in SUBSET due :
          /\ panes' = [k \in Keys |-> IF k \in dead THEN NoPane ELSE IF k \in failed THEN lost(k)
                                      ELSE IF k \in due THEN turn(k) ELSE f[k]]
          /\ tasks' = [k \in Keys |-> IF k \in due \ failed THEN t[k] \cup {"media"} ELSE t[k]]
          /\ tabs' = {tab \in ts : (\E k \in dead : f[k].tab = tab) => ~(At(f, tab) \subseteq dead)}
          /\ exited_count' = e - Cardinality(dead)
          /\ count' = n - Cardinality(dead)
          /\ phase' = IF failed = {} THEN "running" ELSE "failed"
    BY DEF Flush
  <1>2. /\ dead \subseteq Live(f) /\ \A k \in dead : ReadyToDestroy(f[k]) /\ f[k].observers = {}
        /\ Live(f) \subseteq Keys /\ due \subseteq Live(f) \ dead
    BY DEF Collectable, Live
  <1>3. \A k \in due : f[k].media_pending /\ ~f[k].media_working
    OBVIOUS
  <1>4. f \in [Keys -> Pane \cup {NoPane}] /\ t \in [Keys -> SUBSET Kinds]
    BY DEF StoreOK
  <1>5. \A k \in Live(f) \ dead : ReadyToDestroy(f[k]) /\ f[k].observers = {} => e = 0
    BY DEF Collectable
  <1>6. \A k \in Live(f) \ dead : f[k].media_pending /\ ~f[k].media_working => k \in due
    OBVIOUS
  <1> HIDE DEF dead, due
  <1>7. ASSUME NEW k \in Live(f) \ dead
        PROVE  /\ panes'[k] \in Pane /\ Borrowed(panes'[k], tasks'[k])
               /\ SameBut(f[k], panes'[k], {"media_working", "media_pending", "actor_count"})
               /\ f[k].media_working => panes'[k].media_working
               /\ t[k] \subseteq tasks'[k]
    <2>1. Borrowed(f[k], t[k]) /\ k \in Keys /\ f[k] \in Pane
      BY <1>2, <1>4, LivePane DEF BorrowsOK
    <2>2. CASE k \in failed
      <3>1. panes'[k] = lost(k) /\ tasks'[k] = t[k]
        BY <1>1, <2>1, <2>2
      <3>2. Borrowed(lost(k), t[k]) /\ SameBut(f[k], lost(k), {"media_pending"})
        BY <1>3, <2>1, <2>2, MediaTurn
      <3> HIDE DEF lost
      <3> QED
        BY <3>1, <3>2 DEF SameBut, Borrowed
    <2>3. CASE k \in due \ failed
      <3>1. panes'[k] = turn(k) /\ tasks'[k] = t[k] \cup {"media"}
        BY <1>1, <2>1, <2>3
      <3>2. /\ Borrowed(turn(k), t[k] \cup {"media"}) /\ turn(k).media_working = TRUE
            /\ SameBut(f[k], turn(k), {"media_working", "media_pending", "actor_count"})
        BY <1>3, <2>1, <2>3, MediaTurn
      <3> HIDE DEF turn
      <3> QED
        BY <3>1, <3>2 DEF Borrowed
    <2>4. CASE k \notin due
      <3>1. panes'[k] = f[k] /\ tasks'[k] = t[k]
        BY <1>1, <2>1, <2>4
      <3> QED
        BY <2>1, <3>1 DEF SameBut
    <2> QED
      BY <2>2, <2>3, <2>4
  <1>8. ASSUME NEW k \in Keys, k \notin Live(f) \ dead
        PROVE  panes'[k] = NoPane /\ tasks'[k] = {}
    <2>1. CASE k \in dead
      <3>1. Borrowed(f[k], t[k]) /\ f[k].actor_count = 0
        BY <1>2, <2>1 DEF BorrowsOK, ReadyToDestroy
      <3>2. Cardinality(t[k]) = 0 /\ t[k] \in SUBSET Kinds
        BY <3>1 DEF Borrowed, FlagsMatch
      <3>3. t[k] = {}
        BY <3>2, TaskCount
      <3> QED
        BY <1>1, <1>2, <2>1, <3>3
    <2>2. CASE k \notin Live(f)
      <3>1. f[k] = NoPane /\ t[k] = {}
        BY <2>2 DEF Live, StoreOK
      <3> QED
        BY <1>1, <1>2, <2>2, <3>1
    <2> QED
      BY <1>8, <2>1, <2>2
  <1>9. panes' \in [Keys -> Pane \cup {NoPane}] /\ tasks' \in [Keys -> SUBSET Kinds]
    <2>1. \A k \in Keys : panes'[k] \in Pane \cup {NoPane} /\ tasks'[k] \in SUBSET Kinds
      BY <1>7, <1>8 DEF Borrowed
    <2>2. DOMAIN panes' = Keys /\ DOMAIN tasks' = Keys /\ panes' = [k \in Keys |-> panes'[k]] /\ tasks' = [k \in Keys |-> tasks'[k]]
      BY <1>1
    <2> QED
      BY <2>1, <2>2
  <1>10. Live(panes') = Live(f) \ dead
    <2>1. \A k \in Keys : k \in Live(panes') <=> panes'[k] # NoPane
      BY DEF Live
    <2>2. \A k \in Live(f) \ dead : panes'[k] # NoPane
      BY <1>7, PaneAssumption
    <2> QED
      BY <1>2, <1>8, <2>1, <2>2 DEF Live
  <1>11. Exited(panes') = Exited(f) \ dead /\ dead \subseteq Exited(f)
    <2>1. \A k \in Live(f) \ dead : panes'[k].exit = f[k].exit
      BY <1>7 DEF SameBut
    <2> QED
      BY <1>2, <1>10, <2>1 DEF Exited, ReadyToDestroy
  <1>12. /\ count' = Cardinality(Live(panes')) /\ count' <= Capacity
         /\ exited_count' = Cardinality(Exited(panes'))
    <2>1. IsFiniteSet(Live(f)) /\ IsFiniteSet(Exited(f)) /\ Exited(f) \subseteq Live(f)
      BY LiveFinite DEF Exited
    <2>2. Live(f) \cap dead = dead /\ Exited(f) \cap dead = dead
      BY <1>2, <1>11
    <2>3. /\ Cardinality(Live(f) \ dead) = Cardinality(Live(f)) - Cardinality(dead)
          /\ Cardinality(Exited(f) \ dead) = Cardinality(Exited(f)) - Cardinality(dead)
      <3>1. Cardinality(Live(f) \ dead) = Cardinality(Live(f)) - Cardinality(Live(f) \cap dead)
        BY <2>1, FS_Difference
      <3>2. Cardinality(Exited(f) \ dead) = Cardinality(Exited(f)) - Cardinality(Exited(f) \cap dead)
        BY <2>1, FS_Difference
      <3> QED
        BY <2>2, <3>1, <3>2
    <2>4. n = Cardinality(Live(f)) /\ e = Cardinality(Exited(f)) /\ n <= Capacity
      BY DEF StoreOK
    <2>5. Cardinality(dead) \in Nat /\ n \in Nat /\ Capacity \in Nat
      BY <1>2, <2>4, LiveFinite, PaneAssumption
    <2>6. count' = n - Cardinality(dead) /\ exited_count' = e - Cardinality(dead)
      BY <1>1
    <2>7. count' <= Capacity
      BY <2>4, <2>5, <2>6
    <2> QED
      BY <1>10, <1>11, <2>3, <2>4, <2>6, <2>7
  <1>13. tabs' \subseteq ts
    BY <1>1
  <1>14. StoreOK(panes, tasks, count, exited_count, tabs, next_key, next_tab)'
    <2>1. \A k \in Keys : panes'[k] = NoPane => tasks'[k] = {}
      BY <1>7, <1>8, PaneAssumption
    <2>2. \A k \in Keys : k >= next_key' => panes'[k] = NoPane
      BY <1>8 DEF StoreOK, Live
    <2> QED
      BY <1>9, <1>12, <1>13, <2>1, <2>2 DEF StoreOK
  <1>15. BorrowsOK(panes', tasks')
    BY <1>7, <1>10 DEF BorrowsOK
  <1>16. TabsOK(panes', tabs')
    <2>0. \A k \in Live(f) \ dead : /\ panes'[k].tab = f[k].tab /\ panes'[k].exit = f[k].exit
                                    /\ panes'[k].close_requested = f[k].close_requested
      BY <1>7 DEF SameBut
    <2>1. ASSUME NEW tab \in tabs' PROVE \E k \in Live(panes') : panes'[k].tab = tab
      <3>1. tab \in ts /\ ((\E k \in dead : f[k].tab = tab) => ~(At(f, tab) \subseteq dead))
        BY <1>1, <2>1
      <3>2. PICK k \in Live(f) : f[k].tab = tab /\ k \notin dead
        BY <3>1 DEF TabsOK, At
      <3> QED
        BY <1>10, <2>0, <3>2
    <2>2. ASSUME NEW k \in Live(panes'), panes'[k].tab \notin tabs'
          PROVE  panes'[k].close_requested \/ panes'[k].exit
      <3>1. k \in Live(f) \ dead /\ f[k].tab \notin tabs'
        BY <1>10, <2>0, <2>2
      <3>2. f[k].tab \notin ts
        BY <1>1, <3>1 DEF At
      <3> QED
        BY <2>0, <3>1, <3>2 DEF TabsOK
    <2> QED
      BY <2>1, <2>2 DEF TabsOK
  <1>17. ASSUME NEW k \in Live(panes') PROVE Sound(panes'[k])
    <2>1. k \in Live(f) \ dead /\ Sound(f[k])
      BY <1>10, <1>17
    <2> QED
      BY <1>7, <2>1 DEF SameBut, Sound, Reads, Settled, Observed, Responded, ExitNoted
  <1>18. ASSUME ~ResizeFailsLate, phase' = "running", NEW k \in Live(panes'),
                panes'[k].exit, panes'[k].output_done, tasks'[k] = {}, panes'[k].observers = {}
         PROVE  FALSE
    <2>1. k \in Live(f) \ dead /\ Borrowed(f[k], t[k]) /\ Sound(f[k])
      BY <1>10, <1>18 DEF BorrowsOK
    <2>2. f[k].exit /\ f[k].output_done /\ t[k] = {} /\ f[k].observers = {}
      BY <1>7, <1>18, <2>1 DEF SameBut
    <2>3. k \notin due
      <3>1. failed = {}
        BY <1>1, <1>18
      <3>2. ASSUME k \in due PROVE "media" \in tasks'[k]
        BY <1>1, <1>2, <3>1, <3>2
      <3> QED
        BY <1>18, <3>2
    <2>4. /\ f[k].actor_count = 0 /\ ~f[k].observing /\ ~f[k].media_working
          /\ ~f[k].response_pending /\ ~f[k].ingest_pending
      BY <2>1, <2>2, FS_EmptySet DEF Borrowed, FlagsMatch
    <2>5. ~f[k].history_pending /\ f[k].responses = 0 /\ ~f[k].media_pending
      BY <1>6, <1>18, <2>1, <2>3, <2>4 DEF Sound, Settled, Observed, Responded
    <2>6. e = 0
      BY <1>5, <2>1, <2>2, <2>4, <2>5 DEF ReadyToDestroy
    <2>7. k \in Exited(f) /\ IsFiniteSet(Exited(f)) /\ Cardinality(Exited(f)) = 0
      BY <2>1, <2>2, <2>6, LiveFinite DEF Exited, StoreOK
    <2> QED
      BY <2>7, FS_EmptySet
  <1>19. ResizeFailsLate \/ CollectedWhenFree'
    BY <1>18 DEF CollectedWhenFree
  <1>20. phase' \in {"running", "failed"}
    BY <1>1
  <1> QED
    BY <1>14, <1>15, <1>16, <1>17, <1>19, <1>20 DEF PaneInv

(* The pane p became q, and its child may have exited. *)
Follows(p, q) ==
  /\ q.tab = p.tab /\ q.launch = p.launch
  /\ p.exit => q.exit
  /\ p.close_requested => q.close_requested

(* An exit newly queued for history has an observation that takes it. *)
Noted(p, q) == q.history_exit_queued => p.history_exit_queued \/ q.observing

(* ExitRecorded, as a step. *)
Recorded ==
  \A k \in Keys :
    phase = "running" /\ panes[k] # NoPane /\ panes'[k] = NoPane /\ panes[k].launch = "running"
      => panes[k].history_exit_queued

(* A flush destroys a launched pane only if its exit was in history before *)
(* the update began: an exit queued by this update has an observation out. *)
LEMMA FlushRecords ==
  ASSUME NEW f, NEW t, NEW n, NEW e, NEW ts, Flush(f, t, n, e, ts),
         f \in [Keys -> Pane \cup {NoPane}], BorrowsOK(f, t),
         \A k \in Live(panes) : k \in Live(f) /\ Follows(panes[k], f[k]) /\ Noted(panes[k], f[k]) /\ Sound(f[k])
  PROVE  Recorded
  <1> SUFFICES ASSUME NEW k \in Keys, panes[k] # NoPane, panes'[k] = NoPane, panes[k].launch = "running"
               PROVE  panes[k].history_exit_queued
    BY DEF Recorded
  <1>1. k \in Live(f) /\ f[k] \in Pane /\ Follows(panes[k], f[k]) /\ Noted(panes[k], f[k]) /\ Sound(f[k])
    BY LivePane DEF Live
  <1>2. CASE k \in Collectable(f, e)
    <2>1. ReadyToDestroy(f[k])
      BY <1>2 DEF Collectable
    <2> QED
      BY <1>1, <2>1 DEF ReadyToDestroy, Follows, Noted, Sound, ExitNoted
  <1>3. CASE k \notin Collectable(f, e)
    <2>1. \/ panes'[k] = f[k]
          \/ /\ f[k].media_pending /\ ~f[k].media_working
             /\ panes'[k] \in {[f[k] EXCEPT !.media_pending = FALSE],
                               [f[k] EXCEPT !.media_working = TRUE, !.media_pending = FALSE, !.actor_count = @ + 1]}
      BY <1>3 DEF Flush
    <2>2. panes'[k] \in Pane
      <3>1. Borrowed(f[k], t[k])
        BY <1>1 DEF BorrowsOK
      <3>2. CASE panes'[k] = f[k]
        BY <1>1, <3>2
      <3>3. CASE panes'[k] # f[k]
        <4> DEFINE q == [f[k] EXCEPT !.media_working = TRUE, !.media_pending = FALSE, !.actor_count = @ + 1]
                   l == [f[k] EXCEPT !.media_pending = FALSE]
        <4>1. f[k].media_pending /\ ~f[k].media_working /\ panes'[k] \in {l, q}
          BY <2>1, <3>3
        <4>2. Borrowed(q, t[k] \cup {"media"}) /\ Borrowed(l, t[k])
          BY <3>1, <4>1, MediaTurn
        <4> HIDE DEF q, l
        <4>3. q \in Pane /\ l \in Pane
          BY <4>2 DEF Borrowed
        <4> QED BY <4>1, <4>3
      <3> QED BY <3>2, <3>3
    <2> QED
      BY <2>2, PaneAssumption
  <1> QED
    BY <1>2, <1>3

(* One pane of the store is replaced by what its handler made of it. *)
LEMMA ReplacedStore ==
  ASSUME PaneInv, phase \in {"running", "failed", "stopped"}, NEW k \in Live(panes), NEW p, NEW t, Borrowed(p, t),
         Follows(panes[k], p), NEW e, e = exited_count + (IF p.exit /\ ~panes[k].exit THEN 1 ELSE 0)
  PROVE  LET f == [panes EXCEPT ![k] = p]
             u == [tasks EXCEPT ![k] = t]
         IN /\ StoreOK(f, u, count, e, tabs, next_key, next_tab) /\ BorrowsOK(f, u) /\ TabsOK(f, tabs)
            /\ Live(f) = Live(panes) /\ f[k] = p /\ \A j \in Keys : j # k => f[j] = panes[j]
  <1> DEFINE f == [panes EXCEPT ![k] = p]
             u == [tasks EXCEPT ![k] = t]
  <1>1. /\ k \in Keys /\ p \in Pane /\ p # NoPane /\ t \in SUBSET Kinds /\ panes[k] # NoPane
        /\ StoreOK(panes, tasks, count, exited_count, tabs, next_key, next_tab)
        /\ BorrowsOK(panes, tasks) /\ TabsOK(panes, tabs)
    BY PaneAssumption DEF PaneInv, Live, Borrowed
  <1>2. panes \in [Keys -> Pane \cup {NoPane}] /\ tasks \in [Keys -> SUBSET Kinds]
    BY <1>1 DEF StoreOK
  <1>3. f[k] = p /\ u[k] = t /\ \A j \in Keys : j # k => f[j] = panes[j] /\ u[j] = tasks[j]
    BY <1>1, <1>2
  <1>4. f \in [Keys -> Pane \cup {NoPane}] /\ u \in [Keys -> SUBSET Kinds]
    BY <1>1, <1>2
  <1> HIDE DEF f, u
  <1>5. Live(f) = Live(panes)
    BY <1>1, <1>3 DEF Live
  <1>6. \A j \in Live(panes) : f[j].tab = panes[j].tab /\ (j # k => f[j] = panes[j])
    BY <1>3 DEF Follows, Live
  <1>7. e = Cardinality(Exited(f))
    <2>1. exited_count = Cardinality(Exited(panes)) /\ IsFiniteSet(Exited(panes)) /\ Cardinality(Exited(panes)) \in Nat
      BY <1>1, LiveFinite DEF StoreOK, Exited
    <2>2. CASE p.exit /\ ~panes[k].exit
      <3>1. Exited(f) = Exited(panes) \cup {k} /\ k \notin Exited(panes)
        BY <1>3, <1>5, <1>6, <2>2 DEF Exited
      <3> QED
        BY <2>1, <2>2, <3>1, FS_AddElement
    <2>3. CASE ~(p.exit /\ ~panes[k].exit)
      <3>1. Exited(f) = Exited(panes)
        BY <1>3, <1>5, <1>6, <2>3 DEF Exited, Follows
      <3> QED
        BY <2>1, <2>3, <3>1
    <2> QED
      BY <2>2, <2>3
  <1>8. StoreOK(f, u, count, e, tabs, next_key, next_tab)
    <2>1. \A j \in Keys : f[j] = NoPane => u[j] = {}
      BY <1>1, <1>3 DEF StoreOK
    <2>2. \A j \in Keys : j >= next_key => f[j] = NoPane
      BY <1>1, <1>3 DEF StoreOK
    <2> QED
      BY <1>1, <1>4, <1>5, <1>7, <2>1, <2>2 DEF StoreOK
  <1>9. BorrowsOK(f, u)
    BY <1>1, <1>3, <1>5 DEF BorrowsOK, Live
  <1>10. TabsOK(f, tabs)
    <2>1. \A tab \in tabs : \E j \in Live(f) : f[j].tab = tab
      BY <1>1, <1>5, <1>6 DEF TabsOK
    <2>2. ASSUME NEW j \in Live(f), f[j].tab \notin tabs PROVE f[j].close_requested \/ f[j].exit
      BY <1>1, <1>3, <1>5, <1>6, <2>2 DEF TabsOK, Follows
    <2> QED
      BY <2>1, <2>2 DEF TabsOK
  <1> QED
    BY <1>3, <1>5, <1>8, <1>9, <1>10 DEF f, u

(* An update of a completion: it flushes, or ends the run. *)
LEMMA CommitKeeps ==
  ASSUME PaneInv, phase = "running", NEW k \in Live(panes), NEW w, Good(w),
         Follows(panes[k], w.p), NEW e, e = exited_count + (IF w.p.exit /\ ~panes[k].exit THEN 1 ELSE 0),
         w.ok => Sound(w.p) /\ Noted(panes[k], w.p), Commit(k, w, e), UNCHANGED <<next_key, next_tab>>
  PROVE  PaneInv' /\ Recorded
  <1> DEFINE f == [panes EXCEPT ![k] = w.p]
             u == [tasks EXCEPT ![k] = w.t]
  <1>1. /\ StoreOK(f, u, count, e, tabs, next_key, next_tab) /\ BorrowsOK(f, u) /\ TabsOK(f, tabs)
        /\ Live(f) = Live(panes) /\ f[k] = w.p /\ \A j \in Keys : j # k => f[j] = panes[j]
    BY ReplacedStore DEF Good
  <1>2. Live(panes) \subseteq Keys
    BY DEF Live
  <1>3. \A j \in Live(panes) : j # k => f[j] = panes[j] /\ Sound(f[j]) /\ Follows(panes[j], f[j]) /\ Noted(panes[j], f[j])
    BY <1>1, <1>2 DEF PaneInv, Follows, Noted
  <1>4. CASE w.ok
    <2>1. Flush(f, u, count, e, tabs)
      BY <1>4 DEF Commit
    <2> HIDE DEF f, u
    <2>2. StoreOK(f, u, count, e, tabs, next_key', next_tab')
      BY <1>1
    <2>3. \A j \in Live(f) : Sound(f[j]) /\ Follows(panes[j], f[j]) /\ Noted(panes[j], f[j])
      BY <1>1, <1>3, <1>4
    <2>4. PaneInv'
      BY <1>1, <2>1, <2>2, <2>3, FlushKeeps
    <2>5. f \in [Keys -> Pane \cup {NoPane}]
      BY <1>1 DEF StoreOK
    <2>6. Recorded
      BY <1>1, <2>1, <2>3, <2>5, FlushRecords
    <2> QED
      BY <2>4, <2>6
  <1>5. CASE ~w.ok
    <2>1. panes' = f /\ tasks' = u /\ exited_count' = e /\ phase' = "failed" /\ UNCHANGED <<count, tabs>>
      BY <1>5 DEF Commit
    <2> HIDE DEF f, u
    <2>2. PaneInv'
      BY <1>1, <2>1 DEF PaneInv, CollectedWhenFree
    <2>3. \A j \in Keys : panes[j] # NoPane => panes'[j] # NoPane
      BY <1>1, <2>1 DEF Live
    <2> QED
      BY <2>2, <2>3 DEF Recorded
  <1> QED
    BY <1>4, <1>5

(* A dropped client leaves every pane as it was but for its observers. *)
LEMMA WithoutKeeps ==
  ASSUME NEW c, NEW f, NEW t, NEW n, NEW e, NEW ts, NEW nk, NEW nt,
         StoreOK(f, t, n, e, ts, nk, nt), BorrowsOK(f, t), TabsOK(f, ts)
  PROVE  LET g == Without(c, f)
         IN /\ StoreOK(g, t, n, e, ts, nk, nt) /\ BorrowsOK(g, t) /\ TabsOK(g, ts)
            /\ Live(g) = Live(f) /\ \A k \in Live(f) : SameBut(f[k], g[k], {"observers"})
  <1> DEFINE g == Without(c, f)
  <1>1. f \in [Keys -> Pane \cup {NoPane}] /\ Live(f) \subseteq Keys
    BY DEF StoreOK, Live
  <1>2. ASSUME NEW k \in Live(f)
        PROVE  g[k] \in Pane /\ g[k] # NoPane /\ SameBut(f[k], g[k], {"observers"})
    <2>1. f[k] \in Pane /\ k \in Keys /\ f[k] # NoPane
      BY <1>1, LivePane
    <2>2. g[k] = [f[k] EXCEPT !.observers = @ \ {c}]
      BY <2>1 DEF Without
    <2>3. g[k] \in Pane /\ SameBut(f[k], g[k], {"observers"})
      BY <2>1, <2>2 DEF Pane, SameBut
    <2> QED
      BY <2>3, PaneAssumption
  <1>3. \A k \in Keys : k \notin Live(f) => g[k] = NoPane /\ f[k] = NoPane
    BY DEF Without, Live
  <1>4. g \in [Keys -> Pane \cup {NoPane}]
    <2>1. g = [k \in Keys |-> g[k]]
      BY DEF Without
    <2>2. \A k \in Keys : g[k] \in Pane \cup {NoPane}
      BY <1>2, <1>3
    <2> HIDE DEF g
    <2> QED
      BY <2>1, <2>2
  <1> HIDE DEF g
  <1>5. Live(g) = Live(f)
    BY <1>1, <1>2, <1>3 DEF Live
  <1>6. Exited(g) = Exited(f)
    BY <1>2, <1>5 DEF Exited, SameBut
  <1>7. StoreOK(g, t, n, e, ts, nk, nt)
    <2>1. \A k \in Keys : g[k] = NoPane => f[k] = NoPane
      BY <1>2, <1>3
    <2>2. \A k \in Keys : f[k] = NoPane => g[k] = NoPane
      BY <1>3 DEF Live
    <2> QED
      BY <1>4, <1>5, <1>6, <2>1, <2>2 DEF StoreOK
  <1>8. BorrowsOK(g, t)
    BY <1>2, <1>5 DEF BorrowsOK, SameBut, Borrowed, FlagsMatch
  <1>9. TabsOK(g, ts)
    BY <1>2, <1>5 DEF TabsOK, SameBut
  <1> QED
    BY <1>2, <1>5, <1>7, <1>8, <1>9 DEF g

(* An update of a request: one that fails drops the client and flushes     *)
(* all the same.                                                           *)
LEMMA AnswerKeeps ==
  ASSUME PaneInv, phase = "running", NEW k \in Live(panes), NEW w, Good(w),
         Becomes(panes[k], w.p), Sound(w.p), NEW c, Answer(c, k, w)
  PROVE  PaneInv' /\ Recorded
  <1> DEFINE f == [panes EXCEPT ![k] = w.p]
             u == [tasks EXCEPT ![k] = w.t]
             g == IF w.ok THEN f ELSE Without(c, f)
  <1>0. exited_count = exited_count + (IF w.p.exit /\ ~panes[k].exit THEN 1 ELSE 0)
    <2>1. exited_count \in Nat
      BY LiveFinite DEF PaneInv, StoreOK, Exited
    <2> QED
      BY <2>1 DEF Becomes
  <1>1. /\ StoreOK(f, u, count, exited_count, tabs, next_key, next_tab) /\ BorrowsOK(f, u) /\ TabsOK(f, tabs)
        /\ Live(f) = Live(panes) /\ f[k] = w.p /\ \A j \in Keys : j # k => f[j] = panes[j]
    <2>1. Follows(panes[k], w.p)
      BY DEF Becomes, Follows
    <2> QED
      BY <1>0, <2>1, ReplacedStore DEF Good
  <1>2. Live(panes) \subseteq Keys
    BY DEF Live
  <1>3. \A j \in Live(f) : Sound(f[j]) /\ Becomes(panes[j], f[j])
    BY <1>1, <1>2 DEF PaneInv, Becomes
  <1>4. Flush(g, u, count, exited_count, tabs) /\ UNCHANGED <<next_key, next_tab>>
    BY DEF Answer
  <1> HIDE DEF f, u
  <1>5. /\ StoreOK(g, u, count, exited_count, tabs, next_key, next_tab) /\ BorrowsOK(g, u) /\ TabsOK(g, tabs)
        /\ Live(g) = Live(f) /\ \A j \in Live(f) : SameBut(f[j], g[j], {"observers"})
    <2>1. CASE w.ok
      BY <1>1, <2>1 DEF SameBut
    <2>2. CASE ~w.ok
      BY <1>1, <2>2, WithoutKeeps
    <2> QED
      BY <2>1, <2>2
  <1> HIDE DEF g
  <1>6. \A j \in Live(g) : Sound(g[j]) /\ Follows(panes[j], g[j]) /\ Noted(panes[j], g[j])
    BY <1>3, <1>5 DEF SameBut, Sound, Reads, Settled, Observed, Responded, ExitNoted, Becomes, Follows, Noted
  <1>7. StoreOK(g, u, count, exited_count, tabs, next_key', next_tab')
    BY <1>4, <1>5
  <1>8. PaneInv'
    BY <1>4, <1>5, <1>6, <1>7, FlushKeeps
  <1>9. g \in [Keys -> Pane \cup {NoPane}]
    BY <1>5 DEF StoreOK
  <1>10. Recorded
    BY <1>1, <1>4, <1>5, <1>6, <1>9, FlushRecords
  <1> QED
    BY <1>8, <1>10

--------------------------------------------------------------------------------
(* The completions of a pane's actors                                      *)

(* A completion finds the pane it borrows. *)
LEMMA CompletionFacts ==
  ASSUME PaneInv, NEW k \in Keys, NEW kind, Completes(k, kind)
  PROVE  /\ phase = "running" /\ kind \in tasks[k] /\ k \in Live(panes) /\ panes[k] \in Pane
         /\ Borrowed(panes[k], tasks[k]) /\ Sound(panes[k])
  <1>1. phase = "running" /\ kind \in tasks[k]
    BY DEF Completes
  <1>2. k \in Live(panes)
    BY <1>1 DEF PaneInv, StoreOK, Live
  <1> QED
    BY <1>1, <1>2 DEF PaneInv, BorrowsOK, Borrowed

(* An update in which no child exits. *)
LEMMA UpdateKeeps ==
  ASSUME PaneInv, phase = "running", NEW k \in Live(panes), NEW w, Good(w),
         Follows(panes[k], w.p), w.p.exit = panes[k].exit,
         w.ok => Sound(w.p) /\ Noted(panes[k], w.p), Update(k, w)
  PROVE  PaneInv' /\ Recorded
  <1>1. exited_count \in Nat
    BY LiveFinite DEF PaneInv, StoreOK, Exited
  <1>2. exited_count = exited_count + (IF w.p.exit /\ ~panes[k].exit THEN 1 ELSE 0)
    BY <1>1
  <1> QED
    BY <1>2, CommitKeeps DEF Update

(* queueExitedHistory() queues the exit, once. *)
LEMMA QueuedPane ==
  ASSUME NEW p \in Pane
  PROVE  LET q == QueueExitedHistory(p)
         IN /\ q \in Pane /\ SameBut(p, q, {"history_pending", "history_exit_queued"})
            /\ q.history_exit_queued = TRUE /\ (p.history_exit_queued => q = p)
            /\ (~p.history_exit_queued => q.history_pending = TRUE)
  <1>1. CASE p.history_exit_queued
    BY <1>1 DEF QueueExitedHistory, SameBut, Pane
  <1>2. CASE ~p.history_exit_queued
    BY <1>2 DEF QueueExitedHistory, SameBut, Pane
  <1> QED
    BY <1>1, <1>2

(* The end of output keeps the invariant: after the exit it queues the     *)
(* exit for history.                                                       *)
LEMMA ReadEndKeeps ==
  ASSUME PaneInv, NEW k \in Keys, ReadEnd(k)
  PROVE  PaneInv' /\ Recorded
  <1> DEFINE done == [panes[k] EXCEPT !.output_pending = FALSE, !.output_done = TRUE]
  <1>1. /\ phase = "running" /\ "read" \in tasks[k] /\ k \in Live(panes) /\ panes[k] \in Pane
        /\ Borrowed(panes[k], tasks[k]) /\ Sound(panes[k])
    BY CompletionFacts DEF ReadEnd
  <1>2. /\ done \in Pane /\ SameBut(panes[k], done, {"output_pending", "output_done"})
        /\ done.output_pending = FALSE /\ done.output_done = TRUE
    BY <1>1 DEF Pane, SameBut
  <1>3. IF done.exit
        THEN \E w \in StartObservation(Finished(k, "read", QueueExitedHistory(done))) : Update(k, w)
        ELSE Update(k, Finished(k, "read", done))
    BY DEF ReadEnd
  <1> HIDE DEF done
  <1>4. /\ panes[k].output_pending /\ ~panes[k].ingest_pending /\ ~panes[k].output_held
    BY <1>1 DEF Borrowed, FlagsMatch, Sound, Reads
  <1>5. ASSUME NEW q \in Pane, SameBut(done, q, {"history_pending", "history_exit_queued"}),
               NEW w, w = Finished(k, "read", q)
        PROVE  /\ Good(w) /\ w.ok = TRUE /\ SameBut(q, w.p, {"actor_count"}) /\ Reads(w.p)
               /\ Follows(panes[k], w.p) /\ w.p.exit = panes[k].exit
    <2>1. q.actor_count = panes[k].actor_count
      BY <1>2, <1>5 DEF SameBut
    <2>2. Ends(k, "read", q, w)
      <3>1. "read" \in Kinds
        BY DEF Kinds
      <3> QED
        BY <1>1, <1>5, <2>1, <3>1, FinishedOutcome
    <2>3. Borrowed(w.p, w.t)
      BY <1>1, <1>2, <1>5, <2>2 DEF Ends, SameBut, Borrowed, FlagsMatch, Outcome
    <2>4. Reads(w.p)
      BY <1>2, <1>4, <1>5, <2>2 DEF Ends, SameBut, Reads
    <2>5. Follows(panes[k], w.p) /\ w.p.exit = panes[k].exit
      BY <1>2, <1>5, <2>2 DEF Ends, SameBut, Follows
    <2> QED
      BY <2>2, <2>3, <2>4, <2>5 DEF Ends, Good
  <1>6. CASE ~done.exit
    <2> DEFINE w == Finished(k, "read", done)
    <2>1. /\ Good(w) /\ w.ok = TRUE /\ SameBut(done, w.p, {"actor_count"}) /\ Reads(w.p)
          /\ Follows(panes[k], w.p) /\ w.p.exit = panes[k].exit
      BY <1>2, <1>5 DEF SameBut
    <2> HIDE DEF w
    <2>2. Sound(w.p) /\ Noted(panes[k], w.p)
      BY <1>1, <1>2, <1>6, <2>1 DEF SameBut, Sound, Settled, Observed, Responded, ExitNoted, Noted
    <2> QED
      BY <1>1, <1>3, <1>6, <2>1, <2>2, UpdateKeeps DEF w
  <1>7. CASE done.exit
    <2> DEFINE q == QueueExitedHistory(done)
               v == Finished(k, "read", q)
    <2>1. PICK w \in StartObservation(v) : Update(k, w)
      BY <1>3, <1>7
    <2>2. /\ q \in Pane /\ SameBut(done, q, {"history_pending", "history_exit_queued"})
          /\ q.history_exit_queued = TRUE /\ (done.history_exit_queued => q = done)
          /\ (~done.history_exit_queued => q.history_pending = TRUE)
      BY <1>2, QueuedPane
    <2> HIDE DEF q
    <2>3. /\ Good(v) /\ v.ok = TRUE /\ SameBut(q, v.p, {"actor_count"}) /\ Reads(v.p)
          /\ Follows(panes[k], v.p) /\ v.p.exit = panes[k].exit
      BY <1>5, <2>2
    <2> HIDE DEF v
    <2>4. Good(w) /\ Extends(v, w) /\ Observed(w.p) /\ (w.ok /\ v.p.history_pending => w.p.observing)
      BY <2>1, <2>3, ObservationStarts
    <2>5. v \in Outcome /\ w \in Outcome
      BY <2>3, <2>4 DEF Good
    <2>6. Reads(w.p) /\ Follows(panes[k], w.p) /\ w.p.exit = panes[k].exit
      BY <2>3, <2>4, <2>5, ExtendsKeeps DEF Follows, Extends
    <2>7. ExitNoted(w.p) /\ (w.ok => Noted(panes[k], w.p))
      BY <1>2, <2>2, <2>3, <2>4 DEF SameBut, Extends, ExitNoted, Noted
    <2>8. ResizeFailsLate \/ Responded(w.p)
      BY <1>1, <1>2, <2>2, <2>3, <2>4 DEF SameBut, Extends, Sound, Settled, Responded
    <2> QED
      BY <1>1, <2>1, <2>4, <2>6, <2>7, <2>8, UpdateKeeps DEF Sound, Settled
  <1> QED
    BY <1>6, <1>7

(* Data that was read is ingested, on an actor or right here. *)
LEMMA ReadDataKeeps ==
  ASSUME PaneInv, NEW k \in Keys, ReadData(k)
  PROVE  PaneInv' /\ Recorded
  <1> DEFINE read == [panes[k] EXCEPT !.output_pending = FALSE, !.history_pending = TRUE]
             fin == Finished(k, "read", read)
  <1>1. /\ phase = "running" /\ "read" \in tasks[k] /\ k \in Live(panes) /\ panes[k] \in Pane
        /\ Borrowed(panes[k], tasks[k]) /\ Sound(panes[k])
    BY CompletionFacts DEF ReadData
  <1>2. PICK o \in StartObservation(fin) :
          \E m \in StartMedia(With(o, [o.p EXCEPT !.media_pending = TRUE])) :
            \/ \E w \in Spawn(m, "ingest", [m.p EXCEPT !.ingest_pending = TRUE], m.p) : Update(k, w)
            \/ \E w \in AfterIngest(m) : Update(k, w)
    BY DEF ReadData
  <1>3. /\ read \in Pane /\ SameBut(panes[k], read, {"output_pending", "history_pending"})
        /\ read.output_pending = FALSE
    BY <1>1 DEF Pane, SameBut
  <1> HIDE DEF read
  <1>4. Ends(k, "read", read, fin)
    <2>1. read.actor_count = panes[k].actor_count
      BY <1>3 DEF SameBut
    <2>2. "read" \in Kinds
      BY DEF Kinds
    <2> QED
      BY <1>1, <1>3, <2>1, <2>2, FinishedOutcome
  <1> HIDE DEF fin
  <1>5. Good(fin)
    BY <1>1, <1>3, <1>4 DEF Ends, Good, SameBut, Borrowed, FlagsMatch, Outcome
  <1>6. Unread(fin.p) /\ Becomes(panes[k], fin.p)
    BY <1>1, <1>3, <1>4 DEF Ends, SameBut, Unread, Becomes, Borrowed, FlagsMatch, Sound, Reads
  <1>7. Good(o) /\ Extends(fin, o) /\ Observed(o.p)
    BY <1>2, <1>5, ObservationStarts
  <1> DEFINE q == [o.p EXCEPT !.media_pending = TRUE]
             v == With(o, q)
  <1>8. o \in Outcome /\ o.p \in Pane
    BY <1>7 DEF Good, Outcome
  <1>9. q \in Pane /\ SameBut(o.p, q, {"media_pending"})
    BY <1>8 DEF Pane, SameBut
  <1>10. PICK m \in StartMedia(v) :
           \/ \E w \in Spawn(m, "ingest", [m.p EXCEPT !.ingest_pending = TRUE], m.p) : Update(k, w)
           \/ \E w \in AfterIngest(m) : Update(k, w)
    BY <1>2
  <1> HIDE DEF q
  <1>11. Good(v) /\ v.p = q
    <2>1. SameBut(o.p, q, LooseFields) /\ (o.p.response_pending => q.responses # 0)
      BY <1>7, <1>9 DEF SameBut, LooseFields, Good, Borrowed
    <2> QED
      BY <1>7, <1>9, <2>1, ReplacedGood
  <1> HIDE DEF v
  <1>12. Good(m) /\ Extends(v, m) /\ m \in Outcome /\ v \in Outcome
    BY <1>10, <1>11, MediaStarts DEF Good
  <1>13. Unread(m.p) /\ Becomes(panes[k], m.p) /\ Observed(m.p)
    <2>1. Unread(q) /\ Becomes(panes[k], q) /\ Observed(q)
      BY <1>6, <1>7, <1>9 DEF SameBut, Extends, Unread, Becomes, Observed
    <2> QED
      BY <1>1, <1>11, <1>12, <2>1, ExtendsKeeps DEF Extends, Unread
  <1>14. ASSUME NEW w \in Spawn(m, "ingest", [m.p EXCEPT !.ingest_pending = TRUE], m.p), Update(k, w)
         PROVE  PaneInv' /\ Recorded
    <2>1. "ingest" \notin m.t
      BY <1>12, <1>13 DEF Good, Borrowed, FlagsMatch, Unread
    <2>2. /\ Good(w)
          /\ \/ /\ w.t = m.t \cup {"ingest"} /\ w.ok = m.ok /\ w.p.ingest_pending = TRUE
                /\ SameBut(m.p, w.p, {"ingest_pending", "actor_count"})
             \/ w.p = m.p /\ w.t = m.t /\ w.ok = FALSE
      BY <1>12, <1>14, <2>1, IngestStarts
    <2>3. Follows(panes[k], w.p) /\ w.p.exit = panes[k].exit
      BY <1>13, <2>2 DEF SameBut, Becomes, Follows
    <2>4. w.ok => Sound(w.p) /\ Noted(panes[k], w.p)
      BY <1>13, <2>2 DEF SameBut, Unread, Becomes, Sound, Reads, Settled, Observed, Responded, ExitNoted, Noted
    <2> QED
      BY <1>1, <1>14, <2>2, <2>3, <2>4, UpdateKeeps
  <1>15. ASSUME NEW w \in AfterIngest(m), Update(k, w)
         PROVE  PaneInv' /\ Recorded
    <2>1. /\ Good(w) /\ Becomes(m.p, w.p) /\ w.p.output_done = FALSE
          /\ w.ok => Reads(w.p) /\ Observed(w.p) /\ Responded(w.p)
      BY <1>12, <1>13, <1>15, AfterIngestPane
    <2>2. Follows(panes[k], w.p) /\ w.p.exit = panes[k].exit /\ Noted(panes[k], w.p)
      BY <1>13, <2>1 DEF Becomes, Follows, Noted
    <2>3. w.ok => Sound(w.p)
      BY <2>1 DEF Sound, Settled, ExitNoted
    <2> QED
      BY <1>1, <1>15, <2>1, <2>2, <2>3, UpdateKeeps
  <1> QED
    BY <1>10, <1>14, <1>15

(* The end of an ingest takes the read up again. *)
LEMMA FinishIngestKeeps ==
  ASSUME PaneInv, NEW k \in Keys, FinishIngest(k)
  PROVE  PaneInv' /\ Recorded
  <1> DEFINE q == IngestDone(k)
             fin == Finished(k, "ingest", q)
  <1>1. /\ phase = "running" /\ "ingest" \in tasks[k] /\ k \in Live(panes) /\ panes[k] \in Pane
        /\ Borrowed(panes[k], tasks[k]) /\ Sound(panes[k])
    BY CompletionFacts DEF FinishIngest
  <1>2. PICK w \in AfterIngest(fin) : Update(k, w)
    BY DEF FinishIngest
  <1>3. q \in Pane /\ SameBut(panes[k], q, {"ingest_pending"}) /\ q.ingest_pending = FALSE
    BY <1>1 DEF Pane, SameBut, IngestDone
  <1> HIDE DEF q
  <1>4. Ends(k, "ingest", q, fin)
    <2>1. q.actor_count = panes[k].actor_count /\ "ingest" \in Kinds
      BY <1>3 DEF SameBut, Kinds
    <2> QED
      BY <1>1, <1>3, <2>1, FinishedOutcome
  <1> HIDE DEF fin
  <1>5. Good(fin)
    BY <1>1, <1>3, <1>4 DEF Ends, Good, SameBut, Borrowed, FlagsMatch, Outcome
  <1>6. Unread(fin.p) /\ Becomes(panes[k], fin.p)
    BY <1>1, <1>3, <1>4 DEF Ends, SameBut, Unread, Becomes, Borrowed, FlagsMatch, Sound, Reads
  <1>7. /\ Good(w) /\ Becomes(fin.p, w.p) /\ w.p.output_done = FALSE
        /\ w.ok => Reads(w.p) /\ Observed(w.p) /\ Responded(w.p)
    BY <1>2, <1>5, <1>6, AfterIngestPane
  <1>8. Follows(panes[k], w.p) /\ w.p.exit = panes[k].exit /\ Noted(panes[k], w.p)
    BY <1>6, <1>7 DEF Becomes, Follows, Noted
  <1>9. w.ok => Sound(w.p)
    BY <1>7 DEF Sound, Settled, ExitNoted
  <1> QED
    BY <1>1, <1>2, <1>7, <1>8, <1>9, UpdateKeeps

(* The end of a media turn takes up the read it held, and no pane is left  *)
(* with a held read and no turn.                                           *)
LEMMA FinishMediaKeeps ==
  ASSUME PaneInv, NEW k \in Keys, FinishMedia(k)
  PROVE  PaneInv' /\ Recorded
  <1> DEFINE q == [panes[k] EXCEPT !.media_working = FALSE]
             fin == Finished(k, "media", q)
  <1>1. /\ phase = "running" /\ "media" \in tasks[k] /\ k \in Live(panes) /\ panes[k] \in Pane
        /\ Borrowed(panes[k], tasks[k]) /\ Sound(panes[k])
    BY CompletionFacts DEF FinishMedia
  <1>2. PICK r \in ResumeRead(fin) : \E w \in StartResponseWrite(r) : Update(k, w)
    BY DEF FinishMedia
  <1>3. q \in Pane /\ SameBut(panes[k], q, {"media_working"}) /\ q.media_working = FALSE
    BY <1>1 DEF Pane, SameBut
  <1> HIDE DEF q
  <1>4. Ends(k, "media", q, fin)
    <2>1. q.actor_count = panes[k].actor_count /\ "media" \in Kinds
      BY <1>3 DEF SameBut, Kinds
    <2> QED
      BY <1>1, <1>3, <2>1, FinishedOutcome
  <1> HIDE DEF fin
  <1>5. Good(fin) /\ fin.ok
    BY <1>1, <1>3, <1>4 DEF Ends, Good, SameBut, Borrowed, FlagsMatch, Outcome
  <1>6. SameBut(panes[k], fin.p, {"media_working", "actor_count"})
    BY <1>3, <1>4 DEF Ends, SameBut
  <1>7. fin.p.output_held => "read" \notin fin.t
    BY <1>1, <1>4, <1>6 DEF Ends, SameBut, Sound, Reads, Borrowed, FlagsMatch
  <1>8. /\ Good(r) /\ SameBut(fin.p, r.p, {"output_pending", "output_held", "actor_count"})
        /\ \/ r = fin /\ ~fin.p.output_held
           \/ fin.p.output_held /\ r.ok = fin.ok /\ r.p.output_pending = TRUE /\ r.p.output_held = FALSE
           \/ r.ok = FALSE
    BY <1>2, <1>5, <1>7, ResumedPane
  <1>9. r.ok => Reads(r.p)
    BY <1>1, <1>6, <1>8 DEF SameBut, Sound, Reads
  <1>10. Becomes(panes[k], r.p) /\ (Observed(panes[k]) => Observed(r.p)) /\ ExitNoted(r.p)
    BY <1>1, <1>6, <1>8 DEF SameBut, Sound, ExitNoted, Observed, Becomes
  <1>11. PICK w \in StartResponseWrite(r) : Update(k, w)
    BY <1>2
  <1>12. Good(w) /\ Extends(r, w) /\ (w.ok => Responded(w.p)) /\ r \in Outcome /\ w \in Outcome
    BY <1>8, <1>11, ResponseStarts DEF Good
  <1>13. w.ok => r.ok
    BY <1>12 DEF Extends
  <1>14. Becomes(panes[k], w.p) /\ (Observed(r.p) => Observed(w.p)) /\ ExitNoted(w.p) /\ (Reads(r.p) => Reads(w.p))
    BY <1>1, <1>10, <1>12, ExtendsKeeps
  <1>15. Follows(panes[k], w.p) /\ w.p.exit = panes[k].exit /\ Noted(panes[k], w.p)
    BY <1>14 DEF Becomes, Follows, Noted
  <1>16. w.ok => Sound(w.p)
    BY <1>1, <1>9, <1>10, <1>12, <1>13, <1>14 DEF Sound, Settled
  <1> QED
    BY <1>1, <1>11, <1>12, <1>15, <1>16, UpdateKeeps

(* The end of an observation starts the next for what came meanwhile. *)
LEMMA FinishObservationKeeps ==
  ASSUME PaneInv, NEW k \in Keys, FinishObservation(k)
  PROVE  PaneInv' /\ Recorded
  <1> DEFINE q == [panes[k] EXCEPT !.observing = FALSE]
             fin == Finished(k, "observe", q)
  <1>1. /\ phase = "running" /\ "observe" \in tasks[k] /\ k \in Live(panes) /\ panes[k] \in Pane
        /\ Borrowed(panes[k], tasks[k]) /\ Sound(panes[k])
    BY CompletionFacts DEF FinishObservation
  <1>2. PICK w \in StartObservation(fin) : Update(k, w)
    BY DEF FinishObservation
  <1>3. q \in Pane /\ SameBut(panes[k], q, {"observing"}) /\ q.observing = FALSE
    BY <1>1 DEF Pane, SameBut
  <1> HIDE DEF q
  <1>4. Ends(k, "observe", q, fin)
    <2>1. q.actor_count = panes[k].actor_count /\ "observe" \in Kinds
      BY <1>3 DEF SameBut, Kinds
    <2> QED
      BY <1>1, <1>3, <2>1, FinishedOutcome
  <1> HIDE DEF fin
  <1>5. Good(fin)
    BY <1>1, <1>3, <1>4 DEF Ends, Good, SameBut, Borrowed, FlagsMatch, Outcome
  <1>6. SameBut(panes[k], fin.p, {"observing", "actor_count"})
    BY <1>3, <1>4 DEF Ends, SameBut
  <1>7. Good(w) /\ Extends(fin, w) /\ Observed(w.p) /\ fin \in Outcome /\ w \in Outcome
    BY <1>2, <1>5, ObservationStarts DEF Good
  <1>8. Reads(fin.p) /\ ExitNoted(fin.p) /\ Becomes(panes[k], fin.p) /\ (Responded(panes[k]) => Responded(fin.p))
    BY <1>1, <1>6 DEF SameBut, Sound, Reads, ExitNoted, Becomes, Responded
  <1>9. Reads(w.p) /\ ExitNoted(w.p) /\ Becomes(panes[k], w.p) /\ (Responded(fin.p) => Responded(w.p))
    BY <1>1, <1>7, <1>8, ExtendsKeeps
  <1>10. Follows(panes[k], w.p) /\ w.p.exit = panes[k].exit /\ Noted(panes[k], w.p)
    BY <1>9 DEF Becomes, Follows, Noted
  <1>11. Sound(w.p)
    BY <1>1, <1>7, <1>8, <1>9 DEF Sound, Settled
  <1> QED
    BY <1>1, <1>2, <1>7, <1>10, <1>11, UpdateKeeps

(* A response that was written makes room for the next; one that failed    *)
(* clears the queue.                                                       *)
LEMMA FinishResponseKeeps ==
  ASSUME PaneInv, NEW k \in Keys, FinishResponse(k)
  PROVE  PaneInv' /\ Recorded
  <1> DEFINE idle == [panes[k] EXCEPT !.response_pending = FALSE]
             wrote == [idle EXCEPT !.responses = @ - 1]
             lost == [idle EXCEPT !.responses = 0]
  <1>1. /\ phase = "running" /\ "respond" \in tasks[k] /\ k \in Live(panes) /\ panes[k] \in Pane
        /\ Borrowed(panes[k], tasks[k]) /\ Sound(panes[k])
    BY CompletionFacts DEF FinishResponse
  <1>2. \/ \E w \in StartResponseWrite(Finished(k, "respond", wrote)) : Update(k, w)
        \/ Update(k, Finished(k, "respond", lost))
    BY DEF FinishResponse
  <1>3. panes[k].responses - 1 \in 0 .. MaxResponses /\ 0 \in 0 .. MaxResponses
    <2>1. panes[k].responses \in 0 .. MaxResponses /\ panes[k].responses # 0
      BY <1>1 DEF Pane, Borrowed, FlagsMatch
    <2> QED
      BY <2>1, PaneAssumption
  <1>4. /\ idle \in Pane /\ SameBut(panes[k], idle, {"response_pending"}) /\ idle.response_pending = FALSE
    BY <1>1 DEF Pane, SameBut
  <1>5. idle.responses = panes[k].responses
    BY <1>4 DEF SameBut
  <1> HIDE DEF idle
  <1>6. /\ wrote \in Pane /\ SameBut(idle, wrote, {"responses"})
    BY <1>3, <1>4, <1>5 DEF Pane, SameBut
  <1>7. /\ lost \in Pane /\ SameBut(idle, lost, {"responses"}) /\ lost.responses = 0
    BY <1>3, <1>4 DEF Pane, SameBut
  <1> HIDE DEF wrote, lost
  <1>8. ASSUME NEW q \in Pane, SameBut(idle, q, {"responses"}), NEW v, v = Finished(k, "respond", q)
        PROVE  /\ Good(v) /\ SameBut(q, v.p, {"actor_count"}) /\ Reads(v.p) /\ ExitNoted(v.p)
               /\ Becomes(panes[k], v.p) /\ (Observed(panes[k]) => Observed(v.p))
    <2>1. q.actor_count = panes[k].actor_count /\ "respond" \in Kinds
      BY <1>4, <1>8 DEF SameBut, Kinds
    <2>2. Ends(k, "respond", q, v)
      BY <1>1, <1>8, <2>1, FinishedOutcome
    <2>3. Good(v)
      BY <1>1, <1>4, <1>8, <2>2 DEF Ends, Good, SameBut, Borrowed, FlagsMatch, Outcome
    <2> QED
      BY <1>1, <1>4, <1>8, <2>2, <2>3 DEF Ends, SameBut, Sound, Reads, ExitNoted, Becomes, Observed
  <1>9. ASSUME NEW w, Good(w), Reads(w.p), ExitNoted(w.p), Becomes(panes[k], w.p),
               Observed(panes[k]) => Observed(w.p), w.ok => Responded(w.p), Update(k, w)
        PROVE  PaneInv' /\ Recorded
    <2>1. Follows(panes[k], w.p) /\ w.p.exit = panes[k].exit /\ Noted(panes[k], w.p)
      BY <1>9 DEF Becomes, Follows, Noted
    <2>2. w.ok => Sound(w.p)
      BY <1>1, <1>9 DEF Sound, Settled
    <2> QED
      BY <1>1, <1>9, <2>1, <2>2, UpdateKeeps
  <1>10. CASE Update(k, Finished(k, "respond", lost))
    <2> DEFINE v == Finished(k, "respond", lost)
    <2>1. /\ Good(v) /\ SameBut(lost, v.p, {"actor_count"}) /\ Reads(v.p) /\ ExitNoted(v.p)
          /\ Becomes(panes[k], v.p) /\ (Observed(panes[k]) => Observed(v.p))
      BY <1>7, <1>8
    <2> HIDE DEF v
    <2>2. Responded(v.p)
      BY <1>7, <2>1 DEF SameBut, Responded
    <2>3. Update(k, v)
      BY <1>10 DEF v
    <2> QED
      BY <1>9, <2>1, <2>2, <2>3
  <1>11. ASSUME NEW w \in StartResponseWrite(Finished(k, "respond", wrote)), Update(k, w)
         PROVE  PaneInv' /\ Recorded
    <2> DEFINE v == Finished(k, "respond", wrote)
    <2>1. /\ Good(v) /\ Reads(v.p) /\ ExitNoted(v.p)
          /\ Becomes(panes[k], v.p) /\ (Observed(panes[k]) => Observed(v.p))
      BY <1>6, <1>8
    <2>2. w \in StartResponseWrite(v)
      OBVIOUS
    <2> HIDE DEF v
    <2>3. Good(w) /\ Extends(v, w) /\ (w.ok => Responded(w.p)) /\ v \in Outcome /\ w \in Outcome
      BY <2>1, <2>2, ResponseStarts DEF Good
    <2>4. Reads(w.p) /\ ExitNoted(w.p) /\ Becomes(panes[k], w.p) /\ (Observed(v.p) => Observed(w.p))
      BY <1>1, <2>1, <2>3, ExtendsKeeps
    <2> QED
      BY <1>9, <1>11, <2>1, <2>3, <2>4
  <1> QED
    BY <1>2, <1>10, <1>11

(* Input that was written leaves the queue; a write that failed clears it. *)
LEMMA FinishInputKeeps ==
  ASSUME PaneInv, NEW k \in Keys, FinishInput(k)
  PROVE  PaneInv' /\ Recorded
  <1> DEFINE idle == [panes[k] EXCEPT !.input_write_len = 0]
             wrote == [idle EXCEPT !.input = @ - panes[k].input_write_len]
             lost == [idle EXCEPT !.input = 0]
  <1>1. /\ phase = "running" /\ "input" \in tasks[k] /\ k \in Live(panes) /\ panes[k] \in Pane
        /\ Borrowed(panes[k], tasks[k]) /\ Sound(panes[k])
    BY CompletionFacts DEF FinishInput
  <1>2. \/ \E w \in StartInputWrite(Finished(k, "input", wrote)) : Update(k, w)
        \/ Update(k, Finished(k, "input", lost))
    BY DEF FinishInput
  <1>3. panes[k].input - panes[k].input_write_len \in 0 .. MaxInput /\ 0 \in 0 .. MaxInput
    <2>1. /\ panes[k].input \in 0 .. MaxInput /\ panes[k].input_write_len \in 0 .. MaxInput
          /\ panes[k].input_write_len <= panes[k].input
      BY <1>1 DEF Pane, Borrowed
    <2> QED
      BY <2>1, PaneAssumption
  <1>4. /\ idle \in Pane /\ SameBut(panes[k], idle, {"input_write_len"}) /\ idle.input_write_len = 0
    BY <1>1, <1>3 DEF Pane, SameBut
  <1>5. idle.input = panes[k].input
    BY <1>4 DEF SameBut
  <1> HIDE DEF idle
  <1>6. wrote \in Pane /\ SameBut(idle, wrote, {"input"})
    BY <1>3, <1>4, <1>5 DEF Pane, SameBut
  <1>7. lost \in Pane /\ SameBut(idle, lost, {"input"})
    BY <1>3, <1>4 DEF Pane, SameBut
  <1> HIDE DEF wrote, lost
  <1>8. ASSUME NEW q \in Pane, SameBut(idle, q, {"input"}), NEW v, v = Finished(k, "input", q)
        PROVE  /\ Good(v) /\ Reads(v.p) /\ ExitNoted(v.p) /\ Becomes(panes[k], v.p)
               /\ (Observed(panes[k]) => Observed(v.p)) /\ (Responded(panes[k]) => Responded(v.p))
    <2>1. q.actor_count = panes[k].actor_count /\ "input" \in Kinds
      BY <1>4, <1>8 DEF SameBut, Kinds
    <2>2. Ends(k, "input", q, v)
      BY <1>1, <1>8, <2>1, FinishedOutcome
    <2>3. q.input \in 0 .. MaxInput /\ q.input_write_len = 0 /\ v.p.input = q.input /\ v.p.input_write_len = 0
      BY <1>4, <1>8, <2>2 DEF Pane, Ends, SameBut
    <2>4. v.p.input_write_len <= v.p.input
      BY <2>3
    <2>5. Good(v)
      BY <1>1, <1>4, <1>8, <2>2, <2>3, <2>4 DEF Ends, Good, SameBut, Borrowed, FlagsMatch, Outcome
    <2> QED
      BY <1>1, <1>4, <1>8, <2>2, <2>5 DEF Ends, SameBut, Sound, Reads, ExitNoted, Becomes, Observed, Responded
  <1>9. ASSUME NEW w, Good(w), Reads(w.p), ExitNoted(w.p), Becomes(panes[k], w.p),
               Observed(panes[k]) => Observed(w.p), Responded(panes[k]) => Responded(w.p), Update(k, w)
        PROVE  PaneInv' /\ Recorded
    <2>1. Follows(panes[k], w.p) /\ w.p.exit = panes[k].exit /\ Noted(panes[k], w.p)
      BY <1>9 DEF Becomes, Follows, Noted
    <2>2. Sound(w.p)
      BY <1>1, <1>9 DEF Sound, Settled
    <2> QED
      BY <1>1, <1>9, <2>1, <2>2, UpdateKeeps
  <1>10. CASE Update(k, Finished(k, "input", lost))
    BY <1>7, <1>8, <1>9, <1>10
  <1>11. ASSUME NEW w \in StartInputWrite(Finished(k, "input", wrote)), Update(k, w)
         PROVE  PaneInv' /\ Recorded
    <2> DEFINE v == Finished(k, "input", wrote)
    <2>1. /\ Good(v) /\ Reads(v.p) /\ ExitNoted(v.p) /\ Becomes(panes[k], v.p)
          /\ (Observed(panes[k]) => Observed(v.p)) /\ (Responded(panes[k]) => Responded(v.p))
      BY <1>6, <1>8
    <2>2. w \in StartInputWrite(v)
      OBVIOUS
    <2> HIDE DEF v
    <2>3. Good(w) /\ Extends(v, w) /\ v \in Outcome /\ w \in Outcome
      BY <2>1, <2>2, InputStarts DEF Good
    <2>4. /\ Reads(w.p) /\ ExitNoted(w.p) /\ Becomes(panes[k], w.p)
          /\ (Observed(v.p) => Observed(w.p)) /\ (Responded(v.p) => Responded(w.p))
      BY <1>1, <2>1, <2>3, ExtendsKeeps
    <2> QED
      BY <1>9, <1>11, <2>1, <2>3, <2>4
  <1> QED
    BY <1>2, <1>10, <1>11

(* The exit of a child is counted; when its output has ended it is queued  *)
(* for history.                                                            *)
LEMMA FinishExitKeeps ==
  ASSUME PaneInv, NEW k \in Keys, FinishExit(k)
  PROVE  PaneInv' /\ Recorded
  <1> DEFINE gone == [panes[k] EXCEPT !.wait_pending = FALSE, !.exit = TRUE]
             drained == gone.launch = "running" /\ gone.output_done
             q == IF drained THEN QueueExitedHistory(gone) ELSE gone
             fin == Finished(k, "wait", q)
  <1>1. /\ phase = "running" /\ "wait" \in tasks[k] /\ k \in Live(panes) /\ panes[k] \in Pane
        /\ Borrowed(panes[k], tasks[k]) /\ Sound(panes[k])
    BY CompletionFacts DEF FinishExit
  <1>2. PICK w \in IF drained THEN StartObservation(fin) ELSE {fin} : Commit(k, w, exited_count + 1)
    BY DEF FinishExit
  <1>3. UNCHANGED <<next_key, next_tab>>
    BY DEF FinishExit
  <1>4. /\ gone \in Pane /\ SameBut(panes[k], gone, {"wait_pending", "exit"})
        /\ gone.wait_pending = FALSE /\ gone.exit = TRUE
    BY <1>1 DEF Pane, SameBut
  <1> HIDE DEF gone
  <1>5. ~panes[k].exit
    BY <1>1 DEF Borrowed, FlagsMatch
  <1>6. /\ q \in Pane /\ SameBut(gone, q, {"history_pending", "history_exit_queued"})
        /\ drained => q.history_exit_queued = TRUE /\ (~gone.history_exit_queued => q.history_pending = TRUE)
        /\ ~drained => q = gone
    BY <1>4, QueuedPane DEF SameBut
  <1> HIDE DEF q
  <1>7. Ends(k, "wait", q, fin)
    <2>1. q.actor_count = panes[k].actor_count /\ "wait" \in Kinds
      BY <1>4, <1>6 DEF SameBut, Kinds
    <2> QED
      BY <1>1, <1>6, <2>1, FinishedOutcome
  <1> HIDE DEF fin
  <1>8. Good(fin)
    BY <1>1, <1>4, <1>6, <1>7 DEF Ends, Good, SameBut, Borrowed, FlagsMatch, Outcome
  <1>9. /\ SameBut(panes[k], fin.p, {"wait_pending", "exit", "history_pending", "history_exit_queued", "actor_count"})
        /\ fin.p.exit = TRUE
    BY <1>4, <1>6, <1>7 DEF Ends, SameBut
  <1>10. /\ drained <=> fin.p.launch = "running" /\ fin.p.output_done
         /\ drained => /\ fin.p.history_exit_queued = TRUE
                       /\ ~panes[k].history_exit_queued => fin.p.history_pending = TRUE
         /\ ~drained => /\ fin.p.history_exit_queued = panes[k].history_exit_queued
                        /\ fin.p.history_pending = panes[k].history_pending
    BY <1>4, <1>6, <1>7 DEF Ends, SameBut
  <1> HIDE DEF drained
  <1>11. /\ Good(w) /\ Extends(fin, w)
         /\ drained => Observed(w.p) /\ (w.ok /\ fin.p.history_pending => w.p.observing)
         /\ ~drained => w = fin
    <2>1. CASE drained
      BY <1>2, <1>8, <2>1, ObservationStarts
    <2>2. CASE ~drained
      BY <1>2, <1>8, <2>2 DEF Extends
    <2> QED
      BY <2>1, <2>2
  <1>12. fin \in Outcome /\ w \in Outcome
    BY <1>8, <1>11 DEF Good
  <1>13. Reads(w.p) /\ (Responded(panes[k]) => Responded(w.p))
    <2>1. Reads(fin.p) /\ (Responded(panes[k]) => Responded(fin.p))
      BY <1>1, <1>9 DEF SameBut, Sound, Reads, Responded
    <2> QED
      BY <1>11, <1>12, <2>1, ExtendsKeeps
  <1>14. Observed(panes[k]) => Observed(w.p)
    BY <1>9, <1>10, <1>11 DEF SameBut, Observed
  <1>15. ExitNoted(w.p)
    BY <1>10, <1>11 DEF Extends, ExitNoted
  <1>16. Follows(panes[k], w.p) /\ w.p.exit = TRUE
    BY <1>9, <1>11 DEF SameBut, Extends, Follows
  <1>17. w.ok => Noted(panes[k], w.p)
    BY <1>10, <1>11 DEF Noted
  <1>18. exited_count + 1 = exited_count + (IF w.p.exit /\ ~panes[k].exit THEN 1 ELSE 0)
    BY <1>5, <1>16
  <1>19. Sound(w.p)
    BY <1>1, <1>13, <1>14, <1>15 DEF Sound, Settled
  <1> QED
    BY <1>1, <1>2, <1>3, <1>11, <1>16, <1>17, <1>18, <1>19, CommitKeeps

(* The VT and the media actor queue a response while they run. *)
LEMMA PushResponseKeeps ==
  ASSUME PaneInv, NEW k \in Keys, PushResponse(k)
  PROVE  PaneInv' /\ Recorded
  <1> DEFINE q == [panes[k] EXCEPT !.responses = @ + 1]
  <1>1. /\ phase \in {"running", "failed", "stopped"} /\ tasks[k] \cap {"ingest", "media"} # {}
        /\ panes[k].responses < MaxResponses /\ UNCHANGED <<tasks, next_key, count, exited_count, tabs, next_tab, phase>>
    BY DEF PushResponse
  <1>2. /\ StoreOK(panes, tasks, count, exited_count, tabs, next_key, next_tab)
        /\ BorrowsOK(panes, tasks) /\ panes \in [Keys -> Pane \cup {NoPane}] /\ tasks \in [Keys -> SUBSET Kinds]
    BY <1>1 DEF PaneInv, StoreOK
  <1>3. k \in Live(panes) /\ Live(panes) \subseteq Keys
    BY <1>1, <1>2 DEF StoreOK, Live
  <1>4. panes[k] \in Pane /\ Borrowed(panes[k], tasks[k])
    BY <1>2, <1>3 DEF BorrowsOK, Borrowed
  <1>5. panes[k].responses + 1 \in 0 .. MaxResponses /\ panes[k].responses + 1 # 0
    BY <1>1, <1>4, PaneAssumption DEF Pane
  <1>6. panes' = [panes EXCEPT ![k] = q] /\ tasks' = [tasks EXCEPT ![k] = tasks[k]]
    BY <1>1, <1>2 DEF PushResponse
  <1>7. q \in Pane /\ SameBut(panes[k], q, {"responses"}) /\ q.responses = panes[k].responses + 1
    BY <1>4, <1>5 DEF Pane, SameBut
  <1> HIDE DEF q
  <1>8. Borrowed(q, tasks[k]) /\ Follows(panes[k], q) /\ q.exit = panes[k].exit
    BY <1>4, <1>5, <1>7 DEF SameBut, Borrowed, FlagsMatch, Follows
  <1>9. exited_count = exited_count + (IF q.exit /\ ~panes[k].exit THEN 1 ELSE 0)
    <2>1. exited_count \in Nat
      BY <1>2, LiveFinite DEF StoreOK, Exited
    <2> QED
      BY <1>8, <2>1
  <1>10. /\ StoreOK(panes', tasks', count, exited_count, tabs, next_key, next_tab)
         /\ BorrowsOK(panes', tasks') /\ TabsOK(panes', tabs)
         /\ Live(panes') = Live(panes) /\ panes'[k] = q /\ \A j \in Keys : j # k => panes'[j] = panes[j]
    <2> DEFINE f == [panes EXCEPT ![k] = q]
               u == [tasks EXCEPT ![k] = tasks[k]]
    <2>1. phase \in {"running", "failed", "stopped"}
      BY <1>1
    <2>2. /\ StoreOK(f, u, count, exited_count, tabs, next_key, next_tab) /\ BorrowsOK(f, u) /\ TabsOK(f, tabs)
          /\ Live(f) = Live(panes) /\ f[k] = q /\ \A j \in Keys : j # k => f[j] = panes[j]
      BY <1>3, <1>8, <1>9, <2>1, ReplacedStore
    <2> HIDE DEF f, u
    <2>3. panes' = f /\ tasks' = u
      BY <1>6 DEF f, u
    <2> QED
      BY <2>2, <2>3
  <1>11. ASSUME phase = "running", NEW j \in Live(panes') PROVE Sound(panes'[j])
    <2>1. j \in Live(panes) /\ Sound(panes[j]) /\ (j # k => panes'[j] = panes[j])
      BY <1>3, <1>10, <1>11 DEF PaneInv
    <2>2. panes[k].ingest_pending \/ panes[k].media_working
      BY <1>1, <1>4 DEF Borrowed, FlagsMatch
    <2>3. CASE j = k
      BY <1>7, <1>10, <2>1, <2>2, <2>3 DEF SameBut, Sound, Reads, Settled, Observed, Responded, ExitNoted
    <2> QED
      BY <2>1, <2>3
  <1>12. ResizeFailsLate \/ CollectedWhenFree'
    <2>1. ASSUME CollectedWhenFree PROVE CollectedWhenFree'
      <3>1. \A j \in Live(panes') : j # k => panes'[j] = panes[j] /\ j \in Live(panes)
        BY <1>3, <1>10
      <3>2. tasks'[k] # {}
        BY <1>1
      <3> QED
        BY <1>1, <2>1, <3>1, <3>2 DEF CollectedWhenFree
    <2> QED
      BY <2>1 DEF PaneInv
  <1>13. PaneInv'
    BY <1>1, <1>10, <1>11, <1>12 DEF PaneInv
  <1>14. Recorded
    BY <1>3, <1>10 DEF Recorded, Live
  <1> QED
    BY <1>13, <1>14

--------------------------------------------------------------------------------
(* Client requests                                                         *)

(* A request finds a live pane and works on it. *)
LEMMA ServedFacts ==
  ASSUME PaneInv, NEW k \in Keys, Serves(k)
  PROVE  /\ phase = "running" /\ k \in Live(panes) /\ panes[k] \in Pane /\ Sound(panes[k])
         /\ Borrowed(panes[k], tasks[k]) /\ Good(Work(k)) /\ Work(k).p = panes[k] /\ Work(k).t = tasks[k] /\ Work(k).ok
  <1>1. phase = "running" /\ k \in Live(panes)
    BY DEF Serves, Live
  <1>2. panes[k] \in Pane /\ Borrowed(panes[k], tasks[k]) /\ Sound(panes[k]) /\ tasks[k] \in SUBSET Kinds
    BY <1>1 DEF PaneInv, BorrowsOK, Borrowed
  <1> QED
    BY <1>1, <1>2 DEF Work, Good, Outcome

(* A request that only attaches, detaches or closes. *)
LEMMA PlainRequestKeeps ==
  ASSUME PaneInv, NEW k \in Keys, Serves(k), NEW q \in Pane,
         SameBut(panes[k], q, {"close_requested", "observers"}), panes[k].close_requested => q.close_requested,
         NEW c, Answer(c, k, With(Work(k), q))
  PROVE  PaneInv' /\ Recorded
  <1> DEFINE w == With(Work(k), q)
  <1>1. /\ phase = "running" /\ k \in Live(panes) /\ panes[k] \in Pane /\ Sound(panes[k])
        /\ Borrowed(panes[k], tasks[k]) /\ Good(Work(k)) /\ Work(k).p = panes[k] /\ Work(k).t = tasks[k] /\ Work(k).ok
    BY ServedFacts
  <1>2. SameBut(panes[k], q, LooseFields) /\ (panes[k].response_pending => q.responses # 0)
    BY <1>1 DEF SameBut, LooseFields, Borrowed
  <1>3. Good(w) /\ w.p = q
    BY <1>1, <1>2, ReplacedGood
  <1>4. Becomes(panes[k], q) /\ Sound(q)
    BY <1>1 DEF SameBut, Becomes, Sound, Reads, Settled, Observed, Responded, ExitNoted
  <1> HIDE DEF w
  <1>5. Answer(c, k, w)
    BY DEF w
  <1> QED
    BY <1>1, <1>3, <1>4, <1>5, AnswerKeeps

(* A running pane gains an observer. *)
LEMMA AttachKeeps ==
  ASSUME PaneInv, NEW c \in Clients, NEW k \in Keys, Attach(c, k)
  PROVE  PaneInv' /\ Recorded
  <1> DEFINE q == [panes[k] EXCEPT !.observers = @ \cup {c}]
  <1>1. Serves(k)
    BY DEF Attach, Attachable
  <1>2. panes[k] \in Pane /\ Work(k).p = panes[k] /\ Work(k).ok
    BY <1>1, ServedFacts
  <1>3. q \in Pane /\ SameBut(panes[k], q, {"close_requested", "observers"}) /\ q.close_requested = panes[k].close_requested
    BY <1>2 DEF Pane, SameBut
  <1>4. Answer(c, k, With(Work(k), q))
    BY <1>2 DEF Attach, View
  <1> HIDE DEF q
  <1> QED
    BY <1>1, <1>3, <1>4, PlainRequestKeeps

(* A client closes the pane it observes. *)
LEMMA ClosePaneKeeps ==
  ASSUME PaneInv, NEW c \in Clients, NEW k \in Keys, ClosePane(c, k)
  PROVE  PaneInv' /\ Recorded
  <1> DEFINE q == RequestClose(panes[k])
  <1>1. Serves(k) /\ Answer(c, k, With(Work(k), q))
    BY DEF ClosePane
  <1>2. panes[k] \in Pane
    BY <1>1, ServedFacts
  <1>3. q \in Pane /\ SameBut(panes[k], q, {"close_requested", "observers"}) /\ q.close_requested = TRUE
    BY <1>2 DEF Pane, SameBut, RequestClose
  <1> HIDE DEF q
  <1> QED
    BY <1>1, <1>3, PlainRequestKeeps

(* A client detaches. *)
LEMMA DetachKeeps ==
  ASSUME PaneInv, NEW c \in Clients, NEW k \in Keys, Detach(c, k)
  PROVE  PaneInv' /\ Recorded
  <1> DEFINE q == [panes[k] EXCEPT !.observers = @ \ {c}]
  <1>1. Serves(k) /\ Answer(c, k, With(Work(k), q))
    BY DEF Detach
  <1>2. panes[k] \in Pane
    BY <1>1, ServedFacts
  <1>3. q \in Pane /\ SameBut(panes[k], q, {"close_requested", "observers"}) /\ q.close_requested = panes[k].close_requested
    BY <1>2 DEF Pane, SameBut
  <1> HIDE DEF q
  <1> QED
    BY <1>1, <1>3, PlainRequestKeeps

(* A client that is dropped is taken off every pane. *)
LEMMA DropClientKeeps ==
  ASSUME PaneInv, NEW c \in Clients, DropClient(c)
  PROVE  PaneInv' /\ Recorded
  <1> DEFINE g == Without(c, panes)
  <1>1. phase = "running" /\ Flush(g, tasks, count, exited_count, tabs) /\ UNCHANGED <<next_key, next_tab>>
    BY DEF DropClient
  <1>2. /\ StoreOK(panes, tasks, count, exited_count, tabs, next_key, next_tab) /\ BorrowsOK(panes, tasks)
        /\ TabsOK(panes, tabs) /\ \A k \in Live(panes) : Sound(panes[k])
    BY <1>1 DEF PaneInv
  <1>3. /\ StoreOK(g, tasks, count, exited_count, tabs, next_key, next_tab) /\ BorrowsOK(g, tasks) /\ TabsOK(g, tabs)
        /\ Live(g) = Live(panes) /\ \A k \in Live(panes) : SameBut(panes[k], g[k], {"observers"})
    BY <1>2, WithoutKeeps
  <1> HIDE DEF g
  <1>4. \A k \in Live(g) : Sound(g[k]) /\ Follows(panes[k], g[k]) /\ Noted(panes[k], g[k])
    BY <1>2, <1>3 DEF SameBut, Sound, Reads, Settled, Observed, Responded, ExitNoted, Follows, Noted
  <1>5. StoreOK(g, tasks, count, exited_count, tabs, next_key', next_tab')
    BY <1>1, <1>3
  <1>6. PaneInv'
    BY <1>1, <1>3, <1>4, <1>5, FlushKeeps
  <1>7. g \in [Keys -> Pane \cup {NoPane}]
    BY <1>3 DEF StoreOK
  <1>8. Recorded
    BY <1>1, <1>3, <1>4, <1>7, FlushRecords
  <1> QED
    BY <1>6, <1>8

(* A recheck starts an observation or leaves it to the running one; the    *)
(* start that fails is answered and the update goes on.                    *)
LEMMA RecheckKeeps ==
  ASSUME PaneInv, NEW k \in Keys, Recheck(k)
  PROVE  PaneInv' /\ Recorded
  <1> DEFINE q == [panes[k] EXCEPT !.recheck = TRUE]
             v == With(Work(k), q)
  <1>1. Serves(k)
    BY DEF Recheck
  <1>2. /\ phase = "running" /\ k \in Live(panes) /\ panes[k] \in Pane /\ Sound(panes[k])
        /\ Borrowed(panes[k], tasks[k]) /\ Good(Work(k)) /\ Work(k).p = panes[k] /\ Work(k).t = tasks[k] /\ Work(k).ok
    BY <1>1, ServedFacts
  <1>3. PICK w \in StartObservation(v) : Update(k, [w EXCEPT !.ok = TRUE])
    BY DEF Recheck
  <1>4. q \in Pane /\ SameBut(panes[k], q, {})
    BY <1>2 DEF Pane, SameBut
  <1> HIDE DEF q
  <1>5. SameBut(panes[k], q, LooseFields) /\ (panes[k].response_pending => q.responses # 0)
    BY <1>2, <1>4 DEF SameBut, LooseFields, Borrowed
  <1>6. Good(v) /\ v.p = q
    BY <1>2, <1>4, <1>5, ReplacedGood
  <1> HIDE DEF v
  <1>7. Good(w) /\ Extends(v, w) /\ Observed(w.p) /\ v \in Outcome /\ w \in Outcome
    BY <1>3, <1>6, ObservationStarts DEF Good
  <1> DEFINE z == [w EXCEPT !.ok = TRUE]
  <1>8. Good(z) /\ z.p = w.p
    BY <1>7 DEF Good, Outcome
  <1>9. Update(k, z)
    BY <1>3
  <1> HIDE DEF z
  <1>10. Reads(v.p) /\ ExitNoted(v.p) /\ Becomes(panes[k], v.p) /\ (Responded(panes[k]) => Responded(v.p))
    BY <1>2, <1>4, <1>6 DEF SameBut, Sound, Reads, ExitNoted, Becomes, Responded
  <1>11. Reads(w.p) /\ ExitNoted(w.p) /\ Becomes(panes[k], w.p) /\ (Responded(v.p) => Responded(w.p))
    BY <1>2, <1>7, <1>10, ExtendsKeeps
  <1>12. Follows(panes[k], z.p) /\ z.p.exit = panes[k].exit /\ Noted(panes[k], z.p)
    BY <1>8, <1>11 DEF Becomes, Follows, Noted
  <1>13. Sound(z.p)
    BY <1>2, <1>7, <1>8, <1>10, <1>11 DEF Sound, Settled
  <1> QED
    BY <1>2, <1>8, <1>9, <1>12, <1>13, UpdateKeeps

(* The starts that follow a resize. *)
LEMMA AfterResizePane ==
  ASSUME NEW v, Good(v), NEW w \in AfterResize(v)
  PROVE  /\ Good(w) /\ Extends(v, w) /\ Observed(w.p)
         /\ ResizeFailsLate \/ w.ok
         /\ w.ok /\ v.p.media_pending => w.p.media_working
  <1>1. PICK o \in StartObservation(v) : w \in IF o.ok THEN StartMedia(o) ELSE {o}
    BY DEF AfterResize
  <1>2. w.ok \/ ResizeFailsLate
    BY DEF AfterResize
  <1>3. Good(o) /\ Extends(v, o) /\ Observed(o.p) /\ v \in Outcome /\ o \in Outcome
    BY <1>1, ObservationStarts DEF Good
  <1>4. o.p.media_pending = v.p.media_pending
    BY <1>1, ObservationStarts
  <1>5. CASE ~o.ok
    BY <1>1, <1>2, <1>3, <1>5
  <1>6. CASE o.ok
    <2>1. Good(w) /\ Extends(o, w) /\ (w.ok /\ o.p.media_pending => w.p.media_working) /\ w \in Outcome
      BY <1>1, <1>3, <1>6, MediaStarts DEF Good
    <2>2. Extends(v, w) /\ Observed(w.p)
      BY <1>3, <2>1, ExtendsTransitive, ExtendsKeeps
    <2> QED
      BY <1>2, <1>4, <2>1, <2>2
  <1> QED
    BY <1>5, <1>6

(* A size that is asked for. *)
LEMMA AskedPane ==
  ASSUME NEW p \in Pane
  PROVE  Asked(p) \in Pane /\ SameBut(p, Asked(p), {}) /\ Asked(p).resize = TRUE
  BY DEF Asked, Pane, SameBut

(* What a resize request makes of the pane before its starts: p is the     *)
(* pane asked to resize, resized, or left by a resize that failed.         *)
LEMMA RequestedPane ==
  ASSUME PaneInv, NEW k \in Keys, Serves(k), NEW p \in Pane, SameBut(panes[k], p, ResizeFields),
         panes[k].responses # 0 => p.responses # 0
  PROVE  /\ Good(With(Work(k), p)) /\ With(Work(k), p).p = p /\ With(Work(k), p).ok
         /\ Reads(p) /\ ExitNoted(p) /\ Becomes(panes[k], p)
  <1>1. /\ panes[k] \in Pane /\ Sound(panes[k]) /\ Borrowed(panes[k], tasks[k])
        /\ Good(Work(k)) /\ Work(k).p = panes[k] /\ Work(k).ok
    BY ServedFacts
  <1>2. SameBut(panes[k], p, LooseFields) /\ (panes[k].response_pending => p.responses # 0)
    BY <1>1 DEF SameBut, LooseFields, ResizeFields, Borrowed
  <1>3. Reads(p) /\ ExitNoted(p) /\ Becomes(panes[k], p)
    BY <1>1 DEF SameBut, ResizeFields, Sound, Reads, ExitNoted, Becomes
  <1> QED
    BY <1>1, <1>2, <1>3, ReplacedGood

(* A request whose starts made w of the pane p. *)
LEMMA ResizedRequestKeeps ==
  ASSUME PaneInv, NEW c, NEW k \in Keys, Serves(k), NEW p \in Pane, SameBut(panes[k], p, ResizeFields),
         panes[k].responses # 0 => p.responses # 0, NEW w, Good(w), Extends(With(Work(k), p), w),
         ResizeFailsLate \/ (Observed(w.p) /\ Responded(w.p)),
         NEW z, Good(z), SameBut(w.p, z.p, {"close_requested", "observers"}),
         w.p.close_requested => z.p.close_requested, Answer(c, k, z)
  PROVE  PaneInv' /\ Recorded
  <1> DEFINE v == With(Work(k), p)
  <1>1. phase = "running" /\ k \in Live(panes) /\ panes[k] \in Pane
    BY ServedFacts
  <1>2. Good(v) /\ v.p = p /\ Reads(v.p) /\ ExitNoted(v.p) /\ Becomes(panes[k], v.p)
    BY RequestedPane
  <1> HIDE DEF v
  <1>3. v \in Outcome /\ w \in Outcome /\ Extends(v, w)
    BY <1>2 DEF Good, v
  <1>4. Reads(w.p) /\ ExitNoted(w.p) /\ Becomes(panes[k], w.p)
    BY <1>1, <1>2, <1>3, ExtendsKeeps
  <1>5. Becomes(panes[k], z.p) /\ Sound(z.p)
    BY <1>4 DEF SameBut, Becomes, Sound, Reads, Settled, Observed, Responded, ExitNoted
  <1> QED
    BY <1>1, <1>5, AnswerKeeps

(* The client that attaches is an observer unless its request failed. *)
LEMMA ViewedPane ==
  ASSUME NEW c \in Clients, NEW w, Good(w)
  PROVE  /\ Good(View(c, w)) /\ SameBut(w.p, View(c, w).p, {"close_requested", "observers"})
         /\ w.p.close_requested => View(c, w).p.close_requested
  <1> DEFINE q == [w.p EXCEPT !.observers = @ \cup {c}]
  <1>1. w.p \in Pane
    BY DEF Good, Outcome
  <1>2. q \in Pane /\ SameBut(w.p, q, {"observers"})
    BY <1>1 DEF Pane, SameBut
  <1>3. View(c, w) = IF w.ok THEN With(w, q) ELSE w
    BY DEF View
  <1> HIDE DEF q
  <1>4. SameBut(w.p, q, LooseFields) /\ (w.p.response_pending => q.responses # 0)
    BY <1>2 DEF SameBut, LooseFields, Good, Borrowed
  <1>5. Good(With(w, q)) /\ With(w, q).p = q
    BY <1>2, <1>4, ReplacedGood
  <1> QED
    BY <1>2, <1>3, <1>5 DEF SameBut

(* The lease holder attaches and resizes. *)
LEMMA AttachResizedKeeps ==
  ASSUME PaneInv, NEW c \in Clients, NEW k \in Keys, AttachResized(c, k)
  PROVE  PaneInv' /\ Recorded
  <1> DEFINE a == Asked(panes[k])
  <1>1. Serves(k)
    BY DEF AttachResized, Attachable
  <1>2. panes[k] \in Pane /\ Sound(panes[k])
    BY <1>1, ServedFacts
  <1>3. IF panes[k].ingest_pending
        THEN \E w \in AfterResize(With(Work(k), a)) : Answer(c, k, View(c, w))
        ELSE \/ \E p \in ApplySucceeds(a) : \E w \in AfterResize(With(Work(k), p)) : Answer(c, k, View(c, w))
             \/ \E p \in ApplyFails(a) : Answer(c, k, With(Work(k), p))
    BY DEF AttachResized
  <1>4. a \in Pane /\ SameBut(panes[k], a, {}) /\ a.resize = TRUE
    BY <1>2, AskedPane
  <1> HIDE DEF a
  <1>5. ASSUME NEW p \in Pane, SameBut(panes[k], p, ResizeFields), panes[k].responses # 0 => p.responses # 0,
               p.media_pending = TRUE \/ Responded(p), NEW w \in AfterResize(With(Work(k), p)), Answer(c, k, View(c, w))
        PROVE  PaneInv' /\ Recorded
    <2> DEFINE v == With(Work(k), p)
    <2>1. Good(v) /\ v.p = p
      BY <1>1, <1>5, RequestedPane
    <2>2. w \in AfterResize(v)
      BY <1>5
    <2> HIDE DEF v
    <2>3. /\ Good(w) /\ Extends(v, w) /\ Observed(w.p) /\ (ResizeFailsLate \/ w.ok)
          /\ w.ok /\ v.p.media_pending => w.p.media_working
      BY <2>1, <2>2, AfterResizePane
    <2>4. v \in Outcome /\ w \in Outcome
      BY <2>1, <2>3 DEF Good
    <2>5. w.ok => Responded(w.p)
      <3>1. CASE p.media_pending = TRUE
        BY <2>1, <2>3, <3>1 DEF Responded
      <3>2. CASE Responded(p)
        BY <2>1, <2>3, <2>4, <3>2, ExtendsKeeps
      <3> QED
        BY <1>5, <3>1, <3>2
    <2>6. /\ Good(View(c, w)) /\ SameBut(w.p, View(c, w).p, {"close_requested", "observers"})
          /\ w.p.close_requested => View(c, w).p.close_requested
      BY <2>3, ViewedPane
    <2>7. Extends(With(Work(k), p), w)
      BY <2>3 DEF v
    <2>8. ResizeFailsLate \/ (Observed(w.p) /\ Responded(w.p))
      BY <2>3, <2>5
    <2> QED
      BY <1>1, <1>5, <2>3, <2>6, <2>7, <2>8, ResizedRequestKeeps
  <1>6. CASE panes[k].ingest_pending
    <2>1. SameBut(panes[k], a, ResizeFields) /\ (panes[k].responses # 0 => a.responses # 0) /\ Responded(a)
      BY <1>4, <1>6 DEF SameBut, ResizeFields, Responded
    <2> QED
      BY <1>3, <1>4, <1>5, <1>6, <2>1
  <1>7. ASSUME NEW p \in ApplySucceeds(a) \cup ApplyFails(a)
        PROVE  p \in Pane /\ SameBut(panes[k], p, ResizeFields) /\ (panes[k].responses # 0 => p.responses # 0)
    <2>1. p \in Pane /\ SameBut(a, p, ResizeFields) /\ (a.responses # 0 => p.responses # 0)
      BY <1>4, <1>7, AppliedPane
    <2> QED
      BY <1>4, <2>1 DEF SameBut, ResizeFields
  <1>8. ASSUME NEW p \in ApplySucceeds(a), NEW w \in AfterResize(With(Work(k), p)), Answer(c, k, View(c, w))
        PROVE  PaneInv' /\ Recorded
    <2>1. p.media_pending = TRUE
      BY <1>4, <1>8, AppliedPane
    <2> QED
      BY <1>5, <1>7, <1>8, <2>1
  <1>9. ASSUME NEW p \in ApplyFails(a), Answer(c, k, With(Work(k), p))
        PROVE  PaneInv' /\ Recorded
    <2> DEFINE v == With(Work(k), p)
    <2>1. p \in Pane /\ SameBut(panes[k], p, ResizeFields) /\ (panes[k].responses # 0 => p.responses # 0)
      BY <1>7, <1>9
    <2>2. Good(v) /\ v.p = p /\ v.ok
      BY <1>1, <2>1, RequestedPane
    <2>3. Extends(v, v) /\ SameBut(v.p, v.p, {"close_requested", "observers"})
      BY DEF Extends, SameBut
    <2>4. ResizeFailsLate \/ (Observed(p) /\ Responded(p))
      <3>1. ~ResizeFailsLate => p = a
        BY <1>4, <1>9, AppliedPane
      <3> QED
        BY <1>2, <1>4, <3>1 DEF SameBut, Sound, Settled, Observed, Responded
    <2> QED
      BY <1>1, <1>9, <2>1, <2>2, <2>3, <2>4, ResizedRequestKeeps
  <1> QED
    BY <1>3, <1>6, <1>8, <1>9

(* A client resizes the pane it observes. *)
LEMMA ResizePaneKeeps ==
  ASSUME PaneInv, NEW c \in Clients, NEW k \in Keys, ResizePane(c, k)
  PROVE  PaneInv' /\ Recorded
  <1> DEFINE a == Asked(panes[k])
  <1>1. Serves(k)
    BY DEF ResizePane
  <1>2. panes[k] \in Pane /\ Sound(panes[k])
    BY <1>1, ServedFacts
  <1>3. IF panes[k].ingest_pending
        THEN Answer(c, k, With(Work(k), a))
        ELSE \/ \E p \in ApplySucceeds(a) : \E m \in AfterResize(With(Work(k), p)) :
                \E w \in IF m.ok THEN StartResponseWrite(m) ELSE {m} : Answer(c, k, w)
             \/ \E p \in ApplyFails(a) : Answer(c, k, With(Work(k), RequestClose(p)))
    BY DEF ResizePane
  <1>4. a \in Pane /\ SameBut(panes[k], a, {}) /\ a.resize = TRUE
    BY <1>2, AskedPane
  <1> HIDE DEF a
  <1>5. ResizeFailsLate \/ (Observed(a) /\ Responded(a))
    BY <1>2, <1>4 DEF SameBut, Sound, Settled, Observed, Responded
  <1>6. CASE panes[k].ingest_pending
    <2>1. a.close_requested = panes[k].close_requested /\ SameBut(panes[k], a, {"close_requested", "observers"})
      BY <1>4 DEF SameBut
    <2> QED
      BY <1>1, <1>3, <1>4, <1>6, <2>1, PlainRequestKeeps
  <1>7. ASSUME NEW p \in ApplySucceeds(a) \cup ApplyFails(a)
        PROVE  p \in Pane /\ SameBut(panes[k], p, ResizeFields) /\ (panes[k].responses # 0 => p.responses # 0)
    <2>1. p \in Pane /\ SameBut(a, p, ResizeFields) /\ (a.responses # 0 => p.responses # 0)
      BY <1>4, <1>7, AppliedPane
    <2> QED
      BY <1>4, <2>1 DEF SameBut, ResizeFields
  <1>8. ASSUME NEW p \in ApplySucceeds(a), NEW m \in AfterResize(With(Work(k), p)),
               NEW w \in IF m.ok THEN StartResponseWrite(m) ELSE {m}, Answer(c, k, w)
        PROVE  PaneInv' /\ Recorded
    <2> DEFINE v == With(Work(k), p)
    <2>1. p.media_pending = TRUE
      BY <1>4, <1>8, AppliedPane
    <2>2. p \in Pane /\ SameBut(panes[k], p, ResizeFields) /\ (panes[k].responses # 0 => p.responses # 0)
      BY <1>7, <1>8
    <2>3. Good(v) /\ v.p = p
      BY <1>1, <2>2, RequestedPane
    <2>4. m \in AfterResize(v)
      BY <1>8
    <2> HIDE DEF v
    <2>5. /\ Good(m) /\ Extends(v, m) /\ Observed(m.p) /\ (ResizeFailsLate \/ m.ok)
          /\ m.ok /\ v.p.media_pending => m.p.media_working
      BY <2>3, <2>4, AfterResizePane
    <2>6. Good(w) /\ Extends(m, w)
      <3>1. CASE m.ok
        BY <1>8, <2>5, <3>1, ResponseStarts
      <3>2. CASE ~m.ok
        BY <1>8, <2>5, <3>2 DEF Extends
      <3> QED
        BY <3>1, <3>2
    <2>7. v \in Outcome /\ m \in Outcome /\ w \in Outcome
      BY <2>3, <2>5, <2>6 DEF Good
    <2>8. Extends(v, w)
      BY <2>5, <2>6, <2>7, ExtendsTransitive
    <2>9. ResizeFailsLate \/ (Observed(w.p) /\ Responded(w.p))
      <3>1. m.ok => Responded(m.p)
        BY <2>1, <2>3, <2>5 DEF Responded
      <3> QED
        BY <2>5, <2>6, <2>7, <3>1, ExtendsKeeps
    <2>10. Extends(With(Work(k), p), w)
      BY <2>8 DEF v
    <2>11. SameBut(w.p, w.p, {"close_requested", "observers"})
      BY DEF SameBut
    <2> QED
      BY <1>1, <1>8, <2>2, <2>6, <2>9, <2>10, <2>11, ResizedRequestKeeps
  <1>9. ASSUME NEW p \in ApplyFails(a), Answer(c, k, With(Work(k), RequestClose(p)))
        PROVE  PaneInv' /\ Recorded
    <2> DEFINE v == With(Work(k), p)
               q == RequestClose(p)
               z == With(Work(k), q)
    <2>1. p \in Pane /\ SameBut(panes[k], p, ResizeFields) /\ (panes[k].responses # 0 => p.responses # 0)
      BY <1>7, <1>9
    <2>2. Good(v) /\ v.p = p /\ Extends(v, v)
      BY <1>1, <2>1, RequestedPane DEF Extends
    <2>3. ResizeFailsLate \/ (Observed(p) /\ Responded(p))
      <3>1. ~ResizeFailsLate => p = a
        BY <1>4, <1>9, AppliedPane
      <3> QED
        BY <1>5, <3>1
    <2>4. q \in Pane /\ SameBut(p, q, {"close_requested", "observers"}) /\ q.close_requested = TRUE
      BY <2>1 DEF Pane, SameBut, RequestClose
    <2> HIDE DEF q
    <2>5. Good(z) /\ z.p = q
      <3>1. /\ panes[k] \in Pane /\ Borrowed(panes[k], tasks[k]) /\ Good(Work(k)) /\ Work(k).p = panes[k]
        BY <1>1, ServedFacts
      <3>2. SameBut(panes[k], q, LooseFields) /\ (panes[k].response_pending => q.responses # 0)
        BY <2>1, <2>4, <3>1 DEF SameBut, ResizeFields, LooseFields, Borrowed
      <3> QED
        BY <2>4, <3>1, <3>2, ReplacedGood
    <2>6. Answer(c, k, z)
      BY <1>9 DEF q
    <2> HIDE DEF z
    <2> QED
      BY <1>1, <2>1, <2>2, <2>3, <2>4, <2>5, <2>6, ResizedRequestKeeps
  <1> QED
    BY <1>3, <1>6, <1>8, <1>9

(* Input queues behind the write that runs, or starts one. *)
LEMMA SendInputKeeps ==
  ASSUME PaneInv, NEW c \in Clients, NEW k \in Keys, SendInput(c, k)
  PROVE  PaneInv' /\ Recorded
  <1> DEFINE q == [panes[k] EXCEPT !.history_pending = TRUE]
             v == With(Work(k), q)
  <1>1. Serves(k) /\ panes[k].input < MaxInput
    BY DEF SendInput
  <1>2. /\ phase = "running" /\ k \in Live(panes) /\ panes[k] \in Pane /\ Sound(panes[k])
        /\ Borrowed(panes[k], tasks[k]) /\ Good(Work(k)) /\ Work(k).p = panes[k] /\ Work(k).t = tasks[k] /\ Work(k).ok
    BY <1>1, ServedFacts
  <1>3. PICK o \in StartObservation(v) :
          \E w \in IF o.ok THEN StartInputWrite(With(o, [o.p EXCEPT !.input = @ + 1])) ELSE {o} : Answer(c, k, w)
    BY DEF SendInput
  <1>4. q \in Pane /\ SameBut(panes[k], q, {"history_pending"})
    BY <1>2 DEF Pane, SameBut
  <1> HIDE DEF q
  <1>5. SameBut(panes[k], q, LooseFields) /\ (panes[k].response_pending => q.responses # 0)
    BY <1>2, <1>4 DEF SameBut, LooseFields, Borrowed
  <1>6. Good(v) /\ v.p = q
    BY <1>2, <1>4, <1>5, ReplacedGood
  <1> HIDE DEF v
  <1>7. Good(o) /\ Extends(v, o) /\ Observed(o.p) /\ v \in Outcome /\ o \in Outcome /\ o.p \in Pane
    BY <1>3, <1>6, ObservationStarts DEF Good, Outcome
  <1>8. Reads(v.p) /\ ExitNoted(v.p) /\ Becomes(panes[k], v.p) /\ (Responded(panes[k]) => Responded(v.p))
    BY <1>2, <1>4, <1>6 DEF SameBut, Sound, Reads, ExitNoted, Becomes, Responded
  <1>9. Reads(o.p) /\ ExitNoted(o.p) /\ Becomes(panes[k], o.p) /\ (Responded(v.p) => Responded(o.p))
    BY <1>2, <1>7, <1>8, ExtendsKeeps
  <1>10. Sound(o.p)
    BY <1>2, <1>7, <1>8, <1>9 DEF Sound, Settled
  <1>11. CASE ~o.ok
    <2>1. Answer(c, k, o)
      BY <1>3, <1>11
    <2> QED
      BY <1>2, <1>7, <1>9, <1>10, <2>1, AnswerKeeps
  <1>12. CASE o.ok
    <2> DEFINE z == [o.p EXCEPT !.input = @ + 1]
               u == With(o, z)
    <2>1. PICK w \in StartInputWrite(u) : Answer(c, k, w)
      BY <1>3, <1>12
    <2>2. o.p.input = panes[k].input
      BY <1>4, <1>6, <1>7 DEF Extends, SameBut
    <2>3. o.p.input \in 0 .. MaxInput /\ o.p.input_write_len \in 0 .. MaxInput /\ o.p.input_write_len <= o.p.input
      BY <1>7 DEF Pane, Good, Borrowed
    <2>4. o.p.input + 1 \in 0 .. MaxInput /\ o.p.input_write_len <= o.p.input + 1
      BY <1>1, <2>2, <2>3, PaneAssumption
    <2>5. z \in Pane /\ SameBut(o.p, z, {"input"}) /\ z.input = o.p.input + 1
      BY <1>7, <2>4 DEF Pane, SameBut
    <2> HIDE DEF z
    <2>6. u \in Outcome /\ u.p = z /\ u.t = o.t /\ u.ok = o.ok
      BY <1>7, <2>5, WithOutcome
    <2> HIDE DEF u
    <2>7. Borrowed(z, o.t)
      BY <1>7, <2>4, <2>5 DEF Good, Borrowed, FlagsMatch, SameBut
    <2>8. Good(u)
      BY <2>6, <2>7 DEF Good
    <2>9. Sound(z) /\ Becomes(panes[k], z)
      BY <1>9, <1>10, <2>5 DEF SameBut, Sound, Reads, Settled, Observed, Responded, ExitNoted, Becomes
    <2>10. Good(w) /\ Extends(u, w) /\ w \in Outcome
      BY <2>1, <2>8, InputStarts DEF Good
    <2>11. Sound(w.p) /\ Becomes(panes[k], w.p)
      BY <1>2, <2>6, <2>9, <2>10, ExtendsKeeps DEF Sound, Settled
    <2> QED
      BY <1>2, <2>1, <2>10, <2>11, AnswerKeeps
  <1> QED
    BY <1>11, <1>12

--------------------------------------------------------------------------------
(* Launches, tabs and teardown                                             *)

(* The panes of a removed tab are asked to close. *)
LEMMA CloseTabKeeps ==
  ASSUME PaneInv, NEW tab \in TabIds, CloseTab(tab)
  PROVE  PaneInv' /\ Recorded
  <1> DEFINE g == [k \in Keys |-> IF k \in At(panes, tab) THEN RequestClose(panes[k]) ELSE panes[k]]
             ts == tabs \ {tab}
  <1>1. /\ phase = "running" /\ tab \in tabs /\ Flush(g, tasks, count, exited_count, ts)
        /\ UNCHANGED <<next_key, next_tab>>
    BY DEF CloseTab
  <1>2. /\ StoreOK(panes, tasks, count, exited_count, tabs, next_key, next_tab) /\ BorrowsOK(panes, tasks)
        /\ TabsOK(panes, tabs) /\ \A k \in Live(panes) : Sound(panes[k])
    BY <1>1 DEF PaneInv
  <1>3. panes \in [Keys -> Pane \cup {NoPane}] /\ Live(panes) \subseteq Keys
    BY <1>2 DEF StoreOK, Live
  <1>4. ASSUME NEW k \in Live(panes)
        PROVE  /\ g[k] \in Pane /\ g[k] # NoPane /\ SameBut(panes[k], g[k], {"close_requested"})
               /\ panes[k].close_requested => g[k].close_requested
               /\ panes[k].tab = tab => g[k].close_requested
    <2>1. panes[k] \in Pane /\ k \in Keys
      BY <1>3, <1>4, LivePane
    <2>2. k \in At(panes, tab) <=> panes[k].tab = tab
      BY <1>4 DEF At
    <2>3. CASE panes[k].tab = tab
      <3>1. g[k] = [panes[k] EXCEPT !.close_requested = TRUE]
        BY <2>1, <2>2, <2>3 DEF RequestClose
      <3> HIDE DEF g
      <3>2. g[k] \in Pane /\ SameBut(panes[k], g[k], {"close_requested"}) /\ g[k].close_requested = TRUE
        BY <2>1, <3>1 DEF Pane, SameBut
      <3> QED
        BY <3>2, PaneAssumption
    <2>4. CASE panes[k].tab # tab
      <3>1. g[k] = panes[k]
        BY <2>1, <2>2, <2>4
      <3> QED
        BY <2>1, <2>4, <3>1, PaneAssumption DEF SameBut
    <2> QED
      BY <2>3, <2>4
  <1>5. \A k \in Keys : k \notin Live(panes) => g[k] = NoPane /\ panes[k] = NoPane
    BY DEF Live, At
  <1>6. g \in [Keys -> Pane \cup {NoPane}]
    <2>1. \A k \in Keys : g[k] \in Pane \cup {NoPane}
      BY <1>4, <1>5
    <2>2. g = [k \in Keys |-> g[k]]
      OBVIOUS
    <2> HIDE DEF g
    <2> QED
      BY <2>1, <2>2
  <1> HIDE DEF g
  <1>7. Live(g) = Live(panes)
    BY <1>3, <1>4, <1>5 DEF Live
  <1>8. Exited(g) = Exited(panes)
    BY <1>4, <1>7 DEF Exited, SameBut
  <1>9. StoreOK(g, tasks, count, exited_count, ts, next_key', next_tab')
    <2>1. \A k \in Keys : g[k] = NoPane <=> panes[k] = NoPane
      BY <1>4, <1>5 DEF Live
    <2> QED
      BY <1>1, <1>2, <1>6, <1>7, <1>8, <2>1 DEF StoreOK
  <1>10. BorrowsOK(g, tasks)
    BY <1>2, <1>4, <1>7 DEF BorrowsOK, SameBut, Borrowed, FlagsMatch
  <1>11. TabsOK(g, ts)
    <2>1. \A x \in ts : \E k \in Live(g) : g[k].tab = x
      BY <1>2, <1>4, <1>7 DEF TabsOK, SameBut
    <2>2. ASSUME NEW k \in Live(g), g[k].tab \notin ts PROVE g[k].close_requested \/ g[k].exit
      BY <1>2, <1>4, <1>7, <2>2 DEF TabsOK, SameBut
    <2> QED
      BY <2>1, <2>2 DEF TabsOK
  <1> HIDE DEF ts
  <1>12. \A k \in Live(g) : Sound(g[k]) /\ Follows(panes[k], g[k]) /\ Noted(panes[k], g[k])
    BY <1>2, <1>4, <1>7 DEF SameBut, Sound, Reads, Settled, Observed, Responded, ExitNoted, Follows, Noted
  <1>13. PaneInv'
    BY <1>1, <1>9, <1>10, <1>11, <1>12, FlushKeeps
  <1>14. Recorded
    BY <1>1, <1>6, <1>7, <1>10, <1>12, FlushRecords
  <1> QED
    BY <1>13, <1>14

(* A launched pane p joins the store at a new identity. *)
LEMMA LaunchedStore ==
  ASSUME PaneInv, phase = "running", next_key \in Keys, count < Capacity, NEW p, NEW t, Borrowed(p, t), Sound(p),
         ~p.exit, NEW ts, ts \subseteq TabIds, tabs \subseteq ts, \A tab \in ts \ tabs : tab = p.tab,
         p.tab \in ts \/ p.close_requested, next_tab' \in 1 .. MaxTab + 1, \A tab \in ts : tab < next_tab',
         next_key' = next_key + 1,
         Flush([panes EXCEPT ![next_key] = p], [tasks EXCEPT ![next_key] = t], count + 1, exited_count, ts)
  PROVE  PaneInv' /\ Recorded
  <1> DEFINE f == [panes EXCEPT ![next_key] = p]
             u == [tasks EXCEPT ![next_key] = t]
  <1>1. /\ StoreOK(panes, tasks, count, exited_count, tabs, next_key, next_tab) /\ BorrowsOK(panes, tasks)
        /\ TabsOK(panes, tabs) /\ \A k \in Live(panes) : Sound(panes[k])
    BY DEF PaneInv
  <1>2. panes \in [Keys -> Pane \cup {NoPane}] /\ tasks \in [Keys -> SUBSET Kinds]
    BY <1>1 DEF StoreOK
  <1>3. p \in Pane /\ p # NoPane /\ t \in SUBSET Kinds
    BY PaneAssumption DEF Borrowed
  <1>4. next_key \in Nat /\ MaxKey \in Nat /\ next_key <= MaxKey /\ next_key >= 1
    BY PaneAssumption DEF Keys
  <1>5. panes[next_key] = NoPane
    BY <1>1, <1>4 DEF StoreOK
  <1>6. f[next_key] = p /\ u[next_key] = t /\ \A j \in Keys : j # next_key => f[j] = panes[j] /\ u[j] = tasks[j]
    BY <1>2
  <1>7. f \in [Keys -> Pane \cup {NoPane}] /\ u \in [Keys -> SUBSET Kinds]
    BY <1>2, <1>3
  <1>8. Flush(f, u, count + 1, exited_count, ts)
    OBVIOUS
  <1> HIDE DEF f, u
  <1>9. Live(f) = Live(panes) \cup {next_key} /\ next_key \notin Live(panes)
    BY <1>3, <1>5, <1>6 DEF Live
  <1>10. \A j \in Live(panes) : j # next_key /\ f[j] = panes[j] /\ u[j] = tasks[j]
    BY <1>5, <1>6 DEF Live
  <1>11. Exited(f) = Exited(panes)
    BY <1>6, <1>9, <1>10 DEF Exited
  <1>12. count + 1 = Cardinality(Live(f)) /\ count + 1 <= Capacity
    <2>1. IsFiniteSet(Live(panes)) /\ count = Cardinality(Live(panes)) /\ count \in Nat
      BY <1>1, LiveFinite DEF StoreOK
    <2>2. Cardinality(Live(f)) = Cardinality(Live(panes)) + 1
      BY <1>9, <2>1, FS_AddElement
    <2> QED
      BY <2>1, <2>2, PaneAssumption
  <1>13. StoreOK(f, u, count + 1, exited_count, ts, next_key', next_tab')
    <2>1. \A k \in Keys : f[k] = NoPane => u[k] = {}
      BY <1>1, <1>3, <1>6 DEF StoreOK
    <2>2. \A k \in Keys : k >= next_key + 1 => f[k] = NoPane
      <3>1. ASSUME NEW k \in Keys, k >= next_key + 1 PROVE k # next_key /\ k >= next_key
        BY <1>4, <3>1 DEF Keys
      <3> QED
        BY <1>1, <1>6, <3>1 DEF StoreOK
    <2>3. next_key + 1 \in 1 .. MaxKey + 1
      BY <1>4
    <2> QED
      BY <1>1, <1>7, <1>11, <1>12, <2>1, <2>2, <2>3 DEF StoreOK
  <1>14. BorrowsOK(f, u)
    BY <1>1, <1>6, <1>9, <1>10 DEF BorrowsOK
  <1>15. TabsOK(f, ts)
    <2>1. ASSUME NEW tab \in ts PROVE \E k \in Live(f) : f[k].tab = tab
      <3>1. CASE tab \in tabs
        BY <1>1, <1>9, <1>10, <3>1 DEF TabsOK
      <3>2. CASE tab \notin tabs
        BY <1>6, <1>9, <2>1, <3>2
      <3> QED
        BY <3>1, <3>2
    <2>2. ASSUME NEW k \in Live(f), f[k].tab \notin ts PROVE f[k].close_requested \/ f[k].exit
      <3>1. CASE k = next_key
        BY <1>6, <2>2, <3>1
      <3>2. CASE k # next_key
        BY <1>1, <1>9, <1>10, <2>2, <3>2 DEF TabsOK
      <3> QED
        BY <3>1, <3>2
    <2> QED
      BY <2>1, <2>2 DEF TabsOK
  <1>16. \A k \in Live(f) : Sound(f[k])
    BY <1>1, <1>6, <1>9, <1>10
  <1>17. PaneInv'
    BY <1>8, <1>13, <1>14, <1>15, <1>16, FlushKeeps
  <1>18. \A k \in Live(panes) : k \in Live(f) /\ Follows(panes[k], f[k]) /\ Noted(panes[k], f[k]) /\ Sound(f[k])
    BY <1>9, <1>10, <1>16 DEF Follows, Noted
  <1>19. Recorded
    BY <1>7, <1>8, <1>14, <1>18, FlushRecords
  <1> QED
    BY <1>17, <1>19

(* A launch that leaves nothing behind flushes what was there. *)
LEMMA LaunchFailsKeeps ==
  ASSUME PaneInv, phase = "running", next_key \in Keys, LaunchFails
  PROVE  PaneInv' /\ Recorded
  <1>1. Flush(panes, tasks, count, exited_count, tabs) /\ next_key' = next_key + 1 /\ next_tab' = next_tab
    BY DEF LaunchFails
  <1>2. /\ StoreOK(panes, tasks, count, exited_count, tabs, next_key, next_tab) /\ BorrowsOK(panes, tasks)
        /\ TabsOK(panes, tabs) /\ \A k \in Live(panes) : Sound(panes[k])
    BY DEF PaneInv
  <1>3. next_key \in Nat /\ MaxKey \in Nat /\ next_key <= MaxKey /\ next_key >= 1
    BY PaneAssumption DEF Keys
  <1>4. StoreOK(panes, tasks, count, exited_count, tabs, next_key', next_tab')
    <2>1. \A k \in Keys : k >= next_key + 1 => panes[k] = NoPane
      <3>1. ASSUME NEW k \in Keys, k >= next_key + 1 PROVE k >= next_key
        BY <1>3, <3>1 DEF Keys
      <3> QED
        BY <1>2, <3>1 DEF StoreOK
    <2>2. next_key + 1 \in 1 .. MaxKey + 1
      BY <1>3
    <2> QED
      BY <1>1, <1>2, <2>1, <2>2 DEF StoreOK
  <1>5. PaneInv'
    BY <1>1, <1>2, <1>4, FlushKeeps
  <1>6. \A k \in Live(panes) : Follows(panes[k], panes[k]) /\ Noted(panes[k], panes[k])
    BY DEF Follows, Noted
  <1>7. Recorded
    BY <1>1, <1>2, <1>6, FlushRecords DEF StoreOK
  <1> QED
    BY <1>5, <1>7

(* The pane Pane.create() makes. *)
LEMMA FreshPane ==
  ASSUME NEW tab \in TabIds, NEW viewers \in SUBSET Clients
  PROVE  Fresh(tab, viewers) \in Pane
  <1>1. 0 \in 0 .. MaxResponses /\ 0 \in 0 .. MaxInput /\ 0 \in 0 .. 8
    BY PaneAssumption
  <1> QED
    BY <1>1 DEF Fresh, Pane

(* Every way a launch ends: both actors run, only the wait does, or        *)
(* nothing is left.                                                        *)
LEMMA OpenPaneKeeps ==
  ASSUME PaneInv, NEW tab \in TabIds, tab \in tabs \/ tab = next_tab, OpenPane(tab)
  PROVE  PaneInv' /\ Recorded
  <1>1. phase = "running" /\ count < Capacity /\ next_key \in Keys
    BY DEF OpenPane, RoomAt
  <1>2. /\ tabs \subseteq TabIds /\ next_tab \in 1 .. MaxTab + 1 /\ (\A x \in tabs : x < next_tab)
        /\ MaxTab \in Nat
    BY PaneAssumption DEF PaneInv, StoreOK
  <1>3. IsFiniteSet({"wait"}) /\ Cardinality({"wait"}) = 1 /\ Cardinality({"wait", "read"}) = 2
    <2>1. IsFiniteSet({"wait"}) /\ Cardinality({"wait"}) = 1
      BY FS_Singleton
    <2>2. {"wait", "read"} = {"wait"} \cup {"read"} /\ "read" \notin {"wait"}
      OBVIOUS
    <2> QED
      BY <2>1, <2>2, FS_AddElement
  <1>4. {"wait"} \in SUBSET Kinds /\ {"wait", "read"} \in SUBSET Kinds
    BY DEF Kinds
  <1>5. 1 \in 0 .. 8 /\ 2 \in 0 .. 8
    OBVIOUS
  <1>6. ASSUME NEW viewers \in SUBSET Clients, Launch(tab, viewers)
        PROVE  PaneInv' /\ Recorded
    <2> DEFINE fresh == Fresh(tab, viewers)
               p == [fresh EXCEPT !.wait_pending = TRUE, !.output_pending = TRUE, !.actor_count = 2]
    <2>1. /\ Flush([panes EXCEPT ![next_key] = p], [tasks EXCEPT ![next_key] = {"wait", "read"}],
                   count + 1, exited_count, tabs \cup {tab})
          /\ next_key' = next_key + 1 /\ next_tab' = IF tab \in tabs THEN next_tab ELSE next_tab + 1
      BY <1>6 DEF Launch
    <2>2. fresh \in Pane
      BY <1>6, FreshPane
    <2>3. /\ fresh.tab = tab /\ ~fresh.exit /\ ~fresh.ingest_pending /\ ~fresh.output_held /\ ~fresh.output_done
          /\ ~fresh.response_pending /\ fresh.responses = 0 /\ fresh.input_write_len = 0 /\ fresh.input = 0
          /\ ~fresh.observing /\ ~fresh.history_pending /\ ~fresh.media_working
      BY DEF Fresh
    <2> HIDE DEF fresh
    <2>4. /\ p \in Pane /\ SameBut(fresh, p, {"wait_pending", "output_pending", "actor_count"})
          /\ p.wait_pending = TRUE /\ p.output_pending = TRUE /\ p.actor_count = 2
      BY <1>5, <2>2 DEF Pane, SameBut
    <2> HIDE DEF p
    <2>5. Borrowed(p, {"wait", "read"})
      BY <1>3, <1>4, <2>3, <2>4 DEF SameBut, Borrowed, FlagsMatch
    <2>6. Sound(p) /\ ~p.exit /\ p.tab = tab
      BY <2>3, <2>4 DEF SameBut, Sound, Reads, Settled, Observed, Responded, ExitNoted
    <2> DEFINE ts == tabs \cup {tab}
    <2>7. ts \subseteq TabIds /\ tabs \subseteq ts /\ (\A x \in ts \ tabs : x = p.tab) /\ p.tab \in ts
      BY <1>2, <2>6
    <2>8. next_tab' \in 1 .. MaxTab + 1 /\ \A x \in ts : x < next_tab'
      BY <1>2, <2>1 DEF TabIds
    <2>9. Flush([panes EXCEPT ![next_key] = p], [tasks EXCEPT ![next_key] = {"wait", "read"}],
                count + 1, exited_count, ts)
      BY <2>1
    <2> HIDE DEF ts
    <2> QED
      BY <1>1, <2>1, <2>5, <2>6, <2>7, <2>8, <2>9, LaunchedStore
  <1>7. CASE LaunchWithoutRead(tab)
    <2> DEFINE fresh == Fresh(tab, {})
               p == [fresh EXCEPT !.launch = "aborting", !.close_requested = TRUE,
                                  !.wait_pending = TRUE, !.output_done = TRUE, !.actor_count = 1]
    <2>1. /\ Flush([panes EXCEPT ![next_key] = p], [tasks EXCEPT ![next_key] = {"wait"}],
                   count + 1, exited_count, tabs)
          /\ next_key' = next_key + 1 /\ next_tab' = next_tab
      BY <1>7 DEF LaunchWithoutRead
    <2>2. fresh \in Pane
      BY FreshPane
    <2>3. /\ fresh.tab = tab /\ ~fresh.exit /\ ~fresh.ingest_pending /\ ~fresh.output_held /\ ~fresh.output_pending
          /\ ~fresh.response_pending /\ fresh.responses = 0 /\ fresh.input_write_len = 0 /\ fresh.input = 0
          /\ ~fresh.observing /\ ~fresh.history_pending /\ ~fresh.media_working
      BY DEF Fresh
    <2> HIDE DEF fresh
    <2>4. /\ p \in Pane
          /\ SameBut(fresh, p, {"launch", "close_requested", "wait_pending", "output_done", "actor_count"})
          /\ p.wait_pending = TRUE /\ p.output_done = TRUE /\ p.actor_count = 1
          /\ p.launch = "aborting" /\ p.close_requested = TRUE
      BY <1>5, <2>2 DEF Pane, SameBut
    <2> HIDE DEF p
    <2>5. Borrowed(p, {"wait"})
      BY <1>3, <1>4, <2>3, <2>4 DEF SameBut, Borrowed, FlagsMatch
    <2>6. Sound(p) /\ ~p.exit /\ p.tab = tab
      BY <2>3, <2>4 DEF SameBut, Sound, Reads, Settled, Observed, Responded, ExitNoted
    <2> QED
      BY <1>1, <1>2, <2>1, <2>4, <2>5, <2>6, LaunchedStore
  <1>8. CASE LaunchFails
    BY <1>1, <1>8, LaunchFailsKeeps
  <1> QED
    BY <1>6, <1>7, <1>8 DEF OpenPane

(* The end of the runtime: the loop stops, its actors are joined, and the  *)
(* panes go.                                                               *)
LEMMA TeardownKeeps ==
  ASSUME PaneInv, Stop \/ Join \/ Release
  PROVE  PaneInv' /\ Recorded
  <1>0. PaneInv /\ StoreOK(panes, tasks, count, exited_count, tabs, next_key, next_tab)
    BY DEF PaneInv
  <1>1. CASE Stop
    <2>1. phase = "running" /\ phase' = "stopped" /\ UNCHANGED <<panes, tasks, next_key, count, exited_count, tabs, next_tab>>
      BY <1>1 DEF Stop
    <2>2. PaneInv'
      BY <1>0, <2>1 DEF PaneInv, CollectedWhenFree
    <2> QED
      BY <2>1, <2>2 DEF Recorded
  <1>2. CASE Join
    <2>1. /\ phase' = "joined" /\ tasks' = [k \in Keys |-> {}]
          /\ UNCHANGED <<panes, next_key, count, exited_count, tabs, next_tab>>
      BY <1>2 DEF Join
    <2>2. tasks' \in [Keys -> SUBSET Kinds] /\ \A k \in Keys : tasks'[k] = {}
      BY <2>1
    <2>3. StoreOK(panes, tasks, count, exited_count, tabs, next_key, next_tab)'
      BY <1>0, <2>1, <2>2 DEF StoreOK
    <2>4. PaneInv'
      BY <2>1, <2>2, <2>3 DEF PaneInv, CollectedWhenFree
    <2> QED
      BY <2>1, <2>4 DEF Recorded
  <1>3. CASE Release
    <2>1. /\ phase = "joined" /\ phase' = "released" /\ panes' = [k \in Keys |-> NoPane] /\ count' = 0 /\ exited_count' = 0
          /\ UNCHANGED <<tasks, next_key, tabs, next_tab>>
      BY <1>3 DEF Release
    <2>2. \A k \in Keys : tasks[k] = {}
      BY <1>0, <2>1 DEF PaneInv
    <2>3. Live(panes') = {} /\ Exited(panes') = {}
      BY <2>1 DEF Live, Exited
    <2>4. /\ panes' \in [Keys -> Pane \cup {NoPane}] /\ Cardinality(Live(panes')) = 0
          /\ Cardinality(Exited(panes')) = 0 /\ 0 <= Capacity
      BY <2>1, <2>3, FS_EmptySet, PaneAssumption
    <2>5. StoreOK(panes, tasks, count, exited_count, tabs, next_key, next_tab)'
      BY <1>0, <2>1, <2>2, <2>4 DEF StoreOK
    <2>6. PaneInv'
      BY <2>1, <2>2, <2>5 DEF PaneInv, CollectedWhenFree
    <2> QED
      BY <2>1, <2>6 DEF Recorded
  <1> QED
    BY <1>1, <1>2, <1>3

(* A runtime starts without panes. *)
LEMMA PaneInit == Init => PaneInv
  <1> SUFFICES ASSUME Init PROVE PaneInv
    OBVIOUS
  <1>1. /\ panes = [k \in Keys |-> NoPane] /\ tasks = [k \in Keys |-> {}] /\ next_key = 1 /\ count = 0
        /\ exited_count = 0 /\ tabs = {} /\ next_tab = 1 /\ phase = "running"
    BY DEF Init
  <1>2. Live(panes) = {} /\ Exited(panes) = {}
    BY <1>1 DEF Live, Exited
  <1>3. /\ Cardinality(Live(panes)) = 0 /\ Cardinality(Exited(panes)) = 0 /\ 0 <= Capacity
        /\ 1 \in 1 .. MaxKey + 1 /\ 1 \in 1 .. MaxTab + 1
    BY <1>2, FS_EmptySet, PaneAssumption
  <1>4. StoreOK(panes, tasks, count, exited_count, tabs, next_key, next_tab)
    BY <1>1, <1>3 DEF StoreOK
  <1>5. BorrowsOK(panes, tasks) /\ TabsOK(panes, tabs) /\ CollectedWhenFree
    BY <1>1, <1>2 DEF BorrowsOK, TabsOK, CollectedWhenFree
  <1> QED
    BY <1>1, <1>2, <1>4, <1>5 DEF PaneInv

(* Every step keeps the invariant and destroys no unrecorded pane. *)
LEMMA PaneStep == PaneInv /\ [Next]_vars => PaneInv' /\ Recorded
  <1> SUFFICES ASSUME PaneInv, [Next]_vars PROVE PaneInv' /\ Recorded
    OBVIOUS
  <1>1. CASE UNCHANGED vars
    <2>1. PaneInv'
      BY <1>1 DEF vars, PaneInv, CollectedWhenFree
    <2> QED
      BY <1>1, <2>1 DEF vars, Recorded
  <1>2. CASE CreateTab
    BY <1>2, OpenPaneKeeps DEF CreateTab
  <1>3. ASSUME NEW tab \in TabIds, SplitPane(tab) \/ CloseTab(tab) PROVE PaneInv' /\ Recorded
    BY <1>3, OpenPaneKeeps, CloseTabKeeps DEF SplitPane
  <1>4. ASSUME NEW k \in Keys,
               \/ ReadEnd(k) \/ ReadData(k) \/ FinishIngest(k) \/ FinishMedia(k)
               \/ FinishObservation(k) \/ FinishResponse(k) \/ FinishInput(k) \/ FinishExit(k)
               \/ PushResponse(k) \/ Recheck(k)
        PROVE  PaneInv' /\ Recorded
    BY <1>4, ReadEndKeeps, ReadDataKeeps, FinishIngestKeeps, FinishMediaKeeps, FinishObservationKeeps,
       FinishResponseKeeps, FinishInputKeeps, FinishExitKeeps, PushResponseKeeps, RecheckKeeps
  <1>5. ASSUME NEW c \in Clients, NEW k \in Keys,
               \/ Attach(c, k) \/ AttachResized(c, k) \/ ResizePane(c, k) \/ SendInput(c, k)
               \/ ClosePane(c, k) \/ Detach(c, k)
        PROVE  PaneInv' /\ Recorded
    BY <1>5, AttachKeeps, AttachResizedKeeps, ResizePaneKeeps, SendInputKeeps, ClosePaneKeeps, DetachKeeps
  <1>6. ASSUME NEW c \in Clients, DropClient(c) PROVE PaneInv' /\ Recorded
    BY <1>6, DropClientKeeps
  <1>7. CASE Stop \/ Join \/ Release
    BY <1>7, TeardownKeeps
  <1> QED
    BY <1>1, <1>2, <1>3, <1>4, <1>5, <1>6, <1>7 DEF Next

--------------------------------------------------------------------------------
(* The theorems                                                            *)

(* The inductive invariant holds in every reachable state. *)
LEMMA PaneInvariant == Spec => []PaneInv
  <1>1. PaneInv /\ [Next]_vars => PaneInv'
    BY PaneStep
  <1> QED
    BY <1>1, PaneInit, PTL DEF Spec

(* Panes, tasks, counters and queues keep their types: no queue outgrows   *)
(* its slots and the store never holds more than its capacity.             *)
THEOREM PaneTypeCorrect == Spec => []TypeOK
  <1>1. ASSUME PaneInv PROVE TypeOK
    <2>1. StoreOK(panes, tasks, count, exited_count, tabs, next_key, next_tab)
      BY <1>1 DEF PaneInv
    <2>2. count \in 0 .. Capacity /\ exited_count \in 0 .. Capacity
      <3>1. Exited(panes) \subseteq Live(panes) /\ IsFiniteSet(Live(panes)) /\ Cardinality(Live(panes)) \in Nat
        BY LiveFinite DEF Exited
      <3>2. Cardinality(Exited(panes)) <= Cardinality(Live(panes)) /\ Cardinality(Exited(panes)) \in Nat
        BY <3>1, FS_Subset, LiveFinite
      <3>3. count = Cardinality(Live(panes)) /\ exited_count = Cardinality(Exited(panes)) /\ count <= Capacity
        BY <2>1 DEF StoreOK
      <3> QED
        BY <3>1, <3>2, <3>3, PaneAssumption
    <2> QED
      BY <1>1, <2>1, <2>2 DEF TypeOK, StoreOK, PaneInv
  <1> QED
    BY <1>1, PaneInvariant, PTL

(* The flags of a pane are the actors the selector has in flight for it    *)
(* and actor_count is their number, until the actors are joined: every     *)
(* completion finds the flag it asserts.                                   *)
THEOREM PaneActorsCounted == Spec => []ActorsCounted
  <1>1. PaneInv => ActorsCounted
    BY DEF PaneInv, ActorsCounted, BorrowsOK, Borrowed
  <1> QED
    BY <1>1, PaneInvariant, PTL

(* No actor outlives the pane it borrows. *)
THEOREM PaneNoDanglingBorrow == Spec => []NoDanglingBorrow
  <1>1. PaneInv => NoDanglingBorrow
    BY DEF PaneInv, NoDanglingBorrow, StoreOK
  <1> QED
    BY <1>1, PaneInvariant, PTL

(* A pane whose output has not ended has exactly one thing that will read  *)
(* it again.                                                               *)
THEOREM PaneReadNeverLost == Spec => []ReadNeverLost
  <1>1. PaneInv => ReadNeverLost
    BY DEF PaneInv, ReadNeverLost, Sound, Reads
  <1> QED
    BY <1>1, PaneInvariant, PTL

(* count and exited_count are the panes the store holds, so neither the    *)
(* early return of collect() nor the refusal of allocateKey() is wrong.    *)
THEOREM PaneStoreCounted == Spec => []StoreCounted
  <1>1. PaneInv => StoreCounted
    BY DEF PaneInv, StoreCounted, StoreOK, Exited
  <1> QED
    BY <1>1, PaneInvariant, PTL

(* A committed tab has a pane; a pane without one is on its way out. *)
THEOREM PaneTabsHeld == Spec => []TabsHeld
  <1>1. PaneInv => TabsHeld
    BY DEF PaneInv, TabsHeld, TabsOK, At
  <1> QED
    BY <1>1, PaneInvariant, PTL

(* A running runtime destroys a launched pane only once its exit was       *)
(* queued for history, although readyToDestroy() does not ask.             *)
THEOREM PaneExitRecorded == Spec => ExitRecorded
  <1>1. PaneInv /\ [Next]_vars => Recorded
    BY PaneStep
  <1>2. Recorded => [\A k \in Keys :
          phase = "running" /\ panes[k] # NoPane /\ panes'[k] = NoPane /\ panes[k].launch = "running"
            => panes[k].history_exit_queued]_vars
    BY DEF Recorded
  <1> QED
    BY <1>1, <1>2, PaneInvariant, PTL DEF Spec, ExitRecorded

(* An update leaves no exited, drained pane that no actor and no client    *)
(* borrows, provided a resize that fails has changed nothing: the one      *)
(* failure that can leave a queue without an actor.                        *)
THEOREM PaneCollectedWhenFree ==
  ASSUME ~ResizeFailsLate
  PROVE  Spec => []CollectedWhenFree
  <1>1. PaneInv => CollectedWhenFree
    BY DEF PaneInv
  <1> QED
    BY <1>1, PaneInvariant, PTL

================================================================================
