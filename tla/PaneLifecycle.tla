----------------------------- MODULE PaneLifecycle -----------------------------
(***************************************************************************)
(* The life of a terminal pane in the telar runtime: launch, the actors    *)
(* that borrow it, its exit and its collection (backend/pane/Pane.zig,     *)
(* PaneStore.zig and the pane_*.zig flows of backend/runtime).             *)
(*                                                                         *)
(* One runtime thread handles one event at a time; an event's handler and  *)
(* the flush that ends the update are one action.  Actors are tasks of the *)
(* runtime's selector: they run on other threads with a pointer to the     *)
(* pane until their completion event is handled.  `tasks` is what the      *)
(* selector really has in flight; the flags and `actor_count` of a pane    *)
(* are what the runtime believes.  Any spawn of a task may fail.           *)
(***************************************************************************)
EXTENDS Naturals, FiniteSets

CONSTANTS
  Clients,              \* attached clients
  MaxKey,               \* bound on the pane identities ever allocated
  Capacity,             \* panes the store holds (core.max_panes)
  TabCapacity,          \* panes one tab holds (core.max_panes_per_tab)
  MaxTab,               \* bound on the tab identities ever recorded
  MaxResponses,         \* PtyResponseQueue slots (64)
  MaxInput,             \* messages PaneInputQueue has room for
  Resizes,              \* TRUE: clients resize panes
  ResizeFailsLate,      \* TRUE: memory or tasks may run out after a resize took effect in part
  NoPane

Keys == 1 .. MaxKey
TabIds == 1 .. MaxTab
Kinds == {"wait", "read", "ingest", "respond", "input", "observe", "media"}

Pane == [tab : TabIds,
         launch : {"running", "aborting"},
         close_requested : BOOLEAN,
         exit : BOOLEAN,               \* exit # null
         wait_pending : BOOLEAN,
         output_pending : BOOLEAN,     \* a PTY read is out
         ingest_pending : BOOLEAN,     \* the VT ingests the bytes read
         output_held : BOOLEAN,        \* the next read waits for the media actor
         output_done : BOOLEAN,
         response_pending : BOOLEAN, responses : 0 .. MaxResponses,
         input_write_len : 0 .. MaxInput,  \* # 0 is input_write_pending
         input : 0 .. MaxInput,
         observing : BOOLEAN,          \* history_observer.worker # null
         history_pending : BOOLEAN,    \* its open batch holds events
         recheck : BOOLEAN,            \* agent_recheck_requested
         media_working : BOOLEAN,      \* media.worker # null
         media_pending : BOOLEAN,      \* its open batch holds events
         resize : BOOLEAN,             \* pending_size # null
         history_exit_queued : BOOLEAN,
         actor_count : 0 .. 8,
         observers : SUBSET Clients]

ASSUME PaneAssumption ==
  /\ MaxKey \in Nat /\ Capacity \in Nat \ {0} /\ TabCapacity \in Nat \ {0}
  /\ MaxTab \in Nat /\ MaxResponses \in Nat /\ MaxInput \in Nat
  /\ Resizes \in BOOLEAN /\ ResizeFailsLate \in BOOLEAN
  /\ NoPane \notin Pane

VARIABLES
  panes,         \* PaneStore.items by identity; ids and generations advance together
  tasks,         \* key -> kinds of actor in flight for it
  next_key,      \* next_id, next_generation
  count,         \* PaneStore.count
  exited_count,  \* PaneStore.exited_count
  tabs,          \* the committed tabs of the workspaces
  next_tab,      \* Workspaces.next_tab_id, consumed when a launch commits
  phase          \* running, then failed or stopped, joined, released

vars == <<panes, tasks, next_key, count, exited_count, tabs, next_tab, phase>>

Init ==
  /\ panes = [k \in Keys |-> NoPane]
  /\ tasks = [k \in Keys |-> {}]
  /\ next_key = 1 /\ count = 0 /\ exited_count = 0
  /\ tabs = {} /\ next_tab = 1
  /\ phase = "running"

--------------------------------------------------------------------------------
(* A handler works on w: the pane p, the tasks t in flight for it, and     *)
(* whether everything it started could be started.  An operator that       *)
(* spawns yields the set of its outcomes.                                  *)

Work(k) == [p |-> panes[k], t |-> tasks[k], ok |-> TRUE]

Spawned(w, kind, begun) ==
  [p |-> [begun EXCEPT !.actor_count = @ + 1], t |-> w.t \cup {kind}, ok |-> w.ok]

(* Mutant: an actor that could not start is not rolled back. *)
SpawnUncancelled(w, kind, begun, cancelled) ==
  {Spawned(w, kind, begun),
   [p |-> [begun EXCEPT !.actor_count = @ + 1], t |-> w.t, ok |-> FALSE]}

(* select.concurrent(): the actor starts on the pane as begun, or the      *)
(* begin step is rolled back to cancelled and the error is kept.           *)
Spawn(w, kind, begun, cancelled) ==
  {Spawned(w, kind, begun), [p |-> cancelled, t |-> w.t, ok |-> FALSE]}

(* actorFinished() of a handled completion. *)
Finished(k, kind, p) ==
  [p |-> [p EXCEPT !.actor_count = @ - 1], t |-> tasks[k] \ {kind}, ok |-> TRUE]

With(w, p) == [w EXCEPT !.p = p]

(* beginPtyOutputRead() through startRead(). *)
StartRead(w) == Spawn(w, "read", [w.p EXCEPT !.output_pending = TRUE], w.p)

(* beginHistoryObservation(): a recheck seals even an empty batch.  A      *)
(* cancelled observation loses its batch but keeps the recheck.            *)
StartObservation(w) ==
  IF ~w.p.observing /\ (w.p.history_pending \/ w.p.recheck)
  THEN Spawn(w, "observe",
             [w.p EXCEPT !.observing = TRUE, !.history_pending = FALSE, !.recheck = FALSE],
             [w.p EXCEPT !.history_pending = FALSE])
  ELSE {w}

(* beginMediaProcessing(): a cancelled turn loses its batch. *)
StartMedia(w) ==
  IF ~w.p.media_working /\ w.p.media_pending
  THEN Spawn(w, "media",
             [w.p EXCEPT !.media_working = TRUE, !.media_pending = FALSE],
             [w.p EXCEPT !.media_pending = FALSE])
  ELSE {w}

StartResponseWrite(w) ==
  IF ~w.p.response_pending /\ w.p.responses # 0
  THEN Spawn(w, "respond", [w.p EXCEPT !.response_pending = TRUE], w.p)
  ELSE {w}

(* The chunk written is the contiguous head of the ring: any part of it. *)
StartInputWrite(w) ==
  IF w.p.input_write_len = 0 /\ w.p.input # 0
  THEN UNION {Spawn(w, "input", [w.p EXCEPT !.input_write_len = n], w.p) : n \in 1 .. w.p.input}
  ELSE {w}

(* queueExitedHistory(): the shell's exit enters history once. *)
QueueExitedHistory(p) ==
  IF p.history_exit_queued THEN p
  ELSE [p EXCEPT !.history_exit_queued = TRUE, !.history_pending = TRUE]

(* applyPendingResize(): the terminal is resized and may answer the child, *)
(* then the size is committed and queued for both observers.  It can fail  *)
(* at its first step, and late: with the response queued when the screen   *)
(* storage cannot grow, or with everything done when the render fails.     *)
Answered(p) ==
  {p} \cup (IF p.responses < MaxResponses THEN {[p EXCEPT !.responses = @ + 1]} ELSE {})

Resized(p) == [p EXCEPT !.resize = FALSE, !.history_pending = TRUE, !.media_pending = TRUE]

ApplySucceeds(p) == IF p.resize THEN Answered(Resized(p)) ELSE {p}

ApplyFails(p) ==
  IF ~p.resize THEN {}
  ELSE IF ResizeFailsLate THEN Answered(p) \cup Answered(Resized(p))
  ELSE {p}

RequestClose(p) == [p EXCEPT !.close_requested = TRUE]

--------------------------------------------------------------------------------
(* The end of an update                                                    *)

Live(f) == {k \in Keys : f[k] # NoPane}

At(f, tab) == {k \in Live(f) : f[k].tab = tab}

(* Mutant: a list of operations that misses the two writers. *)
ReadyWhenObserversIdle(p) ==
  /\ p.exit /\ p.output_done
  /\ ~p.observing /\ ~p.history_pending
  /\ ~p.media_working /\ ~p.media_pending
  /\ p.responses = 0

ReadyToDestroy(p) ==
  /\ p.exit /\ p.output_done
  /\ p.actor_count = 0
  /\ ~p.observing /\ ~p.history_pending
  /\ ~p.media_working /\ ~p.media_pending
  /\ p.responses = 0

(* collect(): without an exited pane it does not even look. *)
Collectable(f, e) ==
  IF e = 0 THEN {} ELSE {k \in Live(f) : ReadyToDestroy(f[k]) /\ f[k].observers = {}}

(* client_delivery.flush() after the handler left panes f, tasks t, the    *)
(* counters n and e and tabs ts: collect() destroys what nobody borrows    *)
(* and removes tabs left empty, then every pending media turn starts.  One *)
(* that cannot start fails the update once all were tried.                 *)
Flush(f, t, n, e, ts) ==
  LET dead == Collectable(f, e)
      due == {k \in Live(f) \ dead : f[k].media_pending /\ ~f[k].media_working}
  IN \E failed \in SUBSET due :
       /\ panes' = [k \in Keys |->
            IF k \in dead THEN NoPane
            ELSE IF k \in failed THEN [f[k] EXCEPT !.media_pending = FALSE]
            ELSE IF k \in due
              THEN [f[k] EXCEPT !.media_working = TRUE, !.media_pending = FALSE,
                                !.actor_count = @ + 1]
            ELSE f[k]]
       /\ tasks' = [k \in Keys |-> IF k \in due \ failed THEN t[k] \cup {"media"} ELSE t[k]]
       /\ tabs' = {tab \in ts : (\E k \in dead : f[k].tab = tab) => ~(At(f, tab) \subseteq dead)}
       /\ exited_count' = e - Cardinality(dead)
       /\ count' = n - Cardinality(dead)
       /\ phase' = IF failed = {} THEN "running" ELSE "failed"

(* An update whose handler ended in outcome w.  An error that is not a     *)
(* limit ends Runtime.run before the flush.                                *)
Commit(k, w, e) ==
  IF w.ok
  THEN Flush([panes EXCEPT ![k] = w.p], [tasks EXCEPT ![k] = w.t], count, e, tabs)
  ELSE /\ panes' = [panes EXCEPT ![k] = w.p]
       /\ tasks' = [tasks EXCEPT ![k] = w.t]
       /\ exited_count' = e
       /\ phase' = "failed"
       /\ UNCHANGED <<count, tabs>>

Update(k, w) == Commit(k, w, exited_count) /\ UNCHANGED <<next_key, next_tab>>

(* client_connection.drop() of c takes it off every pane. *)
Without(c, f) ==
  [k \in Keys |-> IF f[k] = NoPane THEN NoPane ELSE [f[k] EXCEPT !.observers = @ \ {c}]]

(* An update for a request of client c: an error drops c and the flush     *)
(* still runs.                                                             *)
Answer(c, k, w) ==
  LET f == [panes EXCEPT ![k] = w.p]
  IN /\ Flush(IF w.ok THEN f ELSE Without(c, f), [tasks EXCEPT ![k] = w.t],
              count, exited_count, tabs)
     /\ UNCHANGED <<next_key, next_tab>>

--------------------------------------------------------------------------------
(* Launch (pane_launch.zig)                                                *)

(* Pane.create(): before any actor borrows the pane. *)
Fresh(tab, viewers) ==
  [tab |-> tab, launch |-> "running", close_requested |-> FALSE, exit |-> FALSE,
   wait_pending |-> FALSE, output_pending |-> FALSE, ingest_pending |-> FALSE,
   output_held |-> FALSE, output_done |-> FALSE,
   response_pending |-> FALSE, responses |-> 0,
   input_write_len |-> 0, input |-> 0,
   observing |-> FALSE, history_pending |-> FALSE, recheck |-> FALSE,
   media_working |-> FALSE, media_pending |-> FALSE, resize |-> FALSE,
   history_exit_queued |-> FALSE, actor_count |-> 0, observers |-> viewers]

(* allocateKey() found room in the store and in the tab. *)
RoomAt(tab) ==
  /\ count < Capacity
  /\ Cardinality(At(panes, tab)) < TabCapacity
  /\ next_key \in Keys

(* Both actors started: the launch commits, and with it its new tab. *)
Launch(tab, viewers) ==
  LET waits == [Fresh(tab, viewers) EXCEPT !.wait_pending = TRUE, !.output_pending = TRUE,
                                           !.actor_count = 2]
  IN /\ Flush([panes EXCEPT ![next_key] = waits],
              [tasks EXCEPT ![next_key] = {"wait", "read"}],
              count + 1, exited_count, tabs \cup {tab})
     /\ next_key' = next_key + 1
     /\ next_tab' = IF tab \in tabs THEN next_tab ELSE next_tab + 1

(* Mutant: the aborted pane is counted as rolled back. *)
LaunchWithoutReadUncounted(tab) ==
  LET aborted == [Fresh(tab, {}) EXCEPT !.launch = "aborting", !.close_requested = TRUE,
                                        !.wait_pending = TRUE, !.output_done = TRUE,
                                        !.actor_count = 1]
  IN /\ Flush([panes EXCEPT ![next_key] = aborted], [tasks EXCEPT ![next_key] = {"wait"}],
              count, exited_count, tabs)
     /\ next_key' = next_key + 1
     /\ UNCHANGED next_tab

(* The read could not be scheduled: the pane stays, closing and without    *)
(* output, until its wait actor reports; a proposed tab is rolled back and *)
(* its identity is not consumed.                                           *)
LaunchWithoutRead(tab) ==
  LET aborted == [Fresh(tab, {}) EXCEPT !.launch = "aborting", !.close_requested = TRUE,
                                        !.wait_pending = TRUE, !.output_done = TRUE,
                                        !.actor_count = 1]
  IN /\ Flush([panes EXCEPT ![next_key] = aborted], [tasks EXCEPT ![next_key] = {"wait"}],
              count + 1, exited_count, tabs)
     /\ next_key' = next_key + 1
     /\ UNCHANGED next_tab

(* Nothing was left behind: the child, the record, the slot or the wait    *)
(* actor failed and the pane was destroyed again.  The identity is spent.  *)
LaunchFails ==
  /\ Flush(panes, tasks, count, exited_count, tabs)
  /\ next_key' = next_key + 1
  /\ UNCHANGED next_tab

(* A client creates a tab, or opens a pane in a tab that has one.  The     *)
(* launched pane may be attached to the client that asked.                 *)
OpenPane(tab) ==
  /\ phase = "running"
  /\ RoomAt(tab)
  /\ \/ \E viewers \in {{}} \cup {{c} : c \in Clients} : Launch(tab, viewers)
     \/ LaunchWithoutRead(tab)
     \/ LaunchFails

CreateTab == next_tab \in TabIds /\ OpenPane(next_tab)

SplitPane(tab) == tab \in tabs /\ OpenPane(tab)

--------------------------------------------------------------------------------
(* Completions of the pane's actors                                        *)

Completes(k, kind) == phase = "running" /\ kind \in tasks[k]

(* Mutant: the end of output after the exit forgets the history event. *)
ReadEndUnrecorded(k) ==
  /\ Completes(k, "read")
  /\ LET done == [panes[k] EXCEPT !.output_pending = FALSE, !.output_done = TRUE]
     IN Update(k, Finished(k, "read", done))

(* pane_output.receive() of an empty or failed read: the output ended. *)
ReadEnd(k) ==
  /\ Completes(k, "read")
  /\ LET done == [panes[k] EXCEPT !.output_pending = FALSE, !.output_done = TRUE]
     IN IF done.exit
        THEN \E w \in StartObservation(Finished(k, "read", QueueExitedHistory(done))) : Update(k, w)
        ELSE Update(k, Finished(k, "read", done))

(* Mutant: the read is held although no media turn runs. *)
RearmedHeld(w) == {With(w, [w.p EXCEPT !.output_held = TRUE])} \cup StartRead(w)

(* finishIngest(): the read is armed or held before anything else that can *)
(* fail; only a failed read returns at once.                               *)
Rearmed(w) ==
  (IF w.p.media_working THEN {With(w, [w.p EXCEPT !.output_held = TRUE])} ELSE {})
    \cup StartRead(w)

AfterIngest(w) ==
  UNION {
    IF "read" \notin r.t /\ ~r.p.output_held THEN {r}
    ELSE UNION {UNION {StartResponseWrite(m) : m \in StartMedia(o)} : o \in StartObservation(r)}
    : r \in UNION {Rearmed(With(w, p)) : p \in ApplySucceeds(w.p)
                                          \cup {RequestClose(q) : q \in ApplyFails(w.p)}}}

IngestDone(k) == [panes[k] EXCEPT !.ingest_pending = FALSE]

FinishIngest(k) ==
  /\ Completes(k, "ingest")
  /\ \E w \in AfterIngest(Finished(k, "ingest", IngestDone(k))) : Update(k, w)

(* pane_output.receive() of data: history and media get the bytes, then    *)
(* the VT ingests them on an actor or, when they are few, right here.      *)
ReadData(k) ==
  /\ Completes(k, "read")
  /\ LET read == [panes[k] EXCEPT !.output_pending = FALSE, !.history_pending = TRUE]
     IN \E o \in StartObservation(Finished(k, "read", read)) :
        \E m \in StartMedia(With(o, [o.p EXCEPT !.media_pending = TRUE])) :
          \/ \E w \in Spawn(m, "ingest", [m.p EXCEPT !.ingest_pending = TRUE], m.p) : Update(k, w)
          \/ \E w \in AfterIngest(m) : Update(k, w)

(* Mutant: nobody takes up the held read. *)
ResumeNothing(w) == {w}

(* pane_graphics.finishMedia(): a held read resumes first, while the media *)
(* actor is idle. *)
ResumeRead(w) ==
  IF ~w.p.output_held THEN {w}
  ELSE {IF "read" \in r.t THEN r ELSE With(r, w.p) :
          r \in StartRead(With(w, [w.p EXCEPT !.output_held = FALSE]))}

FinishMedia(k) ==
  /\ Completes(k, "media")
  /\ LET idle == Finished(k, "media", [panes[k] EXCEPT !.media_working = FALSE])
     IN \E r \in ResumeRead(idle) : \E w \in StartResponseWrite(r) : Update(k, w)

(* Mutant: the observation is not started again for what came meanwhile. *)
FinishObservationOnce(k) ==
  /\ Completes(k, "observe")
  /\ Update(k, Finished(k, "observe", [panes[k] EXCEPT !.observing = FALSE]))

(* pane_observation.finish(): the next observation starts when its batch   *)
(* has filled or a recheck came in the meantime.                           *)
FinishObservation(k) ==
  /\ Completes(k, "observe")
  /\ \E w \in StartObservation(Finished(k, "observe", [panes[k] EXCEPT !.observing = FALSE])) :
       Update(k, w)

(* A write that succeeded leaves the queue and the next one starts; one    *)
(* that failed clears the queue.                                           *)
FinishResponse(k) ==
  /\ Completes(k, "respond")
  /\ LET idle == [panes[k] EXCEPT !.response_pending = FALSE]
     IN \/ \E w \in StartResponseWrite(Finished(k, "respond", [idle EXCEPT !.responses = @ - 1])) :
             Update(k, w)
        \/ Update(k, Finished(k, "respond", [idle EXCEPT !.responses = 0]))

FinishInput(k) ==
  /\ Completes(k, "input")
  /\ LET idle == [panes[k] EXCEPT !.input_write_len = 0]
     IN \/ \E w \in StartInputWrite(Finished(k, "input",
                          [idle EXCEPT !.input = @ - panes[k].input_write_len])) :
             Update(k, w)
        \/ Update(k, Finished(k, "input", [idle EXCEPT !.input = 0]))

(* Mutant: the store does not learn that a pane exited. *)
FinishExitUncounted(k) ==
  /\ Completes(k, "wait")
  /\ \E w \in StartObservation(Finished(k, "wait",
                 QueueExitedHistory([panes[k] EXCEPT !.wait_pending = FALSE, !.exit = TRUE]))) :
       Update(k, w)

(* pane_closure.finishExit(): the exit that finds the output drained, or   *)
(* the end of output that finds the exit, queues the exit for history.     *)
FinishExit(k) ==
  /\ Completes(k, "wait")
  /\ LET gone == [panes[k] EXCEPT !.wait_pending = FALSE, !.exit = TRUE]
         drained == gone.launch = "running" /\ gone.output_done
         p == IF drained THEN QueueExitedHistory(gone) ELSE gone
     IN /\ \E w \in IF drained THEN StartObservation(Finished(k, "wait", p))
                    ELSE {Finished(k, "wait", p)} :
             Commit(k, w, exited_count + 1)
        /\ UNCHANGED <<next_key, next_tab>>

(* The VT and the media actor push terminal responses while they run. *)
PushResponse(k) ==
  /\ phase \in {"running", "failed", "stopped"}
  /\ tasks[k] \cap {"ingest", "media"} # {}
  /\ panes[k].responses < MaxResponses
  /\ panes' = [panes EXCEPT ![k].responses = @ + 1]
  /\ UNCHANGED <<tasks, next_key, count, exited_count, tabs, next_tab, phase>>

--------------------------------------------------------------------------------
(* Client requests                                                         *)

Serves(k) == phase = "running" /\ panes[k] # NoPane

(* findOpenPane(): a pane that is closing cannot be opened. *)
Attachable(k) ==
  Serves(k) /\ panes[k].launch = "running" /\ ~panes[k].close_requested /\ ~panes[k].exit

View(c, w) == IF w.ok THEN With(w, [w.p EXCEPT !.observers = @ \cup {c}]) ELSE w

(* pane_attachment.open() of a running pane without the geometry lease or  *)
(* at the pane's size.                                                     *)
Attach(c, k) == Attachable(k) /\ Answer(c, k, View(c, Work(k)))

(* The work a committed resize leaves: each start returns on its error. *)
AfterResize(w) ==
  {r \in UNION {IF o.ok THEN StartMedia(o) ELSE {o} : o \in StartObservation(w)} :
     r.ok \/ ResizeFailsLate}

Asked(p) == [p EXCEPT !.resize = TRUE]

(* pane_attachment.open() by the lease holder resizes first; a resize that *)
(* fails refuses the request.                                              *)
AttachResized(c, k) ==
  /\ Resizes /\ Attachable(k)
  /\ IF panes[k].ingest_pending
     THEN \E w \in AfterResize(With(Work(k), Asked(panes[k]))) : Answer(c, k, View(c, w))
     ELSE \/ \E p \in ApplySucceeds(Asked(panes[k])) : \E w \in AfterResize(With(Work(k), p)) :
               Answer(c, k, View(c, w))
          \/ \E p \in ApplyFails(Asked(panes[k])) : Answer(c, k, With(Work(k), p))

(* pane_resize.resize(): a running ingest applies the size when it ends; a *)
(* resize that fails closes the pane.                                      *)
ResizePane(c, k) ==
  /\ Resizes /\ Serves(k) /\ c \in panes[k].observers
  /\ IF panes[k].ingest_pending
     THEN Answer(c, k, With(Work(k), Asked(panes[k])))
     ELSE \/ \E p \in ApplySucceeds(Asked(panes[k])) : \E m \in AfterResize(With(Work(k), p)) :
             \E w \in IF m.ok THEN StartResponseWrite(m) ELSE {m} : Answer(c, k, w)
          \/ \E p \in ApplyFails(Asked(panes[k])) : Answer(c, k, With(Work(k), RequestClose(p)))

(* pane_input.forward(): history sees what the child will get, then the    *)
(* bytes queue and a write starts unless one runs.                         *)
SendInput(c, k) ==
  /\ Serves(k) /\ c \in panes[k].observers
  /\ ~panes[k].exit /\ panes[k].input < MaxInput
  /\ \E o \in StartObservation(With(Work(k), [panes[k] EXCEPT !.history_pending = TRUE])) :
       \E w \in IF o.ok THEN StartInputWrite(With(o, [o.p EXCEPT !.input = @ + 1])) ELSE {o} :
         Answer(c, k, w)

(* agent_hooks: a parked report asks for the pane's process to be          *)
(* identified again; a start that fails is answered.                       *)
Recheck(k) ==
  /\ Serves(k) /\ ~panes[k].exit
  /\ \E w \in StartObservation(With(Work(k), [panes[k] EXCEPT !.recheck = TRUE])) :
       Update(k, [w EXCEPT !.ok = TRUE])

(* pane_closure.close(). *)
ClosePane(c, k) ==
  /\ Serves(k) /\ c \in panes[k].observers
  /\ Answer(c, k, With(Work(k), RequestClose(panes[k])))

(* Mutant: the panes of a removed tab are left open. *)
CloseTabOnly(tab) ==
  /\ phase = "running" /\ tab \in tabs
  /\ Flush(panes, tasks, count, exited_count, tabs \ {tab})
  /\ UNCHANGED <<next_key, next_tab>>

(* tab_removal.remove(): the tab goes at once, its panes when they exit. *)
CloseTab(tab) ==
  /\ phase = "running" /\ tab \in tabs
  /\ Flush([k \in Keys |-> IF k \in At(panes, tab) THEN RequestClose(panes[k]) ELSE panes[k]],
           tasks, count, exited_count, tabs \ {tab})
  /\ UNCHANGED <<next_key, next_tab>>

(* A client detaches, or the delivery of the pane's exit detached it. *)
Detach(c, k) ==
  /\ Serves(k) /\ c \in panes[k].observers
  /\ Answer(c, k, With(Work(k), [panes[k] EXCEPT !.observers = @ \ {c}]))

(* The connection of a client ends. *)
DropClient(c) ==
  /\ phase = "running" /\ \E k \in Live(panes) : c \in panes[k].observers
  /\ Flush(Without(c, panes), tasks, count, exited_count, tabs)
  /\ UNCHANGED <<next_key, next_tab>>

--------------------------------------------------------------------------------
(* Runtime.deinit()                                                        *)

(* The shutdown was delivered to every client. *)
Stop ==
  /\ phase = "running" /\ phase' = "stopped"
  /\ UNCHANGED <<panes, tasks, next_key, count, exited_count, tabs, next_tab>>

(* loop.cancel() joins every actor and discards its event. *)
Join ==
  /\ phase \in {"failed", "stopped"} /\ phase' = "joined"
  /\ tasks' = [k \in Keys |-> {}]
  /\ UNCHANGED <<panes, next_key, count, exited_count, tabs, next_tab>>

(* model.deinit() destroys every pane. *)
Release ==
  /\ phase = "joined" /\ phase' = "released"
  /\ panes' = [k \in Keys |-> NoPane]
  /\ count' = 0 /\ exited_count' = 0
  /\ UNCHANGED <<tasks, next_key, tabs, next_tab>>

Next ==
  \/ CreateTab
  \/ \E tab \in TabIds : SplitPane(tab) \/ CloseTab(tab)
  \/ \E k \in Keys :
       \/ ReadEnd(k) \/ ReadData(k) \/ FinishIngest(k) \/ FinishMedia(k)
       \/ FinishObservation(k) \/ FinishResponse(k) \/ FinishInput(k) \/ FinishExit(k)
       \/ PushResponse(k) \/ Recheck(k)
  \/ \E c \in Clients, k \in Keys :
       \/ Attach(c, k) \/ AttachResized(c, k) \/ ResizePane(c, k) \/ SendInput(c, k)
       \/ ClosePane(c, k) \/ Detach(c, k)
  \/ \E c \in Clients : DropClient(c)
  \/ Stop \/ Join \/ Release

(* Actors finish: the VT, the observers and the writers do bounded work.   *)
(* The child of a pane that was told to close exits, the output of an      *)
(* exited or closing child is finite, and the delivery of an exit detaches *)
(* its client.                                                             *)
Leaving(k) == panes[k] # NoPane /\ (panes[k].exit \/ panes[k].close_requested)

Fairness ==
  \A k \in Keys :
    /\ WF_vars(FinishIngest(k)) /\ WF_vars(FinishMedia(k)) /\ WF_vars(FinishObservation(k))
    /\ WF_vars(FinishResponse(k)) /\ WF_vars(FinishInput(k))
    /\ SF_vars(Leaving(k) /\ ReadEnd(k))
    /\ WF_vars(Leaving(k) /\ FinishExit(k))
    /\ \A c \in Clients : WF_vars(Leaving(k) /\ panes[k].exit /\ panes[k].output_done /\ Detach(c, k))

Spec == Init /\ [][Next]_vars /\ Fairness

--------------------------------------------------------------------------------
(* Properties                                                              *)

(* Panes, tasks and counters keep their shape: queues stay within their    *)
(* slots, at most one actor of a kind borrows a pane, and the store never  *)
(* holds more than its capacity.                                           *)
TypeOK ==
  /\ panes \in [Keys -> Pane \cup {NoPane}]
  /\ tasks \in [Keys -> SUBSET Kinds]
  /\ next_key \in 1 .. MaxKey + 1 /\ next_tab \in 1 .. MaxTab + 1
  /\ count \in 0 .. Capacity /\ exited_count \in 0 .. Capacity
  /\ tabs \subseteq TabIds
  /\ phase \in {"running", "failed", "stopped", "joined", "released"}

(* What the flags of a pane say is what the selector has in flight, so     *)
(* every completion finds the flag it asserts (completePtyOutputRead,      *)
(* completeOutputIngest, ...), and actor_count is the number of borrows.   *)
FlagsMatch(p, t) ==
  /\ p.wait_pending <=> "wait" \in t
  /\ p.output_pending <=> "read" \in t
  /\ p.ingest_pending <=> "ingest" \in t
  /\ p.response_pending <=> "respond" \in t
  /\ p.input_write_len # 0 <=> "input" \in t
  /\ p.observing <=> "observe" \in t
  /\ p.media_working <=> "media" \in t
  /\ p.actor_count = Cardinality(t)

ActorsCounted ==
  phase \in {"running", "failed", "stopped"} =>
    \A k \in Live(panes) : FlagsMatch(panes[k], tasks[k])

(* No actor outlives the pane it borrows: neither collection nor the       *)
(* teardown destroys a pane with a task in flight.                         *)
NoDanglingBorrow == \A k \in Keys : tasks[k] # {} => panes[k] # NoPane

(* A pane whose output has not ended has exactly one thing that will read  *)
(* it again: a read, an ingest, or a read held behind a media turn that is *)
(* really running.                                                         *)
ReadNeverLost ==
  phase = "running" =>
    \A k \in Live(panes) : LET p == panes[k] IN
      /\ ~p.output_done => p.output_pending \/ p.ingest_pending \/ p.output_held
      /\ ~(p.output_pending /\ p.ingest_pending)
      /\ p.output_held => p.media_working /\ ~p.output_pending /\ ~p.ingest_pending
      /\ p.output_done => ~p.output_pending /\ ~p.ingest_pending /\ ~p.output_held

(* The store's counters are the panes it holds: collect() returns early on *)
(* exited_count = 0, and allocateKey() refuses at count = capacity.        *)
StoreCounted ==
  /\ count = Cardinality(Live(panes))
  /\ exited_count = Cardinality({k \in Live(panes) : panes[k].exit})

(* A committed tab has a pane, and a pane without a committed tab is on    *)
(* its way out, although a failed launch leaves its pane behind and its    *)
(* tab identity is given out again.                                        *)
TabsHeld ==
  phase \in {"running", "failed", "stopped"} =>
    /\ \A tab \in tabs : At(panes, tab) # {}
    /\ \A k \in Live(panes) : panes[k].tab \notin tabs => panes[k].close_requested \/ panes[k].exit

(* A launched pane is only destroyed by a running runtime once its exit    *)
(* was queued for history, whichever of exit and end of output came last;  *)
(* readyToDestroy() itself does not ask.                                   *)
ExitRecorded ==
  [][\A k \in Keys :
       phase = "running" /\ panes[k] # NoPane /\ panes'[k] = NoPane /\ panes[k].launch = "running"
         => panes[k].history_exit_queued]_vars

(* Collection destroys an exited pane once no actor and no attachment      *)
(* borrows it (pane_closure.zig): after an update none is left over.       *)
CollectedWhenFree ==
  phase = "running" =>
    \A k \in Live(panes) :
      ~(panes[k].exit /\ panes[k].output_done /\ tasks[k] = {} /\ panes[k].observers = {})

(* A pane that is closing or whose child exited is collected: no actor,    *)
(* queue, held read or observer keeps it forever.                          *)
LeavingCollected == \A k \in Keys : Leaving(k) ~> (panes[k] = NoPane \/ phase # "running")

(* A read held for the media actor is taken up again. *)
HeldReadResumes ==
  \A k \in Keys : (panes[k] # NoPane /\ panes[k].output_held)
                    ~> (panes[k] = NoPane \/ ~panes[k].output_held \/ phase # "running")

================================================================================
