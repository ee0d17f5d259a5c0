------------------------------- MODULE SlotTrace -------------------------------
(***************************************************************************)
(* tools/gui_slot_probe.py: how long work waited for the one frame slot of *)
(* the native view.  analyze() replays the events the probe library        *)
(* recorded, in order of time; here every event is analysed as it is       *)
(* recorded, for a window chosen in advance.  The recorder is the library  *)
(* gui_slot_probe.m: it records the view's flags at the start, at requests, *)
(* visibility changes, draws and the close, and none at the steps of a     *)
(* frame.  What the view does to its flags between two records is external. *)
(***************************************************************************)
EXTENDS Integers, Sequences, FiniteSets, FiniteSetsExt, SequencesExt

CONSTANTS
  SlotTime,     \* bound: ticks of a recording
  SlotFrames    \* bound: frames of a recording

ASSUME SlotAssumption == SlotTime \in Nat /\ SlotFrames \in Nat

(* Ticks from a frame to the next one's deadline. *)
FramePeriod == 2

VARIABLES
  s_pc,         \* "idle", "recording", "closing", "closed"
  s_now,        \* CACurrentMediaTime()
  s_view,       \* the view: dirty, busy, visible, closed and its next draw
  s_stage,      \* the frame: "free", "preparing", "prepared", "waiting", "completing"
  s_window,     \* the observation window, <<start, end>>
  s_replay,     \* analyze()'s locals
  s_blocked     \* history: ticks of the window the view was blocked, and past its deadline

slotVars == <<s_pc, s_now, s_view, s_stage, s_window, s_replay, s_blocked>>

(* A demand, and then its frame: no times yet. *)
Nothing == [requestAt |-> -1, observed |-> FALSE, dirtyBusy |-> 0, eligibleBusy |-> 0,
            prepareAt |-> -1, completeEnd |-> -1]

SlotInit ==
  /\ s_pc = "idle" /\ s_now = 0 /\ s_stage = "free" /\ s_window = <<0, 0>>
  /\ s_view = [dirty |-> FALSE, busy |-> FALSE, visible |-> TRUE, closed |-> FALSE, deadline |-> 0]
  /\ s_replay = [state |-> s_view, previous |-> 0, demand |-> Nothing, pending |-> Nothing,
                 frames |-> <<>>, dirtyBusy |-> 0, eligibleBusy |-> 0]
  /\ s_blocked = [dirty |-> 0, eligible |-> 0]

--------------------------------------------------------------------------------
(* analyze(), event by event. *)

Blocked(state) == state.dirty /\ state.busy /\ state.visible /\ ~state.closed

Span(from, to) == Max({0, to - from})

(* Mutant: an interval that began before the window is not clipped. *)
UnclippedAtStart(from, to) ==
  IF to < s_window[1] THEN 0 ELSE Span(from, Min({to, s_window[2]}))

(* The part of an interval inside the window. *)
Clipped(from, to) == Span(Max({from, s_window[1]}), Min({to, s_window[2]}))

(* A demand, if there is one, waits for a whole interval, unclipped. *)
Waited(demand, from, due) ==
  IF demand = Nothing THEN demand
  ELSE [demand EXCEPT !.dirtyBusy = @ + Span(from, s_now), !.eligibleBusy = @ + Span(due, s_now)]

(* Since the previous event the replayed state has not changed: a blocked  *)
(* interval counts in the window's totals and in the demand's.             *)
Account(r) ==
  LET due == Max({r.previous, r.state.deadline})
  IN IF ~Blocked(r.state) THEN [r EXCEPT !.previous = s_now]
     ELSE [r EXCEPT
             !.previous = s_now,
             !.dirtyBusy = @ + Clipped(r.previous, s_now),
             !.eligibleBusy = @ + Clipped(due, s_now),
             !.demand = Waited(@, r.previous, due)]

(* Every event is accounted for first; one with flags replaces the state.  *)
WithState(r) == [Account(r) EXCEPT !.state = s_view]

(* request_begin: the first request since the last frame is the demand. *)
OnRequest(r) ==
  LET read == WithState(r)
  IN IF read.state.closed THEN read
     ELSE [read EXCEPT !.state.dirty = TRUE,
                       !.demand = IF @ = Nothing THEN [Nothing EXCEPT !.requestAt = s_now, !.observed = TRUE] ELSE @]

(* prepare_begin: the frame takes the demand, or an unobserved one. *)
OnPrepareBegin(r) ==
  LET read == Account(r)
  IN [read EXCEPT !.state.dirty = FALSE, !.demand = Nothing,
                  !.pending = [(IF read.demand = Nothing THEN [Nothing EXCEPT !.requestAt = s_now] ELSE read.demand)
                                 EXCEPT !.prepareAt = s_now]]

(* prepare_end: the frame is known by its token from here on. *)
OnPrepareEnd(r) ==
  LET read == Account(r)
  IN [read EXCEPT !.frames = Append(@, read.pending), !.pending = Nothing]

OnWaitBegin(r) == [Account(r) EXCEPT !.state.busy = TRUE]
OnCompleteBegin(r) == [Account(r) EXCEPT !.state.busy = FALSE]
OnCompleteEnd(r) == LET read == Account(r) IN [read EXCEPT !.frames[Len(read.frames)].completeEnd = s_now]
OnCloseBegin(r) == [WithState(r) EXCEPT !.state.closed = TRUE]

(* The frames whose latency counts in a windowed report: from an observed  *)
(* request to the main thread's completion inside the window.              *)
Contained(r) ==
  {i \in DOMAIN r.frames :
     LET f == r.frames[i]
     IN /\ f.prepareAt >= s_window[1] /\ f.prepareAt < s_window[2]
        /\ f.observed /\ f.requestAt >= s_window[1]
        /\ f.completeEnd # -1 /\ f.completeEnd <= s_window[2]}

--------------------------------------------------------------------------------
(* What the library records, and what the view does meanwhile. *)

(* The recording starts, in whatever state the view is: in the middle of a *)
(* frame's life, behind another window, with its next draw due or not.     *)
MeasureStart ==
  /\ s_pc = "idle" /\ s_pc' = "recording"
  /\ s_window' \in {w \in (0 .. SlotTime) \X (1 .. SlotTime) : w[1] < w[2]}
  /\ \E dirty, busy, visible \in BOOLEAN, deadline \in 0 .. FramePeriod :
       /\ s_view' = [dirty |-> dirty, busy |-> busy, visible |-> visible, closed |-> FALSE, deadline |-> deadline]
       /\ s_stage' = IF busy THEN "waiting" ELSE "free"
       /\ s_replay' = [s_replay EXCEPT !.state = s_view',
                                       !.frames = IF busy THEN <<Nothing>> ELSE <<>>]
  /\ UNCHANGED <<s_now, s_blocked>>

(* A tick: history counts it when the view is blocked for its length. *)
SlotTick ==
  /\ s_pc \in {"recording", "closing"} /\ s_now < SlotTime
  /\ s_now' = s_now + 1
  /\ LET counted == Blocked(s_view) /\ s_window[1] <= s_now /\ s_now < s_window[2]
     IN s_blocked' = [dirty |-> s_blocked.dirty + (IF counted THEN 1 ELSE 0),
                      eligible |-> s_blocked.eligible
                                     + (IF counted /\ s_now >= s_view.deadline THEN 1 ELSE 0)]
  /\ UNCHANGED <<s_pc, s_view, s_stage, s_window, s_replay>>

(* requestDraw: the library records the state, then the view is dirty. *)
RequestDraw ==
  /\ s_pc = "recording"
  /\ s_view' = [s_view EXCEPT !.dirty = TRUE]
  /\ s_replay' = OnRequest(s_replay)
  /\ UNCHANGED <<s_pc, s_now, s_stage, s_window, s_blocked>>

(* The window is covered or shown; drawIfReady records the state. *)
Occlude ==
  /\ s_pc = "recording"
  /\ s_view' = [s_view EXCEPT !.visible = ~@]
  /\ s_replay' = [Account(s_replay) EXCEPT !.state = s_view']
  /\ UNCHANGED <<s_pc, s_now, s_stage, s_window, s_blocked>>

Prepare ==
  /\ s_pc = "recording" /\ s_stage = "free" /\ s_view.dirty /\ s_view.visible /\ s_now >= s_view.deadline
  /\ Len(s_replay.frames) < SlotFrames
  /\ s_stage' = "preparing"
  /\ s_view' = [s_view EXCEPT !.dirty = FALSE, !.deadline = s_now + FramePeriod]
  /\ s_replay' = OnPrepareBegin(s_replay)
  /\ UNCHANGED <<s_pc, s_now, s_window, s_blocked>>

Prepared ==
  /\ s_stage = "preparing" /\ s_stage' = "prepared"
  /\ s_replay' = OnPrepareEnd(s_replay)
  /\ UNCHANGED <<s_pc, s_now, s_view, s_window, s_blocked>>

(* The frame is submitted: the slot is busy; draw_end records the state. *)
Submit ==
  /\ s_stage = "prepared" /\ s_stage' = "waiting"
  /\ s_view' = [s_view EXCEPT !.busy = TRUE]
  /\ s_replay' = [OnWaitBegin(s_replay) EXCEPT !.state = s_view']
  /\ UNCHANGED <<s_pc, s_now, s_window, s_blocked>>

CompleteFrame ==
  /\ s_stage = "waiting" /\ s_stage' = "completing"
  /\ s_view' = [s_view EXCEPT !.busy = FALSE]
  /\ s_replay' = OnCompleteBegin(s_replay)
  /\ UNCHANGED <<s_pc, s_now, s_window, s_blocked>>

Completed ==
  /\ s_stage = "completing" /\ s_stage' = "free"
  /\ s_replay' = OnCompleteEnd(s_replay)
  /\ UNCHANGED <<s_pc, s_now, s_view, s_window, s_blocked>>

CloseWindow ==
  /\ s_pc = "recording" /\ s_pc' = "closing"
  /\ s_view' = [s_view EXCEPT !.closed = TRUE]
  /\ s_replay' = OnCloseBegin(s_replay)
  /\ UNCHANGED <<s_now, s_stage, s_window, s_blocked>>

(* The GPU is joined and the trace written. *)
Joined ==
  /\ s_pc = "closing" /\ s_stage = "free" /\ s_pc' = "closed"
  /\ s_replay' = WithState(s_replay)
  /\ UNCHANGED <<s_now, s_view, s_stage, s_window, s_blocked>>

SlotNext ==
  \/ MeasureStart \/ SlotTick \/ RequestDraw \/ Occlude \/ Prepare \/ Prepared
  \/ Submit \/ CompleteFrame \/ Completed \/ CloseWindow \/ Joined

--------------------------------------------------------------------------------
(* The totals are the time inside the window that the view really was      *)
(* dirty, busy and visible, and past its deadline.                         *)
TotalsExact == s_replay.dirtyBusy = s_blocked.dirty /\ s_replay.eligibleBusy = s_blocked.eligible

(* The totals of a windowed report are exact, however the window cuts the  *)
(* intervals and whatever happened before it (gui_slot_probe.py:60); the   *)
(* frames wholly inside share in them.                                     *)
WindowedTotals ==
  s_pc = "closed" =>
    /\ TotalsExact
    /\ MapThenSumSet(LAMBDA i : s_replay.frames[i].dirtyBusy, Contained(s_replay)) <= s_blocked.dirty
    /\ MapThenSumSet(LAMBDA i : s_replay.frames[i].eligibleBusy, Contained(s_replay)) <= s_blocked.eligible

================================================================================
