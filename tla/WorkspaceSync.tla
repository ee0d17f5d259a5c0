----------------------------- MODULE WorkspaceSync -----------------------------
(***************************************************************************)
(* One client's view of a workspace against the runtime's: the client      *)
(* departs and opens workspaces (client/workspace/workspace_handoff.zig),  *)
(* the runtime asks it to resynchronize what another client changed        *)
(* (runtime/resync_required.zig, delivery/Delivery.zig), and the two talk  *)
(* over a connection that is ordered in each direction.                    *)
(*                                                                         *)
(* Workspaces are changed, never closed, so an open always finds a pane    *)
(* and resync_required never carries workspace_closed.  Panes and tab      *)
(* snapshots are left out.                                                 *)
(***************************************************************************)
EXTENDS Naturals, Sequences

CONSTANTS
  Workspaces, None,
  MaxChanges,     \* bound: changes by another client
  MaxMoves        \* bound: workspaces the client selects or leaves

VARIABLES
  view,         \* runtime: Session.workspace
  resync,       \* runtime: ResponseQueue.resync_workspace
  responses,    \* runtime: the responses queued
  sending,      \* runtime: the write is in flight
  down, up,     \* the connection, each way
  projected,    \* client: model.workspace
  tracker,      \* client: the continuations of requests pending
  outcome,      \* client: what the last resync_required came to
  changes, moves

syncVars == <<view, resync, responses, sending, down, up, projected, tracker, outcome, changes, moves>>

Msg(kind, w) == [kind |-> kind, workspace |-> w]

(* The client starts in a workspace it opened and took a snapshot of. *)
SyncInit ==
  /\ view \in Workspaces /\ projected = view
  /\ resync = None /\ responses = <<>> /\ sending = FALSE
  /\ down = <<>> /\ up = <<>> /\ tracker = {} /\ outcome = "none"
  /\ changes = 0 /\ moves = 0

--------------------------------------------------------------------------------
(* The runtime.  flush(), which ends every event: unless a write is in     *)
(* flight, the first response is sent, or the resync_required owed.        *)
Flush(busy, queued, owed) ==
  LET response == ~busy /\ queued # <<>>
      resyncs == ~busy /\ queued = <<>> /\ owed # None
  IN /\ sending' = (busy \/ response \/ resyncs)
     /\ responses' = IF response THEN Tail(queued) ELSE queued
     /\ resync' = IF resyncs THEN None ELSE owed
     /\ down' = CASE response -> Append(down, Head(queued))
                  [] resyncs -> Append(down, Msg("resync_required", owed))
                  [] OTHER -> down

(* The write ends: the bytes are with the connection. *)
FinishSend ==
  /\ sending /\ Flush(FALSE, responses, resync)
  /\ UNCHANGED <<view, up, projected, tracker, outcome, changes, moves>>

(* notify(): another client changed a workspace this one observes. *)
Notify ==
  /\ changes < MaxChanges /\ changes' = changes + 1
  /\ view # None
  /\ Flush(sending, responses, view)
  /\ UNCHANGED <<view, up, projected, tracker, outcome, moves>>

(* A request: the last pane is detached, a workspace is opened, or its     *)
(* snapshot is asked for.  Leaving a workspace keeps what it is owed.      *)
OnRequest ==
  /\ up # <<>> /\ up' = Tail(up)
  /\ LET m == Head(up)
     IN \/ m.kind = "detach_pane" /\ view' = None /\ Flush(sending, responses, resync)
        \/ m.kind = "open_pane" /\ view' = m.workspace
           /\ Flush(sending, Append(responses, Msg("pane_opened", m.workspace)), resync)
        \/ m.kind = "request_workspace_snapshot" /\ UNCHANGED view
           /\ Flush(sending, Append(responses, Msg("workspace_snapshot", m.workspace)), resync)
  /\ UNCHANGED <<projected, tracker, outcome, changes, moves>>

--------------------------------------------------------------------------------
(* The client.  selectWorkspace(): only while no request is pending, it    *)
(* detaches, asks for the other workspace and retires its projection.      *)
SelectWorkspace(w) ==
  /\ moves < MaxMoves /\ moves' = moves + 1
  /\ tracker = {} /\ projected # w
  /\ up' = up \o (IF projected = None THEN <<>> ELSE <<Msg("detach_pane", projected)>>) \o <<Msg("open_pane", w)>>
  /\ tracker' = {"initial_open"} /\ projected' = None
  /\ UNCHANGED <<view, resync, responses, sending, down, outcome, changes>>

(* leaveWorkspace(): the window stops presenting this machine. *)
LeaveWorkspace ==
  /\ moves < MaxMoves /\ moves' = moves + 1
  /\ tracker = {} /\ projected # None
  /\ up' = Append(up, Msg("detach_pane", projected)) /\ projected' = None
  /\ UNCHANGED <<view, resync, responses, sending, down, tracker, outcome, changes>>

(* activateWorkspace() asks for the snapshot of the workspace it opened. *)
PaneOpened(w) ==
  /\ projected' = w /\ tracker' = (tracker \ {"initial_open"}) \cup {"workspace_snapshot"}
  /\ up' = Append(up, Msg("request_workspace_snapshot", w)) /\ UNCHANGED outcome

WorkspaceSnapshot == tracker' = tracker \ {"workspace_snapshot"} /\ UNCHANGED <<projected, up, outcome>>

(* applyResyncRequirement(). *)
ApplyResyncRequirement(w) ==
  /\ \/ projected # w /\ outcome' = "UnexpectedResync" /\ UNCHANGED <<tracker, up>>
     \/ projected = w /\ "workspace_snapshot" \in tracker /\ outcome' = "coalesced" /\ UNCHANGED <<tracker, up>>
     \/ /\ projected = w /\ "workspace_snapshot" \notin tracker /\ outcome' = "snapshot_requested"
        /\ tracker' = tracker \cup {"workspace_snapshot"}
        /\ up' = Append(up, Msg("request_workspace_snapshot", w))
  /\ UNCHANGED projected

(* receiveRuntime(): an error that is not a limit's ends the client. *)
ReceiveRuntime ==
  /\ outcome # "UnexpectedResync"
  /\ down # <<>> /\ down' = Tail(down)
  /\ LET m == Head(down)
     IN \/ m.kind = "pane_opened" /\ PaneOpened(m.workspace)
        \/ m.kind = "workspace_snapshot" /\ WorkspaceSnapshot
        \/ m.kind = "resync_required" /\ ApplyResyncRequirement(m.workspace)
  /\ UNCHANGED <<view, resync, responses, sending, changes, moves>>

SyncNext ==
  \/ FinishSend \/ Notify \/ OnRequest \/ ReceiveRuntime \/ LeaveWorkspace
  \/ \E w \in Workspaces : SelectWorkspace(w)

SyncSpec == SyncInit /\ [][SyncNext]_syncVars

--------------------------------------------------------------------------------
(* A client the runtime asks to resynchronize asks for a fresh snapshot or *)
(* has one coming (client/connection/resync_required.zig:1-2); it does not *)
(* end because the workspace was departed while the message was on its way *)
(* or still owed.                                                          *)
ResyncAsksForSnapshot == outcome \in {"none", "coalesced", "snapshot_requested"}

================================================================================
