--------------------------- MODULE SessionCheckpoint ---------------------------
(***************************************************************************)
(* The session checkpoint's write-behind: CheckpointWriter.zig and         *)
(* session_checkpoint.zig.  A written snapshot, in the file or on its way, *)
(* is "current" until the next change and "stale" after it.  A checkpoint  *)
(* path is configured, and the debounce is any delay.                      *)
(***************************************************************************)

VARIABLES
  k_dirty,      \* CheckpointWriter.dirty
  k_pending,    \* CheckpointWriter.pending: the snapshot written and what its worker did
  k_file,       \* the snapshot in the file
  k_skipped,    \* history: the last change could not be encoded and waits for the next one
  k_final       \* the write at shutdown: "none", "written", "failed"

checkpointVars == <<k_dirty, k_pending, k_file, k_skipped, k_final>>

NoWrite == [snapshot |-> "none", worker |-> "none"]

CheckpointInit ==
  /\ k_dirty = FALSE /\ k_pending = NoWrite
  /\ k_file = "current" /\ k_skipped = FALSE /\ k_final = "none"

(* noteChange(). *)
NoteChange ==
  /\ k_dirty' = TRUE /\ k_skipped' = FALSE
  /\ k_file' = "stale"
  /\ k_pending' = IF k_pending = NoWrite THEN NoWrite ELSE [k_pending EXCEPT !.snapshot = "stale"]
  /\ UNCHANGED k_final

(* start() on a maintenance tick: a write that is due starts with what the *)
(* model is now; a scheduler that refuses it completes it as failed; one   *)
(* that cannot be encoded is skipped until the next change.                *)
StartWrite ==
  /\ k_dirty /\ k_pending = NoWrite
  /\ \/ /\ k_pending' = [snapshot |-> "current", worker |-> "running"]
        /\ k_dirty' = FALSE /\ UNCHANGED k_skipped
     \/ k_dirty' = FALSE /\ k_skipped' = TRUE /\ UNCHANGED k_pending
  /\ UNCHANGED <<k_file, k_final>>

(* writeFile(), on a worker: the rename puts the snapshot in place. *)
WorkerWrites ==
  /\ k_pending.worker = "running"
  /\ \/ k_pending' = [k_pending EXCEPT !.worker = "renamed"] /\ k_file' = k_pending.snapshot
     \/ k_pending' = [k_pending EXCEPT !.worker = "failed"] /\ UNCHANGED k_file
  /\ UNCHANGED <<k_dirty, k_skipped, k_final>>

(* Mutant: a write that failed is not tried again. *)
NeverDirty(worker) == k_dirty

(* completeWrite(): a failure leaves the checkpoint dirty; a change during *)
(* the write already has.                                                  *)
DirtyAfter(worker) == k_dirty \/ worker = "failed"

(* finish(): the loop takes the completion. *)
FinishWrite ==
  /\ k_pending.worker \in {"renamed", "failed"}
  /\ k_pending' = NoWrite /\ k_dirty' = DirtyAfter(k_pending.worker)
  /\ UNCHANGED <<k_file, k_skipped, k_final>>

(* Mutant: the joined write is left as it is. *)
KeepJoinedWrite == UNCHANGED <<k_pending, k_dirty>>

(* discardJoinedWrite(): its outcome is unknown. *)
DiscardJoinedWrite ==
  /\ k_pending' = NoWrite
  /\ k_dirty' = (k_dirty \/ k_pending # NoWrite)

(* loop.cancel() joins the worker, which may finish or be cut short. *)
JoinWrite ==
  /\ DiscardJoinedWrite
  /\ k_file' \in {k_file} \cup (IF k_pending.worker = "running" THEN {k_pending.snapshot} ELSE {})
  /\ UNCHANGED <<k_skipped, k_final>>

(* writeNow(): the last word, unless a write is still pending. *)
WriteNow ==
  /\ k_final' \in {"written", "failed"}
  /\ LET held == k_pending = NoWrite /\ k_final' = "written"
     IN k_file' = (IF held THEN "current" ELSE k_file) /\ k_dirty' = (k_dirty /\ ~held)
  /\ UNCHANGED <<k_pending, k_skipped>>

--------------------------------------------------------------------------------
(* A change the file does not hold is owed to it: the checkpoint is dirty, *)
(* or a write that has it is under way, or it could not be encoded.  The   *)
(* write at shutdown leaves the last change in the file or has failed,     *)
(* whatever became of a write it interrupted (CheckpointWriter.zig:87).    *)
ChangePersisted ==
  k_file = "stale" =>
    \/ k_final = "none" /\ (k_dirty \/ k_pending.snapshot = "current" \/ k_skipped)
    \/ k_final = "failed"

================================================================================
