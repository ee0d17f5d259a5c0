SPECIFICATION SyncSpec
CHECK_DEADLOCK FALSE
CONSTANTS
  Workspaces = {w1, w2}
  None = None
  MaxChanges = 2
  MaxMoves = 2
INVARIANT ResyncAsksForSnapshot
