SPECIFICATION Spec
CONSTANTS
  Clients = {c1}
  MaxKey = 1
  Capacity = 1
  TabCapacity = 1
  MaxTab = 1
  MaxResponses = 1
  MaxInput = 1
  Resizes = TRUE
  ResizeFailsLate = FALSE
  NoPane = NoPane
INVARIANTS ActorsCounted NoDanglingBorrow ReadNeverLost CollectedWhenFree
PROPERTIES ExitRecorded LeavingCollected HeldReadResumes
CHECK_DEADLOCK FALSE
