SPECIFICATION Spec
CONSTANTS
  Clients = {c1}
  MaxKey = 1
  Capacity = 1
  TabCapacity = 1
  MaxTab = 1
  MaxResponses = 0
  MaxInput = 1
  Resizes = TRUE
  ResizeFailsLate = TRUE
  NoPane = NoPane
INVARIANTS CollectedWhenFree
CHECK_DEADLOCK FALSE
