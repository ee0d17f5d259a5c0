SPECIFICATION Spec
CONSTANTS
  Clients = {}
  MaxKey = 2
  Capacity = 2
  TabCapacity = 2
  MaxTab = 2
  MaxResponses = 0
  MaxInput = 0
  Resizes = FALSE
  ResizeFailsLate = FALSE
  NoPane = NoPane
INVARIANTS StoreCounted TabsHeld
CHECK_DEADLOCK FALSE
