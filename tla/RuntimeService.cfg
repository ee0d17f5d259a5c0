SPECIFICATION ServiceSpec
CHECK_DEADLOCK FALSE
CONSTANTS
  Handshakes = {h1}
  Clients = {1, 2}
  Workspaces = {w1, w2}
  QueueCapacity = 1
  MaxKeys = 2
  MaxMessages = 2
  MaxExits = 3
  MaxRefusals = 1
  None = None
INVARIANTS BorrowsHeld LossRemembered ChangePersisted
PROPERTY Settles
