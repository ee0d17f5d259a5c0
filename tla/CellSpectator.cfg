SPECIFICATION Spec
CONSTANTS
  MaxClients = 2
  Values <- MCValues
  Blank = "blank"
  Sizes = {1, 2}
  FirstSize = 1
  MaxMoves = 3
  Disturbed = FALSE
  NoAttachment = NoAttachment
INVARIANTS SizesAgree
