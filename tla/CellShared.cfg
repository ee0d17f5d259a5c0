SPECIFICATION Spec
CONSTANTS
  MaxClients = 2
  Values <- MCValues
  Blank = "blank"
  Sizes = {2}
  FirstSize = 2
  MaxMoves = 4
  Disturbed = FALSE
  NoAttachment = NoAttachment
INVARIANTS DamageCovers OwedCellsTimed
