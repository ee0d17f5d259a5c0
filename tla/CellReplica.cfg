SPECIFICATION Spec
CONSTANTS
  MaxClients = 1
  Values <- MCValues
  Blank = "blank"
  Sizes = {1, 2}
  FirstSize = 2
  MaxMoves = 4
  Disturbed = TRUE
  NoAttachment = NoAttachment
INVARIANTS ReplicaFollows PatchesApply SizesAgree
PROPERTIES ExitAfterLastFrame Converges
