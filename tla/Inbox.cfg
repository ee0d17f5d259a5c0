SPECIFICATION Spec
CONSTANTS
  Capacity = 2
  Producers = {p1, p2}
  Messages <- MCMessages
  Tag <- MCTag
  Undefined = Undefined
  NoTicket = NoTicket
  MaxTurn = 1
  MaxGeneration = 2
INVARIANTS RingHoldsReadySlots ReservationsCounted ReadyTracksWork OneOwner WakePosted
PROPERTIES ImplementsFifo DrainedAfterClose EveryMessageConsumed
