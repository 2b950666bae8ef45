CONSTANTS
  Options <- AllOptions
  FramesPerPacket = {0, 1}
  MaxPackets = 4
SPECIFICATION FairSpec
CHECK_DEADLOCK FALSE
INVARIANTS
  SavedInOrder
  LostOnlyInFlight
  StopsAfterMax
  ReturnsFirstOutcome
PROPERTIES
  FinishedReturns
  TimeoutReturns
