CONSTANTS
  MaxImages = 3
  MaxPayloads = 2
  Clock = 3
  Fps = 2
  TsSpace = 3
  NoUnit = NoUnit
  CommandLines <- SomeCommandLines
SPECIFICATION Spec
CHECK_DEADLOCK FALSE
INVARIANTS
  UnitsAreImages
  SentWithoutGaps
  TimestampsDiffer
PROPERTY ReceiverReturns
