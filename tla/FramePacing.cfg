CONSTANTS
  Flags <- Both
  Rates <- TwoRates
  Paces <- TwoPaces
  Second = 8
  MaxPackets = 3
  MaxFrames = 4
  MaxTime = 13
  MaxLag = 1
  Steps <- BackAndForth
SPECIFICATION Spec
CHECK_DEADLOCK FALSE
INVARIANTS
  WaitIsLimited
  PacedWithinShare
PROPERTY RateKept
