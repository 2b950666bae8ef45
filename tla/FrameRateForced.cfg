CONSTANTS
  Flags <- Both
  Rates <- OneRate
  Paces <- OnePace
  Second = 8
  MaxPackets = 1
  MaxFrames = 5
  MaxTime = 12
  MaxLag = 0
  Steps = {}
SPECIFICATION Spec
CHECK_DEADLOCK FALSE
INVARIANT RateForced
