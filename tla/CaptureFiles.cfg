CONSTANTS
  MaxRuns = 2
  MaxFrames = 2
  MaxPackets = 2
  MaxLosses = 1
  Overrides = {1}
SPECIFICATION Spec
CHECK_DEADLOCK FALSE
INVARIANTS
  ReplayIsPrefix
  RowsNameSavedPackets
  SavedReplaysWhole
