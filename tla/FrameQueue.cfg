CONSTANTS
  Lens = {0, 2, 5}
  PayloadSize = 2
  SeqMod = 4
  MaxFrames = 3
  FirstSeqs = {2}
  FlagSets <- MCFlagSets
  Formats = {"GENERIC", "H26X", "ATLAS"}
  Callbacks = {cb1}
  None = None
SPECIFICATION Spec
INVARIANTS
  CaptureOnlyStaysLocal
  CapturedWhole
  ReturnCodeTellsWire
  SeqGapsAreDroppedPackets
  TransactionReleased
PROPERTIES
  FramesAreDelivered
