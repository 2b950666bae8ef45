CONSTANTS
  SeqSpace = 6
  Sizes = {3}
  MaxFrames = 1
  Networks <- CopyingNetwork
  FirstSeqs <- AllSeqs
SPECIFICATION Spec
CHECK_DEADLOCK FALSE
INVARIANT Reconstructed
