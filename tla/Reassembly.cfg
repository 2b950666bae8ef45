CONSTANTS
  SeqSpace = 6
  Sizes = {1, 2, 3, 4}
  MaxFrames = 2
  Networks <- MildNetworks
  FirstSeqs <- AllSeqs
SPECIFICATION FairSpec
CHECK_DEADLOCK FALSE
INVARIANTS
  DeliveredIntact
  ReconstructedWithoutCopies
  HolesAreCopies
  HeldHasHole
PROPERTY EventuallyDelivered
