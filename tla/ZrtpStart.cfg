CONSTANTS
  DH = {d1, d2}
  MSM = {m1, m2, m3}
SPECIFICATION FairZrtpSpec
CHECK_DEADLOCK FALSE
INVARIANTS
  OnlyAfterDH
  LockReleased
  OneMultistreamUntilStray
PROPERTY StartsReturn
