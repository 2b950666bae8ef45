CONSTANTS
  DH = {d1}
  MSM = {m1, m2}
SPECIFICATION ZrtpSpec
CHECK_DEADLOCK FALSE
INVARIANT OneMultistream
