CONSTANTS
  q1 = q1
  q2 = q2
  Queues = {q1, q2}
  Callbacks = {c1, c2}
  Nobody = Nobody
  MaxPackets = 2
  MaxSets = 2
  Scenarios <- TwoScenarios
SPECIFICATION Spec
CHECK_DEADLOCK FALSE
SYMMETRY CallbackSymmetry
INVARIANTS
  NothingDropped
  WholeOrNothing
  OffsetsKeepDistance
PROPERTY QueuesDeliver
