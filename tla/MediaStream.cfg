CONSTANTS
  Kinds <- ManyKinds
  Settings <- ManySettings
  Callbacks = {c1}
  None = None
  Ipv4Header = 2
  Ipv6Header = 3
  AuthTag = 1
  DefaultMtu = 6
  Limits <- SmallLimits
SPECIFICATION Spec
CHECK_DEADLOCK FALSE
INVARIANTS
  TypeOK
  KeysBeforeFrames
  
  MediaHasConfig
  PacketsFitMtuUnlessRekeyed
