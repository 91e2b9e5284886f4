CONSTANTS
  ByteSize = 256
  AddressSize = 32
  DisplacementSize = 4096
  Images <- MCImages
  DeviceIds = {5}
  InputBytes = {65}
  FloatResults <- MCFloats
  FixResults = {3}
  BitAnd <- MCAnd
  BitOr <- MCOr
  BitXor <- MCXor
SPECIFICATION Spec
INVARIANTS
  TypeOK
PROPERTIES
  StuckMachineStaysStuck
  EndlessLoopIsExact
  StoredWordReadsBack
CHECK_DEADLOCK FALSE
