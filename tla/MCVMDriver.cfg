CONSTANTS
  ByteSize = 256
  AddressSize = 64
  DisplacementSize = 4096
  Images <- MCImages
  DeviceIds = {0, 3}
  InputBytes = {65}
  FloatResults = {}
  FixResults = {}
  MaxSignals = 2
  BitAnd <- MCAnd
  BitOr <- MCOr
  BitXor <- MCXor
SPECIFICATION VMSpec
INVARIANTS
  VMTypeOK
  OwedSignalIsPending
PROPERTIES
  HandlerIsInvisible
  HandlersDoNotNest
  OwedSignalIsServed
  HaltsWithSuccess
