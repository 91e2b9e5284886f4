CONSTANTS
  ByteSize = 256
  AddressSize = 64
  DisplacementSize = 4096
  Opcodes <- LowOpcodes
  Mnemonics <- MCMnemonics
SPECIFICATION Spec
INVARIANTS
  NothingIsHidden

