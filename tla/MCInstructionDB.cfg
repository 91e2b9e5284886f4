CONSTANTS
  ByteSize = 256
  AddressSize = 64
  DisplacementSize = 4096
  Opcodes <- MCOpcodes
  Mnemonics <- MCMnemonics
SPECIFICATION Spec
INVARIANTS
  NothingIsHidden
  RefusedOnlyOnConflict

