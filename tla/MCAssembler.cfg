SPECIFICATION Spec
CONSTANTS
  ByteSize = 256
  AddressSize = 1048576
  DisplacementSize = 4096
  AddressLimit = 1048576
  IntegerLimit = 16777216
  MaxTextSectionSize = 5
  MaxBlocks = 4095
  SymbolNames <- MCNames
  Names <- MCTokenNames
  Programs <- MCPrograms
  OtherTexts <- MCOtherTexts
  Uppercase <- MCUppercase
  LoadAddresses = {0, 4096, 1044000}
  Library <- MCLibrary
INVARIANTS
  LinesSayWhatIsWritten
  PassesAgree
  LinesAreDisjoint
  OutputLinks
  ProgramMeans
PROPERTIES
  DefinitionsStand
\* The assembler has written its output or given up.
CHECK_DEADLOCK FALSE
