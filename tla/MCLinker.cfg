SPECIFICATION Spec
CONSTANTS
  SymbolNames = {"main", "middle", "last"}
  AddressLimit = 24
  Modules <- MCModules
  StartAddresses <- MCStartAddresses
  MaxInputs = 3
  MaxFiles = 6
INVARIANTS
  TypeOK
  LinkedProgramMeans
  OutputsAreValidInputs
\* The directory is full, or no further run can succeed.
CHECK_DEADLOCK FALSE
