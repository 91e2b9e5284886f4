SPECIFICATION Spec
CONSTANTS
  Pointers <- MCPointers
  Names = {loop}
  NoName = NoName
  AddressLimit = 2
  TypedAddresses <- MCTypedAddresses
  MaxCount = 2
  MaxNumber = 3
INVARIANTS
  TypeOK
  BreakpointsAreConsistent
  PrintedNumbersHold
PROPERTIES
  RunsStopAtBreakpoints
  ContinuingMakesProgress
  CancelledOnlyOnRequest
  RequestEndsStart
\* The process may exit.
CHECK_DEADLOCK FALSE
