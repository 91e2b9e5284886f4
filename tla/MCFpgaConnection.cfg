CONSTANTS
  AddressSpace = 4
  CountSpace = 4
  Commands <- ShortCommands
  TimeoutBytes = 8
  TtyBuffer = 16
  MaxSessions = 2
  MaxCommands = 2
  MaxResets = 1
  HangUpSessions = {1}
SPECIFICATION LinkSpec
INVARIANTS
  LinkTypeOK
  SuccessMeansAccepted
  AcceptedExactlyOnce
  MemoryIsAsWritten
  ReadReturnsMemory
PROPERTIES
  CallsReturn
  QuitLocks
CHECK_DEADLOCK FALSE
