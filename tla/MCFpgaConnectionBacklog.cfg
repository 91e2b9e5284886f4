CONSTANTS
  AddressSpace = 4
  CountSpace = 4
  Commands <- LongCommands
  TimeoutBytes = 2
  TtyBuffer = 16
  MaxSessions = 1
  MaxCommands = 5
  MaxResets = 0
  HangUpSessions = {}
SPECIFICATION LinkSpec
INVARIANT SignalIsTriggered
CHECK_DEADLOCK FALSE
