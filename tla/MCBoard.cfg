CONSTANTS
  ByteSize = 256
  AddressSize = 32
  DisplacementSize = 4096
  DelayLimit = 1
  Scenarios <- MCScenarios
  InputPort = {2}
  OutputPort = {5}
  InputBytes = {0, 65}
  BitAnd <- MCAnd
  BitOr <- MCOr
  BitXor <- MCXor
SPECIFICATION BoardSpec
INVARIANTS
  BoardTypeOK
  AnswersFit
PROPERTIES
  RunsLikeTheMachine
  StopIsObeyed
  EventIsServed
CHECK_DEADLOCK FALSE
