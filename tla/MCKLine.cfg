SPECIFICATION Spec
CONSTANTS
  Cables = {"serial", "bridge"}
  Services = {"read09", "read0D"}
  Sid <- MCSid
  Inits = {"strict", "functional", "slow"}
  Retries = 1
  MaxPending = 1
  MaxPings = 1
  MaxRequests = 2
  MaxWire <- MCMaxWire
INVARIANTS
  TypeOK
  AnswerIsOwn
  InitIsHeard
PROPERTIES
  RequestEnds
CHECK_DEADLOCK FALSE
