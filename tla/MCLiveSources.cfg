SPECIFICATION Spec
CONSTANTS
  BusPeriod = 2
  FaultPeriod = 3
  EmptyGrace = 3
  FaultEvery = 2
  FuelCap = 2
  ExtraLids = 2
  ConnectTimes = {1, 2}
  CommandTimes = {0, 1}
  BleedGap = 2
  ReadTimes = {0, 1}
INVARIANTS
  TypeOK
  AbsenceIsNotCounted
PROPERTIES
  SilenceEndsSession
  ClearedListGoes
CHECK_DEADLOCK FALSE
