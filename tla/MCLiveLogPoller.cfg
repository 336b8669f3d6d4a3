SPECIFICATION Spec
CONSTANTS
  Tabs = {td5, slabs}
  FaultLists = {"clean", "fault"}
  NoFaults = "clean"
  Phases = {"opening", "init"}
  MayFail = {"header", "row", "journal", "connlog"}
  MaxRecordings = 2
  MaxCalls = 3
  MaxTurns = 1
INVARIANT
  PollerSurvives
CHECK_DEADLOCK FALSE
