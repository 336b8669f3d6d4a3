SPECIFICATION Spec
CONSTANTS
  Tabs = {td5, slabs}
  FaultLists = {"clean", "fault"}
  NoFaults = "clean"
  Phases = {"opening", "init"}
  MayFail = {"header"}
  MaxRecordings = 2
  MaxCalls = 3
  MaxTurns = 1
INVARIANT
  RowsAreRectangular
CHECK_DEADLOCK FALSE
