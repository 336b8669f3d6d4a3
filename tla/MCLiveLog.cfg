SPECIFICATION Spec
CONSTANTS
  Tabs = {td5, slabs}
  FaultLists = {"clean", "fault"}
  NoFaults = "clean"
  Phases = {"opening"}
  MayFail = {"header", "row", "journal", "connlog"}
  MaxRecordings = 2
  MaxCalls = 2
  MaxTurns = 1
SYMMETRY TabSymmetry
INVARIANTS
  TypeOK
  RowsUnderOwnHeader
  StoppedRecordingEnds
  JournalsAreCurrent
CHECK_DEADLOCK FALSE
