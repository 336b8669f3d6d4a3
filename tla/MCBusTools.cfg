SPECIFICATION Spec
CONSTANTS
  Lids <- MCLids
  Bits = {0, 1}
  CarStates <- MCCarStates
  BlockOf <- MCBlockOf
  MaxBaseline = 2
  MaxFails = 2
  BusModules = {"td5", "slabs", "bcu"}
  Signed = {"td5", "slabs"}
  Writers = {"diffmap", "map_gui", "http"}
  Posted <- MCPosted
  MaxWrites = 2
  Shown <- MCShown
  Names = {"key"}
  MaxSamples = 2
INVARIANTS
  TypeOK
  ChangedBitsRested
  SniffedIsAttributed
  MappedFieldFitsSamples
  AcceptedFieldIsKept
CHECK_DEADLOCK FALSE
