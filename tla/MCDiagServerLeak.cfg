SPECIFICATION Spec
CONSTANTS
  Td5 = Td5
  Slabs = Slabs
  Airbag = Airbag
  NoModule = NoModule
  Modules = {Td5, Slabs, Airbag}
  Unlocking = {Td5}
  Confirming = {Slabs}
  SlowInit = {Airbag}
  Attempts <- MCAttempts
  ScanOrder <- MCScanOrder
  Tabs = {Td5, Slabs}
  Live = Live
  Mock = Mock
  NoData = NoData
  MaxCmds = 2
CHECK_DEADLOCK FALSE
INVARIANT
  ClosedPortOwesNoLink
