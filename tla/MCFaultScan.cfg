SPECIFICATION ScanSpec
CONSTANTS
  Td5 = Td5
  Slabs = Slabs
  Airbag = Airbag
  NoModule = NoModule
  Modules = {Td5, Slabs, Airbag}
  Unlocking = {Td5}
  Confirming = {Slabs}
  SlowInit = {Airbag}
  Attempts <- MCAttempts
  ScanOrder <- MCScanOrder
INVARIANTS
  ScanTypeOK
  ClosedPortOwesNoLink
  ClosedPortOwesNoTd5Session
  InitAfterSilence
  OneRowPerModule
PROPERTY
  ScanEnds
