SPECIFICATION Spec
CONSTANTS
  SectorLen = 2
  AddrSpace = 64
  CountMod = 8
  RamSize = 8
  FileAddr = 0
  FileName <- Wanted
  Divider = 1
  Disks <- GoodCards
  FailIn = {"init"}
  MayReset = {0}
INVARIANT FileAddress
