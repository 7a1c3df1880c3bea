SPECIFICATION Spec
CONSTANTS
  Cards <- SmallCards
  Setups <- SmallSetups
  FailOn = {"fat"}
  Word = 64
  SectorSpace = 24
  FatWords = 4
  DirEntries = 2
  DirSectors = 2
  DirMax = 6
  DirRoom = 8
  Screen = 2
  PageSectors = 2
  Pages = 3
  Debug = TRUE
INVARIANTS WholeOrReported
