SPECIFICATION Spec
CONSTANTS
  Cards <- SmallCards
  Setups <- SmallSetups
  FailOn = {"init", "mount", "fat", "dir", "data"}
  Word = 64
  SectorSpace = 24
  FatWords = 4
  DirEntries = 2
  DirSectors = 2
  DirMax = 6
  DirRoom = 8
  Screen = 2
  PageSectors = 2
  Pages = 3
  Debug = TRUE
INVARIANTS TypeOK CacheTrue WholeDirectory CursorListed RomIsFile PressOnce
PROPERTIES Ends
