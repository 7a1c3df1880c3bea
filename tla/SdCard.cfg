SPECIFICATION MCSpec
CONSTANTS
  SectorLen = 2
  CidLen = 1
  AllowSdhc = TRUE
  Sectors <- MCSectors
  Configs <- BothConfigs
  Configured = TRUE
  MidByteDeselect = FALSE
  Frames <- AllFrames
  Interrupting <- StartFrames
INVARIANTS TypeOK OneTransfer SentSector FetchedSector ServedAddress
