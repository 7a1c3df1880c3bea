SPECIFICATION MCSpec
CONSTANTS
  SectorLen = 1
  CidLen = 2
  AllowSdhc = TRUE
  Sectors <- MCSectors
  Configs <- SdhcConfig
  Configured = FALSE
  MidByteDeselect = FALSE
  Frames <- ReadFrames
  Interrupting <- ReadFrames
INVARIANTS WholeConfig
