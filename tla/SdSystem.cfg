SPECIFICATION MCSpec
CONSTANTS
  SectorLen = 2
  CidLen = 1
  AllowSdhc = TRUE
  Sectors <- MCSectors
  Configs <- MCConfigs
  Configured = TRUE
  MidByteDeselect = FALSE
  InitClks = 2
  AddrSpace = 2
  Addrs = {1}
  HostData = {90}
  MaxResets = 0
PROPERTIES IsBlockDevice Completes
