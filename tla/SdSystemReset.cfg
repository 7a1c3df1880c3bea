SPECIFICATION MCSpec
CONSTANTS
  SectorLen = 1
  CidLen = 1
  AllowSdhc = TRUE
  Sectors <- MCSectors
  Configs <- MCConfigs
  Configured = TRUE
  MidByteDeselect = TRUE
  InitClks = 2
  AddrSpace = 1
  Addrs = {0}
  HostData = {90}
  MaxResets = 1
INVARIANTS FetchedSector ServedAddress
