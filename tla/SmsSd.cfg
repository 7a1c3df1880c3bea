SPECIFICATION Spec
CONSTANTS
  Sectors = {0, 1, 8}
  BlockLen = 8
  Contents <- Blocks
  AddrSpace = 128
  WakeBytes = 2
  ReadyTries = 2
  R1Tries = 3
  Retries = 1
  CardKinds = {"V1", "V2", "MMC", "none"}
  Gaps = {0, 2, 4}
  TokenGaps = {0, 2}
  InitPolls = 2
  KeepsOutput = FALSE
  PullIn <- Unattended
INVARIANTS TypeOK OwnAnswer
PROPERTIES FastWhenReady ImplementsSectorPort Ends
