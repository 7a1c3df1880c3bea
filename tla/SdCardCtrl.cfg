SPECIFICATION MCSpec
CONSTANTS
  BlockSize = 2
  Sdhc = TRUE
  InitClks = 2
  AddrSpace = 4
  Addrs = {3}
  HostData = {90}
  PromptHost = TRUE
  MayReset = TRUE
  MaxResets = 1
  Responses = {0, 1, 5, 13}
  EagerHost = FALSE
  BlockBytes = {0, 1, 5, 13, 254}
INVARIANTS TypeOK WholeBlock
PROPERTIES PinDiscipline HandshakePhases ImplementsPort
