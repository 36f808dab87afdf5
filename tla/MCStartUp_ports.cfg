CONSTANTS
  Texts <- AllTexts
  CommandLines <- Lines
  LongSize = 64
  IntSize = 16
  PortSize = 4
  SctpPort = 1
  SourcePort = 2
  DefaultIp <- TheIp
  DefaultGnb <- TheGnb
  DefaultPlmn <- ThePlmn
  NoText = none
SPECIFICATION Spec
CHECK_DEADLOCK FALSE
INVARIANT
  InvalidPortsRefused
