CONSTANTS
  c1 = c1
  c2 = c2
  c3 = c3
  Connections <- TwoConnections
  MaxPieces <- TwoAndOne
  PipeCapacity = 1
SPECIFICATION FairSpec
CHECK_DEADLOCK FALSE
PROPERTIES
  EndIsNoticed
  ConnectionFreesServer
  DestructionEnds
