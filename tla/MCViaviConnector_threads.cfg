CONSTANTS
  c1 = c1
  c2 = c2
  c3 = c3
  Connections <- ThreeConnections
  MaxPieces <- OnePiece
  PipeCapacity = 1
SPECIFICATION Spec
CHECK_DEADLOCK FALSE
INVARIANTS
  SafeDestruction
  OneMoreConnection
