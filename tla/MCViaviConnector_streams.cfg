CONSTANTS
  c1 = c1
  c2 = c2
  c3 = c3
  Connections <- TwoConnections
  MaxPieces <- LinePerConnection
  PipeCapacity = 2
SPECIFICATION Spec
CHECK_DEADLOCK FALSE
INVARIANTS
  TypeOK
  StreamsKept
  StaleComesLast
  EndAfterAWholeStream
PROPERTIES
  ImplementsSource
