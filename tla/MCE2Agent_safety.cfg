CONSTANTS
  r1 = r1
  r2 = r2
  a1 = a1
  a2 = a2
  Missing = Missing
  Unencodable = Unencodable
  MaxActions = 2
  RequestIds <- MCRequestIds
  FunctionIds <- MCFunctionIds
  ActionIds <- MCActionIds
  RicPdus <- MCRicPdus
  MaxPdus = 2
  Lines <- MCLines
  ReportFiles <- MCReportFiles
  Sources = {"file", "viavi"}
  MaxFeed = 2
  OpType = "DELETE"
  OwnRequestId = r2
  OwnActionId = a2
SPECIFICATION Spec
CHECK_DEADLOCK FALSE
INVARIANTS
  TypeOK
  SetupComesFirst
  IndicationsFollowTheirResponse
  ReportsInSequence
  ReportsComplete
  OneAnswerEach
  StopIsPrompt
  IndicationsCarryAdmittedAction
PROPERTIES
  ImplementsContract
