CONSTANTS
  r1 = r1
  r2 = r2
  a1 = a1
  a2 = a2
  Missing = Missing
  Unencodable = Unencodable
  MaxActions = 2
  RequestIds <- MCRequestIds
  FunctionIds <- MCFunctionIds
  ActionIds <- MCActionIds
  RicPdus <- FewRicPdus
  MaxPdus = 2
  Lines <- MCLines
  ReportFiles <- FewReportFiles
  Sources = {"file"}
  MaxFeed = 0
  OpType = "unset"
  OwnRequestId = r2
  OwnActionId = a2
SPECIFICATION FairSpec
CHECK_DEADLOCK FALSE
PROPERTIES
  EveryPduHandled
