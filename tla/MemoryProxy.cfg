SPECIFICATION ToolsSpec
CONSTANTS
  Graphs = {}
  Workloads <- MCWorkloads
  SortedTools <- MCSortedTools
  Mix <- MCMix
  Buckets = 8
  Word = 256
INVARIANTS
  ToolsTypeOK
  ReportIsExact
  ReportIsNeverShort
  BooksBalance
  SummaryAgreesWithTable
  ReportsAgree
  AttributionIsNotFiltered
CHECK_DEADLOCK FALSE
