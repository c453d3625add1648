SPECIFICATION Spec
CONSTANTS
  Ids = {1, 2, 3, 4}
  Regs = {1, 2}
  Ops <- MCOps
  NumFetchStages = 2
  IssueWidth = 2
  FetchWidth = 2
  FetchBufSize = 2
  RetireWidth = 2
  DcachePorts = 1
  Units <- MCUnits
  MaxSkip = 1
  TraceLength = 4
  Parms <- MCParms
INVARIANTS
  PipelineNeverPunts
  ScoreboardIsExact
  WrongPathStartsAtItsBranch
  TraceIsConserved
  CompletedRequestsHaveReturned
  SampleEndsClean
PROPERTY
  TraceIsSimulated
