SPECIFICATION FairSpec
CONSTANTS
  MaxWords = 4
  MaxBlock = 2
  BUF_MARK = 1
  BUF_SIZE = 3
  PipeSize = 3
  TRACE_BLOCK_SIZE = 2
INVARIANTS RendezvousSucceeds TraceArrivesInOrder EveryComplaintHasItsCause
PROPERTIES SimulationEnds ProgramIsReleased
CHECK_DEADLOCK FALSE
