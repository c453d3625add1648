SPECIFICATION MCSpec
CONSTANTS
  NumLines = 1
  Assoc = 2
  Hash <- MCHash
  Regs = {1, 2}
  Accesses <- MCAccesses
  Sampling = TRUE
CHECK_DEADLOCK FALSE
INVARIANTS TypeOK PreloadsAreTracked TrueConflictsAreReported ChecksNeverPunt
