SPECIFICATION Spec
CONSTANTS
  WordBits = 2
  Words = 2
  Granule = 2
  Elements <- MCElements
INVARIANTS OperationsAreRight QueriesAreRight EnumerationsAreRight
