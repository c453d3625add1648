SPECIFICATION FairSpec
CONSTANTS
  S_bus_bandwidth = 4
  S_memory_latency = 2
  S_icache_block_size = 8
  NumSets = 1
  Assoc = 2
  FetchAddrs <- MCFetchAddrs
  DcacheRequests <- MCDcache
  MaxPending = 2
INVARIANTS NeverPunts OneMissInFlight ReadsAreConserved FetchedInstructionsAreCached
PROPERTY MissesComplete
