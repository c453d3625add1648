SPECIFICATION Spec
CONSTANTS
  MaxId = 7
  NumSets = 1
  Assoc = 2
  VictimBlocks = 1
  Addrs = {0, 1, 2}
  Stored = {0, 1}
  Prefetched = {0}
  S_dcache_write_allocate = FALSE
  S_dcache_prefetch_buf_size = 1
  S_dcache_ignore_prefetch_bit = FALSE
  MaxWrites = 1
  MaxRequests = 2
INVARIANT OnlyPrefetchesDuplicate
PROPERTY OnlyExchangesLoseStores
