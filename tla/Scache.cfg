SPECIFICATION Spec
CONSTANTS
  MaxId = 7
  NumSets = 2
  Assoc = 3
  Addrs <- MCAddrs
INVARIANT ListsAreSound
PROPERTY ImplementsLruCache
