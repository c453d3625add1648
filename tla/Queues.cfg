SPECIFICATION Spec
CONSTANTS
  Qs = {1, 2}
  Ids = {1, 2, 3}
  Sints = {1, 2}
  Requests = {1, 2}
INVARIANT QueuesAreWellFormed
PROPERTY ImplementsQueues
