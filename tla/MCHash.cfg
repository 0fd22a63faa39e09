\* Capacities 2, 5 and 11: all hashes collide under 5, two under 2, none under 11.
SPECIFICATION MCSpec
CONSTANTS
  NULL = NULL
  N = 6
  Ptrs <- MCPtrs
  Hashes = {0, 5, 10}
INVARIANT Chained
PROPERTIES ImplementsPtrSet CallsReturn
\* die() and hash_free() end the protocol
CHECK_DEADLOCK FALSE
