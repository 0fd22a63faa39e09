\* five nodes; requests of the size of a node and of more
SPECIFICATION HeapSpec
CONSTANTS
  HEAP_NODE_SIZE = 8
  Sizes = {8, 9}
  MaxBreak = 5
INVARIANTS RingOk BreakRestored
\* heap_free() and a failing sbrk() end the protocol
CHECK_DEADLOCK FALSE
