\* A node has two words of two bits; the program allocates two nodes.
SPECIFICATION Spec
CONSTANTS
  WIDTH = 2
  WORDS = 2
  MaxNodes = 2
INVARIANTS TypeOK ListOk BitsAreHeld NeverCorrupt RingUnreached
\* die() ends the process, and MaxNodes the gets
CHECK_DEADLOCK FALSE
