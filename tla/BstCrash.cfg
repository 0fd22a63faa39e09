\* The trees of bst_set.c, three kids at the root.
SPECIFICATION MCSpec
CONSTANTS
  NULL = NULL
  ADDR_LEN = 2
  Kinds = {"bst"}
  Shuffled = {1, 2, 3}
  Few = {1, 2, 3}
  Ptrs <- MCPtrs
INVARIANT NeverCrashes
\* die(), a crash, an overrun and ps_free() end the program
CHECK_DEADLOCK FALSE
