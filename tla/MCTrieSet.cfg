\* Pointers of two chunks.  The trees of bst_set.c: up to twelve kids at the root.
SPECIFICATION MCSpec
CONSTANTS
  NULL = NULL
  ADDR_LEN = 2
  Kinds = {"fixset", "list", "dynarr", "bst"}
  Shuffled = {1, 2, 3, 4, 5}
  Few = {1, 2, 3}
  Ptrs <- MCPtrs
INVARIANTS KidsInOrder RedBlackOutside NoLeak
PROPERTIES ImplementsPtrSet AddReturns
\* die(), a crash, an overrun and ps_free() end the program
CHECK_DEADLOCK FALSE
