\* Callers call when they like.
SPECIFICATION SlabSpec
CONSTANTS
  t1 = t1
  t2 = t2
  t3 = t3
  Thread <- Threads
  None = None
  SIZE = 2
  Disciplines = {"any"}
INVARIANT FullOnExit
\* every thread may be asleep for good
CHECK_DEADLOCK FALSE
