\* Gets meet gets; puts meet nothing, or only gets that are asleep.
SPECIFICATION SlabSpec
CONSTANTS
  t1 = t1
  t2 = t2
  t3 = t3
  Thread <- Threads
  None = None
  SIZE = 2
  Disciplines = {"phased", "serial"}
INVARIANTS SlabTypeOK NoDoubleHandout Conserved
PROPERTY WantedIsServed
\* every thread may be asleep for good
CHECK_DEADLOCK FALSE
