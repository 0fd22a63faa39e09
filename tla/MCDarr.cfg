\* Two threads, six numbers, three of them even.
SPECIFICATION Spec
CONSTANTS
  THREADS = 2
  EACH = 3
  Caps = {4, 8}
INVARIANTS TypeOK NothingOverwritten PointersLead AllReturned
PROPERTY Terminates
\* the program ends
CHECK_DEADLOCK FALSE
