\* The DBUG build, characters other than NUL.
SPECIFICATION Spec
CONSTANTS
  a = a
  b = b
  NUL = NUL
  Junk = Junk
  Char <- Letters
  SHORT = 2
  DBUG = TRUE
  MaxLen = 5
  MaxGiven = 1
INVARIANTS TypeOK DstrOk ContentsOk NoLeak
PROPERTY ImplementsStr
\* die() and dbug() end the process
CHECK_DEADLOCK FALSE
