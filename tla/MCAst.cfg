\* 23 expressions; one operator on two values is what main() builds
SPECIFICATION Spec
CONSTANTS
  N = 5
  REG_COUNT = 3
  Trees <- Expressions
INVARIANTS DumpNests RegistersRunOut SourceIsLeft
\* main() returns or dies
CHECK_DEADLOCK FALSE
