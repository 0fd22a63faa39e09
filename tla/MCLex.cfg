\* s_data holds 3 bytes and NUL, the lexeme outgrows its struct at 2.
SPECIFICATION Spec
CONSTANTS
  ch_s = ch_s
  ch_t = ch_t
  ch_r = ch_r
  U = U
  SP = SP
  BAD = BAD
  QUOTE = QUOTE
  ASSIGN = ASSIGN
  NL = NL
  NUL = NUL
  XFF = XFF
  EOF = EOF
  Nothing = Nothing
  Junk = Junk
  Lower <- LowerBytes
  Upper <- UpperBytes
  Space <- SpaceBytes
  Other <- OtherBytes
  KWORD <- Keyword
  Sources <- Inputs
  SIZE = 3
  SHORT = 2
  DBUG = TRUE
  MaxLen = 20
  MaxFile = 4
INVARIANTS TypeOK TokensAreSource MaximalMunch Accounting
PROPERTY Terminates
\* the program ends
CHECK_DEADLOCK FALSE
