\* The four structs; a data array holds 3 bytes and the NUL behind them.
SPECIFICATION MCSpec
CONSTANTS
  a = a
  b = b
  NUL = NUL
  XFF = XFF
  NL = NL
  EOF = EOF
  Nothing = Nothing
  Byte <- AllBytes
  Sources <- Contents
  SIZE = 3
  MaxFile = 5
INVARIANTS TypeOK BufferedIsAhead
PROPERTY ImplementsByteStream
\* die(), and free() without a place for the string, end the protocol
CHECK_DEADLOCK FALSE
