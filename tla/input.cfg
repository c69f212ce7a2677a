\* All streams of up to eight bytes, in chunks of one or two.
SPECIFICATION Spec
CONSTANTS
  a = a
  Letters = {a}
  Space = space
  Tab = tab
  Quote = quote
  Eol = eol
  NUL = NUL
  Cap = 7
  MaxArgs = 2
  Fills <- MCFills
  MaxBytes = 8
  MaxChunk = 2
INVARIANTS
  TypeOK
  LinesAsSent
  WordsAsSent
  StaysInLine
CHECK_DEADLOCK FALSE
