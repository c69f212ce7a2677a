\* Two clients: the arguments that strtok gives out.
SPECIFICATION Spec
CONSTANTS
  Clients = {c1, c2}
  Words <- MCWords
  NumberOf <- MCNumberOf
  TooLong <- MCTooLong
  Lines <- MCLines
  Span = 16
  NULL = NULL
  DbMayFail = TRUE
  MaxId = 3
INVARIANT ArgsAreOwn
CHECK_DEADLOCK FALSE
