\* Two clients that log in and create users at once, statements that may fail.
SPECIFICATION Spec
CONSTANTS
  Clients = {c1, c2}
  Words <- MCWords
  NumberOf <- MCNumberOf
  TooLong <- MCTooLong
  Lines <- MCLines
  Span = 16
  NULL = NULL
  DbMayFail = TRUE
  MaxId = 3
SYMMETRY ClientSymmetry
INVARIANTS
  TypeOK
  AccountFromRow
  CreatedByAdmin
  CreatedIsStored
  NamesUnique
  PosterIsUser
CHECK_DEADLOCK FALSE
