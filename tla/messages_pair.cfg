\* Two clients at once, statements that may fail.
SPECIFICATION Spec
CONSTANTS
  Clients = {c1, c2}
  Texts = {x1, x2}
  RowsOf <- MCOneRow
  Height = 1
  UserIds = {1}
  NULL = NULL
  LineCommands = {"CLEAR_LINE"}
  DbMayFail = TRUE
  MaxId = 2
  MaxSignals = 1
SYMMETRY Interchangeable
INVARIANTS
  TypeOK
  AckedIsDurable
  CurrentIsKept
