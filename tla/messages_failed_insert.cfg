\* One client, an INSERT that may fail: is OK 110 the truth?
SPECIFICATION Spec
CONSTANTS
  Clients = {c1}
  Texts <- MCText
  RowsOf <- MCRowOf
  Height = 2
  UserIds = {1}
  NULL = NULL
  LineCommands = {"SET_TEXT", "CLEAR_LINE", "MSG_SCROLL"}
  DbMayFail = TRUE
  MaxId = 2
  MaxSignals = 0
INVARIANT OkMeansCreated
