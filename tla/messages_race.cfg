\* Two clients posting at once: is currentMessage the message on display?
SPECIFICATION Spec
CONSTANTS
  Clients = {c1, c2}
  Texts <- MCTexts
  RowsOf <- MCRowsOf
  Height = 2
  UserIds = {1}
  NULL = NULL
  LineCommands = {"SET_TEXT", "CLEAR_LINE", "MSG_SCROLL"}
  DbMayFail = FALSE
  MaxId = 2
  MaxSignals = 0
INVARIANT ScreenShowsCurrent
