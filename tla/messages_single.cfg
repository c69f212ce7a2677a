\* One client, statements that succeed: the message board as its user sees it.
SPECIFICATION FairSpec
CONSTANTS
  Clients = {c1}
  Texts <- MCTexts
  RowsOf <- MCRowsOf
  Height = 3
  UserIds = {1, 2}
  NULL = NULL
  LineCommands = {"SET_TEXT", "CLEAR_LINE", "MSG_SCROLL"}
  DbMayFail = FALSE
  MaxId = 3
  MaxSignals = 1
INVARIANTS
  CurrentMatchesRow
  ScreenShowsCurrent
  NoSegfault
  RepliesTruthful
PROPERTIES
  ImplementsBoard
  DisplayCatchesUp
