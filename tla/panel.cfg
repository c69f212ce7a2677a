\* Two clients, a start and restarts of a panel of three rows of two characters:
\* two events (commands, signals, failing writes) in every interleaving.
SPECIFICATION Spec
CONSTANTS
  Clients = {c1, c2}
  Main = main
  Handler = handler
  Texts = {short, long}
  Garbage = {g}
  Space = sp
  Welcome <- MCWelcome
  Notices <- MCNotices
  LengthOf <- MCLengthOf
  Height = 3
  Width = 2
  MaxLen = 3
  Settings <- MCSettings
  Follows <- MCFollows
  Lines = {0, 4, 19, NULL}
  AskedAligns = {"RIGHT", "CENTER", "UP"}
  LineSpan = 16
  NULL = NULL
  MaxEvents = 2
  short = short
  long = long
  g = g
  sp = sp
  w1 = w1
  w2 = w2
  n1 = n1
  n2 = n2
INVARIANTS
  TypeOK
  UndisturbedWrites
  RowsMatchLines
  NoGarbageShown
SYMMETRY MCSymmetry
CHECK_DEADLOCK FALSE
