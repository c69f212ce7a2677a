\* Three starts with any of the command lines, ended at any moment.
SPECIFICATION FairSpec
CONSTANTS
  Names <- MCNames
  Paths <- MCPaths
  DefaultPath = cfg
  ContentsOf <- MCContentsOf
  CommandLines <- MCCommandLines
  PortSpan = 4
  NULL = NULL
  MaxAddresses = 2
  MaxStarts = 3
  f1 = f1
  word = word
  cfg = cfg
  other = other
  twice = twice
  lists = lists
  wrong = wrong
  bare = bare
  small = small
  missing = missing
INVARIANTS
  TypeOK
  SchemaIsWhole
  DefaultUserOnce
  CompleteUnlessSpoilt
  ServesAsConfigured
  NoSocketLeft
PROPERTIES
  ImplementsDatabases
  Settles
CHECK_DEADLOCK FALSE
