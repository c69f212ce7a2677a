\* Two connections share two descriptors, or take turns on the lowest.
SPECIFICATION Spec
CONSTANTS
  Conns = {c1, c2}
  MaxFds = 2
  ArraySize = 2
  Configured = {2, 3}
  NULL = NULL
  MaxLines = 2
INVARIANTS
  DescriptorHasThread
  IsolatedUntilBye
  OneSlotEach
  SlotsCleared
SYMMETRY ConnSymmetry
CHECK_DEADLOCK FALSE
