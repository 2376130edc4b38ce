SPECIFICATION Spec
CONSTANTS
  Thread = {h1, h2, h3}
  ChunkSize = 2
  TlabSize = 2
  Canary = 1
  CtLen = 1
  NoHolder = none
  MaxNext = 9
INVARIANTS RangeIncreases BuffersInBounds BuffersDisjoint CanariesIntact
PROPERTIES AllocatesAsPromised
CHECK_DEADLOCK FALSE
