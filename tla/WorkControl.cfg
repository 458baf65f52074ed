SPECIFICATION FairWork
CONSTANTS
  Stops = {c1, c2}
  Hooks = {h1}
INVARIANTS
  WorkSafe

PROPERTIES
  EveryWaitEnds

CHECK_DEADLOCK FALSE
