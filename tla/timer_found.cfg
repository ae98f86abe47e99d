CONSTANTS
  Hosts = {h1, h2}
  Initial = 8
  Extension = 1
  Outer = 18
  Latest = 14
SPECIFICATION Spec
SYMMETRY Symmetric
CHECK_DEADLOCK FALSE
INVARIANT FoundIsAnswered
