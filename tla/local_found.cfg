CONSTANTS
  Addrs = {"a1"}
  Instances <- Mixed
  Wanted <- Web1
  Assigned <- Interfaces
SPECIFICATION Spec
CHECK_DEADLOCK FALSE
INVARIANT FoundIsSome
