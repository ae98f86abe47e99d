CONSTANTS
  Addrs = {a1}
  N = 4
  ConnectLimit = 1
  RequestLimit = 3
  Outer = 9
  MaxEvents = 0
SPECIFICATION Spec
INVARIANT FoundIsAnswered
