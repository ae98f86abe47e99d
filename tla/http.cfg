CONSTANTS
  Addrs = {a1}
  N = 3
  ConnectLimit = 1
  RequestLimit = 3
  Outer = 9
  MaxEvents = 2
SPECIFICATION Spec
INVARIANTS TypeOK AnswerFresh SteadyIsFound DiscardedOnlyLate
PROPERTY ImplementsResolve
