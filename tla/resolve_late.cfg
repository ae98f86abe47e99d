CONSTANTS
  Nodes = {n1}
  Conns = {c1}
  Names = {web, db}
  Addrs = {a1}
  BadName = BadName
  Workers = 1
  MaxId = 2
  MaxEvents = 2
SPECIFICATION Spec
SYMMETRY Symmetric
CHECK_DEADLOCK FALSE
INVARIANTS TypeOK AnswerFresh SteadyIsServed
PROPERTY ImplementsResolve
