CONSTANTS
  Nodes = {n1, n2}
  Conns = {c1}
  Names = {web}
  Addrs = {a1}
  BadName = BadName
  Workers = 1
  MaxId = 1
  MaxEvents = 2
SPECIFICATION Spec
SYMMETRY Symmetric
CHECK_DEADLOCK FALSE
INVARIANTS HostAnswersOnce ReplyConserved
