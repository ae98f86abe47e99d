CONSTANTS
  Nodes = {n1}
  Conns = {c1}
  Names = {web, db}
  Addrs = {}
  BadName = BadName
  Workers = 2
  MaxId = 2
  MaxEvents = 1
SPECIFICATION FairSpec
CHECK_DEADLOCK FALSE
PROPERTIES LookupEnds FailureOnlyDelays
