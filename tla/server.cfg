CONSTANTS
  Procs = {p1, p2, p3}
  Clients = {k1, k2}
  Workers = 1
  Broker = TRUE
  Nothing = Nothing
  Leftover = Leftover
  PlainFile = PlainFile
SPECIFICATION FairSpec
CHECK_DEADLOCK FALSE
INVARIANTS TypeOK LoneStartWorks StartsConverge 
PROPERTY ServedInTurn
