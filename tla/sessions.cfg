CONSTANTS
  Clients = {k1, k2, k3}
  Slots = {s1, s2}
  Limit = 2
  Patience = 3
  Backlog = 3
  MaxEvents = 2
  Nobody = Nobody
  Free = Free
SPECIFICATION Spec
INVARIANT TypeOK
PROPERTIES PromptWhenRoomy Recovers
