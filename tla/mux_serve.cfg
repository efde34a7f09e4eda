SPECIFICATION FairSpec
CONSTANTS
  a = a
  b = b
  c = c
  g1 = g1
  g2 = g2
  g3 = g3
  Conns = {a, b, c}
  Prio <- Prio3
  Gens = {g1, g2, g3}
  None = None
INVARIANTS ServeInv OneLive OneController
CHECK_DEADLOCK FALSE
PROPERTY StartsOnDemand
