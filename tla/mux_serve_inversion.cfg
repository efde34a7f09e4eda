SPECIFICATION FairSpec
CONSTANTS
  a = a
  b = b
  c = c
  g1 = g1
  g2 = g2
  g3 = g3
  Conns = {a, b}
  Prio <- Prio2
  Gens = {g1, g2, g3}
  None = None
PROPERTY NoPriorityInversion
CHECK_DEADLOCK FALSE
