SPECIFICATION Spec
CONSTANTS
  z1 = z1
  z2 = z2
  z3 = z3
  r1 = r1
  r2 = r2
  r3 = r3
  Zones = {z1, z2, z3}
  Routers = {r1, r2, r3}
  Intfs = {1, 2, 3, 4, 5, 6}
  None = None
  Topologies <- MCTopologies
INVARIANTS Zone1Found LoopsAreCycles LoopTree ClustersAreConnected StepsDecrease
