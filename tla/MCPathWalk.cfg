SPECIFICATION SpecWalk
CONSTANTS
  z1 = z1
  z2 = z2
  z3 = z3
  z4 = z4
  r1 = r1
  r2 = r2
  r3 = r3
  r4 = r4
  Zones = {z1, z2, z3, z4}
  Routers = {r1, r2, r3, r4}
  Intfs = {1, 2, 3, 4, 5, 6, 7, 8}
  None = None
  Unset = Unset
  Topologies <- MCTopologies
  Restrictions <- MCRestrictions
  MaxSources = 2
INVARIANT WalkIsPaths
