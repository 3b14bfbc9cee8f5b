SPECIFICATION Spec
CONSTANTS
  d1 = d1
  d2 = d2
  c1 = c1
  c2 = c2
  r1 = r1
  r2 = r2
  Devices = {d1, d2}
  Configs = {c1, c2}
  Rules = {r1, r2}
  Policies <- MCPolicies
  Nothing = Nothing
  Torn = Torn
  MaxRuns = 3
  MaxFaults = 1
INVARIANTS TypeOK AnnouncedComplete SuccessCurrent OnlyChanged NoStaleCode
PROPERTIES ReplacesAtOnce
CHECK_DEADLOCK FALSE
