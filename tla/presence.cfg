SPECIFICATION PresenceLiveSpec
CONSTANTS
  s1 = s1  s2 = s2
  g1 = g1  g2 = g2
  Sessions = {s1, s2}
  Gateways = {g1, g2}
  Home <- MCHome
  MaxFaults = 1
INVARIANTS
  GhostsAreReported
  LeavesOnce
PROPERTIES
  BeatingIsPresent
  GhostsLeave
CHECK_DEADLOCK FALSE
