SPECIFICATION MCSpec
CONSTANTS
  c1 = c1  c2 = c2  c3 = c3
  g1 = g1  g2 = g2
  Gateways = {g1, g2}
  Lead <- MCLead
  MaxLead = 1
  Requests = {1, 2, 3}
  Capacity <- MCCapacity
  Refill <- MCRefill
  MaxTime = 4
  MaxOutages = 1
  Creations = {c1, c2, c3}
  CacheFor = 3
  RoundTrip = 1
  MaxHour = 5
  MaxBreaks = 1
  Callers = {c1, c2, c3}
  Threshold = 2
  OpenFor = 2
  FetchTimeout = 1
  MaxInstant = 8
  Queues = 2
  Works = {1, 2, 3}
  Jobs = {3}
  BatchSize = 2
  MaxLives = 2
  MaxBreakdowns = 1
  me = me  o1 = o1
  v = v  w = w
  Visitors = {me, o1}
  Owner = me
  Links = {v, w}
  MaxEntries = 2
  Makers = {me, o1}
  MaxSubmits = 2
SYMMETRY Symmetry
INVARIANTS
  NoBurstBeyondCapacity
  KillSwitchBites
  ProbeWillSettle
  OrderlyLifecycle
  ButtonsTellTheTruth
CHECK_DEADLOCK FALSE
