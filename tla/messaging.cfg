SPECIFICATION MessagingLiveSpec
CONSTANTS
  r1 = r1  r2 = r2
  Events = {1, 2}
  Invalid = {2}
  Runs = {r1, r2}
  BatchSize = 1
  PendingMax = 1
  Retries = 2
  MaxFaults = 2
INVARIANTS
  OneRunAtATime
  HandledOnce
  ClaimsAreEarned
PROPERTY EveryEventSettles
CHECK_DEADLOCK FALSE
