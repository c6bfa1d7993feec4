SPECIFICATION MCSpec
CONSTANTS
  i1 = i1  i2 = i2
  me = me  o1 = o1
  t1 = t1  t2 = t2  t3 = t3
  u1 = u1  u2 = u2
  g1 = g1  g2 = g2
  Items = {i1, i2}
  MaxReads = 1
  MaxDrops = 1
  Me = me
  Others = {o1}
  MaxVotes = 2
  Messages = {1, 2, 3}
  Mine = {2}
  Limit = 1
  MaxRepeats = 1
  Second = 2
  Duration = 10
  Videos = 2
  MaxBuffer = 4
  Jitter = 3
  MaxStalls = 3
  Tabs = {t1, t2, t3}
  UserOf <- MCUserOf
  Instances = {g1, g2}
  InstanceOf <- MCInstanceOf
  PageAt = g1
  MaxFailures = 1
SYMMETRY Symmetry
INVARIANTS
  PageIsCurrent
  OverlayTellsVote
  ChatTellsTheTruth
  PlayerFollowsRoom
  AudienceIsTold
CHECK_DEADLOCK FALSE
