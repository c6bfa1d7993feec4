SPECIFICATION MCSpec
CONSTANTS
  t1 = t1  t2 = t2  ana = ana  bo = bo  x = x  y = y
  Tabs = {t1, t2}
  Emails = {ana, bo}
  Nicknames = {x, y}
  MaxTokens = 3
  MaxFaults = 1
  Lifetime = 4
  Margin = 3
  Soonest = 1
  OneWay = 1
  MaxClock = 7
  MaxCuts = 1
SYMMETRY Symmetry
PROPERTY
  RevokedForGood
CHECK_DEADLOCK FALSE
