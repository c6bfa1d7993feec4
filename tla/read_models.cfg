SPECIFICATION MCSpec
CONSTANTS
  s1 = s1  s2 = s2
  g1 = g1
  w1 = w1  w2 = w2
  Sessions = {s1, s2}
  Gateways = {g1}
  Home <- MCHome
  MaxFaults = 1
  MaxStarts = 3
  Rooms = {1, 2, 3, 4}
  Stamps = {1, 2, 3}
  Limit = 1
  MaxPages = 4
  Words = {"lofi", "jazz"}
  Padded <- MCPadded
  MaxTyped = 4
  Watchers = {w1, w2}
  PerSecond = 2
  MaxTicks = 3
  MaxEvents = 4
  MaxTroubles = 1
  Fans = {1, 2, 3, 4}
  Habit <- MCHabit
  BoardLimit = 3
  FirstYear = 2026
  FirstWeekday = 4
  LastYear = 2028
SYMMETRY Symmetry
INVARIANTS
  CardsTellTheRoom
  GridIsWhole
  WatchTimeIsPaid
  BoardsKeepTheCalendar
CHECK_DEADLOCK FALSE
