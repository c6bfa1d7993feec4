SPECIFICATION VoteRaceLiveSpec
CONSTANTS
  NoItem = NoItem  NoVote = NoVote  NoUser = NoUser
  i1 = i1  i2 = i2  i3 = i3
  p1 = p1  p2 = p2
  v1 = v1  v2 = v2  v3 = v3
  u1 = u1  u2 = u2
  VideoOf <- MCVideoOf
  Items = {i1}
  Procs = {p1}
  Votes = {v1, v2}
  Users = {u1, u2}
  MaxPresent = 2
  MaxSkips = 4
  MaxFaults = 1
  MaxVoteFaults = 0
PROPERTIES
  VotesEnd
  PassedVoteSkips
  ImplementsPlayback
CHECK_DEADLOCK FALSE
