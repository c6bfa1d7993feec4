-------------------------- MODULE ReadModelProperties -------------------------
(* What the read models promise: a room's card, the directory on the home page *)
(* and the search in it, the watch-time ledger, and the leaderboard.           *)
EXTENDS RoomCards, RoomsGrid, RoomSearch, WatchTime, Leaderboards

CardSettled ==
  /\ \A s \in Sessions : joining[s] \in {"none", "done"}
  /\ removing = {}
  /\ \A g \in Gateways : sweep[g] = Idle
  /\ countedIn = joined /\ countedOut = left

\* The card never counts below zero; and once every event is applied it tells how
\* many sessions are in the room, or more if a goodbye was applied before its
\* hello hit the floor, but never fewer: unless a call failed, a gateway died, a
\* listing swept a ghost, or a departure was reported twice
\* (prisma-room-card.repository.ts:46-47).
CardCountsPresent ==
  /\ viewers >= 0
  /\ CardSettled /\ happened = {} /\ (\A s \in Sessions : left[s] <= 1) =>
       /\ viewers >= Cardinality(Members)
       /\ ~clamped => viewers = Cardinality(Members)

\* The card shows the newest video that started, once the events are applied and
\* unless an older one came last; it says LIVE from the first event on.
CardShowsNewest ==
  /\ unshown = {} /\ ~overtaken => cardVideo = started
  /\ (1 .. started) \ unshown # {} => SaysLive

\* A room's card tells the viewers and the video of the room.
CardsTellTheRoom == CardCountsPresent /\ CardShowsNewest

\* "Stable under inserts": however rooms are created while the pages are read,
\* and with equal timestamps too, no room is shown twice, the order is that of
\* creation, and down to where the grid ends no room is missing that existed
\* when its first page was read; so who is told to be the first to open a room
\* is (cursor.ts:1-4, rooms-grid.tsx:10).
PagesAreWhole ==
  /\ \A i, j \in DOMAIN Cards : i < j => Before(Key(Cards[i]), Key(Cards[j]))
  /\ \A r \in known : (pages.next = End \/ ~After(r, pages.next)) => r \in Range(Cards)
  /\ Screen = "be the one who opens the first channel" => known = {}

\* When typing and navigating have come to rest, the directory is searched for what
\* was asked for last, and the field says so: unless the navigation for what was
\* typed gave way to one that leads where the page already was
\* (search-input.tsx:18-34).
SearchAgrees ==
  debounce = NoText /\ going = NoText => q = wanted /\ (Trim(field) = q \/ stuck)

\* The directory shows what was searched for, all of it, and once.
GridIsWhole == PagesAreWhole /\ SearchAgrees

Without(kinds) == mishap \cap kinds = {}

Present(s) ==
  CASE client[s].at = "away" -> 0
    [] client[s].at = "here" -> tick - client[s].joined
    [] OTHER                 -> client[s].gone - client[s].joined

\* Nobody is paid for longer than their socket was in the room, in whatever
\* order joins, checkpoints, sweeps and goodbyes are handled: unless a handler is
\* repeated after it has written, or writes what it read before another did
\* (watch-time.tracker.ts:33, prisma-session.store.ts:22-46).
NeverOverpaid ==
  Without({"retry", "stale", "backwards"}) => \A s \in Watchers : total[s] <= Present(s)

AllHandled == DOMAIN run = {}

\* "The left event credits the residue since the last checkpoint": once every
\* event is handled, who left a room that played all the while, and whose queue
\* lost no item, has been paid for the whole stay but the fraction of a second that
\* each of its checkpoints and its goodbye drop, also when joins and checkpoints
\* came out of order (watch-time.tracker.ts:31-33, setup.ts:325-333).
PaidInFull ==
  AllHandled /\ mishap = {} /\ onAir =>
    \A s \in Watchers : client[s].at = "gone" => total[s] + dropped[s] = Present(s)

\* "Postgres user_totals is the rebuild source": the leaderboard never shows
\* seconds that a rebuild from the totals would take away, whatever is repeated,
\* and lags behind only while an award is under way or after one was cut short
\* (redis-leaderboard.store.ts:5).  What is owed is counted tick by tick.
Owed(s) ==
  Cardinality({x \in (DOMAIN run) \X (1 .. MaxTicks) :
                 run[x[1]].step = "score" /\ run[x[1]].entry = s /\ x[2] <= run[x[1]].worth})

LeaderboardHasASource ==
  \A s \in Watchers :
    /\ score[s] + Owed(s) <= total[s]
    /\ Without({"retry"}) => score[s] + Owed(s) = total[s]

\* What is paid was watched, what was watched is paid, and the board has a source.
WatchTimeIsPaid == NeverOverpaid /\ PaidInFull /\ LeaderboardHasASource

\* Seconds of the current period that were watched, one a day, and are not handled yet.
Coming(p, u) == Cardinality({d \in dated : today - d <= Elapsed(p) /\ Worth(u, d) > 0})

\* From the first award on: "the year can differ from the calendar year at
\* boundaries", and through leap days, years of 53 weeks and a checkpoint that is
\* handled after midnight, the boards of a week and of a month hold what was watched
\* since Monday and since the first, and nothing of another week or year; everybody
\* stands on the page once, at the rank of their own pinned row; and who misses
\* there either watched nothing or stands behind everyone shown (periods.ts:17,
\* leaderboard-view.tsx:87, :110).
BoardsKeepTheCalendar ==
  boards # <<>> => \A p \in Periods : LET shown == Shown(p)  own == [u \in Fans |-> Own(p, u)] IN
    /\ \A u \in Fans :
         /\ own[u].seconds = watched[p][u] - Coming(p, u)
         /\ own[u].rank = 0 <=> own[u].seconds = 0
         /\ (\A k \in DOMAIN shown : shown[k].userId # u) =>
              \A k \in DOMAIN shown : shown[k].seconds >= own[u].seconds
    /\ \A k \in DOMAIN shown :
         /\ shown[k].rank = own[shown[k].userId].rank
         /\ shown[k].seconds = own[shown[k].userId].seconds
    /\ Cardinality({shown[k].userId : k \in DOMAIN shown}) = Len(shown)
===============================================================================
