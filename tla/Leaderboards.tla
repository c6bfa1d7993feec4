------------------------------ MODULE Leaderboards -----------------------------
(***************************************************************************)
(* Watch time by week, by month and of all time: sorted sets whose keys     *)
(* name the period an award is dated in, and the page that reads those of   *)
(* the day it is opened.  A checkpoint may be handled the day after it is   *)
(* dated.  A calendar that turns over day by day stands beside the keys.    *)
(***************************************************************************)
EXTENDS Integers, FiniteSets, FiniteSetsExt, Sequences

CONSTANTS
  Fans,      \* the users, numbers that stand for their ids
  Habit,        \* Habit[u]: u watches on every so manyth day
  BoardLimit,   \* rows on the board
  FirstYear,    \* the calendar starts in January of this year,
  FirstWeekday, \* on this day of its first ISO week, 1 is Monday
  LastYear      \* bound: and ends with this one

ASSUME LeaderboardsAssumption ==
  /\ Fans \subseteq Nat /\ IsFiniteSet(Fans)
  /\ Habit \in [Fans -> Nat \ {0}] /\ BoardLimit \in Nat \ {0}
  /\ FirstYear \in Nat /\ LastYear \in Nat /\ FirstYear <= LastYear
  /\ FirstWeekday \in 1 .. 4

VARIABLES
  today,        \* days since the calendar started
  calendar,     \* [year, month, date, weekday] of today, weekday 1 is Monday
  had,          \* whether today's checkpoint is taken
  dated,        \* days whose checkpoint is not handled yet
  watched,      \* watched[p][u]: seconds u watched since p last turned over
  boards        \* the sorted sets: key -> [user -> score]

boardVars == <<today, calendar, had, dated, watched, boards>>

Periods == {"alltime", "monthly", "weekly"}

-------------------------------------------------------------------------------
(* The calendar, as everybody knows it *)

IsLeap(y) == y % 4 = 0 /\ (y % 100 # 0 \/ y % 400 = 0)

MonthDays(y, m) == CASE m = 2               -> IF IsLeap(y) THEN 29 ELSE 28
                     [] m \in {4, 6, 9, 11} -> 30
                     [] OTHER               -> 31

DayAfter(c) ==
  LET ends == c.date = MonthDays(c.year, c.month)
      last == ends /\ c.month = 12
  IN [year    |-> IF last THEN c.year + 1 ELSE c.year,
      month   |-> IF last THEN 1 ELSE IF ends THEN c.month + 1 ELSE c.month,
      date    |-> IF ends THEN 1 ELSE c.date + 1,
      weekday |-> (c.weekday % 7) + 1]

\* Days of the period of today that are over.
Elapsed(p) == CASE p = "weekly"  -> calendar.weekday - 1
                [] p = "monthly" -> calendar.date - 1
                [] OTHER         -> today

-------------------------------------------------------------------------------
(* The keys of a day, from its number alone: periods.ts over Date *)

YearStart == [y \in FirstYear .. LastYear + 1 |->
                365 * (y - FirstYear) + Cardinality({k \in FirstYear .. y - 1 : IsLeap(k)})]
LastDay   == YearStart[LastYear + 1] - 1
Days      == 0 .. LastDay
UTCYear   == [d \in Days |-> CHOOSE y \in FirstYear .. LastYear :
                               YearStart[y] <= d /\ d < YearStart[y + 1]]

\* ECMAScript's MonthFromTime: the days before a month, of a year that is not a leap year.
DaysBefore == <<0, 31, 59, 90, 120, 151, 181, 212, 243, 273, 304, 334>>

MonthStart(y, m) == YearStart[y] + DaysBefore[m] + (IF m > 2 /\ IsLeap(y) THEN 1 ELSE 0)

MonthKey == [d \in Days |->
               <<UTCYear[d], "M", Max({m \in 1 .. 12 : MonthStart(UTCYear[d], m) <= d})>>]

\* getUTCDay() || 7
ISODay(d) == ((d + FirstWeekday - 1) % 7) + 1

\* The nearest Thursday.
Thursday(d) == d + 4 - ISODay(d)

\* Math.ceil(days / 7)
Weeks(days) == (days + 6) \div 7

\* The year of the day and not of its Thursday.
CalendarWeekKey ==
  [d \in Days |-> <<UTCYear[d], "W", Weeks(d - YearStart[UTCYear[d]] + 1)>>]

WeekKey ==
  [d \in Days |-> LET t == Min({Thursday(d), LastDay}) IN
                    <<UTCYear[t], "W", Weeks(t - YearStart[UTCYear[t]] + 1)>>]

CurrentKeyFor(p, d) ==
  CASE p = "alltime" -> <<"alltime">> [] p = "monthly" -> MonthKey[d] [] OTHER -> WeekKey[d]

PeriodKeys(d) == {CurrentKeyFor(p, d) : p \in Periods}

-------------------------------------------------------------------------------
(* Awards *)

Worth(u, d) == IF d % Habit[u] = 0 THEN 1 ELSE 0

\* ZINCRBY creates the set, and the member.
Zincrby(board, gain) ==
  [u \in DOMAIN board \cup DOMAIN gain |->
     (IF u \in DOMAIN board THEN board[u] ELSE 0) + (IF u \in DOMAIN gain THEN gain[u] ELSE 0)]

BoardOf(key) == IF key \in DOMAIN boards THEN boards[key] ELSE <<>>

\* No award without seconds; the keys are those of the checkpoint's own day.
Increment(d) ==
  LET paid == {u \in Fans : Worth(u, d) > 0}
      gain == [u \in paid |-> Worth(u, d)]
  IN boards' = [k \in DOMAIN boards \cup PeriodKeys(d) |->
                  IF k \in PeriodKeys(d) THEN Zincrby(BoardOf(k), gain) ELSE boards[k]]

LeaderboardsInit ==
  /\ today = 0
  /\ calendar = [year |-> FirstYear, month |-> 1, date |-> 1, weekday |-> FirstWeekday]
  /\ had = FALSE /\ dated = {}
  /\ watched = [p \in Periods |-> [u \in Fans |-> 0]]
  /\ boards = <<>>

\* Bound: one checkpoint a day.
TakeCheckpoint ==
  /\ ~had
  /\ had' = TRUE
  /\ dated' = dated \cup {today}
  /\ watched' = [p \in Periods |-> [u \in Fans |-> watched[p][u] + Worth(u, today)]]
  /\ UNCHANGED <<today, calendar, boards>>

HandleCheckpoint(d) ==
  /\ dated' = dated \ {d}
  /\ Increment(d)
  /\ UNCHANGED <<today, calendar, had, watched>>

\* Bound: a checkpoint waits until the next day at most.
Midnight ==
  LET next == DayAfter(calendar)
      over == {p \in Periods : \/ p = "weekly" /\ next.weekday = 1
                               \/ p = "monthly" /\ next.date = 1}
  IN
  /\ had /\ dated \subseteq {today} /\ today + 1 \in Days
  /\ today' = today + 1 /\ calendar' = next /\ had' = FALSE
  /\ watched' = [p \in Periods |-> IF p \in over THEN [u \in Fans |-> 0] ELSE watched[p]]
  /\ UNCHANGED <<dated, boards>>

LeaderboardsNext ==
  \/ TakeCheckpoint \/ Midnight
  \/ \E d \in dated : HandleCheckpoint(d)

LeaderboardsSpec == LeaderboardsInit /\ [][LeaderboardsNext]_boardVars

-------------------------------------------------------------------------------
(* What a page that is opened now reads, and where it shows it *)

\* Highest score first, equal scores by id backwards.
Ahead(board, u, v) == board[u] > board[v] \/ (board[u] = board[v] /\ u > v)

Place(board, u) == Cardinality({v \in DOMAIN board : Ahead(board, v, u)}) + 1

Zrevrange(board) ==
  [k \in 1 .. Cardinality(DOMAIN board) |-> CHOOSE u \in DOMAIN board : Place(board, u) = k]

Top(p) ==
  LET board == BoardOf(CurrentKeyFor(p, today))  ids == Zrevrange(board) IN
  [k \in 1 .. Min({Len(ids), BoardLimit}) |->
     [rank |-> k, userId |-> ids[k], seconds |-> board[ids[k]]]]

RankAndScore(p, u) ==
  LET board == BoardOf(CurrentKeyFor(p, today)) IN
  IF u \in DOMAIN board
  THEN [rank |-> Place(board, u), seconds |-> board[u]]
  ELSE [rank |-> 0, seconds |-> 0]

Stats(u) == [p \in Periods |-> RankAndScore(p, u)]

\* Second, first, third, as many as there are.
Podium(rows) ==
  CASE Len(rows) = 0 -> <<>>
    [] Len(rows) = 1 -> <<rows[1]>>
    [] Len(rows) = 2 -> <<rows[2], rows[1]>>
    [] OTHER         -> <<rows[2], rows[1], rows[3]>>

Rest(rows) == SubSeq(rows, 4, Len(rows))

\* The rows on the page, and the one that is pinned for who is signed in.
Shown(p)  == Podium(Top(p)) \o Rest(Top(p))
Own(p, u) == Stats(u)[p]
===============================================================================
