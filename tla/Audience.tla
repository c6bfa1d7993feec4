------------------------------- MODULE Audience -------------------------------
(* Who is in a room, as a page in it and the lobby are told while sessions come *)
(* and go on several gateways (Presence has the sessions themselves): the page  *)
(* gets the whole list once and the changes after it; the lobby gets a count,   *)
(* at most one per gateway in each window.                                      *)
EXTENDS Integers, FiniteSets

CONSTANTS
  Tabs,         \* sessions of the room, but for the page's own
  UserOf,       \* whose session it is
  Instances,    \* gateways; each has its throttle and its connection to Redis
  InstanceOf,   \* the one of each session
  PageAt,       \* the one of the page
  MaxFailures   \* bound: counts that fail

ASSUME AudienceAssumption ==
  /\ DOMAIN UserOf = Tabs /\ InstanceOf \in [Tabs -> Instances]
  /\ PageAt \in Instances /\ MaxFailures \in Nat

VARIABLES
  tab,          \* "out", "added", "here", "gone"
  entering,     \* the page's own room:join: "joined", "listed", "done"
  listed,       \* what that has read
  present,      \* the users that the page shows
  lobbyCooldown,\* the window of each gateway: "none", "clean", "dirty"
  counting,     \* its presence.list for the lobby: [at, users, old]
  viewers,      \* the count that the lobby shows
  failures,
  crossed       \* auxiliary: who was told something that another news had overtaken

roomSide     == <<tab, entering, listed, present>>
audienceVars == <<roomSide, lobbyCooldown, counting, viewers, failures, crossed>>

InRoom    == {t \in Tabs : tab[t] \in {"added", "here"}}
Users(S)  == {UserOf[t] : t \in S}
NotCounting == [at |-> "none", users |-> 0, old |-> FALSE]

AudienceInit ==
  /\ tab = [t \in Tabs |-> "out"]
  /\ entering = "joined" /\ listed = {} /\ present = {}
  /\ lobbyCooldown = [g \in Instances |-> "none"]
  /\ counting = [g \in Instances |-> NotCounting]
  /\ viewers = 0 /\ failures = 0 /\ crossed = {}

-------------------------------------------------------------------------------
(* The lobby *)

StartCount(g) ==
  /\ lobbyCooldown' = [lobbyCooldown EXCEPT ![g] = "clean"]
  /\ counting' = [counting EXCEPT ![g].at = "due"]

\* Mutant of ScheduleLobbySummary: what changes within a window is not told.
LeadingOnly(g) ==
  IF lobbyCooldown[g] # "none" THEN UNCHANGED <<lobbyCooldown, counting>> ELSE StartCount(g)

\* Leading emit, trailing coalesce.
ScheduleLobbySummary(g) ==
  IF lobbyCooldown[g] = "none" THEN StartCount(g)
  ELSE lobbyCooldown' = [lobbyCooldown EXCEPT ![g] = "dirty"] /\ UNCHANGED counting

\* The window is over, and a dirty one opens the next; a count takes less time.
WindowEnds(g) ==
  /\ lobbyCooldown[g] # "none" /\ counting[g] = NotCounting
  /\ IF lobbyCooldown[g] = "dirty" THEN StartCount(g)
     ELSE lobbyCooldown' = [lobbyCooldown EXCEPT ![g] = "none"] /\ UNCHANGED counting
  /\ UNCHANGED <<roomSide, viewers, failures, crossed>>

Overtake(g, reading) ==
  counting' = [h \in Instances |->
    IF h = g THEN reading
    ELSE [counting[h] EXCEPT !.old = @ \/ counting[h].at = "read"]]

\* Distinct users of the sorted set.
CountPresent(g) ==
  /\ counting[g].at = "due"
  /\ Overtake(g, [at |-> "read", users |-> Cardinality(Users(InRoom)), old |-> FALSE])
  /\ UNCHANGED <<roomSide, lobbyCooldown, viewers, failures, crossed>>

\* Redis away: the lobby just goes quiet.
CountFails(g) ==
  /\ failures < MaxFailures /\ failures' = failures + 1
  /\ counting[g].at = "due"
  /\ Overtake(g, NotCounting)
  /\ crossed' = crossed \cup {"lobby"}
  /\ UNCHANGED <<roomSide, lobbyCooldown, viewers>>

\* Every card of this room, in every page of the directory, takes the count.
ShowSummary(n) == viewers' = n

EmitLobbySummary(g) ==
  /\ counting[g].at = "read"
  /\ ShowSummary(counting[g].users)
  /\ counting' = [counting EXCEPT ![g] = NotCounting]
  /\ crossed' = IF counting[g].old THEN crossed \cup {"lobby"} ELSE crossed \ {"lobby"}
  /\ UNCHANGED <<roomSide, lobbyCooldown, failures>>

-------------------------------------------------------------------------------
(* The page *)

OnJoined(u) == present' = present \cup {u}
OnLeft(u)   == present' = present \ {u}

\* ZADD; then the answer, upon which the others are told.
Enter(t) ==
  /\ tab[t] = "out" /\ tab' = [tab EXCEPT ![t] = "added"]
  /\ UNCHANGED <<entering, listed, present, lobbyCooldown, counting, viewers, failures, crossed>>

\* One connection answers in the order of its commands: who is added to Redis
\* after the page's list was read there is announced after it, on its gateway.
AnnounceJoined(t) ==
  LET u == UserOf[t] IN
  /\ tab[t] = "added" /\ tab' = [tab EXCEPT ![t] = "here"]
  /\ entering = "listed" /\ InstanceOf[t] = PageAt => u \in listed
  /\ OnJoined(u)
  /\ crossed' = IF entering = "listed" /\ u \notin listed THEN crossed \cup {"page"} ELSE crossed
  /\ ScheduleLobbySummary(InstanceOf[t])
  /\ UNCHANGED <<entering, listed, viewers, failures>>

\* The goodbye names the user, who may have another tab in the room.
Leave(t) ==
  LET u == UserOf[t] IN
  /\ tab[t] = "here" /\ tab' = [tab EXCEPT ![t] = "gone"]
  /\ OnLeft(u)
  /\ crossed' = IF (entering = "listed" /\ u \in listed) \/ u \in Users(InRoom \ {t})
                THEN crossed \cup {"page"} ELSE crossed
  /\ ScheduleLobbySummary(InstanceOf[t])
  /\ UNCHANGED <<entering, listed, viewers, failures>>

ReadList ==
  /\ entering = "joined" /\ entering' = "listed"
  /\ listed' = Users(InRoom)
  /\ UNCHANGED <<tab, present, lobbyCooldown, counting, viewers, failures, crossed>>

\* presence:state replaces what the page shows.
DeliverState ==
  /\ entering = "listed" /\ entering' = "done"
  /\ present' = listed /\ listed' = {}
  /\ UNCHANGED <<tab, lobbyCooldown, counting, viewers, failures, crossed>>

AudienceNext ==
  \/ \E t \in Tabs : Enter(t) \/ AnnounceJoined(t) \/ Leave(t)
  \/ ReadList \/ DeliverState
  \/ \E g \in Instances :
       WindowEnds(g) \/ CountPresent(g) \/ CountFails(g) \/ EmitLobbySummary(g)

AudienceSpec == AudienceInit /\ [][AudienceNext]_audienceVars
===============================================================================
