-------------------------------- MODULE Presence --------------------------------
(***************************************************************************)
(* Who is in ONE room, as the realtime gateway knows it: sockets join,     *)
(* beat by pinging, disconnect or fall silent; a sorted set in Redis holds *)
(* one member per session, scored with its expiry; every gateway sweeps    *)
(* expired members and reports them as gone.                               *)
(*                                                                         *)
(* A gateway's commands to Redis travel on one connection, so those about  *)
(* one session take effect in the order they were sent.                    *)
(***************************************************************************)
EXTENDS Naturals, FiniteSets

CONSTANTS
  Sessions,     \* session ids; one per accepted room:join
  Gateways,     \* instances of the realtime gateway
  Home,         \* the one that serves each session
  MaxFaults     \* bound: silences, failed calls and deaths in a behaviour

ASSUME PresenceAssumption ==
  /\ MaxFaults \in Nat
  /\ IsFiniteSet(Sessions) /\ IsFiniteSet(Gateways)
  /\ Home \in [Sessions -> Gateways]

VARIABLES
  socket,       \* whether a session has a socket that beats and will say goodbye
  joining,      \* the call its room:join is waiting for
  removing,     \* sessions with a ZREM on its way
  member,       \* presence:{roomId}, with scores as fresh or expired
  swept,        \* whether the room is in presence:rooms
  summary,      \* whether a room:summary of the lobby is due
  sweep,        \* the sweep each gateway is at
  joined, left, \* presence.user.joined and .left events published per session
  happened, faults

socketVars   == <<socket, joining, removing>>
redisVars    == <<member, swept>>
eventVars    == <<joined, left, summary>>
faultVars    == <<happened, faults>>
presenceVars == <<socketVars, redisVars, sweep, eventVars, faultVars>>

-------------------------------------------------------------------------------
(* Types *)

Anomalies == {"silent",   \* a socket lasts although its heartbeats stopped
              "redis",    \* a call to Redis throws
              "cutoff",   \* a gateway dies between two calls about a session
              "cleaned",  \* a listing drops expired members
              "unlisted"} \* the room has a member while it is not in presence:rooms

JoinSteps  == {"none", "add", "announce", "list", "done"}
SweepSteps == {"idle", "remove", "count", "unlist", "publish"}
Idle       == [step |-> "idle", found |-> {}]

PresenceTypeOK ==
  /\ socket \in [Sessions -> {"none", "open", "closed", "lost"}]
  /\ joining \in [Sessions -> JoinSteps]
  /\ removing \in SUBSET Sessions
  /\ member \in [Sessions -> {"absent", "fresh", "expired"}]
  /\ swept \in BOOLEAN /\ summary \in BOOLEAN
  /\ sweep \in [Gateways -> [step : SweepSteps, found : SUBSET Sessions]]
  /\ joined \in [Sessions -> 0 .. 1] /\ left \in [Sessions -> Nat]
  /\ happened \in SUBSET Anomalies /\ faults \in 0 .. MaxFaults

PresenceInit ==
  /\ socket = [s \in Sessions |-> "none"]
  /\ joining = [s \in Sessions |-> "none"]
  /\ removing = {}
  /\ member = [s \in Sessions |-> "absent"]
  /\ swept = FALSE /\ summary = FALSE
  /\ sweep = [g \in Gateways |-> Idle]
  /\ joined = [s \in Sessions |-> 0] /\ left = [s \in Sessions |-> 0]
  /\ happened = {} /\ faults = 0

Expired == {s \in Sessions : member[s] = "expired"}
Members == {s \in Sessions : member[s] # "absent"}

Drop(S) == member' = [s \in Sessions |-> IF s \in S THEN "absent" ELSE member[s]]

JoinMoves(s, here, there) ==
  /\ joining[s] = here
  /\ joining' = [joining EXCEPT ![s] = there]

SweepMoves(g, here, there) ==
  /\ sweep[g].step = here
  /\ sweep' = [sweep EXCEPT ![g].step = there]

Fault(kinds) ==
  /\ faults < MaxFaults
  /\ faults' = faults + 1
  /\ happened' = happened \cup kinds

\* publishLeft, which also asks for a summary.
PublishLeft(S) ==
  /\ left' = [s \in Sessions |-> IF s \in S THEN left[s] + 1 ELSE left[s]]
  /\ summary' = (summary \/ S # {})

-------------------------------------------------------------------------------
(* Plausible mistakes.  No specification uses these. *)

\* ZADD without SADD
AddUnswept(s) ==
  /\ JoinMoves(s, "add", "announce")
  /\ member' = [member EXCEPT ![s] = "fresh"]
  /\ UNCHANGED <<socket, removing, swept, sweep, eventVars, faultVars>>

\* The report of a goodbye is left to the sweeper, although the member goes at once.
DisconnectSilently(s) ==
  /\ socket[s] = "open"
  /\ socket' = [socket EXCEPT ![s] = "closed"]
  /\ removing' = removing \cup {s}
  /\ UNCHANGED <<joining, redisVars, sweep, eventVars, faultVars>>

\* The member is left to the sweeper, although the goodbye is reported.
DisconnectLazily(s) ==
  /\ socket[s] = "open"
  /\ socket' = [socket EXCEPT ![s] = "closed"]
  /\ PublishLeft({s})
  /\ UNCHANGED <<joining, removing, redisVars, sweep, joined, faultVars>>

\* ZREM of what was listed, whatever its score is by now.
RemoveFound(g) ==
  /\ SweepMoves(g, "remove", "count")
  /\ Drop(sweep[g].found)
  /\ UNCHANGED <<socketVars, swept, eventVars, faultVars>>

-------------------------------------------------------------------------------
(* room:join *)

\* The session is set and presence.join sent.  A socket may join again: its old
\* session neither beats nor leaves from then on.  Nor does the new one when the
\* socket closed while the occupants were counted.
RoomJoin(s) ==
  /\ socket[s] = "none"
  /\ \/ \E c \in {"open", "lost"} : socket' = [socket EXCEPT ![s] = c]
     \/ \E t \in Sessions :
          /\ socket[t] = "open" /\ Home[t] = Home[s]
          /\ socket' = [socket EXCEPT ![s] = "open", ![t] = "lost"]
  /\ JoinMoves(s, "none", "add")
  /\ UNCHANGED <<removing, redisVars, sweep, eventVars, faultVars>>

\* A socket that joins another room forgets its session in this one.
JoinElsewhere(s) ==
  /\ socket[s] = "open"
  /\ socket' = [socket EXCEPT ![s] = "lost"]
  /\ UNCHANGED <<joining, removing, redisVars, sweep, eventVars, faultVars>>

\* MULTI: ZADD and SADD
AddMember(s) ==
  /\ JoinMoves(s, "add", "announce")
  /\ member' = [member EXCEPT ![s] = "fresh"]
  /\ swept' = TRUE
  /\ UNCHANGED <<socket, removing, sweep, eventVars, faultVars>>

AnnounceJoin(s) ==
  /\ JoinMoves(s, "announce", "list")
  /\ joined' = [joined EXCEPT ![s] = @ + 1]
  /\ UNCHANGED <<socket, removing, redisVars, sweep, left, summary, faultVars>>

\* list() drops the expired members, and reports none of them.
Clean ==
  /\ Drop(Expired)
  /\ happened' = IF Expired = {} THEN happened ELSE happened \cup {"cleaned"}

ListMembers(s) ==
  /\ JoinMoves(s, "list", "done")
  /\ Clean
  /\ summary' = TRUE
  /\ UNCHANGED <<socket, removing, swept, sweep, joined, left, faults>>

\* emitLobbySummary lists as well.
LobbySummary ==
  /\ summary
  /\ summary' = FALSE
  /\ Clean
  /\ UNCHANGED <<socketVars, swept, sweep, joined, left, faults>>

\* "join_unavailable": the session stays with the socket, perhaps as a member.
JoinFails(s) ==
  /\ joining[s] \in {"add", "announce", "list"}
  /\ joining' = [joining EXCEPT ![s] = "done"]
  /\ Fault({"redis"})
  /\ UNCHANGED <<socket, removing, redisVars, sweep, eventVars>>

-------------------------------------------------------------------------------
(* Heartbeats and goodbyes *)

\* sync:ping refreshes: ZADD alone, also of a member that is gone from a room that
\* is no longer swept.
SyncPing(s) ==
  /\ socket[s] = "open" /\ joining[s] \notin {"none", "add"}
  /\ member[s] # "fresh"
  /\ member' = [member EXCEPT ![s] = "fresh"]
  /\ happened' = IF swept THEN happened ELSE happened \cup {"unlisted"}
  /\ UNCHANGED <<socketVars, swept, sweep, eventVars, faults>>

Disconnect(s) ==
  /\ socket[s] = "open"
  /\ socket' = [socket EXCEPT ![s] = "closed"]
  /\ removing' = removing \cup {s}
  /\ PublishLeft({s})
  /\ UNCHANGED <<joining, redisVars, sweep, joined, faultVars>>

\* ZREM, behind the ZADD of a join under way
RemoveMember(s) ==
  /\ s \in removing /\ joining[s] # "add"
  /\ removing' = removing \ {s}
  /\ Drop({s})
  /\ UNCHANGED <<socket, joining, swept, sweep, eventVars, faultVars>>

\* .catch(() => undefined)
RemoveFails(s) ==
  /\ s \in removing
  /\ Fault({"redis"})
  /\ removing' = removing \ {s}
  /\ UNCHANGED <<socket, joining, redisVars, sweep, eventVars>>

\* PRESENCE_TTL_MS pass without a heartbeat, far longer than a call takes.
Expire(s) ==
  /\ member[s] = "fresh" /\ s \notin removing /\ joining[s] = "done"
  /\ member' = [member EXCEPT ![s] = "expired"]
  /\ IF socket[s] = "open" THEN Fault({"silent"}) ELSE UNCHANGED faultVars
  /\ UNCHANGED <<socketVars, swept, sweep, eventVars>>

-------------------------------------------------------------------------------
(* The sweeper of one gateway *)

SweepList(g) ==
  /\ sweep[g].step = "idle" /\ swept
  /\ Expired # {}
  /\ sweep' = [sweep EXCEPT ![g] = [step |-> "remove", found |-> Expired]]
  /\ UNCHANGED <<socketVars, redisVars, eventVars, faultVars>>

\* ZREMRANGEBYSCORE with the time of the listing: what beat since then stays.
SweepRemove(g) ==
  /\ SweepMoves(g, "remove", "count")
  /\ Drop(sweep[g].found \cap Expired)
  /\ UNCHANGED <<socketVars, swept, eventVars, faultVars>>

\* ZCARD, also of a room without expired members
SweepCount(g) ==
  /\ \/ SweepMoves(g, "count", IF Members = {} THEN "unlist" ELSE "publish")
     \/ /\ swept /\ Members = {}
        /\ SweepMoves(g, "idle", "unlist")
  /\ UNCHANGED <<socketVars, redisVars, eventVars, faultVars>>

\* SREM
SweepUnlist(g) ==
  /\ SweepMoves(g, "unlist", "publish")
  /\ swept' = FALSE
  /\ happened' = IF Members = {} THEN happened ELSE happened \cup {"unlisted"}
  /\ UNCHANGED <<socketVars, member, eventVars, faults>>

SweepPublish(g) ==
  /\ sweep[g].step = "publish"
  /\ sweep' = [sweep EXCEPT ![g] = Idle]
  /\ PublishLeft(sweep[g].found)
  /\ UNCHANGED <<socketVars, redisVars, joined, faultVars>>

\* "presence sweep failed": what was found is forgotten, also when the call that
\* throws is about a room that comes after this one.
SweepFails(g) ==
  /\ sweep[g].step # "idle"
  /\ Fault({"redis"})
  /\ sweep' = [sweep EXCEPT ![g] = Idle]
  /\ UNCHANGED <<socketVars, redisVars, eventVars>>

-------------------------------------------------------------------------------
(* The death of a gateway: nobody says goodbye for its sockets *)

GatewayDies(g) ==
  LET here   == {s \in Sessions : Home[s] = g}
      midway == \/ sweep[g].found # {} \/ here \cap removing # {}
                \/ \E s \in here : joining[s] = "announce"
  IN
  /\ Fault(IF midway THEN {"cutoff"} ELSE {})
  /\ socket' = [s \in Sessions |-> IF s \in here /\ socket[s] = "open" THEN "lost" ELSE socket[s]]
  /\ joining' = [s \in Sessions |-> IF s \in here /\ joining[s] # "none" THEN "done" ELSE joining[s]]
  /\ removing' = removing \ here
  /\ sweep' = [sweep EXCEPT ![g] = Idle]
  /\ UNCHANGED <<redisVars, eventVars>>

-------------------------------------------------------------------------------
(* The specification *)

Joining(s)  == AddMember(s) \/ AnnounceJoin(s) \/ ListMembers(s)
Sweeping(g) == SweepList(g) \/ SweepRemove(g) \/ SweepCount(g) \/ SweepUnlist(g) \/ SweepPublish(g)

PresenceNext ==
  \/ \E s \in Sessions :
       \/ RoomJoin(s) \/ JoinElsewhere(s) \/ Joining(s) \/ JoinFails(s)
       \/ SyncPing(s) \/ Disconnect(s) \/ RemoveMember(s) \/ RemoveFails(s) \/ Expire(s)
  \/ LobbySummary
  \/ \E g \in Gateways : Sweeping(g) \/ SweepFails(g) \/ GatewayDies(g)

PresenceSpec == PresenceInit /\ [][PresenceNext]_presenceVars

\* Redis answers, the sweepers' timers tick, and time passes for a member that
\* nobody refreshes.  No socket is obliged to beat, to leave or to join.
PresenceFairness ==
  /\ \A s \in Sessions :
       /\ WF_presenceVars(Joining(s)) /\ WF_presenceVars(RemoveMember(s))
       /\ WF_presenceVars(socket[s] # "open" /\ Expire(s))
  /\ \A g \in Gateways : WF_presenceVars(Sweeping(g))

PresenceLiveSpec == PresenceSpec /\ PresenceFairness

-------------------------------------------------------------------------------
(* What presence promises, and under which conditions it keeps its promises. *)

Never(k) == k \notin happened

\* Heartbeats keep a session in the room: of a member whose time has not run
\* out only the goodbye of its own socket disposes, whatever the sweepers listed
\* before the last beat (presence-store.ts:83, setup.ts:310).
BeatingIsPresent ==
  [][\A s \in Sessions :
       member[s] = "fresh" /\ member'[s] = "absent" => s \in removing]_presenceVars

InASweep(s) == \E g \in Gateways : s \in sweep[g].found

Reported ==
  \A s \in Sessions :
    joined[s] = 1 /\ member[s] = "absent" => left[s] > 0 \/ InASweep(s)

\* A session that was announced and is no longer a member has been reported as
\* gone or is about to be (setup.ts:311, 346).  True unless a gateway dies or Redis
\* fails in the middle, or a listing got there first.
GhostsAreReported ==
  Never("cleaned") /\ Never("cutoff") /\ Never("redis") => Reported

\* A departure is reported at most once by every gateway, however the goodbye,
\* the sweepers and the listings interleave, as long as sockets beat, nothing
\* fails and nobody dies in the middle (setup.ts:311, presence-store.ts:77-83).
LeavesOnce ==
  Never("silent") /\ Never("redis") /\ Never("cutoff") =>
    \A s \in Sessions : left[s] <= Cardinality(Gateways)

\* A session without a socket does not stay: the sweeper or somebody's listing
\* takes it out, unless the room was struck off the sweepers' list under a member,
\* or a heartbeat brought one back to it (presence-store.ts:48, 83-84).
GhostsLeave ==
  \A s \in Sessions :
    socket[s] = "lost" ~> member[s] = "absent" \/ ~Never("unlisted")
===============================================================================
