---------------------------- MODULE PresenceProofs ----------------------------
(***************************************************************************)
(* Theorems about presence in one room, for any number of sessions, of     *)
(* gateways and of faults.                                                 *)
(***************************************************************************)
EXTENDS Presence, FiniteSetTheorems, TLAPS

USE PresenceAssumption

-------------------------------------------------------------------------------
(* The inductive invariant *)

\* Only a finished join lets its member grow old, joins announce themselves once,
\* and a sweep that has not begun has found nobody.
StepsInOrder ==
  /\ \A s \in Sessions : member[s] = "expired" => joining[s] = "done"
  /\ \A s \in Sessions : joining[s] \in {"none", "add", "announce"} => joined[s] = 0
  /\ \A g \in Gateways : sweep[g].step = "idle" => sweep[g].found = {}

Undisturbed == Never("cleaned") /\ Never("cutoff") /\ Never("redis")

\* Goodbyes are reported before their members go, and a member that is about to
\* be announced is there unless its goodbye overtook it.
ReportedInTime ==
  Undisturbed =>
    /\ \A s \in removing : left[s] > 0
    /\ \A s \in Sessions : joining[s] = "announce" => member[s] = "fresh" \/ left[s] > 0
    /\ Reported

PresenceInv == PresenceTypeOK /\ StepsInOrder /\ ReportedInTime

\* An empty room satisfies the invariant.
LEMMA PresenceInitInv == PresenceInit => PresenceInv
<1> SUFFICES ASSUME PresenceInit PROVE PresenceInv  OBVIOUS
<1>1. PresenceTypeOK
  <2>1. Idle \in [step : SweepSteps, found : SUBSET Sessions]
    BY DEF Idle, SweepSteps
  <2>2. sweep \in [Gateways -> [step : SweepSteps, found : SUBSET Sessions]]
    BY <2>1 DEF PresenceInit
  <2>3. joining \in [Sessions -> JoinSteps] /\ faults \in 0 .. MaxFaults
    BY DEF PresenceInit, JoinSteps
  <2>4. /\ socket \in [Sessions -> {"none", "open", "closed", "lost"}]
        /\ member \in [Sessions -> {"absent", "fresh", "expired"}]
    BY DEF PresenceInit
  <2>5. joined \in [Sessions -> 0 .. 1] /\ left \in [Sessions -> Nat]
    BY DEF PresenceInit
  <2>6. removing \in SUBSET Sessions /\ happened \in SUBSET Anomalies
    BY DEF PresenceInit
  <2>7. swept \in BOOLEAN /\ summary \in BOOLEAN
    BY DEF PresenceInit
  <2> QED BY <2>2, <2>3, <2>4, <2>5, <2>6, <2>7 DEF PresenceTypeOK
<1>2. StepsInOrder
  BY DEF PresenceInit, StepsInOrder, Idle
<1>3. ReportedInTime
  BY DEF PresenceInit, ReportedInTime, Reported
<1> QED BY <1>1, <1>2, <1>3 DEF PresenceInv

-------------------------------------------------------------------------------
(* The steps of the sockets *)

\* Starting, forgetting and failing to finish a join touch no member and no report.
LEMMA AroundJoins ==
  ASSUME PresenceInv, NEW s \in Sessions,
         RoomJoin(s) \/ JoinElsewhere(s) \/ JoinFails(s)
  PROVE  PresenceInv'
<1>1. CASE RoomJoin(s)
  <2>1. socket' \in [Sessions -> {"none", "open", "closed", "lost"}]
    BY <1>1 DEF RoomJoin, PresenceInv, PresenceTypeOK
  <2>2. /\ joining[s] = "none" /\ joining' = [joining EXCEPT ![s] = "add"]
        /\ UNCHANGED <<removing, member, swept, summary, sweep, joined, left, happened, faults>>
    BY <1>1 DEF RoomJoin, JoinMoves, redisVars, eventVars, faultVars
  <2>3. PresenceTypeOK'
    BY <2>1, <2>2 DEF PresenceInv, PresenceTypeOK, JoinSteps
  <2> QED
    BY <2>2, <2>3 DEF PresenceInv, PresenceTypeOK, StepsInOrder, ReportedInTime, Undisturbed, Never,
       Reported, InASweep
<1>2. CASE JoinElsewhere(s)
  BY <1>2 DEF JoinElsewhere, redisVars, eventVars, faultVars, PresenceInv, PresenceTypeOK,
              StepsInOrder, ReportedInTime, Undisturbed, Never, Reported, InASweep
<1>3. CASE JoinFails(s)
  BY <1>3 DEF JoinFails, Fault, Anomalies, redisVars, eventVars, faultVars, PresenceInv,
              PresenceTypeOK, JoinSteps, StepsInOrder, ReportedInTime, Undisturbed, Never
<1> QED BY <1>1, <1>2, <1>3

\* What is added is fresh, and what is announced was added.
LEMMA JoinsProceed ==
  ASSUME PresenceInv, NEW s \in Sessions, AddMember(s) \/ AnnounceJoin(s)
  PROVE  PresenceInv'
<1>1. CASE AddMember(s)
  BY <1>1 DEF AddMember, JoinMoves, eventVars, faultVars, PresenceInv, PresenceTypeOK, JoinSteps,
              StepsInOrder, ReportedInTime, Undisturbed, Never, Reported, InASweep
<1>2. CASE AnnounceJoin(s)
  BY <1>2 DEF AnnounceJoin, JoinMoves, redisVars, faultVars, PresenceInv, PresenceTypeOK, JoinSteps,
              StepsInOrder, ReportedInTime, Undisturbed, Never, Reported, InASweep
<1> QED BY <1>1, <1>2

\* A listing that does not disturb drops nobody.
LEMMA CleanSteps ==
  ASSUME PresenceInv, LobbySummary \/ \E s \in Sessions : ListMembers(s)
  PROVE  PresenceInv'
<1>1. Clean /\ UNCHANGED <<socket, removing, sweep, joined, left, swept, faults>>
  BY DEF LobbySummary, ListMembers, socketVars
<1>2. summary' \in BOOLEAN
  BY DEF LobbySummary, ListMembers
<1>3. /\ joining' \in [Sessions -> JoinSteps]
      /\ \A t \in Sessions : joining'[t] = joining[t] \/ (joining[t] = "list" /\ joining'[t] = "done")
  <2>1. joining \in [Sessions -> JoinSteps] /\ "done" \in JoinSteps
    BY DEF PresenceInv, PresenceTypeOK, JoinSteps
  <2>2. CASE LobbySummary
    BY <2>1, <2>2 DEF LobbySummary, socketVars
  <2>3. CASE \E s \in Sessions : ListMembers(s)
    <3>1. PICK s \in Sessions : joining[s] = "list" /\ joining' = [joining EXCEPT ![s] = "done"]
      BY <2>3 DEF ListMembers, JoinMoves
    <3> QED BY <2>1, <3>1
  <2> QED BY <2>2, <2>3
<1>4. \A t \in Sessions : member'[t] = member[t] \/ (member[t] = "expired" /\ member'[t] = "absent")
  BY <1>1 DEF Clean, Drop, Expired
<1>5. PresenceTypeOK'
  BY <1>1, <1>2, <1>3 DEF Clean, Drop, Anomalies, PresenceInv, PresenceTypeOK
<1>6. StepsInOrder'
  BY <1>1, <1>3, <1>4 DEF PresenceInv, StepsInOrder
<1>7. ReportedInTime'
  <2> SUFFICES ASSUME Undisturbed' PROVE ReportedInTime'  BY DEF ReportedInTime
  <2>1. Expired = {} /\ Undisturbed
    BY <1>1 DEF Clean, Undisturbed, Never
  <2>2. \A t \in Sessions : member'[t] = member[t]
    BY <2>1, <1>4 DEF Expired
  <2> QED
    BY <1>1, <1>3, <2>1, <2>2 DEF PresenceInv, ReportedInTime, Reported, InASweep
<1> QED BY <1>5, <1>6, <1>7 DEF PresenceInv

\* Heartbeats make members, time makes them old.
LEMMA BeatSteps ==
  ASSUME PresenceInv, NEW s \in Sessions, SyncPing(s) \/ Expire(s)
  PROVE  PresenceInv'
<1>1. CASE SyncPing(s)
  BY <1>1 DEF SyncPing, Anomalies, socketVars, eventVars, PresenceInv, PresenceTypeOK, StepsInOrder,
              ReportedInTime, Undisturbed, Never, Reported, InASweep
<1>2. CASE Expire(s)
  <2>1. /\ faults' \in 0 .. MaxFaults /\ happened' \in SUBSET Anomalies
        /\ happened \subseteq happened'
    <3>1. Fault({"silent"}) \/ UNCHANGED <<happened, faults>>
      BY <1>2 DEF Expire, faultVars
    <3>2. faults' \in 0 .. MaxFaults
      BY <3>1 DEF Fault, PresenceInv, PresenceTypeOK
    <3>3. happened' \in SUBSET Anomalies /\ happened \subseteq happened'
      <4>1. {"silent"} \subseteq Anomalies /\ happened \subseteq Anomalies
        BY DEF Anomalies, PresenceInv, PresenceTypeOK
      <4>2. happened' = happened \cup {"silent"} \/ happened' = happened
        BY <3>1 DEF Fault
      <4> QED BY <4>1, <4>2
    <3> QED BY <3>2, <3>3
  <2>2. /\ joining[s] = "done" /\ member[s] = "fresh"
        /\ member' = [member EXCEPT ![s] = "expired"]
        /\ UNCHANGED <<socket, joining, removing, swept, sweep, summary, joined, left>>
    BY <1>2 DEF Expire, socketVars, eventVars
  <2>3. PresenceTypeOK'
    BY <2>1, <2>2 DEF PresenceInv, PresenceTypeOK
  <2> QED
    BY <2>1, <2>2, <2>3 DEF PresenceInv, PresenceTypeOK, StepsInOrder, ReportedInTime, Undisturbed,
       Never, Reported, InASweep
<1> QED BY <1>1, <1>2

\* The report of a goodbye comes before the removal.
LEMMA LeaveSteps ==
  ASSUME PresenceInv, NEW s \in Sessions, Disconnect(s) \/ RemoveMember(s) \/ RemoveFails(s)
  PROVE  PresenceInv'
<1>1. CASE Disconnect(s)
  BY <1>1 DEF Disconnect, PublishLeft, redisVars, faultVars, PresenceInv, PresenceTypeOK,
              StepsInOrder, ReportedInTime, Undisturbed, Never, Reported, InASweep
<1>2. CASE RemoveMember(s)
  BY <1>2 DEF RemoveMember, Drop, eventVars, faultVars, PresenceInv, PresenceTypeOK, StepsInOrder,
              ReportedInTime, Undisturbed, Never, Reported, InASweep
<1>3. CASE RemoveFails(s)
  BY <1>3 DEF RemoveFails, Fault, Anomalies, redisVars, eventVars, PresenceInv, PresenceTypeOK,
              StepsInOrder, ReportedInTime, Undisturbed, Never
<1> QED BY <1>1, <1>2, <1>3

-------------------------------------------------------------------------------
(* The steps of the sweepers *)

Sweeps == [step : SweepSteps, found : SUBSET Sessions]

\* A sweep that goes on keeps what it has found.
LEMMA SweepGoesOn ==
  ASSUME NEW g \in Gateways, NEW there \in SweepSteps \ {"idle"},
         sweep \in [Gateways -> Sweeps], sweep' = [sweep EXCEPT ![g].step = there]
  PROVE  /\ sweep' \in [Gateways -> Sweeps]
         /\ \A h \in Gateways :
              /\ sweep'[h].found = sweep[h].found
              /\ sweep'[h].step = "idle" => sweep[h].step = "idle"
<1>1. sweep[g] \in Sweeps
  OBVIOUS
<1>2. [sweep[g] EXCEPT !.step = there] \in Sweeps
  BY <1>1 DEF Sweeps
<1>3. [sweep[g] EXCEPT !.step = there].found = sweep[g].found
      /\ [sweep[g] EXCEPT !.step = there].step = there
  BY <1>1 DEF Sweeps
<1>4. sweep' = [sweep EXCEPT ![g] = [sweep[g] EXCEPT !.step = there]]
  OBVIOUS
<1> QED BY <1>2, <1>3, <1>4

\* What a sweep removes it has found, and keeps until it reports it.
LEMMA SweepsProceed ==
  ASSUME PresenceInv, NEW g \in Gateways, SweepList(g) \/ SweepRemove(g) \/ SweepCount(g)
  PROVE  PresenceInv'
<1>1. CASE SweepList(g)
  <2>1. Expired \subseteq Sessions
    BY DEF Expired
  <2>2. \A t \in Sessions : InASweep(t) => InASweep(t)'
    BY <1>1 DEF SweepList, InASweep, PresenceInv, PresenceTypeOK, StepsInOrder
  <2> QED
    BY <1>1, <2>1, <2>2 DEF SweepList, SweepSteps, socketVars, redisVars, eventVars, faultVars,
       PresenceInv, PresenceTypeOK, StepsInOrder, ReportedInTime, Undisturbed, Never, Reported
<1>2. CASE SweepRemove(g)
  <2>1. \A t \in Sessions : InASweep(t) => InASweep(t)'
    BY <1>2 DEF SweepRemove, SweepMoves, InASweep, PresenceInv, PresenceTypeOK
  <2>2. \A t \in Sessions : member'[t] # member[t] =>
          member[t] = "expired" /\ member'[t] = "absent" /\ InASweep(t)
    BY <1>2 DEF SweepRemove, Drop, Expired, InASweep
  <2>3. PresenceTypeOK' /\ StepsInOrder'
    BY <1>2, <2>2 DEF SweepRemove, SweepMoves, Drop, SweepSteps, socketVars, eventVars, faultVars,
       PresenceInv, PresenceTypeOK, StepsInOrder
  <2> QED
    BY <1>2, <2>1, <2>2, <2>3 DEF SweepRemove, socketVars, eventVars, faultVars, PresenceInv,
       StepsInOrder, ReportedInTime, Undisturbed, Never, Reported
<1>3. CASE SweepCount(g)
  <2>1. PICK there \in {"unlist", "publish"} :
          /\ sweep[g].step \in {"idle", "count"}
          /\ sweep' = [sweep EXCEPT ![g].step = there]
    BY <1>3 DEF SweepCount, SweepMoves
  <2>2. sweep \in [Gateways -> Sweeps] /\ there \in SweepSteps \ {"idle"}
    BY DEF Sweeps, SweepSteps, PresenceInv, PresenceTypeOK
  <2>3. /\ sweep' \in [Gateways -> Sweeps]
        /\ \A h \in Gateways :
             /\ sweep'[h].found = sweep[h].found
             /\ sweep'[h].step = "idle" => sweep[h].step = "idle"
    BY <2>1, <2>2, SweepGoesOn
  <2>4. UNCHANGED <<socket, joining, removing, member, swept, joined, left, summary, happened, faults>>
    BY <1>3 DEF SweepCount, socketVars, redisVars, eventVars, faultVars
  <2> QED
    BY <2>3, <2>4 DEF Sweeps, PresenceInv, PresenceTypeOK, StepsInOrder, ReportedInTime, Undisturbed,
       Never, Reported, InASweep
<1> QED BY <1>1, <1>2, <1>3

\* A sweep ends with the report of what it found.
LEMMA SweepsEnd ==
  ASSUME PresenceInv, NEW g \in Gateways, SweepUnlist(g) \/ SweepPublish(g) \/ SweepFails(g)
  PROVE  PresenceInv'
<1>1. CASE SweepUnlist(g)
  <2>1. sweep \in [Gateways -> Sweeps] /\ "publish" \in SweepSteps \ {"idle"}
    BY DEF Sweeps, SweepSteps, PresenceInv, PresenceTypeOK
  <2>2. /\ sweep' \in [Gateways -> Sweeps]
        /\ \A h \in Gateways :
             /\ sweep'[h].found = sweep[h].found
             /\ sweep'[h].step = "idle" => sweep[h].step = "idle"
    <3>1. sweep' = [sweep EXCEPT ![g].step = "publish"]
      BY <1>1 DEF SweepUnlist, SweepMoves
    <3> QED BY <2>1, <3>1, SweepGoesOn
  <2>3. UNCHANGED <<socket, joining, removing, member, joined, left, summary, faults>>
    BY <1>1 DEF SweepUnlist, socketVars, eventVars
  <2>4. /\ swept' \in BOOLEAN
        /\ happened' = happened \/ happened' = happened \cup {"unlisted"}
    BY <1>1 DEF SweepUnlist
  <2>5. happened' \in SUBSET Anomalies /\ happened \subseteq happened'
    BY <2>4 DEF Anomalies, PresenceInv, PresenceTypeOK
  <2> QED
    BY <2>2, <2>3, <2>4, <2>5 DEF Sweeps, PresenceInv, PresenceTypeOK, StepsInOrder, ReportedInTime,
       Undisturbed, Never, Reported, InASweep
<1>2. CASE SweepPublish(g)
  <2>1. \A t \in Sessions :
          left[t] \in Nat /\ left'[t] = left[t] + (IF t \in sweep[g].found THEN 1 ELSE 0)
    BY <1>2 DEF SweepPublish, PublishLeft, PresenceInv, PresenceTypeOK
  <2>2. \A t \in Sessions : InASweep(t) => InASweep(t)' \/ left'[t] > 0
    BY <1>2, <2>1 DEF SweepPublish, InASweep, PresenceInv, PresenceTypeOK
  <2>3. PresenceTypeOK' /\ StepsInOrder'
    BY <1>2 DEF SweepPublish, PublishLeft, Idle, SweepSteps, socketVars, redisVars, faultVars,
       PresenceInv, PresenceTypeOK, StepsInOrder
  <2>4. UNCHANGED <<joining, removing, member, joined, happened>>
    BY <1>2 DEF SweepPublish, socketVars, redisVars, faultVars
  <2>5. \A t \in Sessions : left[t] > 0 => left'[t] > 0
    BY <2>1
  <2>6. removing \subseteq Sessions
    BY DEF PresenceInv, PresenceTypeOK
  <2>7. ReportedInTime'
    BY <2>2, <2>4, <2>5, <2>6 DEF PresenceInv, ReportedInTime, Undisturbed, Never, Reported
  <2> QED BY <2>3, <2>7 DEF PresenceInv
<1>3. CASE SweepFails(g)
  BY <1>3 DEF SweepFails, Fault, Anomalies, Idle, SweepSteps, socketVars, redisVars, eventVars,
     PresenceInv, PresenceTypeOK, StepsInOrder, ReportedInTime, Undisturbed, Never
<1> QED BY <1>1, <1>2, <1>3

\* A gateway that dies without disturbing had found nobody and owed no goodbye.
LEMMA DeathSteps ==
  ASSUME PresenceInv, NEW g \in Gateways, GatewayDies(g)
  PROVE  PresenceInv'
<1> DEFINE here == {s \in Sessions : Home[s] = g}
           midway == \/ sweep[g].found # {} \/ here \cap removing # {}
                     \/ \E s \in here : joining[s] = "announce"
<1>1. Fault(IF midway THEN {"cutoff"} ELSE {})
  BY DEF GatewayDies
<1>2. /\ removing' = removing \ here /\ sweep' = [sweep EXCEPT ![g] = Idle]
      /\ UNCHANGED <<member, swept, joined, left, summary>>
  BY DEF GatewayDies, redisVars, eventVars
<1>3. joining' = [s \in Sessions |-> IF s \in here /\ joining[s] # "none" THEN "done" ELSE joining[s]]
  BY DEF GatewayDies
<1>4. PresenceTypeOK'
  <2>1. socket' \in [Sessions -> {"none", "open", "closed", "lost"}]
    BY DEF GatewayDies, PresenceInv, PresenceTypeOK
  <2>2. faults' \in 0 .. MaxFaults /\ happened' \in SUBSET Anomalies
    BY <1>1 DEF Fault, Anomalies, PresenceInv, PresenceTypeOK
  <2> QED
    BY <1>2, <1>3, <2>1, <2>2 DEF Idle, SweepSteps, JoinSteps, PresenceInv, PresenceTypeOK
<1>5. StepsInOrder'
  BY <1>2, <1>3 DEF Idle, PresenceInv, PresenceTypeOK, StepsInOrder
<1>6. ReportedInTime'
  <2> SUFFICES ASSUME Undisturbed' PROVE ReportedInTime'  BY DEF ReportedInTime
  <2>1. ~ midway /\ Undisturbed
    BY <1>1 DEF Fault, Undisturbed, Never
  <2>2. \A t \in Sessions : InASweep(t) => InASweep(t)'
    BY <1>2, <2>1 DEF InASweep, PresenceInv, PresenceTypeOK
  <2> QED
    BY <1>2, <1>3, <2>1, <2>2 DEF PresenceInv, ReportedInTime, Reported
<1> QED BY <1>4, <1>5, <1>6 DEF PresenceInv

-------------------------------------------------------------------------------
(* The theorems *)

\* Every step preserves the invariant.
LEMMA PresenceNextInv == PresenceInv /\ [PresenceNext]_presenceVars => PresenceInv'
<1> SUFFICES ASSUME PresenceInv, [PresenceNext]_presenceVars PROVE PresenceInv'  OBVIOUS
<1>1. CASE UNCHANGED presenceVars
  BY <1>1 DEF presenceVars, socketVars, redisVars, eventVars, faultVars, PresenceInv, PresenceTypeOK,
              StepsInOrder, ReportedInTime, Undisturbed, Never, Reported, InASweep
<1>2. CASE \E s \in Sessions : RoomJoin(s) \/ JoinElsewhere(s) \/ JoinFails(s)
  BY <1>2, AroundJoins
<1>3. CASE \E s \in Sessions : AddMember(s) \/ AnnounceJoin(s)
  BY <1>3, JoinsProceed
<1>4. CASE LobbySummary \/ \E s \in Sessions : ListMembers(s)
  BY <1>4, CleanSteps
<1>5. CASE \E s \in Sessions : SyncPing(s) \/ Expire(s)
  BY <1>5, BeatSteps
<1>6. CASE \E s \in Sessions : Disconnect(s) \/ RemoveMember(s) \/ RemoveFails(s)
  BY <1>6, LeaveSteps
<1>7. CASE \E g \in Gateways : SweepList(g) \/ SweepRemove(g) \/ SweepCount(g)
  BY <1>7, SweepsProceed
<1>8. CASE \E g \in Gateways : SweepUnlist(g) \/ SweepPublish(g) \/ SweepFails(g)
  BY <1>8, SweepsEnd
<1>9. CASE \E g \in Gateways : GatewayDies(g)
  BY <1>9, DeathSteps
<1> QED
  BY <1>1, <1>2, <1>3, <1>4, <1>5, <1>6, <1>7, <1>8, <1>9 DEF PresenceNext, Joining, Sweeping

\* The invariant holds in every reachable state.
LEMMA PresenceInvariant == PresenceSpec => []PresenceInv
  BY PresenceInitInv, PresenceNextInv, PTL DEF PresenceSpec

\* Whoever was announced and is no longer a member has been reported, or is about
\* to be, unless Redis fails, a gateway is cut off or a listing got there first.
THEOREM Departures == PresenceSpec => []GhostsAreReported
<1>1. PresenceInv => GhostsAreReported
  BY DEF PresenceInv, ReportedInTime, Undisturbed, GhostsAreReported
<1> QED BY <1>1, PresenceInvariant, PTL

\* Only the goodbye of its own socket takes a member away before its time.
THEOREM Heartbeats == PresenceSpec => BeatingIsPresent
<1> DEFINE Kept == \A s \in Sessions :
                     member[s] = "fresh" /\ member'[s] = "absent" => s \in removing
<1>1. PresenceInv /\ [PresenceNext]_presenceVars => [Kept]_presenceVars
  <2> SUFFICES ASSUME PresenceInv, PresenceNext, NEW t \in Sessions,
                      member[t] = "fresh", member'[t] = "absent"
               PROVE  t \in removing
    OBVIOUS
  <2>1. CASE \E s \in Sessions : AddMember(s) \/ SyncPing(s) \/ Expire(s) \/ RemoveMember(s)
    BY <2>1 DEF AddMember, SyncPing, Expire, RemoveMember, Drop, PresenceInv, PresenceTypeOK
  <2>2. CASE LobbySummary \/ \E s \in Sessions : ListMembers(s)
    BY <2>2 DEF LobbySummary, ListMembers, Clean, Drop, Expired
  <2>3. CASE \E g \in Gateways : SweepRemove(g)
    BY <2>3 DEF SweepRemove, Drop, Expired
  <2>4. CASE UNCHANGED member
    BY <2>4
  <2>5. CASE \E s \in Sessions : \/ RoomJoin(s) \/ JoinElsewhere(s) \/ JoinFails(s) \/ AnnounceJoin(s)
                                 \/ Disconnect(s) \/ RemoveFails(s)
    BY <2>4, <2>5 DEF RoomJoin, JoinElsewhere, JoinFails, AnnounceJoin, Disconnect, RemoveFails, redisVars
  <2>6. CASE \E g \in Gateways : \/ SweepList(g) \/ SweepCount(g) \/ SweepUnlist(g) \/ SweepPublish(g)
                                 \/ SweepFails(g) \/ GatewayDies(g)
    BY <2>4, <2>6 DEF SweepList, SweepCount, SweepUnlist, SweepPublish, SweepFails, GatewayDies, redisVars
  <2> QED BY <2>1, <2>2, <2>3, <2>5, <2>6 DEF PresenceNext, Joining, Sweeping
<1> QED BY <1>1, PresenceInvariant, PTL DEF PresenceSpec, BeatingIsPresent
-------------------------------------------------------------------------------
(* How often a departure is reported *)

\* Sockets beat, Redis answers, and nobody dies in the middle.
Calm == Never("silent") /\ Never("redis") /\ Never("cutoff")

Finders(s) == {g \in Gateways : s \in sweep[g].found}

\* A session whose socket beats is neither reported nor found; one that said
\* goodbye is reported and never found; one that fell silent is found by every
\* gateway at most once, and only before any of them has removed it.
Counted(s) ==
  /\ socket[s] \in {"none", "open"} =>
       left[s] = 0 /\ Finders(s) = {} /\ s \notin removing /\ member[s] # "expired"
  /\ socket[s] = "none" => joining[s] = "none" /\ member[s] = "absent"
  /\ socket[s] = "closed" =>
       /\ left[s] = 1 /\ Finders(s) = {} /\ member[s] # "expired"
       /\ s \in removing \/ (member[s] = "absent" /\ joining[s] # "add")
  /\ socket[s] = "lost" =>
       /\ s \notin removing
       /\ member[s] = "fresh" \/ joining[s] = "add" => left[s] = 0 /\ Finders(s) = {}
       /\ member[s] = "expired" => left[s] = 0
       /\ left[s] + Cardinality(Finders(s)) <= Cardinality(Gateways)
  /\ \A g \in Gateways :
       s \in sweep[g].found /\ sweep[g].step # "remove" => member[s] = "absent"

CountedInCalm == Calm => \A s \in Sessions : Counted(s)

\* Nobody has found anybody in a set of no finders, and there is a gateway.
LEMMA FinderCounts ==
  ASSUME NEW s \in Sessions
  PROVE  /\ IsFiniteSet(Finders(s)) /\ Cardinality(Finders(s)) \in Nat
         /\ Cardinality(Gateways) \in Nat /\ Cardinality(Gateways) >= 1
         /\ Cardinality(Finders(s)) <= Cardinality(Gateways)
         /\ Cardinality({}) = 0
<1>1. Finders(s) \subseteq Gateways
  BY DEF Finders
<1>2. Home[s] \in Gateways
  OBVIOUS
<1>3. Cardinality(Gateways) # 0
  BY <1>2, FS_EmptySet
<1> QED BY <1>1, <1>3, FS_Subset, FS_CardinalityType, FS_EmptySet

\* The same finders count the same, before and after.
LEMMA SameFinders ==
  ASSUME \A g \in Gateways : sweep'[g].found = sweep[g].found
  PROVE  \A s \in Sessions : Finders(s)' = Finders(s)
  BY DEF Finders

\* Starting, forgetting and failing to finish a join, and announcing it.
LEMMA JoinsCount ==
  ASSUME PresenceInv, CountedInCalm, NEW s \in Sessions,
         RoomJoin(s) \/ JoinElsewhere(s) \/ JoinFails(s) \/ AddMember(s) \/ AnnounceJoin(s)
  PROVE  CountedInCalm'
<1> SUFFICES ASSUME Calm', NEW t \in Sessions PROVE Counted(t)'
  BY DEF CountedInCalm
<1>1. Calm /\ Counted(t) /\ Counted(s)
  <2>1. happened \subseteq happened'
    BY DEF RoomJoin, JoinElsewhere, JoinFails, AddMember, AnnounceJoin, Fault, faultVars
  <2> QED BY <2>1 DEF Calm, Never, CountedInCalm
<1>2. UNCHANGED <<sweep, left, removing>> /\ Finders(t)' = Finders(t)
  BY SameFinders DEF RoomJoin, JoinElsewhere, JoinFails, AddMember, AnnounceJoin, eventVars
<1>3. CASE RoomJoin(s)
  <2>1. /\ socket[s] = "none"
        /\ UNCHANGED member /\ joining' = [joining EXCEPT ![s] = "add"]
    BY <1>3 DEF RoomJoin, JoinMoves, redisVars
  <2>2. \/ t = s /\ socket'[t] \in {"open", "lost"}
        \/ t # s /\ socket[t] = "open" /\ socket'[t] = "lost"
        \/ t # s /\ socket'[t] = socket[t]
    BY <1>3 DEF RoomJoin, PresenceInv, PresenceTypeOK
  <2> QED
    BY <1>1, <1>2, <2>1, <2>2, FinderCounts DEF Counted, PresenceInv, PresenceTypeOK
<1>4. CASE JoinElsewhere(s)
  BY <1>1, <1>2, <1>4, FinderCounts DEF JoinElsewhere, redisVars, Counted, PresenceInv, PresenceTypeOK
<1>5. CASE JoinFails(s)
  BY <1>5 DEF JoinFails, Fault, Calm, Never
<1>6. CASE AddMember(s)
  <2>1. /\ joining[s] = "add" /\ joining' = [joining EXCEPT ![s] = "announce"]
        /\ member' = [member EXCEPT ![s] = "fresh"] /\ UNCHANGED socket
    BY <1>6 DEF AddMember, JoinMoves
  <2>2. socket[s] \in {"open", "closed", "lost"} /\ Finders(s) = {}
    BY <1>1, <2>1 DEF Counted, PresenceInv, PresenceTypeOK
  <2>3. t = s => Finders(t) = {} /\ \A g \in Gateways : t \notin sweep'[g].found
    BY <1>2, <2>2 DEF Finders
  <2> QED
    BY <1>1, <1>2, <2>1, <2>2, <2>3 DEF Counted, PresenceInv, PresenceTypeOK
<1>7. CASE AnnounceJoin(s)
  BY <1>1, <1>2, <1>7 DEF AnnounceJoin, JoinMoves, redisVars, Counted, PresenceInv, PresenceTypeOK
<1> QED BY <1>3, <1>4, <1>5, <1>6, <1>7

\* A listing drops members that are old, whom no socket brings back.
LEMMA CleaningCounts ==
  ASSUME PresenceInv, CountedInCalm, LobbySummary \/ \E s \in Sessions : ListMembers(s)
  PROVE  CountedInCalm'
<1> SUFFICES ASSUME Calm', NEW t \in Sessions PROVE Counted(t)'
  BY DEF CountedInCalm
<1>1. Clean /\ UNCHANGED <<socket, removing, sweep, left>>
  BY DEF LobbySummary, ListMembers, socketVars
<1>2. Calm /\ Counted(t)
  BY <1>1 DEF Clean, Calm, Never, CountedInCalm
<1>3. Finders(t)' = Finders(t)
  BY <1>1, SameFinders
<1>4. joining'[t] = joining[t] \/ (joining[t] = "list" /\ joining'[t] = "done")
  BY DEF LobbySummary, ListMembers, JoinMoves, socketVars, PresenceInv, PresenceTypeOK
<1>5. member'[t] = member[t] \/ (member[t] = "expired" /\ member'[t] = "absent")
  BY <1>1 DEF Clean, Drop, Expired
<1> QED BY <1>1, <1>2, <1>3, <1>4, <1>5 DEF Counted

\* A socket that beats keeps its member fresh, so only a silent one's grows old.
LEMMA BeatsCount ==
  ASSUME PresenceInv, CountedInCalm, NEW s \in Sessions,
         SyncPing(s) \/ Expire(s) \/ Disconnect(s) \/ RemoveMember(s) \/ RemoveFails(s)
  PROVE  CountedInCalm'
<1> SUFFICES ASSUME Calm', NEW t \in Sessions PROVE Counted(t)'
  BY DEF CountedInCalm
<1>1. Calm /\ Counted(t) /\ Counted(s)
  <2>1. happened \subseteq happened'
    BY DEF SyncPing, Expire, Disconnect, RemoveMember, RemoveFails, Fault, faultVars
  <2> QED BY <2>1 DEF Calm, Never, CountedInCalm
<1>2. UNCHANGED <<sweep, joining>> /\ Finders(t)' = Finders(t)
  BY SameFinders DEF SyncPing, Expire, Disconnect, RemoveMember, RemoveFails, socketVars
<1>3. CASE SyncPing(s)
  <2>1. socket[s] = "open" /\ member' = [member EXCEPT ![s] = "fresh"]
        /\ UNCHANGED <<socket, removing, left>>
    BY <1>3 DEF SyncPing, socketVars, eventVars
  <2>2. t = s => \A g \in Gateways : t \notin sweep'[g].found
    BY <1>1, <1>2, <2>1 DEF Counted, Finders
  <2> QED BY <1>1, <1>2, <2>1, <2>2 DEF Counted, PresenceInv, PresenceTypeOK
<1>4. CASE Expire(s)
  <2>1. /\ member[s] = "fresh" /\ s \notin removing /\ joining[s] = "done"
        /\ member' = [member EXCEPT ![s] = "expired"] /\ UNCHANGED <<socket, removing, left>>
    BY <1>4 DEF Expire, socketVars, eventVars
  <2>2. socket[s] # "open"
    BY <1>4 DEF Expire, Fault, Calm, Never
  <2>3. socket[s] = "lost" /\ Finders(s) = {}
    BY <1>1, <2>1, <2>2 DEF Counted, PresenceInv, PresenceTypeOK
  <2>4. t = s => \A g \in Gateways : t \notin sweep'[g].found
    BY <1>2, <2>3 DEF Finders
  <2> QED BY <1>1, <1>2, <2>1, <2>3, <2>4 DEF Counted, PresenceInv, PresenceTypeOK
<1>5. CASE Disconnect(s)
  BY <1>1, <1>2, <1>5 DEF Disconnect, PublishLeft, redisVars, Counted, PresenceInv, PresenceTypeOK
<1>6. CASE RemoveMember(s)
  BY <1>1, <1>2, <1>6 DEF RemoveMember, Drop, eventVars, Counted, PresenceInv, PresenceTypeOK
<1>7. CASE RemoveFails(s)
  BY <1>7 DEF RemoveFails, Fault, Calm, Never
<1> QED BY <1>3, <1>4, <1>5, <1>6, <1>7

\* Who is found is old, unreported, and without a socket.
LEMMA FindingCounts ==
  ASSUME PresenceInv, CountedInCalm, NEW g \in Gateways, SweepList(g)
  PROVE  CountedInCalm'
<1> SUFFICES ASSUME Calm', NEW t \in Sessions PROVE Counted(t)'
  BY DEF CountedInCalm
<1>1. /\ sweep' = [sweep EXCEPT ![g] = [step |-> "remove", found |-> Expired]]
      /\ UNCHANGED <<socket, joining, removing, member, left, happened>>
  BY DEF SweepList, socketVars, redisVars, eventVars, faultVars
<1>2. Calm /\ Counted(t)
  BY <1>1 DEF Calm, Never, CountedInCalm
<1>3. /\ \A h \in Gateways : h # g => sweep'[h] = sweep[h]
      /\ sweep'[g].found = Expired /\ sweep'[g].step = "remove"
  BY <1>1 DEF PresenceInv, PresenceTypeOK
<1>4. (Cardinality(Finders(t)) <= Cardinality(Gateways) /\ Cardinality(Finders(t)) \in Nat)'
  <2>1. (Finders(t))' \subseteq Gateways
    BY DEF Finders
  <2> QED BY <2>1, FS_Subset, FS_CardinalityType
<1>5. CASE t \in Expired
  <2>1. socket[t] = "lost" /\ left[t] = 0 /\ t \notin removing /\ member[t] = "expired"
    BY <1>2, <1>5 DEF Expired, Counted, PresenceInv, PresenceTypeOK
  <2>2. joining[t] = "done"
    BY <2>1 DEF PresenceInv, StepsInOrder
  <2>3. \A h \in Gateways : t \in sweep'[h].found => sweep'[h].step = "remove"
    BY <1>2, <1>3, <2>1 DEF Counted
  <2> QED BY <1>1, <1>4, <2>1, <2>2, <2>3, FinderCounts DEF Counted
<1>6. CASE t \notin Expired
  <2>1. sweep[g].found = {}
    BY DEF SweepList, PresenceInv, StepsInOrder
  <2>2. \A h \in Gateways : t \in sweep'[h].found <=> t \in sweep[h].found
    BY <1>3, <1>6, <2>1
  <2>3. Finders(t)' = Finders(t)
    BY <2>2 DEF Finders
  <2>4. \A h \in Gateways : t \in sweep'[h].found => sweep'[h].step = sweep[h].step
    BY <1>3, <1>6
  <2> QED BY <1>1, <1>2, <2>2, <2>3, <2>4 DEF Counted
<1> QED BY <1>5, <1>6

\* A sweep that goes on keeps its finders, and has removed those it goes on with.
LEMMA SweepingCounts ==
  ASSUME PresenceInv, CountedInCalm, NEW g \in Gateways,
         SweepRemove(g) \/ SweepCount(g) \/ SweepUnlist(g)
  PROVE  CountedInCalm'
<1> SUFFICES ASSUME Calm', NEW t \in Sessions PROVE Counted(t)'
  BY DEF CountedInCalm
<1>1. /\ UNCHANGED <<socket, joining, removing, left>>
      /\ happened \subseteq happened'
  BY DEF SweepRemove, SweepCount, SweepUnlist, socketVars, eventVars, faultVars
<1>2. Calm /\ Counted(t)
  BY <1>1 DEF Calm, Never, CountedInCalm
<1>3. PICK there \in SweepSteps \ {"idle"} : sweep' = [sweep EXCEPT ![g].step = there]
  BY DEF SweepRemove, SweepCount, SweepUnlist, SweepMoves, SweepSteps
<1>4. /\ \A h \in Gateways : sweep'[h].found = sweep[h].found
      /\ \A h \in Gateways : h # g => sweep'[h] = sweep[h]
  BY <1>3, SweepGoesOn DEF Sweeps, PresenceInv, PresenceTypeOK
<1>5. Finders(t)' = Finders(t)
  BY <1>4, SameFinders
<1>6. member'[t] = member[t] \/ (member[t] = "expired" /\ member'[t] = "absent")
  BY DEF SweepRemove, SweepCount, SweepUnlist, Drop, Expired, redisVars
<1>7. t \in sweep[g].found => member'[t] = "absent"
  <2>1. CASE SweepRemove(g)
    <3>1. t \in sweep[g].found => member[t] # "fresh"
      <4>1. SUFFICES ASSUME t \in sweep[g].found PROVE member[t] # "fresh"  OBVIOUS
      <4>2. Finders(t) # {}
        BY <4>1 DEF Finders
      <4> QED BY <1>2, <4>2 DEF Counted, PresenceInv, PresenceTypeOK
    <3> QED BY <2>1, <3>1 DEF SweepRemove, Drop, Expired, PresenceInv, PresenceTypeOK
  <2>2. CASE SweepCount(g) \/ SweepUnlist(g)
    <3>1. sweep[g].step # "remove" /\ UNCHANGED member
      BY <2>2 DEF SweepCount, SweepUnlist, SweepMoves, redisVars
    <3> QED BY <1>2, <3>1 DEF Counted
  <2> QED BY <2>1, <2>2
<1> QED BY <1>1, <1>2, <1>4, <1>5, <1>6, <1>7 DEF Counted

\* Who reports a session as gone has it no more among those it found.
LEMMA ReportsCount ==
  ASSUME PresenceInv, CountedInCalm, NEW g \in Gateways, SweepPublish(g)
  PROVE  CountedInCalm'
<1> SUFFICES ASSUME Calm', NEW t \in Sessions PROVE Counted(t)'
  BY DEF CountedInCalm
<1>1. /\ sweep' = [sweep EXCEPT ![g] = Idle] /\ sweep[g].step = "publish"
      /\ UNCHANGED <<socket, joining, removing, member, happened>>
  BY DEF SweepPublish, socketVars, redisVars, faultVars
<1>2. Calm /\ Counted(t)
  BY <1>1 DEF Calm, Never, CountedInCalm
<1>3. /\ \A h \in Gateways : h # g => sweep'[h] = sweep[h]
      /\ sweep'[g].found = {}
  BY <1>1 DEF Idle, PresenceInv, PresenceTypeOK
<1>4. left[t] \in Nat /\ left'[t] = IF t \in sweep[g].found THEN left[t] + 1 ELSE left[t]
  BY DEF SweepPublish, PublishLeft, PresenceInv, PresenceTypeOK
<1>5. \A h \in Gateways :
        t \in sweep'[h].found => h # g /\ t \in sweep[h].found /\ sweep'[h].step = sweep[h].step
  BY <1>3
<1>6. CASE t \in sweep[g].found
  <2>1. g \in Finders(t) /\ (Finders(t))' = Finders(t) \ {g}
    BY <1>3, <1>6 DEF Finders
  <2>2. Cardinality((Finders(t))') = Cardinality(Finders(t)) - 1
    BY <2>1, FinderCounts, FS_RemoveElement
  <2>3. socket[t] = "lost" /\ member[t] = "absent"
    BY <1>1, <1>2, <1>6, <2>1 DEF Counted, PresenceInv, PresenceTypeOK
  <2>4. joining[t] # "add"
    BY <1>2, <2>1, <2>3 DEF Counted
  <2> QED BY <1>1, <1>2, <1>4, <1>5, <1>6, <2>2, <2>3, <2>4, FinderCounts DEF Counted
<1>7. CASE t \notin sweep[g].found
  <2>1. (Finders(t))' = Finders(t)
    BY <1>3, <1>7 DEF Finders
  <2> QED BY <1>1, <1>2, <1>4, <1>5, <1>7, <2>1 DEF Counted
<1> QED BY <1>6, <1>7

\* A gateway that dies without disturbing had found nobody and owed no goodbye.
LEMMA DeathsCount ==
  ASSUME PresenceInv, CountedInCalm, NEW g \in Gateways, GatewayDies(g)
  PROVE  CountedInCalm'
<1> SUFFICES ASSUME Calm', NEW t \in Sessions PROVE Counted(t)'
  BY DEF CountedInCalm
<1> DEFINE here == {s \in Sessions : Home[s] = g}
           midway == \/ sweep[g].found # {} \/ here \cap removing # {}
                     \/ \E s \in here : joining[s] = "announce"
<1>1. /\ Fault(IF midway THEN {"cutoff"} ELSE {})
      /\ removing' = removing \ here /\ sweep' = [sweep EXCEPT ![g] = Idle]
      /\ UNCHANGED <<member, left>>
      /\ socket' = [s \in Sessions |-> IF s \in here /\ socket[s] = "open" THEN "lost" ELSE socket[s]]
      /\ joining' = [s \in Sessions |-> IF s \in here /\ joining[s] # "none" THEN "done" ELSE joining[s]]
  BY DEF GatewayDies, redisVars, eventVars
<1>2. Calm /\ Counted(t) /\ ~ midway
  <2>1. happened \subseteq happened' /\ (midway => "cutoff" \in happened')
    BY <1>1 DEF Fault
  <2> QED BY <2>1 DEF Calm, Never, CountedInCalm
<1>3. /\ \A h \in Gateways : sweep'[h].found = sweep[h].found
      /\ \A h \in Gateways : t \in sweep'[h].found => sweep'[h].step = sweep[h].step
  BY <1>1, <1>2 DEF Idle, PresenceInv, PresenceTypeOK
<1>4. Finders(t)' = Finders(t)
  BY <1>3, SameFinders
<1>5. removing' = removing
  BY <1>1, <1>2
<1>6. socket'[t] = socket[t] \/ (socket[t] = "open" /\ socket'[t] = "lost")
  BY <1>1
<1>7. joining'[t] = joining[t] \/ (joining[t] # "none" /\ joining'[t] = "done")
  BY <1>1
<1> QED BY <1>1, <1>2, <1>3, <1>4, <1>5, <1>6, <1>7, FinderCounts DEF Counted

\* Every step preserves the counts.
LEMMA CountsNext ==
  PresenceInv /\ CountedInCalm /\ [PresenceNext]_presenceVars => CountedInCalm'
<1> SUFFICES ASSUME PresenceInv, CountedInCalm, [PresenceNext]_presenceVars PROVE CountedInCalm'
  OBVIOUS
<1>1. CASE UNCHANGED presenceVars
  BY <1>1 DEF presenceVars, socketVars, redisVars, eventVars, faultVars, CountedInCalm, Calm, Never,
              Counted, Finders
<1>2. CASE \E s \in Sessions : \/ RoomJoin(s) \/ JoinElsewhere(s) \/ JoinFails(s)
                               \/ AddMember(s) \/ AnnounceJoin(s)
  BY <1>2, JoinsCount
<1>3. CASE LobbySummary \/ \E s \in Sessions : ListMembers(s)
  BY <1>3, CleaningCounts
<1>4. CASE \E s \in Sessions : \/ SyncPing(s) \/ Expire(s) \/ Disconnect(s)
                               \/ RemoveMember(s) \/ RemoveFails(s)
  BY <1>4, BeatsCount
<1>5. CASE \E g \in Gateways : SweepList(g)
  BY <1>5, FindingCounts
<1>6. CASE \E g \in Gateways : SweepRemove(g) \/ SweepCount(g) \/ SweepUnlist(g)
  BY <1>6, SweepingCounts
<1>7. CASE \E g \in Gateways : SweepPublish(g)
  BY <1>7, ReportsCount
<1>8. CASE \E g \in Gateways : SweepFails(g)
  BY <1>8 DEF SweepFails, Fault, CountedInCalm, Calm, Never
<1>9. CASE \E g \in Gateways : GatewayDies(g)
  BY <1>9, DeathsCount
<1> QED
  BY <1>1, <1>2, <1>3, <1>4, <1>5, <1>6, <1>7, <1>8, <1>9 DEF PresenceNext, Joining, Sweeping

\* A departure is reported at most once by every gateway, however the goodbye, the
\* sweepers and the listings interleave, as long as sockets beat, Redis answers and
\* nobody dies in the middle.
THEOREM DeparturesOnce == PresenceSpec => []LeavesOnce
<1>1. PresenceInit => CountedInCalm
  <2> SUFFICES ASSUME PresenceInit, NEW s \in Sessions PROVE Counted(s)
    BY DEF CountedInCalm
  <2>1. Finders(s) = {}
    BY DEF PresenceInit, Idle, Finders
  <2> QED BY <2>1 DEF PresenceInit, Idle, Counted
<1>2. PresenceInv /\ CountedInCalm => LeavesOnce
  <2> SUFFICES ASSUME PresenceInv, CountedInCalm, Calm, NEW s \in Sessions
               PROVE  left[s] <= Cardinality(Gateways)
    BY DEF LeavesOnce, Calm
  <2>1. Counted(s)
    BY DEF CountedInCalm
  <2>2. left[s] \in Nat /\ socket[s] \in {"none", "open", "closed", "lost"}
    BY DEF PresenceInv, PresenceTypeOK
  <2> QED BY <2>1, <2>2, FinderCounts DEF Counted
<1> QED BY <1>1, <1>2, CountsNext, PresenceInvariant, PTL DEF PresenceSpec
===============================================================================
