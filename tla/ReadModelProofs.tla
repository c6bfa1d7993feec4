---------------------------- MODULE ReadModelProofs ----------------------------
(***************************************************************************)
(* Theorems about the read models: a room's card for any number of         *)
(* sessions, gateways, videos and faults; the directory for any number of  *)
(* rooms and any size of a page; the search in it for any words; watch     *)
(* time for any number of watchers, seconds, events and mishaps; and the   *)
(* leaderboards for any number of fans and years.                          *)
(***************************************************************************)
EXTENDS ReadModelProperties, PresenceProofs, SequenceTheorems, WellFoundedInduction

-------------------------------------------------------------------------------
(* A room's card: who arrived *)

\* Where nothing unusual happened, a session enters the set before it is announced
\* and is announced before its join is done, unless its gateway died first and the
\* room never saw it.
Arrived(s) ==
  /\ joining[s] = "none" => socket[s] = "none"
  /\ joining[s] \in {"none", "add"} => member[s] = "absent"
  /\ joining[s] = "list" => joined[s] = 1
  /\ joining[s] = "done" /\ joined[s] = 0 =>
       member[s] = "absent" /\ socket[s] = "lost" /\ left[s] = 0 /\ Finders(s) = {}

ArrivedInOrder == happened = {} => \A s \in Sessions : Arrived(s)

PresenceIs == PresenceInv /\ CountedInCalm /\ ArrivedInOrder

\* The steps of a join.
LEMMA JoinArrives ==
  ASSUME PresenceIs, NEW s \in Sessions,
         RoomJoin(s) \/ JoinElsewhere(s) \/ JoinFails(s) \/ Joining(s)
  PROVE  ArrivedInOrder'
<1> SUFFICES ASSUME happened' = {}, NEW t \in Sessions PROVE Arrived(t)'
  BY DEF ArrivedInOrder
<1>1. happened = {} /\ Arrived(t) /\ Counted(t) /\ Counted(s)
  <2>1. happened \subseteq happened'
    BY DEF RoomJoin, JoinElsewhere, JoinFails, Joining, AddMember, AnnounceJoin, ListMembers, Clean,
           Fault, faultVars
  <2> QED BY <2>1 DEF PresenceIs, ArrivedInOrder, CountedInCalm, Calm, Never
<1>2. UNCHANGED <<sweep, left, removing>> /\ Finders(t)' = Finders(t)
  BY SameFinders DEF RoomJoin, JoinElsewhere, JoinFails, Joining, AddMember, AnnounceJoin, ListMembers,
                     eventVars
<1> USE DEF PresenceIs, PresenceInv, PresenceTypeOK, Arrived
<1>3. CASE RoomJoin(s)
  <2>1. /\ socket[s] = "none" /\ joining[s] = "none" /\ UNCHANGED <<member, joined>>
        /\ joining' = [joining EXCEPT ![s] = "add"]
    BY <1>3 DEF RoomJoin, JoinMoves, redisVars, eventVars
  <2>2. \/ t = s
        \/ t # s /\ socket[t] = "open" /\ socket'[t] = "lost"
        \/ t # s /\ socket'[t] = socket[t]
    BY <1>3 DEF RoomJoin
  <2> QED BY <1>1, <1>2, <2>1, <2>2
<1>4. CASE JoinElsewhere(s)
  BY <1>1, <1>2, <1>4 DEF JoinElsewhere, redisVars, eventVars
<1>5. CASE JoinFails(s)
  BY <1>5 DEF JoinFails, Fault
<1>6. CASE AddMember(s)
  BY <1>1, <1>2, <1>6 DEF AddMember, JoinMoves, eventVars
<1>7. CASE AnnounceJoin(s)
  BY <1>1, <1>2, <1>7 DEF AnnounceJoin, JoinMoves, redisVars, StepsInOrder
<1>8. CASE ListMembers(s)
  <2>1. Expired = {}
    BY <1>8 DEF ListMembers, Clean
  <2>2. member' = member
    BY <1>8, <2>1 DEF ListMembers, Clean, Drop
  <2> QED BY <1>1, <1>2, <1>8, <2>2 DEF ListMembers, JoinMoves
<1> QED BY <1>3, <1>4, <1>5, <1>6, <1>7, <1>8 DEF Joining

\* Heartbeats, goodbyes, and time.
LEMMA BeatArrives ==
  ASSUME PresenceIs, NEW s \in Sessions,
         SyncPing(s) \/ Expire(s) \/ Disconnect(s) \/ RemoveMember(s) \/ RemoveFails(s)
  PROVE  ArrivedInOrder'
<1> SUFFICES ASSUME happened' = {}, NEW t \in Sessions PROVE Arrived(t)'
  BY DEF ArrivedInOrder
<1>1. happened = {} /\ Arrived(t) /\ Counted(t) /\ Counted(s) /\ Arrived(s)
  <2>1. happened \subseteq happened'
    BY DEF SyncPing, Expire, Disconnect, RemoveMember, RemoveFails, Fault, faultVars
  <2> QED BY <2>1 DEF PresenceIs, ArrivedInOrder, CountedInCalm, Calm, Never
<1>2. UNCHANGED <<sweep, joining, joined>> /\ Finders(t)' = Finders(t)
  BY SameFinders
  DEF SyncPing, Expire, Disconnect, RemoveMember, RemoveFails, socketVars, eventVars
<1> USE DEF PresenceIs, PresenceInv, PresenceTypeOK, Arrived
<1>3. CASE SyncPing(s)
  BY <1>1, <1>2, <1>3 DEF SyncPing, socketVars, eventVars
<1>4. CASE Expire(s)
  BY <1>1, <1>2, <1>4 DEF Expire, socketVars, eventVars
<1>5. CASE Disconnect(s)
  BY <1>1, <1>2, <1>5 DEF Disconnect, PublishLeft, redisVars
<1>6. CASE RemoveMember(s)
  BY <1>1, <1>2, <1>6 DEF RemoveMember, Drop, eventVars
<1>7. CASE RemoveFails(s)
  BY <1>7 DEF RemoveFails, Fault
<1> QED BY <1>3, <1>4, <1>5, <1>6, <1>7

\* A sweep finds members, and members were announced.
LEMMA SweepArrives ==
  ASSUME PresenceIs, NEW g \in Gateways, Sweeping(g) \/ SweepFails(g)
  PROVE  ArrivedInOrder'
<1> SUFFICES ASSUME happened' = {}, NEW t \in Sessions PROVE Arrived(t)'
  BY DEF ArrivedInOrder
<1>1. happened = {} /\ Arrived(t)
  <2>1. happened \subseteq happened'
    BY DEF Sweeping, SweepList, SweepRemove, SweepCount, SweepUnlist, SweepPublish, SweepFails, Fault,
           faultVars
  <2> QED BY <2>1 DEF PresenceIs, ArrivedInOrder
<1>2. UNCHANGED <<socket, joining, removing, joined>>
  BY DEF Sweeping, SweepList, SweepRemove, SweepCount, SweepUnlist, SweepPublish, SweepFails,
         socketVars, eventVars
<1>3. member'[t] = member[t] \/ member'[t] = "absent"
  BY DEF Sweeping, SweepList, SweepRemove, SweepCount, SweepUnlist, SweepPublish, SweepFails, Drop,
         redisVars
<1>4. member[t] = "absent" /\ left[t] = 0 /\ Finders(t) = {} =>
        member'[t] = "absent" /\ left'[t] = 0 /\ (Finders(t))' = {}
  <2> SUFFICES ASSUME member[t] = "absent", left[t] = 0, Finders(t) = {}
               PROVE  left'[t] = 0 /\ (Finders(t))' = {}
    BY <1>3
  <2>1. \A h \in Gateways : t \notin sweep[h].found
    BY DEF Finders
  <2>2. CASE SweepList(g)
    BY <2>1, <2>2 DEF SweepList, Expired, Finders, eventVars, PresenceIs, PresenceInv, PresenceTypeOK
  <2>3. CASE SweepRemove(g) \/ SweepCount(g) \/ SweepUnlist(g)
    <3>1. PICK there \in SweepSteps \ {"idle"} : sweep' = [sweep EXCEPT ![g].step = there]
      BY <2>3 DEF SweepRemove, SweepCount, SweepUnlist, SweepMoves, SweepSteps
    <3>2. \A h \in Gateways : sweep'[h].found = sweep[h].found
      BY <3>1, SweepGoesOn DEF Sweeps, PresenceIs, PresenceInv, PresenceTypeOK
    <3>3. left' = left
      BY <2>3 DEF SweepRemove, SweepCount, SweepUnlist, eventVars
    <3> QED BY <3>2, <3>3, SameFinders
  <2>4. CASE SweepPublish(g) \/ SweepFails(g)
    <3>1. \A h \in Gateways : t \notin sweep'[h].found
      BY <2>1, <2>4 DEF SweepPublish, SweepFails, Idle, PresenceIs, PresenceInv, PresenceTypeOK
    <3>2. left'[t] = left[t]
      BY <2>1, <2>4 DEF SweepPublish, SweepFails, PublishLeft, eventVars
    <3> QED BY <3>1, <3>2 DEF Finders
  <2> QED BY <2>2, <2>3, <2>4 DEF Sweeping
<1> QED BY <1>1, <1>2, <1>3, <1>4 DEF Arrived

\* Every step of presence preserves what is known of it.
LEMMA ArrivalsNext == PresenceIs /\ [PresenceNext]_presenceVars => PresenceIs'
<1> SUFFICES ASSUME PresenceIs, [PresenceNext]_presenceVars PROVE PresenceIs'  OBVIOUS
<1>1. PresenceInv' /\ CountedInCalm'
  BY PresenceNextInv, CountsNext DEF PresenceIs
<1> SUFFICES ArrivedInOrder'
  BY <1>1 DEF PresenceIs
<1>2. CASE UNCHANGED presenceVars
  BY <1>2 DEF presenceVars, socketVars, redisVars, eventVars, faultVars, PresenceIs, ArrivedInOrder,
              Arrived, Finders
<1>3. CASE \E s \in Sessions : RoomJoin(s) \/ JoinElsewhere(s) \/ JoinFails(s) \/ Joining(s)
  BY <1>3, JoinArrives
<1>4. CASE \E s \in Sessions : \/ SyncPing(s) \/ Expire(s) \/ Disconnect(s)
                               \/ RemoveMember(s) \/ RemoveFails(s)
  BY <1>4, BeatArrives
<1>5. CASE LobbySummary
  <2> SUFFICES ASSUME happened' = {}, NEW t \in Sessions PROVE Arrived(t)'
    BY DEF ArrivedInOrder
  <2>1. Expired = {} /\ happened = {}
    BY <1>5 DEF LobbySummary, Clean
  <2>2. UNCHANGED <<socket, joining, removing, joined, left, sweep, member>>
    BY <1>5, <2>1 DEF LobbySummary, Clean, Drop, socketVars, PresenceIs, PresenceInv, PresenceTypeOK
  <2>3. Arrived(t)
    BY <2>1 DEF PresenceIs, ArrivedInOrder
  <2> QED BY <2>2, <2>3 DEF Arrived, Finders
<1>6. CASE \E g \in Gateways : Sweeping(g) \/ SweepFails(g)
  BY <1>6, SweepArrives
<1>7. CASE \E g \in Gateways : GatewayDies(g)
  <2> SUFFICES ASSUME happened' = {}, NEW t \in Sessions, NEW g \in Gateways, GatewayDies(g)
               PROVE  Arrived(t)'
    BY <1>7 DEF ArrivedInOrder
  <2> DEFINE here == {s \in Sessions : Home[s] = g}
             midway == \/ sweep[g].found # {} \/ here \cap removing # {}
                       \/ \E s \in here : joining[s] = "announce"
  <2>1. /\ Fault(IF midway THEN {"cutoff"} ELSE {})
        /\ sweep' = [sweep EXCEPT ![g] = Idle]
        /\ UNCHANGED <<member, left, joined>>
        /\ socket' = [s \in Sessions |-> IF s \in here /\ socket[s] = "open" THEN "lost" ELSE socket[s]]
        /\ joining' = [s \in Sessions |-> IF s \in here /\ joining[s] # "none" THEN "done" ELSE joining[s]]
    BY DEF GatewayDies, redisVars, eventVars
  <2>2. happened = {} /\ ~ midway
    BY <2>1 DEF Fault
  <2>3. Arrived(t) /\ Counted(t)
    BY <2>2 DEF PresenceIs, ArrivedInOrder, CountedInCalm, Calm, Never
  <2>4. \A h \in Gateways : sweep'[h].found = sweep[h].found
    BY <2>1, <2>2 DEF Idle, PresenceIs, PresenceInv, PresenceTypeOK
  <2>5. Finders(t)' = Finders(t)
    BY <2>4, SameFinders
  <2>6. CASE t \notin here
    BY <2>1, <2>3, <2>5, <2>6 DEF Arrived
  <2>7. CASE t \in here
    <3>1. t \notin removing /\ joining[t] # "announce"
      BY <2>2, <2>7
    <3>2. socket[t] \in {"none", "open", "closed", "lost"} /\ joining[t] \in JoinSteps
      BY DEF PresenceIs, PresenceInv, PresenceTypeOK
    <3>3. joining[t] = "add" => socket[t] \in {"open", "lost"}
      BY <2>3, <3>1, <3>2 DEF Counted
    <3>4. joining'[t] = (IF joining[t] # "none" THEN "done" ELSE "none")
          /\ socket'[t] = (IF socket[t] = "open" THEN "lost" ELSE socket[t])
      BY <2>1, <2>7
    <3> QED BY <2>1, <2>3, <2>5, <3>1, <3>2, <3>3, <3>4 DEF Arrived, Counted, JoinSteps
  <2> QED BY <2>6, <2>7
<1> QED
  BY <1>2, <1>3, <1>4, <1>5, <1>6, <1>7 DEF PresenceNext, Joining, Sweeping

-------------------------------------------------------------------------------
(* A room's card: what it counts *)

CountedIn  == {s \in Sessions : countedIn[s] = 1}
CountedOut == {s \in Sessions : countedOut[s] = 1}
LeftOnce   == \A s \in Sessions : left[s] <= 1

\* Events are applied after they are published; and as long as nobody is reported
\* twice, the card shows those who came without those who went, or more after a
\* goodbye that hit the floor.
ViewersInv ==
  /\ viewers \in Nat /\ clamped \in BOOLEAN
  /\ countedIn \in [Sessions -> 0 .. 1] /\ countedOut \in [Sessions -> Nat]
  /\ \A s \in Sessions : countedIn[s] <= joined[s] /\ countedOut[s] <= left[s]
  /\ LeftOnce =>
       /\ viewers >= Cardinality(CountedIn) - Cardinality(CountedOut)
       /\ ~clamped => viewers = Cardinality(CountedIn) - Cardinality(CountedOut)

\* Of the videos whose event is applied the newest is on the card, unless one was
\* overtaken, and one of them is.
CardVideoInv ==
  /\ started \in Nat /\ cardVideo \in 0 .. started /\ overtaken \in BOOLEAN
  /\ unshown \subseteq 1 .. started
  /\ ~overtaken => \A k \in (1 .. started) \ unshown : k <= cardVideo
  /\ (1 .. started) \ unshown # {} => cardVideo # 0

RoomCardsInv == PresenceIs /\ ViewersInv /\ CardVideoInv

\* Sets of sessions are finite.
LEMMA SessionSets ==
  ASSUME NEW S \in SUBSET Sessions
  PROVE  /\ IsFiniteSet(S) /\ Cardinality(S) \in Nat
         /\ \A s \in Sessions \ S : Cardinality(S \cup {s}) = Cardinality(S) + 1
  BY PresenceAssumption, FS_Subset, FS_CardinalityType, FS_AddElement

\* A hello or a goodbye is applied once, and moves the count by one.
LEMMA ViewersCounted ==
  ASSUME PresenceIs, ViewersInv, NEW s \in Sessions, ApplyJoined(s) \/ ApplyLeft(s)
  PROVE  ViewersInv'
<1>1. UNCHANGED <<joined, left>>
  BY DEF ApplyJoined, ApplyLeft, presenceVars, eventVars
<1>2. joined \in [Sessions -> 0 .. 1] /\ left \in [Sessions -> Nat]
  BY DEF PresenceIs, PresenceInv, PresenceTypeOK
<1>3. /\ Cardinality(CountedIn) \in Nat /\ Cardinality(CountedOut) \in Nat
      /\ s \notin CountedIn => Cardinality(CountedIn \cup {s}) = Cardinality(CountedIn) + 1
      /\ s \notin CountedOut => Cardinality(CountedOut \cup {s}) = Cardinality(CountedOut) + 1
  <2>1. CountedIn \in SUBSET Sessions /\ CountedOut \in SUBSET Sessions
    BY DEF CountedIn, CountedOut
  <2> QED BY <2>1, SessionSets
<1>4. CASE ApplyJoined(s)
  <2>1. countedIn[s] = 0 /\ joined[s] = 1
    BY <1>2, <1>4 DEF ApplyJoined, ViewersInv
  <2>2. s \notin CountedIn /\ (CountedIn)' = CountedIn \cup {s} /\ (CountedOut)' = CountedOut
    BY <1>4, <2>1 DEF ApplyJoined, ViewersInv, CountedIn, CountedOut
  <2>3. Cardinality((CountedIn)') = Cardinality(CountedIn) + 1
    BY <1>3, <2>2
  <2>4. Cardinality((CountedOut)') = Cardinality(CountedOut)
    BY <2>2
  <2>5. viewers' = viewers + 1 /\ clamped' = clamped /\ LeftOnce' = LeftOnce
    BY <1>1, <1>4 DEF ApplyJoined, AddOne, LeftOnce
  <2>6. /\ countedIn' \in [Sessions -> 0 .. 1] /\ countedOut' = countedOut
        /\ \A t \in Sessions : countedIn'[t] <= joined[t]
    BY <1>2, <1>4, <2>1 DEF ApplyJoined, ViewersInv
  <2> QED BY <1>1, <1>3, <2>3, <2>4, <2>5, <2>6 DEF ViewersInv
<1>5. CASE ApplyLeft(s)
  <2>1. /\ countedOut[s] < left[s]
        /\ countedOut' = [countedOut EXCEPT ![s] = @ + 1] /\ countedIn' = countedIn
    BY <1>5 DEF ApplyLeft
  <2>2. LeftOnce' => LeftOnce /\ countedOut[s] = 0
    BY <1>1, <1>2, <2>1 DEF LeftOnce, ViewersInv
  <2>3. LeftOnce' => Cardinality((CountedOut)') = Cardinality(CountedOut) + 1
    <3>1. SUFFICES ASSUME LeftOnce' PROVE Cardinality((CountedOut)') = Cardinality(CountedOut) + 1
      OBVIOUS
    <3>2. s \notin CountedOut /\ (CountedOut)' = CountedOut \cup {s}
      BY <2>1, <2>2, <3>1 DEF ViewersInv, CountedOut
    <3> QED BY <1>3, <3>2
  <2>4. Cardinality((CountedIn)') = Cardinality(CountedIn)
    BY <2>1 DEF CountedIn
  <2>5. /\ viewers' = (IF viewers = 0 THEN 0 ELSE viewers - 1)
        /\ clamped' = (clamped \/ viewers = 0)
    BY <1>5 DEF ApplyLeft, SubtractOne
  <2>6. /\ countedOut' \in [Sessions -> Nat]
        /\ \A t \in Sessions : countedOut'[t] <= left[t]
    BY <1>2, <2>1 DEF ViewersInv
  <2>7. LeftOnce' =>
          /\ viewers' >= Cardinality((CountedIn)') - Cardinality((CountedOut)')
          /\ ~clamped' => viewers' = Cardinality((CountedIn)') - Cardinality((CountedOut)')
    <3>1. SUFFICES ASSUME LeftOnce'
                   PROVE  /\ viewers' >= Cardinality((CountedIn)') - Cardinality((CountedOut)')
                          /\ ~clamped' => viewers' = Cardinality((CountedIn)') - Cardinality((CountedOut)')
      OBVIOUS
    <3>2. /\ viewers >= Cardinality(CountedIn) - Cardinality(CountedOut)
          /\ ~clamped => viewers = Cardinality(CountedIn) - Cardinality(CountedOut)
      BY <2>2, <3>1 DEF ViewersInv
    <3>3. ~clamped' => ~clamped /\ viewers # 0
      BY <2>5
    <3>4. viewers \in Nat
      BY DEF ViewersInv
    <3> QED BY <1>3, <2>3, <2>4, <2>5, <3>1, <3>2, <3>3, <3>4
  <2>8. viewers' \in Nat /\ clamped' \in BOOLEAN
    BY <2>5 DEF ViewersInv
  <2> QED BY <1>1, <2>1, <2>6, <2>7, <2>8 DEF ViewersInv
<1> QED BY <1>4, <1>5

\* Presence publishes, and takes nothing back.
LEMMA ViewersKept ==
  ASSUME PresenceIs, ViewersInv, [PresenceNext]_presenceVars, UNCHANGED countVars
  PROVE  ViewersInv'
<1>1. \A s \in Sessions : joined[s] <= joined'[s] /\ left[s] <= left'[s]
  <2> USE DEF PresenceIs, PresenceInv, PresenceTypeOK
  <2>1. CASE UNCHANGED <<joined, left>>
    BY <2>1
  <2>2. CASE \E s \in Sessions : AnnounceJoin(s)
    BY <2>2 DEF AnnounceJoin
  <2>3. CASE UNCHANGED joined /\ \E S : PublishLeft(S)
    BY <2>3 DEF PublishLeft
  <2>4. CASE \E s \in Sessions : Disconnect(s)
    BY <2>3, <2>4 DEF Disconnect
  <2>5. CASE \E g \in Gateways : SweepPublish(g)
    BY <2>3, <2>5 DEF SweepPublish
  <2>6. CASE UNCHANGED presenceVars
    BY <2>1, <2>6 DEF presenceVars, eventVars
  <2>7. CASE LobbySummary \/ \E s \in Sessions :
               \/ RoomJoin(s) \/ JoinElsewhere(s) \/ AddMember(s) \/ ListMembers(s) \/ JoinFails(s)
               \/ SyncPing(s) \/ RemoveMember(s) \/ RemoveFails(s) \/ Expire(s)
    BY <2>1, <2>7 DEF LobbySummary, RoomJoin, JoinElsewhere, AddMember, ListMembers, JoinFails,
       SyncPing, RemoveMember, RemoveFails, Expire, eventVars
  <2>8. CASE \E g \in Gateways : \/ SweepList(g) \/ SweepRemove(g) \/ SweepCount(g) \/ SweepUnlist(g)
                                 \/ SweepFails(g) \/ GatewayDies(g)
    BY <2>1, <2>8 DEF SweepList, SweepRemove, SweepCount, SweepUnlist, SweepFails, GatewayDies,
       eventVars
  <2> QED
    BY <2>2, <2>4, <2>5, <2>6, <2>7, <2>8 DEF PresenceNext, Joining, Sweeping
<1>2. joined' \in [Sessions -> 0 .. 1] /\ left' \in [Sessions -> Nat]
  BY PresenceNextInv DEF PresenceIs, PresenceInv, PresenceTypeOK
<1>3. joined \in [Sessions -> 0 .. 1] /\ left \in [Sessions -> Nat]
  BY DEF PresenceIs, PresenceInv, PresenceTypeOK
<1>4. LeftOnce' => LeftOnce
  BY <1>1, <1>2, <1>3 DEF LeftOnce
<1>5. UNCHANGED <<viewers, clamped, countedIn, countedOut, CountedIn, CountedOut>>
  BY DEF countVars, CountedIn, CountedOut
<1>6. \A s \in Sessions : countedIn[s] <= joined'[s] /\ countedOut[s] <= left'[s]
  BY <1>1, <1>2, <1>3 DEF ViewersInv
<1> QED BY <1>4, <1>5, <1>6 DEF ViewersInv

\* The card's video is the last that was applied.
LEMMA CardVideoNext ==
  ASSUME CardVideoInv, ShowNext
  PROVE  CardVideoInv'
<1>1. CASE VideoStarts
  BY <1>1 DEF VideoStarts, CardVideoInv
<1>2. CASE \E k \in unshown : ApplyVideoStarted(k)
  <2>1. PICK k \in unshown : ApplyVideoStarted(k)
    BY <1>2
  <2>2. /\ started' = started /\ unshown' = unshown \ {k} /\ cardVideo' = k
        /\ k \in 1 .. started /\ unshown' \subseteq 1 .. started
    BY <2>1 DEF ApplyVideoStarted, CardVideoInv
  <2>3. ~overtaken' => ~overtaken /\ ~(k < cardVideo)
    BY <2>1 DEF ApplyVideoStarted
  <2>4. overtaken' \in BOOLEAN
    BY <2>1 DEF ApplyVideoStarted, CardVideoInv
  <2>5. ~overtaken' => \A j \in (1 .. started) \ unshown' : j <= k
    BY <2>2, <2>3 DEF CardVideoInv
  <2> QED BY <2>2, <2>4, <2>5 DEF CardVideoInv
<1> QED BY <1>1, <1>2 DEF ShowNext

\* Once everything has settled and nothing unusual happened, who is in the room
\* came and did not go, and who went came.
LEMMA SettledRoom ==
  ASSUME RoomCardsInv, CardSettled, happened = {}, LeftOnce
  PROVE  /\ Members = CountedIn \ CountedOut
         /\ CountedOut \subseteq CountedIn
<1>1. ASSUME NEW s \in Sessions
      PROVE  /\ member[s] # "absent" <=> joined[s] = 1 /\ left[s] = 0
             /\ left[s] = 1 => joined[s] = 1
  <2>1. Counted(s) /\ Arrived(s)
    BY DEF RoomCardsInv, PresenceIs, CountedInCalm, Calm, Never, ArrivedInOrder
  <2>2. /\ s \notin removing /\ Finders(s) = {} /\ ~InASweep(s)
        /\ joining[s] \in {"none", "done"}
    BY DEF CardSettled, Idle, Finders, InASweep
  <2>3. Reported
    BY DEF RoomCardsInv, PresenceIs, PresenceInv, ReportedInTime, Undisturbed, Never
  <2>4. /\ joined[s] \in 0 .. 1 /\ left[s] \in Nat
        /\ member[s] \in {"absent", "fresh", "expired"}
        /\ socket[s] \in {"none", "open", "closed", "lost"}
    BY DEF RoomCardsInv, PresenceIs, PresenceInv, PresenceTypeOK
  <2>5. left[s] \in 0 .. 1
    BY <2>4 DEF LeftOnce
  <2>6. joined[s] = 1 /\ left[s] = 0 => member[s] # "absent"
    BY <2>2, <2>3 DEF Reported
  <2>7. member[s] # "absent" => left[s] = 0
    BY <2>1, <2>2, <2>4 DEF Counted
  <2>8. member[s] # "absent" => joined[s] = 1
    BY <2>1, <2>2, <2>4 DEF Arrived
  <2>9. left[s] = 1 => joined[s] = 1
    BY <2>1, <2>2, <2>4 DEF Arrived, Counted
  <2> QED BY <2>6, <2>7, <2>8, <2>9
<1>2. countedIn = joined /\ countedOut = left
  BY DEF CardSettled
<1>3. \A s \in Sessions : left[s] \in Nat /\ left[s] <= 1
  BY DEF RoomCardsInv, PresenceIs, PresenceInv, PresenceTypeOK, LeftOnce
<1> QED BY <1>1, <1>2, <1>3 DEF Members, CountedIn, CountedOut

\* A room's card tells the viewers and the video of the room: the viewers once all
\* is applied and unless something unusual happened, the video unless an older one
\* came last.
THEOREM CardsTell == RoomCardsSpec => []CardsTellTheRoom
<1>1. RoomCardsInit => RoomCardsInv
  <2> SUFFICES ASSUME RoomCardsInit PROVE RoomCardsInv  OBVIOUS
  <2>1. PresenceInit
    BY DEF RoomCardsInit
  <2>2. PresenceInv
    BY <2>1, PresenceInitInv
  <2>3. CountedInCalm /\ ArrivedInOrder
    <3> SUFFICES ASSUME NEW s \in Sessions PROVE Counted(s) /\ Arrived(s)
      BY DEF CountedInCalm, ArrivedInOrder
    <3>1. Finders(s) = {}
      BY <2>1 DEF PresenceInit, Idle, Finders
    <3> QED BY <2>1, <3>1 DEF PresenceInit, Idle, Counted, Arrived
  <2>4. CountedIn = {} /\ CountedOut = {}
    BY DEF RoomCardsInit, CountedIn, CountedOut
  <2>5. ViewersInv
    <3>1. viewers = 0 /\ clamped = FALSE
      BY DEF RoomCardsInit
    <3>2. /\ countedIn \in [Sessions -> 0 .. 1] /\ countedOut \in [Sessions -> Nat]
          /\ \A s \in Sessions : countedIn[s] <= joined[s] /\ countedOut[s] <= left[s]
      BY <2>1 DEF RoomCardsInit, PresenceInit
    <3>3. Cardinality(CountedIn) = 0 /\ Cardinality(CountedOut) = 0
      BY <2>4, FS_EmptySet
    <3>4. clamped \in BOOLEAN /\ viewers \in Nat
      BY <3>1
    <3>5. viewers = Cardinality(CountedIn) - Cardinality(CountedOut)
      BY <3>1, <3>3
    <3>6. viewers >= Cardinality(CountedIn) - Cardinality(CountedOut)
      BY <3>1, <3>3
    <3> QED BY <3>2, <3>4, <3>5, <3>6 DEF ViewersInv
  <2>6. CardVideoInv
    <3>1. started = 0 /\ unshown = {} /\ cardVideo = 0 /\ overtaken = FALSE
      BY DEF RoomCardsInit
    <3>2. overtaken \in BOOLEAN
      BY <3>1
    <3>3. /\ started \in Nat /\ cardVideo \in 0 .. started /\ unshown \subseteq 1 .. started
          /\ (1 .. started) \ unshown = {}
      BY <3>1
    <3> QED BY <3>2, <3>3 DEF CardVideoInv
  <2> QED BY <2>2, <2>3, <2>5, <2>6 DEF RoomCardsInv, PresenceIs
<1>2. RoomCardsInv /\ [RoomCardsNext]_roomCardVars => RoomCardsInv'
  <2> SUFFICES ASSUME RoomCardsInv, [RoomCardsNext]_roomCardVars PROVE RoomCardsInv'  OBVIOUS
  <2>1. [PresenceNext]_presenceVars
    BY DEF RoomCardsNext, CountNext, ApplyJoined, ApplyLeft, roomCardVars
  <2>2. PresenceIs'
    BY <2>1, ArrivalsNext DEF RoomCardsInv
  <2>3. ViewersInv'
    <3>1. CASE UNCHANGED countVars
      BY <2>1, <3>1, ViewersKept DEF RoomCardsInv
    <3>2. CASE \E s \in Sessions : ApplyJoined(s) \/ ApplyLeft(s)
      BY <3>2, ViewersCounted DEF RoomCardsInv
    <3> QED BY <3>1, <3>2 DEF RoomCardsNext, CountNext, roomCardVars
  <2>4. CardVideoInv'
    <3>1. CASE UNCHANGED videoVars
      BY <3>1 DEF videoVars, CardVideoInv, RoomCardsInv
    <3>2. CASE ShowNext
      BY <3>2, CardVideoNext DEF RoomCardsInv
    <3> QED BY <3>1, <3>2 DEF RoomCardsNext, roomCardVars
  <2> QED BY <2>2, <2>3, <2>4 DEF RoomCardsInv
<1>3. RoomCardsInv => CardsTellTheRoom
  <2> SUFFICES ASSUME RoomCardsInv PROVE CardsTellTheRoom  OBVIOUS
  <2>1. CardCountsPresent
    <3>1. viewers \in Nat
      BY DEF RoomCardsInv, ViewersInv
    <3>2. ASSUME CardSettled, happened = {}, LeftOnce
          PROVE  Cardinality(Members) = Cardinality(CountedIn) - Cardinality(CountedOut)
      <4>1. Members = CountedIn \ CountedOut /\ CountedOut \subseteq CountedIn
        BY <3>2, SettledRoom
      <4>2. IsFiniteSet(CountedIn)
        BY SessionSets DEF CountedIn
      <4>3. CountedIn \cap CountedOut = CountedOut
        BY <4>1
      <4>4. Cardinality(CountedIn \ CountedOut) = Cardinality(CountedIn) - Cardinality(CountedOut)
        BY <4>2, <4>3, FS_Difference
      <4> QED BY <4>1, <4>4
    <3> QED BY <3>1, <3>2 DEF CardCountsPresent, RoomCardsInv, ViewersInv, LeftOnce
  <2>2. CardShowsNewest
    <3>1. CardVideoInv
      BY DEF RoomCardsInv
    <3> QED BY <3>1 DEF CardShowsNewest, CardVideoInv, SaysLive
  <2> QED BY <2>1, <2>2 DEF CardsTellTheRoom
<1> QED BY <1>1, <1>2, <1>3, PTL DEF RoomCardsSpec

-------------------------------------------------------------------------------
(* The search in the directory *)

\* What was asked for last is what the timer will search for, or where the router
\* is on its way to, or what the URL says.
SearchInv ==
  /\ q \in {""} \cup Words /\ field \in Texts
  /\ debounce \in Texts \cup {NoText} /\ going \in {"", NoText} \cup Words
  /\ wanted = IF debounce # NoText THEN Trim(debounce) ELSE IF going # NoText THEN going ELSE q
  /\ debounce = NoText /\ going = NoText => Trim(field) = q \/ stuck

\* What is trimmed is a word or nothing, and a word is trimmed already.
LEMMA Trimmed ==
  /\ \A text \in Texts : Trim(text) \in {""} \cup Words /\ text # NoText
  /\ \A text \in {""} \cup Words : Trim(text) = text /\ text \in Texts /\ text # NoText
<1> USE RoomSearchAssumption
<1>1. \A text \in {""} \cup Words : text \in Texts /\ text # NoText /\ \A w \in Words : text # Padded[w]
  BY DEF Texts, NoText
<1>2. \A text \in {""} \cup Words : Trim(text) = text
  BY <1>1 DEF Trim
<1>3. ASSUME NEW text \in Texts PROVE Trim(text) \in {""} \cup Words /\ text # NoText
  <2>1. CASE \E w \in Words : text = Padded[w]
    BY <2>1 DEF Trim
  <2>2. CASE text \in {""} \cup Words
    BY <1>1, <1>2, <2>2
  <2> QED BY <1>3, <2>1, <2>2 DEF Texts
<1> QED BY <1>1, <1>2, <1>3

\* When typing and navigating have come to rest, the directory is searched for what
\* was asked for last, and the field says so, but for the navigation that gave way.
LEMMA SearchIsRight == SearchSpec => []SearchAgrees
<1>1. SearchInit => SearchInv
  BY Trimmed DEF SearchInit, SearchInv
<1>2. SearchInv /\ [SearchNext]_searchVars => SearchInv'
  <2> SUFFICES ASSUME SearchInv, [SearchNext]_searchVars PROVE SearchInv'  OBVIOUS
  <2>1. CASE UNCHANGED searchVars
    <3>1. UNCHANGED <<q, field, debounce, going, wanted, stuck>>
      BY <2>1 DEF searchVars
    <3> QED BY <3>1 DEF SearchInv
  <2>2. CASE \E text \in Texts : OnChange(text)
    <3>1. PICK text \in Texts : OnChange(text)
      BY <2>2
    <3>2. /\ field' = text /\ debounce' = text /\ wanted' = Trim(text)
          /\ UNCHANGED <<q, going>> /\ text # NoText
      BY <3>1, Trimmed DEF OnChange
    <3> QED BY <3>2 DEF SearchInv
  <2>3. CASE \E text \in {""} \cup Words : GoElsewhere(text)
    BY <2>3, Trimmed DEF GoElsewhere, SearchInv
  <2>4. CASE DebounceEnds
    BY <2>4, Trimmed DEF DebounceEnds, SearchInv
  <2>5. CASE Arrive
    BY <2>5, Trimmed DEF Arrive, SearchInv
  <2> QED BY <2>1, <2>2, <2>3, <2>4, <2>5 DEF SearchNext
<1>3. SearchInv => SearchAgrees
  BY DEF SearchInv, SearchAgrees
<1> QED BY <1>1, <1>2, <1>3, PTL DEF SearchSpec
-------------------------------------------------------------------------------
(* The pages of the directory *)

\* c: when the rooms were created.
Newer(c, a, b) == c[a] > c[b] \/ (c[a] = c[b] /\ a > b)
Walks == [items : Seq(Rooms), count : Nat, next : [at : Int, id : Int]]

\* The pages w follow one another in the order of creation, the next one starts
\* behind the last row, and of the rooms in K none is missing before that.
Walk(c, w, K) ==
  /\ w \in Walks /\ K \subseteq DOMAIN c
  /\ \A i \in 1 .. Len(w.items) : w.items[i] \in DOMAIN c
  /\ \A i, j \in 1 .. Len(w.items) : i < j => Newer(c, w.items[i], w.items[j])
  /\ w.next # End =>
       /\ Len(w.items) > 0
       /\ w.next = [at |-> c[w.items[Len(w.items)]], id |-> w.items[Len(w.items)]]
  /\ \A r \in K :
       \/ \E i \in 1 .. Len(w.items) : w.items[i] = r
       \/ w.next # End /\ Newer(c, w.items[Len(w.items)], r)

GridInv ==
  /\ Listed \subseteq Rooms /\ IsFiniteSet(Listed) /\ \A r \in Listed : created[r] \in Stamps
  /\ Walk(created, pages, known)
  /\ fetch \in [kind : {"none", "all", "next"}, pages : Walks, known : SUBSET Rooms]
  /\ fetch.kind = "all" =>
       /\ Walk(created, fetch.pages, fetch.known)
       /\ fetch.pages = NoPages \/ fetch.pages.next # End
  /\ fetch.kind = "next" => pages.next # End

\* The order of the directory is strict, total, and the one the cursors use.
LEMMA OrderOfRooms ==
  ASSUME Listed \subseteq Rooms, \A r \in Listed : created[r] \in Stamps
  PROVE  /\ \A a \in Listed : a \in Nat /\ created[a] \in Nat /\ Key(a) # End
                              /\ Key(a) \in [at : Int, id : Int]
         /\ \A a, b \in Listed : /\ Before(Key(a), Key(b)) <=> Newer(created, a, b)
                                 /\ After(b, Key(a)) <=> Newer(created, a, b)
         /\ \A a, b \in Listed : /\ Newer(created, a, b) => ~Newer(created, b, a)
                                 /\ a = b \/ Newer(created, a, b) \/ Newer(created, b, a)
         /\ \A a, b, d \in Listed :
              Newer(created, a, b) /\ Newer(created, b, d) => Newer(created, a, d)
<1>1. \A a \in Listed : a \in Nat /\ created[a] \in Nat
  BY RoomsGridAssumption
<1>2. \A a \in Listed : Key(a).at = created[a] /\ Key(a).id = a /\ Key(a) \in [at : Int, id : Int]
  BY <1>1 DEF Key
<1>3. \A a \in Listed : Key(a) # End
  BY <1>1 DEF Key, End
<1>4. \A a, b \in Listed : Before(Key(a), Key(b)) <=> Newer(created, a, b)
  BY <1>2 DEF Before, Newer
<1>5. \A a, b \in Listed : After(b, Key(a)) <=> Newer(created, a, b)
  BY <1>3, <1>4 DEF After
<1>6. \A a, b \in Listed : /\ Newer(created, a, b) => ~Newer(created, b, a)
                           /\ a = b \/ Newer(created, a, b) \/ Newer(created, b, a)
  BY <1>1 DEF Newer
<1>7. \A a, b, d \in Listed :
        Newer(created, a, b) /\ Newer(created, b, d) => Newer(created, a, d)
  BY <1>1 DEF Newer
<1> QED BY <1>1, <1>2, <1>3, <1>4, <1>5, <1>6, <1>7

\* The first rows of some rooms: all of them, or those that come before the others.
LEMMA FirstRowsAre ==
  ASSUME Listed \subseteq Rooms, \A r \in Listed : created[r] \in Stamps,
         NEW some \in SUBSET Listed, IsFiniteSet(some), NEW n \in Nat, n <= Cardinality(some),
         NEW rows \in FirstRows(some, n)
  PROVE  /\ rows \in Seq(some) /\ Len(rows) = n
         /\ \A i \in 1 .. n : rows[i] \in some
         /\ \A i, j \in 1 .. n : i < j => Newer(created, rows[i], rows[j])
         /\ n = Cardinality(some) => \A r \in some : \E i \in 1 .. n : rows[i] = r
         /\ n > 0 => \A r \in some : (\E i \in 1 .. n : rows[i] = r) \/ Newer(created, rows[n], r)
<1>1. /\ rows \in [1 .. n -> some]
      /\ \A i, j \in 1 .. n : i < j => Before(Key(rows[i]), Key(rows[j]))
      /\ \A r \in some \ Range(rows) : \A i \in 1 .. n : Before(Key(rows[i]), Key(r))
  BY DEF FirstRows
<1>2. \A i \in 1 .. n : rows[i] \in some /\ rows[i] \in Listed
  BY <1>1
<1>3. \A a, b \in Listed : Before(Key(a), Key(b)) => Newer(created, a, b)
  BY OrderOfRooms
<1>4. \A i, j \in 1 .. n : i < j => Newer(created, rows[i], rows[j])
  BY <1>1, <1>2, <1>3
<1>5. \A r \in some : (\E i \in 1 .. n : rows[i] = r) \/ r \in some \ Range(rows)
  BY <1>1 DEF Range
<1>6. n > 0 => \A r \in some : (\E i \in 1 .. n : rows[i] = r) \/ Newer(created, rows[n], r)
  <2> SUFFICES ASSUME n > 0, NEW r \in some \ Range(rows) PROVE Newer(created, rows[n], r)
    BY <1>5
  <2>1. n \in 1 .. n
    OBVIOUS
  <2> QED BY <1>1, <1>2, <1>3, <2>1
<1>7. n = Cardinality(some) => \A r \in some : \E i \in 1 .. n : rows[i] = r
  <2> SUFFICES ASSUME n = Cardinality(some) PROVE \A r \in some : \E i \in 1 .. n : rows[i] = r
    OBVIOUS
  <2>1. \A i, j \in 1 .. n : rows[i] = rows[j] => i = j
    <3> SUFFICES ASSUME NEW i \in 1 .. n, NEW j \in 1 .. n, i < j PROVE rows[i] # rows[j]
      OBVIOUS
    <3>1. Newer(created, rows[i], rows[j]) /\ rows[i] \in Listed /\ rows[j] \in Listed
      BY <1>2, <1>4
    <3> QED BY <3>1, OrderOfRooms
  <2>2. rows \in Injection(1 .. n, some)
    BY <1>1, <2>1 DEF Injection, IsInjective
  <2>3. IsFiniteSet(1 .. n) /\ Cardinality(1 .. n) = n
    BY FS_Interval
  <2>4. rows \in Surjection(1 .. n, some)
    BY <2>2, <2>3, FS_Injection
  <2> QED BY <2>4 DEF Surjection
<1>8. rows \in Seq(some) /\ Len(rows) = n
  <2>1. rows \in Seq(some)
    BY <1>1, SeqDef
  <2>2. DOMAIN rows = 1 .. n
    BY <1>1
  <2> QED BY <2>1, <2>2, LenProperties
<1> QED BY <1>2, <1>4, <1>6, <1>7, <1>8

\* A page more: the pages still follow one another, and leave nobody out.
LEMMA WalkGoesOn ==
  ASSUME Listed \subseteq Rooms, IsFiniteSet(Listed), \A r \in Listed : created[r] \in Stamps,
         NEW w, NEW K, Walk(created, w, K),
         NEW K2, (K2 = K /\ w.next # End) \/ (K2 = Listed /\ w = NoPages),
         NEW read \in NextPage(w)
  PROVE  Walk(created, read, K2)
<1> DEFINE some == {r \in Listed : After(r, w.next)}
           more == Cardinality(some) > Limit
           n    == IF more THEN Limit ELSE Cardinality(some)
<1>1. PICK rows \in FirstRows(some, n) :
        read = [items |-> w.items \o rows, count |-> w.count + 1,
                next |-> IF more THEN Key(rows[n]) ELSE End]
  BY DEF NextPage
<1>2. PICK S \in SUBSET Listed : S = some
  OBVIOUS
<1>3. IsFiniteSet(S) /\ Cardinality(S) \in Nat
  BY FS_Subset, FS_CardinalityType
<1>4. Limit \in Nat /\ Limit > 0
  BY RoomsGridAssumption
<1>5. PICK N \in Nat : /\ N = n /\ N <= Cardinality(S)
                       /\ more => N = Limit /\ N > 0
                       /\ ~more => N = Cardinality(S)
  BY <1>2, <1>3, <1>4
<1>6. /\ rows \in Seq(S) /\ Len(rows) = N
      /\ \A i \in 1 .. N : rows[i] \in S
      /\ \A i, j \in 1 .. N : i < j => Newer(created, rows[i], rows[j])
      /\ N = Cardinality(S) => \A r \in S : \E i \in 1 .. N : rows[i] = r
      /\ N > 0 => \A r \in S : (\E i \in 1 .. N : rows[i] = r) \/ Newer(created, rows[N], r)
  <2>1. rows \in FirstRows(S, N)
    BY ONLY <1>1, <1>2, <1>5
  <2> HIDE DEF some, more, n
  <2> QED BY <1>2, <1>3, <1>5, <2>1, FirstRowsAre
<1>7. PICK next \in [at : Int, id : Int] :
        /\ next = IF more THEN Key(rows[n]) ELSE End
        /\ more => next # End
        /\ next # End => more /\ next = Key(rows[N]) /\ N > 0
  <2>1. more => Key(rows[n]) \in [at : Int, id : Int] /\ Key(rows[n]) # End
    <3>1. more => N \in 1 .. N /\ rows[N] \in Listed
      BY <1>5, <1>6
    <3> QED BY <1>5, <3>1, OrderOfRooms
  <2>2. End \in [at : Int, id : Int]
    BY DEF End
  <2> QED BY <1>5, <2>1, <2>2
<1> HIDE DEF some, more, n
<1>8. /\ w \in Walks /\ w.items \in Seq(Rooms) /\ w.count \in Nat
      /\ \A i \in 1 .. Len(w.items) : w.items[i] \in Listed
      /\ \A i, j \in 1 .. Len(w.items) : i < j => Newer(created, w.items[i], w.items[j])
      /\ w.next # End =>
           /\ Len(w.items) > 0
           /\ w.next = [at |-> created[w.items[Len(w.items)]], id |-> w.items[Len(w.items)]]
      /\ \A r \in K :
           \/ \E i \in 1 .. Len(w.items) : w.items[i] = r
           \/ w.next # End /\ Newer(created, w.items[Len(w.items)], r)
      /\ K \subseteq Listed
  BY DEF Walk, Walks, Listed
<1>9. PICK old \in Seq(Rooms) : old = w.items
  BY <1>8
<1>10. PICK L \in Nat : L = Len(old)
  BY LenProperties
<1>11. rows \in Seq(Rooms)
  <2>1. S \subseteq Rooms
    OBVIOUS
  <2> QED BY <1>6, <2>1, SeqMonotonic
<1>12. PICK all \in Seq(Rooms) :
         /\ all = old \o rows /\ Len(all) = L + N
         /\ \A i \in 1 .. L : all[i] = old[i]
         /\ \A i \in 1 .. N : all[L + i] = rows[i]
         /\ \A i \in 1 .. L + N : i > L => all[i] = rows[i - L] /\ i - L \in 1 .. N
  <2>1. PICK all \in Seq(Rooms) : all = old \o rows
    BY <1>9, <1>11, ConcatProperties, Zenon
  <2>2. /\ Len(all) = L + N
        /\ \A i \in 1 .. L + N : all[i] = IF i <= L THEN old[i] ELSE rows[i - L]
    <3>1. Len(rows) = N /\ Len(old) = L
      BY <1>6, <1>10
    <3> QED BY ONLY old \in Seq(Rooms), rows \in Seq(Rooms), <1>11, <2>1, <3>1, ConcatProperties
  <2>3. \A i \in 1 .. N : L + i \in 1 .. L + N /\ ~(L + i <= L) /\ (L + i) - L = i
    OBVIOUS
  <2>4. \A i \in 1 .. N : all[L + i] = rows[i]
    BY <2>2, <2>3
  <2>5. \A i \in 1 .. L : all[i] = old[i]
    BY <2>2
  <2>6. \A i \in 1 .. L + N : i > L => all[i] = rows[i - L] /\ i - L \in 1 .. N
    BY <2>2
  <2> QED BY <2>1, <2>2, <2>4, <2>5, <2>6
<1>13. read = [items |-> all, count |-> w.count + 1, next |-> next]
  BY <1>1, <1>7, <1>9, <1>12
<1>14. read \in Walks /\ read.items = all /\ read.next = next
  BY <1>8, <1>13 DEF Walks
\* Behind the last row, or from the start.
<1>15. \/ /\ w.next # End /\ L > 0 /\ K2 = K
          /\ \A r \in Listed : r \in S <=> Newer(created, old[L], r)
       \/ L = 0 /\ K2 = Listed /\ S = Listed
  <2>1. CASE K2 = K /\ w.next # End
    <3>1. L > 0 /\ old[L] \in Listed /\ w.next = Key(old[L])
      BY <1>8, <1>9, <1>10, <2>1 DEF Key
    <3>2. \A r \in Listed : After(r, w.next) <=> Newer(created, old[L], r)
      BY <3>1, OrderOfRooms
    <3> QED BY <1>2, <2>1, <3>1, <3>2 DEF some
  <2>2. CASE K2 = Listed /\ w = NoPages
    <3>1. w.next = End /\ w.items = <<>>
      BY <2>2 DEF NoPages
    <3>2. L = 0
      BY <1>9, <1>10, <3>1
    <3>3. \A r \in Listed : After(r, w.next)
      BY <3>1 DEF After
    <3> QED BY <1>2, <2>2, <3>2, <3>3 DEF some
  <2> QED BY <2>1, <2>2
<1>16. /\ \A i \in 1 .. L : old[i] \in Listed
       /\ \A i, j \in 1 .. L : i < j => Newer(created, old[i], old[j])
       /\ \A i \in 1 .. N : rows[i] \in Listed
  BY <1>6, <1>8, <1>9, <1>10
<1>17. \A i \in 1 .. L, j \in 1 .. N : Newer(created, old[i], rows[j])
  <2> SUFFICES ASSUME NEW i \in 1 .. L, NEW j \in 1 .. N PROVE Newer(created, old[i], rows[j])
    OBVIOUS
  <2>1. Newer(created, old[L], rows[j]) /\ L \in 1 .. L
    BY <1>6, <1>15, <1>16
  <2>2. i = L \/ Newer(created, old[i], old[L])
    BY <1>16, <2>1
  <2> QED BY <1>16, <2>1, <2>2, OrderOfRooms
<1>18. \A i \in 1 .. L + N : all[i] \in Listed
  <2> SUFFICES ASSUME NEW i \in 1 .. L + N PROVE all[i] \in Listed  OBVIOUS
  <2>1. CASE i <= L
    BY <1>12, <1>16, <2>1
  <2>2. CASE i > L
    BY <1>12, <1>16, <2>2
  <2> QED BY <2>1, <2>2
<1>19. \A i, j \in 1 .. L + N : i < j => Newer(created, all[i], all[j])
  <2> SUFFICES ASSUME NEW i \in 1 .. L + N, NEW j \in 1 .. L + N, i < j
               PROVE  Newer(created, all[i], all[j])
    OBVIOUS
  <2>1. CASE j <= L
    BY <1>12, <1>16, <2>1
  <2>2. CASE i <= L /\ j > L
    <3>1. i \in 1 .. L /\ all[i] = old[i] /\ all[j] = rows[j - L] /\ j - L \in 1 .. N
      BY <1>12, <2>2
    <3> QED BY <1>17, <3>1
  <2>3. CASE i > L
    <3>1. all[i] = rows[i - L] /\ i - L \in 1 .. N
      BY <1>12, <2>3
    <3>2. j > L /\ i - L < j - L
      BY <2>3
    <3>3. all[j] = rows[j - L] /\ j - L \in 1 .. N
      BY <1>12, <3>2
    <3> QED BY <1>6, <3>1, <3>2, <3>3
  <2> QED BY <2>1, <2>2, <2>3
<1>20. next # End =>
         /\ L + N > 0
         /\ next = [at |-> created[all[L + N]], id |-> all[L + N]]
  <2> SUFFICES ASSUME next # End
               PROVE  L + N > 0 /\ next = [at |-> created[all[L + N]], id |-> all[L + N]]
    OBVIOUS
  <2>1. next = Key(rows[N]) /\ N > 0 /\ N \in 1 .. N
    BY <1>7
  <2>2. all[L + N] = rows[N]
    BY <1>12, <2>1
  <2> QED BY <2>1, <2>2 DEF Key
<1>21. \A r \in K2 :
         \/ \E i \in 1 .. L + N : all[i] = r
         \/ next # End /\ Newer(created, all[L + N], r)
  <2> SUFFICES ASSUME NEW r \in K2, \A i \in 1 .. L + N : all[i] # r
               PROVE  next # End /\ Newer(created, all[L + N], r)
    OBVIOUS
  <2>1. r \in Listed
    BY <1>8, <1>15
  <2>2. \A i \in 1 .. L : old[i] # r
    <3> SUFFICES ASSUME NEW i \in 1 .. L PROVE old[i] # r  OBVIOUS
    <3>1. i \in 1 .. L + N /\ all[i] = old[i]
      BY <1>12
    <3> QED BY <3>1
  <2>3. \A i \in 1 .. N : rows[i] # r
    <3> SUFFICES ASSUME NEW i \in 1 .. N PROVE rows[i] # r  OBVIOUS
    <3>1. L + i \in 1 .. L + N /\ all[L + i] = rows[i]
      BY <1>12
    <3> QED BY <3>1
  <2>4. r \in S
    BY <1>8, <1>9, <1>10, <1>15, <2>1, <2>2
  <2>5. more /\ N > 0
    BY <1>5, <1>6, <2>3, <2>4
  <2>6. Newer(created, rows[N], r) /\ N \in 1 .. N
    BY <1>6, <2>3, <2>4, <2>5
  <2>7. all[L + N] = rows[N]
    BY <1>12, <2>6
  <2> QED BY <1>7, <2>5, <2>6, <2>7
<1>22. K2 \subseteq Listed
  BY <1>8, <1>15
<1> QED BY <1>12, <1>14, <1>18, <1>19, <1>20, <1>21, <1>22 DEF Walk, Listed

\* Rooms that are created later change neither the order nor the cursors.
LEMMA WalkStays ==
  ASSUME NEW c, NEW d, NEW w, NEW K, Walk(c, w, K),
         DOMAIN c \subseteq DOMAIN d, \A r \in DOMAIN c : d[r] = c[r]
  PROVE  Walk(d, w, K)
<1>1. \A i \in 1 .. Len(w.items) : w.items[i] \in DOMAIN c /\ d[w.items[i]] = c[w.items[i]]
  BY DEF Walk
<1>2. w.next # End => Len(w.items) \in 1 .. Len(w.items)
  <2>1. Len(w.items) \in Nat
    BY DEF Walk, Walks
  <2> QED BY <2>1 DEF Walk
<1> QED BY <1>1, <1>2 DEF Walk, Newer

\* No page was read.
LEMMA NoWalk == \A c : Walk(c, NoPages, {})
<1>1. End \in [at : Int, id : Int]
  BY DEF End
<1>2. NoPages \in Walks /\ NoPages.items = <<>> /\ NoPages.next = End /\ Len(<<>>) = 0
  BY <1>1 DEF NoPages, Walks
<1> QED BY <1>2 DEF Walk

\* Every step of the grid and of the service preserves the invariant.
LEMMA GridNextInv == GridInv /\ [GridNext]_gridVars => GridInv'
<1> SUFFICES ASSUME GridInv, [GridNext]_gridVars PROVE GridInv'  OBVIOUS
<1> DEFINE Fetches == [kind : {"none", "all", "next"}, pages : Walks, known : SUBSET Rooms]
<1>1. NoFetch \in Fetches /\ NoFetch.kind = "none" /\ NoFetch.pages = NoPages
      /\ \A k \in {"none", "all", "next"} :
           /\ [NoFetch EXCEPT !.kind = k] = [kind |-> k, pages |-> NoPages, known |-> {}]
           /\ [kind |-> k, pages |-> NoPages, known |-> {}] \in Fetches
  <2>1. NoPages \in Walks
    BY NoWalk DEF Walk
  <2> QED BY <2>1 DEF NoFetch
<1>2. CASE UNCHANGED gridVars
  BY <1>2 DEF gridVars, GridInv, Listed
<1>3. CASE \E r \in Rooms : CreateRoom(r)
  <2>1. PICK r \in Rooms, t \in Stamps :
          /\ r \notin Listed
          /\ created' = [p \in Listed \cup {r} |-> IF p = r THEN t ELSE created[p]]
          /\ UNCHANGED <<pages, fetch, failed, known>>
    BY <1>3 DEF CreateRoom
  <2>2. DOMAIN created' = Listed \cup {r} /\ \A p \in Listed : created'[p] = created[p]
    BY <2>1
  <2>3. \A w, K : Walk(created, w, K) => Walk(created', w, K)
    BY <2>2, WalkStays DEF Listed
  <2>4. /\ DOMAIN created' \subseteq Rooms /\ IsFiniteSet(DOMAIN created')
        /\ \A p \in DOMAIN created' : created'[p] \in Stamps
    BY <2>1, <2>2, FS_AddElement DEF GridInv
  <2> QED BY <2>1, <2>3, <2>4 DEF GridInv, Listed
<1>4. CASE Refetch
  <2>1. fetch' = [kind |-> "all", pages |-> NoPages, known |-> {}]
        /\ UNCHANGED <<created, pages, failed, known>>
    BY <1>1, <1>4 DEF Refetch
  <2>2. /\ fetch' \in Fetches /\ fetch'.kind = "all"
        /\ fetch'.pages = NoPages /\ fetch'.known = {}
    BY <1>1, <2>1
  <2> QED BY <2>1, <2>2, NoWalk DEF GridInv, Listed
<1>5. CASE ReadPage
  <2>0. PICK seen : seen = IF fetch.pages = NoPages THEN Listed ELSE fetch.known
    OBVIOUS
  <2>1. PICK read \in NextPage(fetch.pages) :
             \/ /\ read.next # End
                /\ fetch' = [fetch EXCEPT !.pages = read, !.known = seen]
                /\ UNCHANGED <<pages, known>>
             \/ pages' = read /\ known' = seen /\ fetch' = NoFetch
    BY <1>5, <2>0 DEF ReadPage
  <2>2. fetch.kind = "all" /\ created' = created
    BY <1>5 DEF ReadPage
  <2>3. PICK w, K : w = fetch.pages /\ K = fetch.known
    OBVIOUS
  <2>4. Walk(created, w, K) /\ (w = NoPages \/ w.next # End)
    BY <2>2, <2>3 DEF GridInv
  <2>5. (seen = K /\ w.next # End) \/ (seen = Listed /\ w = NoPages)
    <3>1. CASE w = NoPages
      BY <2>0, <2>3, <3>1
    <3>2. CASE w # NoPages
      BY <2>0, <2>3, <2>4, <3>2
    <3> QED BY <3>1, <3>2
  <2>6. Listed \subseteq Rooms /\ IsFiniteSet(Listed) /\ \A r \in Listed : created[r] \in Stamps
    BY DEF GridInv
  <2>7. Walk(created, read, seen)
    BY <2>1, <2>3, <2>4, <2>5, <2>6, WalkGoesOn
  <2>8. read \in Walks /\ seen \in SUBSET Rooms
    BY <2>6, <2>7 DEF Walk, Listed
  <2>9. CASE /\ read.next # End
             /\ fetch' = [fetch EXCEPT !.pages = read, !.known = seen]
             /\ UNCHANGED <<pages, known>>
    <3>1. fetch \in Fetches
      BY DEF GridInv
    <3>2. /\ fetch' \in Fetches /\ fetch'.kind = "all"
          /\ fetch'.pages = read /\ fetch'.known = seen
      BY <2>2, <2>8, <2>9, <3>1
    <3> QED BY <2>2, <2>7, <2>9, <3>2 DEF GridInv, Listed
  <2>10. CASE pages' = read /\ known' = seen /\ fetch' = NoFetch
    BY <1>1, <2>2, <2>7, <2>10 DEF GridInv, Listed
  <2> QED BY <2>1, <2>9, <2>10
<1>6. CASE FetchNextPage
  <2>1. fetch' = [kind |-> "next", pages |-> NoPages, known |-> {}] /\ pages.next # End
        /\ UNCHANGED <<created, pages, failed, known>>
    BY <1>1, <1>6 DEF FetchNextPage
  <2>2. fetch' \in Fetches /\ fetch'.kind = "next"
    BY <1>1, <2>1
  <2> QED BY <2>1, <2>2 DEF GridInv, Listed
<1>7. CASE ReadNextPage
  <2>1. fetch.kind = "next" /\ fetch' = NoFetch /\ UNCHANGED <<created, known>>
    BY <1>7 DEF ReadNextPage
  <2>2. PICK read \in NextPage(pages) : pages' = read
    BY <1>7 DEF ReadNextPage
  <2>3. Walk(created, read, known)
    <3>1. PICK w, K : w = pages /\ K = known
      OBVIOUS
    <3>2. Walk(created, w, K) /\ w.next # End /\ read \in NextPage(w)
      BY <2>1, <2>2, <3>1 DEF GridInv
    <3>3. Listed \subseteq Rooms /\ IsFiniteSet(Listed) /\ \A r \in Listed : created[r] \in Stamps
      BY DEF GridInv
    <3>4. Walk(created, read, K)
      BY <3>2, <3>3, WalkGoesOn
    <3> QED BY <3>1, <3>4
  <2> QED BY <1>1, <2>1, <2>2, <2>3 DEF GridInv, Listed
<1>8. CASE FetchFails
  BY <1>1, <1>8 DEF FetchFails, GridInv, Listed
<1> QED BY <1>2, <1>3, <1>4, <1>5, <1>6, <1>7, <1>8 DEF GridNext

\* What the invariant says of the grid.
LEMMA PagesFollow == GridInv => PagesAreWhole
<1> SUFFICES ASSUME GridInv PROVE PagesAreWhole  OBVIOUS
<1>1. Listed \subseteq Rooms /\ \A r \in Listed : created[r] \in Stamps
  BY DEF GridInv
<1>2. PICK s, next : s = pages.items /\ next = pages.next
  OBVIOUS
<1>3. /\ s \in Seq(Rooms) /\ DOMAIN s = 1 .. Len(s) /\ Len(s) \in Nat /\ known \subseteq Listed
      /\ \A i \in 1 .. Len(s) : s[i] \in Listed
      /\ \A i, j \in 1 .. Len(s) : i < j => Newer(created, s[i], s[j])
      /\ next # End => Len(s) > 0 /\ next = Key(s[Len(s)])
      /\ \A r \in known : \/ \E i \in 1 .. Len(s) : s[i] = r
                          \/ next # End /\ Newer(created, s[Len(s)], r)
  BY <1>2 DEF GridInv, Walk, Walks, Key, Listed
<1>4. \A i, j \in DOMAIN Cards : i < j => Before(Key(Cards[i]), Key(Cards[j]))
  BY <1>1, <1>2, <1>3, OrderOfRooms DEF Cards
<1>5. ASSUME NEW r \in known, pages.next = End \/ ~After(r, pages.next)
      PROVE  r \in Range(Cards)
  <2>1. next # End => (After(r, next) <=> Newer(created, s[Len(s)], r))
    BY <1>1, <1>3, OrderOfRooms
  <2>2. \E i \in 1 .. Len(s) : s[i] = r
    BY <1>2, <1>3, <1>5, <2>1
  <2> QED BY <1>2, <1>3, <2>2 DEF Range, Cards
<1>6. ASSUME Screen = "be the one who opens the first channel" PROVE known = {}
  <2>1. Cards = <<>>
    BY <1>6 DEF Screen
  <2>2. Len(s) = 0
    BY <1>2, <2>1 DEF Cards
  <2> QED BY <1>3, <2>2
<1> QED BY <1>4, <1>5, <1>6 DEF PagesAreWhole

\* However rooms are created while the pages are read, no room is shown twice or
\* out of order, and none is left out that existed when the first page was read;
\* and at rest the directory is searched for what was asked for last.
THEOREM GridWhole == GridSpec /\ SearchSpec => []GridIsWhole
<1>1. GridInit => GridInv
  <2> SUFFICES ASSUME GridInit PROVE GridInv  OBVIOUS
  <2>1. created = [r \in {} |-> 0] /\ pages = NoPages /\ known = {}
        /\ fetch = [kind |-> "all", pages |-> NoPages, known |-> {}]
    BY DEF GridInit, NoFetch
  <2>2. NoPages \in Walks
    BY NoWalk DEF Walk
  <2>3. /\ fetch \in [kind : {"none", "all", "next"}, pages : Walks, known : SUBSET Rooms]
        /\ fetch.pages = NoPages /\ fetch.known = {} /\ fetch.kind = "all"
    BY <2>1, <2>2
  <2> QED BY <2>1, <2>3, NoWalk, FS_EmptySet DEF GridInv, Listed
<1>2. PagesAreWhole /\ SearchAgrees => GridIsWhole
  BY DEF GridIsWhole
<1> QED BY <1>1, <1>2, GridNextInv, PagesFollow, SearchIsRight, PTL DEF GridSpec

-------------------------------------------------------------------------------
(* Watch time: what holds of the sockets, the events, the runs and the rows *)

\* What is published, and the steps of a handler.
Kinds == {"joined", "left", "checkpoint", "started", "skipped"}
Steps == {"queued", "gate", "find", "write", "tail", "totals", "score"}

\* Socket data, events, rows and runs.
Clients == [at : {"away", "here", "gone"}, joined : Ticks, since : Ticks, gone : Ticks]
Events == [kind : Kinds, of : Watchers \cup {Nobody}, at : Ticks, pay : [Watchers -> Ticks],
           span : [Watchers -> Ticks]]
Rows == [seen : BOOLEAN, ended : BOOLEAN, marker : Ticks]
Runs == [step : Steps, entry : Watchers \cup {Nobody}, todo : SUBSET Watchers, read : Rows,
         worth : Ticks, wrote : BOOLEAN]

\* The types the proofs use.
WatchTyped ==
  /\ tick \in Ticks
  /\ client \in [Watchers -> [at : {"away", "here", "gone"},
                              joined : Ticks, since : Ticks, gone : Ticks]]
  /\ sent \in Nat /\ DOMAIN event \subseteq 1 .. sent /\ DOMAIN run = DOMAIN event
  /\ \A e \in DOMAIN event :
       event[e] \in Events /\ run[e] \in Runs
  /\ row \in [Watchers -> Rows]
  /\ total \in [Watchers -> Nat] /\ score \in [Watchers -> Nat] /\ dropped \in [Watchers -> Nat]

\* A session is paid up to its mark: the marker of its row, or the second it joined
\* while nobody has heard of it.
Mark(s) == IF row[s].seen THEN row[s].marker ELSE client[s].joined
\* An event has an entry that pays a session the seconds from .. at.
Pays(e, s) == event[e].kind = "checkpoint" /\ event[e].pay[s] > 0
From(e, s) == event[e].at - event[e].span[s]

\* A socket is reported in order: joined, last checkpoint, gone.
ClientOK(s) == LET c == client[s] IN
  /\ c.joined <= c.since /\ c.since <= tick
  /\ c.at = "gone" => c.since <= c.gone /\ c.gone <= tick
  /\ c.at = "away" => c.joined = 0 /\ c.since = 0 /\ ~row[s].seen

\* The marker lies between the join and the last checkpoint, and only a session
\* that was seen can have ended.
RowOK(s) ==
  /\ row[s].seen => client[s].joined <= row[s].marker /\ row[s].marker <= client[s].since
  /\ ~row[s].seen => ~row[s].ended

\* A join or a leave names a session, at a second of its stay.
EventOK(e) ==
  LET v == event[e]  c == client[v.of] IN
  /\ v.at <= tick
  /\ v.kind \in {"joined", "left"} => v.of \in Watchers /\ c.at # "away"
  /\ v.kind = "joined" => v.at = c.joined
  /\ v.kind = "left" => c.joined <= v.at /\ (c.at = "gone" => v.at <= c.gone)
  /\ v.kind = "left" /\ mishap = {} => c.at = "gone" /\ v.at = c.gone

\* An entry lies within the stay, and on one side of the mark: a checkpoint is
\* handled as a whole.
EntryOK(e, s) ==
  /\ event[e].pay[s] = Whole(event[e].span[s])
  /\ Pays(e, s) => /\ client[s].at # "away"
                   /\ client[s].joined <= From(e, s) /\ event[e].at <= client[s].since
                   /\ From(e, s) >= Mark(s) \/ event[e].at <= Mark(s)

\* No second is in two entries of a session.
Disjoint(e, f, s) ==
  e # f /\ Pays(e, s) /\ Pays(f, s) => event[e].at <= From(f, s) \/ event[f].at <= From(e, s)

\* What a handler holds in its hands at each step, and what it has written.
RunOK(e) ==
  LET v == event[e]  r == run[e] IN
  /\ r.step = "queued" => r = Queued
  /\ r.step # "queued" => v.kind \in {"checkpoint", "left"}
  /\ r.step # "queued" /\ v.kind = "checkpoint" =>
       /\ r.step # "tail" /\ Pays(e, r.entry) /\ r.entry \notin r.todo /\ r.entry \in Watchers
       /\ r.todo \subseteq {s \in Watchers : Pays(e, s)}
       /\ r.step \in {"find", "write"} => r.worth \in {0, v.pay[r.entry]}
       /\ r.step = "write" => ~r.read.ended
  /\ r.step # "queued" /\ v.kind = "left" =>
       /\ r.step # "gate" /\ r.entry = v.of /\ r.todo = {}
       /\ r.step = "write" => r.read.seen /\ ~r.read.ended /\ row[v.of].seen
       /\ r.step \in {"tail", "totals", "score"} => row[v.of].ended
  /\ r.step \in {"tail", "totals", "score"} => r.wrote

\* The shape of the ledger, whatever goes wrong.
LedgerShape ==
  /\ \A s \in Watchers : ClientOK(s) /\ RowOK(s)
  /\ \A e \in DOMAIN event : EventOK(e) /\ RunOK(e)
  /\ \A e \in DOMAIN event, s \in Watchers : EntryOK(e, s)
  /\ \A e, f \in DOMAIN event, s \in Watchers : Disjoint(e, f, s)

\* The seconds that runs at some steps hold for a session, counted one by one.
Sum(r, s, steps) ==
  Cardinality({x \in (DOMAIN r) \X (1 .. MaxTicks) :
                 r[x[1]].step \in steps /\ r[x[1]].entry = s /\ x[2] <= r[x[1]].worth})

\* What a session got: its total, and the awards that are on their way to it.
Waiting == {"tail", "totals"}
Got(s) == total[s] + Sum(run, s, Waiting)

\* The run of a checkpoint has yet to credit a session.
Pending(e, s) == s \in run[e].todo \/ (s = run[e].entry /\ run[e].step \in {"gate", "find", "write"})
\* An entry that is yet to be credited, or may be again.
Undone(e, s) == Pays(e, s) /\ (~run[e].wrote \/ Pending(e, s))
\* An entry that is yet to be credited.
Remaining(e, s) == Pays(e, s) /\ (run[e].step = "queued" \/ Pending(e, s))

\* What a session got is at most what its mark says, and a checkpoint at the mark
\* that is yet to be credited is part of it.
PaidAtMost(s) ==
  /\ ~row[s].seen => Got(s) = 0
  /\ ~row[s].ended => Got(s) <= Mark(s) - client[s].joined
  /\ ~row[s].ended => \A e \in DOMAIN event :
       Undone(e, s) /\ event[e].at = Mark(s) =>
         Got(s) + event[e].pay[s] <= Mark(s) - client[s].joined
  /\ row[s].ended => Got(s) <= Present(s)

\* The upper bound, unless a handler is repeated or writes over what it did not read.
Bounded == Without({"retry", "stale", "backwards"}) => \A s \in Watchers : PaidAtMost(s)

\* A room that plays all the while: every entry is worth what it says.
Lasting == \A e \in DOMAIN event :
  /\ event[e].kind \notin {"started", "skipped"}
  /\ event[e].kind = "checkpoint" /\ run[e].step \in {"find", "write"} =>
       run[e].worth = event[e].pay[run[e].entry]

\* By the book: a session ends after its socket left; whoever left has ended or
\* has a left event; the seconds between the mark and the last checkpoint are in
\* entries that remain; none of these ends at the mark; and unless one is earlier
\* than the mark, the session got what its mark says.
PaidExactly(s) ==
  /\ row[s].ended => client[s].at = "gone"
  /\ client[s].at = "gone" =>
       row[s].ended \/ \E e \in DOMAIN event : event[e].kind = "left" /\ event[e].of = s
  /\ ~row[s].ended => \A x \in Ticks : Mark(s) <= x /\ x < client[s].since =>
       \E e \in DOMAIN event : Remaining(e, s) /\ From(e, s) <= x /\ x < event[e].at
  /\ \A e \in DOMAIN event : Undone(e, s) => event[e].at # Mark(s)
  /\ (\A e \in DOMAIN event : Remaining(e, s) => event[e].at > Mark(s)) =>
       Got(s) + dropped[s] = (IF row[s].ended THEN client[s].gone ELSE Mark(s)) - client[s].joined

\* The leaderboard, and what is on its way from the totals to it.
Scoring == {"score"}
\* What the leaderboard shows and is owed is in the total, and no less unless a handler is repeated.
OnBoard(s) ==
  /\ score[s] + Sum(run, s, Scoring) <= total[s]
  /\ Without({"retry"}) => score[s] + Sum(run, s, Scoring) = total[s]

\* Everything went by the book, and the room played.
Regular == mishap = {} /\ playing

\* The room neither started nor stopped, and engagement knows: what happens to the
\* player and its queue is a mishap.
Unbroken == mishap = {} =>
  playing = onAir /\ \A e \in DOMAIN event : event[e].kind \notin {"started", "skipped"}

\* Where everything went by the book, what is paid is what was watched up to the mark.
PaidToTheSecond == Unbroken /\ (Regular => Lasting /\ \A s \in Watchers : PaidExactly(s))

\* The inductive invariant.
WatchOK  == WatchTyped /\ LedgerShape
WatchInv == WatchOK /\ Bounded /\ PaidToTheSecond /\ \A s \in Watchers : OnBoard(s)

\* A step of the world outside.
WatchRest == UNCHANGED watchVars

-------------------------------------------------------------------------------
(* Watch time: counting the seconds under way *)

\* The seconds themselves, as pairs of a run and a number.
Counts(r, s, steps) ==
  {x \in (DOMAIN r) \X (1 .. MaxTicks) :
     r[x[1]].step \in steps /\ r[x[1]].entry = s /\ x[2] <= r[x[1]].worth}

\* What one run holds for a session.
Part(r, e, s, steps) ==
  IF e \in DOMAIN r /\ r[e].step \in steps /\ r[e].entry = s THEN r[e].worth ELSE 0

\* What all the other runs hold.
Others(r, e, s, steps) == Cardinality({x \in Counts(r, s, steps) : x[1] # e})

\* The seconds under way are those of one run and those of the others.
LEMMA SumSplits ==
  ASSUME NEW r, IsFiniteSet(DOMAIN r), NEW e, NEW s, NEW steps, e \in DOMAIN r => r[e].worth \in Ticks
  PROVE  /\ Sum(r, s, steps) = Others(r, e, s, steps) + Part(r, e, s, steps)
         /\ Others(r, e, s, steps) \in Nat /\ Part(r, e, s, steps) \in Nat
<1> MaxTicks \in Nat
  BY WatchTimeAssumption
<1> DEFINE C == Counts(r, s, steps)  R == {x \in C : x[1] # e}  D == C \ R
<1>1. IsFiniteSet(C)
  <2>0. IsFiniteSet(1 .. MaxTicks)
    BY FS_Interval
  <2>1. IsFiniteSet((DOMAIN r) \X (1 .. MaxTicks))
    BY <2>0, FS_Product, Zenon
  <2> QED BY <2>1, FS_Subset DEF Counts
<1>2. IsFiniteSet(R) /\ Cardinality(R) \in Nat
  BY <1>1, FS_Subset, FS_CardinalityType
<1>3. D = {e} \X (1 .. Part(r, e, s, steps)) /\ Part(r, e, s, steps) \in Nat
  <2>1. CASE e \in DOMAIN r /\ r[e].step \in steps /\ r[e].entry = s
    <3>1. Part(r, e, s, steps) = r[e].worth /\ r[e].worth \in 0 .. MaxTicks
      BY <2>1 DEF Part, Ticks
    <3>2. D \subseteq {e} \X (1 .. r[e].worth)
      BY <2>1, <3>1 DEF Counts
    <3>3. {e} \X (1 .. r[e].worth) \subseteq D
      BY <2>1, <3>1 DEF Counts
    <3> QED BY <3>1, <3>2, <3>3
  <2>2. CASE ~(e \in DOMAIN r /\ r[e].step \in steps /\ r[e].entry = s)
    <3>1. Part(r, e, s, steps) = 0
      BY <2>2 DEF Part
    <3>2. D = {}
      BY <2>2 DEF Counts
    <3> QED BY <3>1, <3>2
  <2> QED BY <2>1, <2>2
<1>4. Cardinality(D) = Part(r, e, s, steps) /\ IsFiniteSet(D)
  <2>1. IsFiniteSet({e}) /\ Cardinality({e}) = 1
    BY FS_Singleton
  <2>2. /\ IsFiniteSet(1 .. Part(r, e, s, steps))
        /\ Cardinality(1 .. Part(r, e, s, steps)) = Part(r, e, s, steps)
    BY <1>3, FS_Interval
  <2>3. /\ Cardinality({e} \X (1 .. Part(r, e, s, steps)))
             = Cardinality({e}) * Cardinality(1 .. Part(r, e, s, steps))
        /\ IsFiniteSet({e} \X (1 .. Part(r, e, s, steps)))
    BY <2>1, <2>2, FS_Product, Zenon
  <2>4. 1 * Part(r, e, s, steps) = Part(r, e, s, steps)
    BY <1>3
  <2> QED BY <1>3, <2>1, <2>2, <2>3, <2>4
<1>5. Cardinality(C) = Cardinality(R) + Cardinality(D)
  <2>1. C \cap R = R
    OBVIOUS
  <2>2. Cardinality(D) = Cardinality(C) - Cardinality(R)
    BY <1>1, <2>1, FS_Difference
  <2>3. Cardinality(C) \in Nat
    BY <1>1, FS_CardinalityType
  <2> QED BY <2>2, <2>3, <1>2, <1>3, <1>4
<1>6. Sum(r, s, steps) = Cardinality(C)
  BY DEF Sum, Counts
<1> QED BY <1>2, <1>3, <1>4, <1>5, <1>6 DEF Others

\* Where one run changes, the sum changes by what that run holds.
LEMMA SumChanges ==
  ASSUME NEW r, IsFiniteSet(DOMAIN r), NEW t, IsFiniteSet(DOMAIN t), NEW e, NEW s, NEW steps,
         e \in DOMAIN r => r[e].worth \in Ticks, e \in DOMAIN t => t[e].worth \in Ticks,
         (DOMAIN r) \ {e} = (DOMAIN t) \ {e}, \A f \in (DOMAIN t) \ {e} : t[f] = r[f]
  PROVE  /\ Sum(t, s, steps) + Part(r, e, s, steps) = Sum(r, s, steps) + Part(t, e, s, steps)
         /\ Sum(t, s, steps) \in Nat /\ Sum(r, s, steps) \in Nat
<1>1. Others(r, e, s, steps) = Others(t, e, s, steps)
  <2>1. {x \in Counts(r, s, steps) : x[1] # e} = {x \in Counts(t, s, steps) : x[1] # e}
    BY DEF Counts
  <2> QED BY <2>1 DEF Others
<1> HIDE DEF Others, Part, Sum
<1>2. /\ Sum(r, s, steps) = Others(r, e, s, steps) + Part(r, e, s, steps)
      /\ Others(r, e, s, steps) \in Nat /\ Part(r, e, s, steps) \in Nat
  BY SumSplits
<1>3. /\ Sum(t, s, steps) = Others(t, e, s, steps) + Part(t, e, s, steps)
      /\ Others(t, e, s, steps) \in Nat /\ Part(t, e, s, steps) \in Nat
  BY SumSplits
<1> QED BY <1>1, <1>2, <1>3

-------------------------------------------------------------------------------
(* Watch time: what a step does to the events and their runs *)

\* There are finitely many runs.
LEMMA RunsAreFinite == ASSUME WatchTyped PROVE IsFiniteSet(DOMAIN run)
<1>1. sent \in Int /\ DOMAIN run \in SUBSET (1 .. sent)
  BY DEF WatchTyped
<1>2. IsFiniteSet(1 .. sent)
  BY <1>1, FS_Interval
<1> QED BY <1>1, <1>2, FS_Subset

\* A set of naturals has a least member, and Min finds it.
LEMMA LeastExists ==
  ASSUME NEW F, F \subseteq Nat, NEW n \in F
  PROVE  Min(F) \in F /\ Min(F) <= n
<1>1. \E x \in F : \A y \in F : ~(<<y, x>> \in OpToRel(<, Nat))
  BY NatLessThanWellFounded, WFMin, F # {}, Zenon
<1>2. PICK x \in F : \A y \in F : ~(<<y, x>> \in OpToRel(<, Nat))
  BY <1>1
<1>3. ASSUME NEW y \in F PROVE x =< y
  <2>1. x \in Nat /\ y \in Nat /\ <<y, x>> \in Nat \X Nat
    OBVIOUS
  <2>2. y < x => <<y, x>> \in OpToRel(<, Nat)
    <3>1. <<y, x>>[1] = y /\ <<y, x>>[2] = x
      OBVIOUS
    <3> QED BY <2>1, <3>1, Zenon DEF OpToRel
  <2>3. ~(y < x)
    BY <1>2, <2>2
  <2> QED BY <2>1, <2>3
<1>4. Min(F) \in F /\ \A y \in F : Min(F) =< y
  BY <1>3, Zenon DEF Min
<1> QED BY <1>4

\* An event is published under a number nobody uses.
Added(e, kind, of, span) ==
  /\ e \notin DOMAIN event /\ e \in 1 .. sent + 1 /\ sent' = sent + 1
  /\ DOMAIN event' = DOMAIN event \cup {e} /\ DOMAIN run' = DOMAIN run \cup {e}
  /\ event'[e] = [kind |-> kind, of |-> of, at |-> tick, pay |-> WholeSeconds(span), span |-> span]
  /\ run'[e] = Queued
  /\ \A f \in DOMAIN event : event'[f] = event[f] /\ run'[f] = run[f]

\* That is what Publish does.
LEMMA PublishAdds ==
  ASSUME WatchTyped, NEW kind, NEW of, NEW span, Publish(kind, of, span)
  PROVE  \E e : Added(e, kind, of, span)
<1> DEFINE F == (1 .. MaxEvents) \ DOMAIN event  e == Min(F)
<1>1. MaxEvents \in Nat /\ sent \in Nat /\ sent < MaxEvents /\ DOMAIN event \subseteq 1 .. sent
  BY WatchTimeAssumption DEF Publish, WatchTyped
<1>2. F \subseteq Nat /\ sent + 1 \in F
  BY <1>1
<1>3. e \in F /\ e <= sent + 1
  <2> HIDE DEF F
  <2> QED BY <1>2, LeastExists
<1>4. e \notin DOMAIN event /\ e \in 1 .. sent + 1 /\ DOMAIN run = DOMAIN event
  BY <1>1, <1>3 DEF WatchTyped
<1>5. /\ sent' = sent + 1
      /\ event' = [f \in DOMAIN event \cup {e} |->
                    IF f = e THEN [kind |-> kind, of |-> of, at |-> tick,
                                   pay |-> WholeSeconds(span), span |-> span] ELSE event[f]]
      /\ run' = [f \in DOMAIN run \cup {e} |-> IF f = e THEN Queued ELSE run[f]]
  BY DEF Publish
<1> HIDE DEF e
<1>6. Added(e, kind, of, span)
  BY <1>4, <1>5, Zenon DEF Added
<1> QED BY <1>6

\* One run takes a step; the other events and their runs stay.
Moved(e) ==
  /\ sent' = sent /\ UNCHANGED clockVars /\ DOMAIN event' \subseteq DOMAIN event
  /\ (DOMAIN event') \ {e} = (DOMAIN event) \ {e} /\ (DOMAIN run') = DOMAIN event'
  /\ \A f \in DOMAIN event' : event'[f] = event[f]
  /\ \A f \in (DOMAIN event') \ {e} : run'[f] = run[f]

\* A run that goes on keeps its event.
LEMMA GotoMoves ==
  ASSUME WatchTyped, NEW e \in DOMAIN event, NEW next, Goto(e, next), UNCHANGED clockVars
  PROVE  Moved(e) /\ e \in DOMAIN event' /\ run'[e] = next
BY DEF Moved, WatchTyped, Goto, busVars

\* A run that ends takes its event with it.
LEMMA FinishMoves ==
  ASSUME WatchTyped, NEW e \in DOMAIN event, Finish(e), UNCHANGED clockVars
  PROVE  Moved(e) /\ e \notin DOMAIN event'
BY DEF Moved, WatchTyped, Finish, Restrict

\* A run at the gate of an entry.
Gated(s, todo, wrote) ==
  [Queued EXCEPT !.step = "gate", !.entry = s, !.todo = todo, !.wrote = wrote]

\* The loop over a checkpoint ends, or is at the gate of its next entry.
LEMMA EntryMoves ==
  ASSUME WatchTyped, NEW e \in DOMAIN event, NEW todo, NextEntry(e, todo), UNCHANGED clockVars
  PROVE  /\ Moved(e)
         /\ e \in DOMAIN event' =>
              \E s \in todo : run'[e] = Gated(s, todo \ {s}, run[e].wrote)
<1>1. CASE todo = {}
  BY <1>1, FinishMoves DEF NextEntry
<1>2. CASE todo # {}
  <2>1. PICK s \in todo : Goto(e, Gated(s, todo \ {s}, run[e].wrote))
    BY <1>2 DEF NextEntry, Gated
  <2> HIDE DEF Gated
  <2> QED BY <2>1, GotoMoves
<1> QED BY <1>1, <1>2

-------------------------------------------------------------------------------
(* Watch time: types *)

\* The residue of a session is cut off at zero.
LEMMA SurplusIs ==
  ASSUME NEW a \in Ticks, NEW b \in Ticks
  PROVE  /\ Max({0, a - b}) = IF a > b THEN a - b ELSE 0
         /\ Max({0, a - b}) \in Ticks
<1> DEFINE D == {0, a - b}  w == IF a > b THEN a - b ELSE 0
<1> MaxTicks \in Nat
  BY WatchTimeAssumption
<1>1. w \in D /\ \A y \in D : w >= y
  BY DEF Ticks
<1>2. PICK m \in D : m = Max(D) /\ \A y \in D : m >= y
  BY <1>1, Zenon DEF Max
<1>3. m = w
  BY <1>1, <1>2 DEF Ticks
<1> QED BY <1>2, <1>3 DEF Ticks

\* A whole number of seconds and a fraction of one make up a time.
LEMMA WholeIs ==
  ASSUME NEW t \in Ticks
  PROVE  /\ Fraction(t) \in Nat /\ Whole(t) \in Ticks /\ Whole(t) <= t
         /\ Whole(t) + Fraction(t) = t /\ (t = 0 => Whole(t) = 0)
<1>1. MaxTicks \in Nat /\ PerSecond \in Nat /\ PerSecond > 0 /\ t \in Nat /\ t <= MaxTicks
  BY WatchTimeAssumption DEF Ticks
<1>2. t % PerSecond \in Nat /\ t % PerSecond < PerSecond
  BY <1>1
<1>3. t % PerSecond <= t
  <2>1. t < PerSecond => t % PerSecond = t
    BY <1>1
  <2> QED BY <1>1, <1>2, <2>1
<1> QED BY <1>1, <1>2, <1>3 DEF Fraction, Whole, Ticks

\* So is the pay of a checkpoint.
LEMMA SecondsAreWhole ==
  ASSUME NEW span \in [Watchers -> Ticks]
  PROVE  WholeSeconds(span) \in [Watchers -> Ticks]
BY WholeIs DEF WholeSeconds

\* A run that waits has done nothing.
LEMMA QueuedIs ==
  Queued \in Runs /\ Queued.step = "queued" /\ ~Queued.wrote /\ 0 \in Ticks /\ Unread \in Rows
BY WatchTimeAssumption DEF Queued, Runs, Steps, Unread, Rows, Nobody, Ticks

\* A step of a run keeps the types.
LEMMA MovedTypes ==
  ASSUME WatchTyped, NEW e \in DOMAIN event, Moved(e), e \in DOMAIN event' => run'[e] \in Runs,
         row' \in [Watchers -> Rows], total' \in [Watchers -> Nat], score' \in [Watchers -> Nat],
         dropped' \in [Watchers -> Nat]
  PROVE  WatchTyped'
<1>1. \A f \in DOMAIN event' : event'[f] \in Events /\ run'[f] \in Runs
  BY DEF Moved, WatchTyped
<1> QED BY <1>1 DEF Moved, WatchTyped, clockVars

\* So does an event that is added.
LEMMA AddedTypes ==
  ASSUME WatchTyped, NEW e, NEW kind \in Kinds, NEW of \in Watchers \cup {Nobody},
         NEW span \in [Watchers -> Ticks], Added(e, kind, of, span), UNCHANGED <<tick, storeVars>>,
         client' \in [Watchers -> [at : {"away", "here", "gone"},
                                   joined : Ticks, since : Ticks, gone : Ticks]]
  PROVE  WatchTyped'
<1>1. [kind |-> kind, of |-> of, at |-> tick, pay |-> WholeSeconds(span), span |-> span] \in Events
  BY SecondsAreWhole DEF Events, WatchTyped
<1>2. \A f \in DOMAIN event' : event'[f] \in Events /\ run'[f] \in Runs
  BY <1>1, QueuedIs DEF Added, WatchTyped
<1>3. sent' \in Nat /\ DOMAIN event' \subseteq 1 .. sent' /\ DOMAIN run' = DOMAIN event'
  <2>1. sent \in Nat /\ sent' = sent + 1 /\ 1 .. sent \subseteq 1 .. sent + 1
    BY DEF Added, WatchTyped
  <2> QED BY <2>1 DEF Added, WatchTyped
<1> QED BY <1>2, <1>3 DEF WatchTyped, storeVars

\* So does Publish.
LEMMA PublishTypes ==
  ASSUME WatchTyped, NEW kind \in Kinds, NEW of \in Watchers \cup {Nobody},
         NEW span \in [Watchers -> Ticks], Publish(kind, of, span), UNCHANGED <<tick, storeVars>>,
         client' \in [Watchers -> [at : {"away", "here", "gone"},
                                   joined : Ticks, since : Ticks, gone : Ticks]]
  PROVE  WatchTyped'
<1>1. PICK e : Added(e, kind, of, span)
  BY PublishAdds
<1> QED BY <1>1, AddedTypes

\* An event that pays nobody is typed.
LEMMA NoPayTyped ==
  /\ NoPay \in [Watchers -> Ticks]
  /\ \A s \in Watchers : NoPay[s] = 0 /\ WholeSeconds(NoPay)[s] = Whole(NoPay[s]) /\ Whole(NoPay[s]) = 0
<1>1. 0 \in Ticks
  BY WatchTimeAssumption DEF Ticks
<1> QED BY <1>1, WholeIs DEF NoPay, WholeSeconds

\* Who is due has been here for a second since the last checkpoint.
LEMMA DueIs ==
  ASSUME WatchTyped, NEW s \in Watchers, Due(s)
  PROVE  /\ client[s].at = "here" /\ tick > client[s].since /\ tick - client[s].since \in Ticks
         /\ Whole(tick - client[s].since) > 0
<1> DEFINE t == tick - client[s].since
<1>1. MaxTicks \in Nat /\ PerSecond \in Nat /\ PerSecond > 0 /\ tick \in Ticks /\ client[s].since \in Ticks
  BY WatchTimeAssumption DEF WatchTyped
<1>2. t \in Int /\ client[s].at = "here" /\ Whole(t) > 0
  BY <1>1 DEF Due, Ticks
<1>3. t > 0
  <2>1. ASSUME NEW x \in Int PROVE x % PerSecond \in Nat /\ (x - (x % PerSecond) > 0 => x > 0)
    BY <1>1
  <2> HIDE DEF t
  <2> QED BY <1>2, <2>1 DEF Whole, Fraction
<1> QED BY <1>1, <1>2, <1>3 DEF Ticks

\* What the gateway, playback and the clock do keeps the types.
LEMMA PublicTypes ==
  ASSUME WatchTyped,
         \/ Checkpoint \/ Playback \/ RemoveQueued \/ TickPasses
         \/ (\E s \in Watchers : Join(s) \/ Leave(s) \/ Sweep(s))
  PROVE  WatchTyped'
<1> USE NoPayTyped
<1>1. CASE Checkpoint
  <2> DEFINE pay == [s \in Watchers |-> IF Due(s) THEN tick - client[s].since ELSE 0]
  <2>1. pay \in [Watchers -> Ticks]
    BY DueIs, QueuedIs
  <2>2. client' \in [Watchers -> [at : {"away", "here", "gone"},
                                  joined : Ticks, since : Ticks, gone : Ticks]]
    <3>1. client' = [s \in Watchers |-> IF Due(s) THEN [client[s] EXCEPT !.since = tick] ELSE client[s]]
      BY <1>1 DEF Checkpoint
    <3>2. tick \in Ticks /\ client \in [Watchers -> [at : {"away", "here", "gone"},
                                                   joined : Ticks, since : Ticks, gone : Ticks]]
      BY DEF WatchTyped
    <3> QED BY <3>1, <3>2
  <2>3. Publish("checkpoint", Nobody, pay) /\ UNCHANGED <<tick, storeVars>>
    BY <1>1 DEF Checkpoint
  <2> HIDE DEF pay
  <2> QED BY <2>1, <2>2, <2>3, PublishTypes DEF Kinds
<1>2. CASE Playback \/ RemoveQueued
  <2>1. PICK k \in Kinds : Publish(k, Nobody, NoPay)
    BY <1>2 DEF Playback, RemoveQueued, Kinds
  <2>2. UNCHANGED <<tick, storeVars, client>>
    BY <1>2 DEF Playback, RemoveQueued, clockVars
  <2> QED BY <2>1, <2>2, PublishTypes DEF WatchTyped
<1>3. CASE TickPasses
  BY <1>3, WatchTimeAssumption DEF TickPasses, WatchTyped, Ticks, storeVars, busVars
<1>4. ASSUME NEW s \in Watchers, Join(s) PROVE WatchTyped'
  <2>1. client' \in [Watchers -> [at : {"away", "here", "gone"},
                                  joined : Ticks, since : Ticks, gone : Ticks]]
    BY <1>4, QueuedIs DEF Join, WatchTyped
  <2>2. Publish("joined", s, NoPay) /\ UNCHANGED <<tick, storeVars>>
    BY <1>4 DEF Join
  <2> QED BY <2>1, <2>2, PublishTypes DEF Kinds
<1>5. ASSUME NEW s \in Watchers, Leave(s) PROVE WatchTyped'
  <2>1. client' \in [Watchers -> [at : {"away", "here", "gone"},
                                  joined : Ticks, since : Ticks, gone : Ticks]]
    BY <1>5 DEF Leave, WatchTyped
  <2>2. Publish("left", s, NoPay) /\ UNCHANGED <<tick, storeVars>>
    BY <1>5 DEF Leave
  <2> QED BY <2>1, <2>2, PublishTypes DEF Kinds
<1>6. ASSUME NEW s \in Watchers, Sweep(s) PROVE WatchTyped'
  <2>1. Publish("left", s, NoPay) /\ UNCHANGED <<tick, client, storeVars>>
    BY <1>6 DEF Sweep, clockVars
  <2> QED BY <2>1, PublishTypes DEF Kinds, WatchTyped
<1> QED BY <1>1, <1>2, <1>3, <1>4, <1>5, <1>6

\* What a run at a gate is.
LEMMA GatedIs ==
  ASSUME NEW s \in Watchers, NEW todo \in SUBSET Watchers, NEW wrote \in BOOLEAN
  PROVE  LET g == Gated(s, todo, wrote) IN
         /\ g \in Runs
         /\ g.step = "gate" /\ g.entry = s /\ g.todo = todo /\ g.worth = 0 /\ g.wrote = wrote
BY QueuedIs DEF Gated, Queued, Runs, Steps

\* A run that goes on to a typed state keeps the types.
LEMMA GotoTypes ==
  ASSUME WatchTyped, NEW e \in DOMAIN event, NEW next \in Runs, Goto(e, next), UNCHANGED clockVars,
         row' \in [Watchers -> Rows], total' \in [Watchers -> Nat], score' \in [Watchers -> Nat],
         dropped' \in [Watchers -> Nat]
  PROVE  WatchTyped'
BY GotoMoves, MovedTypes

\* A run that ends keeps the types.
LEMMA FinishTypes ==
  ASSUME WatchTyped, NEW e \in DOMAIN event, Finish(e), UNCHANGED clockVars,
         row' \in [Watchers -> Rows], total' \in [Watchers -> Nat], score' \in [Watchers -> Nat],
         dropped' \in [Watchers -> Nat]
  PROVE  WatchTyped'
BY FinishMoves, MovedTypes

\* The next entry of a checkpoint keeps the types.
LEMMA EntryTypes ==
  ASSUME WatchTyped, NEW e \in DOMAIN event, NEW todo \in SUBSET Watchers, NextEntry(e, todo),
         UNCHANGED clockVars,
         row' \in [Watchers -> Rows], total' \in [Watchers -> Nat], score' \in [Watchers -> Nat],
         dropped' \in [Watchers -> Nat]
  PROVE  WatchTyped'
<1>1. Moved(e) /\ (e \in DOMAIN event' => \E s \in todo : run'[e] = Gated(s, todo \ {s}, run[e].wrote))
  BY EntryMoves
<1>2. run[e].wrote \in BOOLEAN /\ \A s \in todo : s \in Watchers /\ todo \ {s} \in SUBSET Watchers
  BY DEF WatchTyped, Runs
<1>3. \A s \in todo : Gated(s, todo \ {s}, run[e].wrote) \in Runs
  BY <1>2, GatedIs
<1> QED BY <1>1, <1>3, MovedTypes

\* A run under way is about a session.
LEMMA EntryIsSomebody ==
  ASSUME WatchOK, NEW e \in DOMAIN run, ~AtStep(e, "queued")
  PROVE  run[e].entry \in Watchers
BY DEF WatchOK, WatchTyped, LedgerShape, RunOK, EventOK, AtStep

\* Fractions add up.
LEMMA DroppedIs ==
  ASSUME WatchOK, NEW e \in DOMAIN run, Handling(e) \/ AttemptFails(e)
  PROVE  dropped' \in [Watchers -> Nat]
<1>1. /\ WatchTyped /\ e \in DOMAIN event /\ event[e] \in Events /\ run[e] \in Runs
      /\ dropped \in [Watchers -> Nat]
  BY DEF WatchOK, WatchTyped
<1>2. ASSUME NEW t \in Ticks, dropped' = [dropped EXCEPT ![run[e].entry] = @ + Fraction(t)],
             run[e].entry \in Watchers
      PROVE  dropped' \in [Watchers -> Nat]
  <2>1. dropped[run[e].entry] + Fraction(t) \in Nat
    BY <1>1, <1>2, WholeIs
  <2> QED BY <1>1, <1>2, <2>1
<1>3. CASE Credit(e)
  <2>1. run[e].entry \in Watchers
    BY <1>3, EntryIsSomebody DEF Credit, AtStep
  <2>2. event[e].span[run[e].entry] \in Ticks
    BY <1>1, <2>1 DEF Events
  <2>3. dropped' = [dropped EXCEPT ![run[e].entry] = @ + Fraction(event[e].span[run[e].entry])]
    BY <1>3 DEF Credit
  <2> QED BY <1>2, <2>1, <2>2, <2>3
<1>4. CASE EndSession(e)
  <2>1. run[e].entry \in Watchers
    BY <1>4, EntryIsSomebody DEF EndSession, AtStep
  <2>2. event[e].at \in Ticks /\ run[e].read.marker \in Ticks
    BY <1>1 DEF Events, Runs, Rows
  <2>3. Max({0, event[e].at - run[e].read.marker}) \in Ticks
    BY <2>2, SurplusIs
  <2>4. dropped' = [dropped EXCEPT ![run[e].entry] =
                      @ + Fraction(Max({0, event[e].at - run[e].read.marker}))]
    BY <1>4 DEF EndSession
  <2> QED BY <1>2, <2>1, <2>3, <2>4
<1>5. CASE ~Credit(e) /\ ~EndSession(e)
  <2>1. UNCHANGED dropped
    BY <1>5 DEF Handling, OnJoined, OnCheckpoint, OnLeft, SetRoomPlaying, Gate, Find, PayTail, AddToTotals,
                IncrementScore, AttemptFails, storeVars
  <2> QED BY <1>1, <2>1
<1> QED BY <1>3, <1>4, <1>5

\* Every step of a handler keeps the types.
LEMMA HandlingTypes ==
  ASSUME WatchOK, NEW e \in DOMAIN run, Handling(e) \/ AttemptFails(e)
  PROVE  WatchTyped'
<1>1. /\ WatchTyped /\ e \in DOMAIN event /\ event[e] \in Events /\ run[e] \in Runs
      /\ row \in [Watchers -> Rows] /\ total \in [Watchers -> Nat] /\ score \in [Watchers -> Nat]
      /\ dropped' \in [Watchers -> Nat]
  BY DroppedIs DEF WatchOK, WatchTyped
<1>2. CASE OnJoined(e)
  <2>1. [seen |-> TRUE, ended |-> FALSE, marker |-> event[e].at] \in Rows
    BY <1>1 DEF Events, Rows
  <2>2. row' \in [Watchers -> Rows]
    BY <1>1, <1>2, <2>1 DEF OnJoined
  <2> QED BY <1>1, <1>2, <2>2, FinishTypes DEF OnJoined
<1>3. CASE OnCheckpoint(e)
  <2> DEFINE todo == {s \in Watchers : event[e].pay[s] > 0}
  <2>1. todo \in SUBSET Watchers /\ NextEntry(e, todo) /\ UNCHANGED <<clockVars, row, total, score>>
    BY <1>3 DEF OnCheckpoint, storeVars
  <2> HIDE DEF todo
  <2> QED BY <1>1, <2>1, EntryTypes
<1>4. CASE OnLeft(e)
  <2>1. [Queued EXCEPT !.step = "find", !.entry = event[e].of] \in Runs
    BY <1>1, QueuedIs DEF Events, Runs, Steps
  <2> QED BY <1>1, <1>4, <2>1, GotoTypes DEF OnLeft, storeVars
<1>5. CASE SetRoomPlaying(e)
  BY <1>1, <1>5, FinishTypes DEF SetRoomPlaying
<1>6. CASE Gate(e)
  <2> DEFINE w == IF playing THEN event[e].pay[run[e].entry] ELSE 0
  <2>1. w \in Ticks
    <3>1. run[e].entry \in Watchers
      BY <1>6, EntryIsSomebody DEF Gate, AtStep
    <3> QED BY <1>1, <3>1, QueuedIs DEF Events
  <2>2. [run[e] EXCEPT !.step = "find", !.worth = w] \in Runs
    <3> HIDE DEF w
    <3> QED BY <1>1, <2>1 DEF Runs, Steps
  <2>3. Goto(e, [run[e] EXCEPT !.step = "find", !.worth = w]) /\ UNCHANGED <<clockVars, storeVars>>
    BY <1>6 DEF Gate
  <2> HIDE DEF w
  <2> QED BY <1>1, <2>2, <2>3, GotoTypes DEF storeVars
<1>7. ASSUME Proceed(e), UNCHANGED clockVars, row' \in [Watchers -> Rows],
             total' \in [Watchers -> Nat], score' \in [Watchers -> Nat]
      PROVE  WatchTyped'
  <2>1. run[e].todo \in SUBSET Watchers
    BY <1>1 DEF Runs
  <2> QED BY <1>1, <1>7, <2>1, EntryTypes DEF Proceed
<1>8. CASE Find(e)
  <2>1. row[run[e].entry] \in Rows
    <3>1. run[e].entry \in Watchers
      BY <1>8, EntryIsSomebody DEF Find, AtStep
    <3> QED BY <1>1, <3>1
  <2>2. [run[e] EXCEPT !.step = "write", !.read = row[run[e].entry]] \in Runs
    BY <1>1, <2>1 DEF Runs, Steps
  <2>3. UNCHANGED <<clockVars, row, total, score>>
    BY <1>8 DEF Find, storeVars
  <2>4. Proceed(e) \/ Goto(e, [run[e] EXCEPT !.step = "write", !.read = row[run[e].entry]])
    BY <1>8 DEF Find
  <2> QED BY <1>1, <1>7, <2>2, <2>3, <2>4, GotoTypes
<1>9. CASE Credit(e)
  <2>1. [run[e] EXCEPT !.step = Award[1], !.read = Unread, !.wrote = TRUE] \in Runs
    BY <1>1, QueuedIs DEF Runs, Steps, Award
  <2>2. row' \in [Watchers -> Rows]
    <3>1. run[e].entry \in Watchers /\ event[e].at \in Ticks
      BY <1>1, <1>9, EntryIsSomebody DEF Credit, AtStep, Events
    <3>2. row' = [row EXCEPT ![run[e].entry].seen = TRUE, ![run[e].entry].marker = event[e].at]
      BY <1>9 DEF Credit
    <3> QED BY <1>1, <3>1, <3>2 DEF Rows
  <2>3. UNCHANGED <<clockVars, total, score>>
    BY <1>9 DEF Credit
  <2>4. Proceed(e) \/ Goto(e, [run[e] EXCEPT !.step = Award[1], !.read = Unread, !.wrote = TRUE])
    BY <1>9 DEF Credit
  <2> QED BY <1>1, <1>7, <2>1, <2>2, <2>3, <2>4, GotoTypes
<1>10. CASE EndSession(e)
  <2> DEFINE w == Whole(Max({0, event[e].at - run[e].read.marker}))
  <2>1. w \in Ticks
    <3>1. event[e].at \in Ticks /\ run[e].read.marker \in Ticks
      BY <1>1 DEF Events, Runs, Rows
    <3> QED BY <3>1, SurplusIs, WholeIs
  <2>2. [run[e] EXCEPT !.step = "tail", !.read = Unread, !.wrote = TRUE, !.worth = w] \in Runs
    <3> HIDE DEF w
    <3> QED BY <1>1, <2>1, QueuedIs DEF Runs, Steps
  <2>3. row' \in [Watchers -> Rows]
    BY <1>1, <1>10 DEF EndSession, Rows
  <2>4. /\ UNCHANGED <<clockVars, total, score>>
        /\ Goto(e, [run[e] EXCEPT !.step = "tail", !.read = Unread, !.wrote = TRUE, !.worth = w])
    BY <1>10 DEF EndSession
  <2> HIDE DEF w
  <2> QED BY <1>1, <2>2, <2>3, <2>4, GotoTypes
<1>11. CASE PayTail(e)
  <2>1. [run[e] EXCEPT !.step = Award[1]] \in Runs
    BY <1>1 DEF Runs, Steps, Award
  <2>2. Finish(e) \/ Goto(e, [run[e] EXCEPT !.step = Award[1]])
    BY <1>11 DEF PayTail
  <2>3. UNCHANGED <<clockVars, row, total, score>>
    BY <1>11 DEF PayTail, storeVars
  <2> QED BY <1>1, <2>1, <2>2, <2>3, GotoTypes, FinishTypes
<1>12. ASSUME AfterStore(e), UNCHANGED clockVars, row' \in [Watchers -> Rows],
             total' \in [Watchers -> Nat], score' \in [Watchers -> Nat]
      PROVE  WatchTyped'
  <2>1. [run[e] EXCEPT !.step = Award[2]] \in Runs
    BY <1>1 DEF Runs, Steps, Award
  <2>2. Proceed(e) \/ Goto(e, [run[e] EXCEPT !.step = Award[2]])
    BY <1>12 DEF AfterStore
  <2> QED BY <1>1, <1>7, <1>12, <2>1, <2>2, GotoTypes
<1>13. run[e].worth \in Nat
  BY <1>1, WatchTimeAssumption DEF Runs, Ticks
<1>14. CASE AddToTotals(e)
  <2>1. total' \in [Watchers -> Nat]
    <3>1. run[e].entry \in Watchers
      BY <1>14, EntryIsSomebody DEF AddToTotals, AtStep
    <3>2. total[run[e].entry] + run[e].worth \in Nat
      BY <1>1, <1>13, <3>1
    <3>3. total' = [total EXCEPT ![run[e].entry] = @ + run[e].worth]
      BY <1>14 DEF AddToTotals
    <3> QED BY <1>1, <3>2, <3>3
  <2>2. AfterStore(e) /\ UNCHANGED <<clockVars, row, score>>
    BY <1>14 DEF AddToTotals
  <2> QED BY <1>1, <1>12, <2>1, <2>2
<1>15. CASE IncrementScore(e)
  <2>1. score' \in [Watchers -> Nat]
    <3>1. run[e].entry \in Watchers
      BY <1>15, EntryIsSomebody DEF IncrementScore, AtStep
    <3>2. score[run[e].entry] + run[e].worth \in Nat
      BY <1>1, <1>13, <3>1
    <3>3. score' = [score EXCEPT ![run[e].entry] = @ + run[e].worth]
      BY <1>15 DEF IncrementScore
    <3> QED BY <1>1, <3>2, <3>3
  <2>2. AfterStore(e) /\ UNCHANGED <<clockVars, row, total>>
    BY <1>15 DEF IncrementScore
  <2> QED BY <1>1, <1>12, <2>1, <2>2
<1>16. CASE AttemptFails(e)
  BY <1>1, <1>16, QueuedIs, GotoTypes DEF AttemptFails, storeVars
<1> QED BY <1>2, <1>3, <1>4, <1>5, <1>6, <1>8, <1>9, <1>10, <1>11, <1>14, <1>15, <1>16 DEF Handling

\* Every step keeps the types.
LEMMA WatchTypes == ASSUME WatchOK, WatchNext PROVE WatchTyped'
BY PublicTypes, HandlingTypes DEF WatchNext, WatchOK

-------------------------------------------------------------------------------
(* Watch time: the turns of a handler *)

\* A run ends.
Ends(e) == Moved(e) /\ e \notin DOMAIN event'

\* A run goes on to a step, with what it holds from there on.
Turns(e, step, entry, todo, worth, wrote) ==
  /\ Moved(e) /\ e \in DOMAIN event'
  /\ run'[e].step = step /\ run'[e].entry = entry /\ run'[e].todo = todo
  /\ run'[e].worth = worth /\ run'[e].wrote = wrote

\* A run takes the next of its entries, or ends after the last.
Enters(e, todo) ==
  \/ Ends(e) /\ todo = {}
  \/ \E s \in todo : Turns(e, "gate", s, todo \ {s}, 0, run[e].wrote)

\* What a run is.
LEMMA RunIs ==
  ASSUME WatchOK, NEW e \in DOMAIN run
  PROVE  /\ WatchTyped /\ e \in DOMAIN event /\ event[e] \in Events /\ run[e] \in Runs
         /\ ~AtStep(e, "queued") => run[e].entry \in Watchers
         /\ AtStep(e, "queued") => run[e] = Queued
         /\ RunOK(e) /\ EventOK(e)
BY EntryIsSomebody DEF WatchOK, WatchTyped, LedgerShape, RunOK, AtStep

\* NextEntry in these words.
LEMMA EntryTurns ==
  ASSUME WatchTyped, NEW e \in DOMAIN event, NEW todo \in SUBSET Watchers, NextEntry(e, todo),
         UNCHANGED clockVars
  PROVE  Enters(e, todo)
<1>1. CASE todo = {}
  BY <1>1, FinishMoves DEF NextEntry, Enters, Ends
<1>2. CASE todo # {}
  <2>1. PICK s \in todo : Goto(e, Gated(s, todo \ {s}, run[e].wrote))
    BY <1>2 DEF NextEntry, Gated
  <2>2. Moved(e) /\ e \in DOMAIN event' /\ run'[e] = Gated(s, todo \ {s}, run[e].wrote)
    BY <2>1, GotoMoves
  <2>3. run[e].wrote \in BOOLEAN /\ s \in Watchers /\ todo \ {s} \in SUBSET Watchers
    BY DEF WatchTyped, Runs
  <2>4. Turns(e, "gate", s, todo \ {s}, 0, run[e].wrote)
    BY <2>2, <2>3, GatedIs DEF Turns
  <2> QED BY <2>4 DEF Enters
<1> QED BY <1>1, <1>2

\* Proceed in these words.
LEMMA ProceedTurns ==
  ASSUME WatchOK, NEW e \in DOMAIN run, Proceed(e), UNCHANGED clockVars
  PROVE  Enters(e, run[e].todo)
<1>1. run[e].todo \in SUBSET Watchers /\ WatchTyped /\ e \in DOMAIN event
  BY RunIs DEF Runs
<1> QED BY <1>1, EntryTurns DEF Proceed

\* The join is handled in one step.
LEMMA OnJoinedTurn ==
  ASSUME WatchOK, NEW e \in DOMAIN run, OnJoined(e)
  PROVE  Ends(e) /\ run[e] = Queued /\ event[e].kind = "joined"
BY RunIs, FinishMoves DEF OnJoined, Ends, Is

\* So are a start and a stop of the player.
LEMMA SetRoomPlayingTurn ==
  ASSUME WatchOK, NEW e \in DOMAIN run, SetRoomPlaying(e)
  PROVE  Ends(e) /\ run[e] = Queued /\ event[e].kind \in {"started", "skipped"}
BY RunIs, FinishMoves DEF SetRoomPlaying, Ends, Is

\* A checkpoint starts with its first entry.
LEMMA OnCheckpointTurn ==
  ASSUME WatchOK, NEW e \in DOMAIN run, OnCheckpoint(e)
  PROVE  /\ Enters(e, {s \in Watchers : Pays(e, s)})
         /\ run[e] = Queued /\ event[e].kind = "checkpoint"
<1>1. event[e].kind = "checkpoint"
  BY DEF OnCheckpoint, Is
<1>2. {s \in Watchers : event[e].pay[s] > 0} = {s \in Watchers : Pays(e, s)}
  BY <1>1 DEF Pays
<1> DEFINE todo == {s \in Watchers : Pays(e, s)}
<1>3. NextEntry(e, todo) /\ todo \in SUBSET Watchers /\ UNCHANGED clockVars
  BY <1>2 DEF OnCheckpoint
<1> HIDE DEF todo
<1>4. Enters(e, todo)
  BY <1>3, RunIs, EntryTurns
<1> QED BY <1>1, <1>4, RunIs DEF OnCheckpoint, todo

\* A leave starts at the row of its session.
LEMMA OnLeftTurn ==
  ASSUME WatchOK, NEW e \in DOMAIN run, OnLeft(e)
  PROVE  /\ Turns(e, "find", event[e].of, {}, 0, FALSE)
         /\ run[e] = Queued /\ event[e].kind = "left"
<1>1. /\ run'[e] = [Queued EXCEPT !.step = "find", !.entry = event[e].of]
      /\ Moved(e) /\ e \in DOMAIN event'
  BY RunIs, GotoMoves DEF OnLeft
<1>2. event[e].of \in Watchers \cup {Nobody}
  BY RunIs DEF Events
<1>3. Turns(e, "find", event[e].of, {}, 0, FALSE)
  BY <1>1, <1>2 DEF Turns, Queued
<1> QED BY <1>3, RunIs DEF OnLeft, Is

\* The gate decides what an entry is worth.
LEMMA GateTurn ==
  ASSUME WatchOK, NEW e \in DOMAIN run, Gate(e)
  PROVE  /\ Turns(e, "find", run[e].entry, run[e].todo,
                  IF playing THEN event[e].pay[run[e].entry] ELSE 0, run[e].wrote)
         /\ run[e].step = "gate" /\ event[e].kind = "checkpoint"
<1> DEFINE w == IF playing THEN event[e].pay[run[e].entry] ELSE 0
<1>1. run[e] \in Runs /\ run[e].step = "gate" /\ WatchTyped /\ e \in DOMAIN event
  BY RunIs DEF Gate, AtStep
<1>2. /\ run'[e] = [run[e] EXCEPT !.step = "find", !.worth = w]
      /\ Moved(e) /\ e \in DOMAIN event'
  BY <1>1, GotoMoves DEF Gate
<1> HIDE DEF w
<1>3. Turns(e, "find", run[e].entry, run[e].todo, w, run[e].wrote)
  BY <1>1, <1>2 DEF Turns, Runs
<1>4. event[e].kind = "checkpoint"
  BY <1>1, RunIs DEF RunOK
<1> QED BY <1>1, <1>3, <1>4 DEF w

\* The row is read, and the entry is dropped if its session has ended.
LEMMA FindTurn ==
  ASSUME WatchOK, NEW e \in DOMAIN run, Find(e)
  PROVE  /\ \/ /\ Enters(e, run[e].todo)
               /\ row[run[e].entry].ended \/ (event[e].kind = "left" /\ ~row[run[e].entry].seen)
            \/ /\ Turns(e, "write", run[e].entry, run[e].todo, run[e].worth, run[e].wrote)
               /\ run'[e].read = row[run[e].entry]
               /\ ~row[run[e].entry].ended /\ (event[e].kind = "left" => row[run[e].entry].seen)
         /\ run[e].step = "find"
<1>1. run[e] \in Runs /\ run[e].step = "find" /\ WatchTyped /\ e \in DOMAIN event
  BY RunIs DEF Find, AtStep
<1>2. CASE row[run[e].entry].ended \/ (Is(e, {"left"}) /\ ~row[run[e].entry].seen)
  <2>1. Proceed(e) /\ UNCHANGED clockVars
    BY <1>2 DEF Find
  <2> QED BY <1>1, <1>2, <2>1, ProceedTurns DEF Is
<1>3. CASE ~(row[run[e].entry].ended \/ (Is(e, {"left"}) /\ ~row[run[e].entry].seen))
  <2>1. /\ run'[e] = [run[e] EXCEPT !.step = "write", !.read = row[run[e].entry]]
        /\ Moved(e) /\ e \in DOMAIN event'
    BY <1>1, <1>3, GotoMoves DEF Find
  <2>2. run[e].entry \in Watchers /\ row[run[e].entry] \in Rows
    BY <1>1, RunIs DEF WatchTyped, AtStep
  <2>3. /\ Turns(e, "write", run[e].entry, run[e].todo, run[e].worth, run[e].wrote)
        /\ run'[e].read = row[run[e].entry]
    BY <1>1, <2>1, <2>2 DEF Turns, Runs
  <2> QED BY <1>1, <1>3, <2>3 DEF Is
<1> QED BY <1>2, <1>3

\* The marker is written; an entry that is worth something goes on to the totals.
LEMMA CreditTurn ==
  ASSUME WatchOK, NEW e \in DOMAIN run, Credit(e)
  PROVE  /\ \/ /\ Enters(e, run[e].todo) /\ run[e].worth = 0
            \/ /\ Turns(e, "totals", run[e].entry, run[e].todo, run[e].worth, TRUE)
               /\ run[e].worth > 0
         /\ run[e].step = "write" /\ event[e].kind = "checkpoint"
<1>1. /\ run[e] \in Runs /\ run[e].step = "write" /\ event[e].kind = "checkpoint"
      /\ WatchTyped /\ e \in DOMAIN event
  BY RunIs DEF Credit, AtStep, Is
<1>2. CASE run[e].worth > 0
  <2>1. /\ run'[e] = [run[e] EXCEPT !.step = Award[1], !.read = Unread, !.wrote = TRUE]
        /\ Moved(e) /\ e \in DOMAIN event'
    BY <1>1, <1>2, GotoMoves DEF Credit
  <2>2. Turns(e, "totals", run[e].entry, run[e].todo, run[e].worth, TRUE)
    BY <1>1, <2>1, QueuedIs DEF Turns, Runs, Award
  <2> QED BY <1>1, <1>2, <2>2
<1>3. CASE ~(run[e].worth > 0)
  <2>1. run[e].worth = 0
    BY <1>1, <1>3, WatchTimeAssumption DEF Runs, Ticks
  <2>2. Proceed(e) /\ UNCHANGED clockVars
    BY <1>3 DEF Credit
  <2> QED BY <1>1, <2>1, <2>2, ProceedTurns
<1> QED BY <1>2, <1>3

\* The seconds between the marker that was read and the leave.
Surplus(e) == LET a == event[e].at  b == run[e].read.marker IN IF a > b THEN a - b ELSE 0

\* The residue is a time.
LEMMA SurplusWhole ==
  ASSUME WatchOK, NEW e \in DOMAIN run
  PROVE  /\ Surplus(e) \in Ticks /\ Whole(Surplus(e)) \in Ticks /\ Whole(Surplus(e)) <= Surplus(e)
         /\ Whole(Surplus(e)) + Fraction(Surplus(e)) = Surplus(e) /\ Fraction(Surplus(e)) \in Nat
<1>1. event[e].at \in Ticks /\ run[e].read.marker \in Ticks
  BY RunIs DEF Events, Runs, Rows
<1>2. Surplus(e) \in Ticks
  BY <1>1, SurplusIs DEF Surplus
<1> QED BY <1>2, WholeIs

\* The end of a session is written, and the residue goes on.
LEMMA EndTurn ==
  ASSUME WatchOK, NEW e \in DOMAIN run, EndSession(e)
  PROVE  /\ Turns(e, "tail", run[e].entry, run[e].todo, Whole(Surplus(e)), TRUE)
         /\ run[e].step = "write" /\ event[e].kind = "left"
<1>1. /\ run[e] \in Runs /\ run[e].step = "write" /\ event[e].kind = "left"
      /\ WatchTyped /\ e \in DOMAIN event /\ event[e] \in Events
  BY RunIs DEF EndSession, AtStep, Is
<1>2. Max({0, event[e].at - run[e].read.marker}) = Surplus(e) /\ Surplus(e) \in Ticks
  <2>1. event[e].at \in Ticks /\ run[e].read.marker \in Ticks
    BY <1>1 DEF Events, Runs, Rows
  <2> QED BY <2>1, SurplusIs DEF Surplus
<1>3. /\ run'[e] = [run[e] EXCEPT !.step = "tail", !.read = Unread, !.wrote = TRUE,
                                  !.worth = Whole(Surplus(e))]
      /\ Moved(e) /\ e \in DOMAIN event'
  BY <1>1, <1>2, GotoMoves DEF EndSession
<1>4. Turns(e, "tail", run[e].entry, run[e].todo, Whole(Surplus(e)), TRUE)
  BY <1>1, <1>2, <1>3, QueuedIs, WholeIs DEF Turns, Runs
<1> QED BY <1>1, <1>4

\* The residue goes on to the totals if the room plays.
LEMMA PayTailTurn ==
  ASSUME WatchOK, NEW e \in DOMAIN run, PayTail(e)
  PROVE  /\ \/ Turns(e, "totals", run[e].entry, run[e].todo, run[e].worth, run[e].wrote)
            \/ Ends(e) /\ (playing => run[e].worth = 0)
         /\ run[e].step = "tail" /\ event[e].kind = "left"
<1>1. /\ run[e] \in Runs /\ run[e].step = "tail" /\ WatchTyped /\ e \in DOMAIN event
  BY RunIs DEF PayTail, AtStep
<1>2. CASE playing /\ run[e].worth > 0
  <2>1. /\ run'[e] = [run[e] EXCEPT !.step = Award[1]] /\ Moved(e) /\ e \in DOMAIN event'
    BY <1>1, <1>2, GotoMoves DEF PayTail
  <2>2. Turns(e, "totals", run[e].entry, run[e].todo, run[e].worth, run[e].wrote)
    BY <1>1, <2>1 DEF Turns, Runs, Award
  <2> QED BY <1>1, <2>2, RunIs DEF RunOK
<1>3. CASE ~(playing /\ run[e].worth > 0)
  <2>1. Ends(e)
    BY <1>1, <1>3, FinishMoves DEF PayTail, Ends
  <2>2. playing => run[e].worth = 0
    BY <1>1, <1>3, WatchTimeAssumption DEF Runs, Ticks
  <2> QED BY <1>1, <2>1, <2>2, RunIs DEF RunOK
<1> QED BY <1>2, <1>3

\* After the totals comes the leaderboard.
LEMMA TotalsTurn ==
  ASSUME WatchOK, NEW e \in DOMAIN run, AddToTotals(e)
  PROVE  /\ Turns(e, "score", run[e].entry, run[e].todo, run[e].worth, run[e].wrote)
         /\ run[e].step = "totals"
<1>1. /\ run[e] \in Runs /\ run[e].step = "totals" /\ WatchTyped /\ e \in DOMAIN event
  BY RunIs DEF AddToTotals, AtStep
<1>2. run'[e] = [run[e] EXCEPT !.step = Award[2]] /\ Moved(e) /\ e \in DOMAIN event'
  <2>1. Goto(e, [run[e] EXCEPT !.step = Award[2]]) /\ UNCHANGED clockVars
    BY <1>1 DEF AddToTotals, AfterStore, Award
  <2> QED BY <1>1, <2>1, GotoMoves
<1>3. Turns(e, "score", run[e].entry, run[e].todo, run[e].worth, run[e].wrote)
  BY <1>1, <1>2 DEF Turns, Runs, Award
<1> QED BY <1>1, <1>3

\* After the leaderboard comes the next entry.
LEMMA ScoreTurn ==
  ASSUME WatchOK, NEW e \in DOMAIN run, IncrementScore(e)
  PROVE  Enters(e, run[e].todo) /\ run[e].step = "score"
<1>1. run[e].step = "score" /\ Award[1] # "score"
  BY DEF IncrementScore, AtStep, Award
<1>2. Proceed(e) /\ UNCHANGED clockVars
  BY <1>1 DEF IncrementScore, AfterStore
<1> QED BY <1>1, <1>2, ProceedTurns

\* An attempt that fails leaves its event queued.
LEMMA FailTurn ==
  ASSUME WatchOK, NEW e \in DOMAIN run, AttemptFails(e)
  PROVE  /\ Moved(e) /\ e \in DOMAIN event' /\ run'[e] = Queued
         /\ run[e].step # "queued"
BY RunIs, GotoMoves DEF AttemptFails, AtStep

-------------------------------------------------------------------------------
(* Watch time: the shape of the ledger, under the handlers *)

\* The three writes to a row, and nothing else changes one.
LEMMA RowChanges ==
  ASSUME WatchOK, NEW e \in DOMAIN run, Handling(e) \/ AttemptFails(e), NEW t \in Watchers
  PROVE  \/ row'[t] = row[t]
         \/ /\ OnJoined(e) /\ t = event[e].of /\ ~row[t].seen
            /\ row'[t] = [seen |-> TRUE, ended |-> FALSE, marker |-> event[e].at]
         \/ /\ Credit(e) /\ t = run[e].entry
            /\ row'[t] = [seen |-> TRUE, ended |-> row[t].ended, marker |-> event[e].at]
         \/ /\ EndSession(e) /\ t = run[e].entry
            /\ row'[t] = [seen |-> row[t].seen, ended |-> TRUE, marker |-> row[t].marker]
<1>1. row \in [Watchers -> Rows] /\ row[t] \in Rows
  BY RunIs DEF WatchTyped
<1>2. CASE OnJoined(e)
  BY <1>1, <1>2 DEF OnJoined
<1>3. CASE Credit(e)
  <2>1. row' = [row EXCEPT ![run[e].entry].seen = TRUE, ![run[e].entry].marker = event[e].at]
    BY <1>3 DEF Credit
  <2> QED BY <1>1, <1>3, <2>1 DEF Rows
<1>4. CASE EndSession(e)
  <2>1. row' = [row EXCEPT ![run[e].entry].ended = TRUE]
    BY <1>4 DEF EndSession
  <2> QED BY <1>1, <1>4, <2>1 DEF Rows
<1>5. CASE \/ OnCheckpoint(e) \/ OnLeft(e) \/ SetRoomPlaying(e) \/ Gate(e) \/ Find(e) \/ PayTail(e)
           \/ AddToTotals(e) \/ IncrementScore(e) \/ AttemptFails(e)
  BY <1>5 DEF OnCheckpoint, OnLeft, SetRoomPlaying, Gate, Find, PayTail, AddToTotals, IncrementScore,
              AttemptFails, storeVars
<1> QED BY <1>2, <1>3, <1>4, <1>5 DEF Handling

\* A handler moves its own run only, and a mishap is not forgotten.
LEMMA EveryTurnMoves ==
  ASSUME WatchOK, NEW e \in DOMAIN run, Handling(e) \/ AttemptFails(e)
  PROVE  Moved(e) /\ mishap \subseteq mishap'
<1>1. mishap \subseteq mishap'
  BY DEF Handling, OnJoined, OnCheckpoint, OnLeft, SetRoomPlaying, Gate, Find, Credit, EndSession,
         PayTail, AddToTotals, IncrementScore, AttemptFails
<1>2. Moved(e)
  <2>1. /\ \A todo : Enters(e, todo) => Moved(e)
        /\ Ends(e) => Moved(e)
        /\ \A step, entry, todo, worth, wrote : Turns(e, step, entry, todo, worth, wrote) => Moved(e)
    BY DEF Enters, Ends, Turns
  <2>2. CASE OnJoined(e) \/ OnCheckpoint(e) \/ OnLeft(e) \/ SetRoomPlaying(e)
    BY <2>1, <2>2, OnJoinedTurn, OnCheckpointTurn, OnLeftTurn, SetRoomPlayingTurn
  <2>3. CASE Gate(e) \/ Find(e) \/ Credit(e)
    BY <2>1, <2>3, GateTurn, FindTurn, CreditTurn
  <2>4. CASE EndSession(e) \/ PayTail(e) \/ AddToTotals(e) \/ IncrementScore(e) \/ AttemptFails(e)
    BY <2>1, <2>4, EndTurn, PayTailTurn, TotalsTurn, ScoreTurn, FailTurn
  <2> QED BY <2>2, <2>3, <2>4 DEF Handling
<1> QED BY <1>1, <1>2

\* What an event is.
LEMMA EventIs ==
  ASSUME WatchOK, NEW f \in DOMAIN event
  PROVE  /\ event[f] \in Events /\ EventOK(f) /\ RunOK(f) /\ f \in DOMAIN run
         /\ event[f].at \in Nat
         /\ \A s \in Watchers :
              /\ event[f].pay[s] \in Nat /\ event[f].span[s] \in Nat /\ EntryOK(f, s)
              /\ event[f].pay[s] <= event[f].span[s]
              /\ event[f].pay[s] + Fraction(event[f].span[s]) = event[f].span[s]
<1>1. Ticks \subseteq Nat
  BY WatchTimeAssumption DEF Ticks
<1>2. ASSUME NEW s \in Watchers
      PROVE  /\ event[f].pay[s] \in Nat /\ event[f].span[s] \in Nat /\ EntryOK(f, s)
             /\ event[f].pay[s] <= event[f].span[s]
             /\ event[f].pay[s] + Fraction(event[f].span[s]) = event[f].span[s]
  <2>1. event[f].span[s] \in Ticks /\ EntryOK(f, s) /\ event[f].pay[s] = Whole(event[f].span[s])
    BY DEF WatchOK, WatchTyped, LedgerShape, Events, EntryOK
  <2> QED BY <1>1, <2>1, WholeIs
<1> QED BY <1>1, <1>2 DEF WatchOK, WatchTyped, LedgerShape, Events

\* A mark is moved by a credit only; a row that is seen or ended stays so.
LEMMA MarkMoves ==
  ASSUME WatchOK, NEW e \in DOMAIN run, Handling(e) \/ AttemptFails(e), NEW t \in Watchers
  PROVE  /\ Mark(t)' = Mark(t) \/ (Credit(e) /\ t = run[e].entry /\ Mark(t)' = event[e].at)
         /\ RowOK(t)' /\ (client[t].at = "away" => ~row'[t].seen)
         /\ row[t].seen => row'[t].seen
         /\ row[t].ended => row'[t].ended
<1>1. client' = client /\ WatchTyped /\ RowOK(t) /\ ClientOK(t) /\ EventOK(e) /\ RunOK(e)
  BY EveryTurnMoves, RunIs DEF Moved, clockVars, WatchOK, LedgerShape
<1>2. /\ client[t].joined \in Int /\ client[t].since \in Int
      /\ row[t].seen \in BOOLEAN /\ row[t].ended \in BOOLEAN /\ row[t].marker \in Int
  BY <1>1 DEF WatchTyped, Rows, Ticks
<1>3. CASE row'[t] = row[t]
  BY <1>1, <1>3 DEF Mark, RowOK, ClientOK
<1>4. CASE /\ OnJoined(e) /\ t = event[e].of /\ ~row[t].seen
           /\ row'[t] = [seen |-> TRUE, ended |-> FALSE, marker |-> event[e].at]
  <2>1. event[e].kind = "joined"
    BY <1>4, OnJoinedTurn
  <2>2. event[e].at = client[t].joined /\ client[t].at # "away"
    BY <1>1, <1>4, <2>1 DEF EventOK
  <2> QED BY <1>1, <1>2, <1>4, <2>2 DEF Mark, RowOK, ClientOK
<1>5. CASE /\ Credit(e) /\ t = run[e].entry
           /\ row'[t] = [seen |-> TRUE, ended |-> row[t].ended, marker |-> event[e].at]
  <2>1. Pays(e, t) /\ EntryOK(e, t)
    BY <1>1, <1>5, CreditTurn DEF RunOK, WatchOK, LedgerShape, WatchTyped
  <2>2. /\ event[e].at \in Int /\ event[e].span[t] \in Nat
        /\ client[t].at # "away" /\ client[t].joined <= event[e].at - event[e].span[t]
        /\ event[e].at <= client[t].since
    <3>1. e \in DOMAIN event /\ t \in Watchers
      BY <1>1 DEF WatchTyped
    <3> QED BY <2>1, <3>1, EventIs DEF EntryOK, From
  <2> QED BY <1>1, <1>2, <1>5, <2>2 DEF Mark, RowOK
<1>6. CASE /\ EndSession(e) /\ t = run[e].entry
           /\ row'[t] = [seen |-> row[t].seen, ended |-> TRUE, marker |-> row[t].marker]
  <2>1. row[t].seen
    BY <1>1, <1>6, EndTurn DEF RunOK
  <2> QED BY <1>1, <1>2, <1>6, <2>1 DEF Mark, RowOK, ClientOK
<1> QED BY <1>3, <1>4, <1>5, <1>6, RowChanges

\* The runs of the other events keep their shape.
LEMMA RunKept ==
  ASSUME WatchOK, NEW e \in DOMAIN run, Handling(e) \/ AttemptFails(e),
         NEW f \in DOMAIN event', f # e
  PROVE  RunOK(f)'
<1>1. /\ RunOK(f) /\ EventOK(f) /\ run'[f] = run[f] /\ event'[f] = event[f]
  BY EveryTurnMoves, RunIs DEF Moved, WatchOK, WatchTyped
<1>2. \A t \in Watchers : (row[t].seen => row'[t].seen) /\ (row[t].ended => row'[t].ended)
  BY MarkMoves
<1>3. event[f].kind = "left" => event[f].of \in Watchers
  BY <1>1 DEF EventOK
<1>4. \A t : Pays(f, t)' = Pays(f, t)
  BY <1>1 DEF Pays
<1> QED BY <1>1, <1>2, <1>3, <1>4 DEF RunOK

\* A run that takes its next entry has its shape.
LEMMA EnteredOK ==
  ASSUME WatchOK, NEW e \in DOMAIN run, Handling(e) \/ AttemptFails(e), NEW todo, Enters(e, todo),
         event[e].kind = "left" => todo = {},
         event[e].kind \in {"checkpoint", "left"}, todo \subseteq {s \in Watchers : Pays(e, s)},
         e \in DOMAIN event'
  PROVE  RunOK(e)'
<1>1. PICK s \in todo : Turns(e, "gate", s, todo \ {s}, 0, run[e].wrote)
  BY DEF Enters, Ends
<1>2. event'[e] = event[e] /\ \A t : Pays(e, t)' = Pays(e, t)
  BY EveryTurnMoves DEF Moved, Pays
<1> QED BY <1>1, <1>2 DEF RunOK, Turns

\* The run that moves keeps its shape.
LEMMA RunTurned ==
  ASSUME WatchOK, NEW e \in DOMAIN run, Handling(e) \/ AttemptFails(e), e \in DOMAIN event'
  PROVE  RunOK(e)'
<1>1. /\ event'[e] = event[e] /\ RunOK(e) /\ EventOK(e) /\ event[e] \in Events /\ run[e] \in Runs
      /\ \A t : Pays(e, t)' = Pays(e, t)
  BY EveryTurnMoves, RunIs DEF Moved, Pays
<1>2. \A t \in Watchers : (row[t].seen => row'[t].seen) /\ (row[t].ended => row'[t].ended)
  BY MarkMoves
<1>3. event[e].kind = "left" => event[e].of \in Watchers
  BY <1>1 DEF EventOK
<1>4. CASE Enters(e, run[e].todo) /\ run[e].step # "queued"
  <2>1. /\ event[e].kind \in {"checkpoint", "left"} /\ (event[e].kind = "left" => run[e].todo = {})
        /\ run[e].todo \subseteq {s \in Watchers : Pays(e, s)}
    BY <1>1, <1>4 DEF RunOK
  <2> QED BY <1>4, <2>1, EnteredOK
<1>5. CASE OnJoined(e) \/ SetRoomPlaying(e)
  BY <1>5, OnJoinedTurn, SetRoomPlayingTurn DEF Ends
<1>6. CASE OnCheckpoint(e)
  <2> DEFINE todo == {s \in Watchers : Pays(e, s)}
  <2>1. Enters(e, todo) /\ event[e].kind = "checkpoint"
    BY <1>6, OnCheckpointTurn
  <2>2. todo \subseteq {s \in Watchers : Pays(e, s)}
    OBVIOUS
  <2> HIDE DEF todo
  <2> QED BY <2>1, <2>2, EnteredOK
<1>7. CASE OnLeft(e)
  BY <1>1, <1>7, OnLeftTurn DEF Turns, RunOK
<1>8. CASE Gate(e)
  <2>1. /\ Turns(e, "find", run[e].entry, run[e].todo,
                 IF playing THEN event[e].pay[run[e].entry] ELSE 0, run[e].wrote)
        /\ run[e].step = "gate" /\ event[e].kind = "checkpoint"
    BY <1>8, GateTurn
  <2>2. CASE playing
    BY <1>1, <2>1, <2>2 DEF Turns, RunOK
  <2>3. CASE ~playing
    BY <1>1, <2>1, <2>3 DEF Turns, RunOK
  <2> QED BY <2>2, <2>3
<1>9. CASE Find(e)
  <2>1. CASE Enters(e, run[e].todo)
    BY <1>4, <1>9, <2>1, FindTurn
  <2>2. CASE /\ Turns(e, "write", run[e].entry, run[e].todo, run[e].worth, run[e].wrote)
             /\ run'[e].read = row[run[e].entry]
             /\ ~row[run[e].entry].ended /\ (event[e].kind = "left" => row[run[e].entry].seen)
    <3>1. run[e].step = "find"
      BY <1>9, FindTurn
    <3> QED BY <1>1, <1>2, <1>3, <2>2, <3>1 DEF Turns, RunOK
  <2> QED BY <1>9, <2>1, <2>2, FindTurn
<1>10. CASE Credit(e)
  <2>1. CASE Enters(e, run[e].todo)
    BY <1>4, <1>10, <2>1, CreditTurn
  <2>2. CASE Turns(e, "totals", run[e].entry, run[e].todo, run[e].worth, TRUE)
    <3>1. run[e].step = "write" /\ event[e].kind = "checkpoint"
      BY <1>10, CreditTurn
    <3> QED BY <1>1, <2>2, <3>1 DEF Turns, RunOK
  <2>3. \/ Enters(e, run[e].todo)
        \/ Turns(e, "totals", run[e].entry, run[e].todo, run[e].worth, TRUE)
    BY <1>10, CreditTurn
  <2> QED BY <2>1, <2>2, <2>3
<1>11. CASE EndSession(e)
  <2>1. /\ Turns(e, "tail", run[e].entry, run[e].todo, Whole(Surplus(e)), TRUE)
        /\ run[e].step = "write" /\ event[e].kind = "left" /\ run[e].entry = event[e].of
    BY <1>1, <1>11, EndTurn DEF RunOK
  <2>2. row'[event[e].of].ended
    <3>1. row \in [Watchers -> Rows] /\ row' = [row EXCEPT ![event[e].of].ended = TRUE]
      BY <1>11, <2>1, RunIs DEF EndSession, WatchTyped
    <3> QED BY <1>3, <2>1, <3>1 DEF Rows
  <2> QED BY <1>1, <2>1, <2>2 DEF Turns, RunOK
<1>12. CASE PayTail(e)
  BY <1>1, <1>2, <1>3, <1>12, PayTailTurn DEF Turns, Ends, RunOK
<1>13. CASE AddToTotals(e)
  <2>1. /\ Turns(e, "score", run[e].entry, run[e].todo, run[e].worth, run[e].wrote)
        /\ run[e].step = "totals"
    BY <1>13, TotalsTurn
  <2>2. event[e].kind = "checkpoint" \/ event[e].kind = "left"
    BY <1>1, <2>1 DEF RunOK
  <2>3. CASE event[e].kind = "checkpoint"
    BY <1>1, <2>1, <2>3 DEF Turns, RunOK
  <2>4. CASE event[e].kind = "left"
    <3>1. /\ run[e].step = "totals" /\ run[e].entry = event[e].of /\ run[e].todo = {} /\ run[e].wrote
          /\ row[event[e].of].ended /\ event[e].of \in Watchers
      BY <1>1, <1>3, <2>1, <2>4 DEF RunOK
    <3>2. row'[event[e].of].ended
      BY <1>2, <3>1
    <3>3. /\ run'[e].step = "score" /\ run'[e].entry = event[e].of /\ run'[e].todo = {} /\ run'[e].wrote
      BY <2>1, <3>1 DEF Turns
    <3> QED BY <1>1, <2>4, <3>2, <3>3 DEF RunOK
  <2> QED BY <2>2, <2>3, <2>4
<1>14. CASE IncrementScore(e)
  BY <1>4, <1>14, ScoreTurn
<1>15. CASE AttemptFails(e)
  <2>1. run'[e] = Queued /\ Queued.step = "queued"
    BY <1>15, FailTurn, QueuedIs
  <2> QED BY <2>1 DEF RunOK
<1> QED BY <1>5, <1>6, <1>7, <1>8, <1>9, <1>10, <1>11, <1>12, <1>13, <1>14, <1>15 DEF Handling

\* Every step of a handler keeps the shape of the ledger.
LEMMA HandlingShape ==
  ASSUME WatchOK, NEW e \in DOMAIN run, Handling(e) \/ AttemptFails(e)
  PROVE  LedgerShape'
<1>1. /\ UNCHANGED <<tick, client>> /\ mishap \subseteq mishap' /\ WatchTyped
      /\ DOMAIN event' \subseteq DOMAIN event /\ \A f \in DOMAIN event' : event'[f] = event[f]
  BY EveryTurnMoves DEF Moved, clockVars, WatchOK
<1>2. ASSUME NEW s \in Watchers PROVE ClientOK(s)' /\ RowOK(s)'
  BY <1>1, MarkMoves DEF ClientOK, WatchOK, LedgerShape
<1>3. ASSUME NEW f \in DOMAIN event' PROVE EventOK(f)' /\ RunOK(f)'
  <2>1. RunOK(f)'
    BY RunKept, RunTurned
  <2>2. EventOK(f)
    BY <1>1 DEF WatchOK, LedgerShape
  <2>3. EventOK(f)'
    BY <1>1, <2>2 DEF EventOK
  <2> QED BY <2>1, <2>3
<1>4. ASSUME NEW f \in DOMAIN event', NEW s \in Watchers PROVE EntryOK(f, s)'
  <2>1. /\ Pays(f, s)' = Pays(f, s) /\ From(f, s)' = From(f, s) /\ event'[f].at = event[f].at
        /\ EntryOK(f, s) /\ f \in DOMAIN event /\ event'[f] = event[f]
    BY <1>1 DEF Pays, From, WatchOK, LedgerShape
  <2>2. CASE Mark(s)' = Mark(s)
    BY <1>1, <2>1, <2>2 DEF EntryOK
  <2>3. CASE Credit(e) /\ s = run[e].entry /\ Mark(s)' = event[e].at
    <3>1. e \in DOMAIN event /\ Pays(e, s) /\ event[e] \in Events /\ event[f] \in Events
      BY <1>1, <2>1, <2>3, CreditTurn, RunIs DEF RunOK, WatchTyped
    <3>2. Disjoint(e, f, s)
      BY <2>1, <3>1 DEF WatchOK, LedgerShape
    <3>3. /\ event[e].at \in Nat /\ event[f].at \in Nat /\ event[e].span[s] \in Nat
          /\ event[f].span[s] \in Nat
      BY <2>1, <3>1, EventIs
    <3>4. Pays(f, s) => From(f, s) >= event[e].at \/ event[f].at <= event[e].at
      BY <3>1, <3>2, <3>3 DEF Disjoint, From, Pays
    <3> QED BY <1>1, <2>1, <2>3, <3>4 DEF EntryOK
  <2> QED BY <2>2, <2>3, MarkMoves
<1>5. ASSUME NEW f \in DOMAIN event', NEW h \in DOMAIN event', NEW s \in Watchers
      PROVE  Disjoint(f, h, s)'
  <2>1. Disjoint(f, h, s) /\ event'[f] = event[f] /\ event'[h] = event[h]
    BY <1>1 DEF WatchOK, LedgerShape
  <2> QED BY <2>1 DEF Disjoint, Pays, From
<1> QED BY <1>2, <1>3, <1>4, <1>5 DEF LedgerShape

-------------------------------------------------------------------------------
(* Watch time: the shape of the ledger, under what the gateway and playback report *)

\* What a socket and its row are.
LEMMA ClientIs ==
  ASSUME WatchOK, NEW s \in Watchers
  PROVE  /\ client[s] \in Clients /\ ClientOK(s) /\ RowOK(s)
         /\ client[s].joined \in Nat /\ client[s].since \in Nat /\ client[s].gone \in Nat
         /\ tick \in Nat /\ client[s].at \in {"away", "here", "gone"} /\ row[s] \in Rows
         /\ row[s].marker \in Nat /\ row[s].seen \in BOOLEAN /\ row[s].ended \in BOOLEAN
         /\ client[s].joined <= Mark(s) /\ Mark(s) <= client[s].since /\ Mark(s) \in Nat
<1>1. client[s] \in Clients /\ ClientOK(s) /\ RowOK(s) /\ tick \in Ticks /\ row[s] \in Rows
  BY DEF WatchOK, WatchTyped, LedgerShape, Clients
<1>2. Ticks \subseteq Nat
  BY WatchTimeAssumption DEF Ticks
<1> QED BY <1>1, <1>2 DEF Clients, Rows, ClientOK, RowOK, Mark

\* An event that is added keeps the shape, if what it says of its session is right
\* and what it pays starts after the last checkpoint.
LEMMA AddedShape ==
  ASSUME WatchOK, NEW e, NEW kind \in Kinds, NEW of, NEW span \in [Watchers -> Ticks],
         Added(e, kind, of, span), UNCHANGED <<tick, storeVars>>,
         \A s \in Watchers : ClientOK(s)' /\ RowOK(s)',
         \A f \in DOMAIN event : EventOK(f)', EventOK(e)',
         \A f \in DOMAIN event, s \in Watchers : EntryOK(f, s)',
         \A s \in Watchers : EntryOK(e, s)',
         \A s \in Watchers : kind = "checkpoint" /\ Whole(span[s]) > 0 =>
                               tick - span[s] >= client[s].since
  PROVE  LedgerShape'
<1>0. /\ DOMAIN event' = DOMAIN event \cup {e} /\ e \notin DOMAIN event
      /\ event'[e] = [kind |-> kind, of |-> of, at |-> tick, pay |-> WholeSeconds(span), span |-> span]
      /\ run'[e] = Queued
      /\ \A f \in DOMAIN event : event'[f] = event[f] /\ run'[f] = run[f]
      /\ row' = row
  BY DEF Added, storeVars
<1>1. ASSUME NEW f \in DOMAIN event' PROVE EventOK(f)' /\ RunOK(f)'
  <2>1. CASE f = e
    BY <1>0, <2>1, QueuedIs DEF RunOK
  <2>2. CASE f # e
    <3>1. f \in DOMAIN event /\ RunOK(f) /\ event'[f] = event[f] /\ run'[f] = run[f]
      BY <1>0, <2>2, EventIs
    <3> QED BY <1>0, <3>1 DEF RunOK, Pays
  <2> QED BY <2>1, <2>2
<1>2. ASSUME NEW f \in DOMAIN event', NEW s \in Watchers PROVE EntryOK(f, s)'
  BY <1>0
<1>3. ASSUME NEW f \in DOMAIN event, NEW s \in Watchers, Pays(e, s)', Pays(f, s)
      PROVE  event[f].at <= From(e, s)'
  <2>1. event[f].at <= client[s].since
    BY <1>3, EventIs DEF EntryOK
  <2>2. tick - span[s] >= client[s].since /\ From(e, s)' = tick - span[s]
    BY <1>0, <1>3 DEF Pays, From, WholeSeconds
  <2>3. tick \in Nat /\ span[s] \in Nat /\ client[s].since \in Nat /\ event[f].at \in Nat
    BY ClientIs, EventIs, WatchTimeAssumption DEF Ticks
  <2> QED BY <2>1, <2>2, <2>3
<1>4. ASSUME NEW f \in DOMAIN event', NEW h \in DOMAIN event', NEW s \in Watchers
      PROVE  Disjoint(f, h, s)'
  <2>1. CASE f = e \/ h = e
    BY <1>0, <1>3, <2>1 DEF Disjoint, Pays, From
  <2>2. CASE f # e /\ h # e
    <3>1. f \in DOMAIN event /\ h \in DOMAIN event /\ Disjoint(f, h, s)
      BY <1>0, <2>2 DEF WatchOK, LedgerShape
    <3> QED BY <1>0, <3>1 DEF Disjoint, Pays, From
  <2> QED BY <2>1, <2>2
<1> QED BY <1>1, <1>2, <1>4 DEF LedgerShape

\* A second that passes changes no shape.
LEMMA SilentShape ==
  ASSUME WatchOK, TickPasses PROVE LedgerShape'
<1>1. /\ tick' = tick + 1 /\ UNCHANGED <<client, event, run, row, mishap>>
  BY DEF TickPasses, busVars, storeVars
<1>2. \A s \in Watchers : ClientOK(s)' /\ RowOK(s)'
  BY <1>1, ClientIs DEF ClientOK, RowOK
<1>3. \A f \in DOMAIN event : EventOK(f)' /\ RunOK(f)'
  <2> TAKE f \in DOMAIN event
  <2>1. EventOK(f) /\ RunOK(f) /\ event[f].at \in Nat /\ event[f] \in Events
    BY EventIs
  <2>2. tick \in Nat
    BY WatchTimeAssumption DEF WatchOK, WatchTyped, Ticks
  <2>3. EventOK(f)'
    BY <1>1, <2>1, <2>2 DEF EventOK
  <2>4. RunOK(f)'
    BY <1>1, <2>1 DEF RunOK, Pays
  <2> QED BY <2>3, <2>4
<1>4. \A f \in DOMAIN event, s \in Watchers : EntryOK(f, s)'
  <2> TAKE f \in DOMAIN event, s \in Watchers
  <2>1. EntryOK(f, s)
    BY EventIs
  <2> QED BY <1>1, <2>1 DEF EntryOK, Pays, From, Mark
<1>5. \A f, h \in DOMAIN event, s \in Watchers : Disjoint(f, h, s)'
  BY <1>1 DEF Disjoint, Pays, From, WatchOK, LedgerShape
<1> QED BY <1>1, <1>2, <1>3, <1>4, <1>5 DEF LedgerShape

\* A join keeps the shape.
LEMMA JoinShape ==
  ASSUME WatchOK, NEW s \in Watchers, Join(s) PROVE LedgerShape'
<1>1. PICK e : Added(e, "joined", s, NoPay)
  BY PublishAdds DEF Join, WatchOK
<1>2. /\ client[s].at = "away" /\ UNCHANGED <<tick, row, mishap>>
      /\ client' = [client EXCEPT ![s] = [at |-> "here", joined |-> tick, since |-> tick, gone |-> 0]]
      /\ client \in [Watchers -> Clients]
  BY DEF Join, storeVars, WatchOK, WatchTyped, Clients
<1>3. \A t \in Watchers : t # s => client'[t] = client[t]
  BY <1>2
<1>4. client'[s] = [at |-> "here", joined |-> tick, since |-> tick, gone |-> 0]
  BY <1>2
<1>5. ASSUME NEW t \in Watchers PROVE ClientOK(t)' /\ RowOK(t)'
  <2>1. ClientOK(t) /\ RowOK(t) /\ tick \in Nat
    BY ClientIs
  <2>2. CASE t = s
    BY <1>2, <1>4, <2>1, <2>2 DEF ClientOK, RowOK
  <2>3. CASE t # s
    BY <1>2, <1>3, <2>1, <2>3 DEF ClientOK, RowOK
  <2> QED BY <2>2, <2>3
<1>6. \A f \in DOMAIN event : event'[f] = event[f]
  BY <1>1 DEF Added
<1>7. ASSUME NEW f \in DOMAIN event PROVE EventOK(f)'
  <2>1. EventOK(f)
    BY EventIs
  <2>2. event[f].kind \in {"joined", "left"} => event[f].of \in Watchers /\ event[f].of # s
    BY <1>2, <2>1 DEF EventOK
  <2> QED BY <1>2, <1>3, <1>6, <2>1, <2>2 DEF EventOK
<1>8. event'[e] = [kind |-> "joined", of |-> s, at |-> tick,
                  pay |-> WholeSeconds(NoPay), span |-> NoPay]
  BY <1>1 DEF Added
<1>9. EventOK(e)'
  BY <1>2, <1>4, <1>8, ClientIs DEF EventOK
<1>10. ASSUME NEW f \in DOMAIN event, NEW t \in Watchers PROVE EntryOK(f, t)'
  <2>1. EntryOK(f, t)
    BY EventIs
  <2>2. Pays(f, t) => t # s
    BY <1>2, <2>1 DEF EntryOK
  <2> QED BY <1>2, <1>3, <1>6, <2>1, <2>2 DEF EntryOK, Pays, From, Mark
<1>11. \A t \in Watchers : EntryOK(e, t)'
  BY <1>8, NoPayTyped DEF EntryOK, Pays
<1> QED BY <1>1, <1>2, <1>5, <1>7, <1>9, <1>10, <1>11, AddedShape, NoPayTyped DEF Kinds, Join

\* A leave keeps the shape.
LEMMA LeaveShape ==
  ASSUME WatchOK, NEW s \in Watchers, Leave(s) PROVE LedgerShape'
<1>1. PICK e : Added(e, "left", s, NoPay)
  BY PublishAdds DEF Leave, WatchOK
<1>2. /\ client[s].at = "here" /\ UNCHANGED <<tick, row, mishap>>
      /\ client' = [client EXCEPT ![s].at = "gone", ![s].gone = tick]
      /\ client \in [Watchers -> Clients]
  BY DEF Leave, storeVars, WatchOK, WatchTyped, Clients
<1>3. /\ \A t \in Watchers : /\ t # s => client'[t] = client[t]
                             /\ client'[t].joined = client[t].joined
                             /\ client'[t].since = client[t].since
                             /\ client'[t].at = "away" <=> client[t].at = "away"
      /\ client'[s].at = "gone" /\ client'[s].gone = tick
  BY <1>2 DEF Clients
<1>4. ASSUME NEW t \in Watchers PROVE ClientOK(t)' /\ RowOK(t)'
  <2>1. ClientOK(t) /\ RowOK(t) /\ tick \in Nat
    BY ClientIs
  <2>2. CASE t = s
    BY <1>2, <1>3, <2>1, <2>2 DEF ClientOK, RowOK
  <2>3. CASE t # s
    BY <1>2, <1>3, <2>1, <2>3 DEF ClientOK, RowOK
  <2> QED BY <2>2, <2>3
<1>5. \A f \in DOMAIN event : event'[f] = event[f]
  BY <1>1 DEF Added
<1>6. ASSUME NEW f \in DOMAIN event PROVE EventOK(f)'
  <2>1. EventOK(f)
    BY EventIs
  <2>2. event[f].kind = "left" /\ mishap = {} => event[f].of # s
    BY <1>2, <2>1 DEF EventOK
  <2>3. event[f].kind \in {"joined", "left"} => event[f].of \in Watchers
    BY <2>1 DEF EventOK
  <2>4. CASE event[f].of = s
    BY <1>2, <1>3, <1>5, <2>1, <2>2, <2>4 DEF EventOK
  <2>5. CASE event[f].of # s
    BY <1>2, <1>3, <1>5, <2>1, <2>3, <2>5 DEF EventOK
  <2> QED BY <2>4, <2>5
<1>7. event'[e] = [kind |-> "left", of |-> s, at |-> tick,
                  pay |-> WholeSeconds(NoPay), span |-> NoPay]
  BY <1>1 DEF Added
<1>8. EventOK(e)'
  <2>1. client[s].joined <= tick
    BY ClientIs DEF ClientOK
  <2> QED BY <1>2, <1>3, <1>7, <2>1, ClientIs DEF EventOK
<1>9. ASSUME NEW f \in DOMAIN event, NEW t \in Watchers PROVE EntryOK(f, t)'
  <2>1. EntryOK(f, t)
    BY EventIs
  <2> QED BY <1>2, <1>3, <1>5, <2>1 DEF EntryOK, Pays, From, Mark
<1>10. \A t \in Watchers : EntryOK(e, t)'
  BY <1>7, NoPayTyped DEF EntryOK, Pays
<1> QED BY <1>1, <1>2, <1>4, <1>6, <1>8, <1>9, <1>10, AddedShape, NoPayTyped DEF Kinds, Leave

\* A sweep keeps the shape.
LEMMA SweepShape ==
  ASSUME WatchOK, NEW s \in Watchers, Sweep(s) PROVE LedgerShape'
<1>1. PICK e : Added(e, "left", s, NoPay)
  BY PublishAdds DEF Sweep, WatchOK
<1>2. client[s].at = "here" /\ UNCHANGED <<tick, row, client, storeVars>> /\ mishap' # {}
  BY DEF Sweep, clockVars, storeVars, Trouble
<1>3. \A t \in Watchers : ClientOK(t)' /\ RowOK(t)'
  BY <1>2, ClientIs DEF ClientOK, RowOK
<1>4. \A f \in DOMAIN event : event'[f] = event[f]
  BY <1>1 DEF Added
<1>5. \A f \in DOMAIN event : EventOK(f)'
  BY <1>2, <1>4, EventIs DEF EventOK
<1>6. event'[e] = [kind |-> "left", of |-> s, at |-> tick,
                  pay |-> WholeSeconds(NoPay), span |-> NoPay]
  BY <1>1 DEF Added
<1>7. EventOK(e)'
  BY <1>2, <1>6, ClientIs DEF EventOK, ClientOK
<1>8. ASSUME NEW f \in DOMAIN event, NEW t \in Watchers PROVE EntryOK(f, t)'
  <2>1. EntryOK(f, t)
    BY EventIs
  <2> QED BY <1>2, <1>4, <2>1 DEF EntryOK, Pays, From, Mark
<1>9. \A t \in Watchers : EntryOK(e, t)'
  BY <1>6, NoPayTyped DEF EntryOK, Pays
<1> QED BY <1>1, <1>2, <1>3, <1>5, <1>7, <1>8, <1>9, AddedShape, NoPayTyped DEF Kinds

\* A start or a stop of the player keeps the shape, and so does a removal.
LEMMA PlaybackShape ==
  ASSUME WatchOK, Playback \/ RemoveQueued PROVE LedgerShape'
<1>1. PICK kind \in {"started", "skipped"} : Publish(kind, Nobody, NoPay)
  BY DEF Playback, RemoveQueued
<1>2. PICK e : Added(e, kind, Nobody, NoPay)
  BY <1>1, PublishAdds DEF WatchOK
<1>3. UNCHANGED <<tick, row, client, storeVars>> /\ mishap' # {}
  BY DEF Playback, RemoveQueued, clockVars, storeVars, Trouble
<1>4. \A t \in Watchers : ClientOK(t)' /\ RowOK(t)'
  BY <1>3, ClientIs DEF ClientOK, RowOK
<1>5. \A f \in DOMAIN event : event'[f] = event[f]
  BY <1>2 DEF Added
<1>6. \A f \in DOMAIN event : EventOK(f)'
  BY <1>3, <1>5, EventIs DEF EventOK
<1>7. event'[e] = [kind |-> kind, of |-> Nobody, at |-> tick,
                  pay |-> WholeSeconds(NoPay), span |-> NoPay]
  BY <1>2 DEF Added
<1>8. EventOK(e)'
  BY <1>3, <1>7, WatchTimeAssumption DEF EventOK, WatchOK, WatchTyped, Ticks
<1>9. ASSUME NEW f \in DOMAIN event, NEW t \in Watchers PROVE EntryOK(f, t)'
  <2>1. EntryOK(f, t)
    BY EventIs
  <2> QED BY <1>3, <1>5, <2>1 DEF EntryOK, Pays, From, Mark
<1>10. \A t \in Watchers : EntryOK(e, t)'
  BY <1>7, NoPayTyped DEF EntryOK, Pays
<1>11. kind \in Kinds /\ kind # "checkpoint"
  BY DEF Kinds
<1> QED BY <1>2, <1>3, <1>4, <1>6, <1>8, <1>9, <1>10, <1>11, AddedShape, NoPayTyped

\* What a checkpoint stands for.
CheckpointSpan == [s \in Watchers |-> IF Due(s) THEN tick - client[s].since ELSE 0]

\* A checkpoint stands for the time since the last one of each socket that is due.
LEMMA CheckpointIs ==
  ASSUME WatchOK, Checkpoint
  PROVE  /\ \E e : Added(e, "checkpoint", Nobody, CheckpointSpan)
         /\ CheckpointSpan \in [Watchers -> Ticks] /\ UNCHANGED <<tick, onAir, storeVars, mishap>>
         /\ \A s \in Watchers :
              /\ Due(s) => /\ CheckpointSpan[s] = tick - client[s].since /\ Whole(CheckpointSpan[s]) > 0
                           /\ client'[s].since = tick
              /\ ~Due(s) => CheckpointSpan[s] = 0 /\ client'[s].since = client[s].since
              /\ client'[s].joined = client[s].joined /\ client'[s].gone = client[s].gone
              /\ client'[s].at = client[s].at
<1>1. Publish("checkpoint", Nobody, CheckpointSpan)
  BY DEF Checkpoint, CheckpointSpan
<1>2. CheckpointSpan \in [Watchers -> Ticks]
  BY DueIs, QueuedIs DEF WatchOK, CheckpointSpan
<1>3. ASSUME NEW s \in Watchers, Due(s)
      PROVE  /\ CheckpointSpan[s] = tick - client[s].since /\ Whole(CheckpointSpan[s]) > 0
             /\ client'[s] = [client[s] EXCEPT !.since = tick]
  BY <1>3, DueIs DEF CheckpointSpan, Checkpoint, WatchOK
<1>4. ASSUME NEW s \in Watchers, ~Due(s)
      PROVE  CheckpointSpan[s] = 0 /\ client'[s] = client[s]
  BY <1>4 DEF CheckpointSpan, Checkpoint
<1>5. ASSUME NEW s \in Watchers
      PROVE  LET c == [client[s] EXCEPT !.since = tick] IN
             c.since = tick /\ c.joined = client[s].joined /\ c.gone = client[s].gone /\ c.at = client[s].at
  BY ClientIs DEF Clients
<1> QED BY <1>1, <1>2, <1>3, <1>4, <1>5, PublishAdds DEF WatchOK, Checkpoint

\* A checkpoint keeps the shape: its entries start where the last ones ended.
LEMMA CheckpointShape ==
  ASSUME WatchOK, Checkpoint PROVE LedgerShape'
<1> DEFINE span == CheckpointSpan
<1>1. PICK e : Added(e, "checkpoint", Nobody, span)
  BY CheckpointIs
<1>2. UNCHANGED <<tick, row, mishap, storeVars>> /\ span \in [Watchers -> Ticks]
  BY CheckpointIs DEF storeVars
<1>3. \A f \in DOMAIN event : event'[f] = event[f]
  BY <1>1 DEF Added
<1>4. event'[e] = [kind |-> "checkpoint", of |-> Nobody, at |-> tick,
                  pay |-> WholeSeconds(span), span |-> span]
  BY <1>1 DEF Added
<1>5. ASSUME NEW s \in Watchers
      PROVE  /\ Due(s) => /\ span[s] = tick - client[s].since /\ Whole(span[s]) > 0
                          /\ client'[s].since = tick
             /\ ~Due(s) => span[s] = 0 /\ client'[s].since = client[s].since
             /\ client'[s].joined = client[s].joined /\ client'[s].gone = client[s].gone
             /\ client'[s].at = client[s].at
             /\ client[s].since <= client'[s].since /\ Mark(s)' = Mark(s)
  <2>1. /\ Due(s) => /\ span[s] = tick - client[s].since /\ Whole(span[s]) > 0
                     /\ client'[s].since = tick
        /\ ~Due(s) => span[s] = 0 /\ client'[s].since = client[s].since
        /\ client'[s].joined = client[s].joined /\ client'[s].gone = client[s].gone
        /\ client'[s].at = client[s].at
    BY CheckpointIs
  <2>2. client[s].since <= tick /\ client[s].since \in Nat
    BY ClientIs DEF ClientOK
  <2> QED BY <1>2, <2>1, <2>2 DEF Mark
<1> HIDE DEF span
<1>12. ~(0 > 0) /\ Whole(0) = 0
  BY WholeIs, QueuedIs
<1>6. ASSUME NEW s \in Watchers PROVE ClientOK(s)' /\ RowOK(s)'
  <2>1. ClientOK(s) /\ RowOK(s) /\ tick \in Nat /\ client[s].since \in Nat /\ client[s].joined \in Nat
        /\ row[s].marker \in Nat
    BY ClientIs
  <2>2. CASE Due(s)
    BY <1>2, <1>5, <2>1, <2>2, DueIs DEF ClientOK, RowOK, WatchOK
  <2>3. CASE ~Due(s)
    BY <1>2, <1>5, <2>1, <2>3 DEF ClientOK, RowOK
  <2> QED BY <2>2, <2>3
<1>7. ASSUME NEW f \in DOMAIN event PROVE EventOK(f)'
  BY <1>2, <1>3, <1>5, EventIs DEF EventOK
<1>8. EventOK(e)'
  BY <1>2, <1>4, WatchTimeAssumption DEF EventOK, WatchOK, WatchTyped, Ticks
<1>9. ASSUME NEW f \in DOMAIN event, NEW s \in Watchers PROVE EntryOK(f, s)'
  <2>1. EntryOK(f, s) /\ event[f].at \in Nat /\ client[s].since \in Nat
    BY EventIs, ClientIs
  <2>2. client'[s].since \in Nat
    BY <1>2, <1>5, <2>1, ClientIs
  <2> QED BY <1>2, <1>3, <1>5, <2>1, <2>2 DEF EntryOK, Pays, From
<1>10. ASSUME NEW s \in Watchers PROVE EntryOK(e, s)'
  <2>1. CASE Due(s)
    <3>1. client[s].joined <= Mark(s) /\ Mark(s) <= client[s].since /\ Mark(s) \in Nat
          /\ client[s].joined \in Nat /\ client[s].since \in Nat /\ tick \in Nat
      BY ClientIs
    <3>2. From(e, s)' = client[s].since /\ client[s].at = "here"
      BY <1>2, <1>4, <1>5, <2>1, <3>1 DEF From, Due
    <3> QED BY <1>2, <1>4, <1>5, <2>1, <3>1, <3>2 DEF EntryOK, WholeSeconds
  <2>2. CASE ~Due(s)
    BY <1>4, <1>5, <1>12, <2>2 DEF EntryOK, Pays, WholeSeconds
  <2> QED BY <2>1, <2>2
<1>11. ASSUME NEW s \in Watchers, Whole(span[s]) > 0 PROVE tick - span[s] >= client[s].since
  <2>1. span[s] = tick - client[s].since
    BY <1>5, <1>11, <1>12
  <2> QED BY <2>1, ClientIs
<1> QED BY <1>1, <1>2, <1>6, <1>7, <1>8, <1>9, <1>10, <1>11, AddedShape DEF Kinds

\* Types and shape are inductive.
LEMMA WatchKept == ASSUME WatchOK, WatchNext \/ WatchRest PROVE WatchOK'
<1>1. CASE WatchNext
  <2>1. LedgerShape'
    BY <1>1, SilentShape, JoinShape, LeaveShape, SweepShape, PlaybackShape, CheckpointShape, HandlingShape
       DEF WatchNext
  <2> QED BY <1>1, <2>1, WatchTypes DEF WatchOK
<1>2. CASE WatchRest
  BY <1>2 DEF WatchRest, WatchOK, WatchTyped, LedgerShape, ClientOK, RowOK, EventOK, RunOK, EntryOK,
              Disjoint, Pays, From, Mark, watchVars, clockVars, busVars, storeVars
<1> QED BY <1>1, <1>2

-------------------------------------------------------------------------------
(* Watch time: the seconds under way, turn by turn *)

\* A step of a run changes a sum by what that run holds.
LEMMA TurnSums ==
  ASSUME WatchOK, WatchTyped', NEW e \in DOMAIN run, Moved(e), NEW s, NEW steps
  PROVE  /\ Sum(run, s, steps)' + Part(run, e, s, steps) = Sum(run, s, steps) + Part(run, e, s, steps)'
         /\ Sum(run, s, steps)' \in Nat /\ Sum(run, s, steps) \in Nat
<1> DEFINE r == run  t == run'
<1>1. IsFiniteSet(DOMAIN r) /\ IsFiniteSet(DOMAIN t)
  <2>1. IsFiniteSet(DOMAIN run)
    BY RunsAreFinite DEF WatchOK
  <2>2. IsFiniteSet(DOMAIN run')
    BY <2>1, FS_Subset DEF Moved, WatchOK, WatchTyped
  <2> QED BY <2>1, <2>2
<1>2. e \in DOMAIN r => r[e].worth \in Ticks
  BY DEF WatchOK, WatchTyped, Runs
<1>3. e \in DOMAIN t => t[e].worth \in Ticks
  BY DEF WatchTyped, Runs
<1>4. (DOMAIN r) \ {e} = (DOMAIN t) \ {e} /\ \A f \in (DOMAIN t) \ {e} : t[f] = r[f]
  BY DEF Moved, WatchOK, WatchTyped
<1> HIDE DEF r, t
<1>5. /\ Sum(t, s, steps) + Part(r, e, s, steps) = Sum(r, s, steps) + Part(t, e, s, steps)
      /\ Sum(t, s, steps) \in Nat /\ Sum(r, s, steps) \in Nat
  BY <1>1, <1>2, <1>3, <1>4, SumChanges
<1> QED BY <1>5 DEF r, t

\* An event that is added holds nothing.
LEMMA AddedSums ==
  ASSUME WatchOK, WatchTyped', NEW e, NEW kind, NEW of, NEW pay, Added(e, kind, of, pay), NEW s,
         NEW steps, "queued" \notin steps
  PROVE  /\ Sum(run, s, steps)' = Sum(run, s, steps) /\ Sum(run, s, steps) \in Nat
<1> DEFINE r == run  t == run'
<1>1. IsFiniteSet(DOMAIN r) /\ IsFiniteSet(DOMAIN t)
  <2>1. IsFiniteSet(DOMAIN run) /\ IsFiniteSet({e})
    BY RunsAreFinite, FS_Singleton DEF WatchOK
  <2>2. DOMAIN run' = DOMAIN run \cup {e}
    BY DEF Added
  <2>3. IsFiniteSet(DOMAIN run \cup {e})
    BY <2>1, FS_Union
  <2> QED BY <2>1, <2>2, <2>3
<1>2. e \notin DOMAIN r /\ e \in DOMAIN t /\ t[e] = Queued
  BY DEF Added, WatchOK, WatchTyped
<1>3. t[e].worth \in Ticks /\ t[e].step \notin steps
  BY <1>2, QueuedIs DEF Runs
<1>4. (DOMAIN r) \ {e} = (DOMAIN t) \ {e} /\ \A f \in (DOMAIN t) \ {e} : t[f] = r[f]
  BY DEF Added, WatchOK, WatchTyped
<1>5. Part(r, e, s, steps) = 0 /\ Part(t, e, s, steps) = 0
  BY <1>2, <1>3 DEF Part
<1>7. (e \in DOMAIN r => r[e].worth \in Ticks) /\ (e \in DOMAIN t => t[e].worth \in Ticks)
  BY <1>2, <1>3
<1> HIDE DEF r, t
<1>6. /\ Sum(t, s, steps) + Part(r, e, s, steps) = Sum(r, s, steps) + Part(t, e, s, steps)
      /\ Sum(t, s, steps) \in Nat /\ Sum(r, s, steps) \in Nat
  BY <1>1, <1>4, <1>7, SumChanges
<1> QED BY <1>5, <1>6 DEF r, t

\* The same for a run that turns to a step.
LEMMA PartOfTurn ==
  ASSUME WatchOK, WatchTyped', NEW e \in DOMAIN run, NEW step, NEW entry, NEW todo, NEW worth, NEW wrote,
         Turns(e, step, entry, todo, worth, wrote), NEW s, NEW steps
  PROVE  Part(run, e, s, steps)' = IF step \in steps /\ s = entry THEN worth ELSE 0
BY DEF Part, Turns, WatchTyped

\* What a run that goes on holds after its step.
LEMMA PartAfter ==
  ASSUME WatchTyped', NEW e \in DOMAIN event', NEW s, NEW steps
  PROVE  Part(run, e, s, steps)'
           = IF run'[e].step \in steps /\ s = run'[e].entry THEN run'[e].worth ELSE 0
BY DEF Part, WatchTyped

\* A run at its next entry holds nothing yet.
LEMMA PartOfEnter ==
  ASSUME WatchOK, WatchTyped', NEW e \in DOMAIN run, NEW todo, Enters(e, todo), NEW s,
         NEW steps, "gate" \notin steps
  PROVE  Part(run, e, s, steps)' = 0
<1>1. CASE Ends(e)
  BY <1>1 DEF Ends, Part, WatchTyped
<1>2. ASSUME NEW t \in todo, Turns(e, "gate", t, todo \ {t}, 0, run[e].wrote)
      PROVE  Part(run, e, s, steps)' = 0
  BY <1>2, PartOfTurn
<1> QED BY <1>1, <1>2 DEF Enters

\* What a run holds before its step.
LEMMA PartBefore ==
  ASSUME WatchOK, NEW e \in DOMAIN run, NEW s, NEW steps
  PROVE  /\ Part(run, e, s, steps) = IF run[e].step \in steps /\ s = run[e].entry THEN run[e].worth ELSE 0
         /\ Part(run, e, s, steps) \in Nat /\ run[e].worth \in Nat
BY WatchTimeAssumption DEF Part, WatchOK, WatchTyped, Runs, Ticks

-------------------------------------------------------------------------------
(* Watch time: what a session got, turn by turn *)

\* The steps that credit nobody and end nothing.
Quiet(e) ==
  \/ OnJoined(e) \/ OnCheckpoint(e) \/ OnLeft(e) \/ SetRoomPlaying(e) \/ Gate(e) \/ Find(e)
  \/ PayTail(e) \/ AddToTotals(e) \/ IncrementScore(e) \/ AttemptFails(e)

\* Every step of a handler is a credit, an end or one of these.
LEMMA TurnIsOf == ASSUME NEW e, Handling(e) \/ AttemptFails(e) PROVE Credit(e) \/ EndSession(e) \/ Quiet(e)
BY DEF Handling, Quiet

\* What a session got is a number of seconds.
LEMMA GotIs == ASSUME WatchOK, NEW s \in Watchers PROVE Got(s) \in Nat
<1>1. IsFiniteSet(DOMAIN run) /\ 0 \notin DOMAIN run /\ total[s] \in Nat
  BY RunsAreFinite DEF WatchOK, WatchTyped
<1>2. /\ Sum(run, s, Waiting) = Others(run, 0, s, Waiting) + Part(run, 0, s, Waiting)
      /\ Others(run, 0, s, Waiting) \in Nat /\ Part(run, 0, s, Waiting) \in Nat
  BY <1>1, SumSplits
<1> QED BY <1>1, <1>2 DEF Got, Waiting

\* An event that is published pays nobody.
LEMMA GotAdded ==
  ASSUME WatchOK, WatchTyped', NEW e, NEW kind, NEW of, NEW pay, Added(e, kind, of, pay),
         UNCHANGED total, NEW s \in Watchers
  PROVE  Got(s)' = Got(s) /\ Got(s) \in Nat
<1>1. Sum(run, s, Waiting)' = Sum(run, s, Waiting) /\ Sum(run, s, Waiting) \in Nat
  BY AddedSums DEF Waiting
<1>2. total[s] \in Nat
  BY DEF WatchOK, WatchTyped
<1> HIDE DEF Sum
<1> QED BY <1>1, <1>2 DEF Got, Waiting

\* What a step of a run changes of what a session got.
LEMMA GotTurns ==
  ASSUME WatchOK, WatchTyped', NEW e \in DOMAIN run, Moved(e), NEW s \in Watchers
  PROVE  /\ Got(s) \in Nat /\ Got(s)' \in Nat
         /\ Got(s)' + Part(run, e, s, Waiting) + total[s]
              = Got(s) + Part(run, e, s, Waiting)' + total'[s]
<1>1. /\ Sum(run, s, Waiting)' + Part(run, e, s, Waiting)
           = Sum(run, s, Waiting) + Part(run, e, s, Waiting)'
      /\ Sum(run, s, Waiting)' \in Nat /\ Sum(run, s, Waiting) \in Nat
  BY TurnSums
<1>2. total[s] \in Nat /\ total'[s] \in Nat
  BY DEF WatchOK, WatchTyped
<1>3. Got(s) = total[s] + Sum(run, s, Waiting) /\ Got(s)' = total'[s] + Sum(run, s, Waiting)'
  BY DEF Got, Waiting
<1>4. Part(run, e, s, Waiting) \in Nat
  BY PartBefore
<1>5. Part(run, e, s, Waiting)' \in Nat
  BY WatchTimeAssumption DEF WatchTyped, Runs, Ticks, Part
<1> QED BY <1>1, <1>2, <1>3, <1>4, <1>5

\* A credit pays its session what its entry is worth.
LEMMA CreditPays ==
  ASSUME WatchOK, WatchTyped', NEW e \in DOMAIN run, Credit(e), NEW s \in Watchers
  PROVE  Got(s)' = IF s = run[e].entry THEN Got(s) + run[e].worth ELSE Got(s)
<1>1. /\ Got(s) \in Nat /\ Got(s)' \in Nat
      /\ Got(s)' + Part(run, e, s, Waiting) + total[s]
           = Got(s) + Part(run, e, s, Waiting)' + total'[s]
  BY EveryTurnMoves, GotTurns DEF Handling
<1>2. total' = total /\ total[s] \in Nat
  BY DEF Credit, WatchOK, WatchTyped
<1>3. run[e].step = "write" /\ run[e].worth \in Nat
  BY CreditTurn, PartBefore
<1>4. Part(run, e, s, Waiting) = 0
  BY <1>3, PartBefore DEF Waiting
<1>5. CASE Enters(e, run[e].todo) /\ run[e].worth = 0
  <2>1. Part(run, e, s, Waiting)' = 0
    BY <1>5, PartOfEnter DEF Waiting
  <2> QED BY <1>1, <1>2, <1>4, <1>5, <2>1
<1>6. CASE Turns(e, "totals", run[e].entry, run[e].todo, run[e].worth, TRUE)
  <2>1. Part(run, e, s, Waiting)' = IF s = run[e].entry THEN run[e].worth ELSE 0
    BY <1>6, PartAfter DEF Turns, Waiting
  <2> QED BY <1>1, <1>2, <1>3, <1>4, <2>1
<1> QED BY <1>5, <1>6, CreditTurn

\* An end pays its session the residue.
LEMMA EndPays ==
  ASSUME WatchOK, WatchTyped', NEW e \in DOMAIN run, EndSession(e), NEW s \in Watchers
  PROVE  Got(s)' = IF s = run[e].entry THEN Got(s) + Whole(Surplus(e)) ELSE Got(s)
<1>1. /\ Got(s) \in Nat /\ Got(s)' \in Nat
      /\ Got(s)' + Part(run, e, s, Waiting) + total[s]
           = Got(s) + Part(run, e, s, Waiting)' + total'[s]
  BY EveryTurnMoves, GotTurns DEF Handling
<1>2. total' = total /\ total[s] \in Nat
  BY DEF EndSession, WatchOK, WatchTyped
<1>3. Part(run, e, s, Waiting) = 0
  BY EndTurn, PartBefore DEF Waiting
<1>4. Part(run, e, s, Waiting)' = IF s = run[e].entry THEN Whole(Surplus(e)) ELSE 0
  <2>1. Turns(e, "tail", run[e].entry, run[e].todo, Whole(Surplus(e)), TRUE)
    BY EndTurn
  <2> QED BY <2>1, PartAfter DEF Turns, Waiting
<1>5. Whole(Surplus(e)) \in Nat
  BY WatchTimeAssumption, SurplusWhole DEF Ticks
<1> QED BY <1>1, <1>2, <1>3, <1>4, <1>5

\* The other steps pay nobody, and take an award back only where the room stands
\* still or an attempt fails after it has written.
LEMMA QuietPays ==
  ASSUME WatchOK, WatchTyped', NEW e \in DOMAIN run, Quiet(e), NEW s \in Watchers
  PROVE  /\ Got(s)' <= Got(s) /\ Got(s) \in Nat /\ Got(s)' \in Nat
         /\ \/ Got(s)' = Got(s)
            \/ PayTail(e) /\ ~playing
            \/ AttemptFails(e) /\ run[e].wrote
<1>1. /\ Got(s) \in Nat /\ Got(s)' \in Nat
      /\ Got(s)' + Part(run, e, s, Waiting) + total[s]
           = Got(s) + Part(run, e, s, Waiting)' + total'[s]
  BY EveryTurnMoves, GotTurns DEF Handling, Quiet
<1>2. /\ total[s] \in Nat /\ run[e].worth \in Nat /\ Part(run, e, s, Waiting) \in Nat
      /\ Part(run, e, s, Waiting)
           = IF run[e].step \in Waiting /\ s = run[e].entry THEN run[e].worth ELSE 0
  BY PartBefore DEF WatchOK, WatchTyped
<1>3. CASE OnJoined(e) \/ SetRoomPlaying(e)
  <2>1. Part(run, e, s, Waiting)' = 0
    BY <1>3, OnJoinedTurn, SetRoomPlayingTurn DEF Ends, Part, WatchTyped
  <2>2. run[e].step = "queued" /\ total' = total
    BY <1>3 DEF OnJoined, SetRoomPlaying, AtStep
  <2> QED BY <1>1, <1>2, <2>1, <2>2 DEF Waiting
<1>4. CASE OnCheckpoint(e)
  <2>1. Part(run, e, s, Waiting)' = 0
    <3>1. PICK todo : Enters(e, todo)
      BY <1>4, OnCheckpointTurn
    <3> QED BY <3>1, PartOfEnter DEF Waiting
  <2>2. run[e].step = "queued" /\ total' = total
    BY <1>4 DEF OnCheckpoint, AtStep, storeVars
  <2> QED BY <1>1, <1>2, <2>1, <2>2 DEF Waiting
<1>5. CASE OnLeft(e)
  <2>1. Part(run, e, s, Waiting)' = 0
    <3>1. Turns(e, "find", event[e].of, {}, 0, FALSE)
      BY <1>5, OnLeftTurn
    <3> QED BY <3>1, PartAfter DEF Turns, Waiting
  <2>2. run[e].step = "queued" /\ total' = total
    BY <1>5 DEF OnLeft, AtStep, storeVars
  <2> QED BY <1>1, <1>2, <2>1, <2>2 DEF Waiting
<1>6. CASE Gate(e)
  <2>1. Part(run, e, s, Waiting)' = 0
    <3>1. PICK w : Turns(e, "find", run[e].entry, run[e].todo, w, run[e].wrote)
      BY <1>6, GateTurn
    <3> QED BY <3>1, PartOfTurn DEF Waiting
  <2>2. run[e].step = "gate" /\ total' = total
    BY <1>6 DEF Gate, AtStep, storeVars
  <2> QED BY <1>1, <1>2, <2>1, <2>2 DEF Waiting
<1>7. CASE Find(e)
  <2>1. Part(run, e, s, Waiting)' = 0
    BY <1>7, FindTurn, PartOfTurn, PartOfEnter DEF Waiting
  <2>2. run[e].step = "find" /\ total' = total
    BY <1>7 DEF Find, AtStep, storeVars
  <2> QED BY <1>1, <1>2, <2>1, <2>2 DEF Waiting
<1>8. CASE PayTail(e)
  <2>1. run[e].step = "tail" /\ total' = total
    BY <1>8 DEF PayTail, AtStep, storeVars
  <2>2. Part(run, e, s, Waiting) = IF s = run[e].entry THEN run[e].worth ELSE 0
    BY <1>2, <2>1 DEF Waiting
  <2>3. CASE Turns(e, "totals", run[e].entry, run[e].todo, run[e].worth, run[e].wrote)
    <3>1. Part(run, e, s, Waiting)' = IF s = run[e].entry THEN run[e].worth ELSE 0
      BY <2>3, PartOfTurn DEF Waiting
    <3> QED BY <1>1, <1>2, <2>1, <2>2, <3>1
  <2>4. CASE Ends(e) /\ (playing => run[e].worth = 0)
    <3>1. Part(run, e, s, Waiting)' = 0
      BY <2>4 DEF Ends, Part, WatchTyped
    <3> QED BY <1>1, <1>2, <1>8, <2>1, <2>2, <2>4, <3>1
  <2> QED BY <1>8, <2>3, <2>4, PayTailTurn
<1>9. CASE AddToTotals(e)
  <2>1. Part(run, e, s, Waiting)' = 0
    BY <1>9, TotalsTurn, PartOfTurn DEF Waiting
  <2>2. Part(run, e, s, Waiting) = IF s = run[e].entry THEN run[e].worth ELSE 0
    BY <1>2, <1>9, TotalsTurn DEF Waiting
  <2>3. total'[s] = IF s = run[e].entry THEN total[s] + run[e].worth ELSE total[s]
    BY <1>9 DEF AddToTotals, WatchOK, WatchTyped
  <2> QED BY <1>1, <1>2, <2>1, <2>2, <2>3
<1>10. CASE IncrementScore(e)
  <2>1. Part(run, e, s, Waiting)' = 0
    BY <1>10, ScoreTurn, PartOfEnter DEF Waiting
  <2>2. run[e].step = "score" /\ total' = total
    BY <1>10 DEF IncrementScore, AtStep
  <2> QED BY <1>1, <1>2, <2>1, <2>2 DEF Waiting
<1>11. CASE AttemptFails(e)
  <2>1. Part(run, e, s, Waiting)' = 0
    <3>1. run'[e] = Queued /\ Queued.step = "queued"
      BY <1>11, FailTurn, QueuedIs
    <3> QED BY <3>1 DEF Part, Waiting
  <2>2. total' = total
    BY <1>11 DEF AttemptFails, storeVars
  <2>3. run[e].step \in Waiting => run[e].wrote
    BY RunIs DEF RunOK, Waiting
  <2>4. run[e].wrote \in BOOLEAN
    BY RunIs DEF Runs
  <2> QED BY <1>1, <1>2, <1>11, <2>1, <2>2, <2>3, <2>4
<1> QED BY <1>3, <1>4, <1>5, <1>6, <1>7, <1>8, <1>9, <1>10, <1>11 DEF Quiet

-------------------------------------------------------------------------------
(* Watch time: nobody gets more than the mark says *)

\* These steps move no mark and end no session.
LEMMA QuietRows ==
  ASSUME WatchOK, NEW e \in DOMAIN run, Quiet(e), NEW s \in Watchers
  PROVE  /\ Mark(s)' = Mark(s) /\ row'[s].ended = row[s].ended
         /\ row[s].seen => row'[s].seen
<1>1. client' = client /\ row \in [Watchers -> Rows] /\ RowOK(s)
  BY EveryTurnMoves, RunIs DEF Moved, clockVars, WatchOK, LedgerShape, WatchTyped, Quiet, Handling
<1>2. CASE OnJoined(e)
  <2>1. event[e].kind = "joined" /\ event[e].at = client[event[e].of].joined
    BY <1>2, OnJoinedTurn, RunIs DEF EventOK
  <2>2. CASE s = event[e].of /\ ~row[s].seen
    <3>1. row'[s] = [seen |-> TRUE, ended |-> FALSE, marker |-> event[e].at]
      BY <1>1, <1>2, <2>2 DEF OnJoined
    <3>2. ~row[s].ended /\ row[s].ended \in BOOLEAN
      BY <1>1, <2>2, ClientIs DEF RowOK
    <3>3. /\ row'[s].seen = TRUE /\ row'[s].marker = event[e].at /\ row'[s].ended = FALSE
          /\ row[s].ended = FALSE
      BY <3>1, <3>2
    <3>4. Mark(s)' = client[s].joined /\ Mark(s) = client[s].joined
      BY <1>1, <2>1, <2>2, <3>3 DEF Mark
    <3> QED BY <3>3, <3>4
  <2>3. CASE ~(s = event[e].of /\ ~row[s].seen)
    <3>1. row'[s] = row[s]
      BY <1>1, <1>2, <2>3 DEF OnJoined
    <3> QED BY <1>1, <3>1 DEF Mark
  <2> QED BY <2>2, <2>3
<1>3. CASE ~OnJoined(e)
  <2>1. row' = row
    BY <1>3 DEF Quiet, OnCheckpoint, OnLeft, SetRoomPlaying, Gate, Find, PayTail, AddToTotals,
                IncrementScore, AttemptFails, storeVars
  <2> QED BY <1>1, <2>1 DEF Mark
<1> QED BY <1>2, <1>3

\* The next entry is one of those that were pending.
LEMMA EnterPending ==
  ASSUME NEW e, NEW todo, Enters(e, todo), e \in DOMAIN event', NEW s
  PROVE  (Pending(e, s)' => s \in todo) /\ run'[e].wrote = run[e].wrote
BY DEF Enters, Ends, Turns, Pending

\* An entry does not come back, unless an attempt fails after it has written.
LEMMA UndoneKept ==
  ASSUME WatchOK, NEW e \in DOMAIN run, Quiet(e) \/ Credit(e), NEW f \in DOMAIN event',
         NEW s \in Watchers, Undone(f, s)', ~(AttemptFails(e) /\ run[e].wrote)
  PROVE  /\ Undone(f, s) /\ f \in DOMAIN event /\ event'[f] = event[f]
<1>1. Moved(e) /\ f \in DOMAIN event /\ event'[f] = event[f] /\ Pays(f, s)
  BY EveryTurnMoves DEF Moved, Quiet, Handling, Undone, Pays
<1>2. CASE f # e
  BY <1>1, <1>2 DEF Moved, Undone, Pending
<1>3. CASE f = e
  <2> SUFFICES Undone(e, s)
    BY <1>1, <1>3
  <2>1. event[e].kind = "checkpoint" /\ Undone(e, s)' /\ e \in DOMAIN event' /\ run[e].wrote \in BOOLEAN
    BY <1>1, <1>3, RunIs DEF Pays, Runs
  <2>2. ~run'[e].wrote \/ Pending(e, s)'
    BY <2>1 DEF Undone
  <2>3. ~run[e].wrote \/ s \in run[e].todo => Undone(e, s)
    BY <1>1, <1>3 DEF Undone, Pending
  <2>4. CASE Enters(e, run[e].todo)
    BY <2>1, <2>2, <2>3, <2>4, EnterPending
  <2>5. CASE OnCheckpoint(e)
    BY <2>3, <2>5, OnCheckpointTurn, QueuedIs
  <2>6. CASE Gate(e)
    <3>1. /\ run'[e].entry = run[e].entry /\ run'[e].todo = run[e].todo /\ run[e].step = "gate"
          /\ run'[e].wrote = run[e].wrote
      BY <2>6, GateTurn DEF Turns
    <3> QED BY <1>1, <1>3, <2>2, <3>1 DEF Undone, Pending
  <2>7. CASE Find(e) /\ Turns(e, "write", run[e].entry, run[e].todo, run[e].worth, run[e].wrote)
    BY <1>1, <1>3, <2>2, <2>7, FindTurn DEF Turns, Undone, Pending
  <2>8. CASE Credit(e) /\ Turns(e, "totals", run[e].entry, run[e].todo, run[e].worth, TRUE)
    BY <2>2, <2>3, <2>8 DEF Turns, Pending
  <2>9. CASE AddToTotals(e)
    BY <2>2, <2>3, <2>9, TotalsTurn DEF Turns, Pending
  <2>10. CASE AttemptFails(e)
    BY <2>1, <2>3, <2>10
  <2> QED BY <1>3, <2>1, <2>4, <2>5, <2>6, <2>7, <2>8, <2>9, <2>10, OnJoinedTurn, SetRoomPlayingTurn,
             OnLeftTurn, PayTailTurn, FindTurn, CreditTurn, ScoreTurn DEF Quiet
<1> QED BY <1>2, <1>3

\* What has not happened yet had not happened before.
LEMMA MishapsStay ==
  ASSUME mishap \subseteq mishap', NEW kinds, Without(kinds)' PROVE Without(kinds)
BY DEF Without

\* Nobody is present for longer while the clock and the sockets stay.
LEMMA PresentKept ==
  ASSUME UNCHANGED <<tick, client>>, NEW s PROVE Present(s)' = Present(s)
BY DEF Present

\* These steps keep the upper bound.
LEMMA BoundedQuiet ==
  ASSUME WatchOK, WatchTyped', Bounded, NEW e \in DOMAIN run, Quiet(e)
  PROVE  Bounded'
<1> SUFFICES ASSUME Without({"retry", "stale", "backwards"})', NEW s \in Watchers
             PROVE  PaidAtMost(s)'
  BY DEF Bounded
<1>1. Moved(e) /\ mishap \subseteq mishap' /\ UNCHANGED <<tick, client>>
  BY EveryTurnMoves DEF Quiet, Handling, Moved, clockVars
<1>2. PaidAtMost(s)
  BY <1>1, MishapsStay DEF Bounded
<1>3. ~(AttemptFails(e) /\ run[e].wrote)
  BY DEF AttemptFails, Without
<1>4. Got(s)' <= Got(s) /\ Got(s) \in Nat /\ Got(s)' \in Nat
  BY QuietPays
<1>5. /\ Mark(s)' = Mark(s) /\ row'[s].ended = row[s].ended /\ (row[s].seen => row'[s].seen)
      /\ Present(s)' = Present(s) /\ client'[s] = client[s]
  BY <1>1, QuietRows, PresentKept
<1>6. /\ Mark(s) \in Nat /\ client[s].joined \in Nat /\ Present(s) \in Int
  BY ClientIs DEF Present
<1>7. ~row'[s].seen => Got(s)' = 0
  BY <1>2, <1>4, <1>5 DEF PaidAtMost
<1>8. ~row'[s].ended => Got(s)' <= Mark(s)' - client'[s].joined
  BY <1>2, <1>4, <1>5, <1>6 DEF PaidAtMost
<1>9. ASSUME ~row'[s].ended, NEW f \in DOMAIN event', Undone(f, s)', event'[f].at = Mark(s)'
      PROVE  Got(s)' + event'[f].pay[s] <= Mark(s)' - client'[s].joined
  <2>1. Undone(f, s) /\ f \in DOMAIN event /\ event'[f] = event[f]
    BY <1>3, <1>9, UndoneKept
  <2>2. Got(s) + event[f].pay[s] <= Mark(s) - client[s].joined /\ event[f].pay[s] \in Nat
    BY <1>2, <1>5, <1>9, <2>1, EventIs DEF PaidAtMost
  <2> QED BY <1>4, <1>5, <1>6, <2>1, <2>2
<1>10. row'[s].ended => Got(s)' <= Present(s)'
  BY <1>2, <1>4, <1>5, <1>6 DEF PaidAtMost
<1> QED BY <1>7, <1>8, <1>9, <1>10 DEF PaidAtMost

\* What a credit does to the rows.
LEMMA CreditRows ==
  ASSUME WatchOK, NEW e \in DOMAIN run, Credit(e), NEW s \in Watchers
  PROVE  /\ s # run[e].entry => row'[s] = row[s] /\ Mark(s)' = Mark(s)
         /\ s = run[e].entry => /\ row'[s].seen /\ row'[s].ended = row[s].ended
                                /\ Mark(s)' = event[e].at
         /\ client' = client /\ tick' = tick
<1>1. client' = client /\ tick' = tick /\ row \in [Watchers -> Rows]
  BY EveryTurnMoves DEF Moved, clockVars, Handling, WatchOK, WatchTyped
<1>2. row' = [row EXCEPT ![run[e].entry].seen = TRUE, ![run[e].entry].marker = event[e].at]
  BY DEF Credit
<1>3. CASE s # run[e].entry
  BY <1>1, <1>2, <1>3 DEF Mark
<1>4. CASE s = run[e].entry
  <2>1. row'[s].seen = TRUE /\ row'[s].marker = event[e].at /\ row'[s].ended = row[s].ended
    BY <1>1, <1>2, <1>4 DEF Rows
  <2> QED BY <1>1, <1>4, <2>1 DEF Mark
<1> QED BY <1>1, <1>3, <1>4

\* What an end does to the rows.
LEMMA EndRows ==
  ASSUME WatchOK, NEW e \in DOMAIN run, EndSession(e), NEW s \in Watchers
  PROVE  /\ s # run[e].entry => row'[s] = row[s]
         /\ s = run[e].entry => row'[s].seen = row[s].seen /\ row'[s].ended
         /\ Mark(s)' = Mark(s) /\ client' = client /\ tick' = tick
<1>1. client' = client /\ tick' = tick /\ row \in [Watchers -> Rows]
  BY EveryTurnMoves DEF Moved, clockVars, Handling, WatchOK, WatchTyped
<1>2. row' = [row EXCEPT ![run[e].entry].ended = TRUE]
  BY DEF EndSession
<1>3. CASE s # run[e].entry
  BY <1>1, <1>2, <1>3 DEF Mark
<1>4. CASE s = run[e].entry
  <2>1. row'[s].seen = row[s].seen /\ row'[s].marker = row[s].marker /\ row'[s].ended = TRUE
    BY <1>1, <1>2, <1>4 DEF Rows
  <2> QED BY <1>1, <1>4, <2>1 DEF Mark
<1> QED BY <1>1, <1>3, <1>4

\* What is known of an entry that is credited.
LEMMA CreditedIs ==
  ASSUME WatchOK, NEW e \in DOMAIN run, Credit(e)
  PROVE  LET s == run[e].entry IN
         /\ s \in Watchers /\ e \in DOMAIN event /\ Undone(e, s) /\ Pays(e, s) /\ EntryOK(e, s)
         /\ run[e].worth \in {0, event[e].pay[s]} /\ ~run[e].read.ended
         /\ event[e].at \in Nat /\ event[e].pay[s] \in Nat /\ run[e].worth \in Nat
<1>1. run[e].step = "write" /\ event[e].kind = "checkpoint"
  BY CreditTurn
<1>2. run[e].entry \in Watchers /\ e \in DOMAIN event /\ RunOK(e)
  BY <1>1, RunIs DEF AtStep
<1>3. /\ Pays(e, run[e].entry) /\ ~run[e].read.ended
      /\ run[e].worth \in {0, event[e].pay[run[e].entry]}
  BY <1>1, <1>2 DEF RunOK
<1> QED BY <1>1, <1>2, <1>3, EventIs DEF Undone, Pending

\* A credit keeps the upper bound: its entry starts at the mark or later, or ends
\* at the mark and is counted already.
LEMMA BoundedCredit ==
  ASSUME WatchOK, WatchTyped', Bounded, NEW e \in DOMAIN run, Credit(e)
  PROVE  Bounded'
<1> SUFFICES ASSUME Without({"retry", "stale", "backwards"})', NEW s \in Watchers
             PROVE  PaidAtMost(s)'
  BY DEF Bounded
<1>1. mishap \subseteq mishap' /\ UNCHANGED <<tick, client>> /\ Moved(e)
  BY EveryTurnMoves DEF Handling, Moved, clockVars
<1>2. PaidAtMost(s) /\ Present(s)' = Present(s)
  BY <1>1, MishapsStay, PresentKept DEF Bounded
<1>3. ~(AttemptFails(e) /\ run[e].wrote)
  BY DEF AttemptFails, Without
<1>4. /\ client'[s] = client[s] /\ client[s].joined \in Nat /\ Mark(s) \in Nat /\ Got(s) \in Nat
      /\ client[s].joined <= Mark(s) /\ Present(s) \in Int
      /\ Got(s)' = IF s = run[e].entry THEN Got(s) + run[e].worth ELSE Got(s)
  BY <1>1, ClientIs, CreditPays, GotTurns DEF Present
<1>5. CASE s # run[e].entry
  <2>1. Got(s)' = Got(s) /\ row'[s] = row[s] /\ Mark(s)' = Mark(s)
    BY <1>4, <1>5, CreditRows
  <2>2. ASSUME ~row'[s].ended, NEW f \in DOMAIN event', Undone(f, s)', event'[f].at = Mark(s)'
        PROVE  Got(s)' + event'[f].pay[s] <= Mark(s)' - client'[s].joined
    <3>1. Undone(f, s) /\ f \in DOMAIN event /\ event'[f] = event[f]
      BY <1>3, <2>2, UndoneKept
    <3> QED BY <1>2, <1>4, <2>1, <2>2, <3>1 DEF PaidAtMost
  <2> QED BY <1>2, <1>4, <2>1, <2>2 DEF PaidAtMost
<1>6. CASE s = run[e].entry
  <2> DEFINE at == event[e].at  pay == event[e].pay[s]
  <2>1. /\ e \in DOMAIN event /\ Undone(e, s) /\ Pays(e, s) /\ EntryOK(e, s)
        /\ run[e].worth \in {0, pay} /\ ~run[e].read.ended
        /\ at \in Nat /\ pay \in Nat /\ run[e].worth \in Nat
    BY <1>6, CreditedIs
  <2>2. row'[s].seen /\ row'[s].ended = row[s].ended /\ Mark(s)' = at
    BY <1>6, CreditRows
  <2>3. ~row[s].ended /\ (row[s].seen => row[s].marker <= at)
    <3>1. row[s].ended = run[e].read.ended /\ ~(at < row[s].marker)
      BY <1>6 DEF Credit, Without
    <3> QED BY <2>1, <3>1, ClientIs
  <2>4. pay > 0 /\ client[s].joined <= at - pay /\ (at - pay >= Mark(s) \/ at <= Mark(s))
    <3>1. event[e].span[s] \in Nat /\ pay <= event[e].span[s]
      BY <2>1, EventIs
    <3> QED BY <1>4, <2>1, <3>1 DEF Pays, EntryOK, From
  <2>5. Mark(s) <= at
    BY <1>4, <2>1, <2>3, <2>4 DEF Mark
  <2>6. Got(s) + pay <= at - client[s].joined
    <3>1. CASE Mark(s) = at
      BY <1>2, <2>1, <2>3, <3>1 DEF PaidAtMost
    <3>2. CASE Mark(s) # at
      <4>1. Mark(s) <= at - pay /\ Got(s) <= Mark(s) - client[s].joined
        BY <1>2, <1>4, <2>1, <2>3, <2>4, <2>5, <3>2 DEF PaidAtMost
      <4> QED BY <1>4, <2>1, <4>1
    <3> QED BY <3>1, <3>2
  <2> HIDE DEF at, pay
  <2>7. Got(s)' <= Mark(s)' - client'[s].joined
    BY <1>4, <1>6, <2>1, <2>2, <2>6
  <2>8. ASSUME NEW f \in DOMAIN event', Undone(f, s)', event'[f].at = Mark(s)'
        PROVE  Got(s)' + event'[f].pay[s] <= Mark(s)' - client'[s].joined
    <3>1. Undone(f, s) /\ f \in DOMAIN event /\ event'[f] = event[f]
      BY <1>3, <2>8, UndoneKept
    <3>2. f = e
      <4>1. Disjoint(e, f, s) /\ Pays(f, s) /\ event[f].at = event[e].at
        BY <2>1, <2>2, <2>8, <3>1 DEF WatchOK, LedgerShape, Undone, at
      <4>2. event[f].span[s] \in Nat /\ event[f].span[s] > 0 /\ event[e].span[s] > 0
            /\ event[e].span[s] \in Nat /\ event[e].at \in Nat
        BY <2>1, <3>1, <4>1, EventIs DEF Pays
      <4> QED BY <2>1, <4>1, <4>2 DEF Disjoint, From
    <3>3. run[e].worth = 0
      <4>1. CASE Turns(e, "totals", run[e].entry, run[e].todo, run[e].worth, TRUE)
        <5>1. s \in run[e].todo
          BY <1>6, <2>8, <3>2, <4>1 DEF Turns, Undone, Pending
        <5> QED BY <1>6, <5>1, RunIs, CreditTurn DEF RunOK
      <4> QED BY <4>1, CreditTurn
    <3> QED BY <1>4, <1>6, <2>1, <2>2, <2>6, <3>1, <3>2, <3>3 DEF at, pay
  <2> QED BY <2>2, <2>3, <2>7, <2>8 DEF PaidAtMost
<1> QED BY <1>5, <1>6

\* What is known of a session that is ended.
LEMMA EndedIs ==
  ASSUME WatchOK, NEW e \in DOMAIN run, EndSession(e)
  PROVE  LET s == run[e].entry IN
         /\ s \in Watchers /\ e \in DOMAIN event /\ event[e].kind = "left" /\ event[e].of = s
         /\ run[e].read.seen /\ ~run[e].read.ended /\ EventOK(e) /\ event[e].at \in Nat
<1>1. run[e].step = "write" /\ event[e].kind = "left"
  BY EndTurn
<1>2. run[e].entry \in Watchers /\ e \in DOMAIN event /\ RunOK(e) /\ EventOK(e)
  BY <1>1, RunIs DEF AtStep
<1> QED BY <1>1, <1>2, EventIs DEF RunOK

\* An end leaves the entries of all checkpoints alone.
LEMMA UndoneEnded ==
  ASSUME WatchOK, NEW e \in DOMAIN run, EndSession(e), NEW f \in DOMAIN event', NEW s
  PROVE  /\ f \in DOMAIN event /\ event'[f] = event[f]
         /\ Undone(f, s)' = Undone(f, s) /\ Remaining(f, s)' = Remaining(f, s)
<1>1. Moved(e) /\ event[e].kind = "left"
  BY EndTurn DEF Turns
<1>2. CASE f = e
  BY <1>1, <1>2 DEF Moved, Undone, Remaining, Pays
<1>3. CASE f # e
  BY <1>1, <1>3 DEF Moved, Undone, Remaining, Pays, Pending
<1> QED BY <1>2, <1>3

\* An end keeps the upper bound: the residue goes from the mark to the leave.
LEMMA BoundedEnd ==
  ASSUME WatchOK, WatchTyped', Bounded, NEW e \in DOMAIN run, EndSession(e)
  PROVE  Bounded'
<1> SUFFICES ASSUME Without({"retry", "stale", "backwards"})', NEW s \in Watchers
             PROVE  PaidAtMost(s)'
  BY DEF Bounded
<1>1. mishap \subseteq mishap' /\ UNCHANGED <<tick, client>> /\ Moved(e)
  BY EveryTurnMoves DEF Handling, Moved, clockVars
<1>2. PaidAtMost(s) /\ Present(s)' = Present(s)
  BY <1>1, MishapsStay, PresentKept DEF Bounded
<1>3. /\ client'[s] = client[s] /\ client[s].joined \in Nat /\ Mark(s) \in Nat /\ Got(s) \in Nat
      /\ client[s].joined <= Mark(s) /\ Mark(s)' = Mark(s)
      /\ Got(s)' = IF s = run[e].entry THEN Got(s) + Whole(Surplus(e)) ELSE Got(s)
  BY <1>1, ClientIs, EndPays, GotTurns, EndRows
<1>4. CASE s # run[e].entry
  <2>1. Got(s)' = Got(s) /\ row'[s] = row[s]
    BY <1>3, <1>4, EndRows
  <2> QED BY <1>2, <1>3, <2>1, UndoneEnded DEF PaidAtMost
<1>5. CASE s = run[e].entry
  <2>1. /\ event[e].kind = "left" /\ event[e].of = s /\ run[e].read.seen /\ ~run[e].read.ended
        /\ EventOK(e) /\ event[e].at \in Nat
    BY <1>5, EndedIs
  <2>2. row[s] = run[e].read
    BY <1>5 DEF EndSession, Without
  <2>3. run[e].read.marker = Mark(s) /\ Got(s) <= Mark(s) - client[s].joined
    BY <1>2, <2>1, <2>2 DEF PaidAtMost, Mark
  <2>4. Surplus(e) = IF event[e].at > Mark(s) THEN event[e].at - Mark(s) ELSE 0
    BY <2>3 DEF Surplus
  <2>5. event[e].at - client[s].joined <= Present(s) /\ Mark(s) - client[s].joined <= Present(s)
        /\ Present(s) \in Int
    <3>1. /\ client[s].at \in {"here", "gone"} /\ event[e].at <= tick
          /\ (client[s].at = "gone" => event[e].at <= client[s].gone)
      BY <2>1, ClientIs DEF EventOK
    <3>2. /\ client[s].gone \in Nat /\ tick \in Nat /\ client[s].since \in Nat
          /\ Mark(s) <= client[s].since /\ client[s].since <= tick
          /\ (client[s].at = "gone" => client[s].since <= client[s].gone)
      BY ClientIs DEF ClientOK
    <3>3. CASE client[s].at = "here"
      BY <1>3, <2>1, <3>1, <3>2, <3>3 DEF Present
    <3>4. CASE client[s].at = "gone"
      BY <1>3, <2>1, <3>1, <3>2, <3>4 DEF Present
    <3> QED BY <3>1, <3>3, <3>4
  <2>6. Got(s)' <= Present(s)'
    <3>1. /\ Whole(Surplus(e)) \in Nat /\ Surplus(e) \in Nat /\ Whole(Surplus(e)) <= Surplus(e)
          /\ Got(s)' = Got(s) + Whole(Surplus(e))
      BY <1>3, <1>5, SurplusWhole, WatchTimeAssumption DEF Ticks
    <3> QED BY <1>2, <1>3, <2>1, <2>3, <2>4, <2>5, <3>1
  <2>7. row'[s].seen /\ row'[s].ended
    BY <1>5, <2>1, <2>2, EndRows
  <2> QED BY <2>6, <2>7 DEF PaidAtMost
<1> QED BY <1>4, <1>5

\* A new event: nobody who is in the room already is marked or present
\* differently.
Announced ==
  /\ \E e, kind, of, span :
       Added(e, kind, of, span) /\ (kind = "checkpoint" => Checkpoint /\ span = CheckpointSpan)
  /\ mishap \subseteq mishap' /\ UNCHANGED <<tick, storeVars>>
  /\ \A s \in Watchers :
       client[s].at # "away" =>
         client'[s].joined = client[s].joined /\ Mark(s)' = Mark(s) /\ Present(s)' = Present(s)

\* A checkpoint is such a step.
LEMMA CheckpointAnnounces == ASSUME WatchOK, Checkpoint PROVE Announced
<1>1. PICK e : Added(e, "checkpoint", Nobody, CheckpointSpan)
  BY CheckpointIs
<1>2. /\ UNCHANGED <<tick, storeVars, mishap>>
      /\ \A s \in Watchers : /\ client'[s].joined = client[s].joined /\ client'[s].gone = client[s].gone
                             /\ client'[s].at = client[s].at
  BY CheckpointIs
<1>3. \A s \in Watchers : Present(s)' = Present(s) /\ Mark(s)' = Mark(s)
  BY <1>2 DEF Present, Mark, storeVars
<1> QED BY <1>1, <1>2, <1>3 DEF Announced

\* So is a start or a stop of the player, and the removal of an item.
LEMMA PlaybackAnnounces == ASSUME WatchOK, Playback \/ RemoveQueued PROVE Announced
<1>1. PICK kind \in {"started", "skipped"} : Publish(kind, Nobody, NoPay)
  BY DEF Playback, RemoveQueued
<1>2. PICK e : Added(e, kind, Nobody, NoPay)
  BY <1>1, PublishAdds DEF WatchOK
<1>3. UNCHANGED <<tick, client, storeVars>> /\ mishap \subseteq mishap'
  BY DEF Playback, RemoveQueued, Trouble, clockVars
<1>4. \A s \in Watchers : Present(s)' = Present(s) /\ Mark(s)' = Mark(s)
  BY <1>3 DEF Present, Mark, storeVars
<1> QED BY <1>2, <1>3, <1>4 DEF Announced

\* So is a sweep.
LEMMA SweepAnnounces == ASSUME WatchOK, NEW s \in Watchers, Sweep(s) PROVE Announced
<1>1. PICK e : Added(e, "left", s, NoPay)
  BY PublishAdds DEF Sweep, WatchOK
<1>2. UNCHANGED <<tick, client, storeVars>> /\ mishap \subseteq mishap'
  BY DEF Sweep, Trouble, clockVars
<1>3. \A t \in Watchers : Present(t)' = Present(t) /\ Mark(t)' = Mark(t)
  BY <1>2 DEF Present, Mark, storeVars
<1> QED BY <1>1, <1>2, <1>3 DEF Announced

\* What a leave does.
LEMMA LeaveIs ==
  ASSUME WatchOK, NEW s \in Watchers, Leave(s)
  PROVE  /\ \E e : Added(e, "left", s, NoPay)
         /\ client[s].at = "here" /\ UNCHANGED <<tick, mishap, storeVars>>
         /\ client'[s].at = "gone" /\ client'[s].gone = tick
         /\ \A t \in Watchers : /\ t # s => client'[t] = client[t]
                                /\ client'[t].joined = client[t].joined
                                /\ client'[t].since = client[t].since
<1>1. /\ client[s].at = "here" /\ UNCHANGED <<tick, mishap, storeVars>>
      /\ client' = [client EXCEPT ![s].at = "gone", ![s].gone = tick]
      /\ client \in [Watchers -> Clients]
  BY DEF Leave, WatchOK, WatchTyped, Clients
<1>2. /\ \A t \in Watchers : /\ t # s => client'[t] = client[t]
                             /\ client'[t].joined = client[t].joined
                             /\ client'[t].since = client[t].since
      /\ client'[s].at = "gone" /\ client'[s].gone = tick
  BY <1>1 DEF Clients
<1> QED BY <1>1, <1>2, PublishAdds DEF Leave, WatchOK

\* A leave is such a step.
LEMMA LeaveAnnounces == ASSUME WatchOK, NEW s \in Watchers, Leave(s) PROVE Announced
<1>1. PICK e : Added(e, "left", s, NoPay)
  BY LeaveIs
<1>2. ASSUME NEW t \in Watchers PROVE Present(t)' = Present(t) /\ Mark(t)' = Mark(t)
  <2>1. Mark(t)' = Mark(t)
    BY LeaveIs DEF Mark, storeVars
  <2>2. CASE t = s
    BY <2>1, <2>2, LeaveIs DEF Present
  <2>3. CASE t # s
    BY <2>1, <2>3, LeaveIs DEF Present
  <2> QED BY <2>1, <2>2, <2>3
<1> QED BY <1>1, <1>2, LeaveIs DEF Announced

\* What a join does.
LEMMA JoinIs ==
  ASSUME WatchOK, NEW s \in Watchers, Join(s)
  PROVE  /\ \E e : Added(e, "joined", s, NoPay)
         /\ client[s].at = "away" /\ UNCHANGED <<tick, mishap, storeVars>>
         /\ client'[s] = [at |-> "here", joined |-> tick, since |-> tick, gone |-> 0]
         /\ \A t \in Watchers : t # s => client'[t] = client[t]
BY PublishAdds DEF Join, WatchOK, WatchTyped

\* A join is such a step.
LEMMA JoinAnnounces == ASSUME WatchOK, NEW s \in Watchers, Join(s) PROVE Announced
<1>1. PICK e : Added(e, "joined", s, NoPay)
  BY JoinIs
<1>2. ASSUME NEW t \in Watchers, t # s PROVE Present(t)' = Present(t) /\ Mark(t)' = Mark(t)
  BY <1>2, JoinIs DEF Present, Mark, storeVars
<1> QED BY <1>1, <1>2, JoinIs DEF Announced

\* A new event keeps the upper bound: what it pays starts after the mark.
LEMMA BoundedAnnounced ==
  ASSUME WatchOK, WatchTyped', Bounded, Announced
  PROVE  Bounded'
<1> SUFFICES ASSUME Without({"retry", "stale", "backwards"})', NEW s \in Watchers
             PROVE  PaidAtMost(s)'
  BY DEF Bounded
<1>1. PICK e, kind, of, span :
        Added(e, kind, of, span) /\ (kind = "checkpoint" => Checkpoint /\ span = CheckpointSpan)
  BY DEF Announced
<1>2. PaidAtMost(s) /\ row' = row /\ tick' = tick
  BY MishapsStay DEF Announced, storeVars, Bounded
<1>3. Got(s)' = Got(s) /\ Got(s) \in Nat
  BY <1>1, GotAdded DEF Announced, storeVars
<1>4. /\ event'[e] = [kind |-> kind, of |-> of, at |-> tick, pay |-> WholeSeconds(span), span |-> span]
      /\ DOMAIN event' = DOMAIN event \cup {e}
      /\ \A f \in DOMAIN event : event'[f] = event[f] /\ run'[f] = run[f]
  BY <1>1 DEF Added
<1>5. ASSUME Pays(e, s)' PROVE client[s].at = "here" /\ event'[e].at > Mark(s)
  <2>1. kind = "checkpoint" /\ Whole(CheckpointSpan[s]) > 0
    BY <1>1, <1>4, <1>5 DEF Pays, WholeSeconds
  <2>2. Due(s)
    BY <2>1, <1>1, CheckpointIs, WholeIs, QueuedIs
  <2> QED BY <1>4, <2>2, ClientIs, DueIs DEF WatchOK
<1>6. \A f \in DOMAIN event : Undone(f, s)' => Undone(f, s) /\ client[s].at # "away"
  <2> TAKE f \in DOMAIN event
  <2>1. Undone(f, s)' => Undone(f, s)
    BY <1>4 DEF Undone, Pays, Pending
  <2> QED BY <2>1, EventIs DEF Undone, EntryOK
<1>7. CASE client[s].at = "away"
  <2>1. ~row[s].seen /\ ~row[s].ended
    BY <1>7, ClientIs DEF ClientOK, RowOK
  <2>2. Got(s) = 0 /\ Mark(s)' = client'[s].joined
    BY <1>2, <2>1 DEF PaidAtMost, Mark
  <2>3. client'[s].joined \in Nat
    BY WatchTimeAssumption DEF WatchTyped, Ticks
  <2>4. \A f \in DOMAIN event' : ~Undone(f, s)'
    BY <1>4, <1>5, <1>6, <1>7 DEF Undone
  <2> QED BY <1>2, <1>3, <2>1, <2>2, <2>3, <2>4 DEF PaidAtMost
<1>8. CASE client[s].at # "away"
  <2>1. client'[s].joined = client[s].joined /\ Mark(s)' = Mark(s) /\ Present(s)' = Present(s)
    BY <1>8 DEF Announced
  <2>2. \A f \in DOMAIN event' : Undone(f, s)' /\ event'[f].at = Mark(s)' => f \in DOMAIN event
    BY <1>4, <1>5, <2>1, ClientIs DEF Undone
  <2> QED BY <1>2, <1>3, <1>4, <1>6, <2>1, <2>2 DEF PaidAtMost
<1> QED BY <1>7, <1>8

\* A second that passes keeps the upper bound.
LEMMA BoundedSilent ==
  ASSUME WatchOK, Bounded, TickPasses
  PROVE  Bounded'
<1> SUFFICES ASSUME Without({"retry", "stale", "backwards"})', NEW s \in Watchers
             PROVE  PaidAtMost(s)'
  BY DEF Bounded
<1>1. tick' = tick + 1 /\ UNCHANGED <<client, event, run, row, mishap, total>>
  BY DEF TickPasses, busVars, storeVars
<1>2. PaidAtMost(s)
  BY <1>1 DEF Bounded, Without
<1>3. Got(s)' = Got(s) /\ Got(s) \in Nat
  <2>1. total[s]' = total[s] /\ run' = run
    BY <1>1
  <2> QED BY <2>1, GotIs DEF Got
<1>4. Mark(s)' = Mark(s) /\ \A f \in DOMAIN event : Undone(f, s)' = Undone(f, s)
  BY <1>1 DEF Mark, Undone, Pays, Pending
<1>5. Present(s)' >= Present(s) /\ Present(s) \in Int /\ Present(s)' \in Int
  <2>1. /\ tick \in Nat /\ client[s].joined \in Nat /\ client[s].gone \in Nat
        /\ client[s].at \in {"away", "here", "gone"}
    BY ClientIs
  <2>2. CASE client[s].at = "here"
    BY <1>1, <2>1, <2>2 DEF Present
  <2>3. CASE client[s].at # "here"
    BY <1>1, <2>1, <2>3 DEF Present
  <2> QED BY <2>2, <2>3
<1> QED BY <1>1, <1>2, <1>3, <1>4, <1>5 DEF PaidAtMost

\* The upper bound is inductive.
LEMMA BoundedKept ==
  ASSUME WatchOK, WatchOK', Bounded, WatchNext \/ WatchRest
  PROVE  Bounded'
<1>1. WatchTyped'
  BY DEF WatchOK
<1>2. CASE WatchNext
  BY <1>1, <1>2, CheckpointAnnounces, PlaybackAnnounces, JoinAnnounces, LeaveAnnounces, SweepAnnounces,
     BoundedAnnounced, BoundedSilent, BoundedCredit, BoundedEnd, BoundedQuiet, TurnIsOf DEF WatchNext
<1>3. CASE WatchRest
  <2>1. UNCHANGED <<client, event, run, row, mishap, total, tick>>
    BY <1>3 DEF WatchRest, watchVars, clockVars, busVars, storeVars
  <2>2. \A s : Got(s)' = Got(s)
    BY <2>1 DEF Got
  <2> QED BY <2>1, <2>2 DEF Bounded, PaidAtMost, Undone, Pays, Pending, Mark, Present, Without
<1> QED BY <1>2, <1>3

-------------------------------------------------------------------------------
(* Watch time: the leaderboard has a source *)

\* What the leaderboard is owed is a sum of the same kind.
LEMMA OwedIs == ASSUME NEW s PROVE Owed(s) = Sum(run, s, Scoring)
<1>1. {x \in (DOMAIN run) \X (1 .. MaxTicks) :
         run[x[1]].step = "score" /\ run[x[1]].entry = s /\ x[2] <= run[x[1]].worth}
      = {x \in (DOMAIN run) \X (1 .. MaxTicks) :
           run[x[1]].step \in Scoring /\ run[x[1]].entry = s /\ x[2] <= run[x[1]].worth}
  BY DEF Scoring
<1> QED BY <1>1 DEF Owed, Sum

\* A new event owes the leaderboard nothing.
LEMMA BoardAnnounced ==
  ASSUME WatchOK, WatchTyped', Announced, NEW s \in Watchers, OnBoard(s) PROVE OnBoard(s)'
<1>1. PICK e, kind, of, pay : Added(e, kind, of, pay)
  BY DEF Announced
<1>2. Sum(run, s, Scoring)' = Sum(run, s, Scoring)
  BY <1>1, AddedSums DEF Scoring
<1>3. UNCHANGED <<total, score>> /\ (Without({"retry"})' => Without({"retry"}))
  BY MishapsStay DEF Announced, storeVars
<1> QED BY <1>2, <1>3 DEF OnBoard

\* Neither does a step that writes neither total nor score.
LEMMA BoardQuiet ==
  ASSUME WatchOK, WatchTyped', NEW e \in DOMAIN run, Handling(e) \/ AttemptFails(e),
         ~AddToTotals(e), ~IncrementScore(e), ~AttemptFails(e),
         NEW s \in Watchers, OnBoard(s)
  PROVE  OnBoard(s)'
<1>1. /\ Sum(run, s, Scoring)' + Part(run, e, s, Scoring) = Sum(run, s, Scoring) + Part(run, e, s, Scoring)'
      /\ Sum(run, s, Scoring)' \in Nat /\ Sum(run, s, Scoring) \in Nat
  BY EveryTurnMoves, TurnSums
<1>2. (Without({"retry"})' => Without({"retry"})) /\ total' = total /\ score' = score
  <2>1. mishap \subseteq mishap'
    BY EveryTurnMoves
  <2>2. total' = total /\ score' = score
    BY DEF Handling, OnJoined, OnCheckpoint, OnLeft, SetRoomPlaying, Gate, Find, Credit, EndSession,
           PayTail, storeVars
  <2> QED BY <2>1, <2>2, MishapsStay
<1>3. run[e].step # "score"
  <2>1. Queued.step # "score"
    BY QueuedIs
  <2> QED BY <2>1, OnJoinedTurn, SetRoomPlayingTurn, OnCheckpointTurn, OnLeftTurn, GateTurn, FindTurn,
             CreditTurn, EndTurn, PayTailTurn DEF Handling
<1>4. Part(run, e, s, Scoring) = 0
  BY <1>3, PartBefore DEF Scoring
<1>5. CASE e \in DOMAIN event'
  <2>1. run'[e].step # "score"
    BY <1>5, OnJoinedTurn, SetRoomPlayingTurn, OnCheckpointTurn, OnLeftTurn, GateTurn, FindTurn,
       CreditTurn, EndTurn, PayTailTurn DEF Handling, Enters, Ends, Turns
  <2> QED BY <1>1, <1>2, <1>4, <1>5, <2>1, PartAfter DEF Scoring, OnBoard
<1>6. CASE e \notin DOMAIN event'
  <2>1. Part(run, e, s, Scoring)' = 0
    BY <1>6 DEF Part, WatchTyped
  <2> QED BY <1>1, <1>2, <1>4, <2>1 DEF OnBoard
<1> QED BY <1>5, <1>6

\* An award that moves from the total to the leaderboard; one that is cut short.
LEMMA BoardPaid ==
  ASSUME WatchOK, WatchTyped', NEW e \in DOMAIN run,
         AddToTotals(e) \/ IncrementScore(e) \/ AttemptFails(e),
         NEW s \in Watchers, OnBoard(s)
  PROVE  OnBoard(s)'
<1>1. /\ Sum(run, s, Scoring)' + Part(run, e, s, Scoring) = Sum(run, s, Scoring) + Part(run, e, s, Scoring)'
      /\ Sum(run, s, Scoring)' \in Nat /\ Sum(run, s, Scoring) \in Nat
  BY EveryTurnMoves, TurnSums DEF Handling
<1>2. Without({"retry"})' => Without({"retry"})
  BY EveryTurnMoves, MishapsStay DEF Handling
<1>3. /\ total[s] \in Nat /\ score[s] \in Nat /\ run[e].worth \in Nat /\ Part(run, e, s, Scoring) \in Nat
      /\ Part(run, e, s, Scoring) = IF run[e].step \in Scoring /\ s = run[e].entry THEN run[e].worth ELSE 0
  BY PartBefore DEF WatchOK, WatchTyped
<1>4. CASE AddToTotals(e)
  <2>1. run[e].step = "totals" /\ e \in DOMAIN event' /\ run'[e].step = "score"
        /\ run'[e].entry = run[e].entry /\ run'[e].worth = run[e].worth
    BY <1>4, TotalsTurn DEF Turns
  <2>2. Part(run, e, s, Scoring) = 0
    BY <1>3, <2>1 DEF Scoring
  <2>3. Part(run, e, s, Scoring)' = IF s = run[e].entry THEN run[e].worth ELSE 0
    BY <2>1, PartAfter DEF Scoring
  <2>4. /\ total'[s] = IF s = run[e].entry THEN total[s] + run[e].worth ELSE total[s]
        /\ score' = score /\ mishap' = mishap
    BY <1>4 DEF AddToTotals, WatchOK, WatchTyped
  <2> QED BY <1>1, <1>2, <1>3, <2>2, <2>3, <2>4 DEF OnBoard
<1>5. CASE IncrementScore(e)
  <2>1. Part(run, e, s, Scoring)' = 0
    BY <1>5, ScoreTurn, PartOfEnter DEF Scoring
  <2>2. Part(run, e, s, Scoring) = IF s = run[e].entry THEN run[e].worth ELSE 0
    BY <1>3, <1>5, ScoreTurn DEF Scoring
  <2>3. /\ score'[s] = IF s = run[e].entry THEN score[s] + run[e].worth ELSE score[s]
        /\ total' = total /\ mishap' = mishap
    BY <1>5 DEF IncrementScore, WatchOK, WatchTyped
  <2> QED BY <1>1, <1>2, <1>3, <2>1, <2>2, <2>3 DEF OnBoard
<1>6. CASE AttemptFails(e)
  <2>1. Part(run, e, s, Scoring)' = 0
    <3>1. run'[e] = Queued /\ Queued.step = "queued" /\ e \in DOMAIN event'
      BY <1>6, FailTurn, QueuedIs
    <3> QED BY <3>1, PartAfter DEF Scoring
  <2>2. total' = total /\ score' = score
    BY <1>6 DEF AttemptFails, storeVars
  <2>3. Without({"retry"})' => Part(run, e, s, Scoring) = 0
    <3>1. Without({"retry"})' => ~run[e].wrote
      BY <1>6 DEF AttemptFails, Without
    <3>2. run[e].step = "score" => run[e].wrote
      BY RunIs DEF RunOK
    <3> QED BY <1>3, <3>1, <3>2 DEF Scoring
  <2> QED BY <1>1, <1>2, <1>3, <2>1, <2>2, <2>3 DEF OnBoard
<1> QED BY <1>4, <1>5, <1>6

\* The leaderboard keeps its source.
LEMMA BoardKept ==
  ASSUME WatchOK, WatchOK', WatchNext \/ WatchRest, NEW s \in Watchers, OnBoard(s)
  PROVE  OnBoard(s)'
<1>1. WatchTyped'
  BY DEF WatchOK
<1>2. CASE Checkpoint \/ Playback \/ RemoveQueued \/ \E t \in Watchers : Join(t) \/ Leave(t) \/ Sweep(t)
  BY <1>1, <1>2, CheckpointAnnounces, PlaybackAnnounces, JoinAnnounces, LeaveAnnounces, SweepAnnounces,
     BoardAnnounced
<1>3. CASE \E e \in DOMAIN run : Handling(e) \/ AttemptFails(e)
  BY <1>1, <1>3, BoardQuiet, BoardPaid
<1>4. CASE TickPasses \/ WatchRest
  <2>1. UNCHANGED <<run, total, score, mishap>>
    BY <1>4 DEF TickPasses, WatchRest, watchVars, clockVars, busVars, storeVars
  <2> QED BY <2>1 DEF OnBoard, Without
<1> QED BY <1>2, <1>3, <1>4 DEF WatchNext

-------------------------------------------------------------------------------
(* Watch time: by the book, everybody gets what the mark says *)

\* The entry is dropped, because its session has ended.
Dropped(e, s) == Find(e) /\ s = run[e].entry /\ row[s].ended

\* What is pending stays pending while a run takes its next entry.
LEMMA EntersKeeps ==
  ASSUME NEW e, NEW todo, Enters(e, todo), NEW s \in todo
  PROVE  e \in DOMAIN event' /\ Pending(e, s)'
BY DEF Enters, Turns, Pending

\* An entry remains until it is credited or dropped.
LEMMA RemainingStays ==
  ASSUME WatchOK, NEW e \in DOMAIN run, NEW f \in DOMAIN event, NEW s \in Watchers,
         Quiet(e) \/ (Credit(e) /\ ~(f = e /\ s = run[e].entry)),
         Remaining(f, s), ~(f = e /\ Dropped(e, s))
  PROVE  f \in DOMAIN event' /\ event'[f] = event[f] /\ Remaining(f, s)'
<1>1. Moved(e) /\ Pays(f, s)
  BY EveryTurnMoves DEF Quiet, Handling, Remaining
<1>2. CASE f # e
  BY <1>1, <1>2 DEF Moved, Remaining, Pays, Pending
<1>3. CASE f = e
  <2> SUFFICES e \in DOMAIN event' /\ (run'[e].step = "queued" \/ Pending(e, s)')
    BY <1>1, <1>3 DEF Moved, Remaining, Pays
  <2>1. /\ event[e].kind = "checkpoint" /\ (run[e].step = "queued" \/ Pending(e, s))
    BY <1>3 DEF Remaining, Pays
  <2>2. CASE Enters(e, run[e].todo) /\ s \in run[e].todo
    BY <2>2, EntersKeeps
  <2>3. CASE OnCheckpoint(e)
    <3>1. Enters(e, {t \in Watchers : Pays(e, t)}) /\ s \in {t \in Watchers : Pays(e, t)}
      BY <1>1, <1>3, <2>3, OnCheckpointTurn
    <3> QED BY <3>1, EntersKeeps
  <2>4. CASE Gate(e)
    BY <2>1, <2>4, GateTurn DEF Turns, Pending
  <2>5. CASE Find(e)
    <3>1. run[e].step = "find"
      BY <2>5, FindTurn
    <3>2. CASE Enters(e, run[e].todo) /\ row[run[e].entry].ended
      BY <1>3, <2>1, <2>2, <2>5, <3>1, <3>2 DEF Pending, Dropped
    <3>3. CASE Turns(e, "write", run[e].entry, run[e].todo, run[e].worth, run[e].wrote)
      BY <2>1, <3>1, <3>3 DEF Turns, Pending
    <3> QED BY <2>1, <2>5, <3>2, <3>3, FindTurn
  <2>6. CASE Credit(e) /\ s # run[e].entry
    <3>1. s \in run[e].todo
      BY <1>3, <2>1, <2>6, CreditTurn DEF Pending
    <3>2. CASE Turns(e, "totals", run[e].entry, run[e].todo, run[e].worth, TRUE)
      BY <3>1, <3>2 DEF Turns, Pending
    <3> QED BY <2>2, <2>6, <3>1, <3>2, CreditTurn
  <2>7. CASE AddToTotals(e)
    BY <2>1, <2>7, TotalsTurn DEF Turns, Pending
  <2>8. CASE IncrementScore(e)
    BY <2>1, <2>2, <2>8, ScoreTurn DEF Pending
  <2>9. CASE AttemptFails(e)
    BY <2>9, FailTurn, QueuedIs
  <2> QED BY <1>3, <2>1, <2>2, <2>3, <2>4, <2>5, <2>6, <2>7, <2>8, <2>9, OnJoinedTurn, SetRoomPlayingTurn,
             OnLeftTurn, PayTailTurn DEF Quiet
<1> QED BY <1>2, <1>3

\* The handlers of a room that plays all the while keep it so.
LEMMA LastingKept ==
  ASSUME WatchOK, Unbroken, Regular => Lasting, NEW e \in DOMAIN run, Handling(e) \/ AttemptFails(e), Regular'
  PROVE  Lasting' /\ Regular
<1>1. /\ mishap = {} /\ Moved(e) /\ e \in DOMAIN event /\ event[e].kind \notin {"started", "skipped"}
  BY EveryTurnMoves, RunIs DEF Regular, Unbroken
<1>2. playing' = playing
  <2>1. ~SetRoomPlaying(e)
    BY <1>1, SetRoomPlayingTurn
  <2> QED BY <2>1 DEF Handling, OnJoined, OnCheckpoint, OnLeft, Gate, Find, Credit, EndSession, PayTail,
                      AddToTotals, IncrementScore, AttemptFails, storeVars
<1>3. Regular /\ Lasting
  BY <1>1, <1>2 DEF Regular
<1>4. ASSUME NEW f \in DOMAIN event', f # e
      PROVE  /\ event'[f].kind \notin {"started", "skipped"}
             /\ event'[f].kind = "checkpoint" /\ run'[f].step \in {"find", "write"} =>
                  run'[f].worth = event'[f].pay[run'[f].entry]
  BY <1>1, <1>3, <1>4 DEF Moved, Lasting
<1>5. ASSUME e \in DOMAIN event', event[e].kind = "checkpoint", run'[e].step \in {"find", "write"}
      PROVE  run'[e].worth = event[e].pay[run'[e].entry]
  <2>1. CASE Gate(e)
    <3>1. /\ run'[e].entry = run[e].entry
          /\ run'[e].worth = IF playing THEN event[e].pay[run[e].entry] ELSE 0
      BY <2>1, GateTurn DEF Turns
    <3> QED BY <1>3, <3>1 DEF Regular
  <2>2. CASE Find(e)
    <3>1. run[e].step = "find" /\ run[e].worth = event[e].pay[run[e].entry]
      BY <1>1, <1>3, <1>5, <2>2, FindTurn DEF Lasting
    <3> QED BY <1>5, <2>2, <3>1, FindTurn DEF Enters, Ends, Turns
  <2>3. ~OnJoined(e) /\ ~SetRoomPlaying(e) /\ ~OnLeft(e)
    BY <1>5, OnJoinedTurn, SetRoomPlayingTurn, OnLeftTurn
  <2>4. ~EndSession(e) /\ ~PayTail(e)
    BY <1>5, EndTurn, PayTailTurn
  <2>5. \A todo : ~Enters(e, todo)
    BY <1>5 DEF Enters, Ends, Turns
  <2>6. ~OnCheckpoint(e) /\ ~IncrementScore(e)
    BY <2>5, OnCheckpointTurn, ScoreTurn
  <2>7. ~Credit(e) /\ ~AddToTotals(e)
    BY <1>5, <2>5, CreditTurn, TotalsTurn DEF Turns
  <2>8. ~AttemptFails(e)
    BY <1>5, FailTurn, QueuedIs
  <2> QED BY <2>1, <2>2, <2>3, <2>4, <2>6, <2>7, <2>8 DEF Handling
<1>6. ASSUME NEW f \in DOMAIN event'
      PROVE  /\ event'[f].kind \notin {"started", "skipped"}
             /\ event'[f].kind = "checkpoint" /\ run'[f].step \in {"find", "write"} =>
                  run'[f].worth = event'[f].pay[run'[f].entry]
  BY <1>1, <1>4, <1>5 DEF Moved
<1> QED BY <1>3, <1>6 DEF Lasting

\* A left event stays until its session has ended.
LEMMA LeftStays ==
  ASSUME WatchOK, NEW e \in DOMAIN run, Handling(e) \/ AttemptFails(e), Regular', NEW f \in DOMAIN event,
         event[f].kind = "left"
  PROVE  \/ f \in DOMAIN event' /\ event'[f] = event[f]
         \/ row'[event[f].of].ended
<1>1. Moved(e) /\ EventOK(f)
  BY EveryTurnMoves, EventIs
<1>2. CASE f \in DOMAIN event'
  BY <1>1, <1>2 DEF Moved
<1>3. CASE f \notin DOMAIN event'
  <2>1. f = e /\ event[e].of \in Watchers
    BY <1>1, <1>3 DEF Moved, EventOK
  <2>2. row[event[e].of].ended
    <3>1. RunOK(e)
      BY RunIs
    <3>2. CASE Find(e)
      <4>1. ~(Is(e, {"left"}) /\ ~row[run[e].entry].seen)
        BY <3>2 DEF Find, Regular
      <4>2. run[e].entry = event[e].of
        BY <2>1, <3>1, <3>2, FindTurn DEF RunOK
      <4> QED BY <1>3, <2>1, <3>2, <4>1, <4>2, FindTurn DEF Turns, Is
    <3>3. ~OnJoined(e) /\ ~SetRoomPlaying(e) /\ ~OnCheckpoint(e)
      BY <2>1, OnJoinedTurn, SetRoomPlayingTurn, OnCheckpointTurn
    <3>4. ~OnLeft(e) /\ ~Gate(e) /\ ~Credit(e)
      BY <1>3, <2>1, OnLeftTurn, GateTurn, CreditTurn DEF Turns
    <3>5. ~EndSession(e) /\ ~AddToTotals(e) /\ ~AttemptFails(e)
      BY <1>3, <2>1, EndTurn, TotalsTurn, FailTurn DEF Turns
    <3>6. CASE PayTail(e) \/ IncrementScore(e)
      <4>1. run[e].step \in {"tail", "score"}
        BY <3>6, PayTailTurn, ScoreTurn
      <4> QED BY <2>1, <3>1, <4>1 DEF RunOK
    <3> QED BY <3>2, <3>3, <3>4, <3>5, <3>6 DEF Handling
  <2> QED BY <2>1, <2>2, MarkMoves
<1> QED BY <1>2, <1>3

\* What pays stands for some time.
LEMMA PaysSpan ==
  ASSUME WatchOK, NEW f \in DOMAIN event, NEW s \in Watchers, Pays(f, s) PROVE event[f].span[s] > 0
<1>1. event[f].pay[s] \in Nat /\ event[f].span[s] \in Nat /\ event[f].pay[s] <= event[f].span[s]
  BY EventIs
<1> QED BY <1>1 DEF Pays

\* What remains is not done.
LEMMA RemainingIsUndone ==
  ASSUME WatchOK, NEW f \in DOMAIN event, NEW s, Remaining(f, s) PROVE Undone(f, s)
<1>1. run[f].step = "queued" => ~run[f].wrote
  BY EventIs, QueuedIs DEF RunOK
<1> QED BY <1>1 DEF Remaining, Undone

\* These steps keep the exact pay: an entry is dropped only if it ends after the mark, by the book.
LEMMA ExactQuiet ==
  ASSUME WatchOK, WatchTyped', NEW e \in DOMAIN run, Quiet(e), Regular, Regular',
         NEW s \in Watchers, PaidExactly(s)
  PROVE  PaidExactly(s)'
<1>1. Moved(e) /\ client' = client /\ mishap = {} /\ mishap' = {} /\ playing
  BY EveryTurnMoves DEF Quiet, Handling, Moved, clockVars, Regular
<1>2. ~(AttemptFails(e) /\ run[e].wrote)
  BY <1>1 DEF AttemptFails
<1>3. Mark(s)' = Mark(s) /\ row'[s].ended = row[s].ended
  BY QuietRows
<1>4. Got(s)' = Got(s) /\ dropped' = dropped
  <2>1. dropped' = dropped
    BY DEF Quiet, OnJoined, OnCheckpoint, OnLeft, SetRoomPlaying, Gate, Find, PayTail, AddToTotals,
           IncrementScore, AttemptFails, storeVars
  <2> QED BY <1>1, <1>2, <2>1, QuietPays
<1>5. client[s].at = "gone" =>
        row'[s].ended \/ \E f \in DOMAIN event' : event'[f].kind = "left" /\ event'[f].of = s
  BY <1>3, LeftStays DEF PaidExactly, Quiet, Handling
<1>6. ASSUME ~row[s].ended, NEW x \in Ticks, Mark(s) <= x, x < client[s].since
      PROVE  \E f \in DOMAIN event' : Remaining(f, s)' /\ From(f, s)' <= x /\ x < event'[f].at
  <2>1. PICK f \in DOMAIN event : Remaining(f, s) /\ From(f, s) <= x /\ x < event[f].at
    BY <1>6 DEF PaidExactly
  <2>2. f \in DOMAIN event' /\ event'[f] = event[f] /\ Remaining(f, s)'
    BY <1>6, <2>1, RemainingStays DEF Dropped
  <2> QED BY <2>1, <2>2 DEF From
<1>7. ASSUME NEW f \in DOMAIN event', Undone(f, s)' PROVE event'[f].at # Mark(s)'
  BY <1>2, <1>3, <1>7, UndoneKept DEF PaidExactly
<1>8. ASSUME \A f \in DOMAIN event' : Remaining(f, s)' => event'[f].at > Mark(s)'
      PROVE  \A f \in DOMAIN event : Remaining(f, s) => event[f].at > Mark(s)
  <2> SUFFICES ASSUME NEW f \in DOMAIN event, Remaining(f, s) PROVE event[f].at > Mark(s)
    OBVIOUS
  <2>1. CASE f = e /\ Dropped(e, s)
    <3>1. row[s].seen
      BY <2>1, ClientIs DEF Dropped, RowOK
    <3>2. ~(event[e].at < row[s].marker)
      BY <1>1, <2>1 DEF Dropped, Find
    <3>3. event[e].at # Mark(s)
      BY <2>1, RemainingIsUndone DEF PaidExactly
    <3> QED BY <2>1, <3>1, <3>2, <3>3, ClientIs, EventIs DEF Mark
  <2>2. CASE ~(f = e /\ Dropped(e, s))
    <3>1. f \in DOMAIN event' /\ event'[f] = event[f] /\ Remaining(f, s)'
      BY <2>2, RemainingStays
    <3> QED BY <1>3, <1>8, <3>1
  <2> QED BY <2>1, <2>2
<1>9. (\A f \in DOMAIN event' : Remaining(f, s)' => event'[f].at > Mark(s)') =>
        Got(s)' + dropped'[s] = (IF row'[s].ended THEN client'[s].gone ELSE Mark(s)') - client'[s].joined
  BY <1>1, <1>3, <1>4, <1>8 DEF PaidExactly
<1> QED BY <1>1, <1>3, <1>5, <1>6, <1>7, <1>9 DEF PaidExactly

\* A credit keeps it: where nothing earlier remains, the entry starts at the mark,
\* for the second after the mark is in an entry that remains.
LEMMA ExactCredit ==
  ASSUME WatchOK, WatchTyped', NEW e \in DOMAIN run, Credit(e), Regular, Regular', Lasting,
         NEW s \in Watchers, PaidExactly(s)
  PROVE  PaidExactly(s)'
<1>1. Moved(e) /\ client' = client /\ mishap = {} /\ mishap' = {} /\ playing
  BY EveryTurnMoves DEF Handling, Moved, clockVars, Regular
<1>2. ~(AttemptFails(e) /\ run[e].wrote)
  BY <1>1 DEF AttemptFails
<1>3. client[s].at = "gone" =>
        row'[s].ended \/ \E f \in DOMAIN event' : event'[f].kind = "left" /\ event'[f].of = s
  <2>1. row[s].ended => row'[s].ended
    BY MarkMoves DEF Handling
  <2> QED BY <2>1, LeftStays DEF PaidExactly, Handling
<1>4. /\ client[s].joined \in Nat /\ Mark(s) \in Nat /\ Got(s) \in Nat
      /\ Got(s)' = IF s = run[e].entry THEN Got(s) + run[e].worth ELSE Got(s)
      /\ dropped[s] \in Nat
      /\ dropped'[s] = IF s = run[e].entry THEN dropped[s] + Fraction(event[e].span[s]) ELSE dropped[s]
  <2>1. dropped \in [Watchers -> Nat]
    BY DEF WatchOK, WatchTyped
  <2>2. dropped' = [dropped EXCEPT ![run[e].entry] = @ + Fraction(event[e].span[run[e].entry])]
    BY Zenon DEF Credit
  <2> QED BY <1>1, <2>1, <2>2, ClientIs, CreditPays, GotIs
<1>5. CASE s # run[e].entry
  <2>1. Got(s)' = Got(s) /\ row'[s] = row[s] /\ Mark(s)' = Mark(s) /\ dropped'[s] = dropped[s]
    BY <1>4, <1>5, CreditRows
  <2>2. ASSUME NEW f \in DOMAIN event, Remaining(f, s)
        PROVE  f \in DOMAIN event' /\ event'[f] = event[f] /\ Remaining(f, s)'
    BY <1>5, <2>2, RemainingStays, CreditTurn DEF Dropped
  <2>3. ASSUME ~row[s].ended, NEW x \in Ticks, Mark(s) <= x, x < client[s].since
        PROVE  \E f \in DOMAIN event' : Remaining(f, s)' /\ From(f, s)' <= x /\ x < event'[f].at
    <3>1. PICK f \in DOMAIN event : Remaining(f, s) /\ From(f, s) <= x /\ x < event[f].at
      BY <2>3 DEF PaidExactly
    <3> QED BY <2>2, <3>1 DEF From
  <2>4. ASSUME NEW f \in DOMAIN event', Undone(f, s)' PROVE event'[f].at # Mark(s)'
    BY <1>2, <2>1, <2>4, UndoneKept DEF PaidExactly
  <2>5. (\A f \in DOMAIN event' : Remaining(f, s)' => event'[f].at > Mark(s)') =>
          \A f \in DOMAIN event : Remaining(f, s) => event[f].at > Mark(s)
    BY <2>1, <2>2
  <2> QED BY <1>1, <1>3, <2>1, <2>3, <2>4, <2>5 DEF PaidExactly
<1>6. CASE s = run[e].entry
  <2> DEFINE at == event[e].at  span == event[e].span[s]
  <2>1. /\ e \in DOMAIN event /\ Undone(e, s) /\ Pays(e, s) /\ EntryOK(e, s)
        /\ ~run[e].read.ended /\ at \in Nat /\ span \in Nat /\ event[e].pay[s] \in Nat
        /\ event[e].pay[s] <= span /\ event[e].pay[s] + Fraction(span) = span
    BY <1>6, CreditedIs, EventIs
  <2>2. row'[s].seen /\ row'[s].ended = row[s].ended /\ Mark(s)' = at
    BY <1>6, CreditRows
  <2>3. ~row[s].ended /\ (row[s].seen => row[s].marker <= at) /\ row[s].ended \in BOOLEAN
    <3>1. row[s].ended = run[e].read.ended /\ ~(at < row[s].marker)
      BY <1>1, <1>6 DEF Credit
    <3> QED BY <2>1, <3>1, ClientIs
  <2>4. /\ span > 0 /\ event[e].pay[s] > 0 /\ client[s].joined <= at - span
        /\ at - span >= Mark(s) \/ at <= Mark(s)
    BY <2>1 DEF Pays, EntryOK, From
  <2>5. Mark(s) <= at - span /\ Mark(s) < at
    <3>1. Mark(s) <= at
      BY <1>4, <2>1, <2>3, <2>4 DEF Mark
    <3>2. at # Mark(s)
      BY <2>1 DEF PaidExactly
    <3> QED BY <1>4, <2>1, <2>4, <3>1, <3>2
  <2>6. run[e].worth = event[e].pay[s]
    BY <1>6, <2>1, CreditTurn DEF Lasting
  <2>7. ASSUME NEW f \in DOMAIN event, f # e, Remaining(f, s)
        PROVE  f \in DOMAIN event' /\ event'[f] = event[f] /\ Remaining(f, s)'
    BY <2>7, RemainingStays
  <2>8. ASSUME NEW f \in DOMAIN event, f # e, Pays(f, s)
        PROVE  /\ at <= From(f, s) \/ event[f].at <= at - span
               /\ event[f].at \in Nat /\ From(f, s) \in Int /\ From(f, s) < event[f].at
    <3>1. Disjoint(e, f, s) /\ event[f].at \in Nat /\ event[f].span[s] \in Nat /\ event[f].span[s] > 0
      BY <2>1, <2>8, EventIs, PaysSpan DEF WatchOK, LedgerShape
    <3> QED BY <2>1, <2>8, <3>1 DEF Disjoint, From, Pays
  <2>9. ASSUME NEW x \in Ticks, at <= x, x < client[s].since
        PROVE  \E f \in DOMAIN event' : Remaining(f, s)' /\ From(f, s)' <= x /\ x < event'[f].at
    <3>1. x \in Nat
      BY WatchTimeAssumption DEF Ticks
    <3>2. PICK f \in DOMAIN event : Remaining(f, s) /\ From(f, s) <= x /\ x < event[f].at
      BY <1>4, <2>1, <2>3, <2>5, <2>9, <3>1 DEF PaidExactly
    <3>3. f # e
      BY <2>1, <2>9, <3>1, <3>2
    <3> QED BY <2>7, <3>2, <3>3 DEF From
  <2>10. ASSUME NEW f \in DOMAIN event', Undone(f, s)' PROVE event'[f].at # at
    <3>1. Undone(f, s) /\ f \in DOMAIN event /\ event'[f] = event[f]
      BY <1>2, <2>10, UndoneKept
    <3>2. CASE f # e
      BY <2>1, <2>4, <2>8, <3>1, <3>2 DEF Undone
    <3>3. CASE f = e
      <4>1. Turns(e, "totals", run[e].entry, run[e].todo, run[e].worth, TRUE)
        <5>1. run[e].worth # 0
          BY <2>1, <2>4, <2>6
        <5> QED BY <5>1, CreditTurn
      <4>2. s \in run[e].todo
        BY <1>6, <2>10, <3>3, <4>1 DEF Turns, Undone, Pending
      <4> QED BY <1>6, <4>2, RunIs, CreditTurn DEF RunOK
    <3> QED BY <3>2, <3>3
  <2>11. ASSUME \A f \in DOMAIN event' : Remaining(f, s)' => event'[f].at > at
         PROVE  Got(s)' + dropped'[s] = at - client[s].joined
    <3>1. ASSUME NEW f \in DOMAIN event, Remaining(f, s)
          PROVE  event[f].at > Mark(s) /\ (f # e => at <= From(f, s))
      <4>1. CASE f = e
        BY <1>4, <2>1, <2>5, <4>1
      <4>2. CASE f # e
        <5>1. event[f].at > at
          BY <2>7, <2>11, <3>1, <4>2
        <5>2. /\ at <= From(f, s) \/ event[f].at <= at - span
              /\ event[f].at \in Nat
          BY <2>8, <3>1, <4>2 DEF Remaining
        <5> QED BY <1>4, <2>1, <2>5, <5>1, <5>2
      <4> QED BY <4>1, <4>2
    <3>2. Got(s) + dropped[s] = Mark(s) - client[s].joined
      BY <2>3, <3>1 DEF PaidExactly
    <3>3. Mark(s) = at - span
      <4> SUFFICES ASSUME Mark(s) # at - span PROVE FALSE
        OBVIOUS
      <4>1. Mark(s) < at - span /\ Mark(s) \in Ticks /\ Mark(s) < client[s].since
        <5>1. Mark(s) < at - span
          BY <1>4, <2>1, <2>5
        <5>2. at <= client[s].since /\ client[s].since \in Nat
          BY <2>1, ClientIs DEF EntryOK
        <5>3. Mark(s) \in Ticks
          BY ClientIs DEF Mark, Clients, Rows
        <5> QED BY <1>4, <2>1, <2>5, <5>1, <5>2, <5>3
      <4>2. PICK f \in DOMAIN event :
              Remaining(f, s) /\ From(f, s) <= Mark(s) /\ Mark(s) < event[f].at
        BY <1>4, <2>3, <4>1 DEF PaidExactly
      <4>3. f # e
        BY <1>4, <2>1, <4>1, <4>2 DEF From
      <4>4. at <= From(f, s) /\ From(f, s) \in Int
        BY <2>8, <3>1, <4>2, <4>3 DEF Remaining
      <4> QED BY <1>4, <2>1, <2>5, <4>2, <4>4
    <3>4. /\ Got(s)' = Got(s) + event[e].pay[s] /\ dropped'[s] = dropped[s] + Fraction(span)
          /\ Fraction(span) \in Nat
      <4>1. span \in Ticks
        BY <2>1, EventIs DEF Events
      <4> QED BY <1>4, <1>6, <2>6, <4>1, WholeIs
    <3> QED BY <1>4, <2>1, <3>2, <3>3, <3>4
  <2> HIDE DEF at, span
  <2>12. ~row'[s].ended
    BY <2>2, <2>3
  <2> QED BY <1>1, <1>3, <2>2, <2>9, <2>10, <2>11, <2>12 DEF PaidExactly
<1> QED BY <1>5, <1>6

\* An end keeps it: the residue goes from the mark to the second the socket left.
LEMMA ExactEnd ==
  ASSUME WatchOK, WatchTyped', NEW e \in DOMAIN run, EndSession(e), Regular, Regular',
         NEW s \in Watchers, PaidExactly(s)
  PROVE  PaidExactly(s)'
<1>1. Moved(e) /\ e \in DOMAIN event' /\ client' = client /\ mishap = {} /\ mishap' = {}
  BY EveryTurnMoves, EndTurn DEF Handling, Moved, clockVars, Regular, Turns
<1>2. DOMAIN event' = DOMAIN event
  BY <1>1 DEF Moved
<1>3. /\ client[s].joined \in Nat /\ Mark(s) \in Nat /\ Got(s) \in Nat /\ Mark(s)' = Mark(s)
      /\ Got(s)' = IF s = run[e].entry THEN Got(s) + Whole(Surplus(e)) ELSE Got(s)
      /\ dropped[s] \in Nat
      /\ dropped'[s] = IF s = run[e].entry THEN dropped[s] + Fraction(Surplus(e)) ELSE dropped[s]
  <2>1. dropped \in [Watchers -> Nat] /\ Surplus(e) = Max({0, event[e].at - run[e].read.marker})
    <3>1. event[e].at \in Ticks /\ run[e].read.marker \in Ticks
      BY RunIs DEF Events, Runs, Rows
    <3> QED BY <3>1, SurplusIs DEF WatchOK, WatchTyped, Surplus
  <2>2. dropped' = [dropped EXCEPT ![run[e].entry] =
                      @ + Fraction(Max({0, event[e].at - run[e].read.marker}))]
    BY Zenon DEF EndSession
  <2> QED BY <1>1, <2>1, <2>2, ClientIs, EndPays, GotTurns, EndRows
<1>4. \A f \in DOMAIN event : /\ event'[f] = event[f] /\ From(f, s)' = From(f, s)
                              /\ Undone(f, s)' = Undone(f, s) /\ Remaining(f, s)' = Remaining(f, s)
  BY <1>2, UndoneEnded DEF From
<1>5. CASE s # run[e].entry
  <2>1. Got(s)' = Got(s) /\ row'[s] = row[s] /\ dropped'[s] = dropped[s]
    BY <1>3, <1>5, EndRows
  <2> QED BY <1>1, <1>2, <1>3, <1>4, <2>1 DEF PaidExactly
<1>6. CASE s = run[e].entry
  <2>1. /\ event[e].kind = "left" /\ event[e].of = s /\ run[e].read.seen /\ ~run[e].read.ended
        /\ EventOK(e) /\ event[e].at \in Nat
    BY <1>6, EndedIs
  <2>2. row[s] = run[e].read
    BY <1>1, <1>6 DEF EndSession
  <2>3. run[e].read.marker = Mark(s) /\ ~row[s].ended
    BY <2>1, <2>2 DEF Mark
  <2>4. client[s].at = "gone" /\ event[e].at = client[s].gone
    BY <1>1, <2>1 DEF EventOK
  <2>5. Surplus(e) = client[s].gone - Mark(s) /\ client[s].gone \in Nat
    <3>1. Mark(s) <= client[s].since /\ client[s].since <= client[s].gone /\ client[s].since \in Nat
      BY <2>4, ClientIs DEF ClientOK
    <3> QED BY <1>3, <2>1, <2>3, <2>4, <3>1 DEF Surplus
  <2>6. row'[s].ended
    BY <1>6, EndRows
  <2>7. ASSUME \A f \in DOMAIN event' : Remaining(f, s)' => event'[f].at > Mark(s)'
        PROVE  Got(s)' + dropped'[s] = client'[s].gone - client'[s].joined
    <3>1. Got(s) + dropped[s] = Mark(s) - client[s].joined
      BY <1>2, <1>3, <1>4, <2>3, <2>7 DEF PaidExactly
    <3>2. /\ Whole(Surplus(e)) \in Nat /\ Fraction(Surplus(e)) \in Nat
          /\ Whole(Surplus(e)) + Fraction(Surplus(e)) = Surplus(e)
      BY SurplusWhole, WatchTimeAssumption DEF Ticks
    <3>3. /\ Got(s)' = Got(s) + Whole(Surplus(e)) /\ dropped'[s] = dropped[s] + Fraction(Surplus(e))
          /\ client'[s] = client[s]
      BY <1>1, <1>3, <1>6
    <3> QED BY <1>3, <2>5, <3>1, <3>2, <3>3
  <2>8. \A f \in DOMAIN event' : Undone(f, s)' => event'[f].at # Mark(s)'
    BY <1>2, <1>3, <1>4 DEF PaidExactly
  <2> QED BY <1>1, <2>4, <2>6, <2>7, <2>8 DEF PaidExactly
<1> QED BY <1>5, <1>6

\* What an announcement of a leave or a checkpoint leaves of the exact pay.
LEMMA ExactAdded ==
  ASSUME WatchOK, WatchTyped', NEW e, NEW kind, NEW of, NEW span, Added(e, kind, of, span),
         UNCHANGED storeVars, NEW s \in Watchers, PaidExactly(s),
         client'[s].joined = client[s].joined,
         \/ client'[s].at = client[s].at /\ client'[s].gone = client[s].gone
         \/ ~row[s].ended /\ kind = "left" /\ of = s,
         kind = "checkpoint" /\ Whole(span[s]) > 0 => tick > Mark(s),
         \/ client'[s].since = client[s].since
         \/ /\ kind = "checkpoint" /\ Whole(span[s]) > 0
            /\ tick - span[s] = client[s].since /\ client'[s].since = tick
  PROVE  PaidExactly(s)'
<1>1. /\ event'[e] = [kind |-> kind, of |-> of, at |-> tick, pay |-> WholeSeconds(span), span |-> span]
      /\ DOMAIN event' = DOMAIN event \cup {e} /\ run'[e] = Queued /\ e \notin DOMAIN event
      /\ \A f \in DOMAIN event : event'[f] = event[f] /\ run'[f] = run[f]
  BY DEF Added
<1>2. Got(s)' = Got(s) /\ dropped' = dropped
  BY GotAdded DEF storeVars
<1>3. row' = row /\ Mark(s)' = Mark(s) /\ Mark(s) \in Nat /\ tick \in Nat /\ client[s].since \in Nat
  BY ClientIs DEF Mark, storeVars
<1>4. \A f \in DOMAIN event : /\ Undone(f, s)' = Undone(f, s) /\ Remaining(f, s)' = Remaining(f, s)
                              /\ From(f, s)' = From(f, s)
  BY <1>1 DEF Undone, Remaining, Pays, Pending, From
<1>5. /\ Pays(e, s)' <=> (kind = "checkpoint" /\ Whole(span[s]) > 0)
      /\ event'[e].at = tick /\ From(e, s)' = tick - span[s]
  BY <1>1 DEF Pays, From, WholeSeconds
<1>6. Pays(e, s)' => Remaining(e, s)'
  BY <1>1, QueuedIs DEF Remaining
<1>7. client'[s].at = "gone" =>
        row'[s].ended \/ \E f \in DOMAIN event' : event'[f].kind = "left" /\ event'[f].of = s
  BY <1>1, <1>3 DEF PaidExactly
<1>8. ASSUME ~row'[s].ended, NEW x \in Ticks, Mark(s)' <= x, x < client'[s].since
      PROVE  \E f \in DOMAIN event' : Remaining(f, s)' /\ From(f, s)' <= x /\ x < event'[f].at
  <2>1. CASE x < client[s].since
    <3>1. PICK f \in DOMAIN event : Remaining(f, s) /\ From(f, s) <= x /\ x < event[f].at
      BY <1>3, <1>8, <2>1 DEF PaidExactly
    <3> QED BY <1>1, <1>4, <3>1
  <2>2. CASE ~(x < client[s].since)
    <3>1. x \in Nat
      BY WatchTimeAssumption DEF Ticks
    <3>2. /\ kind = "checkpoint" /\ Whole(span[s]) > 0
          /\ tick - span[s] = client[s].since /\ client'[s].since = tick
      BY <1>8, <2>2
    <3>3. Pays(e, s)'
      BY <1>5, <3>2
    <3>4. tick - span[s] <= x /\ x < tick
      BY <1>3, <1>8, <2>2, <3>1, <3>2
    <3> QED BY <1>1, <1>5, <1>6, <3>3, <3>4
  <2> QED BY <2>1, <2>2
<1>9. \A f \in DOMAIN event' : Undone(f, s)' => event'[f].at # Mark(s)'
  <2>1. Undone(e, s)' => event'[e].at # Mark(s)'
    <3>1. Undone(e, s)' => kind = "checkpoint" /\ Whole(span[s]) > 0
      BY <1>5 DEF Undone
    <3>2. kind = "checkpoint" /\ Whole(span[s]) > 0 => event'[e].at # Mark(s)'
      BY <1>3, <1>5
    <3> QED BY <3>1, <3>2
  <2> QED BY <1>1, <1>3, <1>4, <2>1 DEF PaidExactly
<1>10. (\A f \in DOMAIN event' : Remaining(f, s)' => event'[f].at > Mark(s)') =>
         (\A f \in DOMAIN event : Remaining(f, s) => event[f].at > Mark(s))
  BY <1>1, <1>3, <1>4
<1> QED BY <1>2, <1>3, <1>7, <1>8, <1>9, <1>10 DEF PaidExactly

\* A session nobody has heard of has nothing to be paid for.
LEMMA NothingYet ==
  ASSUME WatchOK, NEW s \in Watchers, client[s].at = "away", NEW f \in DOMAIN event
  PROVE  ~Pays(f, s)
BY EventIs DEF EntryOK

\* A join keeps the exact pay: it starts with nothing.
LEMMA ExactJoin ==
  ASSUME WatchOK, WatchTyped', NEW t \in Watchers, Join(t), NEW s \in Watchers, PaidExactly(s)
  PROVE  PaidExactly(s)'
<1>1. PICK e : Added(e, "joined", t, NoPay)
  BY JoinIs
<1>2. /\ client[t].at = "away" /\ UNCHANGED <<tick, mishap, storeVars>>
      /\ client'[t] = [at |-> "here", joined |-> tick, since |-> tick, gone |-> 0]
      /\ \A u \in Watchers : u # t => client'[u] = client[u]
  BY JoinIs
<1>3. /\ DOMAIN event' = DOMAIN event \cup {e} /\ event'[e].kind = "joined"
      /\ \A f \in DOMAIN event : event'[f] = event[f] /\ run'[f] = run[f]
  BY <1>1 DEF Added
<1>4. Got(s)' = Got(s) /\ row' = row /\ tick \in Nat /\ dropped' = dropped
  BY <1>1, <1>2, GotAdded, ClientIs DEF storeVars
<1>5. CASE client[s].at = "away"
  <2>1. ~row[s].seen /\ ~row[s].ended /\ client[s].joined = 0
    BY <1>5, ClientIs DEF ClientOK, RowOK
  <2>2. \A f \in DOMAIN event' : ~Pays(f, s)'
    BY <1>3, <1>5, NothingYet DEF Pays
  <2>3. Got(s) + dropped[s] = 0
    <3>1. \A f \in DOMAIN event : ~Remaining(f, s)
      BY <1>5, NothingYet DEF Remaining
    <3>2. Got(s) + dropped[s] = Mark(s) - client[s].joined
      BY <2>1, <3>1 DEF PaidExactly
    <3> QED BY <2>1, <3>2 DEF Mark
  <2>4. /\ client'[s].joined = client'[s].since /\ client'[s].joined \in Nat
        /\ client'[s].at # "gone" /\ Mark(s)' = client'[s].joined
    <3>1. CASE s = t
      BY <1>2, <1>4, <2>1, <3>1 DEF Mark
    <3>2. CASE s # t
      <4>1. client'[s] = client[s] /\ client[s].since = 0
        BY <1>2, <1>5, <3>2, ClientIs DEF ClientOK
      <4> QED BY <1>4, <1>5, <2>1, <4>1 DEF Mark
    <3> QED BY <3>1, <3>2
  <2>5. ~(\E x \in Ticks : Mark(s)' <= x /\ x < client'[s].since)
    BY <2>4, WatchTimeAssumption DEF Ticks
  <2>6. ~row'[s].ended /\ \A f \in DOMAIN event' : ~Undone(f, s)'
    BY <1>4, <2>1, <2>2 DEF Undone
  <2>7. Got(s)' + dropped'[s] = Mark(s)' - client'[s].joined
    BY <1>4, <2>3, <2>4
  <2> QED BY <2>4, <2>5, <2>6, <2>7 DEF PaidExactly
<1>6. CASE client[s].at # "away"
  <2>1. client'[s] = client[s]
    BY <1>2, <1>6
  <2> QED BY <1>1, <1>2, <1>6, <2>1, ExactAdded
<1> QED BY <1>5, <1>6

\* A join, a leave and a checkpoint neither start nor stop a room.
LEMMA LastingAdded ==
  ASSUME WatchOK, Lasting, NEW e, NEW kind \in {"joined", "left", "checkpoint"}, NEW of, NEW span,
         Added(e, kind, of, span)
  PROVE  Lasting'
<1>1. /\ event'[e].kind = kind /\ run'[e] = Queued /\ e \notin DOMAIN event
      /\ DOMAIN event' = DOMAIN event \cup {e}
      /\ \A f \in DOMAIN event : event'[f] = event[f] /\ run'[f] = run[f]
  BY DEF Added
<1> QED BY <1>1, QueuedIs DEF Lasting

\* A leave keeps the exact pay: its event is there to end the session.
LEMMA ExactLeave ==
  ASSUME WatchOK, WatchTyped', NEW t \in Watchers, Leave(t), NEW s \in Watchers, PaidExactly(s)
  PROVE  PaidExactly(s)'
<1>1. PICK e : Added(e, "left", t, NoPay)
  BY LeaveIs
<1>2. /\ client[t].at = "here" /\ UNCHANGED storeVars
      /\ t # s => client'[s] = client[s]
      /\ client'[s].joined = client[s].joined /\ client'[s].since = client[s].since
  BY LeaveIs
<1>3. CASE s = t
  <2>1. ~row[s].ended
    BY <1>2, <1>3 DEF PaidExactly
  <2> QED BY <1>1, <1>2, <1>3, <2>1, ExactAdded
<1>4. CASE s # t
  BY <1>1, <1>2, <1>4, ExactAdded
<1> QED BY <1>3, <1>4

\* A checkpoint keeps it: the seconds since the last one are in its entries.
LEMMA ExactCheckpoint ==
  ASSUME WatchOK, WatchTyped', Checkpoint, NEW s \in Watchers, PaidExactly(s)
  PROVE  PaidExactly(s)'
<1>1. PICK e : Added(e, "checkpoint", Nobody, CheckpointSpan)
  BY CheckpointIs
<1>2. /\ UNCHANGED storeVars /\ client'[s].joined = client[s].joined
      /\ client'[s].at = client[s].at /\ client'[s].gone = client[s].gone
  BY CheckpointIs
<1>3. /\ Mark(s) \in Nat /\ client[s].since \in Nat /\ tick \in Nat /\ Mark(s) <= client[s].since
  BY ClientIs
<1>4. CASE Due(s)
  <2>1. /\ CheckpointSpan[s] = tick - client[s].since /\ Whole(CheckpointSpan[s]) > 0
        /\ client'[s].since = tick
    BY <1>4, CheckpointIs
  <2>2. tick > Mark(s) /\ tick - CheckpointSpan[s] = client[s].since
    BY <1>3, <1>4, <2>1, DueIs DEF WatchOK
  <2> HIDE DEF CheckpointSpan
  <2> QED BY <1>1, <1>2, <2>1, <2>2, ExactAdded
<1>5. CASE ~Due(s)
  <2>1. CheckpointSpan[s] = 0 /\ client'[s].since = client[s].since
    BY <1>5, CheckpointIs
  <2>2. ~("checkpoint" = "checkpoint" /\ Whole(CheckpointSpan[s]) > 0)
    BY <2>1, WholeIs, QueuedIs
  <2> HIDE DEF CheckpointSpan
  <2> QED BY <1>1, <1>2, <2>1, <2>2, ExactAdded
<1> QED BY <1>4, <1>5

\* Nothing the ledger says changes.
Still == UNCHANGED <<client, event, run, row, mishap, total, playing, score, dropped>>

\* Then everything that was said of it stays true.
LEMMA StillHolds ==
  ASSUME WatchOK, Still
  PROVE  /\ Regular' => Regular
         /\ Lasting => Lasting'
         /\ \A s \in Watchers : PaidExactly(s) => PaidExactly(s)'
         /\ \A s \in Watchers : OnBoard(s) => OnBoard(s)'
<1>1. ASSUME NEW s \in Watchers PROVE PaidExactly(s) => PaidExactly(s)'
  <2>1. /\ Got(s)' = Got(s) /\ Mark(s)' = Mark(s)
        /\ \A f \in DOMAIN event : /\ Undone(f, s)' = Undone(f, s) /\ Remaining(f, s)' = Remaining(f, s)
                                   /\ From(f, s)' = From(f, s)
    BY DEF Still, Got, Mark, Undone, Remaining, Pays, Pending, From
  <2> QED BY <2>1 DEF Still, PaidExactly
<1>2. ASSUME NEW s \in Watchers PROVE OnBoard(s) => OnBoard(s)'
  BY DEF Still, OnBoard, Without
<1>3. Lasting => Lasting'
  <2>1. event' = event /\ run' = run
    BY DEF Still
  <2> QED BY <2>1 DEF Lasting
<1>4. Regular' => Regular
  BY DEF Still, Regular
<1> QED BY <1>1, <1>2, <1>3, <1>4

\* Without a mishap, no start or stop of the player is published.
LEMMA UnbrokenKept ==
  ASSUME WatchOK, Unbroken, WatchNext \/ WatchRest
  PROVE  Unbroken'
<1> DEFINE Nothing == \A f \in DOMAIN event' : event'[f].kind \notin {"started", "skipped"}
<1> SUFFICES ASSUME mishap' = {} PROVE Nothing /\ playing' = onAir'
  BY DEF Unbroken
<1>1. ASSUME NEW e, NEW kind \in {"joined", "left", "checkpoint"}, NEW of, NEW span,
             Added(e, kind, of, span), mishap = {}
      PROVE  Nothing
  <2>1. /\ DOMAIN event' = DOMAIN event \cup {e} /\ event'[e].kind = kind
        /\ \A f \in DOMAIN event : event'[f] = event[f]
    BY <1>1 DEF Added
  <2> QED BY <1>1, <2>1 DEF Unbroken
<1>2. CASE TickPasses \/ WatchRest
  <2>1. UNCHANGED <<event, onAir, playing, mishap>>
    BY <1>2 DEF TickPasses, WatchRest, watchVars, clockVars, busVars, storeVars
  <2> QED BY <2>1 DEF Unbroken
<1>3. ASSUME NEW t \in Watchers, Join(t) PROVE Nothing /\ playing' = onAir'
  <2>1. mishap = {} /\ UNCHANGED <<onAir, playing>>
    BY <1>3 DEF Join, storeVars
  <2> QED BY <1>1, <1>3, <2>1, JoinIs DEF Unbroken
<1>4. ASSUME NEW t \in Watchers, Leave(t) PROVE Nothing /\ playing' = onAir'
  <2>1. mishap = {} /\ UNCHANGED <<onAir, playing>>
    BY <1>4 DEF Leave, storeVars
  <2> QED BY <1>1, <1>4, <2>1, LeaveIs DEF Unbroken
<1>5. CASE Checkpoint
  <2>1. PICK e : Added(e, "checkpoint", Nobody, CheckpointSpan)
    BY <1>5, CheckpointIs
  <2>2. mishap = {} /\ UNCHANGED <<onAir, playing>>
    BY <1>5 DEF Checkpoint, storeVars
  <2> QED BY <1>1, <1>5, <2>1, <2>2 DEF Unbroken
<1>6. ~Playback /\ ~RemoveQueued /\ \A t \in Watchers : ~Sweep(t)
  BY DEF Playback, RemoveQueued, Sweep, Trouble
<1>7. ASSUME NEW e \in DOMAIN run, Handling(e) \/ AttemptFails(e) PROVE Nothing /\ playing' = onAir'
  <2>1. mishap = {} /\ Moved(e) /\ e \in DOMAIN event /\ onAir' = onAir
    BY <1>7, EveryTurnMoves, RunIs DEF Moved, clockVars
  <2>2. playing' = playing
    <3>1. ~SetRoomPlaying(e)
      BY <2>1, SetRoomPlayingTurn DEF Unbroken
    <3> QED BY <1>7, <3>1 DEF Handling, OnJoined, OnCheckpoint, OnLeft, Gate, Find, Credit, EndSession,
                              PayTail, AddToTotals, IncrementScore, AttemptFails, storeVars
  <2> QED BY <2>1, <2>2 DEF Moved, Unbroken
<1> HIDE DEF Nothing
<1> QED BY <1>2, <1>3, <1>4, <1>5, <1>6, <1>7 DEF WatchNext

\* The exact pay is inductive.
LEMMA ExactKept ==
  ASSUME WatchOK, WatchTyped', PaidToTheSecond, WatchNext \/ WatchRest
  PROVE  PaidToTheSecond'
<1> SUFFICES ASSUME Regular' PROVE Lasting' /\ \A s \in Watchers : PaidExactly(s)'
  BY UnbrokenKept DEF PaidToTheSecond
<1>1. CASE TickPasses \/ WatchRest
  <2>1. Still
    BY <1>1 DEF Still, TickPasses, WatchRest, watchVars, busVars, storeVars, clockVars
  <2> QED BY <2>1, StillHolds DEF PaidToTheSecond
<1>2. ASSUME NEW t \in Watchers, Join(t) PROVE Lasting' /\ \A s \in Watchers : PaidExactly(s)'
  <2>1. PICK e : Added(e, "joined", t, NoPay)
    BY <1>2, JoinIs
  <2>2. Regular
    BY <1>2, JoinIs DEF Regular, storeVars
  <2> QED BY <1>2, <2>1, <2>2, LastingAdded, ExactJoin DEF PaidToTheSecond
<1>3. ASSUME NEW t \in Watchers, Leave(t) PROVE Lasting' /\ \A s \in Watchers : PaidExactly(s)'
  <2>1. PICK e : Added(e, "left", t, NoPay)
    BY <1>3, LeaveIs
  <2>2. Regular
    BY <1>3, LeaveIs DEF Regular, storeVars
  <2> QED BY <1>3, <2>1, <2>2, LastingAdded, ExactLeave DEF PaidToTheSecond
<1>4. CASE Checkpoint
  <2>1. PICK e : Added(e, "checkpoint", Nobody, CheckpointSpan)
    BY <1>4, CheckpointIs
  <2>2. Regular
    BY <1>4, CheckpointIs DEF Regular, storeVars
  <2> HIDE DEF CheckpointSpan
  <2>3. Lasting'
    BY <2>1, <2>2, LastingAdded DEF PaidToTheSecond
  <2> QED BY <1>4, <2>2, <2>3, ExactCheckpoint DEF PaidToTheSecond
<1>5. ASSUME NEW t \in Watchers PROVE ~Sweep(t)
  BY DEF Sweep, Trouble, Regular
<1>6. ~Playback /\ ~RemoveQueued
  BY DEF Playback, RemoveQueued, Trouble, Regular
<1>7. ASSUME NEW e \in DOMAIN run, Handling(e) \/ AttemptFails(e)
      PROVE  Lasting' /\ \A s \in Watchers : PaidExactly(s)'
  <2>1. Regular /\ Lasting'
    BY <1>7, LastingKept DEF PaidToTheSecond
  <2>2. Lasting /\ \A s \in Watchers : PaidExactly(s)
    BY <2>1 DEF PaidToTheSecond
  <2>3. Quiet(e) \/ Credit(e) \/ EndSession(e)
    BY <1>7 DEF Quiet, Handling
  <2> QED BY <2>1, <2>2, <2>3, ExactQuiet, ExactCredit, ExactEnd
<1> QED BY <1>1, <1>2, <1>3, <1>4, <1>5, <1>6, <1>7 DEF WatchNext

-------------------------------------------------------------------------------
(* Watch time: the invariant and the theorem *)

\* Where nothing runs, nothing is under way.
LEMMA NobodyRuns == ASSUME NEW s, NEW steps, DOMAIN run = {} PROVE Sum(run, s, steps) = 0
<1>1. {x \in (DOMAIN run) \X (1 .. MaxTicks) :
         run[x[1]].step \in steps /\ run[x[1]].entry = s /\ x[2] <= run[x[1]].worth} = {}
  OBVIOUS
<1> QED BY <1>1, FS_EmptySet DEF Sum

\* The room is empty and nothing is paid.
LEMMA WatchStarts == WatchInit => WatchInv
<1> SUFFICES ASSUME WatchInit PROVE WatchInv
  OBVIOUS
<1>1. /\ DOMAIN event = {} /\ DOMAIN run = {} /\ tick = 0 /\ mishap = {}
      /\ 0 \in Ticks /\ \A s \in Watchers : row[s] = Unread
  BY WatchTimeAssumption DEF WatchInit, Ticks
<1>2. ASSUME NEW s \in Watchers
      PROVE  /\ client[s] = [at |-> "away", joined |-> 0, since |-> 0, gone |-> 0]
             /\ total[s] = 0 /\ score[s] = 0 /\ Got(s) = 0 /\ Mark(s) = 0 /\ dropped[s] = 0
  <2>1. total[s] = 0 /\ Sum(run, s, Waiting) = 0
    BY <1>1, NobodyRuns DEF WatchInit
  <2> QED BY <1>1, <2>1 DEF WatchInit, Got, Mark, Unread
<1>3. WatchTyped
  BY <1>1 DEF WatchInit, WatchTyped, Rows, Unread
<1>4. LedgerShape
  BY <1>1, <1>2 DEF LedgerShape, ClientOK, RowOK, Unread
<1>5. Bounded
  BY <1>1, <1>2 DEF Bounded, PaidAtMost, Unread
<1>6. PaidToTheSecond
  <2>1. ASSUME NEW s \in Watchers PROVE PaidExactly(s)
    <3>1. ~(\E x \in Ticks : Mark(s) <= x /\ x < client[s].since)
      BY <1>2, WatchTimeAssumption DEF Ticks
    <3> QED BY <1>1, <1>2, <3>1 DEF PaidExactly, Unread
  <2> QED BY <1>1, <2>1 DEF PaidToTheSecond, Unbroken, Lasting, WatchInit
<1>7. ASSUME NEW s \in Watchers PROVE OnBoard(s)
  <2>1. Sum(run, s, Scoring) = 0
    BY <1>1, NobodyRuns
  <2> QED BY <1>2, <2>1 DEF OnBoard
<1> QED BY <1>3, <1>4, <1>5, <1>6, <1>7 DEF WatchInv, WatchOK

\* Every step keeps the invariant.
LEMMA WatchKeeps == WatchInv /\ [WatchNext]_watchVars => WatchInv'
<1> SUFFICES ASSUME WatchInv, [WatchNext]_watchVars PROVE WatchInv'
  OBVIOUS
<1>1. WatchOK /\ (WatchNext \/ WatchRest)
  BY DEF WatchInv, WatchRest
<1>2. WatchOK' /\ WatchTyped'
  BY <1>1, WatchKept DEF WatchOK
<1>3. Bounded'
  BY <1>1, <1>2, BoundedKept DEF WatchInv
<1>4. PaidToTheSecond'
  BY <1>1, <1>2, ExactKept DEF WatchInv
<1>5. \A s \in Watchers : OnBoard(s)'
  BY <1>1, <1>2, BoardKept DEF WatchInv
<1> QED BY <1>2, <1>3, <1>4, <1>5 DEF WatchInv

\* The invariant says that watch time is paid.
LEMMA WatchTells == WatchInv => WatchTimeIsPaid
<1> SUFFICES ASSUME WatchInv PROVE WatchTimeIsPaid
  OBVIOUS
<1>1. WatchOK
  BY DEF WatchInv
<1>2. ASSUME NEW s \in Watchers
      PROVE  /\ total[s] \in Nat /\ total[s] <= Got(s) /\ Got(s) \in Nat
             /\ DOMAIN run = {} => Got(s) = total[s]
  <2>1. total[s] \in Nat
    BY <1>1 DEF WatchOK, WatchTyped
  <2>2. Sum(run, s, Waiting) \in Nat
    <3>1. IsFiniteSet(DOMAIN run) /\ 0 \notin DOMAIN run
      BY <1>1, RunsAreFinite DEF WatchOK, WatchTyped
    <3>2. /\ Sum(run, s, Waiting) = Others(run, 0, s, Waiting) + Part(run, 0, s, Waiting)
          /\ Others(run, 0, s, Waiting) \in Nat /\ Part(run, 0, s, Waiting) \in Nat
      BY <3>1, SumSplits
    <3> QED BY <3>2
  <2>3. DOMAIN run = {} => Sum(run, s, Waiting) = 0
    BY NobodyRuns
  <2>4. Got(s) = total[s] + Sum(run, s, Waiting)
    BY DEF Got, Waiting
  <2> HIDE DEF Sum
  <2> QED BY <2>1, <2>2, <2>3, <2>4
<1>3. NeverOverpaid
  <2> SUFFICES ASSUME Without({"retry", "stale", "backwards"}), NEW s \in Watchers
               PROVE  total[s] <= Present(s)
    BY DEF NeverOverpaid
  <2>1. PaidAtMost(s)
    BY DEF WatchInv, Bounded
  <2>2. /\ ClientOK(s) /\ RowOK(s) /\ client[s].joined \in Nat /\ client[s].since \in Nat
        /\ client[s].gone \in Nat /\ tick \in Nat /\ Mark(s) \in Nat /\ Mark(s) <= client[s].since
        /\ client[s].at \in {"away", "here", "gone"}
    BY <1>1, ClientIs
  <2>3. CASE row[s].ended
    <3>1. Got(s) <= Present(s) /\ Present(s) \in Int
      BY <2>1, <2>2, <2>3 DEF PaidAtMost, Present
    <3> QED BY <1>2, <3>1
  <2>4. CASE ~row[s].ended
    <3>1. Got(s) <= Mark(s) - client[s].joined
      BY <2>1, <2>4 DEF PaidAtMost
    <3>2. CASE client[s].at = "away"
      BY <1>2, <2>2, <3>1, <3>2 DEF ClientOK, Present
    <3>3. CASE client[s].at = "here"
      BY <1>2, <2>2, <3>1, <3>3 DEF ClientOK, Present
    <3>4. CASE client[s].at = "gone"
      BY <1>2, <2>2, <3>1, <3>4 DEF ClientOK, Present
    <3> QED BY <2>2, <3>2, <3>3, <3>4
  <2> QED BY <2>3, <2>4
<1>4. PaidInFull
  <2> SUFFICES ASSUME AllHandled, mishap = {}, onAir, NEW s \in Watchers, client[s].at = "gone"
               PROVE  total[s] + dropped[s] = Present(s)
    BY DEF PaidInFull
  <2>1. PaidExactly(s) /\ DOMAIN event = {} /\ DOMAIN run = {}
    BY <1>1 DEF WatchInv, PaidToTheSecond, Unbroken, Regular, AllHandled, WatchOK, WatchTyped
  <2>2. row[s].ended /\ Got(s) + dropped[s] = client[s].gone - client[s].joined
    BY <2>1 DEF PaidExactly
  <2> QED BY <1>2, <2>1, <2>2 DEF Present
<1>5. LeaderboardHasASource
  <2> SUFFICES ASSUME NEW s \in Watchers
               PROVE  /\ score[s] + Owed(s) <= total[s]
                      /\ Without({"retry"}) => score[s] + Owed(s) = total[s]
    BY DEF LeaderboardHasASource
  <2>1. Owed(s) = Sum(run, s, Scoring)
    BY OwedIs
  <2> QED BY <2>1 DEF WatchInv, OnBoard
<1> QED BY <1>3, <1>4, <1>5 DEF WatchTimeIsPaid

\* What is paid was watched, what was watched is paid once every event is handled,
\* and the leaderboard has a source, for every number of watchers, seconds, events
\* and mishaps (WatchTimeTracker, PrismaSessionStore, RedisLeaderboardStore).
THEOREM WatchPaid == WatchSpec => []WatchTimeIsPaid
<1>1. WatchInv /\ [WatchNext]_watchVars => WatchInv'
  BY WatchKeeps
<1> QED BY <1>1, WatchStarts, WatchTells, PTL DEF WatchSpec

-------------------------------------------------------------------------------
(* The boards: the years *)

\* Every year has 365 days, and one more when it is a leap year.
YearDays(y) == 365 + (IF IsLeap(y) THEN 1 ELSE 0)

\* The years of the calendar.
Years == FirstYear .. LastYear

\* The leap years before a year, one by one.
LeapsBefore(y) == {k \in FirstYear .. y - 1 : IsLeap(k)}

\* A year starts after 365 days for every year before, and one for every leap year.
LEMMA LeapsAre ==
  ASSUME NEW y \in FirstYear .. LastYear + 1
  PROVE  /\ IsFiniteSet(LeapsBefore(y)) /\ Cardinality(LeapsBefore(y)) \in Nat
         /\ YearStart[y] = 365 * (y - FirstYear) + Cardinality(LeapsBefore(y))
<1>1. y \in Int /\ FirstYear \in Int
  BY LeaderboardsAssumption
<1>2. IsFiniteSet(FirstYear .. y - 1)
  BY <1>1, FS_Interval
<1>3. IsFiniteSet(LeapsBefore(y))
  BY <1>2, FS_Subset DEF LeapsBefore
<1>4. YearStart[y] = 365 * (y - FirstYear) + Cardinality(LeapsBefore(y))
  BY DEF YearStart, LeapsBefore
<1> QED BY <1>3, <1>4, FS_CardinalityType

\* The calendar starts with its first year, and a year ends where the next one starts.
LEMMA NextYear ==
  /\ YearStart[FirstYear] = 0
  /\ \A y \in Years : YearStart[y] \in Nat /\ YearStart[y + 1] = YearStart[y] + YearDays(y)
<1>1. YearStart[FirstYear] = 0
  <2>1. FirstYear \in FirstYear .. LastYear + 1
    BY LeaderboardsAssumption
  <2>2. LeapsBefore(FirstYear) = {}
    BY LeaderboardsAssumption DEF LeapsBefore
  <2> QED BY <2>1, <2>2, LeapsAre, FS_EmptySet, LeaderboardsAssumption
<1>2. ASSUME NEW y \in Years
      PROVE  YearStart[y] \in Nat /\ YearStart[y + 1] = YearStart[y] + YearDays(y)
  <2>1. y \in FirstYear .. LastYear + 1 /\ y + 1 \in FirstYear .. LastYear + 1 /\ y \in Int
    BY LeaderboardsAssumption DEF Years
  <2>2. y \notin LeapsBefore(y)
    BY <2>1 DEF LeapsBefore
  <2>3. LeapsBefore(y + 1) = IF IsLeap(y) THEN LeapsBefore(y) \cup {y} ELSE LeapsBefore(y)
    <3>1. FirstYear .. (y + 1) - 1 = (FirstYear .. y - 1) \cup {y}
      BY <2>1, LeaderboardsAssumption DEF Years
    <3> QED BY <3>1 DEF LeapsBefore
  <2>4. Cardinality(LeapsBefore(y + 1)) = Cardinality(LeapsBefore(y)) + (IF IsLeap(y) THEN 1 ELSE 0)
    BY <2>1, <2>2, <2>3, LeapsAre, FS_AddElement
  <2>5. /\ YearStart[y] = 365 * (y - FirstYear) + Cardinality(LeapsBefore(y))
        /\ YearStart[y + 1] = 365 * ((y + 1) - FirstYear) + Cardinality(LeapsBefore(y + 1))
        /\ Cardinality(LeapsBefore(y)) \in Nat
    BY <2>1, LeapsAre
  <2>6. FirstYear \in Nat /\ y >= FirstYear
    BY LeaderboardsAssumption DEF Years
  <2> QED BY <2>1, <2>4, <2>5, <2>6 DEF YearDays
<1> QED BY <1>1, <1>2

\* Years do not overlap.
LEMMA YearsApart ==
  ASSUME NEW y \in FirstYear .. LastYear + 1, NEW z \in FirstYear .. LastYear + 1, y < z
  PROVE  YearStart[y] + 365 <= YearStart[z]
<1>1. y \in Int /\ z \in Int /\ FirstYear \in Nat
  BY LeaderboardsAssumption
<1>2. LeapsBefore(y) \subseteq LeapsBefore(z)
  BY <1>1 DEF LeapsBefore
<1>3. Cardinality(LeapsBefore(y)) <= Cardinality(LeapsBefore(z))
  BY <1>2, LeapsAre, FS_Subset
<1>4. 365 * (y - FirstYear) + 365 <= 365 * (z - FirstYear)
  BY <1>1
<1>5. /\ YearStart[y] = 365 * (y - FirstYear) + Cardinality(LeapsBefore(y))
      /\ YearStart[z] = 365 * (z - FirstYear) + Cardinality(LeapsBefore(z))
      /\ Cardinality(LeapsBefore(y)) \in Nat /\ Cardinality(LeapsBefore(z)) \in Nat
  BY LeapsAre
<1> QED BY <1>1, <1>3, <1>4, <1>5

\* A day is in a year.
InYear(d, y) == YearStart[y] <= d /\ d < YearStart[y + 1]

\* The calendar has a last day, and no year ends after it.
LEMMA YearTypes ==
  /\ LastDay \in Nat /\ Days \subseteq Nat /\ 0 \in Days
  /\ \A y \in FirstYear .. LastYear + 1 : YearStart[y] \in Nat
  /\ \A y \in Years : YearStart[y + 1] <= LastDay + 1
<1>1. LastYear \in Years /\ LastYear \in Nat /\ FirstYear \in Nat
  BY LeaderboardsAssumption DEF Years
<1>2. /\ YearStart[LastYear + 1] = YearStart[LastYear] + YearDays(LastYear)
      /\ YearStart[LastYear] \in Nat
  BY <1>1, NextYear
<1>3. LastDay \in Nat
  BY <1>2 DEF LastDay, YearDays
<1>4. ASSUME NEW y \in FirstYear .. LastYear + 1 PROVE YearStart[y] \in Nat
  <2>1. y \in Int /\ y >= FirstYear
    BY <1>1
  <2> QED BY <1>1, <2>1, LeapsAre
<1>5. ASSUME NEW y \in Years PROVE YearStart[y + 1] <= LastDay + 1
  <2>1. y + 1 \in FirstYear .. LastYear + 1 /\ LastYear + 1 \in FirstYear .. LastYear + 1
    BY <1>1 DEF Years
  <2>2. y + 1 < LastYear + 1 \/ y + 1 = LastYear + 1
    BY <1>1 DEF Years
  <2> QED BY <1>3, <1>4, <2>1, <2>2, YearsApart DEF LastDay
<1> QED BY <1>3, <1>4, <1>5 DEF Days

\* The year of a day is the one it is in,
LEMMA YearIs ==
  ASSUME NEW d \in Days, NEW y \in Years, InYear(d, y)
  PROVE  UTCYear[d] = y
<1>1. ASSUME NEW z \in Years, InYear(d, z) PROVE z = y
  <2>1. y \in Nat /\ z \in Nat /\ d \in Nat
    BY LeaderboardsAssumption, YearTypes DEF Years
  <2>2. /\ y \in FirstYear .. LastYear + 1 /\ y + 1 \in FirstYear .. LastYear + 1
        /\ z \in FirstYear .. LastYear + 1 /\ z + 1 \in FirstYear .. LastYear + 1
    BY LeaderboardsAssumption DEF Years
  <2>3. y < z => YearStart[y + 1] <= YearStart[z]
    BY <2>1, <2>2, YearsApart, YearTypes
  <2>4. z < y => YearStart[z + 1] <= YearStart[y]
    BY <2>1, <2>2, YearsApart, YearTypes
  <2>5. /\ YearStart[y] \in Nat /\ YearStart[z] \in Nat
        /\ YearStart[y + 1] \in Nat /\ YearStart[z + 1] \in Nat
    BY <2>2, YearTypes
  <2> QED BY <1>1, <2>1, <2>3, <2>4, <2>5 DEF InYear
<1>2. UTCYear[d] = CHOOSE z \in Years : InYear(d, z)
  BY DEF UTCYear, InYear, Years
<1> QED BY <1>1, <1>2

\* and there is one: the first that ends after it.
LEMMA YearExists ==
  ASSUME NEW d \in Days
  PROVE  UTCYear[d] \in Years /\ InYear(d, UTCYear[d])
<1> DEFINE F == {y \in Years : d < YearStart[y + 1]}
<1>1. F \subseteq Nat /\ LastYear \in F
  BY LeaderboardsAssumption, YearTypes DEF Years, Days, LastDay
<1>2. Min(F) \in F /\ \A n \in F : Min(F) <= n
  BY <1>1, LeastExists
<1> DEFINE y == Min(F)
<1>3. y \in Years /\ d < YearStart[y + 1] /\ y \in Nat
  BY <1>1, <1>2
<1>4. YearStart[y] <= d
  <2>1. CASE y = FirstYear
    BY <2>1, NextYear, YearTypes
  <2>2. CASE y # FirstYear
    <3>1. y - 1 \in Years /\ y - 1 \notin F
      BY <1>2, <1>3, <2>2, LeaderboardsAssumption DEF Years
    <3>2. ~(d < YearStart[(y - 1) + 1])
      BY <3>1
    <3>3. (y - 1) + 1 = y
      BY <1>3
    <3>4. y \in FirstYear .. LastYear + 1
      BY <1>3, LeaderboardsAssumption DEF Years
    <3> QED BY <3>2, <3>3, <3>4, YearTypes
  <2> QED BY <2>1, <2>2
<1> QED BY <1>3, <1>4, YearIs DEF InYear

-------------------------------------------------------------------------------
(* The boards: the months *)

\* The months of a year follow each other, from its first day to its last.
LEMMA MonthsFollow ==
  ASSUME NEW y \in Years, NEW m \in 1 .. 12
  PROVE  /\ MonthDays(y, m) \in 28 .. 31 /\ MonthStart(y, m) \in Nat
         /\ MonthStart(y, 1) = YearStart[y]
         /\ m < 12 => MonthStart(y, m + 1) = MonthStart(y, m) + MonthDays(y, m)
         /\ MonthDays(y, 12) = 31 /\ MonthStart(y, 12) + 31 = YearStart[y + 1]
<1>1. YearStart[y] \in Nat /\ YearStart[y + 1] = YearStart[y] + YearDays(y)
  BY NextYear
<1>2. MonthDays(y, m) \in 28 .. 31 /\ MonthDays(y, 12) = 31
  BY DEF MonthDays
<1>3. MonthStart(y, 1) = YearStart[y] /\ MonthStart(y, 12) + 31 = YearStart[y + 1]
  BY <1>1 DEF MonthStart, DaysBefore, YearDays
<1>4. MonthStart(y, m) \in Nat
  <2>1. DaysBefore[m] \in Nat
    BY DEF DaysBefore
  <2> QED BY <1>1, <2>1 DEF MonthStart
<1>5. ASSUME m < 12 PROVE MonthStart(y, m + 1) = MonthStart(y, m) + MonthDays(y, m)
  <2>1. m \in {1, 2, 3, 4, 5, 6, 7, 8, 9, 10, 11}
    BY <1>5
  <2>2. DaysBefore[m + 1] = DaysBefore[m] +
          (CASE m = 2 -> 28 [] m \in {4, 6, 9, 11} -> 30 [] OTHER -> 31)
    BY <2>1 DEF DaysBefore
  <2>3. DaysBefore[m] \in Nat
    BY DEF DaysBefore
  <2> QED BY <1>1, <2>1, <2>2, <2>3 DEF MonthStart, MonthDays
<1> QED BY <1>2, <1>3, <1>4, <1>5

\* Months do not overlap.
LEMMA MonthsApart ==
  ASSUME NEW y \in Years, NEW m \in 1 .. 12, NEW n \in 1 .. 12, m < n
  PROVE  MonthStart(y, m) + MonthDays(y, m) <= MonthStart(y, n)
<1>1. m + 1 \in 1 .. 12 /\ m < 12
  OBVIOUS
<1>2. MonthStart(y, m + 1) = MonthStart(y, m) + MonthDays(y, m)
  BY <1>1, MonthsFollow
<1>3. DaysBefore[m + 1] <= DaysBefore[n]
  BY <1>1 DEF DaysBefore
<1>4. DaysBefore[n] \in Nat /\ DaysBefore[m + 1] \in Nat /\ YearStart[y] \in Nat
  BY <1>1, NextYear DEF DaysBefore
<1>5. MonthStart(y, m + 1) <= MonthStart(y, n)
  BY <1>1, <1>3, <1>4 DEF MonthStart
<1> QED BY <1>2, <1>5

\* A day is in a month.
InMonth(d, y, m) == MonthStart(y, m) <= d /\ d < MonthStart(y, m) + MonthDays(y, m)

\* A day in a month is in its year.
LEMMA MonthInYear ==
  ASSUME NEW y \in Years, NEW m \in 1 .. 12, NEW d \in Int, InMonth(d, y, m)
  PROVE  InYear(d, y) /\ d \in Days
<1>1. /\ MonthStart(y, m) \in Nat /\ MonthDays(y, m) \in 28 .. 31 /\ MonthStart(y, 1) = YearStart[y]
      /\ MonthStart(y, 1) \in Nat /\ MonthDays(y, 1) \in 28 .. 31
      /\ MonthStart(y, 12) \in Nat /\ MonthDays(y, 12) = 31
      /\ MonthStart(y, 12) + 31 = YearStart[y + 1]
  BY MonthsFollow
<1>2. m = 1 \/ MonthStart(y, 1) + MonthDays(y, 1) <= MonthStart(y, m)
  BY MonthsApart
<1>3. m = 12 \/ MonthStart(y, m) + MonthDays(y, m) <= MonthStart(y, 12)
  BY MonthsApart
<1>4. InYear(d, y)
  BY <1>1, <1>2, <1>3 DEF InYear, InMonth
<1>5. LastDay \in Nat /\ YearStart[y + 1] <= LastDay + 1 /\ YearStart[y + 1] \in Nat
  BY <1>1, YearTypes
<1> QED BY <1>1, <1>4, <1>5 DEF InYear, Days

\* The key of a month is that of every day in it,
LEMMA MonthIs ==
  ASSUME NEW y \in Years, NEW m \in 1 .. 12, NEW d \in Int, InMonth(d, y, m)
  PROVE  d \in Days /\ UTCYear[d] = y /\ MonthKey[d] = <<y, "M", m>>
<1>1. d \in Days /\ UTCYear[d] = y
  BY MonthInYear, YearIs
<1> DEFINE begun == {n \in 1 .. 12 : MonthStart(y, n) <= d}
<1>2. m \in begun
  BY DEF InMonth
<1>3. ASSUME NEW n \in begun, n > m PROVE FALSE
  BY <1>3, MonthsApart, MonthsFollow DEF InMonth
<1>4. \A n \in begun : m >= n
  BY <1>3
<1>5. Max(begun) = m
  BY <1>2, <1>4 DEF Max
<1> QED BY <1>1, <1>5 DEF MonthKey

\* and of no day before.
LEMMA MonthTells ==
  ASSUME NEW y \in Years, NEW m \in 1 .. 12, NEW d \in Days, MonthKey[d] = <<y, "M", m>>
  PROVE  MonthStart(y, m) <= d
<1> DEFINE begun == {n \in 1 .. 12 : MonthStart(UTCYear[d], n) <= d}
<1>1. MonthKey[d] = <<UTCYear[d], "M", Max(begun)>>
  BY DEF MonthKey
<1>2. UTCYear[d] = y /\ Max(begun) = m
  BY <1>1
<1>3. 1 \in begun
  BY MonthsFollow, YearExists DEF InYear
<1> DEFINE after == {k \in Nat : 12 - k \in begun}
<1>4. 11 \in after /\ after \subseteq Nat
  BY <1>3
<1>5. PICK k \in after : \A j \in after : k <= j
  BY <1>4, LeastExists
<1>6. 12 - k \in begun /\ \A n \in begun : 12 - k >= n
  <2>1. k \in Nat /\ 12 - k \in begun
    BY <1>5
  <2>2. ASSUME NEW n \in begun PROVE 12 - k >= n
    <3>1. n \in 1 .. 12 /\ 12 - n \in Nat /\ 12 - (12 - n) = n
      BY <2>2
    <3>2. 12 - n \in after
      BY <2>2, <3>1
    <3>3. k <= 12 - n
      BY <1>5, <3>2
    <3> QED BY <2>1, <3>1, <3>3
  <2> QED BY <2>1, <2>2
<1>7. Max(begun) \in begun
  BY <1>6, Zenon DEF Max
<1> QED BY <1>2, <1>7

-------------------------------------------------------------------------------
(* The boards: the weeks *)

\* The day that decides which week of which year a day is in.
Decider(d) == Min({Thursday(d), LastDay})

\* The Thursday of a day is at most three days away, and the key of its week is
\* that of this Thursday's year.
LEMMA DeciderIs ==
  ASSUME NEW d \in Days
  PROVE  /\ ISODay(d) \in 1 .. 7 /\ Thursday(d) \in Nat /\ Thursday(d) - d \in -3 .. 3
         /\ Decider(d) \in Days
         /\ Decider(d) = IF Thursday(d) <= LastDay THEN Thursday(d) ELSE LastDay
         /\ WeekKey[d] = <<UTCYear[Decider(d)], "W",
                           Weeks(Decider(d) - YearStart[UTCYear[Decider(d)]] + 1)>>
<1>1. d \in Nat /\ LastDay \in Nat /\ FirstWeekday \in 1 .. 4
  BY YearTypes, LeaderboardsAssumption
<1>2. ISODay(d) \in 1 .. 7 /\ Thursday(d) \in Nat /\ Thursday(d) - d \in -3 .. 3
  BY <1>1 DEF ISODay, Thursday
<1>3. Decider(d) = IF Thursday(d) <= LastDay THEN Thursday(d) ELSE LastDay
  <2> DEFINE both == {Thursday(d), LastDay}
  <2>1. both \subseteq Nat /\ Thursday(d) \in both /\ LastDay \in both
    BY <1>1, <1>2
  <2>2. Min(both) \in both /\ \A n \in both : Min(both) <= n
    BY <2>1, LeastExists
  <2>3. Decider(d) \in {Thursday(d), LastDay} /\ Decider(d) <= Thursday(d) /\ Decider(d) <= LastDay
    BY <2>2 DEF Decider
  <2> QED BY <1>1, <1>2, <2>3
<1>4. Decider(d) \in Days
  BY <1>1, <1>2, <1>3 DEF Days
<1>5. WeekKey[d] = <<UTCYear[Decider(d)], "W",
                     Weeks(Decider(d) - YearStart[UTCYear[Decider(d)]] + 1)>>
  BY DEF WeekKey, Decider
<1> QED BY <1>2, <1>3, <1>4, <1>5

\* Thursdays are whole weeks apart.
LEMMA ThursdaysApart ==
  ASSUME NEW d \in Days, NEW e \in Days, e <= d, Thursday(e) # Thursday(d)
  PROVE  \E k \in Nat \ {0} : Thursday(d) = Thursday(e) + 7 * k
<1>1. d \in Nat /\ e \in Nat /\ FirstWeekday \in 1 .. 4
  BY YearTypes, LeaderboardsAssumption
<1> DEFINE i == (d + FirstWeekday - 1) \div 7
           j == (e + FirstWeekday - 1) \div 7
<1>2. /\ i \in Nat /\ j \in Nat /\ j <= i
      /\ Thursday(d) = 7 * i + 4 - FirstWeekday /\ Thursday(e) = 7 * j + 4 - FirstWeekday
  BY <1>1 DEF Thursday, ISODay
<1>3. i - j \in Nat \ {0} /\ Thursday(d) = Thursday(e) + 7 * (i - j)
  BY <1>1, <1>2
<1> QED BY <1>3

\* Days share a key when they share a Thursday, also in the last week of the calendar,
\* which may be cut off.
LEMMA WeekIs ==
  ASSUME NEW d \in Days, NEW e \in Days, e <= d
  PROVE  WeekKey[e] = WeekKey[d] <=> d - e <= ISODay(d) - 1
<1>1. d \in Nat /\ e \in Nat /\ FirstWeekday \in 1 .. 4 /\ LastDay \in Nat /\ d <= LastDay
  BY YearTypes, LeaderboardsAssumption DEF Days
<1>2. Thursday(e) = Thursday(d) <=> d - e <= ISODay(d) - 1
  BY <1>1 DEF Thursday, ISODay
<1>3. ASSUME Thursday(e) = Thursday(d) PROVE WeekKey[e] = WeekKey[d]
  BY <1>3 DEF WeekKey
<1>4. ASSUME Thursday(e) # Thursday(d), WeekKey[e] = WeekKey[d] PROVE FALSE
  <2> DEFINE y == UTCYear[Decider(d)]
  <2>1. PICK k \in Nat \ {0} : Thursday(d) = Thursday(e) + 7 * k
    BY <1>4, ThursdaysApart
  <2>2. /\ Thursday(d) \in Nat /\ Thursday(d) - d \in -3 .. 3 /\ Thursday(e) \in Nat
        /\ Decider(d) = IF Thursday(d) <= LastDay THEN Thursday(d) ELSE LastDay
        /\ Decider(e) = IF Thursday(e) <= LastDay THEN Thursday(e) ELSE LastDay
        /\ Decider(d) \in Days /\ Decider(e) \in Days
    BY DeciderIs
  <2>3. Thursday(e) + 4 <= LastDay /\ Decider(e) = Thursday(e)
    BY <1>1, <2>1, <2>2
  <2>4. y = UTCYear[Decider(e)] /\
        Weeks(Decider(d) - YearStart[y] + 1) = Weeks(Thursday(e) - YearStart[y] + 1)
    BY <1>4, <2>3, DeciderIs
  <2>5. /\ y \in Years /\ YearStart[y] \in Nat /\ YearStart[y] <= Thursday(e)
        /\ YearStart[y] <= Decider(d) /\ Decider(d) < YearStart[y + 1]
    BY <2>2, <2>3, <2>4, YearExists, NextYear DEF InYear
  <2>6. CASE Thursday(d) <= LastDay
    <3>1. Decider(d) - YearStart[y] + 1 = (Thursday(e) - YearStart[y] + 1) + 7 * k
      BY <2>1, <2>2, <2>5, <2>6
    <3>2. Thursday(e) - YearStart[y] + 1 \in Nat
      BY <2>2, <2>5
    <3> QED BY <2>1, <2>4, <3>1, <3>2 DEF Weeks
  <2>7. CASE Thursday(d) > LastDay
    <3>1. Decider(d) = LastDay
      BY <1>1, <2>2, <2>7
    <3>2. YearStart[y + 1] = YearStart[y] + YearDays(y) /\ YearStart[y + 1] <= LastDay + 1
      BY <2>5, NextYear, YearTypes
    <3>3. YearDays(y) \in {365, 366}
      BY DEF YearDays
    <3>4. LastDay - YearStart[y] + 1 \in {365, 366}
      BY <1>1, <2>5, <3>1, <3>2, <3>3
    <3>5. Weeks(LastDay - YearStart[y] + 1) = 53
      BY <3>4 DEF Weeks
    <3>6. Thursday(e) - YearStart[y] + 1 \in 0 .. 362
      <4>1. /\ Thursday(e) \in Int /\ LastDay \in Int /\ YearStart[y] \in Int
            /\ YearStart[y] <= Thursday(e) /\ Thursday(e) + 4 <= LastDay
        BY <1>1, <2>2, <2>3, <2>5
      <4>2. LastDay - YearStart[y] + 1 <= 366
        BY <3>4
      <4> HIDE DEF y
      <4> QED BY <4>1, <4>2
    <3>7. Weeks(Thursday(e) - YearStart[y] + 1) <= 52
      BY <3>6 DEF Weeks
    <3> QED BY <2>4, <3>1, <3>5, <3>7
  <2> QED BY <1>1, <2>2, <2>6, <2>7
<1> QED BY <1>2, <1>3, <1>4

-------------------------------------------------------------------------------
(* The boards: what stays true *)

\* The calendar on the wall is that of the day.
CalendarAt(c, d) ==
  /\ c \in [year : Years, month : 1 .. 12, date : 1 .. 31, weekday : 1 .. 7]
  /\ c.date <= MonthDays(c.year, c.month) /\ d = MonthStart(c.year, c.month) + c.date - 1
  /\ c.weekday = ISODay(d)

\* A checkpoint waits until the next day at most, and today's waits only when taken.
CheckpointsDated ==
  /\ had \in BOOLEAN /\ dated \subseteq Days /\ dated \subseteq {today - 1, today}
  /\ ~had => today \notin dated

\* The members of a board are fans who watched.
BoardOK(board) == DOMAIN board \subseteq Fans /\ \A u \in DOMAIN board : board[u] \in Nat \ {0}

\* A board is that of a day that has come.
BoardsDated ==
  \A key \in DOMAIN boards : BoardOK(boards[key]) /\ \E d \in 0 .. today : key \in PeriodKeys(d)

\* What somebody has on a board.
Standing(board, u) == IF u \in DOMAIN board THEN board[u] ELSE 0

\* What was watched in a period is on its board or on its way.
BoardsAddUp ==
  \A p \in Periods, u \in Fans :
    watched[p][u] = Standing(BoardOf(CurrentKeyFor(p, today)), u) + Coming(p, u)

\* The inductive invariant of the boards.
BoardsInv ==
  /\ today \in Days /\ CalendarAt(calendar, today) /\ CheckpointsDated
  /\ BoardsDated /\ BoardsAddUp

\* Days of a period that are over, on a day and its calendar.
ElapsedAt(p, c, d) ==
  CASE p = "weekly" -> c.weekday - 1 [] p = "monthly" -> c.date - 1 [] OTHER -> d

\* The day's key names the days since its period turned over.
LEMMA PeriodIs ==
  ASSUME NEW d \in Days, NEW c, CalendarAt(c, d), NEW p \in Periods, NEW e \in Days, e <= d
  PROVE  /\ ElapsedAt(p, c, d) \in Nat
         /\ CurrentKeyFor(p, e) = CurrentKeyFor(p, d) <=> d - e <= ElapsedAt(p, c, d)
<1>1. /\ d \in Nat /\ e \in Nat /\ c.year \in Years /\ c.month \in 1 .. 12 /\ c.date \in 1 .. 31
      /\ c.weekday \in 1 .. 7
  BY YearTypes DEF CalendarAt
<1>2. CASE p = "alltime"
  BY <1>1, <1>2 DEF CurrentKeyFor, ElapsedAt
<1>3. CASE p = "weekly"
  <2>1. c.weekday = ISODay(d)
    BY DEF CalendarAt
  <2>2. WeekKey[e] = WeekKey[d] <=> d - e <= c.weekday - 1
    BY <2>1, WeekIs
  <2> QED BY <1>1, <1>3, <2>2 DEF CurrentKeyFor, ElapsedAt
<1>4. CASE p = "monthly"
  <2> DEFINE first == MonthStart(c.year, c.month)
  <2>1. /\ first \in Nat /\ MonthDays(c.year, c.month) \in 28 .. 31
        /\ d = first + c.date - 1 /\ c.date <= MonthDays(c.year, c.month)
    BY <1>1, MonthsFollow DEF CalendarAt
  <2>2. InMonth(d, c.year, c.month)
    BY <1>1, <2>1 DEF InMonth
  <2>3. MonthKey[d] = <<c.year, "M", c.month>>
    BY <1>1, <2>2, MonthIs
  <2>4. ASSUME d - e <= c.date - 1 PROVE MonthKey[e] = MonthKey[d]
    <3>1. InMonth(e, c.year, c.month)
      BY <1>1, <2>1, <2>2, <2>4 DEF InMonth
    <3> QED BY <1>1, <2>3, <3>1, MonthIs
  <2>5. ASSUME MonthKey[e] = MonthKey[d] PROVE d - e <= c.date - 1
    <3>1. first <= e
      BY <1>1, <2>3, <2>5, MonthTells
    <3> QED BY <1>1, <2>1, <3>1
  <2> QED BY <1>1, <1>4, <2>4, <2>5 DEF CurrentKeyFor, ElapsedAt
<1> QED BY <1>2, <1>3, <1>4 DEF Periods

\* The key of a period is not that of another.
LEMMA KeysApart ==
  ASSUME NEW d \in Days, NEW e \in Days, NEW p \in Periods, NEW r \in Periods,
         CurrentKeyFor(p, d) = CurrentKeyFor(r, e)
  PROVE  p = r
<1>1. CurrentKeyFor("alltime", d) = <<"alltime">> /\ CurrentKeyFor("alltime", e) = <<"alltime">>
  BY DEF CurrentKeyFor
<1>2. \A x \in Days : /\ CurrentKeyFor("monthly", x) = MonthKey[x]
                      /\ CurrentKeyFor("weekly", x) = WeekKey[x]
  BY DEF CurrentKeyFor
<1>3. \A x \in Days : Len(MonthKey[x]) = 3 /\ MonthKey[x][2] = "M"
  BY DEF MonthKey
<1>4. \A x \in Days : Len(WeekKey[x]) = 3 /\ WeekKey[x][2] = "W"
  BY DeciderIs
<1>5. Len(<<"alltime">>) = 1
  OBVIOUS
<1> QED BY <1>1, <1>2, <1>3, <1>4, <1>5 DEF Periods

\* A midnight turns the calendar, and ends a week before a Monday and a month before a
\* first.
LEMMA DayTurns ==
  ASSUME NEW d \in Days, NEW c, CalendarAt(c, d), d + 1 \in Days
  PROVE  /\ CalendarAt(DayAfter(c), d + 1)
         /\ \A p \in Periods :
              ElapsedAt(p, DayAfter(c), d + 1) =
                IF \/ p = "weekly" /\ DayAfter(c).weekday = 1
                   \/ p = "monthly" /\ DayAfter(c).date = 1
                THEN 0 ELSE ElapsedAt(p, c, d) + 1
<1> DEFINE n == DayAfter(c)  last == MonthDays(c.year, c.month)
<1>1. /\ c.year \in Years /\ c.month \in 1 .. 12 /\ c.date \in 1 .. 31 /\ c.weekday \in 1 .. 7
      /\ d \in Nat /\ c.date <= last /\ d = MonthStart(c.year, c.month) + c.date - 1
      /\ c.weekday = ISODay(d)
  BY YearTypes DEF CalendarAt
<1>2. /\ last \in 28 .. 31 /\ MonthStart(c.year, c.month) \in Nat
      /\ c.month < 12 => MonthStart(c.year, c.month + 1) = MonthStart(c.year, c.month) + last
      /\ MonthDays(c.year, 12) = 31 /\ MonthStart(c.year, 12) + 31 = YearStart[c.year + 1]
  BY <1>1, MonthsFollow
<1>3. /\ n.weekday = (c.weekday % 7) + 1 /\ n.date = (IF c.date = last THEN 1 ELSE c.date + 1)
      /\ n.year = (IF c.date = last /\ c.month = 12 THEN c.year + 1 ELSE c.year)
      /\ n.month = (IF c.date = last /\ c.month = 12 THEN 1
                    ELSE IF c.date = last THEN c.month + 1 ELSE c.month)
      /\ n = [year |-> n.year, month |-> n.month, date |-> n.date, weekday |-> n.weekday]
  BY DEF DayAfter
<1>4. n.weekday \in 1 .. 7 /\ n.weekday = ISODay(d + 1)
  BY <1>1, <1>3, LeaderboardsAssumption DEF ISODay
<1>5. /\ n.year \in Years /\ n.month \in 1 .. 12 /\ n.date \in 1 .. 31
      /\ n.date <= MonthDays(n.year, n.month) /\ d + 1 = MonthStart(n.year, n.month) + n.date - 1
  <2>1. CASE c.date # last
    BY <1>1, <1>2, <1>3, <2>1
  <2>2. CASE c.date = last /\ c.month # 12
    <3>1. /\ n.year = c.year /\ n.month = c.month + 1 /\ n.date = 1 /\ c.month < 12
          /\ n.month \in 1 .. 12
      BY <1>1, <1>3, <2>2
    <3>2. MonthDays(n.year, n.month) \in 28 .. 31
      BY <1>1, <3>1, MonthsFollow
    <3> QED BY <1>1, <1>2, <2>2, <3>1, <3>2
  <2>3. CASE c.date = last /\ c.month = 12
    <3>1. n.year = c.year + 1 /\ n.month = 1 /\ n.date = 1 /\ last = 31
      BY <1>2, <1>3, <2>3
    <3>2. d + 1 = YearStart[c.year + 1]
      BY <1>1, <1>2, <2>3, <3>1
    <3>3. c.year # LastYear
      BY <3>2, YearTypes DEF Days, LastDay
    <3>4. n.year \in Years
      BY <1>1, <3>1, <3>3, LeaderboardsAssumption DEF Years
    <3>5. MonthStart(n.year, 1) = d + 1 /\ MonthDays(n.year, 1) \in 28 .. 31
      BY <3>1, <3>2, <3>4, MonthsFollow
    <3> QED BY <1>1, <3>1, <3>4, <3>5
  <2> QED BY <2>1, <2>2, <2>3
<1>6. CalendarAt(n, d + 1)
  BY <1>3, <1>4, <1>5 DEF CalendarAt
<1> HIDE DEF n, last
<1>7. n.weekday - 1 = IF n.weekday = 1 THEN 0 ELSE (c.weekday - 1) + 1
  BY <1>1, <1>3
<1>8. n.date - 1 = IF n.date = 1 THEN 0 ELSE (c.date - 1) + 1
  BY <1>1, <1>3
<1>9. ASSUME NEW p \in Periods
      PROVE  ElapsedAt(p, n, d + 1) =
               IF \/ p = "weekly" /\ n.weekday = 1
                  \/ p = "monthly" /\ n.date = 1
               THEN 0 ELSE ElapsedAt(p, c, d) + 1
  <2>1. CASE p = "weekly"
    <3>1. ElapsedAt(p, n, d + 1) = n.weekday - 1 /\ ElapsedAt(p, c, d) = c.weekday - 1
      BY <2>1 DEF ElapsedAt
    <3> QED BY <1>7, <2>1, <3>1
  <2>2. CASE p = "monthly"
    <3>1. ElapsedAt(p, n, d + 1) = n.date - 1 /\ ElapsedAt(p, c, d) = c.date - 1
      BY <2>2 DEF ElapsedAt
    <3> QED BY <1>8, <2>2, <3>1
  <2>3. CASE p = "alltime"
    <3>1. ElapsedAt(p, n, d + 1) = d + 1 /\ ElapsedAt(p, c, d) = d
      BY <2>3 DEF ElapsedAt
    <3> QED BY <2>3, <3>1
  <2>4. p \in {"alltime", "monthly", "weekly"}
    BY DEF Periods
  <2> QED BY <2>1, <2>2, <2>3, <2>4
<1> QED BY <1>6, <1>9 DEF n

-------------------------------------------------------------------------------
(* The boards: awards *)

\* The board under a key, before or after a step.
BoardIn(sets, key) == IF key \in DOMAIN sets THEN sets[key] ELSE <<>>

\* What a checkpoint of a day awards.
Gain(d) == [u \in {u \in Fans : Worth(u, d) > 0} |-> Worth(u, d)]

\* Who watches every so manyth day has a second on such a day.
LEMMA WorthIs ==
  ASSUME NEW u \in Fans, NEW d \in Days
  PROVE  Worth(u, d) \in {0, 1}
BY DEF Worth

\* It awards what the day was worth to everybody.
LEMMA GainIs ==
  ASSUME NEW d \in Days
  PROVE  BoardOK(Gain(d)) /\ \A u \in Fans : Standing(Gain(d), u) = Worth(u, d)
<1>1. \A u \in Fans : Worth(u, d) \in {0, 1}
  BY WorthIs
<1>2. DOMAIN Gain(d) = {u \in Fans : Worth(u, d) > 0}
  BY DEF Gain
<1>3. \A u \in DOMAIN Gain(d) : u \in Fans /\ Gain(d)[u] = Worth(u, d) /\ Worth(u, d) > 0
  BY DEF Gain
<1>4. BoardOK(Gain(d))
  BY <1>1, <1>2, <1>3 DEF BoardOK
<1>5. ASSUME NEW u \in Fans PROVE Standing(Gain(d), u) = Worth(u, d)
  BY <1>1, <1>2, <1>3 DEF Standing
<1> QED BY <1>4, <1>5

\* Who is on a board has something there.
LEMMA StandingIs ==
  ASSUME NEW board, BoardOK(board), NEW u
  PROVE  Standing(board, u) \in Nat /\ (Standing(board, u) > 0 <=> u \in DOMAIN board)
BY DEF BoardOK, Standing

\* ZINCRBY adds.
LEMMA ZincrbyAdds ==
  ASSUME NEW board, BoardOK(board), NEW gain, BoardOK(gain)
  PROVE  /\ BoardOK(Zincrby(board, gain))
         /\ \A u : Standing(Zincrby(board, gain), u) = Standing(board, u) + Standing(gain, u)
<1> DEFINE sum == Zincrby(board, gain)
<1>1. DOMAIN sum = DOMAIN board \cup DOMAIN gain
  BY DEF Zincrby
<1>2. \A u \in DOMAIN sum : sum[u] = Standing(board, u) + Standing(gain, u)
  BY DEF Zincrby, Standing
<1>3. \A u : Standing(board, u) \in Nat /\ Standing(gain, u) \in Nat
  BY StandingIs
<1>4. \A u : (Standing(board, u) > 0 <=> u \in DOMAIN board) /\
             (Standing(gain, u) > 0 <=> u \in DOMAIN gain)
  BY StandingIs
<1>5. DOMAIN sum \subseteq Fans
  BY <1>1 DEF BoardOK
<1> HIDE DEF sum
<1>6. ASSUME NEW u \in DOMAIN sum PROVE sum[u] \in Nat \ {0}
  <2>1. Standing(board, u) > 0 \/ Standing(gain, u) > 0
    BY <1>1, <1>4
  <2> QED BY <1>2, <1>3, <2>1
<1>7. ASSUME NEW u PROVE Standing(sum, u) = Standing(board, u) + Standing(gain, u)
  <2>1. CASE u \in DOMAIN sum
    BY <1>2, <2>1 DEF Standing
  <2>2. CASE u \notin DOMAIN sum
    <3>1. Standing(sum, u) = 0 /\ Standing(board, u) = 0 /\ Standing(gain, u) = 0
      BY <1>1, <2>2 DEF Standing
    <3> QED BY <3>1
  <2> QED BY <2>1, <2>2
<1>8. BoardOK(sum)
  BY <1>5, <1>6 DEF BoardOK
<1> QED BY <1>7, <1>8 DEF sum

\* Every board that is read is one, also the one that is not there yet.
LEMMA BoardInIs ==
  ASSUME BoardsDated, NEW key
  PROVE  BoardOf(key) = BoardIn(boards, key) /\ BoardOK(BoardIn(boards, key))
<1>1. DOMAIN <<>> = {}
  OBVIOUS
<1> QED BY <1>1 DEF BoardOf, BoardIn, BoardsDated, BoardOK

\* An award changes the boards of the checkpoint's own day, and no other.
LEMMA Incremented ==
  ASSUME BoardsDated, NEW d \in Days, Increment(d)
  PROVE  /\ DOMAIN boards' = DOMAIN boards \cup PeriodKeys(d)
         /\ \A key : BoardIn(boards', key) = IF key \in PeriodKeys(d)
                                             THEN Zincrby(BoardIn(boards, key), Gain(d))
                                             ELSE BoardIn(boards, key)
<1>1. boards' = [k \in DOMAIN boards \cup PeriodKeys(d) |->
                   IF k \in PeriodKeys(d) THEN Zincrby(BoardOf(k), Gain(d)) ELSE boards[k]]
  BY DEF Increment, Gain
<1>2. DOMAIN boards' = DOMAIN boards \cup PeriodKeys(d)
  BY <1>1
<1>3. \A k \in DOMAIN boards' : boards'[k] = IF k \in PeriodKeys(d)
                                              THEN Zincrby(BoardIn(boards, k), Gain(d))
                                              ELSE boards[k]
  BY <1>1, <1>2, BoardInIs
<1> QED BY <1>2, <1>3 DEF BoardIn

\* What is on its way to the current boards, day by day.
OnTheWay(p, u) == {d \in dated : today - d <= Elapsed(p) /\ Worth(u, d) > 0}

\* It is two days at most.
LEMMA ComingIs ==
  ASSUME today \in Days, CheckpointsDated, NEW p, NEW u
  PROVE  Coming(p, u) = Cardinality(OnTheWay(p, u)) /\ IsFiniteSet(OnTheWay(p, u))
         /\ Coming(p, u) \in Nat
<1>1. IsFiniteSet({today - 1, today})
  <2>1. IsFiniteSet({today - 1}) /\ {today - 1, today} = {today - 1} \cup {today}
    BY FS_Singleton
  <2> QED BY <2>1, FS_AddElement
<1>2. OnTheWay(p, u) \subseteq {today - 1, today}
  BY DEF OnTheWay, CheckpointsDated
<1>3. IsFiniteSet(OnTheWay(p, u))
  BY <1>1, <1>2, FS_Subset
<1> QED BY <1>3, FS_CardinalityType DEF Coming, OnTheWay

-------------------------------------------------------------------------------
(* The boards: every step keeps them *)

\* Elapsed, where the calendar is that of the day.
LEMMA ElapsedIs ==
  /\ \A p : Elapsed(p) = ElapsedAt(p, calendar, today)
  /\ \A p : Elapsed(p)' = ElapsedAt(p, calendar', today')
BY DEF Elapsed, ElapsedAt

\* Nothing is watched, and nothing on a board.
LEMMA BoardsStart == LeaderboardsInit => BoardsInv
<1> SUFFICES ASSUME LeaderboardsInit PROVE BoardsInv
  OBVIOUS
<1> USE DEF LeaderboardsInit
<1>1. today \in Days /\ CheckpointsDated
  BY YearTypes DEF CheckpointsDated
<1>2. CalendarAt(calendar, today)
  <2>1. FirstYear \in Years
    BY LeaderboardsAssumption DEF Years
  <2>2. MonthStart(FirstYear, 1) = 0 /\ MonthDays(FirstYear, 1) = 31
    <3>1. 1 \in 1 .. 12 /\ MonthDays(FirstYear, 1) = 31
      BY DEF MonthDays
    <3>2. MonthStart(FirstYear, 1) = YearStart[FirstYear]
      BY <2>1, <3>1, MonthsFollow
    <3> QED BY <3>1, <3>2, NextYear
  <2>3. FirstWeekday = ISODay(0) /\ FirstWeekday \in 1 .. 7
    BY LeaderboardsAssumption DEF ISODay
  <2> QED BY <2>1, <2>2, <2>3 DEF CalendarAt
<1>3. DOMAIN boards = {}
  OBVIOUS
<1>4. BoardsDated
  BY <1>3 DEF BoardsDated
<1>5. ASSUME NEW p \in Periods, NEW u \in Fans
      PROVE  watched[p][u] = Standing(BoardOf(CurrentKeyFor(p, today)), u) + Coming(p, u)
  <2>1. watched[p][u] = 0
    OBVIOUS
  <2>2. BoardOf(CurrentKeyFor(p, today)) = <<>> /\ DOMAIN <<>> = {}
    BY <1>3 DEF BoardOf
  <2>3. Standing(BoardOf(CurrentKeyFor(p, today)), u) = 0
    BY <2>2 DEF Standing
  <2>4. OnTheWay(p, u) = {}
    BY DEF OnTheWay
  <2>5. Coming(p, u) = 0
    BY <1>1, <2>4, ComingIs, FS_EmptySet
  <2> QED BY <2>1, <2>3, <2>5
<1>6. BoardsAddUp
  BY <1>5 DEF BoardsAddUp
<1> QED BY <1>1, <1>2, <1>4, <1>6 DEF BoardsInv

\* The board of today's key, before and after a step.
LEMMA AddUpIs ==
  ASSUME BoardsDated
  PROVE  BoardsAddUp <=> \A p \in Periods, u \in Fans :
           watched[p][u] = Standing(BoardIn(boards, CurrentKeyFor(p, today)), u) + Coming(p, u)
BY BoardInIs DEF BoardsAddUp

\* The same, of the state after a step.
LEMMA AddsUpNext ==
  ASSUME \A p \in Periods, u \in Fans :
           watched'[p][u] =
             Standing(BoardIn(boards', CurrentKeyFor(p, today')), u) + Cardinality(OnTheWay(p, u)')
  PROVE  BoardsAddUp'
<1>1. \A key : BoardOf(key)' = BoardIn(boards', key)
  BY DEF BoardOf, BoardIn
<1> QED BY <1>1 DEF BoardsAddUp, OnTheWay, Coming, BoardOf, BoardIn

\* What is watched is on its way.
LEMMA CheckpointKeeps ==
  ASSUME BoardsInv, TakeCheckpoint
  PROVE  BoardsInv'
<1> USE DEF TakeCheckpoint
<1>1. today \in Days /\ today' = today /\ calendar' = calendar /\ boards' = boards
  BY DEF BoardsInv
<1>2. CheckpointsDated' /\ CheckpointsDated
  BY <1>1 DEF BoardsInv, CheckpointsDated
<1>3. BoardsDated' /\ BoardsDated
  BY <1>1 DEF BoardsInv, BoardsDated
<1>4. ASSUME NEW p \in Periods, NEW u \in Fans
      PROVE  watched'[p][u] =
               Standing(BoardIn(boards', CurrentKeyFor(p, today')), u)
                 + Cardinality(OnTheWay(p, u)')
  <2>1. watched[p][u] = Standing(BoardIn(boards, CurrentKeyFor(p, today)), u) + Coming(p, u)
    BY <1>3, AddUpIs DEF BoardsInv
  <2>2. watched'[p][u] = watched[p][u] + Worth(u, today) /\ Worth(u, today) \in {0, 1}
    BY <1>1, WorthIs
  <2>3. Elapsed(p) \in Nat /\ Elapsed(p)' = Elapsed(p)
    <3>1. today <= today
      BY <1>1, YearTypes
    <3> QED BY <1>1, <3>1, ElapsedIs, PeriodIs DEF BoardsInv
  <2>4. today - today <= Elapsed(p)
    BY <1>1, <2>3, YearTypes
  <2>5. today \notin OnTheWay(p, u)
    BY <1>2 DEF OnTheWay, CheckpointsDated
  <2>6. OnTheWay(p, u)' = IF Worth(u, today) > 0
                          THEN OnTheWay(p, u) \cup {today} ELSE OnTheWay(p, u)
    <3>1. dated' = dated \cup {today}
      OBVIOUS
    <3>2. OnTheWay(p, u)' = {d \in dated' : today - d <= Elapsed(p) /\ Worth(u, d) > 0}
      BY <1>1, <2>3 DEF OnTheWay
    <3> QED BY <2>4, <3>1, <3>2 DEF OnTheWay
  <2>7. /\ IsFiniteSet(OnTheWay(p, u)) /\ Coming(p, u) = Cardinality(OnTheWay(p, u))
        /\ Coming(p, u) \in Nat
    BY <1>1, <1>2, ComingIs
  <2>8. Cardinality(OnTheWay(p, u)') = Coming(p, u) + Worth(u, today)
    <3>1. Cardinality(OnTheWay(p, u) \cup {today}) = Coming(p, u) + 1
      BY <2>5, <2>7, FS_AddElement
    <3>2. CASE Worth(u, today) = 0
      BY <2>6, <2>7, <3>2
    <3>3. CASE Worth(u, today) = 1
      BY <2>6, <3>1, <3>3
    <3> QED BY <2>2, <3>2, <3>3
  <2>9. Standing(BoardIn(boards, CurrentKeyFor(p, today)), u) \in Nat
    BY <1>3, BoardInIs, StandingIs
  <2> QED BY <1>1, <2>1, <2>2, <2>7, <2>8, <2>9
<1>5. BoardsAddUp'
  BY <1>4, AddsUpNext
<1> QED BY <1>1, <1>2, <1>3, <1>5 DEF BoardsInv

\* What is handled leaves the way, and arrives on a current board if and only if it
\* is of the current period.
LEMMA HandlingKeeps ==
  ASSUME BoardsInv, NEW d \in dated, HandleCheckpoint(d)
  PROVE  BoardsInv'
<1> USE DEF HandleCheckpoint
<1>1. /\ today \in Days /\ today' = today /\ calendar' = calendar /\ watched' = watched
      /\ dated' = dated \ {d} /\ Increment(d)
  BY DEF BoardsInv
<1>2. CheckpointsDated' /\ CheckpointsDated /\ d \in Days /\ d <= today
  BY <1>1, YearTypes DEF BoardsInv, CheckpointsDated
<1>3. BoardsDated
  BY DEF BoardsInv
<1>4. /\ DOMAIN boards' = DOMAIN boards \cup PeriodKeys(d)
      /\ \A key : BoardIn(boards', key) = IF key \in PeriodKeys(d)
                                          THEN Zincrby(BoardIn(boards, key), Gain(d))
                                          ELSE BoardIn(boards, key)
  BY <1>1, <1>2, <1>3, Incremented
<1>5. BoardsDated'
  <2> SUFFICES ASSUME NEW key \in DOMAIN boards'
               PROVE  BoardOK(boards'[key]) /\ \E e \in 0 .. today : key \in PeriodKeys(e)
    BY <1>1 DEF BoardsDated
  <2>1. boards'[key] = BoardIn(boards', key)
    BY DEF BoardIn
  <2>2. BoardOK(BoardIn(boards, key)) /\ BoardOK(Gain(d))
    BY <1>2, <1>3, BoardInIs, GainIs
  <2>3. BoardOK(boards'[key])
    BY <1>4, <2>1, <2>2, ZincrbyAdds
  <2>4. \E e \in 0 .. today : key \in PeriodKeys(e)
    <3>1. CASE key \in DOMAIN boards
      BY <3>1 DEF BoardsInv, BoardsDated
    <3>2. CASE key \in PeriodKeys(d)
      <4>1. d \in 0 .. today
        BY <1>1, <1>2, YearTypes
      <4> QED BY <3>2, <4>1
    <3> QED BY <1>4, <3>1, <3>2
  <2> QED BY <2>3, <2>4
<1>6. ASSUME NEW p \in Periods, NEW u \in Fans
      PROVE  watched'[p][u] =
               Standing(BoardIn(boards', CurrentKeyFor(p, today')), u)
                 + Cardinality(OnTheWay(p, u)')
  <2> DEFINE key == CurrentKeyFor(p, today)
  <2>1. watched[p][u] = Standing(BoardIn(boards, key), u) + Coming(p, u)
    BY <1>3, AddUpIs DEF BoardsInv
  <2>2. key \in PeriodKeys(d) <=> today - d <= Elapsed(p)
    <3>1. CurrentKeyFor(p, d) = key <=> today - d <= Elapsed(p)
      BY <1>1, <1>2, ElapsedIs, PeriodIs DEF BoardsInv
    <3>2. ASSUME NEW r \in Periods, CurrentKeyFor(r, d) = key PROVE r = p
      BY <1>1, <1>2, <3>2, KeysApart
    <3> QED BY <3>1, <3>2 DEF PeriodKeys
  <2>3. Worth(u, d) \in {0, 1} /\ Standing(Gain(d), u) = Worth(u, d) /\ BoardOK(Gain(d))
    BY <1>2, WorthIs, GainIs
  <2>4. BoardOK(BoardIn(boards, key)) /\ Standing(BoardIn(boards, key), u) \in Nat
    BY <1>3, BoardInIs, StandingIs
  <2>5. Elapsed(p)' = Elapsed(p)
    BY <1>1, ElapsedIs
  <2>6. OnTheWay(p, u)' = OnTheWay(p, u) \ {d}
    BY <1>1, <2>5 DEF OnTheWay
  <2>7. /\ IsFiniteSet(OnTheWay(p, u)) /\ Coming(p, u) = Cardinality(OnTheWay(p, u))
        /\ Coming(p, u) \in Nat
    BY <1>1, <1>2, ComingIs
  <2>8. Cardinality(OnTheWay(p, u)') =
          IF d \in OnTheWay(p, u) THEN Coming(p, u) - 1 ELSE Coming(p, u)
    <3>1. Cardinality(OnTheWay(p, u) \ {d}) =
            IF d \in OnTheWay(p, u) THEN Cardinality(OnTheWay(p, u)) - 1
            ELSE Cardinality(OnTheWay(p, u))
      BY <2>7, FS_RemoveElement, Zenon
    <3> QED BY <2>6, <2>7, <3>1
  <2>9. d \in OnTheWay(p, u) <=> key \in PeriodKeys(d) /\ Worth(u, d) > 0
    BY <2>2 DEF OnTheWay
  <2>10. Standing(BoardIn(boards', key), u) = Standing(BoardIn(boards, key), u)
           + (IF key \in PeriodKeys(d) THEN Worth(u, d) ELSE 0)
    <3>1. CASE key \in PeriodKeys(d)
      <4>1. BoardIn(boards', key) = Zincrby(BoardIn(boards, key), Gain(d))
        BY <1>4, <3>1
      <4> HIDE DEF key
      <4> QED BY <2>3, <2>4, <3>1, <4>1, ZincrbyAdds
    <3>2. CASE key \notin PeriodKeys(d)
      <4>1. BoardIn(boards', key) = BoardIn(boards, key)
        BY <1>4, <3>2
      <4> HIDE DEF key
      <4> QED BY <2>4, <3>2, <4>1
    <3> QED BY <3>1, <3>2
  <2> HIDE DEF key
  <2>11. watched'[p][u] = Standing(BoardIn(boards', key), u) + Cardinality(OnTheWay(p, u)')
    BY <1>1, <2>1, <2>3, <2>4, <2>7, <2>8, <2>9, <2>10
  <2> QED BY <1>1, <2>11 DEF key
<1>7. BoardsAddUp'
  BY <1>6, AddsUpNext
<1> QED BY <1>1, <1>2, <1>5, <1>7 DEF BoardsInv

\* A period that turns over starts with an empty board and nothing on its way, because
\* its key is that of no day before; another keeps its key.
LEMMA MidnightKeeps ==
  ASSUME BoardsInv, Midnight
  PROVE  BoardsInv'
<1> USE DEF Midnight
<1>1. /\ today \in Days /\ today' \in Days /\ today' = today + 1 /\ calendar' = DayAfter(calendar)
      /\ dated \subseteq {today} /\ dated' = dated /\ boards' = boards /\ today \in Nat
  BY YearTypes DEF BoardsInv
<1>2. CheckpointsDated' /\ CheckpointsDated
  <2>1. CheckpointsDated
    BY DEF BoardsInv
  <2>2. today' - 1 = today /\ today' # today
    BY <1>1
  <2>3. dated' \subseteq {today' - 1, today'} /\ today' \notin dated' /\ had' = FALSE
    BY <1>1, <2>2
  <2> QED BY <1>1, <2>1, <2>3 DEF CheckpointsDated
<1>3. BoardsDated' /\ BoardsDated
  <2>1. 0 .. today \subseteq 0 .. today'
    BY <1>1
  <2> QED BY <1>1, <2>1 DEF BoardsInv, BoardsDated
<1>4. CalendarAt(calendar, today) /\ CalendarAt(calendar', today')
  BY <1>1, DayTurns DEF BoardsInv
<1>5. ASSUME NEW p \in Periods, NEW u \in Fans
      PROVE  watched'[p][u] =
               Standing(BoardIn(boards', CurrentKeyFor(p, today')), u)
                 + Cardinality(OnTheWay(p, u)')
  <2> DEFINE over == \/ p = "weekly" /\ DayAfter(calendar).weekday = 1
                     \/ p = "monthly" /\ DayAfter(calendar).date = 1
             key == CurrentKeyFor(p, today')
  <2>1. watched[p][u] = Standing(BoardIn(boards, CurrentKeyFor(p, today)), u) + Coming(p, u)
    BY <1>3, AddUpIs DEF BoardsInv
  <2>2. Elapsed(p)' = (IF over THEN 0 ELSE Elapsed(p) + 1) /\ Elapsed(p) \in Nat
    <3>1. ElapsedAt(p, DayAfter(calendar), today + 1) =
            IF over THEN 0 ELSE ElapsedAt(p, calendar, today) + 1
      BY <1>1, <1>4, DayTurns
    <3>2. ElapsedAt(p, calendar, today) \in Nat
      BY <1>1, <1>4, PeriodIs
    <3> QED BY <1>1, <3>1, <3>2, ElapsedIs
  <2>3. \A e \in 0 .. today : CurrentKeyFor(p, e) = key <=> today' - e <= Elapsed(p)'
    <3> SUFFICES ASSUME NEW e \in 0 .. today
                 PROVE  CurrentKeyFor(p, e) = key <=> today' - e <= Elapsed(p)'
      OBVIOUS
    <3>1. e \in Days /\ e <= today'
      BY <1>1, YearTypes DEF Days
    <3> QED BY <1>1, <1>4, <3>1, PeriodIs, ElapsedIs
  <2>4. CASE over
    <3>1. watched'[p][u] = 0
      BY <1>1, <2>4
    <3>2. OnTheWay(p, u)' = {}
      <4>1. today' - today = 1 /\ Elapsed(p)' = 0
        BY <1>1, <2>2, <2>4
      <4>2. ASSUME NEW d \in dated' PROVE ~(today' - d <= Elapsed(p)')
        <5>1. d = today
          BY <1>1, <4>2
        <5> QED BY <4>1, <5>1
      <4> QED BY <4>2 DEF OnTheWay
    <3>3. key \notin DOMAIN boards
      <4> SUFFICES ASSUME key \in DOMAIN boards PROVE FALSE
        OBVIOUS
      <4>1. PICK e \in 0 .. today : key \in PeriodKeys(e)
        BY <1>3 DEF BoardsDated
      <4>2. PICK r \in Periods : key = CurrentKeyFor(r, e)
        BY <4>1 DEF PeriodKeys
      <4>3. e \in Days
        BY <1>1, YearTypes DEF Days
      <4>4. r = p
        BY <1>1, <4>2, <4>3, KeysApart
      <4> QED BY <1>1, <2>2, <2>3, <2>4, <4>2, <4>4
    <3>4. BoardIn(boards', key) = <<>> /\ DOMAIN <<>> = {}
      BY <1>1, <3>3 DEF BoardIn
    <3>5. Standing(BoardIn(boards', key), u) = 0
      BY <3>4 DEF Standing
    <3> QED BY <3>1, <3>2, <3>5, FS_EmptySet
  <2>5. CASE ~over
    <3>1. watched'[p][u] = watched[p][u]
      BY <1>1, <2>5
    <3>2. OnTheWay(p, u)' = OnTheWay(p, u)
      <4>1. ASSUME NEW e \in dated PROVE today' - e <= Elapsed(p)' <=> today - e <= Elapsed(p)
        BY <1>1, <2>2, <2>5
      <4> QED BY <1>1, <4>1 DEF OnTheWay
    <3>3. key = CurrentKeyFor(p, today)
      <4>1. today \in 0 .. today /\ today' - today = 1
        BY <1>1
      <4>2. 1 <= Elapsed(p)'
        BY <2>2, <2>5
      <4> QED BY <2>3, <4>1, <4>2
    <3>4. Coming(p, u) = Cardinality(OnTheWay(p, u))
      BY <1>1, <1>2, ComingIs
    <3> QED BY <1>1, <2>1, <3>1, <3>2, <3>3, <3>4
  <2> QED BY <2>4, <2>5
<1>6. BoardsAddUp'
  BY <1>5, AddsUpNext
<1> QED BY <1>1, <1>2, <1>3, <1>4, <1>6 DEF BoardsInv

\* Every step keeps the invariant.
LEMMA BoardsKept == BoardsInv /\ [LeaderboardsNext]_boardVars => BoardsInv'
<1> SUFFICES ASSUME BoardsInv, [LeaderboardsNext]_boardVars PROVE BoardsInv'
  OBVIOUS
<1>1. CASE TakeCheckpoint
  BY <1>1, CheckpointKeeps
<1>2. CASE Midnight
  BY <1>2, MidnightKeeps
<1>3. ASSUME NEW d \in dated, HandleCheckpoint(d) PROVE BoardsInv'
  BY <1>3, HandlingKeeps
<1>4. CASE UNCHANGED boardVars
  BY <1>4 DEF boardVars, BoardsInv, CheckpointsDated, BoardsDated, BoardsAddUp, BoardOf,
              Coming, Elapsed
<1> QED BY <1>1, <1>2, <1>3, <1>4 DEF LeaderboardsNext

-------------------------------------------------------------------------------
(* The boards: the page *)

\* Who is ahead of somebody on a board.
AheadOf(board, u) == {v \in DOMAIN board : Ahead(board, v, u)}

\* Nobody is ahead of themselves, and of two one is ahead.
LEMMA AheadIs ==
  ASSUME NEW board, BoardOK(board), NEW u \in DOMAIN board, NEW v \in DOMAIN board
  PROVE  /\ u # v => Ahead(board, u, v) \/ Ahead(board, v, u)
         /\ ~Ahead(board, u, u)
         /\ \A w \in DOMAIN board : Ahead(board, u, v) /\ Ahead(board, v, w) => Ahead(board, u, w)
         /\ Ahead(board, u, v) => board[u] >= board[v]
<1>1. \A w \in DOMAIN board : w \in Nat /\ board[w] \in Nat
  BY LeaderboardsAssumption DEF BoardOK
<1> QED BY <1>1 DEF Ahead

\* Who is ahead has the better place.
LEMMA PlaceIs ==
  ASSUME NEW board, BoardOK(board)
  PROVE  /\ IsFiniteSet(DOMAIN board) /\ Cardinality(DOMAIN board) \in Nat
         /\ \A u \in DOMAIN board : Place(board, u) \in 1 .. Cardinality(DOMAIN board)
         /\ \A u, v \in DOMAIN board : Ahead(board, u, v) => Place(board, u) < Place(board, v)
<1>1. IsFiniteSet(DOMAIN board)
  BY LeaderboardsAssumption, FS_Subset DEF BoardOK
<1>2. Cardinality(DOMAIN board) \in Nat
  BY <1>1, FS_CardinalityType
<1>3. \A u : Place(board, u) = Cardinality(AheadOf(board, u)) + 1
  BY DEF Place, AheadOf
<1>4. \A u : IsFiniteSet(AheadOf(board, u)) /\ Cardinality(AheadOf(board, u)) \in Nat
  BY <1>1, FS_Subset, FS_CardinalityType DEF AheadOf
<1>5. ASSUME NEW u \in DOMAIN board
      PROVE  /\ IsFiniteSet(AheadOf(board, u) \cup {u})
             /\ Cardinality(AheadOf(board, u) \cup {u}) = Place(board, u)
  <2>1. u \notin AheadOf(board, u)
    BY AheadIs DEF AheadOf
  <2> QED BY <1>3, <1>4, <2>1, FS_AddElement
<1>6. ASSUME NEW u \in DOMAIN board
      PROVE  Place(board, u) \in 1 .. Cardinality(DOMAIN board)
  <2>1. AheadOf(board, u) \cup {u} \subseteq DOMAIN board
    BY DEF AheadOf
  <2>2. Cardinality(AheadOf(board, u) \cup {u}) <= Cardinality(DOMAIN board)
    BY <1>1, <2>1, FS_Subset
  <2> QED BY <1>2, <1>3, <1>4, <1>5, <2>2
<1>7. ASSUME NEW u \in DOMAIN board, NEW v \in DOMAIN board, Ahead(board, u, v)
      PROVE  Place(board, u) < Place(board, v)
  <2>1. AheadOf(board, u) \cup {u} \subseteq AheadOf(board, v)
    BY <1>7, AheadIs DEF AheadOf
  <2>2. Cardinality(AheadOf(board, u) \cup {u}) <= Cardinality(AheadOf(board, v))
    BY <1>4, <2>1, FS_Subset
  <2> QED BY <1>3, <1>4, <1>5, <2>2
<1> QED BY <1>1, <1>2, <1>6, <1>7

\* A place is one member's, and every place is taken.
LEMMA PlacesTaken ==
  ASSUME NEW board, BoardOK(board)
  PROVE  /\ \A u, v \in DOMAIN board : Place(board, u) = Place(board, v) => u = v
         /\ \A k \in 1 .. Cardinality(DOMAIN board) : \E u \in DOMAIN board : Place(board, u) = k
<1> DEFINE S == DOMAIN board  n == Cardinality(DOMAIN board)  f == [u \in S |-> Place(board, u)]
<1>1. IsFiniteSet(S) /\ n \in Nat /\ \A u \in S : Place(board, u) \in 1 .. n
  BY PlaceIs
<1>2. ASSUME NEW u \in S, NEW v \in S, Place(board, u) = Place(board, v) PROVE u = v
  <2>1. ~Ahead(board, u, v) /\ ~Ahead(board, v, u)
    BY <1>1, <1>2, PlaceIs
  <2> QED BY <2>1, AheadIs
<1>3. f \in Injection(S, 1 .. n)
  BY <1>1, <1>2 DEF Injection, IsInjective
<1>4. IsFiniteSet(1 .. n) /\ Cardinality(1 .. n) = n
  BY <1>1, FS_Interval
<1>5. f \in Surjection(S, 1 .. n)
  BY <1>3, <1>4, FS_Injection
<1>6. \A k \in 1 .. n : \E u \in S : f[u] = k
  BY <1>5 DEF Surjection
<1>7. \A k \in 1 .. n : \E u \in S : Place(board, u) = k
  BY <1>6
<1> QED BY <1>2, <1>7

\* The list has everybody at their place.
LEMMA ZrevrangeIs ==
  ASSUME NEW board, BoardOK(board)
  PROVE  /\ Zrevrange(board) \in Seq(DOMAIN board)
         /\ Len(Zrevrange(board)) = Cardinality(DOMAIN board)
         /\ \A k \in 1 .. Cardinality(DOMAIN board) :
              Zrevrange(board)[k] \in DOMAIN board /\ Place(board, Zrevrange(board)[k]) = k
<1> DEFINE n == Cardinality(DOMAIN board)  ids == Zrevrange(board)
<1>1. n \in Nat
  BY PlaceIs
<1>2. ids = [k \in 1 .. n |-> CHOOSE u \in DOMAIN board : Place(board, u) = k]
  BY DEF Zrevrange
<1>3. \A k \in 1 .. n : ids[k] \in DOMAIN board /\ Place(board, ids[k]) = k
  BY <1>2, PlacesTaken
<1>4. ids \in [1 .. n -> DOMAIN board]
  BY <1>2, <1>3
<1>5. ids \in Seq(DOMAIN board) /\ Len(ids) = n
  BY <1>1, <1>4
<1> QED BY <1>3, <1>5

\* Where the page shows a row: the first two change places.
Seat(k, m) == IF k = 1 /\ m > 1 THEN 2 ELSE IF k = 2 THEN 1 ELSE k

\* Seats are taken once, and all.
LEMMA SeatIs ==
  ASSUME NEW m \in Nat, NEW k \in 1 .. m
  PROVE  Seat(k, m) \in 1 .. m /\ Seat(Seat(k, m), m) = k
BY DEF Seat

\* The podium and the rest are the rows, each in its seat.
LEMMA PodiumThenRest ==
  ASSUME NEW R, NEW rows \in Seq(R)
  PROVE  LET shown == Podium(rows) \o Rest(rows) IN
         /\ DOMAIN shown = 1 .. Len(rows) /\ Len(shown) = Len(rows)
         /\ \A k \in 1 .. Len(rows) : shown[k] = rows[Seat(k, Len(rows))]
<1> DEFINE m == Len(rows)
<1>1. m \in Nat /\ \A k \in 1 .. m : rows[k] \in R
  OBVIOUS
<1>2. CASE m <= 3
  <2>1. Rest(rows) = <<>>
    BY <1>1, <1>2 DEF Rest
  <2>2. m = 0 \/ m = 1 \/ m = 2 \/ m = 3
    <3>1. m \in Nat
      OBVIOUS
    <3> HIDE DEF m
    <3> QED BY <1>2, <3>1
  <2>3. /\ Podium(rows) \in Seq(R) /\ Len(Podium(rows)) = m
        /\ \A k \in 1 .. m : Podium(rows)[k] = rows[Seat(k, m)]
    <3>1. CASE m = 0
      <4>1. Podium(rows) = <<>>
        BY <3>1 DEF Podium
      <4> QED BY <3>1, <4>1
    <3>2. CASE m = 1
      <4>1. Podium(rows) = <<rows[1]>> /\ rows[1] \in R
        BY <1>1, <3>2 DEF Podium
      <4> QED BY <3>2, <4>1 DEF Seat
    <3>3. CASE m = 2
      <4>1. Podium(rows) = <<rows[2], rows[1]>> /\ rows[1] \in R /\ rows[2] \in R
        BY <1>1, <3>3 DEF Podium
      <4> QED BY <3>3, <4>1 DEF Seat
    <3>4. CASE m = 3
      <4>1. /\ Podium(rows) = <<rows[2], rows[1], rows[3]>>
            /\ rows[1] \in R /\ rows[2] \in R /\ rows[3] \in R
        BY <1>1, <3>4 DEF Podium
      <4> QED BY <3>4, <4>1 DEF Seat
    <3> QED BY <2>2, <3>1, <3>2, <3>3, <3>4
  <2>4. Podium(rows) \o Rest(rows) = Podium(rows)
    BY <2>1, <2>3, ConcatEmptySeq
  <2> QED BY <1>1, <2>3, <2>4
<1>3. CASE m > 3
  <2>1. Podium(rows) = <<rows[2], rows[1], rows[3]>> /\ Podium(rows) \in Seq(R)
    BY <1>1, <1>3 DEF Podium
  <2>2. /\ Rest(rows) \in Seq(R) /\ Len(Rest(rows)) = m - 3
        /\ \A k \in 1 .. m - 3 : Rest(rows)[k] = rows[k + 3]
    BY <1>1, <1>3 DEF Rest
  <2>3. Len(Podium(rows)) = 3
    BY <2>1
  <2> DEFINE shown == Podium(rows) \o Rest(rows)
  <2>4. /\ Len(shown) = m /\ DOMAIN shown = 1 .. m
        /\ \A k \in 1 .. 3 : shown[k] = Podium(rows)[k]
        /\ \A k \in 4 .. m : shown[k] = Rest(rows)[k - 3]
    BY <1>1, <1>3, <2>1, <2>2, <2>3
  <2>5. \A k \in 4 .. m : shown[k] = rows[k]
    <3> TAKE k \in 4 .. m
    <3>1. k - 3 \in 1 .. m - 3 /\ (k - 3) + 3 = k
      BY <1>1
    <3> QED BY <2>2, <2>4, <3>1
  <2>6. \A k \in 1 .. m : shown[k] = rows[Seat(k, m)]
    <3> TAKE k \in 1 .. m
    <3>1. k = 1 \/ k = 2 \/ k = 3 \/ k \in 4 .. m
      BY <1>1
    <3> QED BY <1>1, <1>3, <2>1, <2>4, <2>5, <3>1 DEF Seat
  <2> QED BY <2>4, <2>6
<1> QED BY <1>1, <1>2, <1>3

\* The rows of a board, and how many there are.
RowsOf(board) ==
  LET ids == Zrevrange(board) IN
  [k \in 1 .. Min({Len(ids), BoardLimit}) |->
     [rank |-> k, userId |-> ids[k], seconds |-> board[ids[k]]]]

\* As many as the board has, up to its limit.
RowCount(board) == Min({Cardinality(DOMAIN board), BoardLimit})

\* A row has the place and the score of who is in it.
LEMMA RowsAre ==
  ASSUME NEW board, BoardOK(board)
  PROVE  LET rows == RowsOf(board) IN
         /\ RowCount(board) \in 0 .. Cardinality(DOMAIN board)
         /\ Len(rows) = RowCount(board)
         /\ rows \in Seq([rank : Nat, userId : DOMAIN board, seconds : Nat])
         /\ \A k \in 1 .. RowCount(board) :
              /\ rows[k].userId \in DOMAIN board
              /\ rows[k].rank = k /\ Place(board, rows[k].userId) = k
              /\ rows[k].seconds = board[rows[k].userId]
<1> DEFINE n == Cardinality(DOMAIN board)  m == RowCount(board)  ids == Zrevrange(board)
           rows == RowsOf(board)
<1>1. n \in Nat /\ BoardLimit \in Nat
  BY PlaceIs, LeaderboardsAssumption
<1>2. m \in Nat /\ m <= n
  <2> DEFINE both == {n, BoardLimit}
  <2>1. both \subseteq Nat /\ n \in both
    BY <1>1
  <2> HIDE DEF both
  <2>2. Min(both) \in both /\ Min(both) <= n
    BY <2>1, LeastExists
  <2> QED BY <2>1, <2>2 DEF RowCount, both
<1>3. \A k \in 1 .. n : ids[k] \in DOMAIN board /\ Place(board, ids[k]) = k
  BY ZrevrangeIs
<1>4. rows = [k \in 1 .. m |-> [rank |-> k, userId |-> ids[k], seconds |-> board[ids[k]]]]
  BY ZrevrangeIs DEF RowsOf, RowCount
<1>5. \A k \in 1 .. m : k \in 1 .. n /\ k \in Nat
  BY <1>1, <1>2
<1>6. \A k \in 1 .. m : rows[k] = [rank |-> k, userId |-> ids[k], seconds |-> board[ids[k]]]
  BY <1>4
<1>7. \A u \in DOMAIN board : board[u] \in Nat
  BY DEF BoardOK
<1> HIDE DEF rows, ids, m, n
<1> DEFINE R == [rank : Nat, userId : DOMAIN board, seconds : Nat]
<1>8. ASSUME NEW k \in 1 .. m
      PROVE  /\ rows[k] \in R /\ rows[k].userId \in DOMAIN board
             /\ rows[k].rank = k /\ Place(board, rows[k].userId) = k
             /\ rows[k].seconds = board[rows[k].userId]
  <2>1. ids[k] \in DOMAIN board /\ Place(board, ids[k]) = k /\ k \in Nat
    BY <1>3, <1>5
  <2>2. board[ids[k]] \in Nat
    BY <1>7, <2>1
  <2>3. rows[k] = [rank |-> k, userId |-> ids[k], seconds |-> board[ids[k]]]
    BY <1>6
  <2>4. rows[k].rank = k /\ rows[k].userId = ids[k] /\ rows[k].seconds = board[ids[k]]
    BY <2>3
  <2>5. rows[k] \in R
    BY <2>1, <2>2, <2>3
  <2> QED BY <2>1, <2>4, <2>5
<1> HIDE DEF R
<1>9. rows \in [1 .. m -> R]
  BY <1>4, <1>8
<1>10. rows \in Seq(R) /\ Len(rows) = m
  BY <1>2, <1>9
<1>11. m \in 0 .. n
  BY <1>1, <1>2
<1> QED BY <1>8, <1>10, <1>11 DEF rows, m, n, R

\* What is shown.
PageOf(board) == Podium(RowsOf(board)) \o Rest(RowsOf(board))

\* On the page everybody stands once, and who misses is behind everyone.
LEMMA PageIs ==
  ASSUME NEW board, BoardOK(board)
  PROVE  LET shown == PageOf(board) IN
         /\ DOMAIN shown = 1 .. Len(shown) /\ Len(shown) \in Nat
         /\ \A k \in DOMAIN shown :
              /\ shown[k].userId \in DOMAIN board
              /\ shown[k].rank = Place(board, shown[k].userId)
              /\ shown[k].seconds = board[shown[k].userId]
         /\ Cardinality({shown[k].userId : k \in DOMAIN shown}) = Len(shown)
         /\ \A u \in DOMAIN board : (\A k \in DOMAIN shown : shown[k].userId # u) =>
              \A k \in DOMAIN shown : shown[k].seconds >= board[u]
<1> DEFINE shown == PageOf(board)  rows == RowsOf(board)  m == RowCount(board)
           n == Cardinality(DOMAIN board)
<1>1. /\ m \in 0 .. n /\ m \in Nat /\ n \in Nat /\ Len(rows) = m
      /\ rows \in Seq([rank : Nat, userId : DOMAIN board, seconds : Nat])
  BY PlaceIs, RowsAre
<1>2. \A k \in 1 .. m : /\ rows[k].userId \in DOMAIN board
                        /\ rows[k].rank = k /\ Place(board, rows[k].userId) = k
                        /\ rows[k].seconds = board[rows[k].userId]
  BY RowsAre
<1>3. DOMAIN shown = 1 .. m /\ Len(shown) = m /\ \A k \in 1 .. m : shown[k] = rows[Seat(k, m)]
  BY <1>1, PodiumThenRest DEF PageOf
<1>4. \A k \in 1 .. m : Seat(k, m) \in 1 .. m /\ Seat(Seat(k, m), m) = k
  BY <1>1, SeatIs
<1> HIDE DEF shown, rows, m, n
<1>5. \A k \in 1 .. m : /\ shown[k].userId \in DOMAIN board
                        /\ shown[k].rank = Seat(k, m) /\ Place(board, shown[k].userId) = Seat(k, m)
                        /\ shown[k].seconds = board[shown[k].userId]
  BY <1>2, <1>3, <1>4
<1>6. Cardinality({shown[k].userId : k \in DOMAIN shown}) = Len(shown)
  <2> DEFINE T == {shown[k].userId : k \in DOMAIN shown}  f == [k \in 1 .. m |-> shown[k].userId]
  <2>1. \A k \in 1 .. m : f[k] = shown[k].userId
    OBVIOUS
  <2>2. f \in [1 .. m -> T]
    BY <1>3
  <2>3. \A t \in T : \E k \in 1 .. m : f[k] = t
    BY <1>3
  <2>4. ASSUME NEW j \in 1 .. m, NEW k \in 1 .. m, f[j] = f[k] PROVE j = k
    <3>1. Seat(j, m) = Seat(k, m)
      BY <1>5, <2>1, <2>4
    <3> QED BY <1>4, <3>1
  <2>5. f \in Bijection(1 .. m, T)
    BY <2>2, <2>3, <2>4 DEF Bijection, Injection, Surjection, IsInjective
  <2>6. IsFiniteSet(1 .. m) /\ Cardinality(1 .. m) = m
    BY <1>1, FS_Interval
  <2>7. Cardinality(T) = m
    BY <2>5, <2>6, FS_Bijection DEF ExistsBijection
  <2> QED BY <1>3, <2>7
<1>7. ASSUME NEW u \in DOMAIN board, \A k \in DOMAIN shown : shown[k].userId # u,
             NEW k \in DOMAIN shown
      PROVE  shown[k].seconds >= board[u]
  <2> DEFINE v == shown[k].userId
  <2>1. k \in 1 .. m /\ v \in DOMAIN board /\ Place(board, v) = Seat(k, m) /\ Seat(k, m) \in 1 .. m
    BY <1>3, <1>4, <1>5, <1>7
  <2>2. Place(board, u) \notin 1 .. m
    <3> SUFFICES ASSUME Place(board, u) \in 1 .. m PROVE FALSE
      OBVIOUS
    <3> DEFINE j == Seat(Place(board, u), m)
    <3>1. j \in 1 .. m /\ Seat(j, m) = Place(board, u)
      BY <1>4
    <3>2. Place(board, shown[j].userId) = Place(board, u) /\ shown[j].userId \in DOMAIN board
      BY <1>5, <3>1
    <3>3. shown[j].userId = u
      BY <3>2, PlacesTaken
    <3> QED BY <1>3, <1>7, <3>1, <3>3
  <2>3. Place(board, u) \in Nat /\ Place(board, u) > m
    <3>1. Place(board, u) \in 1 .. n
      BY PlaceIs DEF n
    <3> QED BY <1>1, <2>2, <3>1
  <2>4. ~Ahead(board, u, v)
    <3>1. Ahead(board, u, v) => Place(board, u) < Place(board, v)
      BY <2>1, PlaceIs
    <3> QED BY <1>1, <2>1, <2>3, <3>1
  <2>5. u # v
    BY <1>7
  <2>6. Ahead(board, v, u)
    BY <2>1, <2>4, <2>5, AheadIs
  <2>7. board[v] >= board[u]
    BY <2>1, <2>6, AheadIs
  <2> QED BY <1>5, <2>1, <2>7
<1>8. DOMAIN shown = 1 .. Len(shown) /\ Len(shown) \in Nat
  BY <1>1, <1>3
<1>9. \A k \in DOMAIN shown : /\ shown[k].userId \in DOMAIN board
                              /\ shown[k].rank = Place(board, shown[k].userId)
                              /\ shown[k].seconds = board[shown[k].userId]
  BY <1>3, <1>5
<1> QED BY <1>6, <1>7, <1>8, <1>9 DEF shown

\* What a person sees of themselves.
LEMMA OwnIs ==
  ASSUME BoardsDated, NEW p \in Periods, NEW u
  PROVE  LET board == BoardIn(boards, CurrentKeyFor(p, today)) IN
         /\ Own(p, u).seconds = Standing(board, u)
         /\ Own(p, u).rank = IF u \in DOMAIN board THEN Place(board, u) ELSE 0
<1>1. BoardOf(CurrentKeyFor(p, today)) = BoardIn(boards, CurrentKeyFor(p, today))
  BY BoardInIs
<1>2. Own(p, u) = RankAndScore(p, u)
  BY DEF Own, Stats
<1> QED BY <1>1, <1>2 DEF RankAndScore, Standing

\* The invariant says what the page promises.
LEMMA BoardsTell == BoardsInv => BoardsKeepTheCalendar
<1> SUFFICES ASSUME BoardsInv, NEW p \in Periods
             PROVE  LET shown == Shown(p)  own == [u \in Fans |-> Own(p, u)] IN
                    /\ \A u \in Fans :
                         /\ own[u].seconds = watched[p][u] - Coming(p, u)
                         /\ own[u].rank = 0 <=> own[u].seconds = 0
                         /\ (\A k \in DOMAIN shown : shown[k].userId # u) =>
                              \A k \in DOMAIN shown : shown[k].seconds >= own[u].seconds
                    /\ \A k \in DOMAIN shown :
                         /\ shown[k].rank = own[shown[k].userId].rank
                         /\ shown[k].seconds = own[shown[k].userId].seconds
                    /\ Cardinality({shown[k].userId : k \in DOMAIN shown}) = Len(shown)
  BY DEF BoardsKeepTheCalendar
<1> DEFINE board == BoardIn(boards, CurrentKeyFor(p, today))  shown == Shown(p)
           own == [u \in Fans |-> Own(p, u)]
<1>1. BoardsDated /\ BoardOK(board) /\ DOMAIN board \subseteq Fans
  BY BoardInIs DEF BoardsInv, BoardOK
<1>2. shown = PageOf(board)
  <2>1. BoardOf(CurrentKeyFor(p, today)) = board
    BY <1>1, BoardInIs
  <2>2. Top(p) = RowsOf(BoardOf(CurrentKeyFor(p, today)))
    BY DEF Top, RowsOf
  <2> QED BY <2>1, <2>2, Zenon DEF Shown, PageOf
<1> HIDE DEF board, shown
<1>3. /\ \A k \in DOMAIN shown :
           /\ shown[k].userId \in DOMAIN board
           /\ shown[k].rank = Place(board, shown[k].userId)
           /\ shown[k].seconds = board[shown[k].userId]
      /\ Cardinality({shown[k].userId : k \in DOMAIN shown}) = Len(shown)
      /\ \A u \in DOMAIN board : (\A k \in DOMAIN shown : shown[k].userId # u) =>
           \A k \in DOMAIN shown : shown[k].seconds >= board[u]
  BY <1>1, <1>2, PageIs
<1>4. \A u \in Fans : /\ own[u].seconds = Standing(board, u)
                      /\ own[u].rank = IF u \in DOMAIN board THEN Place(board, u) ELSE 0
  BY <1>1, OwnIs DEF board
<1>5. \A u \in Fans : watched[p][u] = Standing(board, u) + Coming(p, u)
  BY <1>1, AddUpIs DEF BoardsInv, board
<1>6. \A u \in Fans : Coming(p, u) \in Nat
  BY ComingIs DEF BoardsInv
<1>7. \A u \in Fans : Standing(board, u) \in Nat /\ (Standing(board, u) > 0 <=> u \in DOMAIN board)
  BY <1>1, StandingIs
<1>8. \A u \in DOMAIN board :
        Place(board, u) > 0 /\ Standing(board, u) = board[u] /\ board[u] \in Nat
  BY <1>1, PlaceIs DEF Standing, BoardOK
<1> HIDE DEF own
<1>9. ASSUME NEW u \in Fans
      PROVE  /\ own[u].seconds = watched[p][u] - Coming(p, u)
             /\ own[u].rank = 0 <=> own[u].seconds = 0
  <2>1. own[u].seconds = watched[p][u] - Coming(p, u)
    BY <1>4, <1>5, <1>6, <1>7
  <2>2. CASE u \in DOMAIN board
    BY <1>4, <1>7, <1>8, <2>1, <2>2
  <2>3. CASE u \notin DOMAIN board
    BY <1>4, <1>7, <2>1, <2>3
  <2> QED BY <2>2, <2>3
<1>10. ASSUME NEW u \in Fans, \A k \in DOMAIN shown : shown[k].userId # u, NEW k \in DOMAIN shown
       PROVE  shown[k].seconds >= own[u].seconds
  <2>1. CASE u \in DOMAIN board
    BY <1>3, <1>4, <1>8, <1>10, <2>1
  <2>2. CASE u \notin DOMAIN board
    <3>1. own[u].seconds = 0
      BY <1>4, <1>7, <2>2
    <3>2. shown[k].seconds \in Nat
      BY <1>3, <1>8
    <3> QED BY <3>1, <3>2
  <2> QED BY <2>1, <2>2
<1>11. ASSUME NEW k \in DOMAIN shown
       PROVE  /\ shown[k].rank = own[shown[k].userId].rank
              /\ shown[k].seconds = own[shown[k].userId].seconds
  BY <1>1, <1>3, <1>4, <1>8
<1> QED BY <1>3, <1>9, <1>10, <1>11 DEF shown, own

\* The boards of a week, of a month and of all time hold what was watched in them, and
\* the page shows it, for any number of fans and years and any first weekday.
THEOREM CalendarKept == LeaderboardsSpec => []BoardsKeepTheCalendar
<1>1. LeaderboardsInit => BoardsInv
  BY BoardsStart
<1>2. BoardsInv /\ [LeaderboardsNext]_boardVars => BoardsInv'
  BY BoardsKept
<1>3. BoardsInv => BoardsKeepTheCalendar
  BY BoardsTell
<1> QED BY <1>1, <1>2, <1>3, PTL DEF LeaderboardsSpec
===============================================================================
