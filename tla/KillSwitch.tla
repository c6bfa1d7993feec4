------------------------------ MODULE KillSwitch ------------------------------
(* The kill switch of room creation: a key in Redis that the gateway reads     *)
(* through a cache in its own memory, and the room that POST /rooms makes of   *)
(* two services.  The switches of chat and votes are read the same way.        *)
EXTENDS Integers, FiniteSets

CONSTANTS
  Creations,    \* POST /rooms requests
  CacheFor,     \* cacheMs
  RoundTrip,    \* bound: ticks a Redis call takes, fail-fast included
  MaxHour,      \* bound: ticks
  MaxBreaks     \* bound: Redis calls that throw

ASSUME KillSwitchAssumption == {CacheFor, RoundTrip, MaxHour, MaxBreaks} \subseteq Nat

VARIABLES
  hour,
  creation,     \* [at, since, read]: read is what the cache held, then what Redis said
  switch,       \* flags:room_creation: [on, offSince]
  cache,        \* FeatureFlags.cache: [value, at]
  lastRoom,     \* auxiliary: when the last room was let through and made
  breaks

switchVars == <<hour, creation, switch, cache, lastRoom, breaks>>

Hours == 0 .. MaxHour
Never == -1
Begun == [at |-> "idle", since |-> 0, read |-> TRUE]

KillSwitchTypeOK ==
  /\ hour \in Hours
  /\ creation \in [Creations -> [at : {"idle", "asked", "replied", "allowed", "created", "done"},
                                 since : Hours, read : BOOLEAN]]
  /\ switch \in [on : BOOLEAN, offSince : Hours \cup {Never}]
  /\ cache \in [value : BOOLEAN, at : Hours \cup {Never}]
  /\ lastRoom \in Hours \cup {Never}
  /\ breaks \in 0 .. MaxBreaks

SwitchInit ==
  /\ hour = 0
  /\ creation = [c \in Creations |-> Begun]
  /\ switch = [on |-> TRUE, offSince |-> Never]
  /\ cache = [value |-> TRUE, at |-> Never]
  /\ lastRoom = Never
  /\ breaks = 0

-------------------------------------------------------------------------------
Stage(c, stage) == creation[c].at = stage
Turn(c, stage) ==
  creation' = [creation EXCEPT ![c] =
    [at |-> stage, since |-> IF stage = "allowed" THEN hour ELSE 0, read |-> TRUE]]

\* The question takes along what the cache held, in case that it fails.
Ask(c) ==
  creation' = [creation EXCEPT ![c] = [at |-> "asked", since |-> hour, read |-> cache.value]]

\* FEATURE_DISABLED, or on to the rooms service.
Decide(c, value) == Turn(c, IF value THEN "allowed" ELSE "done")

Fresh == cache.at # Never /\ hour - cache.at < CacheFor

\* Every use makes a cached value young again.
IsEnabledSliding(c) ==
  /\ Stage(c, "idle")
  /\ IF Fresh THEN /\ Decide(c, cache.value) /\ cache' = [cache EXCEPT !.at = hour]
     ELSE Ask(c) /\ UNCHANGED cache
  /\ UNCHANGED <<hour, switch, lastRoom, breaks>>

\* isEnabled: the cached value while it is fresh, or a question to Redis.
IsEnabled(c) ==
  /\ Stage(c, "idle")
  /\ IF Fresh THEN Decide(c, cache.value) ELSE Ask(c)
  /\ UNCHANGED <<hour, switch, cache, lastRoom, breaks>>

\* Redis reads the key; the reply is under way.
ReadKey(c) ==
  /\ Stage(c, "asked")
  /\ creation' = [creation EXCEPT ![c] = [at |-> "replied", since |-> @.since, read |-> switch.on]]
  /\ UNCHANGED <<hour, switch, cache, lastRoom, breaks>>

CacheReply(c) ==
  /\ Stage(c, "replied")
  /\ cache' = [value |-> creation[c].read, at |-> hour]
  /\ Decide(c, creation[c].read)
  /\ UNCHANGED <<hour, switch, lastRoom, breaks>>

\* The call throws: the value known when it was made, or on, and that is cached too,
\* over whatever was read meanwhile.
FlagFails(c) ==
  /\ Stage(c, "asked")
  /\ breaks < MaxBreaks
  /\ breaks' = breaks + 1
  /\ cache' = [value |-> creation[c].read, at |-> hour]
  /\ Decide(c, creation[c].read)
  /\ UNCHANGED <<hour, switch, lastRoom>>

\* An operator writes the key.
Flip ==
  /\ switch' = [on |-> ~switch.on, offSince |-> IF switch.on THEN hour ELSE Never]
  /\ UNCHANGED <<hour, creation, cache, lastRoom, breaks>>

\* rooms.create: room, card and event in one transaction, or an error.
CreateRoom(c) ==
  /\ Stage(c, "allowed")
  /\ \/ lastRoom' = creation[c].since /\ Turn(c, "created")
     \/ UNCHANGED lastRoom /\ Turn(c, "done")
  /\ UNCHANGED <<hour, switch, cache, breaks>>

\* playback.addVideo: when it fails the room starts idle, and stays.
AddFirstVideo(c) ==
  /\ Stage(c, "created")
  /\ Turn(c, "done")
  /\ UNCHANGED <<hour, switch, cache, lastRoom, breaks>>

HourStrikes ==
  /\ hour < MaxHour
  /\ \A c \in Creations : creation[c].at \in {"asked", "replied"} => hour < creation[c].since + RoundTrip
  /\ hour' = hour + 1
  /\ UNCHANGED <<creation, switch, cache, lastRoom, breaks>>

SwitchNext ==
  \/ HourStrikes \/ Flip
  \/ \E c \in Creations :
       \/ IsEnabled(c) \/ ReadKey(c) \/ CacheReply(c) \/ FlagFails(c)
       \/ CreateRoom(c) \/ AddFirstVideo(c)

SwitchSpec == SwitchInit /\ [][SwitchNext]_switchVars
===============================================================================
