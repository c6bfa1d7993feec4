-------------------------------- MODULE Player --------------------------------
(* The embedded player of a room page and the loop that keeps it on the room's *)
(* timeline.  Positions are counted in steps of a soft correction: the player  *)
(* gains or loses one step in a second at which its rate is nudged.            *)
EXTENDS Integers, FiniteSetsExt

CONSTANTS
  Second,       \* steps in a second: 1 / 0.05 in the code
  Duration,     \* seconds of each video
  Videos,        \* videos of the room, 1 .. n
  MaxBuffer,    \* bound: seconds the player buffers after a seek
  Jitter,       \* steps by which a clock sample may be wrong
  MaxStalls     \* bound: stalls, pauses and clock samples

ASSUME PlayerAssumption ==
  /\ {Second, Duration, Videos, MaxBuffer, MaxStalls} \subseteq Nat \ {0}
  /\ Jitter \in Nat

IgnoreUnder  == 1 * Second
HardSeekOver == 3 * Second

VARIABLES
  item, elapsed,    \* what the page was told the room plays, and its true position
  skew,             \* the estimated server clock minus the true one
  player,           \* "loading" the API; "made"; "ready"
  video, position,  \* what the embed plays, and where
  state,            \* YT.PlayerState
  rate,             \* -1, 0, 1: steps gained in a second
  wasBuffering, buffered,
  currentItem,      \* the ref of the effect that loads the next video
  stalls,
  calm,             \* auxiliary: seconds played since the last disturbance
  seeks,            \* auxiliary: seeks since the last disturbance
  slow,             \* auxiliary: those of them that buffered for more than two seconds
  swallowed         \* auxiliary: a load met a player that was not ready

roomClock  == <<item, elapsed>>
playerVars == <<roomClock, skew, player, video, position, state, rate, wasBuffering, buffered,
                currentItem, stalls, calm, seeks, slow, swallowed>>

Clamp(t) == IF t < 0 THEN 0 ELSE IF t > Duration * Second THEN Duration * Second ELSE t

\* positionSeconds, by the clock that the page has.
Expected(t) == Clamp(t + skew)

Abs(x) == IF x < 0 THEN -x ELSE x

PlayerInit ==
  /\ item = 1 /\ elapsed \in {0, Second}
  /\ skew \in {-Second, 0, Second}
  /\ player = "loading" /\ video = 0 /\ position = 0 /\ state = "UNSTARTED" /\ rate = 0
  /\ wasBuffering = FALSE /\ buffered = 0 /\ currentItem = 1
  /\ stalls = 0 /\ calm = 0 /\ seeks = 0 /\ slow = 0 /\ swallowed = FALSE

-------------------------------------------------------------------------------
(* The embed *)

\* Whole seconds only.
Floor(t) == (t \div Second) * Second

Load(i, t) ==
  /\ video' = i /\ position' = Floor(t) /\ state' = "BUFFERING" /\ buffered' = 0
  /\ wasBuffering' = TRUE /\ rate' = 0

SeekTo(t) ==
  /\ position' = t /\ state' = "BUFFERING" /\ buffered' = 0 /\ wasBuffering' = TRUE

\* A seek of the page's own; what follows a disturbance is counted.
Jump(t) == SeekTo(t) /\ seeks' = seeks + 1 /\ calm' = 0 /\ UNCHANGED slow

Disturbed ==
  stalls < MaxStalls /\ stalls' = stalls + 1 /\ calm' = 0 /\ seeks' = 0 /\ slow' = 0

\* loadIframeApi resolves: the player is made for what the room plays by now.
MakePlayer ==
  /\ player = "loading" /\ player' = "made"
  /\ video' = item /\ position' = Floor(Clamp(elapsed + skew))
  /\ UNCHANGED <<roomClock, skew, state, rate, wasBuffering, buffered, currentItem, stalls,
                 calm, seeks, slow, swallowed>>

Ready ==
  /\ player = "made" /\ player' = "ready"
  /\ state' = "BUFFERING" /\ wasBuffering' = TRUE /\ buffered' = 0
  /\ UNCHANGED <<roomClock, skew, video, position, rate, currentItem, stalls, calm, seeks, slow,
                 swallowed>>

\* Mutant of OnBuffered: every seek buffers, so this never ends.
ResyncAlways ==
  IF wasBuffering THEN Jump(Expected(elapsed)) ELSE
    /\ state' = "PLAYING" /\ wasBuffering' = FALSE
    /\ UNCHANGED <<position, buffered, calm, seeks, slow>>

\* Playing again after buffering: resynchronise, if the drift is real.
OnBuffered ==
  IF wasBuffering /\ Abs(position - Expected(elapsed)) > HardSeekOver
  THEN Jump(Expected(elapsed))
  ELSE /\ state' = "PLAYING" /\ wasBuffering' = FALSE
       /\ UNCHANGED <<position, buffered, calm, seeks, slow>>

Plays ==
  /\ player = "ready" /\ state = "BUFFERING"
  /\ OnBuffered
  /\ UNCHANGED <<roomClock, skew, player, video, rate, currentItem, stalls, swallowed>>

Stall ==
  /\ state = "PLAYING" /\ Disturbed
  /\ state' = "BUFFERING" /\ wasBuffering' = TRUE /\ buffered' = -1
  /\ UNCHANGED <<roomClock, skew, player, video, position, rate, currentItem, swallowed>>

\* Nobody can pause: rejoin the timeline and play on.
Pause ==
  /\ state = "PLAYING"
  /\ stalls < MaxStalls /\ stalls' = stalls + 1 /\ calm' = 0 /\ seeks' = 1 /\ slow' = 0
  /\ SeekTo(Expected(elapsed))
  /\ UNCHANGED <<roomClock, skew, player, video, rate, currentItem, swallowed>>

-------------------------------------------------------------------------------
(* The page *)

\* sync:pong: two fifths of the way to the sample.
Pong ==
  /\ Disturbed
  /\ \E s \in -Jitter .. Jitter : skew' = (3 * skew + 2 * s) \div 5
  /\ UNCHANGED <<roomClock, player, video, position, state, rate, wasBuffering, buffered,
                 currentItem, swallowed>>

\* One tick of useDriftCorrection.
Correct(t, from) ==
  LET drift == from - Expected(t) IN
  IF Abs(drift) > HardSeekOver
  THEN Jump(Expected(t)) /\ rate' = 0
  ELSE /\ rate' = IF Abs(drift) > IgnoreUnder THEN (IF drift > 0 THEN -1 ELSE 1) ELSE 0
       /\ position' = from /\ calm' = calm + 1
       /\ UNCHANGED <<state, buffered, wasBuffering, seeks, slow>>

\* A second: the room moves on, the player too if it plays, and the loop looks.
Tick ==
  LET t    == Clamp(elapsed + Second)
      from == Clamp(position + Second + rate) IN
  /\ elapsed < Duration * Second /\ elapsed' = t
  /\ IF state = "PLAYING" /\ from = Duration * Second
     THEN /\ state' = "ENDED" /\ position' = from
          /\ UNCHANGED <<rate, wasBuffering, buffered, calm, seeks, slow>>
     ELSE IF state = "PLAYING" THEN Correct(t, from)
     ELSE /\ buffered # MaxBuffer
          /\ buffered' = IF state = "BUFFERING" /\ buffered >= 0 THEN buffered + 1 ELSE buffered
          /\ slow' = IF state = "BUFFERING" /\ buffered = 2 /\ seeks > 0 THEN slow + 1 ELSE slow
          /\ UNCHANGED <<position, state, rate, wasBuffering, calm, seeks>>
  /\ UNCHANGED <<item, skew, player, video, currentItem, stalls, swallowed>>

\* The room plays another video: the effect loads it into a player that is ready.
NextVideo ==
  /\ item < Videos /\ item' = item + 1 /\ elapsed' = 0
  /\ currentItem' = item'
  /\ calm' = 0 /\ seeks' = 0 /\ slow' = 0
  /\ IF player = "ready"
     THEN Load(item', Expected(0)) /\ swallowed' = FALSE
     ELSE /\ swallowed' = (swallowed \/ player = "made")
          /\ UNCHANGED <<video, position, state, buffered, wasBuffering, rate>>
  /\ UNCHANGED <<skew, player, stalls>>

PlayerNext ==
  \/ MakePlayer \/ Ready \/ Plays \/ Stall \/ Pause \/ Pong \/ Tick \/ NextVideo

PlayerSpec == PlayerInit /\ [][PlayerNext]_playerVars
===============================================================================
