------------------------------- MODULE RoomCards -------------------------------
(***************************************************************************)
(* A room's card: the rooms service adds one viewer for every               *)
(* presence.user.joined, takes one away for every presence.user.left, and  *)
(* shows the video of every playback.video.started.  The events come       *)
(* through Messaging, which handles each once and in any order (an attempt *)
(* that failed is repeated after later events).                            *)
(***************************************************************************)
EXTENDS Presence

CONSTANTS
  MaxStarts     \* bound: videos that start in the room

ASSUME StartsAssumption == MaxStarts \in Nat

VARIABLES
  viewers,                \* room_cards.viewers
  countedIn, countedOut,  \* events of each session applied to it
  clamped,                \* whether GREATEST(0, ...) ever had an effect
  started,                \* videos that started in the room, numbered
  unshown,                \* those whose event is not applied yet
  cardVideo,              \* the video fields: its number, 0 for null
  overtaken               \* whether an event was applied after a later one

countVars    == <<viewers, countedIn, countedOut, clamped>>
videoVars    == <<started, unshown, cardVideo, overtaken>>
roomCardVars == <<presenceVars, countVars, videoVars>>

RoomCardsTypeOK ==
  /\ PresenceTypeOK
  /\ viewers \in Nat /\ clamped \in BOOLEAN
  /\ countedIn \in [Sessions -> Nat] /\ countedOut \in [Sessions -> Nat]
  /\ started \in 0 .. MaxStarts /\ unshown \subseteq 1 .. started
  /\ cardVideo \in 0 .. started /\ overtaken \in BOOLEAN

RoomCardsInit ==
  /\ PresenceInit
  /\ viewers = 0 /\ clamped = FALSE
  /\ countedIn = [s \in Sessions |-> 0] /\ countedOut = [s \in Sessions |-> 0]
  /\ started = 0 /\ unshown = {} /\ cardVideo = 0 /\ overtaken = FALSE

-------------------------------------------------------------------------------
(* adjustViewers *)

AddOne == viewers' = viewers + 1 /\ UNCHANGED clamped

\* Without the lower bound.
SubtractFreely == viewers' = viewers - 1 /\ UNCHANGED clamped

\* GREATEST(0, viewers - 1)
SubtractOne ==
  /\ viewers' = IF viewers = 0 THEN 0 ELSE viewers - 1
  /\ clamped' = (clamped \/ viewers = 0)

ApplyJoined(s) ==
  /\ countedIn[s] < joined[s]
  /\ countedIn' = [countedIn EXCEPT ![s] = @ + 1]
  /\ AddOne
  /\ UNCHANGED <<presenceVars, countedOut>>

ApplyLeft(s) ==
  /\ countedOut[s] < left[s]
  /\ countedOut' = [countedOut EXCEPT ![s] = @ + 1]
  /\ SubtractOne
  /\ UNCHANGED <<presenceVars, countedIn>>

-------------------------------------------------------------------------------
(* applyVideoStarted *)

VideoStarts ==
  /\ started < MaxStarts
  /\ started' = started + 1 /\ unshown' = unshown \cup {started + 1}
  /\ UNCHANGED <<cardVideo, overtaken>>

\* The columns of the event's video replace those there, whatever they are.
ApplyVideoStarted(k) ==
  /\ unshown' = unshown \ {k}
  /\ cardVideo' = k
  /\ overtaken' = (overtaken \/ k < cardVideo)
  /\ UNCHANGED started

\* toCard and RoomCard: a card with a video shows its picture and says LIVE, and
\* one that never had any asks to be the first.  Nothing empties the columns when
\* the room goes idle.
SaysLive == cardVideo # 0

-------------------------------------------------------------------------------
(* The specification: two consumers on queues of their own *)

CountNext ==
  \/ PresenceNext /\ UNCHANGED countVars
  \/ \E s \in Sessions : ApplyJoined(s) \/ ApplyLeft(s)

ShowNext == VideoStarts \/ \E k \in unshown : ApplyVideoStarted(k)

RoomCardsNext ==
  \/ CountNext /\ UNCHANGED videoVars
  \/ ShowNext  /\ UNCHANGED <<presenceVars, countVars>>

RoomCardsSpec == RoomCardsInit /\ [][RoomCardsNext]_roomCardVars
===============================================================================
