---------------------------- MODULE ClientProperties --------------------------
(* What a room page may be relied upon to show and to do, and through which    *)
(* gaps it comes to show something else.                                       *)
EXTENDS RoomPage, VotePage, ChatPage, Player, Audience

\* Once every event is broadcast and no answer is on its way, a page shows the
\* room's queue and, if the room plays, its video: unless a broadcast passed it by,
\* came out of order, or was overwritten by an older snapshot, and nothing newer
\* came since.  It never shows a video that has not been on the air
\* (use-room-sync.ts:47-101).
PageIsCurrent ==
  /\ page.playback \subseteq onAir \cup past
  /\ events = {} /\ reply = NoReply /\ tuple = onAir =>
       /\ "queue" \notin behind => page.queue = Pending(waiting, ticket)
       /\ "playback" \notin behind /\ onAir # {} => page.playback = onAir

\* The overlay and the skip button tell whether a vote is open, and how many said
\* yes, and the banner how the last one ended, once all is broadcast and answered:
\* unless a broadcast was missed or came late, or the answer to vote:start came
\* after news of that vote.  Who is shown as having voted has voted, or the call
\* failed (use-room-votes.ts:41-112).
OverlayTellsVote ==
  /\ news = {} /\ starting = NotAsked =>
       /\ "vote" \notin misled => {overlay.vote} \ {0} = Open
       /\ "vote" \notin misled /\ banner # "none" =>
            Open = {} /\ banner = Last(votes).result
       /\ misled = {} /\ overlay # NoOverlay =>
            overlay.yes = Cardinality(votes[overlay.vote].yes)
  /\ hasVoted /\ overlay.vote \notin {0, casting, lostCast} =>
       Me \in votes[overlay.vote].yes

\* A message shown as sent is stored; one shown as pending will be decided, unless
\* its timer went with a replaced socket; one shown as failed or pending though it
\* is stored has an ack on its way or missed it.  And where history meets what was
\* heard, nothing is shown twice but by a missing ack, and nothing stored is left
\* out but what was neither heard nor there when its page was read
\* (use-room-chat.ts:54-88 and 168-185, prisma-message.repository.ts:18-63).
ChatTellsTheTruth ==
  \A m \in Messages :
    LET onItsWay == m \in submitted \cup persisted \cup unheard IN
    /\ Row(m) = "sent" => m \in messages
    /\ Row(m) = "pending" => m \in ackTimers \cup orphaned
    /\ m \in messages /\ ~onItsWay => Row(m) \in {"sent", "none"}
    /\ Contains(Historical, m) /\ m \in LiveShown => onItsWay
    /\ m \in messages \ slipped /\ ReadPast(m) => Contains(Historical, m) \/ m \in LiveShown
    /\ Cardinality({k \in DOMAIN Historical : Historical[k] = m}) <= 1

\* A ready player plays the room's video, unless the room moved on before it was
\* ready.  With a clock that is right to the second, after so many undisturbed
\* seconds the player is within one second of the room, give or take the error of
\* the clock; and a disturbance costs one seek, and another one only for a seek
\* that buffered for more than two seconds: a seek-buffer-seek loop ends as soon as
\* one does not (use-drift-correction.ts:8-12 and 49-54, room-view.tsx:166-168).
PlayerFollowsRoom ==
  /\ player = "ready" /\ ~swallowed => video = item
  /\ Abs(skew) <= Second =>
       /\ calm > 2 * Second => Abs(position - elapsed) <= IgnoreUnder + Abs(skew)
       /\ seeks <= 1 + slow

\* When nobody is on the way in, the page lists exactly the users with a session
\* in the room, unless a goodbye named a user with another tab there, or news came
\* between the reading of the list and its arrival; and when the windows are over
\* the lobby shows their number, unless counts crossed or failed (setup.ts:109-137
\* and 193-201, use-room-chat.ts:90-98).
AudienceIsTold ==
  (\A t \in Tabs : tab[t] # "added") =>
    /\ entering = "done" /\ "page" \notin crossed => present = Users(InRoom)
    /\ (\A g \in Instances : lobbyCooldown[g] = "none") /\ "lobby" \notin crossed =>
         viewers = Cardinality(Users(InRoom))
===============================================================================
