------------------------------- MODULE RoomPage -------------------------------
(* What a room page shows of the room's timeline: it reads a snapshot once and *)
(* then follows broadcasts, which the gateway takes from two queues and whose  *)
(* handlers overlap, so that they may overtake one another.                    *)
EXTENDS RoomTimeline, PageSocket, FiniteSets, SequencesExt

CONSTANT MaxReads     \* bound: snapshots read

VARIABLES
  tuple,      \* the hot playback state in Redis, written after the commit
  events,     \* published, not broadcast yet: [n, kind, shows]
  published,  \* events so far
  sent,       \* auxiliary: the newest event of each kind that was broadcast
  page,       \* playback and queue of useRoomSync
  reply,      \* the GET under way: what it has read
  reads,
  behind,     \* auxiliary: what a known gap keeps the page from showing
  overtaken   \* auxiliary: what was broadcast after the GET under way had read it

roomPageVars == <<timelineVars, socketVars, tuple, events, published, sent, page,
                  reply, reads, behind, overtaken>>

Kinds   == {"playback", "queue"}
Nothing == {}
NoReply == [k \in {} |-> Nothing]

\* The waiting items, by position.
Pending(items, position) ==
  CHOOSE queue \in SetToSeqs(items) :
    \A i, j \in DOMAIN queue : i < j => position[queue[i]] < position[queue[j]]

RoomPageInit ==
  /\ Init /\ SocketInit
  /\ tuple = Nothing /\ events = {} /\ published = 0 /\ reads = 0
  /\ sent = [k \in Kinds |-> 0]
  /\ page = [k \in Kinds |-> IF k = "playback" THEN Nothing ELSE <<>>]
  /\ reply = NoReply /\ behind = {} /\ overtaken = {}

pageSide == <<socketVars, sent, page, reply, reads, behind, overtaken>>

-------------------------------------------------------------------------------
(* The playback service *)

QueueUpdated(n)    == [n |-> n, kind |-> "queue", shows |-> Pending(waiting', ticket')]
VideoStarted(n, i) == [n |-> n, kind |-> "playback", shows |-> {i}]

Publish(some) ==
  /\ events' = events \cup some
  /\ published' = published + Cardinality(some)

AddVideo(i) ==
  /\ ticket' = [ticket EXCEPT ![i] = published + 1]
  /\ Enqueue(i)
  /\ Publish({QueueUpdated(published + 1)})
  /\ UNCHANGED <<tuple, pageSide>>

RemoveItem(i) ==
  /\ Withdraw(i)
  /\ Publish({QueueUpdated(published + 1)})
  /\ UNCHANGED <<tuple, pageSide>>

\* The transaction; then the tuple.
StartNext(i) ==
  /\ tuple = Nothing /\ GoOnAir(i)
  /\ Publish({VideoStarted(published + 1, i), QueueUpdated(published + 2)})
  /\ UNCHANGED <<tuple, pageSide>>

\* No page is told that a video has left the air.
FinishCurrent(i) ==
  /\ tuple = onAir /\ LeaveAir(i)
  /\ UNCHANGED <<tuple, events, published, pageSide>>

SetTuple ==
  /\ tuple # onAir /\ tuple' = onAir
  /\ UNCHANGED <<timelineVars, events, published, pageSide>>

-------------------------------------------------------------------------------
(* The page *)

serverSide == <<timelineVars, tuple, published>>

\* Mutant of TakeSnapshot: seeds an empty page only.
SeedOnce ==
  /\ DOMAIN reply = Kinds
  /\ page' = IF page.playback = Nothing THEN reply ELSE page
  /\ reply' = NoReply /\ behind' = overtaken /\ overtaken' = {}
  /\ UNCHANGED <<serverSide, events, socketVars, sent, reads>>

\* GetRoomState: the tuple, and the waiting items by position.
Answer(k) == IF k = "playback" THEN tuple ELSE Pending(waiting, ticket)

\* GET /rooms/:id: the parts of the answer are read side by side.
Read(k) ==
  /\ k \notin DOMAIN reply
  /\ reply = NoReply => reads < MaxReads
  /\ reads' = IF reply = NoReply THEN reads + 1 ELSE reads
  /\ reply' = [j \in DOMAIN reply \cup {k} |-> IF j = k THEN Answer(k) ELSE reply[j]]
  \* between the commit and the tuple the answer is already old
  /\ overtaken' = IF k = "playback" /\ tuple # onAir THEN overtaken \cup {k} ELSE overtaken
  /\ UNCHANGED <<serverSide, events, socketVars, sent, page, behind>>

\* A new detail object: the effect overwrites what the page shows.
TakeSnapshot ==
  /\ DOMAIN reply = Kinds
  /\ page' = reply
  /\ reply' = NoReply /\ behind' = overtaken /\ overtaken' = {}
  /\ UNCHANGED <<serverSide, events, socketVars, sent, reads>>

ReadFails ==
  /\ reply # NoReply /\ reply' = NoReply /\ overtaken' = {}
  /\ UNCHANGED <<serverSide, events, socketVars, sent, page, reads, behind>>

\* One handler of the gateway; the page overwrites what it shows of that kind.
\* A fresh broadcast that it misses leaves it behind, and so does a late one that
\* it gets.
RoomBroadcast(e) ==
  LET late == e.n < sent[e.kind] IN
  /\ e \in events /\ events' = events \ {e}
  /\ sent' = [sent EXCEPT ![e.kind] = IF late THEN @ ELSE e.n]
  /\ page' = IF Receiving THEN [page EXCEPT ![e.kind] = e.shows] ELSE page
  /\ behind' = IF Receiving = late THEN behind \cup {e.kind}
               ELSE IF Receiving THEN behind \ {e.kind} ELSE behind
  /\ overtaken' = IF e.kind \in DOMAIN reply THEN overtaken \cup {e.kind} ELSE overtaken
  /\ UNCHANGED <<serverSide, socketVars, reply, reads>>

RoomFollows ==
  /\ SignIn \/ Connect \/ JoinRoom \/ JoinRefused \/ Drop \/ Replace
  /\ UNCHANGED <<serverSide, events, sent, page, reply, reads, behind, overtaken>>

RoomPageNext ==
  \/ \E i \in Items : AddVideo(i) \/ RemoveItem(i) \/ StartNext(i) \/ FinishCurrent(i)
  \/ SetTuple
  \/ \E k \in Kinds : Read(k)
  \/ TakeSnapshot \/ ReadFails
  \/ \E e \in events : RoomBroadcast(e)
  \/ RoomFollows

RoomPageSpec == RoomPageInit /\ [][RoomPageNext]_roomPageVars
===============================================================================
