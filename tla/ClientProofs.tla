------------------------------ MODULE ClientProofs -----------------------------
(***************************************************************************)
(* Theorems about what a room page shows and does: for any number of items,*)
(* votes, messages, videos, tabs and gateways, and whatever is lost, late  *)
(* or out of order on the way.  Each part of the page has an invariant     *)
(* that says what the page will come to show once all is told.             *)
(***************************************************************************)
EXTENDS ClientProperties, FiniteSetTheorems, SequenceTheorems, TLAPS

-------------------------------------------------------------------------------
(* The room's timeline *)

Queues    == {Pending(w, p) : w \in SUBSET Items, p \in [Items -> Nat]}
Contents  == (SUBSET Items) \cup Queues
RoomEvent == [n : Nat, kind : Kinds, shows : Contents]

\* What a page should show of a kind, if that is promised by now.
Shown(k) == IF k = "playback" THEN onAir ELSE Pending(waiting, ticket)
Due(k)   == k = "playback" => onAir # {}

\* Of this kind something is still to be broadcast that is newer than all that was.
Fresh(k) == {e \in events : e.kind = k /\ e.n > sent[k]}

RoomTypes ==
  /\ waiting \subseteq Items /\ onAir \subseteq Items /\ past \subseteq Items
  /\ ticket \in [Items -> Nat]
  /\ onAir = {} \/ \E i \in Items : onAir = {i}
  /\ events \subseteq RoomEvent /\ published \in Nat /\ sent \in [Kinds -> Nat]
  /\ page \in [Kinds -> Contents]
  /\ DOMAIN reply \subseteq Kinds /\ reply \in [DOMAIN reply -> Contents]

EventsInv ==
  /\ \A k \in Kinds : sent[k] <= published
  /\ \A e \in events : e.n <= published /\ e.n # sent[e.kind]
  /\ \A d, e \in events : d.n = e.n => d = e

\* No video is told of, answered or shown that has not been on the air.
AiredInv ==
  /\ tuple \subseteq onAir \cup past /\ page["playback"] \subseteq onAir \cup past
  /\ \A e \in events : e.kind = "playback" => e.shows \subseteq onAir \cup past
  /\ "playback" \in DOMAIN reply => reply["playback"] \subseteq onAir \cup past

\* The newest event that is still to be broadcast tells how things are.
NewestInv ==
  \A e \in events :
    Due(e.kind) /\ e.n > sent[e.kind] /\ (\A d \in Fresh(e.kind) : d.n <= e.n) =>
      e.shows = Shown(e.kind)

\* When nothing newer is to come, the page is right, or it is known why not; and
\* so is what the snapshot under way has read.
CurrentInv ==
  /\ \A k \in Kinds : Due(k) /\ Fresh(k) = {} /\ k \notin behind => page[k] = Shown(k)
  /\ \A k \in DOMAIN reply : Due(k) /\ Fresh(k) = {} /\ k \notin overtaken => reply[k] = Shown(k)

RoomInv == RoomTypes /\ EventsInv /\ AiredInv /\ NewestInv /\ CurrentInv

\* Nothing waits: an empty list.
LEMMA NothingPending == \A p : Pending({}, p) = <<>>
<1>1. Cardinality({}) = 0
  BY FS_EmptySet
<1>2. SetToSeqs({}) = {<<>>}
  <2>1. <<>> \in Seq({}) /\ Len(<<>>) = 0 /\ DOMAIN <<>> = {} /\ 1 .. 0 = {}
    OBVIOUS
  <2>2. <<>> \in [1 .. 0 -> {}]
    BY <2>1
  <2>3. ASSUME NEW f \in [1 .. 0 -> {}] PROVE f = <<>>
    <3>1. f \in Seq({})
      BY SeqDef
    <3>2. Len(f) = 0
      BY <3>1, LenProperties
    <3> QED BY <2>1, <3>1, <3>2, SeqEqual
  <2>4. \A f \in SetToSeqs({}) : f = <<>>
    BY <1>1, <2>3 DEF SetToSeqs
  <2>5. <<>> \in SetToSeqs({})
    BY <1>1, <2>1, <2>2 DEF SetToSeqs
  <2> QED BY <2>4, <2>5
<1> QED BY <1>2 DEF Pending

\* What the types say of the events and their numbers.
LEMMA RoomIs ==
  ASSUME RoomTypes, EventsInv
  PROVE  /\ published \in Nat /\ \A k \in Kinds : sent[k] \in Nat /\ sent[k] <= published
         /\ \A e \in events : e.n \in Nat /\ e.kind \in Kinds /\ e.n <= published
                              /\ e.n # sent[e.kind] /\ e.shows \in Contents
         /\ "playback" \in Kinds /\ "queue" \in Kinds
<1>1. \A e \in RoomEvent : e.n \in Nat /\ e.kind \in Kinds /\ e.shows \in Contents
  BY DEF RoomEvent
<1> QED BY <1>1 DEF RoomTypes, EventsInv, Kinds

\* The playback service publishes what has changed, and nothing is lost on the page.
LEMMA ServerKept ==
  ASSUME RoomInv, NEW some \in SUBSET RoomEvent,
         events' = events \cup some, published' \in Nat, published' >= published,
         UNCHANGED <<sent, page, reply, behind, overtaken>>,
         waiting' \subseteq Items, onAir' \subseteq Items, past' \subseteq Items,
         ticket' \in [Items -> Nat], onAir' = {} \/ \E i \in Items : onAir' = {i},
         onAir \cup past \subseteq onAir' \cup past', tuple' \subseteq onAir' \cup past',
         \A e \in some : published < e.n /\ e.n <= published',
         \A d, e \in some : d.n = e.n \/ d.kind = e.kind => d = e,
         \A e \in some : e.kind = "playback" => e.shows \subseteq onAir' \cup past',
         \A e \in some : Due(e.kind)' => e.shows = Shown(e.kind)',
         \A k \in Kinds : \/ \E e \in some : e.kind = k
                          \/ Due(k)' => Due(k) /\ Shown(k)' = Shown(k)
  PROVE  RoomInv'
<1>1. /\ RoomTypes /\ EventsInv /\ published \in Nat
      /\ \A k \in Kinds : sent[k] \in Nat /\ sent[k] <= published
      /\ \A e \in events : e.n \in Nat /\ e.kind \in Kinds /\ e.n <= published
                           /\ e.n # sent[e.kind] /\ e.shows \in Contents
      /\ "playback" \in Kinds /\ "queue" \in Kinds
  BY RoomIs DEF RoomInv
<1>2. \A e \in some : e.n \in Nat /\ e.kind \in Kinds /\ e.n > sent[e.kind]
  <2>1. \A e \in some : e.n \in Nat /\ e.kind \in Kinds
    BY DEF RoomEvent
  <2> QED BY <1>1, <2>1
<1>3. RoomTypes'
  BY <1>1 DEF RoomTypes
<1>4. EventsInv'
  <2>1. \A k \in Kinds : sent[k] <= published'
    BY <1>1
  <2>2. \A e \in events' : e.n <= published' /\ e.n # sent[e.kind]
    BY <1>1, <1>2
  <2>3. \A d, e \in events' : d.n = e.n => d = e
    BY <1>1, <1>2 DEF EventsInv
  <2> QED BY <2>1, <2>2, <2>3 DEF EventsInv
<1>5. AiredInv'
  BY DEF RoomInv, AiredInv
<1>6. \A k \in Kinds : Fresh(k)' = {e \in events \cup some : e.kind = k /\ e.n > sent[k]}
  BY DEF Fresh
<1>7. ASSUME NEW e \in events', Due(e.kind)', e.n > sent[e.kind],
             \A d \in Fresh(e.kind)' : d.n <= e.n
      PROVE  e.shows = Shown(e.kind)'
  <2>1. CASE e \in some
    BY <1>7, <2>1
  <2>2. CASE e \in events
    <3>1. e.kind \in Kinds
      BY <1>1, <2>2
    <3>2. ~\E d \in some : d.kind = e.kind
      <4> SUFFICES ASSUME NEW d \in some, d.kind = e.kind PROVE FALSE
        OBVIOUS
      <4>1. d \in Fresh(e.kind)'
        BY <1>2, <1>6, <3>1
      <4> QED BY <1>1, <1>2, <1>7, <2>2, <4>1
    <3>3. Due(e.kind) /\ Shown(e.kind)' = Shown(e.kind)
      BY <1>7, <3>1, <3>2
    <3>4. \A d \in Fresh(e.kind) : d.n <= e.n
      BY <1>6, <1>7, <3>1 DEF Fresh
    <3> QED BY <1>7, <2>2, <3>3, <3>4 DEF RoomInv, NewestInv
  <2> QED BY <2>1, <2>2
<1>8. NewestInv'
  BY <1>7 DEF NewestInv
<1>9. ASSUME NEW k \in Kinds, Due(k)', Fresh(k)' = {}
      PROVE  Due(k) /\ Shown(k)' = Shown(k) /\ Fresh(k) = {}
  <2>1. ~\E e \in some : e.kind = k
    BY <1>2, <1>6, <1>9
  <2>2. Fresh(k) = {}
    BY <1>6, <1>9 DEF Fresh
  <2> QED BY <1>9, <2>1, <2>2
<1>10. CurrentInv'
  <2>1. DOMAIN reply \subseteq Kinds
    BY <1>1 DEF RoomTypes
  <2>2. \A k \in Kinds : Due(k)' /\ Fresh(k)' = {} /\ k \notin behind => page[k] = Shown(k)'
    BY <1>9 DEF RoomInv, CurrentInv
  <2>3. \A k \in DOMAIN reply : Due(k)' /\ Fresh(k)' = {} /\ k \notin overtaken => reply[k] = Shown(k)'
    BY <1>9, <2>1 DEF RoomInv, CurrentInv
  <2> QED BY <2>2, <2>3 DEF CurrentInv
<1> QED BY <1>3, <1>4, <1>5, <1>8, <1>10 DEF RoomInv

\* What is published of the queue, and of a start.
LEMMA EventsAre ==
  ASSUME NEW n \in Nat, NEW k \in Kinds, NEW c \in Contents
  PROVE  \E e \in RoomEvent : e = [n |-> n, kind |-> k, shows |-> c] /\ e.n = n /\ e.kind = k /\ e.shows = c
<1> DEFINE e == [n |-> n, kind |-> k, shows |-> c]
<1>1. e \in RoomEvent
  BY Zenon DEF RoomEvent
<1>2. e.n = n /\ e.kind = k /\ e.shows = c
  OBVIOUS
<1> QED BY <1>1, <1>2, Zenon

\* What changes the queue is published with the queue as it is then.
LEMMA QueueKept ==
  ASSUME RoomInv, NEW i \in Items, AddVideo(i) \/ RemoveItem(i) PROVE RoomInv'
<1>1. /\ RoomTypes /\ EventsInv /\ published \in Nat /\ "playback" \in Kinds /\ "queue" \in Kinds
  BY RoomIs DEF RoomInv
<1>2. /\ waiting' \subseteq Items /\ ticket' \in [Items -> Nat] /\ onAir' = onAir
      /\ past' \subseteq Items /\ past \subseteq past'
  <2>1. CASE AddVideo(i)
    <3>1. published + 1 \in Nat
      BY <1>1
    <3> QED BY <1>1, <2>1, <3>1 DEF AddVideo, Enqueue, RoomTypes
  <2>2. CASE RemoveItem(i)
    BY <1>1, <2>2 DEF RemoveItem, Withdraw, RoomTypes
  <2> QED BY <2>1, <2>2
<1>3. UNCHANGED <<tuple, sent, page, reply, behind, overtaken>>
  BY DEF AddVideo, RemoveItem, pageSide
<1>4. Publish({QueueUpdated(published + 1)})
  BY DEF AddVideo, RemoveItem
<1>5. Pending(waiting', ticket') \in Contents
  <2>1. Pending(waiting', ticket') \in Queues
    BY <1>2 DEF Queues
  <2> QED BY <2>1 DEF Contents
<1>6. PICK E \in RoomEvent :
        /\ E = [n |-> published + 1, kind |-> "queue", shows |-> Pending(waiting', ticket')]
        /\ E.n = published + 1 /\ E.kind = "queue" /\ E.shows = Pending(waiting', ticket')
  BY <1>1, <1>5, EventsAre
<1>7. events' = events \cup {E} /\ published' = published + 1
  <2>1. QueueUpdated(published + 1) = E
    BY <1>6 DEF QueueUpdated
  <2>2. Cardinality({E}) = 1
    BY FS_Singleton
  <2> QED BY <1>4, <2>1, <2>2 DEF Publish
<1>8. \A k \in Kinds : \/ k = "queue"
                       \/ Due(k)' => Due(k) /\ Shown(k)' = Shown(k)
  BY <1>2 DEF Due, Shown, Kinds
<1>9. \A e \in {E} : /\ published < e.n /\ e.n <= published'
                     /\ e.kind # "playback" /\ e.shows = Shown(e.kind)'
  BY <1>1, <1>6, <1>7 DEF Shown
<1>10. published' \in Nat /\ published' >= published
  BY <1>1, <1>7
<1>11. /\ onAir \cup past \subseteq onAir' \cup past' /\ tuple' \subseteq onAir' \cup past'
       /\ onAir' \subseteq Items /\ (onAir' = {} \/ \E j \in Items : onAir' = {j})
  BY <1>1, <1>2, <1>3 DEF RoomInv, RoomTypes, AiredInv
<1>12. \A k \in Kinds : \/ \E e \in {E} : e.kind = k
                        \/ Due(k)' => Due(k) /\ Shown(k)' = Shown(k)
  BY <1>6, <1>8
<1>13. {E} \in SUBSET RoomEvent /\ \A d, e \in {E} : d = e
  BY <1>6
<1> QED BY <1>2, <1>3, <1>7, <1>9, <1>10, <1>11, <1>12, <1>13, ServerKept

\* A start is published before the queue that it leaves.
LEMMA StartKept == ASSUME RoomInv, NEW i \in Items, StartNext(i) PROVE RoomInv'
<1>1. /\ RoomTypes /\ EventsInv /\ published \in Nat /\ "playback" \in Kinds /\ "queue" \in Kinds
  BY RoomIs DEF RoomInv
<1>2. /\ waiting' \subseteq Items /\ ticket' = ticket /\ ticket \in [Items -> Nat]
      /\ onAir = {} /\ onAir' = {i} /\ past' = past /\ past \subseteq Items
      /\ UNCHANGED <<tuple, sent, page, reply, behind, overtaken>>
  BY <1>1 DEF StartNext, GoOnAir, RoomTypes, pageSide
<1>3. Publish({VideoStarted(published + 1, i), QueueUpdated(published + 2)})
  BY DEF StartNext
<1>4. PICK V \in RoomEvent :
        /\ V = [n |-> published + 1, kind |-> "playback", shows |-> {i}]
        /\ V.n = published + 1 /\ V.kind = "playback" /\ V.shows = {i}
  <2>1. {i} \in Contents
    BY DEF Contents
  <2> QED BY <1>1, <2>1, EventsAre
<1>5. PICK E \in RoomEvent :
        /\ E = [n |-> published + 2, kind |-> "queue", shows |-> Pending(waiting', ticket')]
        /\ E.n = published + 2 /\ E.kind = "queue" /\ E.shows = Pending(waiting', ticket')
  <2>1. Pending(waiting', ticket') \in Queues
    BY <1>2 DEF Queues
  <2>2. Pending(waiting', ticket') \in Contents
    BY <2>1 DEF Contents
  <2> QED BY <1>1, <2>2, EventsAre
<1>6. events' = events \cup {V, E} /\ published' = published + 2
  <2>1. VideoStarted(published + 1, i) = V /\ QueueUpdated(published + 2) = E
    BY <1>4, <1>5 DEF VideoStarted, QueueUpdated
  <2>2. V # E
    BY <1>4, <1>5
  <2>3. Cardinality({V, E}) = 2
    <3>1. IsFiniteSet({V}) /\ Cardinality({V}) = 1 /\ E \notin {V} /\ {V, E} = {V} \cup {E}
      BY <2>2, FS_Singleton
    <3> QED BY <3>1, FS_AddElement
  <2> QED BY <1>3, <2>1, <2>3 DEF Publish
<1>7. /\ \A e \in {V, E} : published < e.n /\ e.n <= published'
      /\ \A d, e \in {V, E} : d.n = e.n \/ d.kind = e.kind => d = e
      /\ {V, E} \in SUBSET RoomEvent
      /\ published' \in Nat /\ published' >= published
  BY <1>1, <1>4, <1>5, <1>6
<1>8. \A e \in {V, E} : e.kind = "playback" => e.shows \subseteq onAir' \cup past'
  BY <1>2, <1>4, <1>5
<1>9. \A e \in {V, E} : e.shows = Shown(e.kind)'
  BY <1>2, <1>4, <1>5 DEF Shown
<1>10. \A k \in Kinds : \E e \in {V, E} : e.kind = k
  BY <1>4, <1>5 DEF Kinds
<1>11. onAir \cup past \subseteq onAir' \cup past' /\ tuple' \subseteq onAir' \cup past'
  BY <1>2 DEF RoomInv, AiredInv
<1>12. onAir' \subseteq Items /\ \E j \in Items : onAir' = {j}
  BY <1>2
<1> QED BY <1>2, <1>6, <1>7, <1>8, <1>9, <1>10, <1>11, <1>12, ServerKept

\* A video ends, the tuple follows, or the socket changes: nothing is published.
LEMMA StillKept ==
  ASSUME RoomInv,
         \/ \E i \in Items : FinishCurrent(i)
         \/ SetTuple \/ RoomFollows \/ UNCHANGED roomPageVars
  PROVE  RoomInv'
<1>1. RoomTypes /\ EventsInv /\ published \in Nat
  BY RoomIs DEF RoomInv
<1>2. /\ UNCHANGED <<waiting, ticket, events, published, sent, page, reply, behind, overtaken>>
      /\ onAir' = onAir \/ onAir' = {}
  BY <1>1 DEF FinishCurrent, LeaveAir, SetTuple, RoomFollows, roomPageVars, timelineVars, pageSide,
              serverSide, RoomTypes
<1>3. /\ onAir' \subseteq Items /\ past' \subseteq Items /\ onAir \cup past \subseteq onAir' \cup past'
      /\ tuple' \subseteq onAir' \cup past'
  <2>1. CASE \E i \in Items : FinishCurrent(i)
    BY <1>1, <2>1 DEF FinishCurrent, LeaveAir, RoomInv, RoomTypes, AiredInv
  <2>2. CASE SetTuple \/ RoomFollows \/ UNCHANGED roomPageVars
    BY <1>1, <2>2 DEF SetTuple, RoomFollows, roomPageVars, timelineVars, serverSide, RoomInv,
                      RoomTypes, AiredInv
  <2> QED BY <2>1, <2>2
<1>4. \A k \in Kinds : Due(k)' => Due(k) /\ Shown(k)' = Shown(k)
  BY <1>2 DEF Due, Shown, Kinds
<1>5. /\ {} \in SUBSET RoomEvent /\ events' = events \cup {} /\ published' >= published
      /\ onAir' = {} \/ \E i \in Items : onAir' = {i}
      /\ waiting' \subseteq Items /\ ticket' \in [Items -> Nat] /\ published' \in Nat
  BY <1>1, <1>2 DEF RoomTypes
<1> QED BY <1>2, <1>3, <1>4, <1>5, ServerKept

\* A broadcast is heard or missed, in its turn or late.
LEMMA RoomHeard == ASSUME RoomInv, NEW e \in events, RoomBroadcast(e) PROVE RoomInv'
<1>1. /\ RoomTypes /\ EventsInv /\ published \in Nat
      /\ \A k \in Kinds : sent[k] \in Nat /\ sent[k] <= published
      /\ \A d \in events : d.n \in Nat /\ d.kind \in Kinds /\ d.n <= published
                           /\ d.n # sent[d.kind] /\ d.shows \in Contents
      /\ "playback" \in Kinds /\ "queue" \in Kinds
      /\ sent \in [Kinds -> Nat] /\ page \in [Kinds -> Contents] /\ DOMAIN reply \subseteq Kinds
  BY RoomIs DEF RoomInv, RoomTypes
<1>2. /\ events' = events \ {e}
      /\ sent' = [sent EXCEPT ![e.kind] = IF e.n < sent[e.kind] THEN sent[e.kind] ELSE e.n]
      /\ page' = IF Receiving THEN [page EXCEPT ![e.kind] = e.shows] ELSE page
      /\ UNCHANGED <<waiting, ticket, onAir, past, tuple, published, reply>>
  BY DEF RoomBroadcast, serverSide, timelineVars
<1>3. /\ e.kind \notin behind' =>
           IF e.n < sent[e.kind] THEN ~Receiving /\ e.kind \notin behind ELSE Receiving
      /\ \A k \in Kinds : k # e.kind /\ k \notin behind' => k \notin behind
  <2>1. behind' = IF Receiving = (e.n < sent[e.kind]) THEN behind \cup {e.kind}
                  ELSE IF Receiving THEN behind \ {e.kind} ELSE behind
    BY DEF RoomBroadcast
  <2>2. CASE (Receiving /\ e.n < sent[e.kind]) \/ (~Receiving /\ ~(e.n < sent[e.kind]))
    <3>1. Receiving = (e.n < sent[e.kind])
      BY <2>2 DEF Receiving
    <3>2. behind' = behind \cup {e.kind}
      BY <2>1, <3>1
    <3> QED BY <3>2
  <2>3. CASE Receiving /\ ~(e.n < sent[e.kind])
    <3>1. Receiving # (e.n < sent[e.kind])
      BY <2>3 DEF Receiving
    <3>2. behind' = behind \ {e.kind}
      BY <2>1, <2>3, <3>1
    <3> QED BY <2>3, <3>2
  <2>4. CASE ~Receiving /\ e.n < sent[e.kind]
    <3>1. Receiving # (e.n < sent[e.kind])
      BY <2>4 DEF Receiving
    <3>2. behind' = behind
      BY <2>1, <2>4, <3>1
    <3> QED BY <2>4, <3>2
  <2> QED BY <2>2, <2>3, <2>4
<1>4. /\ e.kind \in DOMAIN reply => e.kind \in overtaken'
      /\ \A k \in Kinds : k \notin overtaken' => k \notin overtaken
  BY DEF RoomBroadcast
<1>5. /\ sent' \in [Kinds -> Nat] /\ \A k \in Kinds : k # e.kind => sent'[k] = sent[k]
      /\ sent'[e.kind] = IF e.n < sent[e.kind] THEN sent[e.kind] ELSE e.n
      /\ \A k \in Kinds : sent[k] <= sent'[k] /\ sent'[k] <= published
      /\ e.n <= sent'[e.kind]
  BY <1>1, <1>2
<1>6. /\ page' \in [Kinds -> Contents] /\ \A k \in Kinds : k # e.kind => page'[k] = page[k]
      /\ page'[e.kind] = IF Receiving THEN e.shows ELSE page[e.kind]
  BY <1>1, <1>2
<1>7. RoomTypes'
  BY <1>1, <1>2, <1>5, <1>6 DEF RoomTypes
<1>8. EventsInv'
  <2>1. \A d \in events' : d.n # sent'[d.kind]
    <3> SUFFICES ASSUME NEW d \in events', d.n = sent'[d.kind] PROVE FALSE
      OBVIOUS
    <3>1. d \in events /\ d # e /\ d.kind \in Kinds
      BY <1>1, <1>2
    <3>2. d.n # e.n
      BY <1>1, <3>1 DEF EventsInv
    <3> QED BY <1>1, <1>5, <3>1, <3>2
  <2> QED BY <1>1, <1>2, <1>5, <2>1 DEF EventsInv
<1>9. AiredInv'
  <2>1. page'["playback"] \subseteq onAir \cup past
    BY <1>1, <1>6 DEF RoomInv, AiredInv
  <2> QED BY <1>2, <2>1 DEF RoomInv, AiredInv
<1>10. \A k \in Kinds : /\ k # e.kind => Fresh(k)' = Fresh(k)
                        /\ Due(k)' = Due(k) /\ Shown(k)' = Shown(k)
  BY <1>1, <1>2, <1>5 DEF Fresh, Due, Shown
<1>11. \A d \in Fresh(e.kind) : d \in Fresh(e.kind)' \/ d.n <= sent'[e.kind]
  BY <1>1, <1>2, <1>5 DEF Fresh
<1>12. NewestInv'
  <2> SUFFICES ASSUME NEW d \in events', Due(d.kind)', d.n > sent'[d.kind],
                      \A c \in Fresh(d.kind)' : c.n <= d.n
               PROVE  d.shows = Shown(d.kind)'
    BY DEF NewestInv
  <2>1. d \in events /\ d.kind \in Kinds /\ d.n \in Nat
    BY <1>1, <1>2
  <2>2. d.n > sent[d.kind]
    BY <1>1, <1>5, <2>1
  <2>3. \A c \in Fresh(d.kind) : c.n <= d.n
    <3> SUFFICES ASSUME NEW c \in Fresh(d.kind) PROVE c.n <= d.n
      OBVIOUS
    <3>1. c.n \in Nat
      BY <1>1 DEF Fresh
    <3>2. c \in Fresh(d.kind)' \/ c.n <= sent'[d.kind]
      BY <1>10, <1>11, <2>1
    <3> QED BY <1>5, <2>1, <3>1, <3>2
  <2> QED BY <1>10, <2>1, <2>2, <2>3 DEF RoomInv, NewestInv
<1>13. ASSUME Due(e.kind), Fresh(e.kind)' = {}, e.kind \notin behind'
       PROVE  page'[e.kind] = Shown(e.kind)
  <2>1. CASE e.n < sent[e.kind]
    <3>1. sent'[e.kind] = sent[e.kind] /\ e \notin Fresh(e.kind)
      BY <1>1, <1>5, <2>1 DEF Fresh
    <3>2. Fresh(e.kind) = {}
      BY <1>2, <1>13, <3>1 DEF Fresh
    <3> QED BY <1>1, <1>3, <1>6, <1>13, <2>1, <3>2 DEF RoomInv, CurrentInv
  <2>2. CASE ~(e.n < sent[e.kind])
    <3>1. e.n > sent[e.kind] /\ sent'[e.kind] = e.n
      BY <1>1, <1>5, <2>2
    <3>2. \A d \in Fresh(e.kind) : d.n <= e.n
      BY <1>11, <1>13, <3>1
    <3>3. e.shows = Shown(e.kind)
      BY <1>13, <3>1, <3>2 DEF RoomInv, NewestInv
    <3> QED BY <1>3, <1>6, <1>13, <2>2, <3>3
  <2> QED BY <2>1, <2>2
<1>14. CurrentInv'
  <2>1. \A k \in Kinds : Due(k)' /\ Fresh(k)' = {} /\ k \notin behind' => page'[k] = Shown(k)'
    <3> SUFFICES ASSUME NEW k \in Kinds, Due(k), Fresh(k)' = {}, k \notin behind'
                 PROVE  page'[k] = Shown(k)
      BY <1>10
    <3>1. CASE k = e.kind
      BY <1>13, <3>1
    <3>2. CASE k # e.kind
      BY <1>3, <1>6, <1>10, <3>2 DEF RoomInv, CurrentInv
    <3> QED BY <3>1, <3>2
  <2>2. \A k \in DOMAIN reply : Due(k)' /\ Fresh(k)' = {} /\ k \notin overtaken' => reply[k] = Shown(k)'
    <3> SUFFICES ASSUME NEW k \in DOMAIN reply, Due(k), Fresh(k)' = {}, k \notin overtaken'
                 PROVE  reply[k] = Shown(k)
      BY <1>1, <1>10
    <3>1. k # e.kind /\ k \in Kinds /\ k \notin overtaken
      BY <1>1, <1>4
    <3> QED BY <1>10, <3>1 DEF RoomInv, CurrentInv
  <2> QED BY <1>2, <2>1, <2>2 DEF CurrentInv
<1> QED BY <1>7, <1>8, <1>9, <1>12, <1>14 DEF RoomInv

\* The snapshot is read part by part, and overwrites the page when it arrives.
LEMMA SnapshotKept ==
  ASSUME RoomInv, (\E k \in Kinds : Read(k)) \/ TakeSnapshot \/ ReadFails PROVE RoomInv'
<1>1. /\ RoomTypes /\ EventsInv /\ "playback" \in Kinds /\ "queue" \in Kinds
      /\ DOMAIN reply \subseteq Kinds /\ reply \in [DOMAIN reply -> Contents]
  BY RoomIs DEF RoomInv, RoomTypes
<1>2. UNCHANGED <<waiting, ticket, onAir, past, tuple, published, events, sent>>
  BY DEF Read, TakeSnapshot, ReadFails, serverSide, timelineVars
<1>3. EventsInv' /\ NewestInv'
  BY <1>2 DEF RoomInv, EventsInv, NewestInv, Due, Shown, Fresh
<1>4. \A k \in Kinds : Due(k)' = Due(k) /\ Shown(k)' = Shown(k) /\ Fresh(k)' = Fresh(k)
  BY <1>2 DEF Due, Shown, Fresh
<1>5. CASE \E k \in Kinds : Read(k)
  <2>1. PICK k \in Kinds : Read(k)
    BY <1>5
  <2>2. /\ reply' = [j \in DOMAIN reply \cup {k} |-> IF j = k THEN Answer(k) ELSE reply[j]]
        /\ overtaken' = IF k = "playback" /\ tuple # onAir THEN overtaken \cup {k} ELSE overtaken
        /\ UNCHANGED <<page, behind>>
    BY <2>1 DEF Read
  <2>3. /\ Answer(k) \in Contents
        /\ k = "playback" => Answer(k) = tuple
        /\ k # "playback" => Answer(k) = Shown(k)
    <3>1. Pending(waiting, ticket) \in Queues
      BY <1>1 DEF RoomTypes, Queues
    <3>2. tuple \in SUBSET Items
      BY <1>1 DEF RoomTypes, RoomInv, AiredInv
    <3> QED BY <3>1, <3>2 DEF Answer, Contents, Shown
  <2>4. /\ DOMAIN reply' = DOMAIN reply \cup {k} /\ reply'[k] = Answer(k)
        /\ \A j \in DOMAIN reply : j # k => reply'[j] = reply[j]
    BY <2>2
  <2>5. RoomTypes'
    <3>1. DOMAIN reply' \subseteq Kinds /\ reply' \in [DOMAIN reply' -> Contents]
      BY <1>1, <2>2, <2>3, <2>4
    <3> QED BY <1>1, <1>2, <2>2, <3>1 DEF RoomTypes
  <2>6. AiredInv'
    BY <1>2, <2>2, <2>3, <2>4 DEF RoomInv, AiredInv
  <2>7. \A j \in DOMAIN reply' : Due(j) /\ Fresh(j) = {} /\ j \notin overtaken' => reply'[j] = Shown(j)
    <3> SUFFICES ASSUME NEW j \in DOMAIN reply', Due(j), Fresh(j) = {}, j \notin overtaken'
                 PROVE  reply'[j] = Shown(j)
      OBVIOUS
    <3>1. CASE j = k
      BY <2>2, <2>3, <2>4, <3>1 DEF Shown
    <3>2. CASE j # k
      BY <2>2, <2>4, <3>2 DEF RoomInv, CurrentInv
    <3> QED BY <3>1, <3>2
  <2>8. CurrentInv'
    <3>1. \A j \in DOMAIN reply' : j \in Kinds
      BY <1>1, <2>4
    <3> QED BY <1>4, <2>2, <2>7, <3>1 DEF RoomInv, CurrentInv
  <2> QED BY <1>3, <2>5, <2>6, <2>8 DEF RoomInv
<1>6. CASE TakeSnapshot \/ ReadFails
  <2>1. /\ reply' = NoReply /\ DOMAIN reply' = {}
        /\ \/ page' = page /\ behind' = behind
           \/ page' = reply /\ behind' = overtaken /\ DOMAIN reply = Kinds
    BY <1>6 DEF TakeSnapshot, ReadFails, NoReply
  <2>2. RoomTypes'
    <3>1. reply' \in [DOMAIN reply' -> Contents]
      BY <2>1 DEF NoReply
    <3> QED BY <1>1, <1>2, <2>1, <3>1 DEF RoomTypes
  <2>3. AiredInv'
    BY <1>1, <1>2, <2>1 DEF RoomInv, AiredInv
  <2>4. CurrentInv'
    BY <1>4, <2>1 DEF RoomInv, CurrentInv
  <2> QED BY <1>3, <2>2, <2>3, <2>4 DEF RoomInv
<1> QED BY <1>5, <1>6

\* PageIsCurrent holds of a page that reads snapshots and follows broadcasts, for any
\* number of videos, reads and drops, and in whatever order the broadcasts come.
THEOREM PageCurrent == RoomPageSpec => []PageIsCurrent
<1>1. RoomPageInit => RoomInv
  <2> SUFFICES ASSUME RoomPageInit PROVE RoomInv
    OBVIOUS
  <2>1. /\ waiting = {} /\ ticket = [i \in Items |-> 0] /\ onAir = {} /\ past = {} /\ tuple = {}
        /\ events = {} /\ published = 0 /\ sent = [k \in Kinds |-> 0] /\ reply = NoReply
        /\ page = [k \in Kinds |-> IF k = "playback" THEN {} ELSE <<>>]
    BY DEF RoomPageInit, Init, Nothing
  <2>2. Pending({}, ticket) = <<>> /\ <<>> \in Contents /\ {} \in Contents
    <3>1. {} \in SUBSET Items /\ ticket \in [Items -> Nat]
      BY <2>1
    <3>2. Pending({}, ticket) \in Queues
      BY <3>1 DEF Queues
    <3> QED BY <3>1, <3>2, NothingPending DEF Contents
  <2>3. page["playback"] = {} /\ page["queue"] = <<>> /\ page \in [Kinds -> Contents]
    <3>1. "playback" \in Kinds /\ "queue" \in Kinds
      BY DEF Kinds
    <3> QED BY <2>1, <2>2, <3>1
  <2>4. DOMAIN reply = {} /\ reply \in [{} -> Contents]
    BY <2>1 DEF NoReply
  <2>5. RoomTypes
    BY <2>1, <2>3, <2>4 DEF RoomTypes, RoomEvent
  <2>6. EventsInv /\ AiredInv /\ NewestInv
    BY <2>1, <2>3, <2>4 DEF EventsInv, AiredInv, NewestInv
  <2>7. CurrentInv
    BY <2>1, <2>2, <2>3, <2>4 DEF CurrentInv, Kinds, Shown, Due
  <2> QED BY <2>5, <2>6, <2>7 DEF RoomInv
<1>2. RoomInv /\ [RoomPageNext]_roomPageVars => RoomInv'
  <2> SUFFICES ASSUME RoomInv, [RoomPageNext]_roomPageVars PROVE RoomInv'
    OBVIOUS
  <2>1. ASSUME NEW i \in Items, AddVideo(i) \/ RemoveItem(i) PROVE RoomInv'
    BY <2>1, QueueKept
  <2>2. ASSUME NEW i \in Items, StartNext(i) PROVE RoomInv'
    BY <2>2, StartKept
  <2>3. CASE (\E i \in Items : FinishCurrent(i)) \/ SetTuple \/ RoomFollows \/ UNCHANGED roomPageVars
    BY <2>3, StillKept
  <2>4. CASE (\E k \in Kinds : Read(k)) \/ TakeSnapshot \/ ReadFails
    BY <2>4, SnapshotKept
  <2>5. CASE \E e \in events : RoomBroadcast(e)
    BY <2>5, RoomHeard
  <2> QED BY <2>1, <2>2, <2>3, <2>4, <2>5 DEF RoomPageNext
<1>3. RoomInv => PageIsCurrent
  <2> SUFFICES ASSUME RoomInv PROVE PageIsCurrent
    OBVIOUS
  <2>1. page.playback = page["playback"] /\ page.queue = page["queue"]
    OBVIOUS
  <2>2. events = {} => Fresh("queue") = {} /\ Fresh("playback") = {}
    BY DEF Fresh
  <2>3. /\ Due("queue") /\ Shown("queue") = Pending(waiting, ticket)
        /\ (onAir # {} => Due("playback")) /\ Shown("playback") = onAir
    BY DEF Due, Shown
  <2>4. "queue" \in Kinds /\ "playback" \in Kinds
    BY DEF Kinds
  <2> QED BY <2>1, <2>2, <2>3, <2>4 DEF RoomInv, AiredInv, CurrentInv, PageIsCurrent
<1> QED BY <1>1, <1>2, <1>3, PTL DEF RoomPageSpec

-------------------------------------------------------------------------------
(* Votes *)

Voters   == {Me} \cup Others
Results  == {"open", "passed", "failed"}
Vote     == [result : Results, yes : SUBSET Voters]
Tallies  == {Cardinality(S) : S \in SUBSET Voters} \cup {0, 1}
VoteNews == [n : Nat, kind : {"started", "progress", "finished"}, vote : Nat \ {0},
             yes : Tallies, result : Results]

\* News of the start or the end of a vote.
Turns == {e \in news : e.kind # "progress"}

VoteTypes ==
  /\ votes \in Seq(Vote) /\ news \subseteq VoteNews /\ told \in Nat /\ aired \in Nat
  /\ overlay \in [vote : Nat, yes : Tallies]
  /\ overlay = NoOverlay \/ overlay.vote \in DOMAIN votes
  /\ starting \in [at : {"none", "asked", "ok", "VOTE_COOLDOWN", "refused"}, n : Nat, vote : Nat]
  /\ hasVoted \in BOOLEAN /\ misled \subseteq {"vote", "count"} /\ casting \in Nat
  /\ starting.at = "ok" => starting.vote \in DOMAIN votes

\* Votes take turns, and their news is numbered.
TurnsInv ==
  /\ Open \subseteq {Len(votes)}
  /\ aired <= told /\ starting.n <= told
  /\ \A e \in news : e.n <= told /\ e.n # aired /\ e.vote \in DOMAIN votes
  /\ \A d, e \in news : d.n = e.n => d = e

\* The newest turn that is not broadcast yet says how votes stand.
NewestTurnInv ==
  \A e \in Turns :
    e.n > aired /\ (\A d \in Turns : d.n <= e.n) =>
      IF e.kind = "started" THEN Open = {e.vote}
      ELSE Open = {} /\ votes[Len(votes)].result = e.result

\* And the newest news how many said yes.
NewestCountInv ==
  \A e \in news :
    e.n > aired /\ (\A d \in news : d.n <= e.n) =>
      e.vote = Len(votes) /\ e.yes = Cardinality(votes[e.vote].yes)

\* When there is nothing to be told, the overlay and the banner are right.
ShownInv ==
  /\ Turns = {} /\ "vote" \notin misled =>
       /\ {overlay.vote} \ {0} = Open
       /\ banner # "none" => Open = {} /\ banner = votes[Len(votes)].result
  /\ news = {} /\ misled = {} /\ overlay # NoOverlay =>
       overlay.yes = Cardinality(votes[overlay.vote].yes)

\* The answer to vote:start is right as long as nothing newer was published.
AnswerInv ==
  starting.at = "ok" =>
    /\ Me \in votes[starting.vote].yes
    /\ aired <= starting.n /\ (\A e \in Turns : e.n <= starting.n) => Open = {starting.vote}
    /\ aired <= starting.n /\ (\A e \in news : e.n <= starting.n) =>
         votes[starting.vote].yes = {Me}

\* Who is shown as having voted has voted, is voting, or lost the ballot last cast.
CastInv ==
  hasVoted /\ overlay.vote \notin {0, casting} /\ (casting # 0 \/ overlay.vote # lostCast) =>
    Me \in votes[overlay.vote].yes

OverlayInv ==
  /\ VoteTypes /\ TurnsInv /\ NewestTurnInv /\ NewestCountInv
  /\ ShownInv /\ AnswerInv /\ CastInv

\* What the types say of the votes.
LEMMA VotesAre ==
  ASSUME VoteTypes
  PROVE  /\ Len(votes) \in Nat /\ DOMAIN votes = 1 .. Len(votes) /\ 0 \notin DOMAIN votes
         /\ \A v \in DOMAIN votes : votes[v] \in Vote
         /\ \A v \in DOMAIN votes : votes[v].result \in Results /\ votes[v].yes \in SUBSET Voters
<1>1. votes \in Seq(Vote)
  BY DEF VoteTypes
<1>2. Len(votes) \in Nat /\ DOMAIN votes = 1 .. Len(votes) /\ \A v \in DOMAIN votes : votes[v] \in Vote
  BY <1>1
<1>3. \A r \in Vote : r.result \in Results /\ r.yes \in SUBSET Voters
  BY DEF Vote
<1> QED BY <1>2, <1>3

\* News is a record; so is what the overlay shows and what was asked.
LEMMA NewsIs ==
  ASSUME NEW n \in Nat, NEW kind \in {"started", "progress", "finished"}, NEW v \in Nat \ {0},
         NEW yes \in Tallies, NEW r \in Results
  PROVE  \E e \in VoteNews :
           /\ e = [n |-> n, kind |-> kind, vote |-> v, yes |-> yes, result |-> r]
           /\ e.n = n /\ e.kind = kind /\ e.vote = v /\ e.yes = yes /\ e.result = r
<1> DEFINE e == [n |-> n, kind |-> kind, vote |-> v, yes |-> yes, result |-> r]
<1>1. e \in VoteNews
  BY Zenon DEF VoteNews
<1>2. e.n = n /\ e.kind = kind /\ e.vote = v /\ e.yes = yes /\ e.result = r
  OBVIOUS
<1> QED BY <1>1, <1>2, Zenon

\* What is published is newer than all that was.
LEMMA Published ==
  ASSUME VoteTypes, TurnsInv, NEW E \in VoteNews, E.n = told + 1, E.vote \in DOMAIN votes',
         DOMAIN votes \subseteq DOMAIN votes', Open' \subseteq {Len(votes')},
         told' = told + 1, news' = news \cup {E}, aired' = aired,
         starting'.n = starting.n \/ starting'.n = told + 1
  PROVE  /\ TurnsInv' /\ news' \subseteq VoteNews /\ told' \in Nat
         /\ E.n > aired /\ starting.n < E.n /\ \A e \in news : e.n < E.n
         /\ \A e \in news' : (\A d \in news' : d.n <= e.n) => e = E
         /\ E \in Turns' => \A e \in Turns' : (\A d \in Turns' : d.n <= e.n) => e = E
<1>1. /\ told \in Nat /\ aired \in Nat /\ aired <= told /\ starting.n <= told /\ starting.n \in Nat
      /\ \A e \in news : e.n \in Nat /\ e.n <= told
  BY DEF VoteTypes, TurnsInv, VoteNews
<1>2. \A e \in news : e.n < E.n
  BY <1>1
<1>3. \A e \in news' : e \in news \/ e = E
  OBVIOUS
<1>4. \A e \in news' : (\A d \in news' : d.n <= e.n) => e = E
  <2> SUFFICES ASSUME NEW e \in news', \A d \in news' : d.n <= e.n PROVE e = E
    OBVIOUS
  <2>1. E.n <= e.n
    OBVIOUS
  <2> QED BY <1>1, <1>2, <1>3, <2>1
<1>5. E \in Turns' => \A e \in Turns' : (\A d \in Turns' : d.n <= e.n) => e = E
  <2> SUFFICES ASSUME E \in Turns', NEW e \in Turns', \A d \in Turns' : d.n <= e.n PROVE e = E
    OBVIOUS
  <2>1. E.n <= e.n /\ e \in news'
    BY DEF Turns
  <2> QED BY <1>1, <1>2, <1>3, <2>1
<1>6. TurnsInv'
  <2>1. \A e \in news' : e.n <= told' /\ e.n # aired' /\ e.vote \in DOMAIN votes'
    BY <1>1, <1>3 DEF TurnsInv
  <2>2. \A d, e \in news' : d.n = e.n => d = e
    BY <1>1, <1>2, <1>3 DEF TurnsInv
  <2>3. aired' <= told' /\ starting'.n <= told'
    BY <1>1
  <2> QED BY <2>1, <2>2, <2>3 DEF TurnsInv
<1>7. news' \subseteq VoteNews /\ told' \in Nat
  BY <1>1 DEF VoteTypes
<1> QED BY <1>1, <1>2, <1>4, <1>5, <1>6, <1>7

\* A vote is started while none is open.
LEMMA CreateKept ==
  ASSUME OverlayInv, NEW u \in Voters, CreateVote(u),
         UNCHANGED <<overlay, hasVoted, banner, casting, aired, misled, lostCast>>,
         \/ starting' = starting
         \/ u = Me /\ starting' = [at |-> "ok", n |-> told', vote |-> Len(votes')]
  PROVE  OverlayInv'
<1>1. /\ VoteTypes /\ TurnsInv /\ Open = {} /\ votes \in Seq(Vote)
      /\ Len(votes) \in Nat /\ DOMAIN votes = 1 .. Len(votes)
  BY VotesAre DEF OverlayInv, CreateVote, MayStart, VoteTypes
<1>2. PICK r \in Vote : r = [result |-> "open", yes |-> {u}] /\ r.result = "open" /\ r.yes = {u}
  <2> DEFINE r == [result |-> "open", yes |-> {u}]
  <2>1. "open" \in Results /\ {u} \in SUBSET Voters
    BY DEF Results
  <2>2. r \in Vote
    BY <2>1, Zenon DEF Vote
  <2>3. r.result = "open" /\ r.yes = {u}
    OBVIOUS
  <2> QED BY <2>2, <2>3, Zenon
<1>3. votes' = Append(votes, r)
  BY <1>2 DEF CreateVote
<1>4. PICK N \in Nat : N = Len(votes) + 1
  BY <1>1
<1>5. /\ votes' \in Seq(Vote) /\ Len(votes') = N /\ DOMAIN votes' = 1 .. N
      /\ votes'[N] = r /\ \A v \in DOMAIN votes : votes'[v] = votes[v]
      /\ DOMAIN votes \subseteq DOMAIN votes' /\ N \in DOMAIN votes' /\ N # 0
  BY <1>1, <1>3, <1>4
<1>6. Open' = {N}
  <2>1. \A v \in DOMAIN votes' : votes'[v].result = "open" <=> v = N
    BY <1>1, <1>2, <1>4, <1>5 DEF Open
  <2> QED BY <1>5, <2>1 DEF Open
<1>7. Cardinality({u}) \in Tallies
  BY DEF Tallies
<1>8. PICK E \in VoteNews :
        /\ E = [n |-> told + 1, kind |-> "started", vote |-> N, yes |-> Cardinality({u}),
                result |-> "open"]
        /\ E.n = told + 1 /\ E.kind = "started" /\ E.vote = N /\ E.yes = Cardinality({u})
  <2>1. told + 1 \in Nat /\ N \in Nat \ {0} /\ "open" \in Results
    BY <1>1, <1>5 DEF VoteTypes, Results
  <2> QED BY <1>7, <2>1, NewsIs
<1>9. told' = told + 1 /\ news' = news \cup {E}
  BY <1>2, <1>5, <1>8 DEF CreateVote, Announce
<1>10. starting'.n = starting.n \/ starting'.n = told + 1
  BY <1>9
<1>11. /\ TurnsInv' /\ news' \subseteq VoteNews /\ told' \in Nat
       /\ E.n > aired /\ starting.n < E.n /\ \A e \in news : e.n < E.n
       /\ \A e \in news' : (\A d \in news' : d.n <= e.n) => e = E
       /\ E \in Turns' => \A e \in Turns' : (\A d \in Turns' : d.n <= e.n) => e = E
  BY <1>1, <1>5, <1>6, <1>8, <1>9, <1>10, Published
<1>12. E \in Turns' /\ E \in news'
  BY <1>8, <1>9 DEF Turns
<1>13. VoteTypes'
  <2>1. starting' \in [at : {"none", "asked", "ok", "VOTE_COOLDOWN", "refused"}, n : Nat, vote : Nat]
    BY <1>1, <1>5, <1>11 DEF VoteTypes
  <2>2. starting'.at = "ok" => starting'.vote \in DOMAIN votes'
    BY <1>1, <1>5 DEF VoteTypes
  <2>3. NoOverlay' = NoOverlay
    BY DEF NoOverlay
  <2> QED BY <1>1, <1>5, <1>11, <2>1, <2>2, <2>3 DEF VoteTypes
<1>14. NewestTurnInv'
  BY <1>6, <1>8, <1>11, <1>12 DEF NewestTurnInv
<1>15. NewestCountInv'
  BY <1>2, <1>5, <1>8, <1>11 DEF NewestCountInv
<1>16. ShownInv'
  BY <1>12 DEF ShownInv
<1>17. AnswerInv'
  <2>1. CASE starting' = starting
    <3>1. E.n <= starting.n => FALSE
      <4>1. E.n \in Nat /\ starting.n \in Nat
        BY <1>1 DEF VoteTypes, VoteNews
      <4> QED BY <1>11, <4>1
    <3>2. starting.at = "ok" => Me \in votes'[starting.vote].yes
      BY <1>1, <1>5 DEF OverlayInv, AnswerInv, VoteTypes
    <3> QED BY <1>12, <2>1, <3>1, <3>2 DEF AnswerInv
  <2>2. CASE u = Me /\ starting' = [at |-> "ok", n |-> told', vote |-> Len(votes')]
    <3>1. starting'.vote = N /\ votes'[N].yes = {Me}
      BY <1>2, <1>5, <2>2
    <3> QED BY <1>6, <3>1 DEF AnswerInv
  <2> QED BY <2>1, <2>2
<1>18. CastInv'
  <2>1. overlay.vote # 0 => overlay.vote \in DOMAIN votes
    BY <1>1 DEF VoteTypes, NoOverlay
  <2> QED BY <1>5, <2>1 DEF OverlayInv, CastInv
<1> QED BY <1>11, <1>13, <1>14, <1>15, <1>16, <1>17, <1>18 DEF OverlayInv

\* A vote with other ballots is a vote.
LEMMA BallotsChanged ==
  ASSUME NEW x \in Vote, NEW y \in SUBSET Voters
  PROVE  \E r \in Vote : r = [x EXCEPT !.yes = y] /\ r.result = x.result /\ r.yes = y
<1>1. /\ [x EXCEPT !.yes = y] \in Vote /\ [x EXCEPT !.yes = y].yes = y
      /\ [x EXCEPT !.yes = y].result = x.result
  BY DEF Vote
<1> QED BY <1>1, Zenon

\* A vote with another result is a vote.
LEMMA ResultChanged ==
  ASSUME NEW x \in Vote, NEW y \in Results
  PROVE  \E r \in Vote : r = [x EXCEPT !.result = y] /\ r.result = y /\ r.yes = x.yes
<1>1. /\ [x EXCEPT !.result = y] \in Vote /\ [x EXCEPT !.result = y].yes = x.yes
      /\ [x EXCEPT !.result = y].result = y
  BY DEF Vote
<1> QED BY <1>1, Zenon

\* One vote changes, the others stay.
LEMMA OneVote ==
  ASSUME votes \in Seq(Vote), NEW v \in DOMAIN votes, NEW r \in Vote,
         votes' = [votes EXCEPT ![v] = r]
  PROVE  /\ votes' \in Seq(Vote) /\ Len(votes') = Len(votes) /\ DOMAIN votes' = DOMAIN votes
         /\ votes'[v] = r /\ \A w \in DOMAIN votes : w # v => votes'[w] = votes[w]
<1>1. DOMAIN votes' = DOMAIN votes /\ votes'[v] = r
  OBVIOUS
<1>2. \A w \in DOMAIN votes : w # v => votes'[w] = votes[w]
  OBVIOUS
<1>3. votes' \in Seq(Vote) /\ Len(votes') = Len(votes)
  OBVIOUS
<1> QED BY <1>1, <1>2, <1>3

\* Somebody says yes.
LEMMA BallotKept ==
  ASSUME OverlayInv, NEW u \in Voters, NEW v, Ballot(u, v),
         UNCHANGED <<overlay, hasVoted, banner, starting, aired, misled, lostCast>>,
         casting' = casting \/ (casting' = 0 /\ v = casting /\ u = Me)
  PROVE  OverlayInv'
<1>1. /\ VoteTypes /\ TurnsInv /\ votes \in Seq(Vote) /\ Len(votes) \in Nat
      /\ v \in DOMAIN votes /\ v \in Open /\ v = Len(votes) /\ v # 0 /\ v \in Nat
      /\ votes[v] \in Vote /\ votes[v].result \in Results /\ votes[v].yes \in SUBSET Voters
      /\ 0 \notin DOMAIN votes
  <2>1. VoteTypes /\ TurnsInv /\ v \in Open /\ v \in DOMAIN votes
    BY DEF OverlayInv, Ballot, Open
  <2> QED BY <2>1, VotesAre DEF VoteTypes, TurnsInv
<1>2. PICK r \in Vote :
        /\ r = [votes[v] EXCEPT !.yes = @ \cup {u}]
        /\ r.result = votes[v].result /\ r.yes = votes[v].yes \cup {u}
  <2> DEFINE y == votes[v].yes \cup {u}
  <2>1. y \in SUBSET Voters
    BY <1>1
  <2> HIDE DEF y
  <2>2. \E r \in Vote : r = [votes[v] EXCEPT !.yes = y] /\ r.result = votes[v].result /\ r.yes = y
    BY <1>1, <2>1, BallotsChanged
  <2> QED BY <2>2 DEF y
<1>3. votes' = [votes EXCEPT ![v] = r]
  BY <1>1, <1>2, Zenon DEF Ballot
<1>4. /\ votes' \in Seq(Vote) /\ Len(votes') = Len(votes) /\ DOMAIN votes' = DOMAIN votes
      /\ votes'[v] = r /\ \A w \in DOMAIN votes : w # v => votes'[w] = votes[w]
  BY <1>1, <1>3, OneVote, Zenon
<1>5. \A w \in DOMAIN votes :
        /\ votes'[w].result = votes[w].result /\ votes[w].yes \subseteq votes'[w].yes
        /\ w = v => u \in votes'[w].yes
  BY <1>2, <1>4
<1>6. Open' = Open
  BY <1>4, <1>5 DEF Open
<1>7. Cardinality(votes'[v].yes) \in Tallies
  BY <1>1, <1>2, <1>4 DEF Tallies
<1>8. PICK E \in VoteNews :
        /\ E = [n |-> told + 1, kind |-> "progress", vote |-> v,
                yes |-> Cardinality(votes'[v].yes), result |-> votes'[v].result]
        /\ E.n = told + 1 /\ E.kind = "progress" /\ E.vote = v /\ E.yes = Cardinality(votes'[v].yes)
  <2> DEFINE n == told + 1  yes == Cardinality(votes'[v].yes)  result == votes'[v].result
  <2>1. n \in Nat /\ v \in Nat \ {0} /\ yes \in Tallies /\ result \in Results
    BY <1>1, <1>5, <1>7 DEF VoteTypes
  <2>2. "progress" \in {"started", "progress", "finished"}
    OBVIOUS
  <2> HIDE DEF n, yes, result
  <2>3. \E e \in VoteNews :
          /\ e = [n |-> n, kind |-> "progress", vote |-> v, yes |-> yes, result |-> result]
          /\ e.n = n /\ e.kind = "progress" /\ e.vote = v /\ e.yes = yes /\ e.result = result
    BY <2>1, <2>2, NewsIs
  <2> QED BY <2>3 DEF n, yes, result
<1>9. told' = told + 1 /\ news' = news \cup {E}
  BY <1>8 DEF Ballot, Announce
<1>10. E.vote \in DOMAIN votes' /\ Open' \subseteq {Len(votes')} /\ DOMAIN votes \subseteq DOMAIN votes'
  BY <1>1, <1>4, <1>6, <1>8 DEF TurnsInv
<1>11. /\ TurnsInv' /\ news' \subseteq VoteNews /\ told' \in Nat
       /\ E.n > aired /\ starting.n < E.n /\ \A e \in news : e.n < E.n
       /\ \A e \in news' : (\A d \in news' : d.n <= e.n) => e = E
  BY <1>1, <1>8, <1>9, <1>10, Published
<1>12. Turns' = Turns /\ E \in news'
  BY <1>8, <1>9 DEF Turns
<1>13. VoteTypes'
  <2>1. NoOverlay' = NoOverlay /\ casting' \in Nat
    BY <1>1 DEF NoOverlay, VoteTypes
  <2> QED BY <1>1, <1>4, <1>11, <2>1 DEF VoteTypes
<1>14. NewestTurnInv'
  BY <1>1, <1>4, <1>5, <1>6, <1>12 DEF OverlayInv, NewestTurnInv
<1>15. NewestCountInv'
  BY <1>1, <1>4, <1>8, <1>11 DEF NewestCountInv
<1>16. ShownInv'
  <2>1. votes'[Len(votes')].result = votes[Len(votes)].result
    BY <1>1, <1>4, <1>5
  <2> QED BY <1>6, <1>12, <2>1 DEF OverlayInv, ShownInv
<1>17. AnswerInv'
  <2>1. ~(E.n <= starting.n)
    <3>1. E.n \in Nat /\ starting.n \in Nat
      BY <1>1 DEF VoteTypes, VoteNews
    <3> QED BY <1>11, <3>1
  <2>2. starting.at = "ok" => Me \in votes'[starting.vote].yes
    BY <1>1, <1>5 DEF OverlayInv, AnswerInv, VoteTypes
  <2> QED BY <1>6, <1>12, <2>1, <2>2 DEF OverlayInv, AnswerInv
<1>18. CastInv'
  <2>1. overlay.vote # 0 => overlay.vote \in DOMAIN votes
    BY <1>1 DEF VoteTypes, NoOverlay
  <2>2. CASE casting' = casting
    BY <1>5, <2>1, <2>2 DEF OverlayInv, CastInv
  <2>3. CASE casting' = 0 /\ v = casting /\ u = Me
    BY <1>1, <1>5, <2>1, <2>3 DEF OverlayInv, CastInv
  <2> QED BY <2>2, <2>3
<1> QED BY <1>11, <1>13, <1>14, <1>15, <1>16, <1>17, <1>18 DEF OverlayInv

\* A vote ends.
LEMMA ResolveKept == ASSUME OverlayInv, NEW v, Resolve(v) PROVE OverlayInv'
<1>1. /\ VoteTypes /\ TurnsInv /\ votes \in Seq(Vote) /\ Len(votes) \in Nat
      /\ v \in DOMAIN votes /\ Open = {v} /\ v = Len(votes) /\ v # 0 /\ v \in Nat
      /\ votes[v] \in Vote /\ votes[v].result \in Results /\ votes[v].yes \in SUBSET Voters
  <2>1. VoteTypes /\ TurnsInv /\ v \in Open /\ v \in DOMAIN votes
    BY DEF OverlayInv, Resolve, Open
  <2> QED BY <2>1, VotesAre DEF VoteTypes, TurnsInv
<1>2. PICK ending \in {"passed", "failed"} : votes' = [votes EXCEPT ![v].result = ending]
  BY DEF Resolve
<1>3. PICK r \in Vote :
        /\ r = [votes[v] EXCEPT !.result = ending]
        /\ r.result = ending /\ r.yes = votes[v].yes
  <2>1. ending \in Results
    BY DEF Results
  <2> QED BY <1>1, <2>1, ResultChanged, Zenon
<1>4. votes' = [votes EXCEPT ![v] = r]
  BY <1>2, <1>3, Zenon
<1>5. /\ votes' \in Seq(Vote) /\ Len(votes') = Len(votes) /\ DOMAIN votes' = DOMAIN votes
      /\ votes'[v] = r /\ \A w \in DOMAIN votes : w # v => votes'[w] = votes[w]
  BY <1>1, <1>4, OneVote, Zenon
<1>6. \A w \in DOMAIN votes : votes'[w].yes = votes[w].yes
  BY <1>3, <1>5
<1>7. Open' = {}
  <2>1. votes'[v].result # "open"
    BY <1>3, <1>5
  <2>2. \A w \in DOMAIN votes : w # v => votes[w].result # "open"
    BY <1>1, Zenon DEF Open
  <2>3. \A w \in DOMAIN votes' : votes'[w].result # "open"
    BY <1>5, <2>1, <2>2, Zenon
  <2> QED BY <2>3, Zenon DEF Open
<1>8. Cardinality(votes'[v].yes) \in Tallies
  <2>1. votes'[v].yes \in SUBSET Voters
    BY <1>1, <1>3, <1>5
  <2> QED BY <2>1 DEF Tallies
<1>9. PICK E \in VoteNews :
        /\ E = [n |-> told + 1, kind |-> "finished", vote |-> v,
                yes |-> Cardinality(votes'[v].yes), result |-> votes'[v].result]
        /\ E.n = told + 1 /\ E.kind = "finished" /\ E.vote = v
        /\ E.yes = Cardinality(votes'[v].yes) /\ E.result = votes'[v].result
  <2> DEFINE n == told + 1  yes == Cardinality(votes'[v].yes)  result == votes'[v].result
  <2>1. n \in Nat /\ v \in Nat \ {0} /\ yes \in Tallies /\ result \in Results
    BY <1>1, <1>3, <1>5, <1>8 DEF VoteTypes, Results
  <2>2. "finished" \in {"started", "progress", "finished"}
    OBVIOUS
  <2> HIDE DEF n, yes, result
  <2>3. \E e \in VoteNews :
          /\ e = [n |-> n, kind |-> "finished", vote |-> v, yes |-> yes, result |-> result]
          /\ e.n = n /\ e.kind = "finished" /\ e.vote = v /\ e.yes = yes /\ e.result = result
    BY <2>1, <2>2, NewsIs
  <2> QED BY <2>3 DEF n, yes, result
<1>10. /\ told' = told + 1 /\ news' = news \cup {E}
       /\ UNCHANGED <<overlay, hasVoted, banner, starting, casting, aired, misled, lostCast>>
  BY <1>9 DEF Resolve, Announce, screenVars, auxVars
<1>11. E.vote \in DOMAIN votes' /\ Open' \subseteq {Len(votes')} /\ DOMAIN votes \subseteq DOMAIN votes'
  BY <1>1, <1>5, <1>7, <1>9
<1>12. /\ TurnsInv' /\ news' \subseteq VoteNews /\ told' \in Nat
       /\ E.n > aired /\ starting.n < E.n
       /\ \A e \in news' : (\A d \in news' : d.n <= e.n) => e = E
       /\ E \in Turns' => \A e \in Turns' : (\A d \in Turns' : d.n <= e.n) => e = E
  BY <1>1, <1>9, <1>10, <1>11, Published
<1>13. E \in Turns' /\ E \in news'
  BY <1>9, <1>10 DEF Turns
<1>14. VoteTypes'
  <2>1. NoOverlay' = NoOverlay
    BY DEF NoOverlay
  <2> QED BY <1>1, <1>5, <1>10, <1>12, <2>1 DEF VoteTypes
<1>15. NewestTurnInv'
  BY <1>1, <1>5, <1>7, <1>9, <1>12, <1>13 DEF NewestTurnInv
<1>16. NewestCountInv'
  BY <1>1, <1>5, <1>9, <1>12 DEF NewestCountInv
<1>17. ShownInv'
  BY <1>13 DEF ShownInv
<1>18. AnswerInv'
  <2>1. ~(E.n <= starting.n)
    <3>1. E.n \in Nat /\ starting.n \in Nat
      BY <1>1 DEF VoteTypes, VoteNews
    <3> QED BY <1>12, <3>1
  <2>2. starting.at = "ok" => Me \in votes'[starting.vote].yes
    BY <1>1, <1>6 DEF OverlayInv, AnswerInv, VoteTypes
  <2> QED BY <1>10, <1>13, <2>1, <2>2 DEF AnswerInv
<1>19. CastInv'
  <2>1. overlay.vote # 0 => overlay.vote \in DOMAIN votes
    BY <1>1 DEF VoteTypes, NoOverlay
  <2> QED BY <1>6, <1>10, <2>1 DEF OverlayInv, CastInv
<1> QED BY <1>12, <1>14, <1>15, <1>16, <1>17, <1>18, <1>19 DEF OverlayInv

\* What the page hears is what it comes to show.
LEMMA WhatIsShown ==
  ASSUME VoteTypes, NEW e \in news, VoteBroadcast(e)
  PROVE  /\ overlay' \in [vote : Nat, yes : Tallies] /\ hasVoted' \in BOOLEAN
         /\ ~Receiving => UNCHANGED <<overlay, hasVoted, banner>>
         /\ Receiving /\ e.kind = "started" =>
              overlay'.vote = e.vote /\ overlay'.yes = e.yes /\ ~hasVoted' /\ banner' = "none"
         /\ Receiving /\ e.kind = "progress" =>
              /\ overlay'.vote = overlay.vote /\ hasVoted' = hasVoted /\ banner' = banner
              /\ overlay = NoOverlay => overlay' = NoOverlay
              /\ overlay # NoOverlay => overlay'.yes = e.yes
         /\ Receiving /\ e.kind = "finished" => overlay' = NoOverlay /\ banner' = e.result
<1>1. /\ e.kind \in {"started", "progress", "finished"} /\ e.vote \in Nat /\ e.yes \in Tallies
      /\ overlay \in [vote : Nat, yes : Tallies] /\ hasVoted \in BOOLEAN
  BY DEF VoteTypes, VoteNews
<1>2. CASE ~Receiving
  BY <1>1, <1>2 DEF VoteBroadcast, screenVars
<1>3. CASE Receiving
  <2>1. /\ overlay' = Heard(e) /\ hasVoted' = (hasVoted /\ e.kind # "started")
        /\ banner' = CASE e.kind = "started" -> "none"
                       [] e.kind = "progress" -> banner
                       [] e.kind = "finished" -> e.result
    BY <1>3 DEF VoteBroadcast
  <2>2. CASE e.kind = "started"
    <3>1. overlay' = [vote |-> e.vote, yes |-> e.yes] /\ banner' = "none"
      BY <2>1, <2>2 DEF Heard
    <3>2. hasVoted' = FALSE
      BY <2>1, <2>2, Zenon
    <3>3. overlay' \in [vote : Nat, yes : Tallies] /\ overlay'.vote = e.vote /\ overlay'.yes = e.yes
      BY <1>1, <3>1
    <3> QED BY <1>3, <2>2, <3>1, <3>2, <3>3
  <2>3. CASE e.kind = "progress"
    <3>1. overlay' = IF overlay = NoOverlay THEN overlay ELSE [overlay EXCEPT !.yes = e.yes]
      BY <2>1, <2>3 DEF Heard
    <3>2. \A o \in [vote : Nat, yes : Tallies] :
            /\ [o EXCEPT !.yes = e.yes] \in [vote : Nat, yes : Tallies]
            /\ [o EXCEPT !.yes = e.yes].yes = e.yes /\ [o EXCEPT !.yes = e.yes].vote = o.vote
      BY <1>1
    <3>3. /\ overlay' \in [vote : Nat, yes : Tallies] /\ overlay'.vote = overlay.vote
          /\ overlay = NoOverlay => overlay' = NoOverlay
          /\ overlay # NoOverlay => overlay'.yes = e.yes
      BY <1>1, <3>1, <3>2, Zenon
    <3>4. banner' = banner
      BY <2>1, <2>3
    <3>5. hasVoted' = hasVoted
      <4>1. e.kind # "started"
        BY <2>3
      <4> QED BY <1>1, <2>1, <4>1, Zenon
    <3> QED BY <1>1, <1>3, <2>3, <3>3, <3>4, <3>5
  <2>4. CASE e.kind = "finished"
    <3>1. overlay' = NoOverlay /\ banner' = e.result
      BY <2>1, <2>4 DEF Heard
    <3>2. 0 \in Nat /\ 0 \in Tallies
      BY DEF Tallies
    <3>3. overlay' \in [vote : Nat, yes : Tallies]
      BY <3>1, <3>2, Zenon DEF NoOverlay
    <3>4. hasVoted' \in BOOLEAN
      BY <1>1, <2>1, Zenon
    <3> QED BY <1>3, <2>4, <3>1, <3>3, <3>4
  <2> QED BY <1>1, <2>2, <2>3, <2>4
<1> QED BY <1>2, <1>3

\* The page is told, in whatever order, or misses what it is told.
LEMMA VoteHeard == ASSUME OverlayInv, NEW e \in news, VoteBroadcast(e) PROVE OverlayInv'
<1>1. /\ VoteTypes /\ TurnsInv /\ aired \in Nat /\ e.n \in Nat /\ e.vote \in DOMAIN votes
      /\ e.kind \in {"started", "progress", "finished"} /\ e.n # aired /\ e.n <= told
      /\ starting.n \in Nat /\ 0 \notin DOMAIN votes /\ e.vote \in Nat /\ e.vote # 0
  BY VotesAre DEF OverlayInv, VoteTypes, TurnsInv, VoteNews
<1>2. /\ aired' = (IF e.n < aired THEN aired ELSE e.n) /\ news' = news \ {e}
      /\ UNCHANGED <<votes, told, starting, casting, lostCast>>
  BY DEF VoteBroadcast, serviceVars
<1>3. /\ overlay' \in [vote : Nat, yes : Tallies] /\ hasVoted' \in BOOLEAN
      /\ ~Receiving => UNCHANGED <<overlay, hasVoted, banner>>
      /\ Receiving /\ e.kind = "started" =>
           overlay'.vote = e.vote /\ overlay'.yes = e.yes /\ ~hasVoted' /\ banner' = "none"
      /\ Receiving /\ e.kind = "progress" =>
           /\ overlay'.vote = overlay.vote /\ hasVoted' = hasVoted /\ banner' = banner
           /\ overlay = NoOverlay => overlay' = NoOverlay
           /\ overlay # NoOverlay => overlay'.yes = e.yes
      /\ Receiving /\ e.kind = "finished" => overlay' = NoOverlay /\ banner' = e.result
  BY <1>1, WhatIsShown
<1>4. NoOverlay' = NoOverlay /\ NoOverlay.vote = 0
  BY DEF NoOverlay
<1>5. /\ misled' \subseteq {"vote", "count"}
      /\ "vote" \notin misled' =>
           IF e.kind = "progress" THEN "vote" \notin misled ELSE Receiving /\ e.n > aired
      /\ misled' = {} => Receiving /\ e.n > aired /\ (e.kind = "progress" => "vote" \notin misled)
  <2>1. misled' = IF e.n < aired \/ ~Receiving THEN misled \cup Concerns(e)
                  ELSE IF e.kind = "progress" /\ "vote" \in misled THEN misled
                  ELSE misled \ Concerns(e)
    BY DEF VoteBroadcast
  <2>2. /\ Concerns(e) = IF e.kind = "progress" THEN {"count"} ELSE {"vote", "count"}
        /\ misled \subseteq {"vote", "count"}
    BY DEF Concerns, OverlayInv, VoteTypes
  <2>3. CASE e.n < aired \/ ~Receiving
    BY <1>1, <2>1, <2>2, <2>3
  <2>4. CASE ~(e.n < aired \/ ~Receiving)
    BY <1>1, <2>1, <2>2, <2>4
  <2> QED BY <2>3, <2>4
<1>6. /\ aired' \in Nat /\ aired <= aired' /\ e.n <= aired' /\ aired' <= told
      /\ \A d \in news' : d \in news /\ d # e /\ d.n \in Nat /\ d.n # e.n
  BY <1>1, <1>2 DEF TurnsInv, VoteTypes, VoteNews
<1>7. VoteTypes'
  <2>1. overlay' = NoOverlay \/ overlay'.vote \in DOMAIN votes
    <3>1. CASE ~Receiving \/ e.kind = "progress"
      <4>1. overlay.vote = 0 => overlay = NoOverlay
        BY <1>1 DEF VoteTypes
      <4> QED BY <1>1, <1>3, <1>4, <3>1, <4>1 DEF VoteTypes
    <3>2. CASE Receiving /\ e.kind # "progress"
      BY <1>1, <1>3, <3>2
    <3> QED BY <3>1, <3>2
  <2>2. news' \subseteq VoteNews
    BY <1>1, <1>2 DEF VoteTypes
  <2> QED BY <1>1, <1>2, <1>3, <1>4, <1>5, <1>6, <2>1, <2>2 DEF VoteTypes
<1>8. TurnsInv'
  <2>1. Open' = Open
    BY <1>2 DEF Open
  <2>2. \A d \in news' : d.n # aired'
    BY <1>1, <1>2, <1>6 DEF TurnsInv
  <2> QED BY <1>1, <1>2, <1>6, <2>1, <2>2 DEF TurnsInv
<1>9. \A d \in news' : d.n > aired' => d.n > e.n /\ d.n > aired
  BY <1>1, <1>6
<1>10. NewestTurnInv'
  <2> SUFFICES ASSUME NEW d \in Turns', d.n > aired', \A c \in Turns' : c.n <= d.n
               PROVE  IF d.kind = "started" THEN Open = {d.vote}
                      ELSE Open = {} /\ votes[Len(votes)].result = d.result
    BY <1>2 DEF NewestTurnInv, Open
  <2>1. d \in news' /\ d \in Turns /\ d.n \in Nat /\ d.n > e.n /\ d.n > aired
    BY <1>6, <1>9 DEF Turns
  <2>2. \A c \in Turns : c.n <= d.n
    <3> SUFFICES ASSUME NEW c \in Turns PROVE c.n <= d.n
      OBVIOUS
    <3>1. c = e \/ c \in Turns'
      BY <1>2 DEF Turns
    <3> QED BY <1>1, <2>1, <3>1
  <2> QED BY <2>1, <2>2 DEF OverlayInv, NewestTurnInv
<1>11. NewestCountInv'
  <2> SUFFICES ASSUME NEW d \in news', d.n > aired', \A c \in news' : c.n <= d.n
               PROVE  d.vote = Len(votes) /\ d.yes = Cardinality(votes[d.vote].yes)
    BY <1>2 DEF NewestCountInv
  <2>1. d \in news /\ d.n \in Nat /\ d.n > e.n /\ d.n > aired
    BY <1>6, <1>9
  <2>2. \A c \in news : c.n <= d.n
    <3> SUFFICES ASSUME NEW c \in news PROVE c.n <= d.n
      OBVIOUS
    <3>1. c = e \/ c \in news'
      BY <1>2
    <3> QED BY <1>1, <2>1, <3>1
  <2> QED BY <2>1, <2>2 DEF OverlayInv, NewestCountInv
<1>12. ASSUME Turns' = {}, "vote" \notin misled'
       PROVE  /\ {overlay'.vote} \ {0} = Open
              /\ banner' # "none" => Open = {} /\ banner' = votes[Len(votes)].result
  <2>1. CASE e.kind = "progress"
    <3>1. Turns = {} /\ "vote" \notin misled
      BY <1>2, <1>5, <1>12, <2>1 DEF Turns
    <3>2. overlay'.vote = overlay.vote /\ banner' = banner
      BY <1>3, <2>1
    <3> QED BY <3>1, <3>2 DEF OverlayInv, ShownInv
  <2>2. CASE e.kind # "progress"
    <3>1. Receiving /\ e.n > aired /\ e \in Turns /\ \A d \in Turns : d = e
      BY <1>2, <1>5, <1>12, <2>2 DEF Turns
    <3>2. IF e.kind = "started" THEN Open = {e.vote}
          ELSE Open = {} /\ votes[Len(votes)].result = e.result
      BY <1>1, <3>1 DEF OverlayInv, NewestTurnInv
    <3> QED BY <1>1, <1>3, <1>4, <2>2, <3>1, <3>2
  <2> QED BY <2>1, <2>2
<1>13. ASSUME news' = {}, misled' = {}, overlay' # NoOverlay
       PROVE  overlay'.yes = Cardinality(votes[overlay'.vote].yes)
  <2>1. Receiving /\ e.n > aired /\ \A d \in news : d = e
    BY <1>2, <1>5, <1>13
  <2>2. e.vote = Len(votes) /\ e.yes = Cardinality(votes[e.vote].yes)
    BY <1>1, <2>1 DEF OverlayInv, NewestCountInv
  <2>3. overlay'.vote = e.vote /\ overlay'.yes = e.yes
    <3>1. CASE e.kind = "started"
      BY <1>3, <2>1, <3>1
    <3>2. CASE e.kind = "progress"
      <4>1. overlay # NoOverlay /\ overlay'.vote = overlay.vote /\ overlay'.yes = e.yes
        BY <1>3, <1>13, <2>1, <3>2
      <4>2. Turns = {} /\ "vote" \notin misled
        BY <1>5, <1>13, <2>1, <3>2 DEF Turns
      <4>3. {overlay.vote} \ {0} = Open /\ Open \subseteq {Len(votes)}
        BY <1>1, <4>2 DEF OverlayInv, ShownInv, TurnsInv
      <4>4. overlay.vote # 0
        BY <1>1, <4>1 DEF VoteTypes
      <4> QED BY <2>2, <4>1, <4>3, <4>4
    <3>3. CASE e.kind = "finished"
      BY <1>3, <1>13, <2>1, <3>3
    <3> QED BY <1>1, <3>1, <3>2, <3>3
  <2> QED BY <2>2, <2>3
<1>14. ShownInv'
  BY <1>2, <1>4, <1>12, <1>13 DEF ShownInv, Open
<1>15. AnswerInv'
  <2>1. ASSUME aired' <= starting.n
        PROVE  aired <= starting.n /\ e.n <= starting.n
    BY <1>1, <1>6, <2>1
  <2>2. ASSUME starting.at = "ok", aired' <= starting.n, \A d \in Turns' : d.n <= starting.n
        PROVE  Open = {starting.vote}
    <3>1. \A d \in Turns : d = e \/ d \in Turns'
      BY <1>2 DEF Turns
    <3> QED BY <2>1, <2>2, <3>1 DEF OverlayInv, AnswerInv
  <2>3. ASSUME starting.at = "ok", aired' <= starting.n, \A d \in news' : d.n <= starting.n
        PROVE  votes[starting.vote].yes = {Me}
    <3>1. \A d \in news : d = e \/ d \in news'
      BY <1>2
    <3> QED BY <2>1, <2>3, <3>1 DEF OverlayInv, AnswerInv
  <2>4. starting.at = "ok" => Me \in votes[starting.vote].yes
    BY DEF OverlayInv, AnswerInv
  <2> QED BY <1>2, <2>2, <2>3, <2>4 DEF AnswerInv, Open
<1>16. CastInv'
  <2>1. CASE ~Receiving \/ e.kind = "progress"
    BY <1>2, <1>3, <2>1 DEF OverlayInv, CastInv
  <2>2. CASE Receiving /\ e.kind # "progress"
    BY <1>1, <1>3, <1>4, <2>2 DEF CastInv
  <2> QED BY <2>1, <2>2
<1> QED BY <1>7, <1>8, <1>10, <1>11, <1>14, <1>15, <1>16 DEF OverlayInv

Askings == [at : {"none", "asked", "ok", "VOTE_COOLDOWN", "refused"}, n : Nat, vote : Nat]

\* Nothing is published, and the overlay stays as it is.
LEMMA QuietKept ==
  ASSUME OverlayInv,
         UNCHANGED <<votes, news, told, aired, overlay, hasVoted, casting, misled, lostCast>>,
         banner' \in {banner, "none"},
         \/ starting' = starting
         \/ starting' \in Askings /\ starting'.at # "ok" /\ starting'.n <= told
  PROVE  OverlayInv'
<1>1. VoteTypes' /\ TurnsInv'
  <2>1. NoOverlay' = NoOverlay /\ Open' = Open
    BY DEF NoOverlay, Open
  <2> QED BY <2>1 DEF OverlayInv, VoteTypes, TurnsInv, Askings
<1>2. NewestTurnInv' /\ NewestCountInv'
  BY DEF OverlayInv, NewestTurnInv, NewestCountInv, Turns, Open
<1>3. ShownInv'
  BY DEF OverlayInv, ShownInv, Turns, Open, NoOverlay
<1>4. AnswerInv'
  BY DEF OverlayInv, AnswerInv, Turns, Open
<1>5. CastInv'
  BY DEF OverlayInv, CastInv
<1> QED BY <1>1, <1>2, <1>3, <1>4, <1>5 DEF OverlayInv

\* The answer to vote:start seeds the overlay.
LEMMA SeedKept == ASSUME OverlayInv, StartAnswered, starting.at = "ok" PROVE OverlayInv'
<1>1. /\ hasVoted' = TRUE /\ overlay' = [vote |-> starting.vote, yes |-> 1]
      /\ misled' = IF aired > starting.n THEN {"vote", "count"} ELSE misled
      /\ starting' = NotAsked
      /\ UNCHANGED <<votes, told, news, banner, casting, aired, lostCast>>
  BY DEF StartAnswered, serviceVars
<1>2. /\ VoteTypes /\ TurnsInv /\ starting.vote \in DOMAIN votes /\ starting.vote \in Nat
      /\ starting.vote # 0 /\ starting.n \in Nat /\ aired \in Nat /\ told \in Nat
  BY VotesAre DEF OverlayInv, VoteTypes
<1>3. /\ overlay' \in [vote : Nat, yes : Tallies]
      /\ overlay'.vote = starting.vote /\ overlay'.yes = 1
  <2>1. 1 \in Tallies
    BY DEF Tallies
  <2> QED BY <1>1, <1>2, <2>1
<1>4. starting' \in Askings /\ starting'.at = "none" /\ starting'.n = 0
  BY <1>1 DEF NotAsked, Askings
<1>5. VoteTypes'
  BY <1>1, <1>2, <1>3, <1>4 DEF VoteTypes, Askings
<1>6. TurnsInv'
  BY <1>1, <1>2, <1>4 DEF TurnsInv, Open
<1>7. NewestTurnInv' /\ NewestCountInv'
  BY <1>1 DEF OverlayInv, NewestTurnInv, NewestCountInv, Turns, Open
<1>8. ASSUME "vote" \notin misled' \/ misled' = {}
      PROVE  aired <= starting.n /\ misled' = misled
  BY <1>1, <1>2, <1>8
<1>9. ASSUME Turns = {}, "vote" \notin misled'
      PROVE  Open = {starting.vote} /\ banner = "none"
  <2>1. Open = {starting.vote}
    BY <1>8, <1>9, starting.at = "ok" DEF OverlayInv, AnswerInv
  <2> QED BY <1>8, <1>9, <2>1 DEF OverlayInv, ShownInv
<1>10. ASSUME news = {}, misled' = {} PROVE Cardinality(votes[starting.vote].yes) = 1
  <2>1. votes[starting.vote].yes = {Me}
    BY <1>8, <1>10 DEF OverlayInv, AnswerInv
  <2> QED BY <2>1, FS_Singleton
<1>11. ShownInv'
  <2>1. Turns' = Turns /\ Open' = Open
    BY <1>1 DEF Turns, Open
  <2> QED BY <1>1, <1>2, <1>3, <1>9, <1>10, <2>1 DEF ShownInv
<1>12. AnswerInv'
  BY <1>4 DEF AnswerInv
<1>13. CastInv'
  BY <1>1, <1>3 DEF OverlayInv, AnswerInv, CastInv
<1> QED BY <1>5, <1>6, <1>7, <1>11, <1>12, <1>13 DEF OverlayInv

\* The page asks for a vote, and the gateway relays.
LEMMA AskKept ==
  ASSUME OverlayInv, StartVote \/ RelayStart \/ RelayFails \/ StartAnswered PROVE OverlayInv'
<1>1. /\ VoteTypes /\ TurnsInv /\ told \in Nat /\ starting \in Askings /\ starting.n <= told
      /\ Me \in Voters
  BY DEF OverlayInv, VoteTypes, TurnsInv, Askings, Voters
<1>2. \A at \in {"none", "asked", "VOTE_COOLDOWN", "refused"} :
        [NotAsked EXCEPT !.at = at] \in Askings /\ [NotAsked EXCEPT !.at = at].at = at
          /\ [NotAsked EXCEPT !.at = at].n = 0
  BY DEF NotAsked, Askings
<1>3. CASE StartVote
  <2>1. /\ starting' = [NotAsked EXCEPT !.at = "asked"]
        /\ UNCHANGED <<votes, news, told, aired, overlay, hasVoted, casting, misled, lostCast, banner>>
    BY <1>3 DEF StartVote, serviceVars, screenVars, auxVars
  <2>2. starting' \in Askings /\ starting'.at # "ok" /\ starting'.n <= told
    BY <1>1, <1>2, <2>1
  <2> QED BY <2>1, <2>2, QuietKept
<1>4. CASE RelayStart
  <2>1. UNCHANGED <<overlay, hasVoted, banner, casting, aired, misled, lostCast>>
    BY <1>4 DEF RelayStart, screenVars, auxVars
  <2>2. CASE CreateVote(Me) /\ starting' = [at |-> "ok", n |-> told', vote |-> Len(votes')]
    BY <1>1, <2>1, <2>2, CreateKept
  <2>3. CASE ~(CreateVote(Me) /\ starting' = [at |-> "ok", n |-> told', vote |-> Len(votes')])
    <3>1. PICK at \in {"VOTE_COOLDOWN", "refused"} : starting' = [starting EXCEPT !.at = at]
      BY <1>4, <2>3 DEF RelayStart
    <3>2. UNCHANGED <<votes, told, news>>
      BY <1>4, <2>3 DEF RelayStart, serviceVars
    <3>3. starting' \in Askings /\ starting'.at # "ok" /\ starting'.n <= told
      BY <1>1, <3>1 DEF Askings
    <3> QED BY <2>1, <3>2, <3>3, QuietKept
  <2> QED BY <2>2, <2>3
<1>5. CASE RelayFails
  <2>1. /\ starting' = [NotAsked EXCEPT !.at = "refused"]
        /\ UNCHANGED <<votes, news, told, aired, overlay, hasVoted, casting, misled, lostCast, banner>>
    BY <1>5 DEF RelayFails, serviceVars, screenVars, auxVars
  <2>2. starting' \in Askings /\ starting'.at # "ok" /\ starting'.n <= told
    BY <1>1, <1>2, <2>1
  <2> QED BY <2>1, <2>2, QuietKept
<1>6. CASE StartAnswered
  <2>1. CASE starting.at = "ok"
    BY <1>6, <2>1, SeedKept
  <2>2. CASE starting.at # "ok"
    <3>1. /\ starting' = NotAsked
          /\ UNCHANGED <<votes, news, told, aired, overlay, hasVoted, casting, misled, lostCast, banner>>
      BY <1>6, <2>2 DEF StartAnswered, serviceVars
    <3>2. starting' \in Askings /\ starting'.at # "ok" /\ starting'.n <= told
      BY <1>1, <3>1 DEF NotAsked, Askings
    <3> QED BY <3>1, <3>2, QuietKept
  <2> QED BY <2>1, <2>2
<1> QED BY <1>3, <1>4, <1>5, <1>6

\* The page casts its ballot; the call may fail, and the page never knows.
LEMMA CastKept == ASSUME OverlayInv, CastVote \/ RelayCast PROVE OverlayInv'
<1>1. VoteTypes /\ casting \in Nat /\ overlay.vote \in Nat /\ Me \in Voters
  BY DEF OverlayInv, VoteTypes, Voters
<1>2. ASSUME UNCHANGED <<votes, news, told, aired, overlay, misled, banner, starting>>,
             casting' \in Nat, hasVoted' \in BOOLEAN, CastInv'
      PROVE  OverlayInv'
  <2>1. VoteTypes' /\ TurnsInv'
    <3>1. NoOverlay' = NoOverlay /\ Open' = Open
      BY <1>2 DEF NoOverlay, Open
    <3> QED BY <1>2, <3>1 DEF OverlayInv, VoteTypes, TurnsInv
  <2>2. NewestTurnInv' /\ NewestCountInv'
    BY <1>2 DEF OverlayInv, NewestTurnInv, NewestCountInv, Turns, Open
  <2>3. ShownInv'
    BY <1>2 DEF OverlayInv, ShownInv, Turns, Open, NoOverlay
  <2>4. AnswerInv'
    BY <1>2 DEF OverlayInv, AnswerInv, Turns, Open
  <2> QED BY <1>2, <2>1, <2>2, <2>3, <2>4 DEF OverlayInv
<1>3. CASE CastVote
  <2>1. /\ hasVoted' = TRUE /\ casting' = overlay.vote
        /\ UNCHANGED <<votes, news, told, aired, overlay, misled, banner, starting>>
    BY <1>3 DEF CastVote, serviceVars, auxVars
  <2>2. CastInv'
    BY <2>1 DEF CastInv
  <2> QED BY <1>1, <1>2, <2>1, <2>2
<1>4. CASE RelayCast
  <2>1. /\ casting # 0 /\ casting' = 0
        /\ UNCHANGED <<overlay, hasVoted, banner, starting, aired, misled>>
    BY <1>4 DEF RelayCast, screenVars
  <2>2. CASE Ballot(Me, casting) /\ UNCHANGED lostCast
    BY <1>1, <2>1, <2>2, BallotKept
  <2>3. CASE ~(Ballot(Me, casting) /\ UNCHANGED lostCast)
    <3>1. lostCast' = casting /\ UNCHANGED <<votes, told, news>>
      BY <1>4, <2>3 DEF RelayCast, serviceVars
    <3>2. CastInv'
      BY <2>1, <3>1 DEF OverlayInv, CastInv
    <3> QED BY <1>1, <1>2, <2>1, <3>1, <3>2 DEF VoteTypes
  <2> QED BY <2>2, <2>3
<1> QED BY <1>3, <1>4

\* OverlayTellsVote holds of the overlay, the skip button and the banner, for any
\* number of voters and votes, and whatever is lost, late or out of order.
THEOREM OverlayTells == VotePageSpec => []OverlayTellsVote
<1>1. VotePageInit => OverlayInv
  <2> SUFFICES ASSUME VotePageInit PROVE OverlayInv
    OBVIOUS
  <2>1. /\ votes = <<>> /\ news = {} /\ told = 0 /\ aired = 0 /\ overlay = NoOverlay
        /\ hasVoted = FALSE /\ banner = "none" /\ starting = NotAsked /\ casting = 0 /\ misled = {}
    BY DEF VotePageInit
  <2>2. /\ votes \in Seq(Vote) /\ Len(votes) = 0 /\ DOMAIN votes = {} /\ Open = {} /\ Turns = {}
    BY <2>1 DEF Open, Turns
  <2>3. 0 \in Tallies /\ 0 \in Nat
    BY DEF Tallies
  <2>4. NoOverlay \in [vote : Nat, yes : Tallies] /\ NoOverlay.vote = 0
    BY <2>3 DEF NoOverlay
  <2>5. /\ NotAsked \in [at : {"none", "asked", "ok", "VOTE_COOLDOWN", "refused"}, n : Nat, vote : Nat]
        /\ NotAsked.at = "none" /\ NotAsked.n = 0
    BY DEF NotAsked
  <2>6. VoteTypes
    BY <2>1, <2>2, <2>3, <2>4, <2>5 DEF VoteTypes
  <2>7. TurnsInv /\ NewestTurnInv /\ NewestCountInv
    BY <2>1, <2>2, <2>5 DEF TurnsInv, NewestTurnInv, NewestCountInv
  <2>8. ShownInv /\ AnswerInv /\ CastInv
    BY <2>1, <2>2, <2>4, <2>5 DEF ShownInv, AnswerInv, CastInv
  <2> QED BY <2>6, <2>7, <2>8 DEF OverlayInv
<1>2. OverlayInv /\ [VotePageNext]_votePageVars => OverlayInv'
  <2> SUFFICES ASSUME OverlayInv, [VotePageNext]_votePageVars PROVE OverlayInv'
    OBVIOUS
  <2>1. CASE OthersVote
    <3>1. PICK u \in Others : CreateVote(u) \/ \E v \in Open : Ballot(u, v)
      BY <2>1 DEF OthersVote
    <3>2. /\ UNCHANGED <<overlay, hasVoted, banner, starting, casting, aired, misled, lostCast>>
          /\ u \in Voters
      BY <2>1 DEF OthersVote, screenVars, auxVars, Voters
    <3>3. CASE CreateVote(u)
      BY <3>2, <3>3, CreateKept
    <3>4. CASE \E v \in Open : Ballot(u, v)
      BY <3>2, <3>4, BallotKept
    <3> QED BY <3>1, <3>3, <3>4
  <2>2. CASE \E v \in Open : Resolve(v)
    BY <2>2, ResolveKept
  <2>3. CASE StartVote \/ RelayStart \/ RelayFails \/ StartAnswered
    BY <2>3, AskKept
  <2>4. CASE CastVote \/ RelayCast
    BY <2>4, CastKept
  <2>5. CASE \E e \in news : VoteBroadcast(e)
    BY <2>5, VoteHeard
  <2>6. CASE CooldownEnds \/ PageCoolsDown \/ DismissResult \/ UNCHANGED votePageVars
    <3>1. /\ UNCHANGED <<votes, news, told, aired, overlay, hasVoted, casting, misled, lostCast>>
          /\ UNCHANGED starting /\ banner' \in {banner, "none"}
      BY <2>6 DEF CooldownEnds, PageCoolsDown, DismissResult, votePageVars, serviceVars,
                  screenVars, auxVars
    <3> QED BY <3>1, QuietKept
  <2>7. CASE VoteFollows
    <3>1. /\ UNCHANGED <<votes, news, told, aired, overlay, hasVoted, casting, misled, lostCast, banner>>
          /\ starting' = starting \/ starting' = NotAsked
      BY <2>7 DEF VoteFollows, serviceVars, screenVars, auxVars
    <3>2. NotAsked \in Askings /\ NotAsked.at = "none" /\ NotAsked.n = 0 /\ told \in Nat
      BY DEF NotAsked, Askings, OverlayInv, VoteTypes
    <3> QED BY <3>1, <3>2, QuietKept
  <2> QED BY <2>1, <2>2, <2>3, <2>4, <2>5, <2>6, <2>7 DEF VotePageNext
<1>3. OverlayInv => OverlayTellsVote
  <2> SUFFICES ASSUME OverlayInv PROVE OverlayTellsVote
    OBVIOUS
  <2>1. news = {} => Turns = {}
    BY DEF Turns
  <2>2. Last(votes) = votes[Len(votes)]
    BY DEF Last
  <2> QED BY <2>1, <2>2 DEF OverlayInv, ShownInv, CastInv, OverlayTellsVote
<1> QED BY <1>1, <1>2, <1>3, PTL DEF VotePageSpec

-------------------------------------------------------------------------------
(* Chat *)

Decreasing(s) == \A i, j \in DOMAIN s : i < j => s[i] > s[j]

Shows(s, m) == \E i \in DOMAIN s : s[i] = m

ChatTypes ==
  /\ send \in [Messages -> {"draft", "emitted", "ok", "unpublished", "refused"}]
  /\ live \in [Messages -> {"none", "pending", "failed", "sent"}]
  /\ submitted \subseteq Messages /\ messages \subseteq Messages /\ IsFiniteSet(messages)
  /\ pages \in [items : Seq(Messages), next : Messages \cup {NoCursor, NoMore}]

\* What a row says of its message.
RowsInv ==
  /\ persisted \subseteq messages
  /\ \A m \in Messages :
       /\ send[m] \in {"draft", "emitted"} => m \notin submitted \cup messages
       /\ live[m] = "sent" => m \in messages
       /\ live[m] = "pending" => m \in ackTimers \cup orphaned
       /\ m \in messages /\ live[m] \in {"pending", "failed"} => m \in persisted \cup unheard

\* History is what was stored, newest first, down to where the next page starts.
HistoryInv ==
  /\ pages.next = NoCursor => pages.items = <<>>
  /\ Decreasing(pages.items)
  /\ \A i \in DOMAIN pages.items : pages.items[i] \in messages /\ pages.items[i] >= pages.next

\* And nothing of it is left out but what the page has heard, or what slipped.
MeetingInv ==
  \A m \in messages \ slipped :
    ReadPast(m) => Shows(pages.items, m) \/ live[m] # "none"

ChatInv == ChatTypes /\ RowsInv /\ HistoryInv /\ MeetingInv

\* What the types say of the messages and the pages.
LEMMA ChatIs ==
  ASSUME ChatTypes
  PROVE  /\ \A m \in Messages : m \in Nat /\ m # 0
         /\ Limit \in Nat /\ Limit > 0
         /\ pages.items \in Seq(Messages) /\ Len(pages.items) \in Nat
         /\ DOMAIN pages.items = 1 .. Len(pages.items)
         /\ \A i \in DOMAIN pages.items : pages.items[i] \in Messages
         /\ pages.next \in Messages \cup {NoCursor, NoMore} /\ pages.next \in Int
<1>1. (\A m \in Messages : m \in Nat /\ m # 0) /\ Limit \in Nat /\ Limit > 0
  BY ChatAssumption
<1>2. pages.items \in Seq(Messages) /\ pages.next \in Messages \cup {NoCursor, NoMore}
  BY DEF ChatTypes
<1>3. pages.next \in Int
  <2>1. pages.next \in Messages \/ pages.next = -1 \/ pages.next = 0
    BY <1>2 DEF NoCursor, NoMore
  <2> QED BY <1>1, <2>1
<1> QED BY <1>1, <1>2, <1>3

\* A page of history is the newest messages of those asked for, newest first.
LEMMA PageIs ==
  ASSUME \A m \in Messages : m \in Nat /\ m # 0, Limit \in Nat, Limit > 0,
         NEW some \in SUBSET Messages, IsFiniteSet(some), NEW rows \in NewestFirst(some)
  PROVE  /\ Page(rows).items \in Seq(some) /\ Decreasing(Page(rows).items)
         /\ Page(rows).next \in some \cup {NoMore}
         /\ \A i \in DOMAIN Page(rows).items : Page(rows).items[i] >= Page(rows).next
         /\ \A m \in some : m >= Page(rows).next => Shows(Page(rows).items, m)
<1>1. PICK N \in Nat : N = Cardinality(some)
  BY FS_CardinalityType
<1>2. /\ rows \in [1 .. N -> some] /\ Range(rows) = some
      /\ \A i, j \in 1 .. N : i < j => rows[i] > rows[j]
  BY <1>1 DEF NewestFirst
<1>3. /\ rows \in Seq(some) /\ Len(rows) = N /\ DOMAIN rows = 1 .. N
      /\ \A i \in 1 .. N : rows[i] \in some /\ rows[i] \in Nat /\ rows[i] # 0
  <2>1. \A i \in 1 .. N : rows[i] \in some /\ rows[i] \in Nat /\ rows[i] # 0
    BY <1>2
  <2>2. rows \in Seq(some) /\ DOMAIN rows = 1 .. N
    BY <1>2, SeqDef
  <2>3. Len(rows) = N
    BY <1>1, <2>2, LenProperties
  <2> QED BY <2>1, <2>2, <2>3
<1>4. \A m \in some : \E i \in 1 .. N : rows[i] = m
  BY <1>2, <1>3 DEF Range
<1>5. CASE N > Limit
  <2>1. PICK s : s = SubSeq(rows, 1, Limit)
    OBVIOUS
  <2>2. Page(rows).items = s /\ Page(rows).next = rows[Limit] /\ Limit \in 1 .. N
    BY <1>3, <1>5, <2>1 DEF Page
  <2>3. s \in Seq(some) /\ Len(s) = Limit /\ \A i \in 1 .. Limit : s[i] = rows[i]
    <3>1. \A i \in 1 .. Limit : rows[i] \in some
      BY <1>3, <1>5
    <3> QED BY <2>1, <3>1, SubSeqProperties
  <2>4. DOMAIN s = 1 .. Limit
    BY <2>3
  <2>5. Decreasing(s)
    BY <1>2, <1>5, <2>3, <2>4 DEF Decreasing
  <2>6. \A i \in 1 .. Limit : s[i] >= rows[Limit]
    BY <1>2, <1>3, <1>5, <2>3
  <2>7. \A m \in some : m >= rows[Limit] => Shows(s, m)
    <3> SUFFICES ASSUME NEW m \in some, m >= rows[Limit] PROVE Shows(s, m)
      OBVIOUS
    <3>1. PICK i \in 1 .. N : rows[i] = m
      BY <1>4
    <3>2. i <= Limit
      BY <1>2, <1>3, <2>2, <3>1
    <3> QED BY <2>3, <2>4, <3>1, <3>2 DEF Shows
  <2> QED BY <1>3, <2>2, <2>3, <2>4, <2>5, <2>6, <2>7
<1>6. CASE N <= Limit
  <2>1. Page(rows).items = rows /\ Page(rows).next = 0
    BY <1>3, <1>6 DEF Page, NoMore
  <2>2. Decreasing(rows)
    BY <1>2, <1>3 DEF Decreasing
  <2>3. \A m \in some : Shows(rows, m)
    BY <1>3, <1>4 DEF Shows
  <2> QED BY <1>3, <2>1, <2>2, <2>3 DEF NoMore
<1> QED BY <1>1, <1>5, <1>6

\* What follows a page was older, and goes on without a gap.
LEMMA FetchKept == ASSUME ChatInv, FetchPage PROVE ChatInv'
<1>1. /\ ChatTypes /\ HistoryInv
      /\ UNCHANGED <<send, live, submitted, messages, persisted, ackTimers, orphaned, unheard, slipped>>
  BY DEF ChatInv, FetchPage, service, aux
<1>2. /\ \A m \in Messages : m \in Nat /\ m # 0
      /\ Limit \in Nat /\ Limit > 0
      /\ pages.items \in Seq(Messages) /\ Len(pages.items) \in Nat
      /\ DOMAIN pages.items = 1 .. Len(pages.items)
      /\ pages.next \in Messages \cup {NoCursor, NoMore} /\ pages.next \in Int
      /\ messages \subseteq Messages /\ IsFiniteSet(messages)
  BY <1>1, ChatIs DEF ChatTypes
<1>3. pages.next # NoMore
  BY DEF FetchPage
<1>4. PICK some : some = {m \in messages : pages.next # NoCursor => m < pages.next}
  OBVIOUS
<1>5. PICK rows \in NewestFirst(some) :
        pages' = [items |-> pages.items \o Page(rows).items, next |-> Page(rows).next]
  BY <1>4 DEF FetchPage, ListMessages
<1>6. some \subseteq messages /\ some \in SUBSET Messages /\ IsFiniteSet(some)
  BY <1>2, <1>4, FS_Subset
<1>7. PICK t \in Seq(some) : t = Page(rows).items
  BY <1>2, <1>6, PageIs
<1>8. PICK nx \in some \cup {NoMore} : nx = Page(rows).next
  BY <1>2, <1>6, PageIs
<1>9. /\ Decreasing(t) /\ \A i \in DOMAIN t : t[i] >= nx
      /\ \A m \in some : m >= nx => Shows(t, m)
  BY <1>2, <1>6, <1>7, <1>8, PageIs
<1>10. /\ t \in Seq(Messages) /\ Len(t) \in Nat /\ DOMAIN t = 1 .. Len(t)
       /\ \A i \in DOMAIN t : t[i] \in some /\ t[i] \in Nat
       /\ nx \in Messages \cup {NoCursor, NoMore} /\ nx \in Nat /\ nx # NoCursor
  <2>1. t \in Seq(some) /\ \A i \in DOMAIN t : t[i] \in some
    BY <1>7
  <2>2. \A m \in some : m \in Messages /\ m \in Nat /\ m # 0
    BY <1>2, <1>6
  <2>3. nx \in Messages \cup {NoCursor, NoMore} /\ nx \in Nat /\ nx # NoCursor
    <3>1. nx \in some \/ nx = NoMore
      BY <1>8
    <3> QED BY <2>2, <3>1 DEF NoMore, NoCursor
  <2>4. Len(t) \in Nat /\ DOMAIN t = 1 .. Len(t)
    BY <2>1, LenProperties
  <2>5. t \in Seq(Messages)
    <3>1. some \subseteq Messages
      BY <1>6
    <3> QED BY <2>1, <3>1, SeqMonotonic
  <2> QED BY <2>1, <2>2, <2>3, <2>4, <2>5
<1>11. PICK s \in Seq(Messages) : s = pages.items
  BY <1>2
<1>12. PICK all \in Seq(Messages) : all = s \o t
  BY <1>10, <1>11, ConcatProperties, Zenon
<1>13. pages' = [items |-> all, next |-> nx] /\ pages'.items = all /\ pages'.next = nx
  BY <1>5, <1>7, <1>8, <1>11, <1>12
<1>14. /\ Len(s) \in Nat /\ Len(all) = Len(s) + Len(t) /\ DOMAIN all = 1 .. Len(s) + Len(t)
       /\ \A i \in 1 .. Len(s) : all[i] = s[i]
       /\ \A i \in Len(s) + 1 .. Len(s) + Len(t) : all[i] = t[i - Len(s)] /\ i - Len(s) \in 1 .. Len(t)
       /\ \A i \in 1 .. Len(t) : all[i + Len(s)] = t[i] /\ i + Len(s) \in DOMAIN all
  BY <1>10, <1>11, <1>12
<1>15. /\ Decreasing(s) /\ \A i \in 1 .. Len(s) : s[i] \in messages /\ s[i] >= pages.next
       /\ pages.next = NoCursor => Len(s) = 0
       /\ DOMAIN s = 1 .. Len(s)
  BY <1>1, <1>2, <1>11 DEF HistoryInv
<1>16. \A i \in 1 .. Len(s), j \in 1 .. Len(t) : s[i] > t[j] /\ s[i] \in Nat /\ s[i] >= nx
  <2> SUFFICES ASSUME NEW i \in 1 .. Len(s), NEW j \in 1 .. Len(t)
               PROVE  s[i] > t[j] /\ s[i] \in Nat /\ s[i] >= nx
    OBVIOUS
  <2>1. pages.next # NoCursor
    BY <1>14, <1>15
  <2>2. s[i] \in messages /\ s[i] >= pages.next
    BY <1>15
  <2>3. s[i] \in Nat
    BY <1>2, <2>2
  <2>4. t[j] < pages.next /\ t[j] \in Nat /\ t[j] >= nx
    BY <1>4, <1>9, <1>10, <2>1
  <2>5. pages.next \in Int
    BY <1>2
  <2> QED BY <1>10, <2>2, <2>3, <2>4, <2>5
<1>17. ChatTypes'
  <2>1. pages' \in [items : Seq(Messages), next : Messages \cup {NoCursor, NoMore}]
    BY <1>10, <1>12, <1>13
  <2> QED BY <1>1, <2>1 DEF ChatTypes, NoCursor, NoMore
<1>18. RowsInv'
  BY <1>1 DEF ChatInv, RowsInv
<1>19. HistoryInv'
  <2>1. Decreasing(all)
    <3> SUFFICES ASSUME NEW i \in 1 .. Len(s) + Len(t), NEW j \in 1 .. Len(s) + Len(t), i < j
                 PROVE  all[i] > all[j]
      BY <1>14 DEF Decreasing
    <3>1. CASE j <= Len(s)
      <4>1. i \in 1 .. Len(s) /\ j \in 1 .. Len(s)
        BY <1>10, <1>14, <3>1
      <4>2. all[i] = s[i] /\ all[j] = s[j]
        BY <1>14, <4>1
      <4> QED BY <1>15, <4>1, <4>2 DEF Decreasing
    <3>2. CASE i <= Len(s) /\ j > Len(s)
      <4>1. i \in 1 .. Len(s) /\ j \in Len(s) + 1 .. Len(s) + Len(t)
        BY <1>10, <1>14, <3>2
      <4> QED BY <1>14, <1>16, <4>1
    <3>3. CASE i > Len(s)
      <4>1. i \in Len(s) + 1 .. Len(s) + Len(t) /\ j \in Len(s) + 1 .. Len(s) + Len(t)
        BY <1>10, <1>14, <3>3
      <4>2. i - Len(s) < j - Len(s)
        BY <1>14
      <4> QED BY <1>9, <1>10, <1>14, <4>1, <4>2 DEF Decreasing
    <3> QED BY <1>10, <1>14, <3>1, <3>2, <3>3
  <2>2. ASSUME NEW i \in DOMAIN all PROVE all[i] \in messages /\ all[i] >= nx
    <3>1. CASE i <= Len(s)
      <4>1. CASE Len(t) = 0
        <5>1. i \in 1 .. Len(s) /\ pages.next # NoCursor /\ s[i] >= pages.next /\ s[i] \in messages
          BY <1>10, <1>14, <1>15, <3>1
        <5>2. nx <= s[i]
          <6>1. ~(nx \in some)
            BY <1>9, <1>10, <4>1 DEF Shows
          <6> QED BY <1>2, <1>8, <5>1, <6>1 DEF NoMore
        <5> QED BY <1>14, <5>1, <5>2
      <4>2. CASE Len(t) # 0
        <5>1. i \in 1 .. Len(s) /\ 1 \in 1 .. Len(t)
          BY <1>10, <1>14, <3>1, <4>2
        <5> QED BY <1>14, <1>15, <1>16, <5>1
      <4> QED BY <4>1, <4>2
    <3>2. CASE i > Len(s)
      <4>1. i \in Len(s) + 1 .. Len(s) + Len(t)
        BY <1>10, <1>14, <3>2
      <4> QED BY <1>6, <1>9, <1>10, <1>14, <4>1
    <3> QED BY <1>10, <1>14, <3>1, <3>2
  <2> QED BY <1>1, <1>10, <1>13, <2>1, <2>2 DEF HistoryInv, NoCursor
<1>20. MeetingInv'
  <2> SUFFICES ASSUME NEW m \in messages \ slipped, m >= nx PROVE Shows(all, m) \/ live[m] # "none"
    BY <1>1, <1>13 DEF MeetingInv, ReadPast
  <2>1. CASE ReadPast(m)
    <3>1. Shows(s, m) => Shows(all, m)
      BY <1>10, <1>14, <1>15 DEF Shows
    <3> QED BY <1>11, <2>1, <3>1 DEF ChatInv, MeetingInv
  <2>2. CASE ~ReadPast(m)
    <3>1. m \in some
      BY <1>2, <1>4, <2>2 DEF ReadPast
    <3>2. Shows(t, m)
      BY <1>9, <3>1
    <3> QED BY <1>10, <1>14, <3>2 DEF Shows
  <2> QED BY <2>1, <2>2
<1> QED BY <1>17, <1>18, <1>19, <1>20 DEF ChatInv

\* Nothing is read, nothing is stored, and no row goes away.
LEMMA HistoryStays ==
  ASSUME ChatInv, UNCHANGED <<pages, messages, slipped>>,
         \A m \in Messages : live[m] # "none" => live'[m] # "none"
  PROVE  HistoryInv' /\ MeetingInv'
<1>1. HistoryInv' /\ messages \subseteq Messages
  BY DEF ChatInv, ChatTypes, HistoryInv, NoCursor
<1>2. MeetingInv'
  BY <1>1 DEF ChatInv, MeetingInv, ReadPast, NoCursor
<1> QED BY <1>1, <1>2

\* A message is sent, relayed, or not.
LEMMA SendKept ==
  ASSUME ChatInv, NEW m \in Messages, Submit(m) \/ Relay(m) \/ Refuse(m) \/ SendFailed(m)
  PROVE  ChatInv'
<1>1. /\ ChatTypes /\ RowsInv /\ submitted \subseteq Messages
      /\ send \in [Messages -> {"draft", "emitted", "ok", "unpublished", "refused"}]
      /\ live \in [Messages -> {"none", "pending", "failed", "sent"}]
  BY DEF ChatInv, ChatTypes
<1>2. CASE Submit(m) \/ Refuse(m)
  <2>1. UNCHANGED <<live, submitted, messages, persisted, ackTimers, orphaned, unheard, slipped, pages>>
    BY <1>2 DEF Submit, Refuse, service, list, aux
  <2>2. PICK at \in {"emitted", "refused"} :
          send' = [send EXCEPT ![m] = at] /\ send[m] \in {"draft", "emitted"}
    BY <1>2 DEF Submit, Refuse
  <2>3. ChatTypes'
    BY <1>1, <2>1, <2>2 DEF ChatTypes, NoCursor, NoMore
  <2>4. RowsInv'
    BY <1>1, <2>1, <2>2 DEF RowsInv
  <2> QED BY <2>1, <2>3, <2>4, HistoryStays DEF ChatInv
<1>3. CASE Relay(m)
  <2>1. /\ UNCHANGED <<messages, persisted, pages, orphaned, unheard, slipped>>
        /\ send[m] \in {"draft", "emitted"} /\ submitted' \in {submitted, submitted \cup {m}}
    BY <1>3 DEF Relay, aux
  <2>2. PICK at \in {"ok", "unpublished"} : send' = [send EXCEPT ![m] = at]
    BY <1>3 DEF Relay
  <2>3. \/ live' = [live EXCEPT ![m] = "pending"] /\ ackTimers' = ackTimers \cup {m}
        \/ live' = live /\ ackTimers' = ackTimers
    BY <1>3 DEF Relay, Hear
  <2>4. ChatTypes'
    BY <1>1, <2>1, <2>2, <2>3 DEF ChatTypes, NoCursor, NoMore
  <2>5. m \notin messages
    BY <1>1, <2>1 DEF RowsInv
  <2>6. RowsInv'
    BY <1>1, <2>1, <2>2, <2>3, <2>5 DEF RowsInv
  <2> QED BY <1>1, <2>1, <2>3, <2>4, <2>6, HistoryStays DEF ChatInv
<1>4. CASE SendFailed(m)
  <2>1. /\ UNCHANGED <<submitted, messages, persisted, ackTimers, orphaned, unheard, slipped, pages>>
        /\ send' = [send EXCEPT ![m] = "ok"] /\ send[m] = "unpublished"
        /\ live' = IF HasTempKey(m) THEN [live EXCEPT ![m] = "failed"] ELSE live
    BY <1>4 DEF SendFailed, service, aux
  <2>2. ChatTypes'
    BY <1>1, <2>1 DEF ChatTypes, NoCursor, NoMore
  <2>3. RowsInv'
    BY <1>1, <2>1 DEF RowsInv, HasTempKey
  <2> QED BY <1>1, <2>1, <2>2, <2>3, HistoryStays DEF ChatInv
<1> QED BY <1>2, <1>3, <1>4

\* The chat service stores it, once.
LEMMA ServiceKept ==
  ASSUME ChatInv, NEW m \in Messages, Persist(m) \/ DeliverAgain(m) PROVE ChatInv'
<1>1. ChatTypes /\ RowsInv /\ HistoryInv /\ submitted \subseteq Messages /\ messages \subseteq Messages
  BY DEF ChatInv, ChatTypes
<1>2. CASE Persist(m)
  <2>1. /\ m \in submitted /\ submitted' = submitted \ {m} /\ messages' = messages \cup {m}
        /\ persisted' = IF m \in messages THEN persisted ELSE persisted \cup {m}
        /\ slipped' = IF m \notin messages /\ live[m] = "none" /\ ReadPast(m)
                      THEN slipped \cup {m} ELSE slipped
        /\ UNCHANGED <<send, live, ackTimers, pages, orphaned, unheard>>
    BY <1>2 DEF Persist, PersistWithEvent, list
  <2>2. ChatTypes'
    <3>1. IsFiniteSet(messages')
      BY <1>1, <2>1, FS_AddElement DEF ChatTypes
    <3> QED BY <1>1, <2>1, <3>1 DEF ChatTypes, NoCursor, NoMore
  <2>3. RowsInv'
    BY <1>1, <2>1 DEF RowsInv
  <2>4. HistoryInv'
    BY <1>1, <2>1 DEF HistoryInv, NoCursor
  <2>5. MeetingInv'
    <3> SUFFICES ASSUME NEW k \in messages' \ slipped', ReadPast(k), ~Shows(pages.items, k)
                 PROVE  live[k] # "none"
      BY <2>1 DEF MeetingInv, ReadPast, NoCursor
    <3>1. CASE k \in messages
      BY <2>1, <3>1 DEF ChatInv, MeetingInv
    <3>2. CASE k \notin messages
      BY <2>1, <3>2
    <3> QED BY <3>1, <3>2
  <2> QED BY <2>2, <2>3, <2>4, <2>5 DEF ChatInv
<1>3. CASE DeliverAgain(m)
  <2>1. /\ m \in messages
        /\ submitted' \in {submitted, submitted \cup {m}}
        /\ persisted' \in {persisted, persisted \cup {m}}
        /\ UNCHANGED <<send, live, messages, ackTimers, orphaned, unheard, slipped, pages>>
    BY <1>3 DEF DeliverAgain, list, aux
  <2>2. ChatTypes'
    BY <1>1, <2>1 DEF ChatTypes, NoCursor, NoMore
  <2>3. RowsInv'
    BY <1>1, <2>1 DEF RowsInv
  <2> QED BY <2>1, <2>2, <2>3, HistoryStays DEF ChatInv
<1> QED BY <1>2, <1>3

\* The page hears that it is stored, or gives up waiting.
LEMMA AckKept ==
  ASSUME ChatInv, NEW m \in Messages, BroadcastAck(m) \/ AckTimeout(m) PROVE ChatInv'
<1>1. /\ ChatTypes /\ RowsInv
      /\ live \in [Messages -> {"none", "pending", "failed", "sent"}]
  BY DEF ChatInv, ChatTypes
<1>2. CASE BroadcastAck(m)
  <2>1. /\ m \in persisted /\ persisted' = persisted \ {m}
        /\ UNCHANGED <<send, submitted, messages, pages, orphaned, slipped>>
        /\ \/ /\ live' = [live EXCEPT ![m] = IF live[m] = "none" THEN live[m] ELSE "sent"]
              /\ ackTimers' = ackTimers \ {m} /\ unheard' = unheard
           \/ unheard' = unheard \cup {m} /\ UNCHANGED <<live, ackTimers>>
    BY <1>2 DEF BroadcastAck, OnAck
  <2>2. ChatTypes'
    BY <1>1, <2>1 DEF ChatTypes, NoCursor, NoMore
  <2>3. m \in messages
    BY <1>1, <2>1 DEF RowsInv
  <2>4. RowsInv'
    BY <1>1, <2>1, <2>3 DEF RowsInv
  <2> QED BY <1>1, <2>1, <2>2, <2>4, HistoryStays DEF ChatInv
<1>3. CASE AckTimeout(m)
  <2>1. /\ ackTimers' = ackTimers \ {m}
        /\ live' = IF HasTempKey(m) THEN [live EXCEPT ![m] = "failed"] ELSE live
        /\ UNCHANGED <<send, submitted, messages, persisted, pages, orphaned, unheard, slipped>>
    BY <1>3 DEF AckTimeout, service, aux
  <2>2. ChatTypes'
    BY <1>1, <2>1 DEF ChatTypes, NoCursor, NoMore
  <2>3. RowsInv'
    BY <1>1, <2>1 DEF RowsInv, HasTempKey
  <2> QED BY <1>1, <2>1, <2>2, <2>3, HistoryStays DEF ChatInv
<1> QED BY <1>2, <1>3

\* The page with its rows on the one side and its history on the other.
LEMMA PanelIsRight == ChatInv => ChatTellsTheTruth
<1> SUFFICES ASSUME ChatInv PROVE ChatTellsTheTruth
  OBVIOUS
<1>1. /\ ChatTypes /\ RowsInv /\ HistoryInv /\ MeetingInv
      /\ DOMAIN pages.items = 1 .. Len(pages.items) /\ Len(pages.items) \in Nat
  BY ChatIs DEF ChatInv
<1> SUFFICES ASSUME NEW m \in Messages
             PROVE LET onItsWay == m \in submitted \cup persisted \cup unheard IN
    /\ Row(m) = "sent" => m \in messages
    /\ Row(m) = "pending" => m \in ackTimers \cup orphaned
    /\ m \in messages /\ ~onItsWay => Row(m) \in {"sent", "none"}
    /\ Contains(Historical, m) /\ m \in LiveShown => onItsWay
    /\ m \in messages \ slipped /\ ReadPast(m) => Contains(Historical, m) \/ m \in LiveShown
    /\ Cardinality({k \in DOMAIN Historical : Historical[k] = m}) <= 1
  BY DEF ChatTellsTheTruth
<1>2. Contains(Historical, m) <=> Shows(pages.items, m)
  BY <1>1 DEF Contains, Historical, Shows
<1>3. Contains(Historical, m) => m \in messages
  BY <1>1, <1>2 DEF HistoryInv, Shows
<1>4. m \in LiveShown <=> live[m] # "none" /\ ~(live[m] = "sent" /\ Contains(Historical, m))
  BY DEF LiveShown
<1>5. /\ live[m] \in {"none", "pending", "failed", "sent"}
      /\ live[m] = "sent" => m \in messages
      /\ live[m] = "pending" => m \in ackTimers \cup orphaned
      /\ m \in messages /\ live[m] \in {"pending", "failed"} => m \in persisted \cup unheard
  BY <1>1 DEF ChatTypes, RowsInv
<1>6. Row(m) = IF m \in LiveShown THEN live[m] ELSE IF Contains(Historical, m) THEN "sent" ELSE "none"
  BY DEF Row
<1>7. m \in messages \ slipped /\ ReadPast(m) => Contains(Historical, m) \/ live[m] # "none"
  BY <1>1, <1>2 DEF MeetingInv
<1>8. Cardinality({k \in DOMAIN Historical : Historical[k] = m}) <= 1
  <2>1. CASE \E k \in DOMAIN pages.items : pages.items[k] = m
    <3>1. PICK k \in DOMAIN pages.items : pages.items[k] = m
      BY <2>1
    <3>2. \A j \in DOMAIN pages.items : pages.items[j] = m => j = k
      <4> SUFFICES ASSUME NEW j \in DOMAIN pages.items, pages.items[j] = m PROVE j = k
        OBVIOUS
      <4>1. m \in Nat /\ ~(m > m) /\ j \in Nat /\ k \in Nat
        BY <1>1, <3>1, ChatIs
      <4>2. ~(j < k) /\ ~(k < j)
        BY <1>1, <3>1, <4>1 DEF HistoryInv, Decreasing
      <4> QED BY <4>1, <4>2
    <3>3. {j \in DOMAIN Historical : Historical[j] = m} = {k}
      BY <3>1, <3>2 DEF Historical
    <3> QED BY <3>3, FS_Singleton
  <2>2. CASE ~\E k \in DOMAIN pages.items : pages.items[k] = m
    <3>1. {j \in DOMAIN Historical : Historical[j] = m} = {}
      BY <2>2 DEF Historical
    <3> QED BY <3>1, FS_EmptySet
  <2> QED BY <2>1, <2>2
<1> QED BY <1>3, <1>4, <1>5, <1>6, <1>7, <1>8

\* ChatTellsTheTruth holds of the panel and its history, for any messages, any
\* length of a page, and any number of repeats, drops and replaced sockets.
THEOREM ChatTells == ChatSpec => []ChatTellsTheTruth
<1>1. ChatInit => ChatInv
  <2> SUFFICES ASSUME ChatInit PROVE ChatInv
    OBVIOUS
  <2>1. /\ send = [m \in Messages |-> "draft"] /\ live = [m \in Messages |-> "none"]
        /\ submitted = {} /\ messages = {} /\ persisted = {}
        /\ pages = [items |-> <<>>, next |-> NoCursor]
    BY DEF ChatInit
  <2>2. pages.items = <<>> /\ pages.next = NoCursor /\ DOMAIN pages.items = {}
    BY <2>1
  <2>3. ChatTypes
    <3>1. IsFiniteSet(messages)
      BY <2>1, FS_EmptySet
    <3>2. pages \in [items : Seq(Messages), next : Messages \cup {NoCursor, NoMore}]
      BY <2>1
    <3> QED BY <2>1, <3>1, <3>2 DEF ChatTypes
  <2>4. RowsInv /\ MeetingInv
    BY <2>1 DEF RowsInv, MeetingInv
  <2>5. HistoryInv
    BY <2>2 DEF HistoryInv, Decreasing
  <2> QED BY <2>3, <2>4, <2>5 DEF ChatInv
<1>2. ChatInv /\ [ChatNext]_chatVars => ChatInv'
  <2> SUFFICES ASSUME ChatInv, [ChatNext]_chatVars PROVE ChatInv'
    OBVIOUS
  <2>1. ASSUME NEW m \in Messages, Submit(m) \/ Relay(m) \/ Refuse(m) \/ SendFailed(m) PROVE ChatInv'
    BY <2>1, SendKept
  <2>2. ASSUME NEW m \in Messages, Persist(m) \/ DeliverAgain(m) PROVE ChatInv'
    BY <2>2, ServiceKept
  <2>3. ASSUME NEW m \in Messages, BroadcastAck(m) \/ AckTimeout(m) PROVE ChatInv'
    BY <2>3, AckKept
  <2>4. CASE FetchPage
    BY <2>4, FetchKept
  <2>5. CASE ReplaceSocket \/ ChatFollows \/ UNCHANGED chatVars
    <3>1. /\ UNCHANGED <<send, submitted, messages, persisted, live, pages, unheard, slipped>>
          /\ \/ ackTimers' = {} /\ orphaned' = orphaned \cup ackTimers
             \/ UNCHANGED <<ackTimers, orphaned>>
      BY <2>5 DEF ReplaceSocket, ChatFollows, chatVars, service, list, aux
    <3>2. ChatTypes'
      BY <3>1 DEF ChatInv, ChatTypes, NoCursor, NoMore
    <3>3. RowsInv'
      BY <3>1 DEF ChatInv, RowsInv
    <3> QED BY <3>1, <3>2, <3>3, HistoryStays DEF ChatInv
  <2> QED BY <2>1, <2>2, <2>3, <2>4, <2>5 DEF ChatNext
<1> QED BY <1>1, <1>2, PanelIsRight, PTL DEF ChatSpec

-------------------------------------------------------------------------------
(* Player *)

Long == Duration * Second

\* How far the player is from where the page expects it.
Drift == position - Expected(elapsed)

PlayerTypes ==
  /\ item \in Nat /\ elapsed \in 0 .. Long /\ \E k \in 0 .. Duration : elapsed = k * Second
  /\ skew \in Int /\ position \in 0 .. Long
  /\ player \in {"loading", "made", "ready"}
  /\ state \in {"UNSTARTED", "BUFFERING", "PLAYING", "ENDED"}
  /\ rate \in -1 .. 1 /\ buffered \in -1 .. MaxBuffer
  /\ calm \in Nat /\ seeks \in Nat /\ slow \in Nat

\* The video that the player was made for, or was given since, is the room's.
VideoInv ==
  /\ player # "loading" /\ ~swallowed => video = item
  /\ player # "ready" => state = "UNSTARTED" /\ seeks = 0
  /\ state = "UNSTARTED" => calm = 0

\* Playing undisturbed, the player is nudged, and by a clock that is right to the
\* second it gets nearer by a step a second.
NudgeInv ==
  calm > 0 =>
    /\ state \in {"PLAYING", "ENDED"} /\ elapsed >= Second
    /\ state = "PLAYING" =>
         /\ rate = IF Abs(Drift) > Second THEN (IF Drift > 0 THEN -1 ELSE 1) ELSE 0
         /\ Abs(Drift) <= 3 * Second
         /\ Abs(skew) <= Second =>
              Abs(Drift) <= Second \/ Abs(Drift) <= 3 * Second + 1 - calm

EndInv ==
  state = "ENDED" =>
    /\ position = Long
    /\ calm > 2 * Second /\ Abs(skew) <= Second => position - elapsed <= Second + Abs(skew)

\* Where the player is when none but its last seek counts.
LastSeek ==
  /\ state = "BUFFERING" =>
       /\ buffered \in 0 .. 2 /\ Drift <= 0
       /\ Drift >= -(buffered * Second)
  /\ state = "PLAYING" /\ calm = 0 => Drift <= 0 /\ Drift >= -(2 * Second)

\* After a seek the player falls behind by what it buffers, and no more: a second
\* seek follows one that buffered for more than two seconds.
SeekInv ==
  Abs(skew) <= Second =>
    /\ seeks <= 1 + slow
    /\ seeks = 1 + slow => LastSeek

PlayerInv == PlayerTypes /\ VideoInv /\ NudgeInv /\ EndInv /\ SeekInv

\* A video is long enough for a whole second after every second but its last.
LEMMA SecondsAre ==
  /\ Second \in Nat /\ Second > 0 /\ Duration \in Nat /\ Long \in Nat /\ Second <= Long
  /\ \A k \in 0 .. Duration :
       /\ k * Second \in 0 .. Long
       /\ k * Second < Long =>
            k + 1 \in 0 .. Duration /\ k * Second + Second = (k + 1) * Second /\ k * Second + Second <= Long
<1>1. Second \in Nat /\ Second > 0 /\ Duration \in Nat /\ Duration > 0
  BY PlayerAssumption
<1>2. ASSUME NEW a \in Nat, NEW b \in Nat, a <= b PROVE a * Second \in Nat /\ a * Second <= b * Second
  <2>1. PICK c \in Nat : b = a + c
    <3>1. b - a \in Nat /\ b = a + (b - a)
      BY <1>2
    <3> QED BY <3>1
  <2>2. b * Second = a * Second + c * Second
    BY <1>1, <2>1
  <2>3. a * Second \in Nat /\ c * Second \in Nat
    BY <1>1
  <2> QED BY <2>2, <2>3
<1>3. Long \in Nat /\ Second <= Long
  <2>1. 1 * Second <= Duration * Second /\ 1 * Second = Second /\ Duration * Second \in Nat
    BY <1>1, <1>2
  <2> QED BY <2>1 DEF Long
<1>4. ASSUME NEW k \in 0 .. Duration, k * Second < Long
      PROVE  k + 1 \in 0 .. Duration /\ k * Second + Second = (k + 1) * Second /\ k * Second + Second <= Long
  <2>1. k # Duration
    BY <1>3, <1>4 DEF Long
  <2>2. k + 1 \in Nat /\ k + 1 <= Duration /\ k \in Nat
    BY <1>1, <2>1
  <2>3. (k + 1) * Second <= Long
    BY <1>1, <1>2, <2>2 DEF Long
  <2>4. (k + 1) * Second = k * Second + Second
    BY <1>1, <2>2
  <2> QED BY <2>2, <2>3, <2>4
<1>5. ASSUME NEW k \in 0 .. Duration PROVE k * Second \in 0 .. Long
  <2>1. k \in Nat /\ k <= Duration
    BY <1>1
  <2>2. k * Second \in Nat /\ k * Second <= Duration * Second
    BY <1>1, <1>2, <2>1
  <2> QED BY <1>3, <2>2 DEF Long
<1> QED BY <1>1, <1>3, <1>4, <1>5

\* Positions stay within the video.
LEMMA Clamped ==
  ASSUME NEW t \in Int
  PROVE  /\ Clamp(t) \in 0 .. Long
         /\ Clamp(t) = IF t < 0 THEN 0 ELSE IF t > Long THEN Long ELSE t
  BY SecondsAre DEF Clamp, Long

\* In a second the room moves on by a second or waits for its first or at its
\* last one, and so does a player, give or take its nudge.
LEMMA OneSecond ==
  ASSUME NEW e \in 0 .. Long, e + Second <= Long, NEW k \in Int,
         NEW P \in 0 .. Long, NEW r \in -1 .. 1, NEW D \in Int, D = P - Clamp(e + k),
         NEW Q \in Int, Q = Clamp(P + Second + r), NEW F \in Int, F = Q - Clamp(e + Second + k)
  PROVE  /\ Clamp(e + Second) = e + Second /\ Q \in 0 .. Long
         /\ Clamp(e + Second + k) - Clamp(e + k) \in 0 .. Second
         /\ Q = Long => P + Second + r >= Long
         /\ Q # Long => /\ F >= D + r /\ F <= D + r + Second
                        /\ e >= Second /\ k >= -Second => F = D + r \/ F < 0
<1>1. /\ Second \in Nat /\ Second > 0 /\ Long \in Nat
      /\ e \in Int /\ e >= 0 /\ k \in Int
      /\ P \in Int /\ P >= 0 /\ r \in Int /\ r >= -1 /\ r <= 1
  BY SecondsAre
<1>2. /\ Clamp(e + Second) = e + Second
      /\ Clamp(e + k) = IF e + k < 0 THEN 0 ELSE IF e + k > Long THEN Long ELSE e + k
      /\ Clamp(e + Second + k) = IF e + Second + k < 0 THEN 0
                                 ELSE IF e + Second + k > Long THEN Long ELSE e + Second + k
      /\ Clamp(P + Second + r) = IF P + Second + r < 0 THEN 0
                                 ELSE IF P + Second + r > Long THEN Long ELSE P + Second + r
      /\ Clamp(P + Second + r) \in 0 .. Long
  BY <1>1, Clamped
<1> QED BY <1>1, <1>2

\* The loop brings the player nearer, and seeks once at most after a disturbance.
LEMMA TickKept ==
  ASSUME PlayerInv, Tick PROVE PlayerInv'
<1>1. /\ Second \in Nat /\ Second > 0 /\ Long \in Nat /\ elapsed + Second <= Long
      /\ elapsed \in 0 .. Long /\ \E k \in 0 .. Duration : elapsed + Second = k * Second
  <2>1. elapsed < Long /\ \E k \in 0 .. Duration : elapsed = k * Second
    BY DEF PlayerInv, PlayerTypes, Tick, Long
  <2>2. elapsed \in 0 .. Long
    BY DEF PlayerInv, PlayerTypes
  <2> QED BY <2>1, <2>2, SecondsAre
<1>2. /\ position \in 0 .. Long /\ rate \in -1 .. 1
      /\ position \in Int /\ rate \in Int /\ skew \in Int /\ elapsed \in Int /\ calm \in Nat
      /\ seeks \in Nat /\ slow \in Nat /\ buffered \in Int /\ MaxBuffer \in Nat
  BY <1>1, PlayerAssumption DEF PlayerInv, PlayerTypes
<1>3. PICK Q \in 0 .. Long : Q = Clamp(position + Second + rate)
  BY <1>1, <1>2, Clamped
<1>4. PICK D \in Int : D = position - Clamp(elapsed + skew)
  BY <1>1, <1>2, Clamped
<1>5. PICK t \in Int : t = Clamp(elapsed + Second + skew)
  BY <1>1, <1>2, Clamped
<1>6. PICK F \in Int : F = Q - t
  BY <1>3, <1>5
<1>7. /\ Clamp(elapsed + Second) = elapsed + Second
      /\ t - Clamp(elapsed + skew) \in 0 .. Second /\ t \in 0 .. Long
      /\ Q = Long => position + Second + rate >= Long
      /\ Q # Long => /\ F >= D + rate /\ F <= D + rate + Second
                     /\ elapsed >= Second /\ skew >= -Second => F = D + rate \/ F < 0
  BY <1>1, <1>2, <1>3, <1>4, <1>5, <1>6, OneSecond, Clamped
<1>8. /\ elapsed' = elapsed + Second /\ elapsed' \in 0 .. Long
      /\ \E k \in 0 .. Duration : elapsed' = k * Second
      /\ UNCHANGED <<item, skew, player, video, swallowed>>
      /\ Expected(elapsed') = t /\ Expected(elapsed)' = t
  BY <1>1, <1>2, <1>5, <1>7 DEF Tick, Expected
<1>9. Drift = D
  BY <1>4 DEF Drift, Expected
<1>10. CASE state = "PLAYING" /\ Q = Long
  <2>1. /\ state' = "ENDED" /\ position' = Long
        /\ UNCHANGED <<rate, wasBuffering, buffered, calm, seeks, slow>>
    BY <1>3, <1>7, <1>10 DEF Tick, Long
  <2>2. PlayerTypes' /\ VideoInv'
    BY <1>1, <1>2, <1>8, <1>10, <2>1 DEF PlayerInv, PlayerTypes, VideoInv
  <2>3. NudgeInv'
    BY <1>1, <1>2, <1>8, <2>1 DEF PlayerInv, NudgeInv
  <2>6. SeekInv'
    <3>1. LastSeek'
      BY <2>1 DEF LastSeek
    <3> QED BY <1>8, <2>1, <3>1 DEF PlayerInv, SeekInv
  <2>4. ASSUME calm > 2 * Second, Abs(skew) <= Second
        PROVE  Long - (elapsed + Second) <= Second + Abs(skew)
    <3>1. rate = 0 /\ D <= Second /\ D >= -Second
      BY <1>1, <1>2, <1>9, <1>10, <2>4 DEF PlayerInv, NudgeInv, Abs
    <3>2. position + Second >= Long
      BY <1>1, <1>2, <1>7, <1>10, <3>1
    <3>3. Clamp(elapsed + skew) <= elapsed + Abs(skew)
      BY <1>1, <1>2, Clamped DEF Abs
    <3>4. position = D + Clamp(elapsed + skew) /\ Clamp(elapsed + skew) \in Int /\ Abs(skew) \in Int
      BY <1>1, <1>2, <1>4, Clamped DEF Abs
    <3> QED BY <1>1, <1>2, <3>1, <3>2, <3>3, <3>4
  <2>5. EndInv'
    BY <1>8, <2>1, <2>4 DEF EndInv
  <2> QED BY <2>2, <2>3, <2>5, <2>6 DEF PlayerInv
<1>11. CASE state = "PLAYING" /\ Q # Long
  <2>1. Correct(elapsed + Second, Q)
    BY <1>3, <1>7, <1>11 DEF Tick, Long
  <2>2. F = Q - Expected(elapsed + Second)
    BY <1>5, <1>6 DEF Expected
  <2>3. calm > 0 =>
          /\ elapsed >= Second /\ D <= 3 * Second /\ D >= -(3 * Second)
          /\ D > Second => rate = -1
          /\ D < -Second => rate = 1
          /\ D <= Second /\ D >= -Second => rate = 0
          /\ Abs(skew) <= Second =>
               \/ D <= Second /\ D >= -Second
               \/ D <= 3 * Second + 1 - calm /\ D >= -(3 * Second + 1 - calm)
    BY <1>1, <1>2, <1>9, <1>11 DEF PlayerInv, NudgeInv, Abs
  <2>4. CASE Abs(F) > 3 * Second
    <3>1. /\ position' = t /\ state' = "BUFFERING" /\ buffered' = 0 /\ wasBuffering' = TRUE
          /\ seeks' = seeks + 1 /\ calm' = 0 /\ rate' = 0 /\ slow' = slow
      BY <1>5, <2>1, <2>2, <2>4 DEF Correct, Jump, SeekTo, HardSeekOver, Expected
    <3>2. F > 3 * Second \/ F < -(3 * Second)
      BY <1>1, <2>4 DEF Abs
    <3>3. Abs(skew) <= Second => calm = 0 /\ skew >= -Second
      BY <1>1, <1>2, <1>7, <1>11, <2>3, <3>2 DEF Abs
    <3>4. Abs(skew) <= Second => seeks <= slow
      <4> SUFFICES ASSUME Abs(skew) <= Second PROVE seeks <= slow
        OBVIOUS
      <4>1. seeks <= 1 + slow
        BY DEF PlayerInv, SeekInv
      <4>2. seeks = 1 + slow => D <= 0 /\ D >= -(2 * Second)
        BY <1>9, <1>11, <3>3 DEF PlayerInv, SeekInv, LastSeek
      <4> QED BY <1>1, <1>2, <1>7, <1>11, <3>2, <4>1, <4>2
    <3>5. Drift' = 0
      BY <1>5, <1>8, <3>1 DEF Drift
    <3>6. PlayerTypes' /\ VideoInv'
      BY <1>1, <1>2, <1>7, <1>8, <1>11, <3>1, <3>4 DEF PlayerInv, PlayerTypes, VideoInv
    <3>7. NudgeInv' /\ EndInv'
      BY <3>1 DEF NudgeInv, EndInv
    <3>8. LastSeek'
      BY <1>1, <3>1, <3>5 DEF LastSeek
    <3>9. SeekInv'
      BY <1>2, <1>8, <3>1, <3>4, <3>8 DEF SeekInv
    <3> QED BY <3>6, <3>7, <3>9 DEF PlayerInv
  <2>5. CASE ~(Abs(F) > 3 * Second)
    <3>1. /\ rate' = IF Abs(F) > Second THEN (IF F > 0 THEN -1 ELSE 1) ELSE 0
          /\ position' = Q /\ calm' = calm + 1
          /\ UNCHANGED <<state, buffered, wasBuffering, seeks, slow>>
      <4>1. ~(Abs(Q - Expected(elapsed + Second)) > HardSeekOver)
        BY <2>2, <2>5 DEF HardSeekOver
      <4>2. IgnoreUnder = Second
        BY <1>1 DEF IgnoreUnder
      <4> QED BY <2>1, <2>2, <4>1, <4>2 DEF Correct
    <3>2. Drift' = F
      BY <1>5, <1>6, <1>8, <3>1 DEF Drift
    <3>3. F <= 3 * Second /\ F >= -(3 * Second)
      BY <1>1, <2>5 DEF Abs
    <3>4. Abs(skew) <= Second =>
            \/ F <= Second /\ F >= -Second
            \/ F <= 3 * Second + 1 - (calm + 1) /\ F >= -(3 * Second + 1 - (calm + 1))
      <4>1. Abs(skew) <= Second => skew >= -Second
        BY <1>1, <1>2 DEF Abs
      <4> QED BY <1>1, <1>2, <1>7, <1>11, <2>3, <3>3, <4>1
    <3>5. /\ Abs(F) <= 3 * Second
          /\ Abs(skew) <= Second => Abs(F) <= Second \/ Abs(F) <= 3 * Second + 1 - (calm + 1)
      BY <1>1, <1>2, <3>3, <3>4 DEF Abs
    <3>6. PlayerTypes' /\ VideoInv'
      BY <1>1, <1>2, <1>3, <1>8, <1>11, <3>1 DEF PlayerInv, PlayerTypes, VideoInv
    <3>7. NudgeInv'
      BY <1>1, <1>2, <1>8, <1>11, <3>1, <3>2, <3>5 DEF NudgeInv
    <3>8. EndInv' /\ SeekInv'
      <4>1. LastSeek'
        BY <1>2, <1>11, <3>1 DEF LastSeek
      <4> QED BY <1>2, <1>8, <1>11, <3>1, <4>1 DEF PlayerInv, EndInv, SeekInv
    <3> QED BY <3>6, <3>7, <3>8 DEF PlayerInv
  <2> QED BY <2>4, <2>5
<1>12. CASE state # "PLAYING"
  <2>1. /\ buffered # MaxBuffer
        /\ buffered' = IF state = "BUFFERING" /\ buffered >= 0 THEN buffered + 1 ELSE buffered
        /\ slow' = IF state = "BUFFERING" /\ buffered = 2 /\ seeks > 0 THEN slow + 1 ELSE slow
        /\ UNCHANGED <<position, state, rate, wasBuffering, calm, seeks>>
    BY <1>12 DEF Tick
  <2>2. PICK G \in Int : G = position - t /\ G <= D /\ G >= D - Second
    BY <1>1, <1>2, <1>4, <1>5, <1>7, Clamped
  <2>3. Drift' = G
    BY <1>8, <2>1, <2>2 DEF Drift
  <2>4. PlayerTypes' /\ VideoInv'
    BY <1>1, <1>2, <1>8, <2>1 DEF PlayerInv, PlayerTypes, VideoInv
  <2>5. NudgeInv'
    BY <1>1, <1>2, <1>8, <1>12, <2>1 DEF PlayerInv, NudgeInv
  <2>6. EndInv'
    <3>1. Abs(skew) \in Int
      BY <1>2 DEF Abs
    <3> QED BY <1>1, <1>2, <1>8, <2>1, <3>1 DEF PlayerInv, EndInv
  <2>7. SeekInv'
    <3> SUFFICES ASSUME Abs(skew) <= Second
                 PROVE  seeks' <= 1 + slow' /\ (seeks' = 1 + slow' => LastSeek')
      BY <1>8 DEF SeekInv
    <3>1. seeks' <= 1 + slow'
      BY <1>2, <2>1 DEF PlayerInv, SeekInv
    <3>2. ASSUME seeks' = 1 + slow' PROVE LastSeek'
      <4>1. seeks = 1 + slow /\ ~(state = "BUFFERING" /\ buffered = 2)
        BY <1>2, <2>1, <3>2 DEF PlayerInv, SeekInv
      <4>2. state = "BUFFERING" => buffered \in 0 .. 1 /\ D <= 0 /\ D >= -(buffered * Second)
        BY <1>2, <1>9, <4>1 DEF PlayerInv, SeekInv, LastSeek
      <4>3. ASSUME state = "BUFFERING"
            PROVE  buffered' \in 0 .. 2 /\ G <= 0 /\ G >= -(buffered' * Second)
        <5>1. CASE buffered = 0
          BY <1>1, <1>2, <2>1, <2>2, <4>2, <4>3, <5>1
        <5>2. CASE buffered = 1
          BY <1>1, <1>2, <2>1, <2>2, <4>2, <4>3, <5>2
        <5> QED BY <4>2, <4>3, <5>1, <5>2
      <4> QED BY <1>12, <2>1, <2>3, <4>3 DEF LastSeek
    <3> QED BY <3>1, <3>2
  <2> QED BY <2>4, <2>5, <2>6, <2>7 DEF PlayerInv
<1> QED BY <1>10, <1>11, <1>12


\* Whole seconds are within the video too.
LEMMA WholeSeconds == ASSUME NEW t \in 0 .. Long PROVE Floor(t) \in 0 .. Long
<1>1. Second \in Nat /\ Second > 0 /\ Long \in Nat /\ t \in Nat /\ t <= Long
  BY SecondsAre
<1>2. t \div Second \in Int /\ (t \div Second) * Second <= t /\ (t \div Second) * Second >= 0
  BY <1>1
<1> QED BY <1>1, <1>2 DEF Floor

\* What the page expects is a place in the video, and drift is a difference.
LEMMA Places ==
  ASSUME PlayerInv
  PROVE  /\ Second \in Nat /\ Second > 0 /\ Long \in Nat /\ MaxBuffer \in Nat
         /\ elapsed \in Int /\ skew \in Int /\ position \in Int /\ rate \in Int /\ calm \in Nat
         /\ elapsed \in 0 .. Long /\ position \in 0 .. Long
         /\ Expected(elapsed) \in 0 .. Long /\ Expected(0) \in 0 .. Long
         /\ Drift \in Int /\ position = Drift + Expected(elapsed) /\ Abs(skew) \in Int
<1>1. /\ Second \in Nat /\ Second > 0 /\ Long \in Nat /\ MaxBuffer \in Nat
      /\ elapsed \in Int /\ skew \in Int /\ position \in Int /\ rate \in Int /\ calm \in Nat
      /\ elapsed \in 0 .. Long /\ position \in 0 .. Long
  BY SecondsAre, PlayerAssumption DEF PlayerInv, PlayerTypes
<1>2. Expected(elapsed) \in 0 .. Long /\ Expected(0) \in 0 .. Long
  BY <1>1, Clamped DEF Expected
<1>3. Drift \in Int /\ position = Drift + Expected(elapsed) /\ Abs(skew) \in Int
  BY <1>1, <1>2 DEF Drift, Abs
<1> QED BY <1>1, <1>2, <1>3

\* A disturbance starts the counting again.
LEMMA NoSeekYet == ASSUME PlayerTypes', seeks' = 0 PROVE SeekInv'
<1>1. ASSUME NEW n \in Nat PROVE 0 <= 1 + n /\ 0 # 1 + n
  OBVIOUS
<1>2. slow' \in Nat
  BY DEF PlayerTypes
<1>3. seeks' <= 1 + slow' /\ seeks' # 1 + slow'
  <2>1. 0 <= 1 + slow' /\ 0 # 1 + slow'
    BY ONLY <1>1, <1>2
  <2> QED BY ONLY <2>1, seeks' = 0
<1> QED BY <1>3 DEF SeekInv

\* What happens to the player between two ticks.
LEMMA EmbedKept ==
  ASSUME PlayerInv, MakePlayer \/ Ready \/ Plays \/ Stall \/ Pause PROVE PlayerInv'
<1>1. /\ Second \in Nat /\ Second > 0 /\ Long \in Nat /\ MaxBuffer \in Nat
      /\ elapsed \in Int /\ skew \in Int /\ position \in Int /\ rate \in Int /\ calm \in Nat
      /\ Expected(elapsed) \in 0 .. Long /\ Drift \in Int
  BY Places
<1>2. CASE MakePlayer
  <2>1. Floor(Clamp(elapsed + skew)) \in 0 .. Long
    BY <1>1, Clamped, WholeSeconds
  <2>2. PlayerTypes'
    BY <1>2, <2>1 DEF PlayerInv, PlayerTypes, MakePlayer, roomClock
  <2>3. /\ state = "UNSTARTED" /\ calm = 0 /\ seeks = 0 /\ VideoInv'
        /\ state' = state /\ calm' = calm /\ seeks' = seeks /\ slow' = slow
    BY <1>2 DEF PlayerInv, VideoInv, MakePlayer, roomClock
  <2>4. NudgeInv' /\ EndInv' /\ SeekInv'
    BY <2>2, <2>3, NoSeekYet DEF NudgeInv, EndInv
  <2> QED BY <2>2, <2>3, <2>4 DEF PlayerInv
<1>3. CASE Ready
  <2>1. PlayerTypes'
    BY <1>1, <1>3 DEF PlayerInv, PlayerTypes, Ready, roomClock
  <2>2. /\ calm = 0 /\ seeks = 0 /\ VideoInv'
        /\ state' = "BUFFERING" /\ calm' = calm /\ seeks' = seeks /\ slow' = slow
    BY <1>3 DEF PlayerInv, VideoInv, Ready, roomClock
  <2>3. NudgeInv' /\ EndInv' /\ SeekInv'
    BY <2>1, <2>2, NoSeekYet DEF NudgeInv, EndInv
  <2> QED BY <2>1, <2>2, <2>3 DEF PlayerInv
<1>4. CASE Plays
  <2>1. /\ state = "BUFFERING" /\ player = "ready" /\ calm = 0
        /\ UNCHANGED <<item, elapsed, skew, player, video, rate, swallowed>>
    BY <1>1, <1>4 DEF PlayerInv, NudgeInv, Plays, roomClock
  <2>2. Abs(skew) <= Second =>
          seeks <= 1 + slow /\ (seeks = 1 + slow => Drift <= 0 /\ Drift >= -(2 * Second))
    <3> SUFFICES ASSUME Abs(skew) <= Second
                 PROVE  /\ seeks <= 1 + slow
                        /\ seeks = 1 + slow => Drift <= 0 /\ Drift >= -(2 * Second)
      OBVIOUS
    <3>1. seeks <= 1 + slow
      BY DEF PlayerInv, SeekInv
    <3>2. ASSUME seeks = 1 + slow PROVE Drift <= 0 /\ Drift >= -(2 * Second)
      <4>1. buffered \in 0 .. 2 /\ Drift <= 0 /\ Drift >= -(buffered * Second)
        BY <2>1, <3>2 DEF PlayerInv, SeekInv, LastSeek
      <4>2. CASE buffered = 0
        BY <1>1, <4>1, <4>2
      <4>3. CASE buffered = 1
        BY <1>1, <4>1, <4>3
      <4>4. CASE buffered = 2
        BY <1>1, <4>1, <4>4
      <4> QED BY <4>1, <4>2, <4>3, <4>4
    <3> QED BY <3>1, <3>2
  <2>3. CASE Abs(Drift) > 3 * Second /\ wasBuffering
    <3>1. /\ position' = Expected(elapsed) /\ state' = "BUFFERING" /\ buffered' = 0
          /\ seeks' = seeks + 1 /\ calm' = 0 /\ slow' = slow
      BY <1>4, <2>3 DEF Plays, OnBuffered, Jump, SeekTo, Drift, HardSeekOver
    <3>2. seeks \in Nat /\ slow \in Nat /\ (Abs(skew) <= Second => seeks <= slow)
      BY <1>1, <2>2, <2>3 DEF PlayerInv, PlayerTypes, Abs
    <3>3. Expected(elapsed)' = Expected(elapsed) /\ Drift' = 0
      BY <1>1, <2>1, <3>1 DEF Drift, Expected
    <3>4. PlayerTypes' /\ VideoInv'
      BY <1>1, <2>1, <3>1, <3>2 DEF PlayerInv, PlayerTypes, VideoInv
    <3>5. NudgeInv' /\ EndInv'
      BY <3>1 DEF NudgeInv, EndInv
    <3>6. SeekInv'
      <4>1. LastSeek'
        BY <1>1, <3>1, <3>3 DEF LastSeek
      <4> QED BY <2>1, <3>1, <3>2, <4>1 DEF SeekInv
    <3> QED BY <3>4, <3>5, <3>6 DEF PlayerInv
  <2>4. CASE ~(Abs(Drift) > 3 * Second /\ wasBuffering)
    <3>1. state' = "PLAYING" /\ UNCHANGED <<position, buffered, calm, seeks, slow>>
      BY <1>4, <2>4 DEF Plays, OnBuffered, Drift, HardSeekOver
    <3>2. Drift' = Drift
      BY <2>1, <3>1 DEF Drift, Expected
    <3>3. PlayerTypes' /\ VideoInv'
      BY <2>1, <3>1 DEF PlayerInv, PlayerTypes, VideoInv
    <3>4. NudgeInv' /\ EndInv'
      BY <2>1, <3>1 DEF NudgeInv, EndInv
    <3>5. SeekInv'
      BY <2>1, <2>2, <3>1, <3>2 DEF SeekInv, LastSeek
    <3> QED BY <3>3, <3>4, <3>5 DEF PlayerInv
  <2> QED BY <2>3, <2>4
<1>5. CASE Stall
  <2>1. /\ state = "PLAYING" /\ state' = "BUFFERING" /\ buffered' = -1 /\ calm' = 0 /\ seeks' = 0
        /\ slow' = 0 /\ UNCHANGED <<item, elapsed, skew, player, video, position, rate, swallowed>>
    BY <1>5 DEF Stall, Disturbed, roomClock
  <2>2. PlayerTypes' /\ VideoInv'
    BY <1>1, <2>1 DEF PlayerInv, PlayerTypes, VideoInv
  <2>3. NudgeInv' /\ EndInv' /\ SeekInv'
    BY <2>1, <2>2, NoSeekYet DEF NudgeInv, EndInv
  <2> QED BY <2>2, <2>3 DEF PlayerInv
<1>6. CASE Pause
  <2>1. /\ state = "PLAYING" /\ state' = "BUFFERING" /\ buffered' = 0 /\ calm' = 0 /\ seeks' = 1
        /\ position' = Expected(elapsed) /\ slow' = 0
        /\ UNCHANGED <<item, elapsed, skew, player, video, rate, swallowed>>
    BY <1>6 DEF Pause, SeekTo, roomClock
  <2>2. Expected(elapsed)' = Expected(elapsed) /\ Drift' = 0
    BY <1>1, <2>1 DEF Drift, Expected
  <2>3. PlayerTypes' /\ VideoInv'
    BY <1>1, <2>1 DEF PlayerInv, PlayerTypes, VideoInv
  <2>4. NudgeInv' /\ EndInv' /\ SeekInv'
    <3>1. LastSeek'
      BY <1>1, <2>1, <2>2 DEF LastSeek
    <3> QED BY <2>1, <3>1 DEF NudgeInv, EndInv, SeekInv
  <2> QED BY <2>3, <2>4 DEF PlayerInv
<1> QED BY <1>2, <1>3, <1>4, <1>5, <1>6

\* What happens to the clock and to what the room plays.
LEMMA RoomKept == ASSUME PlayerInv, Pong \/ NextVideo PROVE PlayerInv'
<1>1. /\ Second \in Nat /\ Second > 0 /\ Long \in Nat /\ MaxBuffer \in Nat
      /\ elapsed \in Int /\ skew \in Int
      /\ Expected(elapsed) \in 0 .. Long /\ Expected(0) \in 0 .. Long /\ Drift \in Int
  BY Places
<1>2. CASE Pong
  <2>1. PICK s \in -Jitter .. Jitter : skew' = (3 * skew + 2 * s) \div 5
    BY <1>2 DEF Pong
  <2>2. s \in Int
    BY PlayerAssumption
  <2>3. skew' \in Int
    BY <1>1, <2>1, <2>2
  <2>4. /\ calm' = 0 /\ seeks' = 0 /\ slow' = 0
        /\ UNCHANGED <<item, elapsed, player, video, position, state, rate, buffered, swallowed>>
    BY <1>2 DEF Pong, Disturbed, roomClock
  <2>5. PlayerTypes' /\ VideoInv'
    BY <1>1, <2>3, <2>4 DEF PlayerInv, PlayerTypes, VideoInv
  <2>6. NudgeInv' /\ EndInv' /\ SeekInv'
    BY <1>1, <2>4, <2>5, NoSeekYet DEF PlayerInv, NudgeInv, EndInv
  <2> QED BY <2>5, <2>6 DEF PlayerInv
<1>3. CASE NextVideo
  <2>1. /\ item' = item + 1 /\ elapsed' = 0 /\ calm' = 0 /\ seeks' = 0 /\ slow' = 0
        /\ UNCHANGED <<skew, player>>
    BY <1>3 DEF NextVideo
  <2>2. 0 \in 0 .. Duration /\ 0 = 0 * Second
    BY SecondsAre
  <2>3. CASE player = "ready"
    <3>1. /\ video' = item' /\ position' = Floor(Expected(0)) /\ state' = "BUFFERING"
          /\ buffered' = 0 /\ rate' = 0
      BY <1>3, <2>3 DEF NextVideo, Load
    <3>2. PlayerTypes' /\ VideoInv'
      BY <1>1, <2>1, <2>2, <2>3, <3>1, WholeSeconds DEF PlayerInv, PlayerTypes, VideoInv
    <3>3. NudgeInv' /\ EndInv' /\ SeekInv'
      BY <2>1, <3>1, <3>2, NoSeekYet DEF NudgeInv, EndInv
    <3> QED BY <3>2, <3>3 DEF PlayerInv
  <2>4. CASE player # "ready"
    <3>1. /\ swallowed' = (swallowed \/ player = "made")
          /\ UNCHANGED <<video, position, state, buffered, rate>>
      BY <1>3, <2>4 DEF NextVideo
    <3>2. PlayerTypes' /\ VideoInv' /\ state = "UNSTARTED"
      <4>1. PlayerTypes'
        BY <1>1, <2>1, <2>2, <2>4, <3>1 DEF PlayerInv, PlayerTypes
      <4>2. state = "UNSTARTED" /\ seeks' = 0 /\ calm' = 0
        BY <2>1, <2>4 DEF PlayerInv, VideoInv
      <4>3. player = "made" => swallowed'
        BY <3>1
      <4>4. player' # "loading" => player = "made"
        BY <2>1, <2>4 DEF PlayerInv, PlayerTypes
      <4> QED BY <3>1, <4>1, <4>2, <4>3, <4>4 DEF VideoInv
    <3>3. NudgeInv' /\ EndInv' /\ SeekInv'
      BY <2>1, <3>1, <3>2, NoSeekYet DEF NudgeInv, EndInv
    <3> QED BY <3>2, <3>3 DEF PlayerInv
  <2> QED BY <2>3, <2>4
<1> QED BY <1>2, <1>3

\* The player starts on the timeline's terms.
LEMMA PlayerStarts == PlayerInit => PlayerInv
<1> SUFFICES ASSUME PlayerInit PROVE PlayerInv
  OBVIOUS
<1>1. /\ Second \in Nat /\ Second > 0 /\ Long \in Nat /\ Second <= Long /\ MaxBuffer \in Nat
      /\ Duration \in Nat /\ Duration > 0
      /\ 0 \in 0 .. Duration /\ 1 \in 0 .. Duration /\ 0 = 0 * Second /\ Second = 1 * Second
  BY SecondsAre, PlayerAssumption
<1>2. elapsed \in 0 .. Long /\ \E k \in 0 .. Duration : elapsed = k * Second
  BY <1>1 DEF PlayerInit
<1>3. PlayerTypes
  BY <1>1, <1>2 DEF PlayerInit, PlayerTypes
<1>4. VideoInv /\ NudgeInv /\ EndInv /\ SeekInv
  BY DEF PlayerInit, VideoInv, NudgeInv, EndInv, SeekInv
<1> QED BY <1>3, <1>4 DEF PlayerInv

\* A player on the timeline's terms follows the room.
LEMMA OnTheTimeline == PlayerInv => PlayerFollowsRoom
<1> SUFFICES ASSUME PlayerInv PROVE PlayerFollowsRoom
  OBVIOUS
<1>1. /\ Second \in Nat /\ Second > 0 /\ Long \in Nat
      /\ elapsed \in Int /\ skew \in Int /\ position \in Int /\ calm \in Nat
      /\ elapsed \in 0 .. Long /\ position \in 0 .. Long /\ Drift \in Int
  BY Places
<1>2. player = "ready" /\ ~swallowed => video = item
  BY DEF PlayerInv, VideoInv
<1>3. Abs(skew) <= Second => seeks <= 1 + slow
  BY DEF PlayerInv, SeekInv
<1>4. ASSUME calm > 2 * Second, Abs(skew) <= Second PROVE Abs(position - elapsed) <= Second + Abs(skew)
  <2>1. calm > 0 /\ state \in {"PLAYING", "ENDED"}
    BY <1>1, <1>4 DEF PlayerInv, NudgeInv
  <2>2. CASE state = "PLAYING"
    <3>1. Drift <= Second /\ Drift >= -Second
      BY <1>1, <1>4, <2>1, <2>2 DEF PlayerInv, NudgeInv, Abs
    <3>2. /\ Drift = position - Clamp(elapsed + skew)
          /\ Clamp(elapsed + skew) = IF elapsed + skew < 0 THEN 0
                                     ELSE IF elapsed + skew > Long THEN Long ELSE elapsed + skew
      BY <1>1, Clamped DEF Drift, Expected
    <3> QED BY <1>1, <3>1, <3>2 DEF Abs
  <2>3. CASE state = "ENDED"
    BY <1>1, <1>4, <2>3 DEF PlayerInv, EndInv, Abs
  <2> QED BY <2>1, <2>2, <2>3
<1>5. IgnoreUnder = Second
  BY <1>1 DEF IgnoreUnder
<1> QED BY <1>2, <1>3, <1>4, <1>5 DEF PlayerFollowsRoom

\* PlayerFollowsRoom holds of the player and its loop for any length of a second, of
\* the videos and of the buffering after a seek, and for any number and any error of
\* stalls, pauses and clock samples: the loop seeks a second time only after a seek
\* that buffered for more than two seconds, or by a clock wrong by more than one.
THEOREM PlayerFollows == PlayerSpec => []PlayerFollowsRoom
<1>1. PlayerInv /\ [PlayerNext]_playerVars => PlayerInv'
  <2> SUFFICES ASSUME PlayerInv, [PlayerNext]_playerVars PROVE PlayerInv'
    OBVIOUS
  <2>1. CASE Tick
    BY <2>1, TickKept
  <2>2. CASE MakePlayer \/ Ready \/ Plays \/ Stall \/ Pause
    BY <2>2, EmbedKept
  <2>3. CASE Pong \/ NextVideo
    BY <2>3, RoomKept
  <2>4. CASE UNCHANGED playerVars
    <3>1. /\ UNCHANGED <<item, elapsed, skew, player, video, position, state, rate, buffered>>
          /\ UNCHANGED <<calm, seeks, slow, swallowed>>
      BY <2>4 DEF playerVars, roomClock
    <3>2. Drift' = Drift /\ PlayerTypes' /\ VideoInv'
      BY <3>1 DEF Drift, Expected, PlayerInv, PlayerTypes, VideoInv
    <3>3. NudgeInv' /\ EndInv' /\ SeekInv'
      BY <3>1, <3>2 DEF PlayerInv, NudgeInv, EndInv, SeekInv, LastSeek
    <3> QED BY <3>2, <3>3 DEF PlayerInv
  <2> QED BY <2>1, <2>2, <2>3, <2>4 DEF PlayerNext
<1> QED BY <1>1, PlayerStarts, OnTheTimeline, PTL DEF PlayerSpec

-------------------------------------------------------------------------------
(* Audience *)

Here  == {t \in Tabs : tab[t] = "here"}
Added == {t \in Tabs : tab[t] = "added"}

Counts   == {Cardinality(Users(S)) : S \in SUBSET Tabs} \cup {0}
Readings == [at : {"none", "due", "read"}, users : Counts, old : BOOLEAN]

AudienceTypes ==
  /\ tab \in [Tabs -> {"out", "added", "here", "gone"}]
  /\ entering \in {"joined", "listed", "done"}
  /\ lobbyCooldown \in [Instances -> {"none", "clean", "dirty"}]
  /\ counting \in [Instances -> Readings]

\* What the page has read or shows names everybody who was announced, and nobody
\* who is not in the room.
ListInv ==
  "page" \notin crossed =>
    /\ entering = "listed" => Users(Here) \subseteq listed /\ listed \subseteq Users(InRoom)
    /\ entering = "done" => Users(Here) \subseteq present /\ present \subseteq Users(InRoom)

\* A window is open while a count is due or under way.
WindowInv == \A g \in Instances : lobbyCooldown[g] = "none" => counting[g] = NotCounting

\* A count will be taken from now on.
CountComing == \E g \in Instances : counting[g].at = "due" \/ lobbyCooldown[g] = "dirty"

RightCount(g) == counting[g].at = "read" /\ ~counting[g].old

\* Nobody being on the way in: what was read and not overtaken is right, or
\* another count is coming.
ReadInv ==
  Added = {} =>
    \A g \in Instances :
      RightCount(g) => counting[g].users = Cardinality(Users(InRoom)) \/ CountComing

\* And what the lobby shows is right, or the right count is coming.
LobbyInv ==
  Added = {} /\ "lobby" \notin crossed =>
    \/ viewers = Cardinality(Users(InRoom))
    \/ CountComing
    \/ \E g \in Instances : RightCount(g)

AudienceInv == AudienceTypes /\ ListInv /\ WindowInv /\ ReadInv /\ LobbyInv

\* A reading that was not taken is one that is due, once it is.
LEMMA NothingRead ==
  /\ NotCounting \in Readings
  /\ \E r \in Readings : r = [NotCounting EXCEPT !.at = "due"] /\ r.at = "due"
<1>1. 0 \in Counts /\ FALSE \in BOOLEAN
  BY DEF Counts
<1>2. NotCounting \in Readings
  BY <1>1, Zenon DEF Readings, NotCounting
<1>3. \A r \in Readings : [r EXCEPT !.at = "due"] \in Readings /\ [r EXCEPT !.at = "due"].at = "due"
  BY DEF Readings
<1> QED BY <1>2, <1>3

\* Who opens or dirties a window brings about a count.
LEMMA SummaryComes ==
  ASSUME AudienceTypes, WindowInv, NEW g \in Instances, ScheduleLobbySummary(g)
  PROVE  /\ CountComing' /\ WindowInv'
         /\ lobbyCooldown' \in [Instances -> {"none", "clean", "dirty"}]
         /\ counting' \in [Instances -> Readings]
<1>1. CASE lobbyCooldown[g] = "none"
  <2>1. /\ lobbyCooldown' = [lobbyCooldown EXCEPT ![g] = "clean"]
        /\ counting' = [counting EXCEPT ![g].at = "due"]
        /\ counting[g] = NotCounting
    BY <1>1 DEF ScheduleLobbySummary, StartCount, WindowInv
  <2>2. /\ counting'[g].at = "due"
        /\ \A h \in Instances \ {g} : counting'[h] = counting[h]
        /\ counting' \in [Instances -> Readings]
    <3>1. PICK r \in Readings : r = [NotCounting EXCEPT !.at = "due"] /\ r.at = "due"
      BY NothingRead
    <3>2. counting' = [counting EXCEPT ![g] = r] /\ counting \in [Instances -> Readings]
      BY <2>1, <3>1 DEF AudienceTypes
    <3> QED BY <3>1, <3>2
  <2>3. /\ lobbyCooldown'[g] = "clean"
        /\ \A h \in Instances \ {g} : lobbyCooldown'[h] = lobbyCooldown[h]
        /\ lobbyCooldown' \in [Instances -> {"none", "clean", "dirty"}]
    BY <2>1 DEF AudienceTypes
  <2> QED BY <2>2, <2>3 DEF AudienceTypes, WindowInv, CountComing
<1>2. CASE lobbyCooldown[g] # "none"
  <2>1. /\ lobbyCooldown' = [lobbyCooldown EXCEPT ![g] = "dirty"] /\ counting' = counting
    BY <1>2 DEF ScheduleLobbySummary
  <2> QED BY <1>2, <2>1 DEF AudienceTypes, WindowInv, CountComing
<1> QED BY <1>1, <1>2

\* The page's list under the arrival of a tab's announcement or goodbye.
LEMMA ListFollows ==
  ASSUME AudienceInv, NEW t \in Tabs, AnnounceJoined(t) \/ Leave(t)
  PROVE  ListInv'
<1> DEFINE u == UserOf[t]
<1>1. CASE AnnounceJoined(t)
  <2>1. /\ Here' = Here \cup {t} /\ InRoom' = InRoom /\ t \in InRoom /\ entering' = entering
        /\ listed' = listed /\ present' = present \cup {u}
        /\ "page" \notin crossed' => "page" \notin crossed /\ (entering = "listed" => u \in listed)
    BY <1>1 DEF AnnounceJoined, OnJoined, Here, InRoom, AudienceInv, AudienceTypes
  <2>2. Users(Here)' = Users(Here) \cup {u} /\ Users(InRoom)' = Users(InRoom) /\ u \in Users(InRoom)
    BY <2>1 DEF Users
  <2> QED BY <2>1, <2>2 DEF AudienceInv, ListInv
<1>2. CASE Leave(t)
  <2>1. /\ t \in Here /\ t \in InRoom /\ Here' = Here \ {t} /\ InRoom' = InRoom \ {t}
        /\ entering' = entering /\ listed' = listed /\ present' = present \ {u}
        /\ "page" \notin crossed' => /\ "page" \notin crossed
                                     /\ ~(entering = "listed" /\ u \in listed)
                                     /\ u \notin Users(InRoom \ {t})
    BY <1>2 DEF Leave, OnLeft, Here, InRoom, AudienceInv, AudienceTypes
  <2>2. /\ Users(Here)' \subseteq Users(Here) /\ u \in Users(Here)
        /\ Users(InRoom)' = Users(InRoom \ {t}) /\ Users(Here)' \subseteq Users(InRoom)'
        /\ Users(InRoom) \ {u} \subseteq Users(InRoom)'
    BY <2>1 DEF Users, Here, InRoom
  <2> QED BY <2>1, <2>2 DEF AudienceInv, ListInv
<1> QED BY <1>1, <1>2

\* Reading the list, counting and telling keep the right news coming.
LEMMA AudienceStep == AudienceInv /\ [AudienceNext]_audienceVars => AudienceInv'
<1> SUFFICES ASSUME AudienceInv, [AudienceNext]_audienceVars PROVE AudienceInv'
  OBVIOUS
<1>1. ASSUME NEW t \in Tabs, Enter(t) PROVE AudienceInv'
  <2>1. /\ tab' = [tab EXCEPT ![t] = "added"] /\ tab[t] = "out"
        /\ UNCHANGED <<entering, listed, present, lobbyCooldown, counting, viewers, failures, crossed>>
    BY <1>1 DEF Enter
  <2>2. AudienceTypes' /\ t \in Added' /\ Here' = Here /\ InRoom' = InRoom \cup {t}
    BY <2>1 DEF AudienceInv, AudienceTypes, Added, Here, InRoom
  <2>3. Users(Here)' = Users(Here) /\ Users(InRoom) \subseteq Users(InRoom)'
    BY <2>2 DEF Users
  <2>4. ListInv' /\ WindowInv'
    BY <2>1, <2>3 DEF AudienceInv, ListInv, WindowInv
  <2>5. ReadInv' /\ LobbyInv'
    BY <2>2 DEF ReadInv, LobbyInv
  <2> QED BY <2>2, <2>4, <2>5 DEF AudienceInv
<1>2. ASSUME NEW t \in Tabs, AnnounceJoined(t) \/ Leave(t) PROVE AudienceInv'
  <2>1. InstanceOf[t] \in Instances
    BY AudienceAssumption
  <2>2. /\ ScheduleLobbySummary(InstanceOf[t]) /\ entering' = entering
        /\ tab' = [tab EXCEPT ![t] = "here"] \/ tab' = [tab EXCEPT ![t] = "gone"]
    BY <1>2 DEF AnnounceJoined, Leave
  <2>3. AudienceTypes' /\ WindowInv' /\ CountComing'
    BY <2>1, <2>2, SummaryComes DEF AudienceInv, AudienceTypes
  <2> QED BY <1>2, <2>3, ListFollows DEF AudienceInv, ReadInv, LobbyInv
<1>3. CASE ReadList \/ DeliverState
  <2>1. UNCHANGED <<tab, lobbyCooldown, counting, viewers, failures, crossed>>
    BY <1>3 DEF ReadList, DeliverState
  <2>2. Here' = Here /\ InRoom' = InRoom /\ Added' = Added /\ CountComing' = CountComing
    BY <2>1 DEF Here, InRoom, Added, CountComing
  <2>3. /\ Users(Here)' = Users(Here) /\ Users(InRoom)' = Users(InRoom)
        /\ Users(Here) \subseteq Users(InRoom)
    BY <2>2 DEF Users, Here, InRoom
  <2>4. AudienceTypes' /\ WindowInv'
    BY <1>3, <2>1 DEF AudienceInv, AudienceTypes, WindowInv, ReadList, DeliverState
  <2>5. ListInv'
    BY <1>3, <2>1, <2>3 DEF AudienceInv, ListInv, ReadList, DeliverState
  <2>6. ReadInv' /\ LobbyInv'
    BY <2>1, <2>2, <2>3 DEF AudienceInv, ReadInv, LobbyInv, RightCount
  <2> QED BY <2>4, <2>5, <2>6 DEF AudienceInv
<1>4. ASSUME NEW g \in Instances,
             WindowEnds(g) \/ CountPresent(g) \/ CountFails(g) \/ EmitLobbySummary(g)
      PROVE  AudienceInv'
  <2>1. /\ UNCHANGED roomSide
        /\ "page" \in crossed' <=> "page" \in crossed
    BY <1>4 DEF WindowEnds, CountPresent, CountFails, EmitLobbySummary
  <2>2. /\ Here' = Here /\ InRoom' = InRoom /\ Added' = Added
        /\ Users(Here)' = Users(Here) /\ Users(InRoom)' = Users(InRoom)
    BY <2>1 DEF roomSide, Here, InRoom, Added, Users
  <2>3. ListInv'
    BY <2>1, <2>2 DEF AudienceInv, ListInv, roomSide
  <2>4. PICK n : n = Cardinality(Users(InRoom)) /\ n = Cardinality(Users(InRoom))'
    BY <2>2
  <2>5. CASE WindowEnds(g)
    <3>1. CASE lobbyCooldown[g] = "dirty"
      <4>1. /\ lobbyCooldown' = [lobbyCooldown EXCEPT ![g] = "clean"]
            /\ counting' = [counting EXCEPT ![g].at = "due"]
            /\ counting[g] = NotCounting
        BY <2>5, <3>1 DEF WindowEnds, StartCount
      <4>2. /\ counting'[g].at = "due"
            /\ \A h \in Instances \ {g} : counting'[h] = counting[h]
            /\ counting' \in [Instances -> Readings]
        <5>1. PICK r \in Readings : r = [NotCounting EXCEPT !.at = "due"] /\ r.at = "due"
          BY NothingRead
        <5>2. counting' = [counting EXCEPT ![g] = r] /\ counting \in [Instances -> Readings]
          BY <4>1, <5>1 DEF AudienceInv, AudienceTypes
        <5> QED BY <5>1, <5>2
      <4>3. AudienceTypes' /\ WindowInv' /\ CountComing'
        BY <2>1, <4>1, <4>2 DEF AudienceInv, AudienceTypes, WindowInv, CountComing, roomSide
      <4> QED BY <2>3, <4>3 DEF AudienceInv, ReadInv, LobbyInv
    <3>2. CASE lobbyCooldown[g] # "dirty"
      <4>1. /\ lobbyCooldown' = [lobbyCooldown EXCEPT ![g] = "none"]
            /\ UNCHANGED <<counting, viewers, crossed>> /\ counting[g] = NotCounting
        BY <2>5, <3>2 DEF WindowEnds
      <4>2. AudienceTypes' /\ WindowInv'
        BY <2>1, <4>1 DEF AudienceInv, AudienceTypes, WindowInv, roomSide
      <4>3. CountComing => CountComing'
        BY <3>2, <4>1 DEF CountComing, AudienceInv, AudienceTypes
      <4> QED BY <2>2, <2>3, <2>4, <4>1, <4>2, <4>3 DEF AudienceInv, ReadInv, LobbyInv, RightCount
    <3> QED BY <3>1, <3>2
  <2>6. ASSUME NEW r \in Readings, Overtake(g, r), counting[g].at = "due",
               lobbyCooldown' = lobbyCooldown
        PROVE  /\ AudienceTypes' /\ WindowInv' /\ counting'[g] = r
               /\ \A h \in Instances : RightCount(h)' => h = g
    <3>1. ASSUME NEW h \in Instances
          PROVE  [counting[h] EXCEPT !.old = counting[h].old \/ counting[h].at = "read"] \in Readings
      <4>1. counting[h] \in Readings /\ (counting[h].old \/ counting[h].at = "read") \in BOOLEAN
        BY DEF AudienceInv, AudienceTypes
      <4> QED BY <4>1 DEF Readings
    <3>2. ASSUME NEW h \in Instances \ {g}
          PROVE  /\ counting'[h] \in Readings
                 /\ counting[h].at = "read" => counting'[h].old
                 /\ counting'[h].at = counting[h].at
                 /\ counting[h] = NotCounting => counting'[h] = NotCounting
      <4>1. PICK o \in BOOLEAN : o = (counting[h].old \/ counting[h].at = "read")
        OBVIOUS
      <4>2. counting'[h] = [counting[h] EXCEPT !.old = o] /\ counting[h] \in Readings
        BY <2>6, <4>1 DEF Overtake, AudienceInv, AudienceTypes
      <4>3. counting'[h] \in Readings /\ counting'[h].at = counting[h].at
        BY <4>2 DEF Readings
      <4>4. counting'[h].old = o
        BY <4>2 DEF Readings
      <4>5. counting[h].at = "read" => o
        BY <4>1, Zenon
      <4>6. ASSUME counting[h] = NotCounting PROVE counting'[h] = NotCounting
        <5>1. ~NotCounting.old /\ NotCounting.at # "read"
          BY DEF NotCounting
        <5>2. o = FALSE
          BY <4>1, <4>6, <5>1, Zenon
        <5>3. counting'[h] = [NotCounting EXCEPT !.old = FALSE]
          BY <4>2, <4>6, <5>2, Zenon
        <5> QED BY <5>3 DEF NotCounting
      <4>7. counting[h].at = "read" => counting'[h].old
        BY <4>4, <4>5, Zenon
      <4> QED BY <4>3, <4>6, <4>7
    <3>7. counting' = [h \in Instances |-> counting'[h]] /\ counting'[g] = r
      BY <2>6 DEF Overtake
    <3>3. lobbyCooldown[g] # "none"
      BY <2>6 DEF AudienceInv, WindowInv, NotCounting
    <3>4. AudienceTypes'
      <4>1. counting' \in [Instances -> Readings]
        BY <2>6, <3>2, <3>7
      <4> QED BY <2>1, <2>6, <4>1 DEF AudienceInv, AudienceTypes, roomSide
    <3>5. WindowInv'
      BY <2>6, <3>2, <3>3, <3>7 DEF AudienceInv, WindowInv
    <3>6. \A h \in Instances \ {g} : ~RightCount(h)'
      BY <3>2 DEF RightCount
    <3> QED BY <3>4, <3>5, <3>6, <3>7
  <2>7. CASE CountPresent(g)
    <3>0. PICK r \in Readings : r = [at |-> "read", users |-> n, old |-> FALSE]
      <4>1. InRoom \in SUBSET Tabs
        BY DEF InRoom
      <4>2. n \in Counts /\ FALSE \in BOOLEAN
        BY <2>4, <4>1 DEF Counts
      <4> QED BY <4>2 DEF Readings
    <3>1. /\ Overtake(g, r) /\ counting[g].at = "due" /\ UNCHANGED <<lobbyCooldown, viewers, crossed>>
      BY <2>4, <2>7, <3>0 DEF CountPresent
    <3>2. /\ AudienceTypes' /\ WindowInv' /\ counting'[g] = r
          /\ \A h \in Instances : RightCount(h)' => h = g
      BY <2>6, <3>1
    <3>3. RightCount(g)' /\ counting'[g].users = n
      BY <3>0, <3>2 DEF RightCount
    <3> QED BY <2>3, <2>4, <3>2, <3>3 DEF AudienceInv, ReadInv, LobbyInv
  <2>8. CASE CountFails(g)
    <3>1. /\ Overtake(g, NotCounting) /\ counting[g].at = "due" /\ UNCHANGED lobbyCooldown
          /\ "lobby" \in crossed'
      BY <2>8 DEF CountFails
    <3>2. NotCounting \in Readings
      BY DEF NotCounting, Readings, Counts
    <3>3. /\ AudienceTypes' /\ WindowInv' /\ counting'[g] = NotCounting
          /\ \A h \in Instances : RightCount(h)' => h = g
      BY <2>6, <3>1, <3>2
    <3>4. ~RightCount(g)'
      BY <3>3 DEF RightCount, NotCounting
    <3> QED BY <2>3, <3>1, <3>3, <3>4 DEF AudienceInv, ReadInv, LobbyInv
  <2>9. CASE EmitLobbySummary(g)
    <3>1. /\ counting[g].at = "read" /\ viewers' = counting[g].users
          /\ counting' = [counting EXCEPT ![g] = NotCounting] /\ lobbyCooldown' = lobbyCooldown
          /\ "lobby" \notin crossed' => RightCount(g)
      BY <2>9 DEF EmitLobbySummary, ShowSummary, RightCount
    <3>2. /\ counting'[g] = NotCounting /\ counting'[g].at = "none"
          /\ \A h \in Instances \ {g} : counting'[h] = counting[h]
          /\ counting' \in [Instances -> Readings]
      <4>1. NotCounting \in Readings /\ NotCounting.at = "none"
        BY DEF NotCounting, Readings, Counts
      <4> QED BY <3>1, <4>1 DEF AudienceInv, AudienceTypes
    <3>3. AudienceTypes' /\ WindowInv'
      BY <2>1, <3>1, <3>2 DEF AudienceInv, AudienceTypes, WindowInv, roomSide, NotCounting
    <3>4. CountComing => CountComing'
      BY <3>1, <3>2 DEF CountComing
    <3>5. ReadInv'
      BY <2>2, <2>4, <3>1, <3>2, <3>4 DEF AudienceInv, ReadInv, RightCount
    <3>6. LobbyInv'
      BY <2>2, <2>4, <3>1, <3>4 DEF AudienceInv, ReadInv, LobbyInv
    <3> QED BY <2>3, <3>3, <3>5, <3>6 DEF AudienceInv
  <2> QED BY <1>4, <2>5, <2>7, <2>8, <2>9
<1>5. CASE UNCHANGED audienceVars
  <2>1. /\ UNCHANGED <<tab, entering, listed, present, lobbyCooldown, counting, viewers, crossed>>
    BY <1>5 DEF audienceVars, roomSide
  <2>2. /\ Here' = Here /\ InRoom' = InRoom /\ Added' = Added /\ CountComing' = CountComing
        /\ Users(Here)' = Users(Here) /\ Users(InRoom)' = Users(InRoom)
    BY <2>1 DEF Here, InRoom, Added, CountComing, Users
  <2> QED BY <2>1, <2>2 DEF AudienceInv, AudienceTypes, ListInv, WindowInv, ReadInv, LobbyInv, RightCount
<1> QED BY <1>1, <1>2, <1>3, <1>4, <1>5 DEF AudienceNext

\* Whatever sessions come and go on however many gateways, and whatever counts
\* fail or cross: the page's list and the lobby's number are right when nobody is
\* on the way in, but for the gaps that the property names (setup.ts:109-137,
\* :193-201, use-room-chat.ts:90-98).
THEOREM AudienceTold == AudienceSpec => []AudienceIsTold
<1>1. AudienceInit => AudienceInv
  <2> SUFFICES ASSUME AudienceInit PROVE AudienceInv
    OBVIOUS
  <2>1. AudienceTypes /\ WindowInv /\ ListInv
    BY DEF AudienceInit, AudienceTypes, WindowInv, ListInv, NotCounting, Readings, Counts
  <2>2. InRoom = {}
    BY DEF AudienceInit, InRoom
  <2>3. Users(InRoom) = {}
    BY <2>2 DEF Users
  <2>4. viewers = Cardinality(Users(InRoom))
    BY <2>3, FS_EmptySet DEF AudienceInit
  <2>5. ReadInv /\ LobbyInv
    BY <2>4 DEF AudienceInit, ReadInv, LobbyInv, RightCount, NotCounting
  <2> QED BY <2>1, <2>5 DEF AudienceInv
<1>2. AudienceInv => AudienceIsTold
  <2> SUFFICES ASSUME AudienceInv, \A t \in Tabs : tab[t] # "added" PROVE AudienceIsTold
    BY DEF AudienceIsTold
  <2>1. Added = {} /\ Here = InRoom
    BY DEF Added, Here, InRoom
  <2>2. entering = "done" /\ "page" \notin crossed => present = Users(InRoom)
    BY <2>1 DEF AudienceInv, ListInv
  <2>3. (\A g \in Instances : lobbyCooldown[g] = "none") =>
          ~CountComing /\ \A g \in Instances : ~RightCount(g)
    BY DEF AudienceInv, WindowInv, CountComing, RightCount, NotCounting
  <2> QED BY <2>1, <2>2, <2>3 DEF AudienceInv, LobbyInv, AudienceIsTold
<1> QED BY <1>1, <1>2, AudienceStep, PTL DEF AudienceSpec

================================================================================
