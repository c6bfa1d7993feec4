------------------------------- MODULE ChatPage -------------------------------
(* A chat message from the page that sends it, over the relay that broadcasts  *)
(* it at once, to the chat service that makes it durable and the broadcast     *)
(* that says so; and the list a page builds from its history and what it hears.*)
(*                                                                             *)
(* A message is the number of its event, in the order of sentAt.               *)
EXTENDS PageSocket, Integers, FiniteSets, SequencesExt

CONSTANTS
  Messages,     \* numbers of the messages that may be sent
  Mine,         \* those that this page sends
  Limit,        \* messages on a page of history
  MaxRepeats    \* bound: events delivered again

ASSUME ChatAssumption ==
  Messages \subseteq Nat \ {0} /\ Mine \subseteq Messages /\ Limit \in Nat \ {0}

VARIABLES
  send,         \* how far the sending of each message is
  submitted,    \* chat.message.submitted events waiting for the chat service
  messages,     \* the messages table
  persisted,    \* chat.message.persisted events waiting for the gateway
  repeats,
  live,         \* status of the row of each message heard; "none" if it has no row
  ackTimers,    \* rows with a timer
  pages,        \* history: the items of all pages read, and where the next one starts
  orphaned,     \* auxiliary: rows whose timer the effect's cleanup took
  unheard,      \* auxiliary: messages whose ack was broadcast out of the page's hearing
  slipped       \* auxiliary: stored after their page of history was read, and never heard

chatVars == <<socketVars, send, submitted, messages, persisted, repeats, live, ackTimers,
              pages, orphaned, unheard, slipped>>

NoCursor == -1    \* nothing was read yet
NoMore   == 0

ChatInit ==
  /\ SocketInit
  /\ send = [m \in Messages |-> "draft"]
  /\ submitted = {} /\ messages = {} /\ persisted = {} /\ repeats = 0
  /\ live = [m \in Messages |-> "none"]
  /\ ackTimers = {} /\ pages = [items |-> <<>>, next |-> NoCursor]
  /\ orphaned = {} /\ unheard = {} /\ slipped = {}

service == <<submitted, messages, persisted, repeats>>
list    == <<live, ackTimers, pages>>
aux     == <<orphaned, unheard, slipped>>

-------------------------------------------------------------------------------
(* Sending *)

\* The panel empties the draft; nothing is shown until the echo comes.
Submit(m) ==
  /\ m \in Mine /\ send[m] = "draft" /\ socket \notin {"none", "down"}
  /\ send' = [send EXCEPT ![m] = "emitted"]
  /\ UNCHANGED <<socketVars, service, list, aux>>

\* onNew, where the page hears it.
Hear(m) ==
  IF Receiving
  THEN /\ live' = [live EXCEPT ![m] = "pending"]
       /\ ackTimers' = ackTimers \cup {m}
  ELSE UNCHANGED <<live, ackTimers>>

\* The relay: broadcast, then publish, then the ack.  sentAt is the time of this.
Relay(m) ==
  /\ send[m] = (IF m \in Mine THEN "emitted" ELSE "draft")
  /\ m \in Mine => socket = "in"
  /\ \A k \in Messages : send[k] \in {"ok", "unpublished"} => k < m
  /\ Hear(m)
  /\ \/ submitted' = submitted \cup {m} /\ send' = [send EXCEPT ![m] = "ok"]
     \/ /\ submitted' = submitted
        /\ send' = [send EXCEPT ![m] = IF m \in Mine THEN "unpublished" ELSE "ok"]
  /\ UNCHANGED <<socketVars, messages, persisted, repeats, pages, aux>>

\* No room, the kill switch, the rate limit: no echo, so no row to mark either.
Refuse(m) ==
  /\ send[m] = "emitted" /\ send' = [send EXCEPT ![m] = "refused"]
  /\ UNCHANGED <<socketVars, service, list, aux>>

HasTempKey(m) == live[m] \in {"pending", "failed"}

\* The ack says no after the echo: the row is marked, if it still has its tempId.
SendFailed(m) ==
  /\ send[m] = "unpublished" /\ send' = [send EXCEPT ![m] = "ok"]
  /\ live' = IF HasTempKey(m) THEN [live EXCEPT ![m] = "failed"] ELSE live
  /\ UNCHANGED <<socketVars, service, ackTimers, pages, aux>>

-------------------------------------------------------------------------------
(* The chat service *)

\* A page of history is over when what follows it is older.
ReadPast(m) == pages.next # NoCursor /\ m >= pages.next

\* Message and event in one transaction; a no-op when the id exists.
PersistWithEvent(m) ==
  /\ messages' = messages \cup {m}
  /\ persisted' = IF m \in messages THEN persisted ELSE persisted \cup {m}

\* The id of the message is that of the submitted event.
Persist(m) ==
  /\ m \in submitted /\ submitted' = submitted \ {m}
  /\ PersistWithEvent(m)
  /\ slipped' = IF m \notin messages /\ live[m] = "none" /\ ReadPast(m)
                THEN slipped \cup {m} ELSE slipped
  /\ UNCHANGED <<socketVars, send, repeats, list, orphaned, unheard>>

\* An event is delivered once more: it was handled, but not acknowledged.
DeliverAgain(m) ==
  /\ repeats < MaxRepeats /\ repeats' = repeats + 1
  /\ m \in messages
  /\ \/ submitted' = submitted \cup {m} /\ UNCHANGED persisted
     \/ persisted' = persisted \cup {m} /\ UNCHANGED submitted
  /\ UNCHANGED <<socketVars, send, messages, list, aux>>

\* The rows that a set of messages comes in.
NewestFirst(some) ==
  {rows \in [1 .. Cardinality(some) -> some] :
     Range(rows) = some /\ \A i, j \in DOMAIN rows : i < j => rows[i] > rows[j]}

\* Keyset, newest first; one more row tells whether there are others.
Page(rows) ==
  IF Len(rows) > Limit THEN [items |-> SubSeq(rows, 1, Limit), next |-> rows[Limit]]
  ELSE [items |-> rows, next |-> NoMore]

ListMessages(cursor) ==
  {Page(rows) : rows \in NewestFirst({m \in messages : cursor # NoCursor => m < cursor})}

-------------------------------------------------------------------------------
(* The page *)

\* Mutant of OnAck: an ack that comes after the timeout is ignored.
OnAckInTime(m) ==
  /\ live' = [live EXCEPT ![m] = IF @ = "pending" THEN "sent" ELSE @]
  /\ ackTimers' = ackTimers \ {m}

\* The row takes the messageId for its key: sent, also when it had failed.
OnAck(m) ==
  /\ live' = [live EXCEPT ![m] = IF @ = "none" THEN @ ELSE "sent"]
  /\ ackTimers' = ackTimers \ {m}

BroadcastAck(m) ==
  /\ m \in persisted /\ persisted' = persisted \ {m}
  /\ IF Receiving THEN OnAck(m) /\ UNCHANGED unheard
     ELSE unheard' = unheard \cup {m} /\ UNCHANGED <<live, ackTimers>>
  /\ UNCHANGED <<socketVars, send, submitted, messages, repeats, pages, orphaned, slipped>>

\* Eight seconds without an ack.
AckTimeout(m) ==
  /\ m \in ackTimers /\ ackTimers' = ackTimers \ {m}
  /\ live' = IF HasTempKey(m) THEN [live EXCEPT ![m] = "failed"] ELSE live
  /\ UNCHANGED <<socketVars, send, service, pages, aux>>

\* The first page, or the next one when the list is scrolled to its top.
FetchPage ==
  /\ pages.next # NoMore
  /\ \E page \in ListMessages(pages.next) :
       pages' = [items |-> pages.items \o page.items, next |-> page.next]
  /\ UNCHANGED <<socketVars, send, service, live, ackTimers, aux>>

\* Another socket: the cleanup clears the timers, the rows stay.
ReplaceSocket ==
  /\ Replace
  /\ ackTimers' = {} /\ orphaned' = orphaned \cup ackTimers
  /\ UNCHANGED <<send, service, live, pages, unheard, slipped>>

ChatFollows ==
  /\ SignIn \/ Connect \/ JoinRoom \/ JoinRefused \/ Drop
  /\ UNCHANGED <<send, service, list, aux>>

ChatNext ==
  \/ \E m \in Messages :
       Submit(m) \/ Relay(m) \/ Refuse(m) \/ SendFailed(m) \/ Persist(m) \/ DeliverAgain(m)
         \/ BroadcastAck(m) \/ AckTimeout(m)
  \/ FetchPage \/ ReplaceSocket \/ ChatFollows

ChatSpec == ChatInit /\ [][ChatNext]_chatVars

\* history reversed, then the live rows whose key is not in it.
Historical == pages.items
LiveShown  == {m \in Messages : live[m] # "none" /\ ~(live[m] = "sent" /\ Contains(Historical, m))}

\* How the panel draws a message: faded, "not delivered", plain, or not at all.
Row(m) == IF m \in LiveShown THEN live[m] ELSE IF Contains(Historical, m) THEN "sent" ELSE "none"
===============================================================================
