----------------------------- MODULE RoomTimeline -----------------------------
(***************************************************************************)
(* What a room promises its viewers: one broadcast channel.  Videos queue  *)
(* up in arrival order, at most one is on the air, the next one to go on   *)
(* the air is the longest waiting one, and a video that has left the air   *)
(* or was taken out of the queue never comes back.                         *)
(*                                                                         *)
(* Arrival order is a ticket number, because the program orders its queue  *)
(* by a numeric position column.                                           *)
(***************************************************************************)
EXTENDS Naturals

CONSTANT Items      \* every queue item id that may ever be created

VARIABLES
  waiting,          \* items that wait for their turn
  ticket,           \* the place in line an item was given when it was queued
  onAir,            \* the items on the air: the promise is at most one
  past              \* items that were played, skipped or removed

timelineVars == <<waiting, ticket, onAir, past>>

Init ==
  /\ waiting = {}
  /\ ticket = [i \in Items |-> 0]
  /\ onAir = {}
  /\ past = {}

\* A new item goes to the end of the line.
Enqueue(i) ==
  /\ i \notin waiting \cup onAir \cup past
  /\ ticket'[i] \in Nat
  /\ \A j \in waiting : ticket[j] < ticket'[i]
  /\ ticket' = [ticket EXCEPT ![i] = ticket'[i]]
  /\ waiting' = waiting \cup {i}
  /\ UNCHANGED <<onAir, past>>

\* An empty channel takes the item at the head of the line.
GoOnAir(i) ==
  /\ onAir = {}
  /\ i \in waiting
  /\ \A j \in waiting : ticket[i] <= ticket[j]
  /\ waiting' = waiting \ {i}
  /\ onAir' = {i}
  /\ UNCHANGED <<ticket, past>>

\* The video on the air ends or is voted off.
LeaveAir(i) ==
  /\ i \in onAir
  /\ onAir' = onAir \ {i}
  /\ past' = past \cup {i}
  /\ UNCHANGED <<waiting, ticket>>

\* Somebody takes a waiting item out of the line.
Withdraw(i) ==
  /\ i \in waiting
  /\ waiting' = waiting \ {i}
  /\ past' = past \cup {i}
  /\ UNCHANGED <<ticket, onAir>>

Next == \E i \in Items : Enqueue(i) \/ GoOnAir(i) \/ LeaveAir(i) \/ Withdraw(i)

Spec == Init /\ [][Next]_timelineVars
===============================================================================
