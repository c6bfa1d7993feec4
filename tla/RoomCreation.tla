----------------------------- MODULE RoomCreation -----------------------------
(* Creating a room: the dialog in the header of every page, the gateway, which *)
(* makes one request of two services, and the way to the new room.             *)
(* (KillSwitch has the switch that the gateway looks at.)                      *)
EXTENDS Naturals, Sequences

CONSTANTS
  Makers,       \* who may sign in
  MaxSubmits    \* bound: times the dialog is submitted

ASSUME RoomCreationAssumption == MaxSubmits \in Nat

VARIABLES
  maker,        \* who is signed in, or NoOne
  place,        \* the room the browser shows, or 0 for any other page
  creatingRoom, \* whether the header on that page has its dialog open
  creations,    \* what was submitted, oldest first: [at, by, room, answer, here]
  madeRooms     \* the rooms, oldest first: [owner, queued]

creationVars == <<maker, place, creatingRoom, creations, madeRooms>>

NoOne == "no one"
Submission(u) == [at |-> "asked", by |-> u, room |-> 0, answer |-> "none", here |-> TRUE]

CreationInit ==
  /\ maker \in Makers \cup {NoOne}
  /\ place = 0 /\ creatingRoom = FALSE
  /\ creations = <<>> /\ madeRooms = <<>>

-------------------------------------------------------------------------------
(* The page *)

\* Signing in and out leaves the dialog and its request alone.
SignInAs(u) ==
  /\ u # maker /\ maker' = u
  /\ UNCHANGED <<place, creatingRoom, creations, madeRooms>>

\* Whoever is not signed in gets the sign-up dialog instead.
ClickCreate ==
  /\ maker # NoOne /\ ~creatingRoom /\ creatingRoom' = TRUE
  /\ UNCHANGED <<maker, place, creations, madeRooms>>

\* Also while the request is under way.
DismissModal ==
  /\ creatingRoom /\ creatingRoom' = FALSE
  /\ UNCHANGED <<maker, place, creations, madeRooms>>

\* A form that the schema accepts; one request at a time from this dialog, and
\* without a token not a word.
SubmitRoom ==
  /\ creatingRoom /\ maker # NoOne /\ Len(creations) < MaxSubmits
  /\ \A c \in DOMAIN creations : creations[c].at # "done" => ~creations[c].here
  /\ creations' = Append(creations, Submission(maker))
  /\ UNCHANGED <<maker, place, creatingRoom, madeRooms>>

\* Another page, with a header and a dialog of its own.
AwayFromHere(those) == [c \in DOMAIN those |-> [those[c] EXCEPT !.here = FALSE]]

Browse(p) ==
  /\ p # place /\ place' = p
  /\ creatingRoom' = FALSE /\ creations' = AwayFromHere(creations)
  /\ UNCHANGED <<maker, madeRooms>>

-------------------------------------------------------------------------------
(* The gateway and the rooms service *)

Answer(c, answer) ==
  creations' = [creations EXCEPT ![c].at = "answered", ![c].answer = answer]

\* An expired token, the rate limit, the schema, the kill switch.
RefuseRoom(c) ==
  /\ creations[c].at = "asked" /\ Answer(c, "refused")
  /\ UNCHANGED <<maker, place, creatingRoom, madeRooms>>

\* Room, card and event in one transaction, for the user in the token.
StoreRoom(c) ==
  /\ creations[c].at = "asked"
  /\ madeRooms' = Append(madeRooms, [owner |-> creations[c].by, queued |-> FALSE])
  /\ creations' = [creations EXCEPT ![c].at = "made", ![c].room = Len(madeRooms')]
  /\ UNCHANGED <<maker, place, creatingRoom>>

\* The room is there whatever becomes of its first video.
QueueFirst(c) ==
  /\ creations[c].at = "made"
  /\ \/ madeRooms' = [madeRooms EXCEPT ![creations[c].room].queued = TRUE]
     \/ UNCHANGED madeRooms
  /\ Answer(c, "created")
  /\ UNCHANGED <<maker, place, creatingRoom>>

\* Between browser, gateway and service, before or after the room was stored.
CreationLost(c) ==
  /\ creations[c].at \in {"asked", "made", "answered"} /\ Answer(c, "unknown")
  /\ UNCHANGED <<maker, place, creatingRoom, madeRooms>>

\* The dialog that asked says why not, if it is still there; or the browser goes
\* to the room, from wherever it is by now.
CreationAnswered(c) ==
  LET done == [creations EXCEPT ![c].at = "done"] IN
  /\ creations[c].at = "answered"
  /\ IF creations[c].answer = "created"
     THEN /\ place' = creations[c].room /\ creatingRoom' = FALSE
          /\ creations' = AwayFromHere(done)
     ELSE creations' = done /\ UNCHANGED <<place, creatingRoom>>
  /\ UNCHANGED <<maker, madeRooms>>

CreationNext ==
  \/ \E u \in Makers \cup {NoOne} : SignInAs(u)
  \/ ClickCreate \/ DismissModal \/ SubmitRoom
  \/ \E p \in 0 .. Len(madeRooms) : Browse(p)
  \/ \E c \in DOMAIN creations :
       RefuseRoom(c) \/ StoreRoom(c) \/ QueueFirst(c) \/ CreationLost(c) \/ CreationAnswered(c)

CreationSpec == CreationInit /\ [][CreationNext]_creationVars
===============================================================================
