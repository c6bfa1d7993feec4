-------------------------- MODULE RequestProperties ---------------------------
(* What a visitor who asks for something by a button or a dialog may rely on.  *)
EXTENDS QueueRequests, RoomCreation, FiniteSets

\* Where the page offers to take a video out, playback agrees that this user may,
\* whoever signed in or out meanwhile: a removal fails because the page is behind,
\* never because it is not allowed.
OfferedIsAllowed == removing.answer # "NOT_ALLOWED_TO_REMOVE"

\* What the dialog has words for is true: the submission has queued nothing.
\* (Of "could not add the video" the code cannot say so.)
FriendlyIsTrue == adding.answer \in FRIENDLY => adding.entry = 0

\* A submission that closes the dialog has queued its video, for the user who
\* submitted it.
AddedIsQueued ==
  adding.answer = "added" =>
    adding.entry # 0 /\ entries[adding.entry].video = adding.video /\ entries[adding.entry].by = adding.by

\* A room that was refused was not made, also when its first video was; a room
\* that the browser goes to is the submitter's, and no other submission's.
CreationIsHonest ==
  /\ \A c \in DOMAIN creations :
       /\ creations[c].answer = "refused" => creations[c].room = 0
       /\ creations[c].answer = "created" => madeRooms[creations[c].room].owner = creations[c].by
  /\ \A r \in DOMAIN madeRooms :
       Cardinality({c \in DOMAIN creations : creations[c].room = r}) = 1

\* What the buttons of the queue and the dialog for a new room say is what happens
\* (add-video-modal.tsx:14-20, :35-46, room-view.tsx:89-96, create-room-modal.tsx:21-35,
\* rooms.controller.ts:77-94).
ButtonsTellTheTruth ==
  OfferedIsAllowed /\ FriendlyIsTrue /\ AddedIsQueued /\ CreationIsHonest
===============================================================================
