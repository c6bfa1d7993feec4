----------------------------- MODULE QueueRequests ----------------------------
(* Adding a video to a room's queue and taking one out of it, from the button  *)
(* through the API gateway to playback and back.  (Playback has what the two   *)
(* use cases do to the timeline; here they are one step each.)                 *)
EXTENDS Naturals, SequencesExt

CONSTANTS
  Visitors, Owner,   \* who may sit at the page, and whose room it is
  Links,          \* YouTube links that are pasted
  MaxEntries      \* bound: videos ever queued

ASSUME QueueRequestsAssumption == Owner \in Visitors /\ MaxEntries \in Nat

VARIABLES
  user,         \* who is signed in at the page, or Nobody
  entries,      \* the queue items, oldest first: [video, by, status]
  shown,        \* the entries that QueuePanel lists
  open,         \* whether AddVideoModal is
  adding,       \* its request: [at, video, by, entry, answer]
  removing      \* the removal under way: [at, entry, by, answer]

requestVars == <<user, entries, shown, open, adding, removing>>

Nobody   == "nobody"
NoAdd    == [at |-> "none", video |-> Nobody, by |-> Nobody, entry |-> 0, answer |-> "none"]
NoRemove == [at |-> "none", entry |-> 0, by |-> Nobody, answer |-> "none"]
With(statuses) == {i \in DOMAIN entries : entries[i].status \in statuses}

\* What the dialog has words for: a duplicate, or YouTube's four reasons, which
\* make no difference here.  Anything else is "could not add the video".
FRIENDLY == {"DUPLICATE_VIDEO", "VIDEO_REFUSED"}

RequestsInit ==
  /\ user \in Visitors \cup {Nobody}
  /\ entries = <<>> /\ shown = {}
  /\ open = FALSE
  /\ adding = NoAdd /\ removing = NoRemove

-------------------------------------------------------------------------------
(* The timeline *)

Queue(v, u) ==
  /\ Len(entries) < MaxEntries
  /\ entries' = Append(entries, [video |-> v, by |-> u, status |-> "pending"])

HasVideo(v) == \E i \in With({"pending", "playing"}) : entries[i].video = v

SetStatus(i, status) == entries' = [entries EXCEPT ![i].status = status]

\* Other pages, and requests of this one that it gave up.
OthersAdd(v, u) ==
  /\ ~HasVideo(v) /\ Queue(v, u)
  /\ UNCHANGED <<user, shown, open, adding, removing>>

OthersRemove(i) ==
  /\ i \in With({"pending"}) /\ SetStatus(i, "gone")
  /\ UNCHANGED <<user, shown, open, adding, removing>>

OnTheAir(i) ==
  /\ With({"playing"}) = {} /\ i \in With({"pending"})
  /\ \A j \in With({"pending"}) : i <= j
  /\ SetStatus(i, "playing")
  /\ UNCHANGED <<user, shown, open, adding, removing>>

OffTheAir(i) ==
  /\ i \in With({"playing"}) /\ SetStatus(i, "gone")
  /\ UNCHANGED <<user, shown, open, adding, removing>>

\* A snapshot or queue:updated, which may be long in coming (RoomPage).
ShowQueue ==
  /\ shown' = With({"pending"}) /\ shown' # shown
  /\ UNCHANGED <<user, entries, open, adding, removing>>

-------------------------------------------------------------------------------
(* The page *)

\* Signing in and out leaves dialog and requests alone.
Become(u) ==
  /\ u # user /\ user' = u
  /\ UNCHANGED <<entries, shown, open, adding, removing>>

OpenDialog ==
  /\ ~open /\ user # Nobody /\ open' = TRUE
  /\ UNCHANGED <<user, entries, shown, adding, removing>>

\* Also while the request is under way.
CloseDialog ==
  /\ open /\ open' = FALSE
  /\ UNCHANGED <<user, entries, shown, adding, removing>>

\* One submission at a time; without a token it returns without a word.
SubmitVideo(v) ==
  /\ open /\ adding = NoAdd /\ user # Nobody
  /\ adding' = [NoAdd EXCEPT !.at = "asked", !.video = v, !.by = user]
  /\ UNCHANGED <<user, entries, shown, open, removing>>

CanRemoveItem(i) == user # Nobody /\ (entries[i].by = user \/ user = Owner)

OnRemove(i) ==
  /\ i \in shown /\ CanRemoveItem(i) /\ removing.at = "none"
  /\ removing' = [at |-> "asked", entry |-> i, by |-> user, answer |-> "none"]
  /\ UNCHANGED <<user, entries, shown, open, adding>>

-------------------------------------------------------------------------------
(* Gateway and playback *)

Reply(code) == adding' = [adding EXCEPT !.at = "answered", !.answer = code]

\* Token, rate limit, schema, and then what YouTube says.
RefuseAdd ==
  /\ adding.at = "asked"
  /\ \E code \in {"VIDEO_REFUSED", "other"} : Reply(code)
  /\ UNCHANGED <<user, entries, shown, open, removing>>

FindDuplicate ==
  /\ adding.at = "asked" /\ HasVideo(adding.video) /\ Reply("DUPLICATE_VIDEO")
  /\ UNCHANGED <<user, entries, shown, open, removing>>

AddToQueue ==
  /\ adding.at = "asked" /\ ~HasVideo(adding.video)
  /\ Queue(adding.video, adding.by)
  /\ adding' = [adding EXCEPT !.at = "answered", !.entry = Len(entries'), !.answer = "added"]
  /\ UNCHANGED <<user, shown, open, removing>>

\* The answer is lost, or the start of the idle room fails after the insertion.
AddAnswerLost ==
  /\ adding.at \in {"asked", "answered"} /\ Reply("other")
  /\ UNCHANGED <<user, entries, shown, open, removing>>

\* The dialog says why not; or it closes, also if it has been opened anew.
Answered ==
  /\ adding.at = "answered"
  /\ adding' = NoAdd
  /\ open' = (open /\ adding.answer # "added")
  /\ UNCHANGED <<user, entries, shown, removing>>

\* Mutant of IsRoomOwner: the gateway does not resolve it.
NotResolved(u) == FALSE

\* The gateway asks the rooms service.
IsRoomOwner(u) == u = Owner

RemoveFromQueue ==
  LET i == removing.entry  u == removing.by
      answer == CASE entries[i].status = "gone" -> "QUEUE_ITEM_NOT_FOUND"
                  [] entries[i].status = "playing" -> "CANNOT_REMOVE_PLAYING"
                  [] entries[i].status = "pending" /\ u # entries[i].by /\ ~IsRoomOwner(u)
                       -> "NOT_ALLOWED_TO_REMOVE"
                  [] OTHER -> "removed" IN
  /\ removing.at = "asked"
  /\ removing' = [removing EXCEPT !.at = "answered", !.answer = answer]
  /\ IF answer = "removed" THEN SetStatus(i, "gone") ELSE UNCHANGED entries
  /\ UNCHANGED <<user, shown, open, adding>>

\* The page ignores the answer, and whether there is one.
RemoveAnswered ==
  /\ removing.at \in {"asked", "answered"} /\ removing' = NoRemove
  /\ UNCHANGED <<user, entries, shown, open, adding>>

RequestsNext ==
  \/ \E v \in Links : SubmitVideo(v) \/ \E u \in Visitors : OthersAdd(v, u)
  \/ \E u \in Visitors \cup {Nobody} : Become(u)
  \/ ShowQueue \/ OpenDialog \/ CloseDialog
  \/ RefuseAdd \/ FindDuplicate \/ AddToQueue \/ AddAnswerLost \/ Answered
  \/ \E i \in DOMAIN entries :
       OnTheAir(i) \/ OffTheAir(i) \/ OthersRemove(i) \/ OnRemove(i)
  \/ RemoveFromQueue \/ RemoveAnswered

RequestsSpec == RequestsInit /\ [][RequestsNext]_requestVars
===============================================================================
