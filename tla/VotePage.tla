------------------------------- MODULE VotePage -------------------------------
(* The vote overlay of a room page: the broadcasts and the answers that drive  *)
(* it, over the votes of the room (VoteEngine has those in detail; here who    *)
(* wins is free, because presence decides it).                                 *)
EXTENDS PageSocket, FiniteSets, Sequences

CONSTANTS
  Me, Others,   \* the user of this page, and who else votes in the room
  MaxVotes      \* bound: votes started

VARIABLES
  votes,        \* the votes so far, oldest first: [result, yes]
  coolingDown,  \* the cooldown key of the video
  news,         \* published, not broadcast yet: [n, kind, vote, yes, result]
  told,         \* events published so far
  aired,        \* auxiliary: the newest event that was broadcast
  overlay,      \* open: [vote, yes], or nothing
  hasVoted, coolingUntil,
  banner,       \* useRoomVotes.result: how the last vote ended, or "none"
  starting,     \* the vote:start under way: [at, n, vote]
  casting,      \* the vote:cast under way, or 0
  misled,       \* auxiliary: what of the overlay a known gap keeps wrong
  lostCast      \* auxiliary: the vote that a failed vote:cast was for, or 0

votePageVars == <<socketVars, votes, coolingDown, news, told, aired, overlay, hasVoted,
                  coolingUntil, banner, starting, casting, misled, lostCast>>

NoOverlay == [vote |-> 0, yes |-> 0]
NotAsked  == [at |-> "none", n |-> 0, vote |-> 0]
Open      == {v \in DOMAIN votes : votes[v].result = "open"}

VotePageInit ==
  /\ SocketInit
  /\ votes = <<>> /\ coolingDown = FALSE
  /\ news = {} /\ told = 0 /\ aired = 0
  /\ overlay = NoOverlay /\ hasVoted = FALSE /\ coolingUntil = FALSE
  /\ banner = "none"
  /\ starting = NotAsked /\ casting = 0 /\ misled = {} /\ lostCast = 0

serviceVars == <<votes, coolingDown, told>>
screenVars  == <<overlay, hasVoted, coolingUntil, banner>>
auxVars     == <<aired, misled, lostCast>>

-------------------------------------------------------------------------------
(* The vote engine *)

Announce(kind, v) ==
  /\ told' = told + 1
  /\ news' = news \cup {[n |-> told + 1, kind |-> kind, vote |-> v,
                         yes |-> Cardinality(votes'[v].yes), result |-> votes'[v].result]}

MayStart == Open = {} /\ ~coolingDown /\ Len(votes) < MaxVotes

CreateVote(u) ==
  /\ MayStart
  /\ votes' = Append(votes, [result |-> "open", yes |-> {u}])
  /\ Announce("started", Len(votes'))
  /\ UNCHANGED coolingDown

Ballot(u, v) ==
  /\ v \in Open /\ u \notin votes[v].yes
  /\ votes' = [votes EXCEPT ![v].yes = @ \cup {u}]
  /\ Announce("progress", v)
  /\ UNCHANGED coolingDown

OthersVote ==
  /\ \E u \in Others : CreateVote(u) \/ \E v \in Open : Ballot(u, v)
  /\ UNCHANGED <<socketVars, screenVars, starting, casting, auxVars>>

Resolve(v) ==
  /\ v \in Open
  /\ \E r \in {"passed", "failed"} :
       /\ votes' = [votes EXCEPT ![v].result = r]
       /\ coolingDown' = (r = "failed")
  /\ Announce("finished", v)
  /\ UNCHANGED <<socketVars, screenVars, starting, casting, auxVars>>

CooldownEnds ==
  /\ coolingDown /\ coolingDown' = FALSE
  /\ UNCHANGED <<socketVars, votes, told, news, screenVars, starting, casting, auxVars>>

-------------------------------------------------------------------------------
(* The page asks *)

Connected == socket \in {"joining", "in", "out"}

\* The skip button is disabled while a vote is shown or the page cools down.
MayAskSkip == overlay = NoOverlay /\ ~coolingUntil

StartVote ==
  /\ Connected /\ MayAskSkip /\ starting = NotAsked
  /\ starting' = [NotAsked EXCEPT !.at = "asked"]
  /\ UNCHANGED <<socketVars, serviceVars, news, screenVars, casting, auxVars>>

\* The gateway relays; the engine creates the vote, or refuses.
RelayStart ==
  /\ starting.at = "asked"
  /\ \/ /\ socket = "in" /\ CreateVote(Me)
        /\ starting' = [at |-> "ok", n |-> told', vote |-> Len(votes')]
     \/ /\ ~MayStart \/ socket # "in"
        /\ starting' = [starting EXCEPT !.at = IF coolingDown /\ Open = {} /\ socket = "in"
                                              THEN "VOTE_COOLDOWN" ELSE "refused"]
        /\ UNCHANGED <<serviceVars, news>>
  /\ UNCHANGED <<socketVars, screenVars, casting, auxVars>>

\* The engine fails after its commit, or the call to it does.
RelayFails ==
  /\ starting.at \in {"asked", "ok"}
  /\ starting' = [NotAsked EXCEPT !.at = "refused"]
  /\ UNCHANGED <<socketVars, serviceVars, news, screenVars, casting, auxVars>>

\* The ack: it seeds the overlay, whatever has been broadcast meanwhile.
StartAnswered ==
  /\ starting.at \in {"ok", "VOTE_COOLDOWN", "refused"}
  /\ IF starting.at = "ok"
     THEN /\ hasVoted' = TRUE /\ overlay' = [vote |-> starting.vote, yes |-> 1]
          /\ misled' = IF aired > starting.n THEN {"vote", "count"} ELSE misled
          /\ UNCHANGED coolingUntil
     ELSE /\ coolingUntil' = (coolingUntil \/ starting.at = "VOTE_COOLDOWN")
          /\ UNCHANGED <<hasVoted, overlay, misled>>
  /\ starting' = NotAsked
  /\ UNCHANGED <<socketVars, serviceVars, news, banner, casting, aired, lostCast>>

\* The overlay shows a button while there is a vote, disabled once one has voted.
MayCast == overlay # NoOverlay /\ ~hasVoted

\* hasVoted at once; the answer is ignored.
CastVote ==
  /\ Connected /\ MayCast /\ casting = 0
  /\ hasVoted' = TRUE /\ casting' = overlay.vote
  /\ UNCHANGED <<socketVars, serviceVars, news, overlay, coolingUntil, banner, starting, auxVars>>

RelayCast ==
  /\ casting # 0 /\ casting' = 0
  /\ \/ Ballot(Me, casting) /\ UNCHANGED lostCast
     \/ /\ casting \in Open => Me \in votes[casting].yes
        /\ lostCast' = casting /\ UNCHANGED <<serviceVars, news>>
     \/ lostCast' = casting /\ UNCHANGED <<serviceVars, news>>
  /\ UNCHANGED <<socketVars, screenVars, starting, aired, misled>>

-------------------------------------------------------------------------------
(* The page is told *)

\* Mutant of Heard: the end of a vote leaves the overlay alone.
HeardToTheEnd(e) ==
  IF e.kind = "finished" THEN overlay
  ELSE IF e.kind = "started" THEN [vote |-> e.vote, yes |-> e.yes]
  ELSE IF overlay = NoOverlay THEN overlay ELSE [overlay EXCEPT !.yes = e.yes]

\* onStarted, onProgress, onFinished: none looks at which vote it is about.
Heard(e) ==
  IF e.kind = "finished" THEN NoOverlay
  ELSE IF e.kind = "started" THEN [vote |-> e.vote, yes |-> e.yes]
  ELSE IF overlay = NoOverlay THEN overlay ELSE [overlay EXCEPT !.yes = e.yes]

Concerns(e) == IF e.kind = "progress" THEN {"count"} ELSE {"vote", "count"}

\* One of three consumers, whose handlers overlap.
VoteBroadcast(e) ==
  LET late == e.n < aired IN
  /\ e \in news /\ news' = news \ {e}
  /\ aired' = IF late THEN aired ELSE e.n
  /\ IF Receiving
     THEN /\ overlay' = Heard(e)
          /\ hasVoted' = (hasVoted /\ e.kind # "started")
          /\ coolingUntil' = (coolingUntil \/ (e.kind = "finished" /\ e.result = "failed"))
          /\ banner' = CASE e.kind = "started" -> "none"
                         [] e.kind = "progress" -> banner
                         [] e.kind = "finished" -> e.result
     ELSE UNCHANGED screenVars
  /\ misled' = IF late \/ ~Receiving THEN misled \cup Concerns(e)
               ELSE IF e.kind = "progress" /\ "vote" \in misled THEN misled
               ELSE misled \ Concerns(e)
  /\ UNCHANGED <<socketVars, serviceVars, starting, casting, lostCast>>

PageCoolsDown ==
  /\ coolingUntil /\ coolingUntil' = FALSE
  /\ UNCHANGED <<socketVars, serviceVars, news, overlay, hasVoted, banner,
                 starting, casting, auxVars>>

\* The banner hides itself, in a while: every rendering starts its timer anew.
DismissResult ==
  /\ banner # "none" /\ banner' = "none"
  /\ UNCHANGED <<socketVars, serviceVars, news, overlay, hasVoted, coolingUntil,
                 starting, casting, auxVars>>

\* With the connection go the answers to what was asked over it.
VoteFollows ==
  /\ SignIn \/ Connect \/ JoinRoom \/ JoinRefused \/ Drop \/ Replace
  /\ starting' = IF socket' = "down" THEN NotAsked ELSE starting
  /\ UNCHANGED <<serviceVars, news, screenVars, casting, auxVars>>

VotePageNext ==
  \/ OthersVote \/ CooldownEnds \/ \E v \in Open : Resolve(v)
  \/ StartVote \/ RelayStart \/ RelayFails \/ StartAnswered \/ CastVote \/ RelayCast
  \/ \E e \in news : VoteBroadcast(e)
  \/ PageCoolsDown \/ DismissResult \/ VoteFollows

VotePageSpec == VotePageInit /\ [][VotePageNext]_votePageVars
===============================================================================
