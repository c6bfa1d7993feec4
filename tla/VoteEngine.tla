------------------------------ MODULE VoteEngine ------------------------------
(***************************************************************************)
(* The skip votes of one room (VoteEngine) composed with the timeline they *)
(* act on (Playback).  Votes live in PostgreSQL, ballots and cooldowns in  *)
(* Redis, the resolution at the end of the window is a BullMQ job.         *)
(*                                                                         *)
(* An operation of Procs is either a playback operation, and then moves by *)
(* pc, or a vote operation, and then moves by vpc; a vote that passes runs *)
(* PlaybackManager.skip inside it (vpc is "skipping" while pc moves).      *)
(*                                                                         *)
(* Presence belongs to the realtime gateway and changes at any time, so    *)
(* each reading of it returns any head count up to MaxPresent.             *)
(***************************************************************************)
EXTENDS Playback, FiniteSets

CONSTANTS
  Votes,          \* vote ids the id generator will hand out
  Users,          \* users who start and cast votes
  NoVote, NoUser,
  MaxPresent,     \* bound: users in the room
  MaxVoteFaults   \* bound: failed calls of vote operations

ASSUME VoteAssumption ==
  /\ NoVote \notin Votes /\ NoUser \notin Users
  /\ MaxPresent \in Nat /\ MaxVoteFaults \in Nat

VARIABLES
  vote,           \* the votes table: item and result; "ABSENT" before the row exists
  verdicts,       \* the playback.vote.finished events of each vote, oldest first
  ballots,        \* vote:{id}:yes in Redis
  cooling,        \* items with a vote-cooldown key
  closed,         \* votes whose endsAt has passed
  resolution,     \* the job vote-{voteId} in BullMQ
  recovered,      \* votes whose job was already recovered once
  vpc, vreg,      \* control point and locals of vote operations
  voteFaults

voteStore == <<vote, verdicts, ballots, cooling, closed, resolution, recovered>>
voteVars  == <<voteStore, vpc, vreg, voteFaults>>
allVars   == <<vars, voteVars>>

-------------------------------------------------------------------------------
(* Types *)

Results    == {"PASSED", "FAILED"}
StartVoteSteps == {"findOpen", "isCoolingDown", "countAtStart", "addStarter", "create", "scheduleResolution"}
CastSteps      == {"addBallot", "countYes", "countAtCast"}
ResolveSteps   == {"refetch", "recount", "countAtResolve", "setResult", "cancelResolution",
                   "clearBallots", "skip", "skipping", "setCooldown"}
NoVoteRegs == [vote |-> NoVote, item |-> NoItem, user |-> NoUser,
               yes |-> 0, needed |-> 0, job |-> NoVote]

Open == {v \in Votes : vote[v].result = "OPEN"}

VoteInit ==
  /\ Init
  /\ vote = [v \in Votes |-> [item |-> NoItem, result |-> "ABSENT"]]
  /\ verdicts = [v \in Votes |-> <<>>]
  /\ ballots = [v \in Votes |-> {}]
  /\ cooling = {}
  /\ closed = {}
  /\ resolution = [v \in Votes |-> "none"]
  /\ recovered = {}
  /\ vpc = [p \in Procs |-> "idle"]
  /\ vreg = [p \in Procs |-> NoVoteRegs]
  /\ voteFaults = 0

-------------------------------------------------------------------------------
(* Control *)

VGoto(p, here, there) ==
  /\ vpc[p] = here
  /\ vpc' = [vpc EXCEPT ![p] = there]

\* needed() of a head count; countPresent may return any.
Quorum(present) == (IF present = 0 THEN 1 ELSE present) \div 2 + 1
NeededNow       == {Quorum(n) : n \in 0 .. MaxPresent}

\* The response, or BullMQ discarding the finished resolution job.
Respond(p) ==
  /\ VGoto(p, "respond", "idle")
  /\ resolution' = [v \in Votes |-> IF v = vreg[p].job THEN "none" ELSE resolution[v]]
  /\ vreg' = [vreg EXCEPT ![p] = NoVoteRegs]
  /\ UNCHANGED <<vars, vote, verdicts, ballots, cooling, closed, recovered, voteFaults>>

-------------------------------------------------------------------------------
(* Plausible mistakes, as in Playback *)

\* The row is written, the job is forgotten.
ForgetResolution(p) ==
  /\ VGoto(p, "scheduleResolution", IF 1 >= vreg[p].needed THEN "refetch" ELSE "respond")
  /\ UNCHANGED <<vars, voteStore, vreg, voteFaults>>

\* No job for a vote that is about to pass anyway.
ScheduleUnlessSolo(p) ==
  /\ VGoto(p, "scheduleResolution", IF 1 >= vreg[p].needed THEN "refetch" ELSE "respond")
  /\ resolution' = [resolution EXCEPT ![vreg[p].vote] = IF 1 >= vreg[p].needed THEN @ ELSE "delayed"]
  /\ UNCHANGED <<vars, vote, verdicts, ballots, cooling, closed, recovered, vreg, voteFaults>>

\* A fired job counts without looking at the result.
ResolveUnchecked(p, v) ==
  /\ resolution[v] = "delayed" /\ v \in closed
  /\ pc[p] = "idle"
  /\ VGoto(p, "idle", "recount")
  /\ resolution' = [resolution EXCEPT ![v] = "active"]
  /\ vreg' = [vreg EXCEPT ![p] = [@ EXCEPT !.vote = v, !.item = vote[v].item, !.job = v]]
  /\ UNCHANGED <<vars, vote, verdicts, ballots, cooling, closed, recovered, voteFaults>>

\* Every verdict leads to the cooldown.
ClearAndCoolDown(p) ==
  /\ VGoto(p, "clearBallots", "setCooldown")
  /\ ballots' = [ballots EXCEPT ![vreg[p].vote] = {}]
  /\ UNCHANGED <<vars, vote, verdicts, cooling, closed, resolution, recovered, vreg, voteFaults>>

\* The next video is started without finishing the current one.
CallStartNext(p) ==
  /\ skips < MaxSkips
  /\ skips' = skips + 1
  /\ VGoto(p, "skip", "skipping")
  /\ Goto(p, "idle", "findNext")
  /\ UNCHANGED <<database, tuple, queue, reg, faults, voteStore, vreg, voteFaults>>

-------------------------------------------------------------------------------
(* VoteEngine.start *)

\* An id no row, ballot key or running operation knows.
FreshVote(v) ==
  /\ vote[v].result = "ABSENT"
  /\ ballots[v] = {}
  /\ \A p \in Procs : vreg[p].vote # v

\* The tuple is read: something plays, and the vote will be about that item.
StartVote(p, v, u) ==
  /\ FreshVote(v)
  /\ pc[p] = "idle"
  /\ tuple # NoItem
  /\ VGoto(p, "idle", "findOpen")
  /\ vreg' = [vreg EXCEPT ![p] = [@ EXCEPT !.vote = v, !.item = tuple, !.user = u]]
  /\ UNCHANGED <<vars, voteStore, voteFaults>>

FindOpen(p) ==
  /\ VGoto(p, "findOpen", IF Open = {} THEN "isCoolingDown" ELSE "respond")
  /\ UNCHANGED <<vars, voteStore, vreg, voteFaults>>

IsCoolingDown(p) ==
  /\ VGoto(p, "isCoolingDown", IF vreg[p].item \in cooling THEN "respond" ELSE "countAtStart")
  /\ UNCHANGED <<vars, voteStore, vreg, voteFaults>>

CountAtStart(p) ==
  /\ VGoto(p, "countAtStart", "addStarter")
  /\ \E n \in NeededNow : vreg' = [vreg EXCEPT ![p].needed = n]
  /\ UNCHANGED <<vars, voteStore, voteFaults>>

\* addYes, for the starter and for a caster
AddYes(p) == ballots' = [ballots EXCEPT ![vreg[p].vote] = @ \cup {vreg[p].user}]

AddStarter(p) ==
  /\ VGoto(p, "addStarter", "create")
  /\ AddYes(p)
  /\ UNCHANGED <<vars, vote, verdicts, cooling, closed, resolution, recovered, vreg, voteFaults>>

CreateVote(p) ==
  /\ VGoto(p, "create", "scheduleResolution")
  /\ vote' = [vote EXCEPT ![vreg[p].vote] = [item |-> vreg[p].item, result |-> "OPEN"]]
  /\ UNCHANGED <<vars, verdicts, ballots, cooling, closed, resolution, recovered, vreg, voteFaults>>

\* A room of one passes its own vote at once.
ScheduleResolution(p) ==
  /\ VGoto(p, "scheduleResolution", IF 1 >= vreg[p].needed THEN "refetch" ELSE "respond")
  /\ resolution' = [resolution EXCEPT ![vreg[p].vote] = "delayed"]
  /\ UNCHANGED <<vars, vote, verdicts, ballots, cooling, closed, recovered, vreg, voteFaults>>

-------------------------------------------------------------------------------
(* VoteEngine.cast *)

\* findById saw an open vote before its endsAt.
CastVote(p, v, u) ==
  /\ v \in Open \ closed
  /\ pc[p] = "idle"
  /\ VGoto(p, "idle", "addBallot")
  /\ vreg' = [vreg EXCEPT ![p] = [@ EXCEPT !.vote = v, !.item = vote[v].item, !.user = u]]
  /\ UNCHANGED <<vars, voteStore, voteFaults>>

AddBallot(p) ==
  /\ VGoto(p, "addBallot", "countYes")
  /\ AddYes(p)
  /\ UNCHANGED <<vars, vote, verdicts, cooling, closed, resolution, recovered, vreg, voteFaults>>

ReadYes(p) == vreg' = [vreg EXCEPT ![p].yes = Cardinality(ballots[vreg[p].vote])]

CountYes(p) ==
  /\ VGoto(p, "countYes", "countAtCast")
  /\ ReadYes(p)
  /\ UNCHANGED <<vars, voteStore, voteFaults>>

\* vote.progress goes out here; nothing reads it back.
CountAtCast(p) ==
  /\ \E n \in NeededNow :
       VGoto(p, "countAtCast", IF vreg[p].yes >= n THEN "refetch" ELSE "respond")
  /\ UNCHANGED <<vars, voteStore, vreg, voteFaults>>

-------------------------------------------------------------------------------
(* VoteEngine.resolveByTimeout and resolve *)

\* The resolution job is due; a vote that is resolved by now is left alone.
ResolveByTimeout(p, v) ==
  /\ resolution[v] = "delayed" /\ v \in closed
  /\ pc[p] = "idle"
  /\ VGoto(p, "idle", IF v \in Open THEN "refetch" ELSE "respond")
  /\ resolution' = [resolution EXCEPT ![v] = "active"]
  /\ vreg' = [vreg EXCEPT ![p] = [@ EXCEPT !.vote = v, !.item = vote[v].item, !.job = v]]
  /\ UNCHANGED <<vars, vote, verdicts, ballots, cooling, closed, recovered, voteFaults>>

Refetch(p) ==
  /\ VGoto(p, "refetch", IF vreg[p].vote \in Open THEN "recount" ELSE "respond")
  /\ UNCHANGED <<vars, voteStore, vreg, voteFaults>>

Recount(p) ==
  /\ VGoto(p, "recount", "countAtResolve")
  /\ ReadYes(p)
  /\ UNCHANGED <<vars, voteStore, voteFaults>>

CountAtResolve(p) ==
  /\ VGoto(p, "countAtResolve", "setResult")
  /\ \E n \in NeededNow : vreg' = [vreg EXCEPT ![p].needed = n]
  /\ UNCHANGED <<vars, voteStore, voteFaults>>

Passed(p) == vreg[p].yes >= vreg[p].needed

\* The update is by id only; the event shares its transaction.
SetResult(p) ==
  LET result == IF Passed(p) THEN "PASSED" ELSE "FAILED" IN
  /\ VGoto(p, "setResult", "cancelResolution")
  /\ vote' = [vote EXCEPT ![vreg[p].vote].result = result]
  /\ verdicts' = [verdicts EXCEPT ![vreg[p].vote] = Append(@, result)]
  /\ UNCHANGED <<vars, ballots, cooling, closed, resolution, recovered, vreg, voteFaults>>

CancelResolution(p) ==
  /\ VGoto(p, "cancelResolution", "clearBallots")
  /\ resolution' = [resolution EXCEPT ![vreg[p].vote] = IF @ = "delayed" THEN "none" ELSE @]
  /\ UNCHANGED <<vars, vote, verdicts, ballots, cooling, closed, recovered, vreg, voteFaults>>

ClearBallots(p) ==
  /\ VGoto(p, "clearBallots", IF Passed(p) THEN "skip" ELSE "setCooldown")
  /\ ballots' = [ballots EXCEPT ![vreg[p].vote] = {}]
  /\ UNCHANGED <<vars, vote, verdicts, cooling, closed, resolution, recovered, vreg, voteFaults>>

SetCooldown(p) ==
  /\ VGoto(p, "setCooldown", "respond")
  /\ cooling' = cooling \cup {vreg[p].item}
  /\ UNCHANGED <<vars, vote, verdicts, ballots, closed, resolution, recovered, vreg, voteFaults>>

\* manager.skip(roomId, 'vote'): the room is named, the item is not.
CallSkip(p) ==
  /\ skips < MaxSkips
  /\ skips' = skips + 1
  /\ VGoto(p, "skip", "skipping")
  /\ Goto(p, "idle", "findPlaying")
  /\ UNCHANGED <<database, tuple, queue, reg, faults, voteStore, vreg, voteFaults>>

SkipReturns(p) ==
  /\ pc[p] = "idle"
  /\ VGoto(p, "skipping", "respond")
  /\ UNCHANGED <<vars, voteStore, vreg, voteFaults>>

-------------------------------------------------------------------------------
(* Time *)

\* 45 s after the start, 90 s after a failure, 60 s after the window: the
\* window ends, the cooldown key expires, the ballot key expires.
CloseWindow(v) ==
  /\ vote[v].result # "ABSENT" /\ v \notin closed
  /\ closed' = closed \cup {v}
  /\ UNCHANGED <<vars, vote, verdicts, ballots, cooling, resolution, recovered, vpc, vreg, voteFaults>>

CooldownExpires(i) ==
  /\ i \in cooling
  /\ cooling' = cooling \ {i}
  /\ UNCHANGED <<vars, vote, verdicts, ballots, closed, resolution, recovered, vpc, vreg, voteFaults>>

BallotsExpire(v) ==
  /\ v \in closed /\ ballots[v] # {}
  /\ ballots' = [ballots EXCEPT ![v] = {}]
  /\ UNCHANGED <<vars, vote, verdicts, cooling, closed, resolution, recovered, vpc, vreg, voteFaults>>

-------------------------------------------------------------------------------
(* Faults *)

\* A throw ends the operation; a resolution job it ran has failed for good.
Abandon(p) ==
  /\ vpc' = [vpc EXCEPT ![p] = "idle"]
  /\ vreg' = [vreg EXCEPT ![p] = NoVoteRegs]
  /\ resolution' = [v \in Votes |-> IF v = vreg[p].job THEN "none" ELSE resolution[v]]
  /\ UNCHANGED <<vote, verdicts, ballots, cooling, closed, recovered>>

VoteCallFails(p) ==
  /\ voteFaults < MaxVoteFaults
  /\ vpc[p] \notin {"idle", "respond", "cancelResolution", "skip", "skipping"}
  /\ Abandon(p)
  /\ voteFaults' = voteFaults + 1
  /\ UNCHANGED vars

\* cancelResolution swallows the error of a removal that never reached Redis.
CancelResolutionFails(p) ==
  /\ voteFaults < MaxVoteFaults
  /\ VGoto(p, "cancelResolution", "clearBallots")
  /\ voteFaults' = voteFaults + 1
  /\ UNCHANGED <<vars, voteStore, vreg>>

\* A throw inside the skip ends the vote operation around it too.
PlaybackCallFails(p) == CallFails(p) /\ Abandon(p) /\ UNCHANGED voteFaults

PlaybackCancelFails(p) == CancelFails(p) /\ UNCHANGED voteVars

VoteCrash ==
  /\ Crash
  /\ vpc' = [p \in Procs |-> "idle"]
  /\ vreg' = [p \in Procs |-> NoVoteRegs]
  /\ resolution' = [v \in Votes |-> IF resolution[v] # "active" THEN resolution[v]
                                    ELSE IF v \in recovered THEN "none" ELSE "delayed"]
  /\ recovered' = recovered \cup {v \in Votes : resolution[v] = "active"}
  /\ UNCHANGED <<vote, verdicts, ballots, cooling, closed, voteFaults>>

-------------------------------------------------------------------------------
(* The specification *)

BeginVoting(p) ==
  \E v \in Votes : \/ \E u \in Users : StartVote(p, v, u) \/ CastVote(p, v, u)
                   \/ ResolveByTimeout(p, v)

ContinueVoting(p) ==
  \/ FindOpen(p) \/ IsCoolingDown(p) \/ CountAtStart(p) \/ AddStarter(p)
  \/ CreateVote(p) \/ ScheduleResolution(p)
  \/ AddBallot(p) \/ CountYes(p) \/ CountAtCast(p)
  \/ Refetch(p) \/ Recount(p) \/ CountAtResolve(p) \/ SetResult(p)
  \/ CancelResolution(p) \/ ClearBallots(p) \/ SetCooldown(p)
  \/ CallSkip(p) \/ SkipReturns(p) \/ Respond(p)

\* Playback operations other than a skip start on their own.
PlayOn(p) ==
  /\ \/ vpc[p] = "idle" /\ \E i \in Items : AddVideo(p, i) \/ RemoveItem(p, i) \/ Advance(p, i)
     \/ Continue(p)
  /\ UNCHANGED voteVars

VoteNext ==
  \/ \E p \in Procs :
       \/ PlayOn(p) \/ BeginVoting(p) \/ ContinueVoting(p)
       \/ VoteCallFails(p) \/ CancelResolutionFails(p)
       \/ PlaybackCallFails(p) \/ PlaybackCancelFails(p)
  \/ \E v \in Votes : CloseWindow(v) \/ BallotsExpire(v)
  \/ \E i \in Items : CooldownExpires(i)
  \/ VoteCrash

VoteSpec == VoteInit /\ [][VoteNext]_allVars

\* As for Playback; windows also come to their end.
VoteFairness ==
  /\ \A p \in Procs : WF_allVars(ContinueVoting(p)) /\ WF_allVars(Continue(p) /\ UNCHANGED voteVars)
  /\ \A i \in Items : SF_allVars(\E p \in Procs : vpc[p] = "idle" /\ Advance(p, i) /\ UNCHANGED voteVars)
  /\ \A v \in Votes : /\ SF_allVars(\E p \in Procs : ResolveByTimeout(p, v))
                      /\ WF_allVars(CloseWindow(v))

-------------------------------------------------------------------------------
(* What skip votes are meant to guarantee. *)

NoCallFailed == faults = 0 /\ voteFaults = 0

\* An open vote is never orphaned: its resolution job exists, or the operation
\* that creates it has yet to schedule that job.  An orphan would block every
\* later vote of the room (findOpen has no time limit).
OpenVoteHasResolver ==
  NoCallFailed =>
    \A v \in Open :
      \/ resolution[v] # "none"
      \/ \E p \in Procs : vpc[p] = "scheduleResolution" /\ vreg[p].vote = v

\* Every vote comes to a verdict, at the latest when its window ends, as long as
\* no call fails.
VotesEnd ==
  \A v \in Votes :
    vote[v].result = "OPEN" ~> vote[v].result \in Results \/ ~NoCallFailed

\* "Vote passed -- skipping!": a video whose vote passed is cut short, it does
\* not play to its end.
PassedVoteSkips ==
  [][NoCallFailed =>
       \A v \in Votes, i \in Items :
         vote[v] = [item |-> i, result |-> "PASSED"] /\ status[i] = "PLAYING"
           => status'[i] # "DONE"]_allVars

\* The engine drives the timeline only the way Playback allows: among others a
\* skip is asked for only in a room where some video went on the air.
ImplementsPlayback == Spec

-------------------------------------------------------------------------------
(* Races.  Nothing serialises vote operations either.  A history tells which   *)
(* votes others opened or decided since an operation looked, and whether one   *)
(* was opened or decided in ignorance of that.  It steers nothing.             *)

VARIABLES
  heard,        \* the votes whose rows changed since the look of each operation
  voteRaces     \* the kinds of races that were run: "ask", "verdict"

historyVars == <<allVars, heard, voteRaces>>

\* Between findOpen and the insert, and between the refetch and the update.
Asking   == {"isCoolingDown", "countAtStart", "addStarter", "create"}
Counting == {"recount", "countAtResolve", "setResult"}

Changed == {v \in Votes : vote'[v] # vote[v]}

\* A vote is opened beside one that was opened since findOpen; a vote is decided
\* that was decided since the refetch.
AskRaces(p)     == vpc[p] = "create" /\ vpc'[p] = "scheduleResolution" /\ heard[p] \cap Open # {}
VerdictRaces(p) == vpc[p] = "setResult" /\ vpc'[p] = "cancelResolution" /\ vreg[p].vote \in heard[p]

VoteRaceInit == VoteInit /\ heard = [p \in Procs |-> {}] /\ voteRaces = {}

VoteRaceNext ==
  /\ VoteNext
  /\ heard' = [p \in Procs |-> IF vpc'[p] \in Asking \cup Counting THEN heard[p] \cup Changed ELSE {}]
  /\ voteRaces' = voteRaces \cup (IF \E p \in Procs : AskRaces(p) THEN {"ask"} ELSE {})
                             \cup (IF \E p \in Procs : VerdictRaces(p) THEN {"verdict"} ELSE {})

VoteRaceSpec     == VoteRaceInit /\ [][VoteRaceNext]_historyVars
VoteRaceLiveSpec == VoteRaceSpec /\ VoteFairness

\* "One open vote per room", and a vote is decided once, by its quorum or by its
\* timeout, and not revised: two votes are open only after an operation opened one
\* behind another since its findOpen, and a vote has two verdicts only after an
\* operation decided it behind another since its refetch.
OnlyRacesDoubleVotes ==
  /\ "ask" \notin voteRaces => \A v, w \in Open : v = w
  /\ "verdict" \notin voteRaces => \A v \in Votes : Len(verdicts[v]) <= 1
===============================================================================
