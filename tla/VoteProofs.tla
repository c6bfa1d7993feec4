------------------------------ MODULE VoteProofs ------------------------------
(***************************************************************************)
(* Theorems about skip votes: what they do to the timeline and what they   *)
(* promise, for any number of items, votes, users and operations in        *)
(* flight, of failed calls and of crashes.                                 *)
(***************************************************************************)
EXTENDS VoteEngine, PlaybackProofs, FiniteSetTheorems

USE VoteAssumption

-------------------------------------------------------------------------------
(* Every step of the engine is a step of the timeline or none *)

VoteSteps == {"idle", "respond"} \cup StartVoteSteps \cup CastSteps \cup ResolveSteps
VoteRegs  == [vote : Votes \cup {NoVote}, item : MaybeItem, user : Users \cup {NoUser},
              yes : Nat, needed : Nat, job : Votes \cup {NoVote}]

\* Of every vote and of every operation about one: its item has been on the air.
OnceOnAir(i) == i \in Items /\ HasEvent("started", i)

VotedOnAir ==
  /\ \A v \in Votes : vote[v].result # "ABSENT" => OnceOnAir(vote[v].item)
  /\ \A p \in Procs : vpc[p] \notin {"idle", "respond"} => OnceOnAir(vreg[p].item)

\* Types as far as the proofs need them.
VoteTypes ==
  /\ vote \in [Votes -> [item : MaybeItem, result : {"ABSENT", "OPEN"} \cup Results]]
  /\ vpc \in [Procs -> VoteSteps]
  /\ vreg \in [Procs -> VoteRegs]
  /\ resolution \in [Votes -> JobStates]
  /\ DOMAIN ballots = Votes /\ \A v \in Votes : IsFiniteSet(ballots[v])
  /\ \A p \in Procs : vpc[p] \notin {"idle", "respond"} => vreg[p].vote \in Votes

\* What was announced stays announced, whatever the timeline does next.
LEMMA EventsGrow ==
  ASSUME TypeOK, ItemInHand, [Next]_vars
  PROVE  \A i \in Items : \A t : HasEvent(t, i) => HasEvent(t, i)'
<1>1. CASE UNCHANGED outbox
  BY <1>1 DEF HasEvent
<1>2. CASE \E p \in Procs : Insert(p) \/ MarkRemoved(p) \/ Finish(p) \/ StartItem(p)
  <2>1. PICK p \in Procs : Insert(p) \/ MarkRemoved(p) \/ Finish(p) \/ StartItem(p)
    BY <1>2
  <2>2. PICK i \in Items : i = reg[p].item
    BY <2>1 DEF Insert, MarkRemoved, Finish, StartItem, Goto, ItemInHand, HoldingSteps,
                AddSteps, RemoveSteps
  <2>3. \E t \in EventTypes : Announce(i, t)
    BY <2>1, <2>2, ReasonTyped DEF Insert, MarkRemoved, Finish, StartItem, EventTypes, SkipReasons
  <2> QED BY <2>3, EventsStay
<1> QED
  BY <1>1, <1>2 DEF Next, vars, database, Begin, Continue, Crash, CallFails, CancelFails, AddVideo,
     RemoveItem, Advance, Skip, ReadMaxPosition, ListForAdd, StartIfIdle, ListForRemove,
     FindPlaying, ClearTuple, CancelAdvance, FindNextPending, ListAfterNext, SetTuple,
     ScheduleAdvance, Return

\* A step of the engine that is not a skip leaves the timeline alone or is one of
\* its steps; a skip needs an item that was on the air.
LEMMA VoteStepIsPlaybackStep == VotedOnAir /\ [VoteNext]_allVars => [Next]_vars
<1> SUFFICES ASSUME VotedOnAir, [VoteNext]_allVars PROVE [Next]_vars
  OBVIOUS
<1>1. CASE UNCHANGED allVars
  BY <1>1 DEF allVars
<1>2. ASSUME NEW p \in Procs, PlayOn(p) PROVE Next
  BY <1>2 DEF PlayOn, Next, Begin
<1>3. ASSUME NEW p \in Procs, BeginVoting(p) PROVE UNCHANGED vars
  BY <1>3 DEF BeginVoting, StartVote, CastVote, ResolveByTimeout
<1>4. ASSUME NEW p \in Procs, ContinueVoting(p) PROVE [Next]_vars
  <2>1. CASE CallSkip(p)
    <3>1. \E i \in Items : HasEvent("started", i)
      BY <2>1 DEF CallSkip, VGoto, VotedOnAir, OnceOnAir
    <3>2. Skip(p)
      BY <2>1, <3>1 DEF CallSkip, Skip
    <3> QED BY <3>2 DEF Next, Begin
  <2>2. CASE ~CallSkip(p)
    BY <1>4, <2>2 DEF ContinueVoting, FindOpen, IsCoolingDown, CountAtStart, AddStarter, CreateVote,
       ScheduleResolution, AddBallot, CountYes, CountAtCast, Refetch, Recount, CountAtResolve,
       SetResult, CancelResolution, ClearBallots, SetCooldown, SkipReturns, Respond
  <2> QED BY <2>1, <2>2
<1>5. ASSUME NEW p \in Procs,
             VoteCallFails(p) \/ CancelResolutionFails(p) \/ PlaybackCallFails(p) \/ PlaybackCancelFails(p)
      PROVE  [Next]_vars
  BY <1>5 DEF VoteCallFails, CancelResolutionFails, PlaybackCallFails, PlaybackCancelFails, Next
<1>6. ASSUME NEW v \in Votes, CloseWindow(v) \/ BallotsExpire(v) PROVE UNCHANGED vars
  BY <1>6 DEF CloseWindow, BallotsExpire
<1>7. ASSUME NEW i \in Items, CooldownExpires(i) PROVE UNCHANGED vars
  BY <1>7 DEF CooldownExpires
<1>8. CASE VoteCrash
  BY <1>8 DEF VoteCrash, Next
<1> QED BY <1>1, <1>2, <1>3, <1>4, <1>5, <1>6, <1>7, <1>8 DEF VoteNext

\* A quorum is a number.
LEMMA QuorumTyped == \A n \in NeededNow : n \in Nat
<1>1. ASSUME NEW m \in 0 .. MaxPresent PROVE Quorum(m) \in Nat
  BY <1>1 DEF Quorum
<1> QED BY <1>1 DEF NeededNow

\* Every step keeps the types of the votes, of their jobs and of the locals.
LEMMA VoteTypesStep ==
  ASSUME TypeOK, VoteTypes, [VoteNext]_allVars
  PROVE  VoteTypes'
<1> USE DEF VoteTypes, VoteSteps, StartVoteSteps, CastSteps, ResolveSteps, VoteRegs, MaybeItem, VGoto
<1>1. CASE UNCHANGED voteVars
  BY <1>1 DEF voteVars, voteStore
<1>2. ASSUME NEW p \in Procs, NEW v \in Votes, NEW u \in Users, StartVote(p, v, u) PROVE VoteTypes'
  <2>1. PICK r \in VoteRegs : r = vreg[p]
    OBVIOUS
  <2>2. [r EXCEPT !.vote = v, !.item = tuple, !.user = u] \in VoteRegs
    <3>1. tuple \in MaybeItem
      BY DEF TypeOK
    <3> QED BY <3>1
  <2>3. vreg' = [vreg EXCEPT ![p] = [r EXCEPT !.vote = v, !.item = tuple, !.user = u]]
    BY <1>2, <2>1 DEF StartVote
  <2>4. vreg' \in [Procs -> VoteRegs] /\ vreg'[p].vote = v
    BY <2>1, <2>2, <2>3
  <2> QED BY <1>2, <2>3, <2>4 DEF StartVote, voteStore
<1>3. ASSUME NEW p \in Procs, NEW v \in Votes, NEW u \in Users, CastVote(p, v, u) PROVE VoteTypes'
  <2>1. PICK r \in VoteRegs : r = vreg[p]
    OBVIOUS
  <2>2. [r EXCEPT !.vote = v, !.item = vote[v].item, !.user = u] \in VoteRegs
    <3>1. vote[v].item \in MaybeItem
      OBVIOUS
    <3> QED BY <3>1
  <2>3. vreg' = [vreg EXCEPT ![p] = [r EXCEPT !.vote = v, !.item = vote[v].item, !.user = u]]
    BY <1>3, <2>1 DEF CastVote
  <2>4. vreg' \in [Procs -> VoteRegs] /\ vreg'[p].vote = v
    BY <2>1, <2>2, <2>3
  <2> QED BY <1>3, <2>3, <2>4 DEF CastVote, voteStore
<1>4. ASSUME NEW p \in Procs, NEW v \in Votes, ResolveByTimeout(p, v) PROVE VoteTypes'
  <2>1. PICK r \in VoteRegs : r = vreg[p]
    OBVIOUS
  <2>2. [r EXCEPT !.vote = v, !.item = vote[v].item, !.job = v] \in VoteRegs
    <3>1. vote[v].item \in MaybeItem
      OBVIOUS
    <3> QED BY <3>1
  <2>3. vreg' = [vreg EXCEPT ![p] = [r EXCEPT !.vote = v, !.item = vote[v].item, !.job = v]]
    BY <1>4, <2>1 DEF ResolveByTimeout
  <2>4. vreg' \in [Procs -> VoteRegs] /\ vreg'[p].vote = v
    BY <2>1, <2>2, <2>3
  <2> QED BY <1>4, <2>3, <2>4 DEF ResolveByTimeout, JobStates
<1>5. ASSUME NEW p \in Procs, FindOpen(p) \/ IsCoolingDown(p) \/ Refetch(p) \/ SkipReturns(p)
                               \/ CountAtCast(p) \/ CancelResolutionFails(p)
      PROVE  VoteTypes'
  BY <1>5 DEF FindOpen, IsCoolingDown, Refetch, SkipReturns, CountAtCast, CancelResolutionFails, voteStore
<1>6. ASSUME NEW p \in Procs, CountAtStart(p) \/ CountAtResolve(p) PROVE VoteTypes'
  <2>1. PICK n \in Nat : vreg' = [vreg EXCEPT ![p].needed = n]
    BY <1>6, QuorumTyped DEF CountAtStart, CountAtResolve
  <2> QED BY SMTT(30), <1>6, <2>1 DEF CountAtStart, CountAtResolve, voteStore
<1>7. ASSUME NEW p \in Procs, AddStarter(p) \/ AddBallot(p) PROVE VoteTypes'
  <2>1. vreg[p].vote \in Votes
    BY <1>7 DEF AddStarter, AddBallot
  <2>2. IsFiniteSet(ballots[vreg[p].vote] \cup {vreg[p].user})
    BY <2>1, FS_AddElement
  <2>3. DOMAIN ballots' = Votes /\ \A v \in Votes : IsFiniteSet(ballots'[v])
    BY <1>7, <2>1, <2>2 DEF AddStarter, AddBallot, AddYes
  <2> QED BY <1>7, <2>3 DEF AddStarter, AddBallot
<1>8. ASSUME NEW p \in Procs, CountYes(p) \/ Recount(p) PROVE VoteTypes'
  <2>1. PICK n \in Nat : n = Cardinality(ballots[vreg[p].vote])
    BY <1>8, FS_CardinalityType DEF CountYes, Recount
  <2>2. vreg' = [vreg EXCEPT ![p].yes = n]
    BY <1>8, <2>1 DEF CountYes, Recount, ReadYes
  <2>3. vreg' \in [Procs -> VoteRegs] /\ vreg'[p].vote = vreg[p].vote
    BY SMTT(30), <2>2
  <2> QED BY <1>8, <2>2, <2>3 DEF CountYes, Recount, voteStore
<1>9. ASSUME NEW p \in Procs, CreateVote(p) \/ SetResult(p) PROVE VoteTypes'
  <2>1. vreg[p].vote \in Votes /\ vreg[p].item \in MaybeItem
    BY <1>9 DEF CreateVote, SetResult
  <2>2. vote' \in [Votes -> [item : MaybeItem, result : {"ABSENT", "OPEN"} \cup Results]]
    <3>1. CASE CreateVote(p)
      BY <2>1, <3>1 DEF CreateVote
    <3>2. ASSUME NEW r \in Results, vote' = [vote EXCEPT ![vreg[p].vote].result = r]
          PROVE  vote' \in [Votes -> [item : MaybeItem, result : {"ABSENT", "OPEN"} \cup Results]]
      BY <2>1, <3>2
    <3> QED BY <1>9, <3>1, <3>2 DEF SetResult, Results
  <2> QED BY <1>9, <2>2 DEF CreateVote, SetResult
<1>10. ASSUME NEW p \in Procs, ScheduleResolution(p) \/ CancelResolution(p) PROVE VoteTypes'
  BY <1>10 DEF ScheduleResolution, CancelResolution, JobStates
<1>11. ASSUME NEW p \in Procs, SetCooldown(p) \/ CallSkip(p) PROVE VoteTypes'
  BY <1>11 DEF SetCooldown, CallSkip, voteStore
<1>12. ASSUME NEW p \in Procs, ClearBallots(p) PROVE VoteTypes'
  BY <1>12, FS_EmptySet DEF ClearBallots
<1>13. ASSUME NEW p \in Procs, Respond(p) PROVE VoteTypes'
  BY <1>13 DEF Respond, NoVoteRegs, JobStates
<1>14. ASSUME NEW p \in Procs, VoteCallFails(p) \/ PlaybackCallFails(p) PROVE VoteTypes'
  <2>1. Abandon(p)
    BY <1>14 DEF VoteCallFails, PlaybackCallFails
  <2> QED BY <2>1 DEF Abandon, NoVoteRegs, JobStates
<1>15. ASSUME NEW v \in Votes, CloseWindow(v) PROVE VoteTypes'
  BY <1>15 DEF CloseWindow
<1>16. ASSUME NEW v \in Votes, BallotsExpire(v) PROVE VoteTypes'
  BY <1>16, FS_EmptySet DEF BallotsExpire
<1>17. ASSUME NEW i \in Items, CooldownExpires(i) PROVE VoteTypes'
  BY <1>17 DEF CooldownExpires
<1>18. CASE VoteCrash
  BY <1>18 DEF VoteCrash, NoVoteRegs, JobStates
<1> QED
  BY <1>1, <1>2, <1>3, <1>4, <1>5, <1>6, <1>7, <1>8, <1>9, <1>10, <1>11, <1>12, <1>13, <1>14,
     <1>15, <1>16, <1>17, <1>18
  DEF VoteNext, allVars, PlayOn, BeginVoting, ContinueVoting, PlaybackCancelFails

\* An item that was on the air was on the air.
LEMMA OnAirStays ==
  ASSUME TypeOK, ItemInHand, [Next]_vars, NEW i, OnceOnAir(i)
  PROVE  i \in Items /\ HasEvent("started", i)'
  BY EventsGrow DEF OnceOnAir

\* An operation that moves on moves alone, and stays with its vote, its item and
\* its job until it responds.
LEMMA LocalsAfter ==
  ASSUME VoteTypes, NEW p \in Procs, ContinueVoting(p)
  PROVE  /\ \A q \in Procs \ {p} : vpc'[q] = vpc[q] /\ vreg'[q] = vreg[q]
         /\ vpc[p] # "respond" => /\ vreg'[p].vote = vreg[p].vote
                                  /\ vreg'[p].item = vreg[p].item
                                  /\ vreg'[p].job = vreg[p].job
<1> USE DEF VGoto
<1>1. vpc \in [Procs -> VoteSteps] /\ vreg \in [Procs -> VoteRegs]
  BY DEF VoteTypes
<1>2. CASE CountAtStart(p) \/ CountAtResolve(p)
  BY <1>1, <1>2 DEF CountAtStart, CountAtResolve, VoteRegs
<1>3. CASE CountYes(p) \/ Recount(p)
  BY <1>1, <1>3 DEF CountYes, Recount, ReadYes, VoteRegs
<1>4. CASE Respond(p)
  BY <1>1, <1>4 DEF Respond
<1>5. CASE UNCHANGED vreg
  <2>1. \E there : vpc' = [vpc EXCEPT ![p] = there]
    BY <1>5
    DEF ContinueVoting, FindOpen, IsCoolingDown, CountAtStart, AddStarter, CreateVote,
        ScheduleResolution, AddBallot, CountYes, CountAtCast, Refetch, Recount, CountAtResolve,
        SetResult, CancelResolution, ClearBallots, SetCooldown, CallSkip, SkipReturns, Respond
  <2> QED BY <1>1, <1>5, <2>1
<1> QED
  BY <1>2, <1>3, <1>4, <1>5
  DEF ContinueVoting, FindOpen, IsCoolingDown, AddStarter, CreateVote, ScheduleResolution, AddBallot,
      CountAtCast, Refetch, SetResult, CancelResolution, ClearBallots, SetCooldown, CallSkip, SkipReturns

\* From its insert on, an operation about a vote finds the row.
RowSteps  == {"scheduleResolution"} \cup CastSteps \cup ResolveSteps
RowExists == \A p \in Procs : vpc[p] \in RowSteps => vote[vreg[p].vote].result # "ABSENT"

\* Every step keeps the rows: none is deleted.
LEMMA RowExistsStep ==
  ASSUME VoteTypes, RowExists, [VoteNext]_allVars
  PROVE  RowExists' /\ \A v \in Votes : vote[v].result # "ABSENT" => vote'[v].result # "ABSENT"
<1> USE DEF VGoto, RowSteps, StartVoteSteps, CastSteps, ResolveSteps
<1>1. /\ vpc \in [Procs -> VoteSteps] /\ vreg \in [Procs -> VoteRegs]
      /\ vote \in [Votes -> [item : MaybeItem, result : {"ABSENT", "OPEN"} \cup Results]]
      /\ \A p \in Procs : vpc[p] \notin {"idle", "respond"} => vreg[p].vote \in Votes
  BY DEF VoteTypes
<1>2. ASSUME UNCHANGED vote, NEW p \in Procs, NEW there, vpc' = [vpc EXCEPT ![p] = there],
             \A q \in Procs \ {p} : vreg'[q] = vreg[q],
             there \in RowSteps => vote[vreg'[p].vote].result # "ABSENT"
      PROVE  RowExists'
  BY <1>1, <1>2 DEF RowExists
<1>3. ASSUME UNCHANGED <<vote, vpc, vreg>> PROVE RowExists'
  BY <1>3 DEF RowExists
<1>4. ASSUME NEW p \in Procs, BeginVoting(p) PROVE RowExists' /\ UNCHANGED vote
  <2>1. ASSUME NEW v \in Votes, NEW u \in Users, StartVote(p, v, u) PROVE RowExists' /\ UNCHANGED vote
    BY <1>1, <1>2, <2>1 DEF StartVote, voteStore
  <2>2. ASSUME NEW v \in Votes, NEW u \in Users, CastVote(p, v, u) PROVE RowExists' /\ UNCHANGED vote
    <3>1. vreg'[p].vote = v
      BY <1>1, <2>2 DEF CastVote, VoteRegs
    <3> QED BY <1>1, <1>2, <2>2, <3>1 DEF CastVote, Open, voteStore
  <2>3. ASSUME NEW v \in Votes, ResolveByTimeout(p, v) PROVE RowExists' /\ UNCHANGED vote
    <3>1. vreg'[p].vote = v
      BY <1>1, <2>3 DEF ResolveByTimeout, VoteRegs
    <3> QED BY <1>1, <1>2, <2>3, <3>1 DEF ResolveByTimeout, Open
  <2> QED BY <1>4, <2>1, <2>2, <2>3 DEF BeginVoting
<1>5. ASSUME NEW p \in Procs, ContinueVoting(p)
      PROVE  RowExists' /\ \A v \in Votes : vote[v].result # "ABSENT" => vote'[v].result # "ABSENT"
  <2>1. CASE Respond(p)
    BY <1>1, <1>2, <2>1 DEF Respond
  <2>2. CASE CreateVote(p) \/ SetResult(p)
    <3>1. vreg[p].vote \in Votes /\ UNCHANGED vreg
      BY <1>1, <2>2 DEF CreateVote, SetResult
    <3>2. /\ \A v \in Votes : vote[v].result # "ABSENT" => vote'[v].result # "ABSENT"
          /\ vote'[vreg[p].vote].result # "ABSENT"
      BY SMTT(30), <1>1, <2>2, <3>1 DEF CreateVote, SetResult
    <3> QED BY <1>1, <1>5, <3>1, <3>2, LocalsAfter DEF RowExists
  <2>3. CASE UNCHANGED vote /\ ~Respond(p) /\ ~CreateVote(p)
    <3>1. vpc'[p] \in RowSteps => vpc[p] \in RowSteps
      BY <1>1, <1>5, <2>3
      DEF ContinueVoting, FindOpen, IsCoolingDown, CountAtStart, AddStarter, CreateVote,
          ScheduleResolution, AddBallot, CountYes, CountAtCast, Refetch, Recount, CountAtResolve,
          SetResult, CancelResolution, ClearBallots, SetCooldown, CallSkip, SkipReturns
    <3> QED BY <1>5, <2>3, <3>1, LocalsAfter DEF RowExists
  <2> QED BY <1>5, <2>1, <2>2, <2>3
      DEF ContinueVoting, FindOpen, IsCoolingDown, CountAtStart, AddStarter,
          ScheduleResolution, AddBallot, CountYes, CountAtCast, Refetch, Recount, CountAtResolve,
          CancelResolution, ClearBallots, SetCooldown, CallSkip, SkipReturns, voteStore
<1>6. ASSUME NEW p \in Procs, VoteCallFails(p) \/ PlaybackCallFails(p)
      PROVE  RowExists' /\ UNCHANGED vote
  <2>1. Abandon(p)
    BY <1>6 DEF VoteCallFails, PlaybackCallFails
  <2> QED BY <1>1, <1>2, <2>1 DEF Abandon
<1>7. ASSUME NEW p \in Procs, CancelResolutionFails(p) PROVE RowExists' /\ UNCHANGED vote
  BY <1>2, <1>7 DEF CancelResolutionFails, voteStore, RowExists
<1>8. CASE VoteCrash
  BY <1>8 DEF VoteCrash, RowExists
<1>9. CASE UNCHANGED <<vote, vpc, vreg>>
  BY <1>3, <1>9
<1> QED
  BY <1>4, <1>5, <1>6, <1>7, <1>8, <1>9
  DEF VoteNext, allVars, voteVars, voteStore, PlayOn, PlaybackCancelFails, CloseWindow, BallotsExpire,
      CooldownExpires

\* Every step keeps votes about items that were on the air: a vote is about the
\* item the tuple names, and the tuple never runs ahead of the outbox.
LEMMA VotedOnAirStep ==
  ASSUME TypeOK, ItemInHand, Ahead, VoteTypes, RowExists, VotedOnAir, [VoteNext]_allVars
  PROVE  VotedOnAir'
<1>0. PICK onAir : onAir = {i \in Items : HasEvent("started", i)'}
  OBVIOUS
<1>1. \A i : OnceOnAir(i) => i \in onAir
  BY <1>0, VoteStepIsPlaybackStep, OnAirStays DEF OnceOnAir
<1>2. \A v \in Votes : vote[v].result # "ABSENT" => vote[v].item \in onAir
  BY <1>1 DEF VotedOnAir
<1>3. \A p \in Procs : vpc[p] \notin {"idle", "respond"} => vreg[p].item \in onAir
  BY <1>1 DEF VotedOnAir
<1>4. /\ vpc \in [Procs -> VoteSteps] /\ vreg \in [Procs -> VoteRegs]
      /\ vote \in [Votes -> [item : MaybeItem, result : {"ABSENT", "OPEN"} \cup Results]]
      /\ \A p \in Procs : vpc[p] \notin {"idle", "respond"} => vreg[p].vote \in Votes
  BY DEF VoteTypes
<1>5. tuple # NoItem => OnceOnAir(tuple)
  BY DEF Ahead, NothingAheadOfItsEvent, TypeOK, MaybeItem, OnceOnAir
<1> SUFFICES /\ \A v \in Votes : vote'[v].result # "ABSENT" => vote'[v].item \in onAir
             /\ \A p \in Procs : vpc'[p] \notin {"idle", "respond"} => vreg'[p].item \in onAir
  BY <1>0 DEF VotedOnAir, OnceOnAir, HasEvent
<1>6. ASSUME UNCHANGED <<vote, vpc, vreg>>
      PROVE  /\ \A v \in Votes : vote'[v].result # "ABSENT" => vote'[v].item \in onAir
             /\ \A p \in Procs : vpc'[p] \notin {"idle", "respond"} => vreg'[p].item \in onAir
  BY <1>2, <1>3, <1>6
<1>7. ASSUME NEW p \in Procs, NEW there, vpc' = [vpc EXCEPT ![p] = there],
             \A q \in Procs \ {p} : vreg'[q] = vreg[q],
             there \notin {"idle", "respond"} => vreg'[p].item \in onAir
      PROVE  \A q \in Procs : vpc'[q] \notin {"idle", "respond"} => vreg'[q].item \in onAir
  BY <1>3, <1>4, <1>7
<1> USE DEF VGoto
<1>8. ASSUME NEW p \in Procs, NEW v \in Votes, NEW u \in Users, StartVote(p, v, u)
      PROVE  UNCHANGED vote /\ \A q \in Procs : vpc'[q] \notin {"idle", "respond"} => vreg'[q].item \in onAir
  <2>1. vreg'[p].item = tuple /\ tuple \in onAir
    BY <1>1, <1>4, <1>5, <1>8 DEF StartVote, VoteRegs
  <2> QED BY <1>4, <1>7, <1>8, <2>1 DEF StartVote, voteStore
<1>9. ASSUME NEW p \in Procs, NEW v \in Votes, NEW u \in Users, CastVote(p, v, u)
      PROVE  UNCHANGED vote /\ \A q \in Procs : vpc'[q] \notin {"idle", "respond"} => vreg'[q].item \in onAir
  <2>1. vreg'[p].item = vote[v].item /\ vote[v].item \in onAir
    BY <1>2, <1>4, <1>9 DEF CastVote, VoteRegs, Open
  <2> QED BY <1>4, <1>7, <1>9, <2>1 DEF CastVote, voteStore
<1>10. ASSUME NEW p \in Procs, NEW v \in Votes, ResolveByTimeout(p, v)
       PROVE  UNCHANGED vote /\ \A q \in Procs : vpc'[q] \notin {"idle", "respond"} => vreg'[q].item \in onAir
  <2>1. vreg'[p].item = vote[v].item
    BY <1>4, <1>10 DEF ResolveByTimeout, VoteRegs
  <2>2. v \in Open => vote[v].item \in onAir
    BY <1>2 DEF Open
  <2> QED BY <1>4, <1>7, <1>10, <2>1, <2>2 DEF ResolveByTimeout
<1>11. ASSUME NEW p \in Procs, ContinueVoting(p)
       PROVE  \A q \in Procs : vpc'[q] \notin {"idle", "respond"} => vreg'[q].item \in onAir
  <2>1. CASE Respond(p)
    BY <1>4, <1>7, <2>1 DEF Respond
  <2>2. CASE ~Respond(p)
    <3>1. vpc[p] \notin {"idle", "respond"}
      BY <1>11, <2>2
      DEF ContinueVoting, FindOpen, IsCoolingDown, CountAtStart, AddStarter, CreateVote,
          ScheduleResolution, AddBallot, CountYes, CountAtCast, Refetch, Recount, CountAtResolve,
          SetResult, CancelResolution, ClearBallots, SetCooldown, CallSkip, SkipReturns
    <3> QED BY <1>3, <1>11, <3>1, LocalsAfter
  <2> QED BY <2>1, <2>2
<1>12. ASSUME NEW p \in Procs, ContinueVoting(p), NEW v \in Votes, vote'[v].result # "ABSENT"
       PROVE  vote'[v].item \in onAir
  <2>1. CASE CreateVote(p)
    <3>1. vreg[p].item \in onAir /\ vreg[p].vote \in Votes
      BY <1>3, <1>4, <2>1 DEF CreateVote
    <3> QED BY <1>2, <1>4, <1>12, <2>1, <3>1 DEF CreateVote
  <2>2. CASE SetResult(p)
    <3>1. vreg[p].vote \in Votes /\ vote[vreg[p].vote].result # "ABSENT"
      BY <1>4, <2>2 DEF SetResult, RowExists, RowSteps, ResolveSteps
    <3>2. vote'[v].item = vote[v].item /\ vote[v].result # "ABSENT"
      BY <1>4, <1>12, <2>2, <3>1 DEF SetResult
    <3> QED BY <1>2, <3>2
  <2>3. CASE UNCHANGED vote
    BY <1>2, <1>12, <2>3
  <2> QED BY <1>12, <2>1, <2>2, <2>3
      DEF ContinueVoting, FindOpen, IsCoolingDown, CountAtStart, AddStarter,
          ScheduleResolution, AddBallot, CountYes, CountAtCast, Refetch, Recount, CountAtResolve,
          CancelResolution, ClearBallots, SetCooldown, CallSkip, SkipReturns, Respond, voteStore
<1>13. ASSUME NEW p \in Procs, VoteCallFails(p) \/ PlaybackCallFails(p)
       PROVE  UNCHANGED vote /\ \A q \in Procs : vpc'[q] \notin {"idle", "respond"} => vreg'[q].item \in onAir
  <2>1. Abandon(p)
    BY <1>13 DEF VoteCallFails, PlaybackCallFails
  <2> QED BY <1>4, <1>7, <2>1 DEF Abandon
<1>14. ASSUME NEW p \in Procs, CancelResolutionFails(p)
       PROVE  UNCHANGED vote /\ \A q \in Procs : vpc'[q] \notin {"idle", "respond"} => vreg'[q].item \in onAir
  BY <1>3, <1>7, <1>14 DEF CancelResolutionFails, voteStore
<1>15. CASE VoteCrash
  BY <1>2, <1>15 DEF VoteCrash
<1>16. CASE UNCHANGED vote /\ \A p \in Procs : vpc'[p] \notin {"idle", "respond"} => vreg'[p].item \in onAir
  BY <1>2, <1>16
<1> QED
  BY <1>6, <1>8, <1>9, <1>10, <1>11, <1>12, <1>13, <1>14, <1>15, <1>16
  DEF VoteNext, allVars, voteVars, voteStore, PlayOn, BeginVoting, PlaybackCancelFails, CloseWindow,
      BallotsExpire, CooldownExpires

-------------------------------------------------------------------------------
(* The engine implements the timeline *)

VoteSafe == TypeOK /\ ItemInHand /\ Ahead /\ VoteTypes /\ RowExists /\ VotedOnAir

\* It holds of a new room, and every step keeps it.
LEMMA VoteSafeAlways == VoteSpec => []VoteSafe
<1>1. VoteInit => VoteSafe
  <2> SUFFICES ASSUME VoteInit PROVE VoteSafe
    OBVIOUS
  <2>1. TypeOK /\ ItemInHand
    BY TypeInit DEF VoteInit
  <2>2. Ahead
    BY DEF VoteInit, Init, Ahead, NothingAheadOfItsEvent, StartedInHand
  <2>3. VoteTypes
    BY FS_EmptySet DEF VoteInit, VoteTypes, VoteSteps, VoteRegs, NoVoteRegs, MaybeItem, JobStates
  <2>4. RowExists /\ VotedOnAir
    BY DEF VoteInit, RowExists, RowSteps, StartVoteSteps, CastSteps, ResolveSteps, VotedOnAir
  <2> QED BY <2>1, <2>2, <2>3, <2>4 DEF VoteSafe
<1>2. VoteSafe /\ [VoteNext]_allVars => VoteSafe'
  BY VoteStepIsPlaybackStep, TypeStep, ItemInHandStep, AheadStep, VoteTypesStep, RowExistsStep,
     VotedOnAirStep DEF VoteSafe
<1> QED BY <1>1, <1>2, PTL DEF VoteSpec

\* Refinement (ImplementsPlayback): whatever votes do to a room, overlapping,
\* failing or cut off, its timeline takes only steps of the timeline's own
\* specification, so that everything proved of that one holds here.
THEOREM VotesRefinePlayback == VoteSpec => ImplementsPlayback
<1>1. VoteInit => Init
  BY DEF VoteInit
<1>2. VoteSafe /\ [VoteNext]_allVars => [Next]_vars
  BY VoteStepIsPlaybackStep DEF VoteSafe
<1> QED BY <1>1, <1>2, VoteSafeAlways, PTL DEF VoteSpec, Spec, ImplementsPlayback

-------------------------------------------------------------------------------
(* One vote at a time, but for races *)

CreatingSteps == StartVoteSteps \ {"scheduleResolution"}

\* What VoteRaceNext makes of the history.
VotesRemembered ==
  /\ heard' = [p \in Procs |-> IF vpc'[p] \in Asking \cup Counting THEN heard[p] \cup Changed ELSE {}]
  /\ voteRaces \subseteq voteRaces'
  /\ \A p \in Procs : (AskRaces(p) => "ask" \in voteRaces') /\ (VerdictRaces(p) => "verdict" \in voteRaces')

\* A vote about to be created has no row and belongs to one operation.
NewVote(p) ==
  vpc[p] \in CreatingSteps =>
    /\ vote[vreg[p].vote].result = "ABSENT"
    /\ \A q \in Procs \ {p} : vpc[q] \in CreatingSteps => vreg[q].vote # vreg[p].vote

\* Nothing is open while a vote is being created but what was opened since the
\* look, and a vote being counted is open unless it was decided since.
TurnOf(p) ==
  /\ vpc[p] \in Asking => Open \subseteq heard[p]
  /\ vpc[p] \in Counting => vreg[p].vote \in Open \cup heard[p]

\* A vote with a result has one verdict, any other none.
VerdictPerResult ==
  /\ verdicts \in [Votes -> Seq(Results)]
  /\ \A v \in Votes : Len(verdicts[v]) = IF vote[v].result \in Results THEN 1 ELSE 0

TurnInv ==
  /\ heard \in [Procs -> SUBSET Votes]
  /\ \A p \in Procs : NewVote(p) /\ TurnOf(p)
  /\ "ask" \notin voteRaces => \A v, w \in Open : v = w
  /\ "verdict" \notin voteRaces => VerdictPerResult

\* A step that leaves the rows and verdicts alone has to see to its own operation only.
LEMMA TurnKept ==
  ASSUME TurnInv, UNCHANGED <<vote, verdicts>>, VotesRemembered, NEW p \in Procs,
         \A q \in Procs \ {p} : vpc'[q] = vpc[q] /\ vreg'[q] = vreg[q],
         NewVote(p)', TurnOf(p)'
  PROVE  TurnInv'
<1>1. Open' = Open /\ Changed = {}
  BY DEF Open, Changed
<1>2. heard' = [q \in Procs |-> IF vpc'[q] \in Asking \cup Counting THEN heard[q] ELSE {}]
  BY <1>1 DEF VotesRemembered
<1>3. heard' \in [Procs -> SUBSET Votes]
  BY <1>2 DEF TurnInv
<1>4. ASSUME NEW q \in Procs, q # p PROVE NewVote(q)' /\ TurnOf(q)'
  <2>1. NewVote(q) /\ TurnOf(q)
    BY DEF TurnInv
  <2>2. vpc'[q] \in Asking \cup Counting => heard'[q] = heard[q]
    BY <1>2
  <2>3. NewVote(q)'
    BY <1>4, <2>1 DEF NewVote
  <2>4. TurnOf(q)'
    BY <1>1, <1>4, <2>1, <2>2 DEF TurnOf
  <2> QED BY <2>3, <2>4
<1>5. voteRaces \subseteq voteRaces'
  BY DEF VotesRemembered
<1> QED BY <1>1, <1>3, <1>4, <1>5 DEF TurnInv, VerdictPerResult

\* What the steps make of the history of an operation that goes on.
LEMMA NothingForgotten ==
  ASSUME VotesRemembered, NEW q \in Procs, vpc'[q] \in Asking \cup Counting
  PROVE  heard'[q] = heard[q] \cup Changed
  BY DEF VotesRemembered

\* Every step keeps it.
LEMMA TurnStep ==
  ASSUME VoteTypes, RowExists, TurnInv, [VoteNext]_allVars, VotesRemembered
  PROVE  TurnInv'
<1>1. /\ vpc \in [Procs -> VoteSteps] /\ vreg \in [Procs -> VoteRegs]
      /\ vote \in [Votes -> [item : MaybeItem, result : {"ABSENT", "OPEN"} \cup Results]]
      /\ \A p \in Procs : vpc[p] \notin {"idle", "respond"} => vreg[p].vote \in Votes
      /\ \A p \in Procs : NewVote(p) /\ TurnOf(p)
      /\ heard \in [Procs -> SUBSET Votes] /\ voteRaces \subseteq voteRaces'
  BY DEF VoteTypes, TurnInv, VotesRemembered
<1> USE DEF VGoto, StartVoteSteps, CreatingSteps, Asking, Counting
<1>2. CASE UNCHANGED <<vote, verdicts, vpc, vreg>>
  <2>1. Open' = Open /\ \A q \in Procs : vpc[q] \in Asking \cup Counting => heard'[q] = heard[q]
    <3>1. Changed = {}
      BY <1>2 DEF Changed
    <3> QED BY <1>2, <3>1, NothingForgotten DEF Open
  <2>2. heard' \in [Procs -> SUBSET Votes]
    BY <1>1 DEF VotesRemembered, Changed
  <2>3. ASSUME NEW q \in Procs PROVE NewVote(q)' /\ TurnOf(q)'
    BY <1>1, <1>2, <2>1 DEF NewVote, TurnOf
  <2> QED BY <1>1, <1>2, <2>1, <2>2, <2>3 DEF TurnInv, VerdictPerResult
<1>3. ASSUME NEW p \in Procs, NEW v \in Votes, NEW u \in Users, StartVote(p, v, u) PROVE TurnInv'
  <2>1. /\ vreg'[p].vote = v /\ vpc'[p] = "findOpen" /\ UNCHANGED <<vote, verdicts>>
        /\ \A q \in Procs \ {p} : vpc'[q] = vpc[q] /\ vreg'[q] = vreg[q]
    BY <1>1, <1>3 DEF StartVote, VoteRegs, voteStore
  <2>2. NewVote(p)' /\ TurnOf(p)'
    BY <1>3, <2>1 DEF StartVote, FreshVote, NewVote, TurnOf
  <2> QED BY <2>1, <2>2, TurnKept
<1>4. ASSUME NEW p \in Procs, NEW v \in Votes,
             (\E u \in Users : CastVote(p, v, u)) \/ ResolveByTimeout(p, v)
      PROVE  TurnInv'
  <2>1. /\ vpc'[p] \in {"addBallot", "refetch", "respond"} /\ UNCHANGED <<vote, verdicts>>
        /\ \A q \in Procs \ {p} : vpc'[q] = vpc[q] /\ vreg'[q] = vreg[q]
    BY <1>1, <1>4 DEF CastVote, ResolveByTimeout, voteStore
  <2>2. NewVote(p)' /\ TurnOf(p)'
    BY <2>1 DEF NewVote, TurnOf
  <2> QED BY <2>1, <2>2, TurnKept
<1>5. ASSUME NEW p \in Procs, CreateVote(p) PROVE TurnInv'
  <2>1. PICK v \in Votes : v = vreg[p].vote
    BY <1>1, <1>5 DEF CreateVote
  <2>2. vpc[p] = "create" /\ Open \subseteq heard[p] /\ vote[v].result = "ABSENT"
    BY <1>1, <1>5, <2>1 DEF CreateVote, TurnOf, NewVote
  <2>3. /\ vote'[v].result = "OPEN" /\ vpc'[p] = "scheduleResolution"
        /\ \A w \in Votes \ {v} : vote'[w] = vote[w]
        /\ UNCHANGED <<verdicts, vreg>> /\ \A q \in Procs \ {p} : vpc'[q] = vpc[q]
    BY <1>1, <1>5, <2>1 DEF CreateVote
  <2>4. Open' = Open \cup {v} /\ Changed = {v}
    BY <2>2, <2>3 DEF Open, Changed
  <2>5. heard' \in [Procs -> SUBSET Votes]
    BY <1>1, <2>4 DEF VotesRemembered
  <2>6. ASSUME NEW q \in Procs PROVE NewVote(q)' /\ TurnOf(q)'
    <3>1. CASE q = p
      BY <2>3, <3>1 DEF NewVote, TurnOf
    <3>2. CASE q # p
      <4>1. vpc'[q] = vpc[q] /\ vreg'[q] = vreg[q] /\ NewVote(q) /\ TurnOf(q)
        BY <1>1, <2>3, <3>2
      <4>2. vpc[q] \in CreatingSteps => vreg[q].vote # v
        BY <1>1, <2>1, <2>2, <3>2 DEF NewVote
      <4>3. vpc[q] \in Asking \cup Counting => heard'[q] = heard[q] \cup {v}
        BY <2>4, <4>1, NothingForgotten
      <4>4. NewVote(q)'
        <5>1. vpc[q] \in CreatingSteps => vreg[q].vote \in Votes \ {v}
          BY <1>1, <4>2
        <5>2. \A r \in Procs \ {q} : vpc'[r] \in CreatingSteps => vpc[r] \in CreatingSteps
          BY <2>3
        <5> QED BY <2>3, <4>1, <5>1, <5>2 DEF NewVote
      <4>5. TurnOf(q)'
        BY <2>4, <4>1, <4>3 DEF TurnOf
      <4> QED BY <4>4, <4>5
    <3> QED BY <3>1, <3>2
  <2>7. ASSUME "ask" \notin voteRaces' PROVE \A w, x \in Open' : w = x
    <3>1. heard[p] \cap Open = {}
      BY <2>2, <2>3, <2>7 DEF VotesRemembered, AskRaces
    <3> QED BY <2>2, <2>4, <3>1
  <2>8. ASSUME "verdict" \notin voteRaces' PROVE VerdictPerResult'
    BY <1>1, <2>2, <2>3, <2>8 DEF VerdictPerResult, TurnInv, Results
  <2> QED BY <2>5, <2>6, <2>7, <2>8 DEF TurnInv
<1>6. ASSUME NEW p \in Procs, SetResult(p) PROVE TurnInv'
  <2>1. PICK v \in Votes : v = vreg[p].vote
    BY <1>1, <1>6 DEF SetResult
  <2>2. PICK r \in Results : r = IF Passed(p) THEN "PASSED" ELSE "FAILED"
    BY DEF Results
  <2>3. /\ vote' = [vote EXCEPT ![v].result = r] /\ verdicts' = [verdicts EXCEPT ![v] = Append(@, r)]
        /\ vpc[p] = "setResult" /\ vpc'[p] = "cancelResolution" /\ UNCHANGED vreg
        /\ \A q \in Procs \ {p} : vpc'[q] = vpc[q]
    BY <1>1, <1>6, <2>1, <2>2 DEF SetResult
  <2>4. /\ Open' = Open \ {v} /\ vote'[v].result = r /\ \A w \in Votes \ {v} : vote'[w] = vote[w]
        /\ vote[v].result # "ABSENT"
    BY <1>1, <2>1, <2>3 DEF Open, Results, RowExists, RowSteps, ResolveSteps
  <2>5. v \in Open => v \in Changed
    BY <2>4 DEF Open, Changed, Results
  <2>6. heard' \in [Procs -> SUBSET Votes]
    BY <1>1 DEF VotesRemembered, Changed
  <2>7. ASSUME NEW q \in Procs PROVE NewVote(q)' /\ TurnOf(q)'
    <3>1. CASE q = p
      BY <2>3, <3>1 DEF NewVote, TurnOf
    <3>2. CASE q # p
      <4>1. vpc'[q] = vpc[q] /\ vreg'[q] = vreg[q] /\ NewVote(q) /\ TurnOf(q)
        BY <1>1, <2>3, <3>2
      <4>2. NewVote(q)'
        <5>1. vpc[q] \in CreatingSteps => vreg[q].vote \in Votes \ {v}
          BY <1>1, <2>4, <4>1 DEF NewVote
        <5>2. \A s \in Procs \ {q} : vpc'[s] \in CreatingSteps => vpc[s] \in CreatingSteps
          BY <2>3
        <5> QED BY <2>3, <2>4, <4>1, <5>1, <5>2 DEF NewVote
      <4>3. vpc[q] \in Asking \cup Counting => heard'[q] = heard[q] \cup Changed
        BY <4>1, NothingForgotten
      <4>4. TurnOf(q)'
        BY <2>4, <2>5, <4>1, <4>3 DEF TurnOf
      <4> QED BY <4>2, <4>4
    <3> QED BY <3>1, <3>2
  <2>8. "ask" \notin voteRaces' => \A w, x \in Open' : w = x
    BY <1>1, <2>4 DEF TurnInv
  <2>9. ASSUME "verdict" \notin voteRaces' PROVE VerdictPerResult'
    <3>1. v \in Open
      BY <1>1, <2>1, <2>3, <2>9 DEF VotesRemembered, VerdictRaces, TurnOf
    <3>2. verdicts \in [Votes -> Seq(Results)] /\ Len(verdicts[v]) = 0 /\ VerdictPerResult
      BY <1>1, <2>9, <3>1 DEF TurnInv, VerdictPerResult, Open, Results
    <3>3. verdicts' \in [Votes -> Seq(Results)] /\ Len(verdicts'[v]) = 1
      BY <2>3, <3>2
    <3>4. \A w \in Votes \ {v} : verdicts'[w] = verdicts[w]
      BY <2>3, <3>2
    <3> QED BY <2>4, <3>2, <3>3, <3>4 DEF VerdictPerResult
  <2> QED BY <2>6, <2>7, <2>8, <2>9 DEF TurnInv
<1>7. ASSUME NEW p \in Procs, \/ FindOpen(p) \/ IsCoolingDown(p) \/ CountAtStart(p) \/ AddStarter(p)
                              \/ Refetch(p) \/ Recount(p) \/ CountAtResolve(p)
      PROVE  TurnInv'
  <2>1. UNCHANGED <<vote, verdicts>>
    BY <1>7 DEF FindOpen, IsCoolingDown, CountAtStart, AddStarter, Refetch, Recount, CountAtResolve, voteStore
  <2>2. /\ vreg'[p].vote = vreg[p].vote
        /\ \A q \in Procs \ {p} : vpc'[q] = vpc[q] /\ vreg'[q] = vreg[q]
    BY <1>1, <1>7, LocalsAfter DEF ContinueVoting, FindOpen, IsCoolingDown, CountAtStart, AddStarter,
       Refetch, Recount, CountAtResolve
  <2>3. Open' = Open /\ Changed = {} /\ NewVote(p) /\ TurnOf(p)
    BY <1>1, <2>1 DEF Open, Changed
  <2>4. vpc'[p] \in Asking \cup Counting => heard'[p] = heard[p]
    BY <2>3, NothingForgotten
  <2>5. /\ vpc'[p] \in CreatingSteps => vpc[p] \in CreatingSteps
        /\ vpc'[p] \in Asking => vpc[p] \in Asking \/ Open = {}
        /\ vpc'[p] \in Counting => vpc[p] \in Counting \/ vreg[p].vote \in Open
    BY <1>1, <1>7 DEF FindOpen, IsCoolingDown, CountAtStart, AddStarter, Refetch, Recount, CountAtResolve
  <2>6. NewVote(p)'
    BY <2>1, <2>2, <2>3, <2>5 DEF NewVote
  <2>7. TurnOf(p)'
    BY <2>2, <2>3, <2>4, <2>5 DEF TurnOf
  <2> QED BY <2>1, <2>2, <2>6, <2>7, TurnKept
<1>8. ASSUME NEW p \in Procs, \/ ScheduleResolution(p) \/ AddBallot(p) \/ CountYes(p) \/ CountAtCast(p)
                              \/ CancelResolution(p) \/ ClearBallots(p) \/ SetCooldown(p)
                              \/ CallSkip(p) \/ SkipReturns(p) \/ Respond(p)
                              \/ CancelResolutionFails(p) \/ VoteCallFails(p) \/ PlaybackCallFails(p)
      PROVE  TurnInv'
  <2>1. UNCHANGED <<vote, verdicts>>
    BY <1>8 DEF ScheduleResolution, AddBallot, CountYes, CountAtCast, CancelResolution, ClearBallots,
       SetCooldown, CallSkip, SkipReturns, Respond, CancelResolutionFails, VoteCallFails,
       PlaybackCallFails, Abandon, voteStore
  <2>2. /\ vpc'[p] \in {"refetch", "respond", "countYes", "countAtCast", "clearBallots", "skip", "setCooldown",
                        "skipping", "idle"}
        /\ \A q \in Procs \ {p} : vpc'[q] = vpc[q] /\ vreg'[q] = vreg[q]
    BY <1>1, <1>8 DEF ScheduleResolution, AddBallot, CountYes, CountAtCast, CancelResolution, ClearBallots,
       SetCooldown, CallSkip, SkipReturns, Respond, CancelResolutionFails, VoteCallFails,
       PlaybackCallFails, Abandon, ReadYes
  <2>3. NewVote(p)' /\ TurnOf(p)'
    BY <2>2 DEF NewVote, TurnOf
  <2> QED BY <2>1, <2>2, <2>3, TurnKept
<1>9. CASE VoteCrash
  <2>1. UNCHANGED <<vote, verdicts>> /\ \A q \in Procs : vpc'[q] = "idle"
    BY <1>9 DEF VoteCrash
  <2>2. Open' = Open /\ heard' \in [Procs -> SUBSET Votes]
    BY <1>1, <2>1 DEF Open, VotesRemembered, Changed
  <2> QED BY <1>1, <2>1, <2>2 DEF TurnInv, NewVote, TurnOf, VerdictPerResult
<1> QED
  BY <1>2, <1>3, <1>4, <1>5, <1>6, <1>7, <1>8, <1>9
  DEF VoteNext, BeginVoting, ContinueVoting, allVars, voteVars, voteStore, PlayOn, PlaybackCancelFails,
      CloseWindow, BallotsExpire, CooldownExpires

\* Hence, however the operations of a room overlap, whatever call fails and whenever
\* the process dies: two votes are open only once one was opened behind another
\* since its operation looked, and a vote is decided twice only once it was decided
\* behind another operation's refetch.
THEOREM VotesInTurn == VoteRaceSpec => []OnlyRacesDoubleVotes
<1>1. VoteRaceInit => TurnInv
  BY DEF VoteRaceInit, VoteInit, TurnInv, VerdictPerResult, NewVote, TurnOf, Open, StartVoteSteps,
     CreatingSteps, Asking, Counting, Results
<1>2. VoteSafe /\ TurnInv /\ [VoteRaceNext]_historyVars => TurnInv'
  <2> SUFFICES ASSUME VoteSafe, TurnInv, [VoteRaceNext]_historyVars PROVE TurnInv'
    OBVIOUS
  <2>1. CASE UNCHANGED historyVars
    <3>1. UNCHANGED <<vote, verdicts, vpc, vreg, heard, voteRaces>> /\ Open' = Open
      BY <2>1 DEF historyVars, allVars, voteVars, voteStore, Open
    <3>2. \A q \in Procs : NewVote(q)' /\ TurnOf(q)'
      BY <3>1 DEF TurnInv, NewVote, TurnOf
    <3> QED BY <3>1, <3>2 DEF TurnInv, VerdictPerResult
  <2>2. CASE VoteRaceNext
    <3>1. VotesRemembered
      BY <2>2 DEF VoteRaceNext, VotesRemembered
    <3> QED BY <2>2, <3>1, TurnStep DEF VoteSafe, VoteRaceNext
  <2> QED BY <2>1, <2>2
<1>3. TurnInv => OnlyRacesDoubleVotes
  <2> SUFFICES ASSUME TurnInv, "verdict" \notin voteRaces, NEW v \in Votes PROVE Len(verdicts[v]) <= 1
    BY DEF TurnInv, OnlyRacesDoubleVotes
  <2>1. Len(verdicts[v]) \in {0, 1}
    BY DEF TurnInv, VerdictPerResult
  <2>2. \A n \in {0, 1} : n <= 1
    OBVIOUS
  <2> QED BY <2>1, <2>2, Zenon
<1>4. VoteRaceSpec => VoteSpec
  <2>1. VoteRaceInit => VoteInit
    BY DEF VoteRaceInit
  <2>2. [VoteRaceNext]_historyVars => [VoteNext]_allVars
    BY DEF VoteRaceNext, historyVars
  <2> QED BY <2>1, <2>2, PTL DEF VoteRaceSpec, VoteSpec
<1> QED BY <1>1, <1>2, <1>3, <1>4, VoteSafeAlways, PTL DEF VoteRaceSpec

-------------------------------------------------------------------------------
(* No orphans *)

DecidedSteps  == {"cancelResolution", "clearBallots", "skip", "skipping", "setCooldown"}

\* A vote about to be created has no row and belongs to one operation; its job
\* exists only once the row does.
NewVotesAreNew ==
  /\ \A p \in Procs : vpc[p] \in CreatingSteps =>
       /\ vote[vreg[p].vote].result = "ABSENT"
       /\ \A q \in Procs \ {p} : vreg[q].vote # vreg[p].vote
  /\ \A v \in Votes : resolution[v] # "none" => vote[v].result # "ABSENT"

\* A worker slot runs the job of the vote it resolves, and by the time it is done
\* with the job the vote is decided.
JobOf(p) ==
  /\ vreg[p].job \in {NoVote, vreg[p].vote}
  /\ vpc[p] \in {"idle"} \cup StartVoteSteps \cup CastSteps => vreg[p].job = NoVote
  /\ vpc[p] \in DecidedSteps => vreg[p].vote \notin Open
  /\ vpc[p] = "respond" /\ vreg[p].job # NoVote => vreg[p].vote \notin Open

\* Every open vote has its job or the operation about to schedule it.
OpenVotesHeld ==
  \A v \in Open :
    \/ resolution[v] # "none"
    \/ \E p \in Procs : vpc[p] = "scheduleResolution" /\ vreg[p].vote = v

ResolverParts == NewVotesAreNew /\ OpenVotesHeld /\ \A p \in Procs : JobOf(p)

ResolverInv == voteFaults \in Nat /\ (NoCallFailed => ResolverParts)

\* A failed call is never forgotten.
LEMMA FailuresStay ==
  ASSUME TypeOK, voteFaults \in Nat, [VoteNext]_allVars
  PROVE  voteFaults' \in Nat /\ (NoCallFailed' => NoCallFailed /\ UNCHANGED <<faults, voteFaults>>)
<1>1. faults \in Nat
  BY BoundAssumption DEF TypeOK
<1> USE DEF NoCallFailed
<1>2. CASE UNCHANGED <<faults, voteFaults>>
  BY <1>2
<1>3. CASE \/ faults' = faults + 1 /\ UNCHANGED voteFaults
           \/ voteFaults' = voteFaults + 1 /\ UNCHANGED faults
  BY <1>1, <1>3
<1>4. ASSUME NEW p \in Procs, PlayOn(p) PROVE UNCHANGED <<faults, voteFaults>>
  BY <1>4
  DEF PlayOn, voteVars, Continue, AddVideo, RemoveItem, Advance, ReadMaxPosition, ListForAdd, Insert,
      StartIfIdle, ListForRemove, MarkRemoved, FindPlaying, Finish, ClearTuple, CancelAdvance,
      FindNextPending, ListAfterNext, StartItem, SetTuple, ScheduleAdvance, Return, budget
<1>5. ASSUME NEW p \in Procs, BeginVoting(p) \/ ContinueVoting(p) PROVE UNCHANGED <<faults, voteFaults>>
  BY <1>5
  DEF BeginVoting, StartVote, CastVote, ResolveByTimeout, ContinueVoting, FindOpen, IsCoolingDown,
      CountAtStart, AddStarter, CreateVote, ScheduleResolution, AddBallot, CountYes, CountAtCast, Refetch,
      Recount, CountAtResolve, SetResult, CancelResolution, ClearBallots, SetCooldown, CallSkip,
      SkipReturns, Respond, vars, budget
<1>6. ASSUME NEW p \in Procs, VoteCallFails(p) \/ CancelResolutionFails(p) \/ PlaybackCallFails(p)
                              \/ PlaybackCancelFails(p)
      PROVE  \/ faults' = faults + 1 /\ UNCHANGED voteFaults
             \/ voteFaults' = voteFaults + 1 /\ UNCHANGED faults
  BY <1>6
  DEF VoteCallFails, CancelResolutionFails, PlaybackCallFails, PlaybackCancelFails, CallFails,
      CancelFails, vars, voteVars, budget
<1>7. CASE VoteCrash
  BY <1>3, <1>7 DEF VoteCrash, Crash
<1> QED
  BY <1>2, <1>3, <1>4, <1>5, <1>6, <1>7
  DEF VoteNext, allVars, vars, voteVars, budget, CloseWindow, BallotsExpire, CooldownExpires

\* A step of one operation that leaves the rows alone: what it has to see to.
LEMMA ResolverKept ==
  ASSUME VoteTypes, ResolverParts, UNCHANGED vote, NEW p \in Procs,
         \A q \in Procs \ {p} : vpc'[q] = vpc[q] /\ vreg'[q] = vreg[q],
         JobOf(p)',
         vpc'[p] \in CreatingSteps =>
           /\ vote[vreg'[p].vote].result = "ABSENT"
           /\ \A q \in Procs \ {p} : vreg[q].vote # vreg'[p].vote,
         \A q \in Procs \ {p} : vpc[q] \in CreatingSteps => vreg'[p].vote # vreg[q].vote,
         \A v \in Votes : resolution'[v] # "none" => vote[v].result # "ABSENT",
         \A v \in Open : resolution[v] # "none" => resolution'[v] # "none",
         vpc[p] = "scheduleResolution" => resolution'[vreg[p].vote] # "none"
  PROVE  ResolverParts'
<1>1. Open' = Open
  BY DEF Open
<1>2. NewVotesAreNew'
  BY DEF ResolverParts, NewVotesAreNew
<1>3. OpenVotesHeld'
  BY <1>1 DEF ResolverParts, OpenVotesHeld
<1>4. ASSUME NEW q \in Procs PROVE JobOf(q)'
  BY <1>1 DEF ResolverParts, JobOf
<1> QED BY <1>2, <1>3, <1>4 DEF ResolverParts

\* Every step keeps it, as long as no call has failed.
LEMMA ResolverStep ==
  ASSUME VoteTypes, RowExists, ResolverParts, UNCHANGED <<faults, voteFaults>>, faults \in Nat,
         voteFaults \in Nat, [VoteNext]_allVars
  PROVE  ResolverParts'
<1>1. /\ vpc \in [Procs -> VoteSteps] /\ vreg \in [Procs -> VoteRegs]
      /\ vote \in [Votes -> [item : MaybeItem, result : {"ABSENT", "OPEN"} \cup Results]]
      /\ resolution \in [Votes -> JobStates]
      /\ \A p \in Procs : vpc[p] \notin {"idle", "respond"} => vreg[p].vote \in Votes
  BY DEF VoteTypes
<1> USE DEF VGoto, StartVoteSteps, CreatingSteps, CastSteps, DecidedSteps
<1>2. CASE UNCHANGED <<vote, vpc, vreg, resolution>>
  BY <1>2 DEF ResolverParts, NewVotesAreNew, OpenVotesHeld, JobOf, Open
<1>3. ASSUME NEW p \in Procs, NEW v \in Votes, NEW u \in Users, StartVote(p, v, u)
      PROVE  ResolverParts'
  <2>1. vreg'[p].vote = v /\ vreg'[p].job = vreg[p].job /\ vpc[p] = "idle" /\ vpc'[p] = "findOpen"
    BY <1>1, <1>3 DEF StartVote, VoteRegs
  <2>2. \A q \in Procs \ {p} : vpc'[q] = vpc[q] /\ vreg'[q] = vreg[q]
    BY <1>1, <1>3 DEF StartVote
  <2>3. UNCHANGED <<vote, resolution>> /\ FreshVote(v)
    BY <1>3 DEF StartVote, voteStore
  <2>4. JobOf(p)'
    BY <2>1 DEF ResolverParts, JobOf
  <2> QED BY <2>1, <2>2, <2>3, <2>4, ResolverKept DEF FreshVote, ResolverParts, NewVotesAreNew
<1>4. ASSUME NEW p \in Procs, NEW v \in Votes, NEW u \in Users, CastVote(p, v, u)
      PROVE  ResolverParts'
  <2>1. vreg'[p].vote = v /\ vreg'[p].job = vreg[p].job /\ vpc[p] = "idle" /\ vpc'[p] = "addBallot"
    BY <1>1, <1>4 DEF CastVote, VoteRegs
  <2>2. \A q \in Procs \ {p} : vpc'[q] = vpc[q] /\ vreg'[q] = vreg[q]
    BY <1>1, <1>4 DEF CastVote
  <2>3. UNCHANGED <<vote, resolution>> /\ vote[v].result = "OPEN"
    BY <1>4 DEF CastVote, Open, voteStore
  <2>4. JobOf(p)'
    BY <2>1 DEF ResolverParts, JobOf
  <2> QED BY <2>1, <2>2, <2>3, <2>4, ResolverKept DEF ResolverParts, NewVotesAreNew
<1>5. ASSUME NEW p \in Procs, NEW v \in Votes, ResolveByTimeout(p, v) PROVE ResolverParts'
  <2>1. /\ vreg'[p].vote = v /\ vreg'[p].job = v /\ vpc[p] = "idle"
        /\ vpc'[p] = IF v \in Open THEN "refetch" ELSE "respond"
    BY <1>1, <1>5 DEF ResolveByTimeout, VoteRegs
  <2>2. \A q \in Procs \ {p} : vpc'[q] = vpc[q] /\ vreg'[q] = vreg[q]
    BY <1>1, <1>5 DEF ResolveByTimeout
  <2>3. /\ UNCHANGED vote /\ resolution[v] = "delayed" /\ vote[v].result # "ABSENT"
        /\ resolution' = [resolution EXCEPT ![v] = "active"]
    BY <1>5 DEF ResolveByTimeout, ResolverParts, NewVotesAreNew
  <2>4. JobOf(p)'
    BY <2>1, <2>3 DEF JobOf, Open
  <2>5. \A w \in Votes : resolution'[w] # "none" <=> resolution[w] # "none"
    BY <1>1, <2>3
  <2> QED BY <2>1, <2>2, <2>3, <2>4, <2>5, ResolverKept DEF ResolverParts, NewVotesAreNew, Open
<1>6. ASSUME NEW p \in Procs, CreateVote(p) PROVE ResolverParts'
  <2>1. PICK v \in Votes : v = vreg[p].vote
    BY <1>1, <1>6 DEF CreateVote
  <2>2. /\ vote[v].result = "ABSENT" /\ \A q \in Procs \ {p} : vreg[q].vote # v
        /\ vreg[p].job = NoVote
    BY <1>6, <2>1 DEF CreateVote, ResolverParts, NewVotesAreNew, JobOf
  <2>3. /\ vote'[v].result = "OPEN" /\ \A w \in Votes \ {v} : vote'[w] = vote[w]
        /\ vpc'[p] = "scheduleResolution" /\ UNCHANGED <<vreg, resolution>>
        /\ \A q \in Procs \ {p} : vpc'[q] = vpc[q]
    BY <1>1, <1>6, <2>1 DEF CreateVote
  <2>4. Open' = Open \cup {v}
    BY <2>3 DEF Open
  <2>5. NewVotesAreNew'
    BY <1>1, <2>1, <2>2, <2>3 DEF ResolverParts, NewVotesAreNew
  <2>6. OpenVotesHeld'
    BY <2>1, <2>3, <2>4, <1>6 DEF ResolverParts, OpenVotesHeld, CreateVote
  <2>7. ASSUME NEW q \in Procs PROVE JobOf(q)'
    BY <2>2, <2>3, <2>4, <2>7 DEF ResolverParts, JobOf
  <2> QED BY <2>5, <2>6, <2>7 DEF ResolverParts
<1>7. ASSUME NEW p \in Procs, SetResult(p) PROVE ResolverParts'
  <2>1. PICK v \in Votes : v = vreg[p].vote
    BY <1>1, <1>7 DEF SetResult
  <2>2. PICK r \in Results : r = IF Passed(p) THEN "PASSED" ELSE "FAILED"
    BY DEF Results
  <2>3. /\ vote' = [vote EXCEPT ![v].result = r] /\ vpc[p] = "setResult" /\ vpc'[p] = "cancelResolution"
        /\ UNCHANGED <<vreg, resolution>> /\ \A q \in Procs \ {p} : vpc'[q] = vpc[q]
    BY <1>1, <1>7, <2>1, <2>2 DEF SetResult
  <2>4. /\ vote'[v].result = r /\ \A w \in Votes \ {v} : vote'[w] = vote[w]
        /\ vote[v].result # "ABSENT" /\ Open' = Open \ {v}
    BY <1>1, <2>1, <2>3 DEF Open, Results, RowExists, RowSteps, ResolveSteps
  <2>5. NewVotesAreNew'
    BY <2>1, <2>3, <2>4 DEF ResolverParts, NewVotesAreNew, Results
  <2>6. OpenVotesHeld'
    BY <2>3, <2>4 DEF ResolverParts, OpenVotesHeld
  <2>7. ASSUME NEW q \in Procs PROVE JobOf(q)'
    BY <2>1, <2>3, <2>4 DEF ResolverParts, JobOf
  <2> QED BY <2>5, <2>6, <2>7 DEF ResolverParts
<1>8. ASSUME NEW p \in Procs, Respond(p) PROVE ResolverParts'
  <2>1. /\ vpc[p] = "respond" /\ vpc'[p] = "idle" /\ vreg'[p] = NoVoteRegs
        /\ \A q \in Procs \ {p} : vpc'[q] = vpc[q] /\ vreg'[q] = vreg[q]
    BY <1>1, <1>8 DEF Respond
  <2>2. UNCHANGED vote /\ \A v \in Votes : resolution'[v] = IF v = vreg[p].job THEN "none" ELSE resolution[v]
    BY <1>8 DEF Respond
  <2>3. vreg[p].job # NoVote => vreg[p].job \notin Open
    BY <2>1 DEF ResolverParts, JobOf
  <2>4. JobOf(p)'
    BY <2>1 DEF JobOf, NoVoteRegs
  <2>5. /\ \A v \in Votes : resolution'[v] # "none" => vote[v].result # "ABSENT"
        /\ \A v \in Open : resolution[v] # "none" => resolution'[v] # "none"
    BY <2>2, <2>3, VoteAssumption DEF ResolverParts, NewVotesAreNew, Open
  <2>6. \A q \in Procs \ {p} : vpc[q] \in CreatingSteps => vreg'[p].vote # vreg[q].vote
    BY <1>1, <2>1, VoteAssumption DEF NoVoteRegs
  <2> QED BY <2>1, <2>2, <2>4, <2>5, <2>6, ResolverKept
<1>9. ASSUME NEW p \in Procs, ScheduleResolution(p) \/ CancelResolution(p) PROVE ResolverParts'
  <2>1. /\ vpc[p] \notin {"idle", "respond"} /\ UNCHANGED <<vote, vreg>>
        /\ \A q \in Procs \ {p} : vpc'[q] = vpc[q]
        /\ vpc'[p] \in {"refetch", "respond", "clearBallots"}
    BY <1>1, <1>9 DEF ScheduleResolution, CancelResolution
  <2>2. PICK v \in Votes : v = vreg[p].vote
    BY <1>1, <2>1
  <2>3. vote[v].result # "ABSENT"
    BY <1>9, <2>2 DEF ScheduleResolution, CancelResolution, RowExists, RowSteps, ResolveSteps
  <2>4. /\ \A w \in Votes \ {v} : resolution'[w] = resolution[w]
        /\ vpc[p] = "scheduleResolution" => resolution'[v] = "delayed"
    <3>1. CASE ScheduleResolution(p)
      BY <1>1, <2>2, <3>1 DEF ScheduleResolution
    <3>2. CASE CancelResolution(p)
      BY <1>1, <2>2, <3>2 DEF CancelResolution
    <3> QED BY <1>9, <3>1, <3>2
  <2>5. vpc[p] # "scheduleResolution" => v \notin Open
    BY <1>9, <2>2 DEF ScheduleResolution, CancelResolution, ResolverParts, JobOf
  <2>6. JobOf(p)'
    <3>1. CASE ScheduleResolution(p)
      BY <2>1, <3>1 DEF ScheduleResolution, ResolverParts, JobOf
    <3>2. CASE CancelResolution(p)
      <4>1. vpc[p] = "cancelResolution" /\ vpc'[p] = "clearBallots"
        BY <1>1, <3>2 DEF CancelResolution
      <4> QED BY <2>1, <2>2, <2>5, <4>1 DEF ResolverParts, JobOf, Open
    <3> QED BY <1>9, <3>1, <3>2
  <2>7. /\ \A w \in Votes : resolution'[w] # "none" => vote[w].result # "ABSENT"
        /\ \A w \in Open : resolution[w] # "none" => resolution'[w] # "none"
    BY <2>2, <2>3, <2>4, <2>5 DEF ResolverParts, NewVotesAreNew, Open
  <2> QED BY <2>1, <2>2, <2>4, <2>6, <2>7, ResolverKept DEF ResolverParts, NewVotesAreNew
<1>10. ASSUME NEW p \in Procs, \/ FindOpen(p) \/ IsCoolingDown(p) \/ CountAtStart(p) \/ AddStarter(p)
                               \/ AddBallot(p) \/ CountYes(p) \/ CountAtCast(p)
                               \/ Refetch(p) \/ Recount(p) \/ CountAtResolve(p)
                               \/ ClearBallots(p) \/ SetCooldown(p) \/ CallSkip(p) \/ SkipReturns(p)
       PROVE  ResolverParts'
  <2>1. UNCHANGED <<vote, resolution>> /\ vpc[p] \notin {"idle", "respond", "scheduleResolution"}
    BY <1>10 DEF FindOpen, IsCoolingDown, CountAtStart, AddStarter, AddBallot, CountYes, CountAtCast,
       Refetch, Recount, CountAtResolve, ClearBallots, SetCooldown, CallSkip, SkipReturns, voteStore
  <2>2. /\ \A q \in Procs \ {p} : vpc'[q] = vpc[q] /\ vreg'[q] = vreg[q]
        /\ vreg'[p].vote = vreg[p].vote /\ vreg'[p].job = vreg[p].job
    BY <1>10, <2>1, LocalsAfter DEF ContinueVoting
  <2>3. /\ vpc'[p] \in CreatingSteps => vpc[p] \in CreatingSteps
        /\ vpc'[p] \in CastSteps => vpc[p] \in CastSteps
        /\ vpc'[p] \in DecidedSteps => vpc[p] \in DecidedSteps
        /\ vpc'[p] \notin {"idle", "scheduleResolution"}
        /\ vpc'[p] = "respond" => vpc[p] \in StartVoteSteps \cup CastSteps \cup DecidedSteps
                                  \/ vreg[p].vote \notin Open
    BY <1>1, <1>10 DEF FindOpen, IsCoolingDown, CountAtStart, AddStarter, AddBallot, CountYes, CountAtCast,
       Refetch, Recount, CountAtResolve, ClearBallots, SetCooldown, CallSkip, SkipReturns
  <2>4. JobOf(p)'
    BY <2>1, <2>2, <2>3 DEF ResolverParts, JobOf, Open
  <2> QED BY <2>1, <2>2, <2>3, <2>4, ResolverKept DEF ResolverParts, NewVotesAreNew
<1>11. ASSUME NEW p \in Procs, VoteCallFails(p) \/ CancelResolutionFails(p) \/ PlaybackCallFails(p)
                               \/ PlaybackCancelFails(p)
       PROVE  FALSE
  BY <1>11 DEF VoteCallFails, CancelResolutionFails, PlaybackCallFails, PlaybackCancelFails,
     CallFails, CancelFails
<1>12. CASE VoteCrash
  BY <1>12 DEF VoteCrash, Crash
<1> QED
  BY <1>2, <1>3, <1>4, <1>5, <1>6, <1>7, <1>8, <1>9, <1>10, <1>11, <1>12
  DEF VoteNext, BeginVoting, ContinueVoting, allVars, voteVars, voteStore, PlayOn,
      CloseWindow, BallotsExpire, CooldownExpires

\* Hence, however operations overlap: as long as no call has failed, an open vote
\* has the job that ends it, and no orphan blocks the votes after it.
THEOREM NoOrphans == VoteSpec => []OpenVoteHasResolver
<1>1. VoteInit => ResolverInv
  BY DEF VoteInit, ResolverInv, ResolverParts, NewVotesAreNew, OpenVotesHeld, JobOf, Open, CreatingSteps,
     StartVoteSteps, CastSteps, DecidedSteps, NoVoteRegs
<1>2. VoteSafe /\ ResolverInv /\ [VoteNext]_allVars => ResolverInv'
  <2> SUFFICES ASSUME VoteSafe, ResolverInv, [VoteNext]_allVars PROVE ResolverInv'
    OBVIOUS
  <2>1. voteFaults' \in Nat /\ (NoCallFailed' => NoCallFailed /\ UNCHANGED <<faults, voteFaults>>)
    BY FailuresStay DEF VoteSafe, ResolverInv
  <2>2. faults \in Nat
    BY BoundAssumption DEF VoteSafe, TypeOK
  <2> QED BY <2>1, <2>2, ResolverStep DEF VoteSafe, ResolverInv
<1>3. ResolverInv => OpenVoteHasResolver
  BY DEF ResolverInv, ResolverParts, OpenVotesHeld, OpenVoteHasResolver
<1> QED BY <1>1, <1>2, <1>3, VoteSafeAlways, PTL DEF VoteSpec
===============================================================================
