---------------------------- MODULE PlaybackProofs ----------------------------
(***************************************************************************)
(* Theorems about the room timeline for any number of items, of operations *)
(* in flight, of votes and of faults.  The second part settles which races *)
(* each promise can be lost to, the serialisation that playback-manager.ts,*)
(* bullmq-advance.scheduler.ts and ADR-004 assume being nobody's work.     *)
(***************************************************************************)
EXTENDS PlaybackProperties, SequenceTheorems, TLAPS

USE NoItemAssumption, BoundAssumption

-------------------------------------------------------------------------------
(* Types *)

\* Labels at which an operation acts on the item in its registers.
HoldingSteps ==
  AddSteps \cup RemoveSteps \cup
  {"finish", "clear", "cancel", "listNext", "start", "set", "schedule"}

ItemInHand == \A p \in Procs : pc[p] \in HoldingSteps => reg[p].item \in Items

\* A new room is well typed and nothing is in hand.
LEMMA TypeInit == Init => TypeOK /\ ItemInHand
  BY DEF Init, TypeOK, Statuses, JobStates, MaybeItem, Labels, Registers, Blank,
         ItemInHand, HoldingSteps, AddSteps, RemoveSteps

\* An outbox row appended by a transaction keeps the outbox a log of known events.
LEMMA AnnounceKeepsType ==
  ASSUME outbox \in [Items -> Seq(EventTypes)], NEW i, NEW t \in EventTypes, Announce(i, t)
  PROVE  outbox' \in [Items -> Seq(EventTypes)]
<1>1. outbox' = [j \in Items |-> IF j = i THEN Append(outbox[j], t) ELSE outbox[j]]
  BY DEF Announce
<1>2. \A j \in Items : Append(outbox[j], t) \in Seq(EventTypes)
  OBVIOUS
<1> QED BY <1>1, <1>2

\* The reason finishCurrent announces is an event type.
LEMMA ReasonTyped == \A p \in Procs : Reason(p) \in EventTypes
  BY DEF Reason, EventTypes, SkipReasons

\* Every step keeps the types: the row values written, the event types announced,
\* the job states BullMQ moves through and the registers of each operation.
LEMMA TypeStep == TypeOK /\ ItemInHand /\ [Next]_vars => TypeOK'
<1> SUFFICES ASSUME TypeOK, ItemInHand, [Next]_vars PROVE TypeOK'
  OBVIOUS
<1> USE DEF TypeOK, Goto, Load, Forget, Labels, AddSteps, RemoveSteps, FinishSteps,
            StartSteps, Registers, MaybeItem, database, queue, budget
<1>1. CASE UNCHANGED vars
  BY <1>1 DEF vars
<1>2. CASE Crash
  BY <1>2 DEF Crash, Blank, JobStates
<1>3. ASSUME NEW p \in Procs, Begin(p) PROVE TypeOK'
  <2>1. ASSUME NEW i \in Items, AddVideo(p, i) PROVE TypeOK'
    BY <2>1 DEF AddVideo
  <2>2. ASSUME NEW i \in Items, RemoveItem(p, i) PROVE TypeOK'
    BY <2>2 DEF RemoveItem
  <2>3. ASSUME NEW i \in Items, Advance(p, i) PROVE TypeOK'
    BY <2>3, ZenonT(40) DEF Advance, JobStates
  <2>4. CASE Skip(p)
    BY <2>4 DEF Skip
  <2> QED BY <1>3, <2>1, <2>2, <2>3, <2>4 DEF Begin
<1>4. ASSUME NEW p \in Procs, Continue(p) PROVE TypeOK'
  <2>1. CASE ReadMaxPosition(p)
    BY <2>1, SMTT(30) DEF ReadMaxPosition
  <2>2. CASE ListForAdd(p)
    BY <2>2 DEF ListForAdd, Pending
  <2>3. CASE Insert(p)
    <3>1. outbox' \in [Items -> Seq(EventTypes)]
      BY <2>3, AnnounceKeepsType DEF Insert, EventTypes
    <3>2. reg[p].item \in Items /\ reg[p].before + 1 \in Nat /\ reg[p].rest \in SUBSET Items
      BY <2>3 DEF Insert, ItemInHand, HoldingSteps
    <3>3. position' \in [Items -> Nat] /\ lastQueue' \in SUBSET Items
      BY <2>3, <3>2 DEF Insert
    <3> QED BY <2>3, <3>1, <3>2, <3>3 DEF Insert, Statuses
  <2>4. CASE StartIfIdle(p)
    BY <2>4 DEF StartIfIdle
  <2>5. CASE ListForRemove(p)
    BY <2>5 DEF ListForRemove, Pending
  <2>6. CASE MarkRemoved(p)
    <3>1. outbox' \in [Items -> Seq(EventTypes)]
      BY <2>6, AnnounceKeepsType DEF MarkRemoved, EventTypes, SkipReasons
    <3> QED BY <2>6, <3>1 DEF MarkRemoved, Statuses
  <2>7. CASE FindPlaying(p)
    <3>1. reg' \in [Procs -> Registers]
      <4>1. CASE UNCHANGED reg
        BY <4>1
      <4>2. ASSUME NEW i \in Items, Load(p, i, 0, {}) PROVE reg' \in [Procs -> Registers]
        BY <4>2 DEF Load
      <4> QED BY <2>7, <4>1, <4>2 DEF FindPlaying, Playing
    <3>2. pc' \in [Procs -> Labels]
      BY <2>7 DEF FindPlaying
    <3> QED BY <2>7, <3>1, <3>2 DEF FindPlaying
  <2>8. CASE Finish(p)
    <3>1. outbox' \in [Items -> Seq(EventTypes)]
      BY <2>8, AnnounceKeepsType, ReasonTyped DEF Finish
    <3> QED BY <2>8, <3>1 DEF Finish, Statuses
  <2>9. CASE ClearTuple(p)
    BY <2>9 DEF ClearTuple
  <2>10. CASE CancelAdvance(p)
    BY <2>10 DEF CancelAdvance, JobStates
  <2>11. CASE FindNextPending(p)
    <3>1. reg' \in [Procs -> Registers]
      <4>1. CASE UNCHANGED reg
        BY <4>1
      <4>2. ASSUME NEW i \in Items, Load(p, i, 0, {}) PROVE reg' \in [Procs -> Registers]
        BY <4>2 DEF Load
      <4> QED BY <2>11, <4>1, <4>2 DEF FindNextPending, Pending
    <3>2. pc' \in [Procs -> Labels]
      BY <2>11 DEF FindNextPending
    <3> QED BY <2>11, <3>1, <3>2 DEF FindNextPending
  <2>12. CASE ListAfterNext(p)
    BY <2>12 DEF ListAfterNext, Pending
  <2>13. CASE StartItem(p)
    <3>1. outbox' \in [Items -> Seq(EventTypes)]
      BY <2>13, AnnounceKeepsType DEF StartItem, EventTypes
    <3> QED BY <2>13, <3>1 DEF StartItem, Statuses
  <2>14. CASE SetTuple(p)
    BY <2>14 DEF SetTuple
  <2>15. CASE ScheduleAdvance(p)
    BY <2>15 DEF ScheduleAdvance, JobStates
  <2>16. CASE Return(p)
    BY <2>16 DEF Return, Blank, JobStates
  <2> QED BY <1>4, <2>1, <2>2, <2>3, <2>4, <2>5, <2>6, <2>7, <2>8, <2>9, <2>10,
             <2>11, <2>12, <2>13, <2>14, <2>15, <2>16 DEF Continue
<1>5. ASSUME NEW p \in Procs, CallFails(p) PROVE TypeOK'
  BY <1>5 DEF CallFails, Blank, JobStates
<1>6. ASSUME NEW p \in Procs, CancelFails(p) PROVE TypeOK'
  BY <1>6 DEF CancelFails
<1> QED BY <1>1, <1>2, <1>3, <1>4, <1>5, <1>6 DEF Next

\* Every step that enters a label at which an operation acts on an item leaves an
\* item in its registers.
LEMMA ItemInHandStep == TypeOK /\ ItemInHand /\ [Next]_vars => ItemInHand'
<1> SUFFICES ASSUME TypeOK, ItemInHand, [Next]_vars PROVE ItemInHand'
  OBVIOUS
<1> USE DEF TypeOK, ItemInHand, HoldingSteps, Goto, Load, Forget, AddSteps, RemoveSteps, Registers
<1>1. CASE UNCHANGED vars
  BY <1>1 DEF vars
<1>2. CASE Crash
  BY <1>2 DEF Crash
<1>3. ASSUME NEW p \in Procs, Begin(p) PROVE ItemInHand'
  <2>1. ASSUME NEW i \in Items, AddVideo(p, i) PROVE ItemInHand'
    BY <2>1 DEF AddVideo
  <2>2. ASSUME NEW i \in Items, RemoveItem(p, i) PROVE ItemInHand'
    BY <2>2 DEF RemoveItem
  <2>3. ASSUME NEW i \in Items, Advance(p, i) PROVE ItemInHand'
    BY <2>3 DEF Advance
  <2>4. CASE Skip(p)
    BY <2>4 DEF Skip
  <2> QED BY <1>3, <2>1, <2>2, <2>3, <2>4 DEF Begin
<1>4. ASSUME NEW p \in Procs, Continue(p) PROVE ItemInHand'
  <2>1. CASE ReadMaxPosition(p)
    BY <2>1 DEF ReadMaxPosition
  <2>2. CASE ListForAdd(p)
    BY <2>2 DEF ListForAdd
  <2>3. CASE Insert(p)
    BY <2>3 DEF Insert
  <2>4. CASE StartIfIdle(p)
    BY <2>4 DEF StartIfIdle
  <2>5. CASE ListForRemove(p)
    BY <2>5 DEF ListForRemove
  <2>6. CASE MarkRemoved(p)
    BY <2>6 DEF MarkRemoved
  <2>7. CASE FindPlaying(p)
    <3>1. CASE Goto(p, "findPlaying", "findNext") /\ UNCHANGED reg
      BY <3>1
    <3>2. ASSUME NEW i \in Items, Goto(p, "findPlaying", "finish"), Load(p, i, 0, {})
          PROVE  ItemInHand'
      BY <3>2
    <3> QED BY <2>7, <3>1, <3>2 DEF FindPlaying, Playing
  <2>8. CASE Finish(p)
    BY <2>8 DEF Finish
  <2>9. CASE ClearTuple(p)
    BY <2>9 DEF ClearTuple
  <2>10. CASE CancelAdvance(p)
    BY <2>10 DEF CancelAdvance
  <2>11. CASE FindNextPending(p)
    BY <2>11 DEF FindNextPending, Pending
  <2>12. CASE ListAfterNext(p)
    BY <2>12 DEF ListAfterNext
  <2>13. CASE StartItem(p)
    BY <2>13 DEF StartItem
  <2>14. CASE SetTuple(p)
    BY <2>14 DEF SetTuple
  <2>15. CASE ScheduleAdvance(p)
    BY <2>15 DEF ScheduleAdvance
  <2>16. CASE Return(p)
    BY <2>16 DEF Return
  <2> QED BY <1>4, <2>1, <2>2, <2>3, <2>4, <2>5, <2>6, <2>7, <2>8, <2>9,
             <2>10, <2>11, <2>12, <2>13, <2>14, <2>15, <2>16 DEF Continue
<1>5. ASSUME NEW p \in Procs, CallFails(p) \/ CancelFails(p) PROVE ItemInHand'
  BY <1>5, ZenonT(40) DEF CallFails, CancelFails
<1> QED BY <1>1, <1>2, <1>3, <1>4, <1>5 DEF Next

\* Type correctness: every variable has its type in every reachable state, and
\* an operation that acts on an item has one (or queue.updated would list NoItem).
THEOREM TypeCorrect == Spec => [](TypeOK /\ ItemInHand)
  BY TypeInit, TypeStep, ItemInHandStep, PTL DEF Spec

-------------------------------------------------------------------------------
(* Redis and BullMQ never run ahead of the outbox *)

\* Between its transaction and the end of the operation, startNext acts on an
\* item whose video.started is committed.
StartedInHand ==
  \A p \in Procs : pc[p] \in {"set", "schedule"} => HasEvent("started", reg[p].item)

Ahead == NothingAheadOfItsEvent /\ StartedInHand

\* The outbox only grows: what was announced stays announced.
LEMMA EventsStay ==
  ASSUME TypeOK, NEW i \in Items, NEW t \in EventTypes, Announce(i, t)
  PROVE  /\ \A j \in Items : \A u : HasEvent(u, j) => HasEvent(u, j)'
         /\ HasEvent(t, i)'
<1>1. outbox' = [outbox EXCEPT ![i] = Append(@, t)] /\ outbox \in [Items -> Seq(EventTypes)]
  BY DEF Announce, TypeOK
<1>2. /\ Len(outbox'[i]) = Len(outbox[i]) + 1
      /\ outbox'[i][Len(outbox[i]) + 1] = t
      /\ \A k \in 1 .. Len(outbox[i]) : outbox'[i][k] = outbox[i][k]
  BY <1>1
<1>3. HasEvent(t, i)'
  BY <1>1, <1>2 DEF HasEvent
<1>4. ASSUME NEW u, NEW j \in Items, HasEvent(u, j) PROVE HasEvent(u, j)'
  <2>1. CASE j = i
    BY <1>1, <1>2, <1>4, <2>1 DEF HasEvent
  <2>2. CASE j # i
    BY <1>1, <1>4, <2>2 DEF HasEvent
  <2> QED BY <2>1, <2>2
<1> QED BY <1>3, <1>4

\* An announcement takes nothing back, so a step that touches neither Redis nor
\* BullMQ keeps them behind the outbox.
LEMMA AheadKept ==
  ASSUME TypeOK, ItemInHand, Ahead, UNCHANGED <<tuple, jobs>>,
         \A j \in Items : HasEvent("started", j) => HasEvent("started", j)',
         NEW p \in Procs, NEW there, pc' = [pc EXCEPT ![p] = there],
         \A q \in Procs \ {p} : reg'[q] = reg[q],
         there \in {"set", "schedule"} => HasEvent("started", reg[p].item)'
  PROVE  Ahead'
<1>1. NothingAheadOfItsEvent'
  BY DEF TypeOK, MaybeItem, Ahead, NothingAheadOfItsEvent
<1>2. ASSUME NEW q \in Procs, pc'[q] \in {"set", "schedule"}
      PROVE  HasEvent("started", reg[q].item)'
  <2>1. CASE q = p
    BY <1>2, <2>1 DEF TypeOK
  <2>2. CASE q # p
    <3>1. reg[q].item \in Items /\ HasEvent("started", reg[q].item)
      BY <1>2, <2>2 DEF TypeOK, ItemInHand, HoldingSteps, Ahead, StartedInHand
    <3>2. HasEvent("started", reg[q].item) => HasEvent("started", reg[q].item)'
      BY <3>1, <2>2 DEF HasEvent
    <3> QED BY <3>1, <3>2
  <2> QED BY <2>1, <2>2
<1> QED BY <1>1, <1>2 DEF Ahead, StartedInHand

\* Every step keeps Redis and BullMQ behind the outbox: startNext commits before
\* it sets the tuple and sets the tuple before it schedules the job.
LEMMA AheadStep == TypeOK /\ ItemInHand /\ Ahead /\ [Next]_vars => Ahead'
<1> SUFFICES ASSUME TypeOK, ItemInHand, Ahead, [Next]_vars PROVE Ahead'
  OBVIOUS
<1> USE DEF TypeOK, Goto, Load, Forget, database, queue, budget
<1>1. CASE UNCHANGED vars
  BY <1>1 DEF vars, Ahead, NothingAheadOfItsEvent, StartedInHand, HasEvent
<1>2. CASE Crash
  BY <1>2 DEF Crash, Ahead, NothingAheadOfItsEvent, StartedInHand, HasEvent
<1>3. ASSUME NEW p \in Procs, Begin(p) PROVE Ahead'
  <2>1. ASSUME NEW i \in Items, AddVideo(p, i) PROVE Ahead'
    BY <2>1, AheadKept DEF AddVideo, HasEvent
  <2>2. ASSUME NEW i \in Items, RemoveItem(p, i) PROVE Ahead'
    BY <2>2, AheadKept DEF RemoveItem, HasEvent
  <2>3. ASSUME NEW i \in Items, Advance(p, i) PROVE Ahead'
    <3>1. /\ outbox' = outbox /\ tuple' = tuple
          /\ \A j \in Items : jobs[j] = "none" <=> jobs'[j] = "none"
      BY <2>3 DEF Advance
    <3>2. \A j, t : HasEvent(t, j)' <=> HasEvent(t, j)
      BY <3>1 DEF HasEvent
    <3>3. NothingAheadOfItsEvent'
      BY <3>1, <3>2 DEF Ahead, NothingAheadOfItsEvent, MaybeItem
    <3>4. \A q \in Procs : pc'[q] \in {"set", "schedule"} =>
            pc[q] = pc'[q] /\ reg'[q].item = reg[q].item
      BY <2>3 DEF Advance
    <3> QED BY <3>2, <3>3, <3>4 DEF Ahead, StartedInHand
  <2>4. CASE Skip(p)
    BY <2>4, AheadKept DEF Skip, HasEvent
  <2> QED BY <1>3, <2>1, <2>2, <2>3, <2>4 DEF Begin
<1>4. ASSUME NEW p \in Procs, Continue(p) PROVE Ahead'
  <2>1. CASE ReadMaxPosition(p)
    BY <2>1, AheadKept DEF ReadMaxPosition, HasEvent
  <2>2. CASE ListForAdd(p)
    BY <2>2, AheadKept DEF ListForAdd, HasEvent
  <2>3. CASE Insert(p)
    <3>1. PICK i \in Items : i = reg[p].item /\ Announce(i, "added")
      BY <2>3 DEF Insert, ItemInHand, HoldingSteps, AddSteps, RemoveSteps
    <3>2. \A j \in Items : \A u : HasEvent(u, j) => HasEvent(u, j)'
      BY <3>1, EventsStay DEF TypeOK, EventTypes
    <3> QED BY <2>3, <3>2, AheadKept DEF Insert
  <2>4. CASE StartIfIdle(p)
    BY <2>4, AheadKept DEF StartIfIdle, HasEvent
  <2>5. CASE ListForRemove(p)
    BY <2>5, AheadKept DEF ListForRemove, HasEvent
  <2>6. CASE MarkRemoved(p)
    <3>1. PICK i \in Items : i = reg[p].item /\ Announce(i, "removed")
      BY <2>6 DEF MarkRemoved, ItemInHand, HoldingSteps, AddSteps, RemoveSteps
    <3>2. \A j \in Items : \A u : HasEvent(u, j) => HasEvent(u, j)'
      BY <3>1, EventsStay DEF TypeOK, EventTypes, SkipReasons
    <3> QED BY <2>6, <3>2, AheadKept DEF MarkRemoved
  <2>7. CASE FindPlaying(p)
    BY <2>7, AheadKept DEF FindPlaying, HasEvent
  <2>8. CASE Finish(p)
    <3>1. PICK i \in Items : i = reg[p].item /\ Announce(i, Reason(p))
      BY <2>8 DEF Finish, ItemInHand, HoldingSteps, AddSteps, RemoveSteps
    <3>2. \A j \in Items : \A u : HasEvent(u, j) => HasEvent(u, j)'
      BY <3>1, EventsStay, ReasonTyped DEF TypeOK
    <3> QED BY <2>8, <3>2, AheadKept DEF Finish
  <2>9. CASE ClearTuple(p)
    BY <2>9 DEF ClearTuple, Ahead, NothingAheadOfItsEvent, StartedInHand, HasEvent
  <2>10. CASE CancelAdvance(p)
    BY <2>10 DEF CancelAdvance, Ahead, NothingAheadOfItsEvent, StartedInHand, HasEvent
  <2>11. CASE FindNextPending(p)
    BY <2>11, AheadKept DEF FindNextPending, HasEvent
  <2>12. CASE ListAfterNext(p)
    BY <2>12, AheadKept DEF ListAfterNext, HasEvent
  <2>13. CASE StartItem(p)
    <3>1. PICK i \in Items : i = reg[p].item /\ Announce(i, "started")
      BY <2>13 DEF StartItem, ItemInHand, HoldingSteps, AddSteps, RemoveSteps
    <3>2. /\ \A j \in Items : \A u : HasEvent(u, j) => HasEvent(u, j)'
          /\ HasEvent("started", i)'
      BY <3>1, EventsStay DEF TypeOK, EventTypes
    <3>3. i = reg'[p].item
      BY <2>13, <3>1 DEF StartItem
    <3>4. HasEvent("started", reg[p].item)'
      BY <3>2, <3>3 DEF HasEvent
    <3> QED BY <2>13, <3>2, <3>4, AheadKept DEF StartItem
  <2>14. CASE SetTuple(p)
    BY <2>14 DEF SetTuple, Ahead, NothingAheadOfItsEvent, StartedInHand, HasEvent
  <2>15. CASE ScheduleAdvance(p)
    BY <2>15 DEF ScheduleAdvance, Ahead, NothingAheadOfItsEvent, StartedInHand, HasEvent
  <2>16. CASE Return(p)
    BY <2>16 DEF Return, Ahead, NothingAheadOfItsEvent, StartedInHand, HasEvent
  <2> QED BY <1>4, <2>1, <2>2, <2>3, <2>4, <2>5, <2>6, <2>7, <2>8, <2>9,
             <2>10, <2>11, <2>12, <2>13, <2>14, <2>15, <2>16 DEF Continue
<1>5. ASSUME NEW p \in Procs, CallFails(p) PROVE Ahead'
  BY <1>5 DEF CallFails, Ahead, NothingAheadOfItsEvent, StartedInHand, HasEvent
<1>6. ASSUME NEW p \in Procs, CancelFails(p) PROVE Ahead'
  BY <1>6, AheadKept DEF CancelFails, HasEvent
<1> QED BY <1>1, <1>2, <1>3, <1>4, <1>5, <1>6 DEF Next

\* However operations overlap, fail or are cut off by a crash: a tuple in Redis
\* or a job in BullMQ names an item whose video.started is committed.
THEOREM OutboxFirst == Spec => []NothingAheadOfItsEvent
<1>1. Init => Ahead
  BY DEF Init, Ahead, NothingAheadOfItsEvent, StartedInHand
<1>2. TypeOK /\ ItemInHand /\ Ahead /\ [Next]_vars => Ahead'
  BY AheadStep
<1>3. Ahead => NothingAheadOfItsEvent
  BY DEF Ahead
<1> QED BY <1>1, <1>2, <1>3, TypeCorrect, PTL DEF Spec

-------------------------------------------------------------------------------
(* The outbox tells each row's status *)

\* A transaction that writes the status its event stands for keeps the outbox
\* telling the status.
LEMMA TellingCommit ==
  ASSUME TypeOK, OutboxTellsStatus, NEW i \in Items, NEW t \in EventTypes,
         Announce(i, t), status' = [status EXCEPT ![i] = StatusAfter(t)]
  PROVE  OutboxTellsStatus'
<1>1. /\ outbox' = [outbox EXCEPT ![i] = Append(@, t)]
      /\ outbox \in [Items -> Seq(EventTypes)] /\ status \in [Items -> Statuses]
  BY DEF Announce, TypeOK
<1>2. /\ outbox'[i] # <<>>
      /\ outbox'[i][Len(outbox'[i])] = t
  BY <1>1
<1>3. ASSUME NEW j \in Items
      PROVE  status'[j] = IF outbox'[j] = <<>> THEN "ABSENT"
                                               ELSE StatusAfter(outbox'[j][Len(outbox'[j])])
  <2>1. CASE j = i
    BY <1>1, <1>2, <2>1
  <2>2. CASE j # i
    BY <1>1, <2>2 DEF OutboxTellsStatus
  <2> QED BY <2>1, <2>2
<1> QED BY <1>3 DEF OutboxTellsStatus, StatusAfter

\* Every step keeps the outbox telling the status: the four commits pair row and
\* event, and nothing else writes either.
LEMMA TellingStep == TypeOK /\ ItemInHand /\ OutboxTellsStatus /\ [Next]_vars => OutboxTellsStatus'
<1> SUFFICES ASSUME TypeOK, ItemInHand, OutboxTellsStatus, [Next]_vars PROVE OutboxTellsStatus'
  OBVIOUS
<1>1. CASE UNCHANGED database
  BY <1>1 DEF database, OutboxTellsStatus
<1>2. CASE \E p \in Procs : Insert(p) \/ MarkRemoved(p) \/ Finish(p) \/ StartItem(p)
  <2>1. PICK p \in Procs : Insert(p) \/ MarkRemoved(p) \/ Finish(p) \/ StartItem(p)
    BY <1>2
  <2>2. PICK i \in Items : i = reg[p].item
    BY <2>1 DEF Insert, MarkRemoved, Finish, StartItem, Goto, ItemInHand, HoldingSteps,
                AddSteps, RemoveSteps
  <2>3. \E t \in EventTypes : Announce(i, t) /\ status' = [status EXCEPT ![i] = StatusAfter(t)]
    <3>1. CASE Insert(p)
      BY <2>2, <3>1 DEF Insert, EventTypes, StatusAfter
    <3>2. CASE MarkRemoved(p)
      BY <2>2, <3>2 DEF MarkRemoved, EventTypes, SkipReasons, StatusAfter
    <3>3. CASE Finish(p)
      <4>1. Reason(p) \in EventTypes
        BY ReasonTyped
      <4>2. StatusAfter(Reason(p)) = IF Reason(p) = "ended" THEN "DONE" ELSE "SKIPPED"
        BY DEF Reason, StatusAfter
      <4> QED BY <2>2, <3>3, <4>1, <4>2 DEF Finish
    <3>4. CASE StartItem(p)
      BY <2>2, <3>4 DEF StartItem, EventTypes, StatusAfter
    <3> QED BY <2>1, <3>1, <3>2, <3>3, <3>4
  <2> QED BY <2>3, TellingCommit
<1> QED
  BY <1>1, <1>2 DEF Next, vars, Begin, Continue, Crash, CallFails, CancelFails, AddVideo, RemoveItem,
     Advance, Skip, ReadMaxPosition, ListForAdd, StartIfIdle, ListForRemove, FindPlaying,
     ClearTuple, CancelAdvance, FindNextPending, ListAfterNext, SetTuple, ScheduleAdvance, Return

\* However operations overlap and fail: the newest event about an item names the
\* status of its row, so whoever folds the outbox in order knows the queue.
THEOREM OutboxIsFaithful == Spec => []OutboxTellsStatus
<1>1. Init => OutboxTellsStatus
  BY DEF Init, OutboxTellsStatus
<1> QED BY <1>1, TellingStep, TypeCorrect, PTL DEF Spec

-------------------------------------------------------------------------------
(* No wake-up is lost *)

\* Labels from which an operation looks for the next item, or has found it.
WakingSteps == {"findIdle", "clear", "cancel", "findNext", "listNext", "start"}

\* Nothing failed and no item was taken off the air by a removal.
Regular == Undisturbed /\ \A i \in Items : ~RemovedAfterStart(i)

\* While rows wait, something is on the air or some operation will see them.
SomeoneWakes ==
  Regular /\ Pending # {} => Playing # {} \/ \E p \in Procs : pc[p] \in WakingSteps

\* A removal after the start is never forgotten.
LEMMA RemovalStays ==
  ASSUME TypeOK, NEW i \in Items, NEW t \in EventTypes, Announce(i, t)
  PROVE  /\ \A j \in Items : RemovedAfterStart(j) => RemovedAfterStart(j)'
         /\ status[i] = "PLAYING" /\ OutboxTellsStatus /\ t = "removed" => RemovedAfterStart(i)'
<1>1. outbox' = [outbox EXCEPT ![i] = Append(@, t)] /\ outbox \in [Items -> Seq(EventTypes)]
  BY DEF Announce, TypeOK
<1>2. /\ Len(outbox[i]) \in Nat /\ DOMAIN outbox[i] = 1 .. Len(outbox[i])
      /\ DOMAIN outbox'[i] = 1 .. (Len(outbox[i]) + 1)
      /\ outbox'[i][Len(outbox[i]) + 1] = t
      /\ \A k \in 1 .. Len(outbox[i]) : outbox'[i][k] = outbox[i][k]
  BY <1>1
<1>3. ASSUME NEW j \in Items, RemovedAfterStart(j) PROVE RemovedAfterStart(j)'
  <2>1. CASE j # i
    BY <1>1, <1>3, <2>1 DEF RemovedAfterStart
  <2>2. CASE j = i
    <3>1. PICK k \in DOMAIN outbox[i], l \in DOMAIN outbox[i] :
            k < l /\ outbox[i][k] = "started" /\ outbox[i][l] = "removed"
      BY <1>3, <2>2 DEF RemovedAfterStart
    <3>2. /\ k \in DOMAIN outbox'[i] /\ l \in DOMAIN outbox'[i]
          /\ outbox'[i][k] = "started" /\ outbox'[i][l] = "removed"
      BY <1>2, <3>1
    <3> QED BY <2>2, <3>1, <3>2 DEF RemovedAfterStart
  <2> QED BY <2>1, <2>2
<1>4. ASSUME status[i] = "PLAYING", OutboxTellsStatus, t = "removed" PROVE RemovedAfterStart(i)'
  <2>1. outbox[i] # <<>> /\ StatusAfter(outbox[i][Len(outbox[i])]) = "PLAYING"
    BY <1>4 DEF OutboxTellsStatus
  <2>2. Len(outbox[i]) \in 1 .. Len(outbox[i])
    BY <1>1, <2>1
  <2>3. outbox[i][Len(outbox[i])] = "started"
    BY <2>1 DEF StatusAfter
  <2>4. /\ Len(outbox[i]) \in DOMAIN outbox'[i] /\ Len(outbox[i]) + 1 \in DOMAIN outbox'[i]
        /\ Len(outbox[i]) < Len(outbox[i]) + 1
        /\ outbox'[i][Len(outbox[i])] = "started" /\ outbox'[i][Len(outbox[i]) + 1] = "removed"
    BY <1>2, <1>4, <2>2, <2>3
  <2> QED BY <2>4 DEF RemovedAfterStart
<1> QED BY <1>3, <1>4

\* A step of one operation that adds no waiting row and leaves the air alone.
LEMMA WakingKept ==
  ASSUME TypeOK, SomeoneWakes, Regular, Pending' \subseteq Pending, Playing \subseteq Playing', NEW p \in Procs,
         \A q \in Procs \ {p} : pc'[q] = pc[q],
         pc[p] \in WakingSteps => pc'[p] \in WakingSteps \/ Playing' # {} \/ Pending' = {}
  PROVE  SomeoneWakes'
<1>1. CASE Pending' = {}
  BY <1>1 DEF SomeoneWakes
<1>2. CASE Playing' # {}
  BY <1>2 DEF SomeoneWakes
<1>3. CASE Pending' # {} /\ Playing' = {}
  <2>1. PICK q \in Procs : pc[q] \in WakingSteps
    BY <1>3 DEF SomeoneWakes
  <2>2. pc'[q] \in WakingSteps
    BY <1>3, <2>1
  <2> QED BY <2>2 DEF SomeoneWakes
<1> QED BY <1>1, <1>2, <1>3

\* Every regular step keeps someone awake.
LEMMA WakingStep ==
  ASSUME TypeOK, ItemInHand, OutboxTellsStatus, SomeoneWakes, [Next]_vars
  PROVE  SomeoneWakes'
<1> SUFFICES ASSUME Regular' PROVE SomeoneWakes'
  BY DEF SomeoneWakes
<1> USE DEF Goto, database
<1>0. /\ pc \in [Procs -> Labels] /\ status \in [Items -> Statuses] /\ faults \in Nat
  BY BoundAssumption DEF TypeOK
<1>1. CASE UNCHANGED vars
  BY <1>1 DEF vars, budget, SomeoneWakes, Regular, Undisturbed, RemovedAfterStart, Pending, Playing
<1>2. CASE Crash \/ \E p \in Procs : CallFails(p) \/ CancelFails(p)
  BY <1>0, <1>2 DEF Crash, CallFails, CancelFails, Regular, Undisturbed
<1>3. ASSUME NEW p \in Procs, Insert(p) \/ MarkRemoved(p) \/ Finish(p) \/ StartItem(p) PROVE SomeoneWakes'
  <2>0. PICK i \in Items : i = reg[p].item
    BY <1>3 DEF Insert, MarkRemoved, Finish, StartItem, ItemInHand, HoldingSteps, AddSteps, RemoveSteps
  <2>1. PICK t \in EventTypes : Announce(i, t) /\ (MarkRemoved(p) => t = "removed")
    BY <1>3, <2>0, ReasonTyped DEF Insert, MarkRemoved, Finish, StartItem, EventTypes, SkipReasons
  <2>2. Regular
    BY <1>3, <2>1, RemovalStays
    DEF Regular, Undisturbed, Insert, MarkRemoved, Finish, StartItem, budget
  <2>3. CASE Insert(p) \/ Finish(p)
    BY <1>0, <2>3 DEF Insert, Finish, SomeoneWakes, WakingSteps
  <2>4. CASE StartItem(p)
    BY <1>0, <2>0, <2>4 DEF StartItem, SomeoneWakes, Playing
  <2>5. CASE MarkRemoved(p)
    <3>1. status[i] # "PLAYING"
      BY <2>0, <2>1, <2>5, RemovalStays DEF MarkRemoved, Regular
    <3>2. /\ status' = [status EXCEPT ![i] = "SKIPPED"] /\ pc[p] \notin WakingSteps
          /\ \A q \in Procs \ {p} : pc'[q] = pc[q]
      BY <1>0, <2>0, <2>5 DEF MarkRemoved, WakingSteps
    <3>3. Pending' \subseteq Pending /\ Playing \subseteq Playing'
      BY <1>0, <3>1, <3>2 DEF Pending, Playing
    <3> QED BY <2>2, <3>2, <3>3, WakingKept
  <2> QED BY <1>3, <2>3, <2>4, <2>5
<1>4. ASSUME NEW p \in Procs, Begin(p) \/ Continue(p), ~Insert(p), ~MarkRemoved(p), ~Finish(p), ~StartItem(p)
      PROVE  SomeoneWakes'
  <2>1. UNCHANGED <<database, faults>>
    BY <1>4 DEF Begin, AddVideo, RemoveItem, Advance, Skip, Continue, ReadMaxPosition, ListForAdd,
       StartIfIdle, ListForRemove, FindPlaying, ClearTuple, CancelAdvance, FindNextPending,
       ListAfterNext, SetTuple, ScheduleAdvance, Return, budget
  <2>2. Regular /\ Pending' = Pending /\ Playing' = Playing
    BY <2>1 DEF Regular, Undisturbed, RemovedAfterStart, Pending, Playing
  <2>3. /\ \A q \in Procs \ {p} : pc'[q] = pc[q]
        /\ pc[p] \in WakingSteps => pc'[p] \in WakingSteps \/ Playing # {} \/ Pending = {}
    <3>1. CASE Begin(p)
      BY <1>0, <3>1 DEF Begin, AddVideo, RemoveItem, Advance, Skip, WakingSteps
    <3>2. CASE Continue(p)
      BY <1>0, <1>4, <3>2 DEF Continue, ReadMaxPosition, ListForAdd, StartIfIdle, ListForRemove,
         FindPlaying, ClearTuple, CancelAdvance, FindNextPending, ListAfterNext,
         SetTuple, ScheduleAdvance, Return, WakingSteps
    <3> QED BY <1>4, <3>1, <3>2
  <2> QED BY <2>2, <2>3, WakingKept
<1> QED BY <1>1, <1>2, <1>3, <1>4 DEF Next

\* However operations overlap: as long as nothing failed and no removal hit a row
\* that had started, no row is left waiting in a silent room.
THEOREM NobodySleepsThrough == Spec => []NoLostWakeUp
<1>1. Init => SomeoneWakes
  BY DEF Init, SomeoneWakes, Pending
<1>2. SomeoneWakes => NoLostWakeUp
  BY DEF SomeoneWakes, NoLostWakeUp, AtRest, Regular, WakingSteps
<1>3. TypeOK /\ ItemInHand /\ OutboxTellsStatus /\ SomeoneWakes /\ [Next]_vars => SomeoneWakes'
  BY WakingStep
<1> QED BY <1>1, <1>2, <1>3, TypeCorrect, OutboxIsFaithful, PTL DEF Spec

-------------------------------------------------------------------------------
(* Races: what a step does *)

\* The locals of the other operations stay.
LEMMA OthersWait ==
  ASSUME TypeOK, NEW p \in Procs, Begin(p) \/ Continue(p) \/ CallFails(p) \/ CancelFails(p)
  PROVE  /\ pc' = [pc EXCEPT ![p] = pc'[p]] /\ pc'[p] \in Labels
         /\ \A q \in Procs \ {p} : pc'[q] = pc[q] /\ reg'[q] = reg[q]
<1> USE DEF TypeOK, Goto, Load, Forget, Labels, AddSteps, RemoveSteps, FinishSteps, StartSteps
<1>1. CASE Begin(p)
  BY <1>1 DEF Begin, AddVideo, RemoveItem, Advance, Skip
<1>2. CASE Insert(p) \/ MarkRemoved(p) \/ Finish(p) \/ StartItem(p) \/ ReadMaxPosition(p)
  BY <1>2 DEF Insert, MarkRemoved, Finish, StartItem, ReadMaxPosition
<1>3. CASE ListForAdd(p) \/ StartIfIdle(p) \/ ListForRemove(p) \/ FindPlaying(p) \/ ClearTuple(p)
  BY <1>3 DEF ListForAdd, StartIfIdle, ListForRemove, FindPlaying, ClearTuple
<1>4. CASE \/ CancelAdvance(p) \/ FindNextPending(p) \/ ListAfterNext(p) \/ SetTuple(p)
           \/ ScheduleAdvance(p) \/ Return(p)
  BY <1>4 DEF CancelAdvance, FindNextPending, ListAfterNext, SetTuple, ScheduleAdvance, Return
<1>5. CASE CallFails(p) \/ CancelFails(p)
  BY <1>5 DEF CallFails, CancelFails
<1> QED BY <1>1, <1>2, <1>3, <1>4, <1>5 DEF Continue

-------------------------------------------------------------------------------
(* Races: what the rows of the items in hand can be *)

\* An id in the hands of an add is unused, by the table and by every other add.
IdsApart ==
  \A p \in Procs : pc[p] \in AddSteps =>
    /\ status[reg[p].item] = "ABSENT"
    /\ \A q \in Procs \ {p} : pc[q] \in AddSteps => reg[q].item # reg[p].item

\* Any other item in hand has a row, and the one found playing waits no more.
RowsExist ==
  \A p \in Procs :
    /\ pc[p] \in RemoveSteps \cup {"finish", "listNext", "start"} => status[reg[p].item] # "ABSENT"
    /\ pc[p] = "finish" => status[reg[p].item] # "PENDING"

\* What a commit does to the two sets of rows.
LEMMA RowsAfter ==
  ASSUME TypeOK, NEW i \in Items, NEW s \in Statuses, status' = [status EXCEPT ![i] = s]
  PROVE  /\ Pending' = IF s = "PENDING" THEN Pending \cup {i} ELSE Pending \ {i}
         /\ Playing' = IF s = "PLAYING" THEN Playing \cup {i} ELSE Playing \ {i}
  BY DEF TypeOK, Pending, Playing

\* A step commits for one operation or leaves the database alone.
Commits(p) == Insert(p) \/ MarkRemoved(p) \/ Finish(p) \/ StartItem(p)

\* It leaves the database alone in every other step.
LEMMA CommitOrNot ==
  ASSUME [Next]_vars
  PROVE  UNCHANGED database \/ \E p \in Procs : Commits(p)
  BY DEF Commits, Next, vars, Begin, Continue, Crash, CallFails, CancelFails, AddVideo,
     RemoveItem, Advance, Skip, ReadMaxPosition, ListForAdd, StartIfIdle, ListForRemove,
     FindPlaying, ClearTuple, CancelAdvance, FindNextPending, ListAfterNext, SetTuple,
     ScheduleAdvance, Return

\* What a commit is: an act of the item in hand, and the row that goes with it.
LEMMA CommitIs ==
  ASSUME TypeOK, ItemInHand, NEW p \in Procs, Commits(p)
  PROVE  \E i \in Items, t \in EventTypes :
           /\ i = reg[p].item /\ Announce(i, t) /\ status' = [status EXCEPT ![i] = StatusAfter(t)]
           /\ pc[p] \in {"insert", "markRemoved", "finish", "start"}
           /\ pc' = [pc EXCEPT ![p] = pc'[p]] /\ \A q \in Procs \ {p} : reg'[q] = reg[q]
           /\ Insert(p) => t = "added" /\ pc[p] = "insert" /\ pc'[p] = "findIdle"
           /\ MarkRemoved(p) => t = "removed" /\ pc[p] = "markRemoved" /\ pc'[p] = "return"
           /\ Finish(p) => t \in {"ended", "vote"} /\ pc[p] = "finish" /\ pc'[p] = "clear"
           /\ StartItem(p) => t = "started" /\ pc[p] = "start" /\ pc'[p] = "set"
<1> USE DEF TypeOK, Goto, Load, Forget, EventTypes, SkipReasons, StatusAfter, ItemInHand,
        HoldingSteps, AddSteps, RemoveSteps
<1>1. PICK i \in Items : i = reg[p].item
  BY DEF Commits, Insert, MarkRemoved, Finish, StartItem
<1>2. CASE Insert(p)
  BY <1>1, <1>2 DEF Insert, MarkRemoved, Finish, StartItem
<1>3. CASE MarkRemoved(p)
  BY <1>1, <1>3 DEF Insert, MarkRemoved, Finish, StartItem
<1>4. CASE Finish(p)
  <2>1. Reason(p) \in {"ended", "vote"}
    BY DEF Reason
  <2> QED BY <1>1, <1>4, <2>1 DEF Insert, MarkRemoved, Finish, StartItem
<1>5. CASE StartItem(p)
  BY <1>1, <1>5 DEF Insert, MarkRemoved, Finish, StartItem
<1> QED BY <1>2, <1>3, <1>4, <1>5 DEF Commits

\* Every step keeps the two facts.
LEMMA RowsKept ==
  ASSUME TypeOK, ItemInHand, IdsApart, RowsExist, [Next]_vars
  PROVE  IdsApart' /\ RowsExist'
<1> USE DEF AddSteps, RemoveSteps
<1>1. CASE UNCHANGED vars
  BY <1>1 DEF vars, database, IdsApart, RowsExist
<1>2. CASE Crash
  BY <1>2 DEF Crash, IdsApart, RowsExist
<1>3. ASSUME NEW p \in Procs, Commits(p) PROVE IdsApart' /\ RowsExist'
  <2>1. PICK i \in Items, t \in EventTypes :
          /\ i = reg[p].item /\ status' = [status EXCEPT ![i] = StatusAfter(t)]
          /\ pc[p] \in {"insert", "markRemoved", "finish", "start"}
          /\ pc' = [pc EXCEPT ![p] = pc'[p]] /\ \A q \in Procs \ {p} : reg'[q] = reg[q]
          /\ Insert(p) => t = "added" /\ pc[p] = "insert" /\ pc'[p] = "findIdle"
          /\ MarkRemoved(p) => t = "removed" /\ pc[p] = "markRemoved" /\ pc'[p] = "return"
          /\ Finish(p) => t \in {"ended", "vote"} /\ pc[p] = "finish" /\ pc'[p] = "clear"
          /\ StartItem(p) => t = "started" /\ pc[p] = "start" /\ pc'[p] = "set"
    BY <1>3, CommitIs
  <2>2. /\ pc'[p] \in {"findIdle", "return", "clear", "set"}
        /\ \A q \in Procs \ {p} : pc'[q] = pc[q] /\ reg'[q] = reg[q]
        /\ status'[i] # "ABSENT" /\ \A j \in Items \ {i} : status'[j] = status[j]
    BY <1>3, <2>1 DEF TypeOK, Commits, StatusAfter
  <2>3. \A q \in Procs \ {p} : pc[q] \in AddSteps => reg[q].item # i
    BY <2>1 DEF IdsApart, RowsExist
  <2>4. \A q \in Procs \ {p} : pc[q] \in HoldingSteps => reg[q].item \in Items
    BY DEF ItemInHand
  <2>5. IdsApart'
    BY <2>2, <2>3, <2>4 DEF IdsApart, HoldingSteps
  <2>6. status'[i] = "PENDING" => status[i] = "ABSENT"
    BY <1>3, <2>1, <2>2 DEF Commits, StatusAfter, IdsApart, TypeOK
  <2>7. RowsExist'
    BY <2>2, <2>4, <2>6 DEF RowsExist, HoldingSteps
  <2> QED BY <2>5, <2>7
<1>4. ASSUME NEW p \in Procs, Begin(p) \/ Continue(p) \/ CallFails(p) \/ CancelFails(p),
             UNCHANGED database
      PROVE  IdsApart' /\ RowsExist'
  <2>1. UNCHANGED status /\ \A q \in Procs \ {p} : pc'[q] = pc[q] /\ reg'[q] = reg[q]
    BY <1>4, OthersWait DEF database
  <2>2. pc'[p] \in AddSteps =>
          \/ pc[p] \in AddSteps /\ reg'[p].item = reg[p].item
          \/ Fresh(reg'[p].item)
    BY <1>4 DEF TypeOK, Goto, Load, Forget, Begin, Continue, Commits, CallFails, CancelFails, AddVideo,
     RemoveItem, Advance, Skip, ReadMaxPosition, ListForAdd, StartIfIdle, ListForRemove,
     FindPlaying, ClearTuple, CancelAdvance, FindNextPending, ListAfterNext, SetTuple,
     ScheduleAdvance, Return, Insert, MarkRemoved, Finish, StartItem
  <2>3. /\ pc'[p] \in RemoveSteps \cup {"finish", "listNext", "start"} =>
             \/ pc[p] \in RemoveSteps \cup {"listNext", "start"} /\ reg'[p].item = reg[p].item
             \/ status[reg'[p].item] \in {"PENDING", "PLAYING"}
        /\ pc'[p] = "finish" => status[reg'[p].item] = "PLAYING"
    BY <1>4 DEF TypeOK, Goto, Load, Forget, Begin, Continue, Commits, CallFails, CancelFails, AddVideo,
     RemoveItem, Advance, Skip, ReadMaxPosition, ListForAdd, StartIfIdle, ListForRemove,
     FindPlaying, ClearTuple, CancelAdvance, FindNextPending, ListAfterNext, SetTuple,
     ScheduleAdvance, Return, Insert, MarkRemoved, Finish, StartItem, Pending, Playing
  <2>4. IdsApart'
    BY <2>1, <2>2 DEF IdsApart, Fresh
  <2>5. RowsExist'
    BY <2>1, <2>3 DEF RowsExist
  <2> QED BY <2>4, <2>5
<1> QED BY <1>1, <1>2, <1>3, <1>4, CommitOrNot DEF Next

-------------------------------------------------------------------------------
(* The life of an item, as the outbox tells it *)

\* What may have been announced about an item whose row has status s.
LivesUpTo(s) ==
  CASE s = "ABSENT"  -> {<<>>}
    [] s = "PENDING" -> {<<"added">>}
    [] s = "PLAYING" -> {<<"added", "started">>}
    [] s = "DONE"    -> {<<"added", "started", "ended">>}
    [] OTHER         -> {<<"added", "removed">>, <<"added", "started", "vote">>}

LivesOK == \A i \in Items : outbox[i] \in LivesUpTo(status[i])

\* What one more announcement makes of a life of at most two acts.
LEMMA LongerLives ==
  ASSUME NEW t \in EventTypes
  PROVE  /\ Append(<<>>, t) = <<t>>
         /\ Append(<<"added">>, t) = <<"added", t>>
         /\ Append(<<"added", "started">>, t) = <<"added", "started", t>>
<1> "added" \in EventTypes /\ "started" \in EventTypes
  BY DEF EventTypes
<1>1. Append(<<>>, t) = <<t>>
  OBVIOUS
<1>2. Append(<<"added">>, t) = <<"added", t>>
  <2>1. /\ Append(<<"added">>, t) \in Seq(EventTypes) /\ <<"added", t>> \in Seq(EventTypes)
        /\ Len(Append(<<"added">>, t)) = 2 /\ Len(<<"added", t>>) = 2
    OBVIOUS
  <2>2. \A k \in 1 .. 2 : Append(<<"added">>, t)[k] = <<"added", t>>[k]
    OBVIOUS
  <2> QED BY <2>1, <2>2, SeqEqual
<1>3. Append(<<"added", "started">>, t) = <<"added", "started", t>>
  <2>1. /\ Append(<<"added", "started">>, t) \in Seq(EventTypes)
        /\ <<"added", "started", t>> \in Seq(EventTypes)
        /\ Len(Append(<<"added", "started">>, t)) = 3 /\ Len(<<"added", "started", t>>) = 3
    OBVIOUS
  <2>2. \A k \in 1 .. 3 : Append(<<"added", "started">>, t)[k] = <<"added", "started", t>>[k]
    OBVIOUS
  <2> QED BY <2>1, <2>2, SeqEqual
<1> QED BY <1>1, <1>2, <1>3

-------------------------------------------------------------------------------
(* Races: what an operation has read is still so, or it has missed some news *)

\* The items that others did something to since the look.
Told(p, acts) == {i \in Items : \E a \in since[p] : a.item = i /\ a.act \in acts}

\* News of the item in hand, of the waiting rows since they were listed, and of
\* the places in line since the last one was read.
TakenOn(p) == \E a \in since[p] : a.item = reg[p].item /\ a.act # "added"
Stirred(p) == \E a \in since[p] : a.step = pc[p] /\ a.act \in {"added", "started", "removed"}
Joined(p)  == \E a \in since[p] : a.act = "added" /\ a.step \in {"listForAdd", "insert"}

\* Nothing is on the air but the item found there and what came since.
AirOf(p) ==
  /\ pc[p] = "finish" => Playing \subseteq {reg[p].item} \cup Told(p, {"started"})
  /\ pc[p] \in {"clear", "cancel", "findNext", "listNext", "start"} =>
       Playing \subseteq Told(p, {"started"})

\* The item in hand is where it was found, or others took it on.
RowOf(p) ==
  /\ pc[p] = "finish" => status[reg[p].item] = "PLAYING" \/ TakenOn(p)
  /\ pc[p] \in RemoveSteps \cup {"listNext", "start"} =>
       status[reg[p].item] = "PENDING" \/ TakenOn(p)

\* The video of an add is not queued, but for the adds that came since.
TwinOf(p) ==
  pc[p] \in AddSteps =>
    \A j \in Pending \cup Playing :
      VideoOf[j] = VideoOf[reg[p].item] => j \in Told(p, {"added"})

\* The place read is the last, or another add came since.
PlaceOf(p) ==
  pc[p] \in {"listForAdd", "insert"} =>
    Joined(p) \/ \A j \in Items : position[j] <= reg[p].before

\* The item found next is at the head of the line, or others took it on.
HeadOf(p) ==
  pc[p] \in {"listNext", "start"} =>
    TakenOn(p) \/ \A j \in Pending : position[reg[p].item] <= position[j]

\* The list is current, or the waiting rows have changed since.
ListOf(p) ==
  /\ pc[p] = "insert" => reg[p].rest = Pending \/ Stirred(p)
  /\ pc[p] \in {"markRemoved", "start"} => reg[p].rest = Pending \ {reg[p].item} \/ Stirred(p)

\* The inductive invariant: what has not raced in one of the ways is as promised.
RaceInv ==
  /\ since \in [Procs -> SUBSET [act : EventTypes, item : Items, step : Labels]]
  /\ \A p \in Procs : RowOf(p) /\ PlaceOf(p) /\ ListOf(p)
  /\ "air" \notin races => AtMostOnePlaying /\ \A p \in Procs : AirOf(p)
  /\ "row" \notin races => LivesOK
  /\ Without({"twin", "row"}) => NoDuplicateVideo /\ \A p \in Procs : TwinOf(p)
  /\ "place" \notin races => \A p \in Procs : HeadOf(p)
  /\ "list" \notin races => LastQueueIsPending

\* What the history makes of a step that commits nothing.
LEMMA QuietHistory ==
  ASSUME UNCHANGED outbox, NEW p \in Procs, Remember(p), RaceInv
  PROVE  /\ races' = races
         /\ since' \in [Procs -> SUBSET [act : EventTypes, item : Items, step : Labels]]
         /\ \A q \in Procs : pc'[q] \notin Unbound => since'[q] = since[q]
<1>1. Committed = {} /\ \A q \in Procs : News(q) = {}
  BY DEF Committed, News
<1> QED BY <1>1 DEF Remember, RaceInv

\* What it makes of a commit.
LEMMA CommitHistory ==
  ASSUME TypeOK, RaceInv, NEW p \in Procs, Remember(p), NEW i \in Items, NEW t \in EventTypes,
         Announce(i, t), \A q \in Procs \ {p} : pc'[q] = pc[q]
  PROVE  /\ since' \in [Procs -> SUBSET [act : EventTypes, item : Items, step : Labels]]
         /\ pc'[p] \notin Unbound => since'[p] = since[p]
         /\ \A q \in Procs \ {p} : pc[q] \notin Unbound =>
              since'[q] = since[q] \cup {[act |-> t, item |-> i, step |-> pc[q]]}
         /\ \A k \in RaceKinds \ {"list"} : k \notin races' => k \notin races /\ ~Races(p, k)
         /\ "list" \notin races' => IF pc[p] = "finish" THEN "list" \notin races ELSE ~Races(p, "list")
<1>1. /\ outbox[i] \in Seq(EventTypes) /\ outbox'[i] = Append(outbox[i], t)
      /\ \A j \in Items \ {i} : outbox'[j] = outbox[j]
  BY DEF TypeOK, Announce
<1>2. Len(outbox'[i]) = Len(outbox[i]) + 1 /\ outbox'[i][Len(outbox'[i])] = t
  BY <1>1
<1>3. outbox'[i] # outbox[i]
  <2>1. Len(outbox[i]) \in Nat
    BY <1>1
  <2> QED BY <1>2, <2>1
<1>4. Committed = {i}
  BY <1>1, <1>3 DEF Committed
<1>5. \A q \in Procs : News(q) = {[act |-> t, item |-> i, step |-> pc[q]]}
  BY <1>2, <1>4 DEF News
<1>6. \A q \in Procs : [act |-> t, item |-> i, step |-> pc[q]]
                         \in [act : EventTypes, item : Items, step : Labels]
  BY DEF TypeOK
<1>7. races' = (IF pc[p] = "finish" THEN races ELSE races \ {"list"})
                  \cup {k \in RaceKinds : Races(p, k)}
  BY <1>4 DEF Remember
<1>8. since' = [q \in Procs |-> IF pc'[q] \in Unbound THEN {}
                               ELSE IF q = p THEN since[p] ELSE since[q] \cup News(q)]
  BY DEF Remember
<1>9. /\ since' \in [Procs -> SUBSET [act : EventTypes, item : Items, step : Labels]]
      /\ pc'[p] \notin Unbound => since'[p] = since[p]
      /\ \A q \in Procs \ {p} : pc[q] \notin Unbound =>
           since'[q] = since[q] \cup {[act |-> t, item |-> i, step |-> pc[q]]}
  <2> HIDE DEF Unbound
  <2>1. since' \in [Procs -> SUBSET [act : EventTypes, item : Items, step : Labels]]
    BY <1>5, <1>6, <1>8 DEF RaceInv
  <2> QED BY <2>1, <1>5, <1>8
<1>10. /\ \A k \in RaceKinds \ {"list"} : k \notin races' => k \notin races /\ ~Races(p, k)
       /\ "list" \notin races' => IF pc[p] = "finish" THEN "list" \notin races ELSE ~Races(p, "list")
  <2> HIDE DEF Races
  <2>1. "list" \in RaceKinds
    BY DEF RaceKinds
  <2> QED BY <1>7, <2>1
<1> QED BY <1>9, <1>10

\* An operation that does not move is told nothing where nothing is committed.
LEMMA UnmovedKnow ==
  ASSUME NEW q \in Procs, UNCHANGED database, pc'[q] = pc[q], reg'[q] = reg[q],
         pc'[q] \notin Unbound => since'[q] = since[q]
  PROVE  /\ RowOf(q) => RowOf(q)'
         /\ PlaceOf(q) => PlaceOf(q)'
         /\ ListOf(q) => ListOf(q)'
         /\ AirOf(q) => AirOf(q)'
         /\ TwinOf(q) => TwinOf(q)'
         /\ HeadOf(q) => HeadOf(q)'
<1>1. Pending' = Pending /\ Playing' = Playing /\ position' = position /\ status' = status
  BY DEF database, Pending, Playing
<1> USE DEF AddSteps, RemoveSteps
<1>2. CASE pc[q] \in Unbound
  BY <1>2 DEF Unbound, RowOf, PlaceOf, ListOf, AirOf, TwinOf, HeadOf
<1>3. CASE pc[q] \notin Unbound
  <2>1. since'[q] = since[q]
    BY <1>3
  <2>2. Told(q, {"started"})' = Told(q, {"started"}) /\ Told(q, {"added"})' = Told(q, {"added"})
    BY <2>1 DEF Told
  <2>3. (TakenOn(q)' <=> TakenOn(q)) /\ (Stirred(q)' <=> Stirred(q)) /\ (Joined(q)' <=> Joined(q))
    BY <2>1 DEF TakenOn, Stirred, Joined
  <2> QED BY <1>1, <2>2, <2>3 DEF RowOf, PlaceOf, ListOf, AirOf, TwinOf, HeadOf
<1> QED BY <1>2, <1>3

\* What the news amount to for an operation that was told nothing more.
LEMMA SameNews ==
  ASSUME NEW p \in Procs, since'[p] = since[p]
  PROVE  /\ \A acts : Told(p, acts)' = Told(p, acts)
         /\ Joined(p)' <=> Joined(p)
         /\ reg'[p].item = reg[p].item => (TakenOn(p)' <=> TakenOn(p))
  BY DEF Told, Joined, TakenOn

\* An operation that reads finds what it reads, and keeps what it found before.
LEMMA MovedKnows ==
  ASSUME TypeOK, ItemInHand, RaceInv, UNCHANGED <<status, position>>, NEW p \in Procs,
         Begin(p) \/ Continue(p) \/ CallFails(p) \/ CancelFails(p), ~Commits(p),
         pc'[p] \notin Unbound => since'[p] = since[p]
  PROVE  /\ RowOf(p)' /\ PlaceOf(p)' /\ ListOf(p)'
         /\ AtMostOnePlaying /\ AirOf(p) => AirOf(p)'
         /\ TwinOf(p) => TwinOf(p)'
         /\ HeadOf(p) => HeadOf(p)'
<1>0. Pending' = Pending /\ Playing' = Playing /\ RowOf(p) /\ PlaceOf(p) /\ ListOf(p)
  BY DEF Pending, Playing, RaceInv
<1> DEFINE Settled == pc'[p] \in Unbound
           Known == /\ RowOf(p)' /\ PlaceOf(p)' /\ ListOf(p)'
                    /\ AtMostOnePlaying /\ AirOf(p) => AirOf(p)'
                    /\ TwinOf(p) => TwinOf(p)'
                    /\ HeadOf(p) => HeadOf(p)'
<1>1. ASSUME Settled PROVE Known
  BY <1>1 DEF Unbound, RowOf, PlaceOf, ListOf, AirOf, TwinOf, HeadOf, AddSteps, RemoveSteps
<1> USE DEF Goto, Load, Forget, TypeOK
<1>2. CASE Begin(p)
  <2>1. ASSUME NEW i \in Items, AddVideo(p, i) PROVE Known
    <3>1. /\ pc'[p] = "maxPosition" /\ reg'[p].item = i /\ ~HasPendingVideo(VideoOf[i])
      BY <2>1 DEF AddVideo
    <3> QED BY <1>0, <3>1 DEF HasPendingVideo, RowOf, PlaceOf, ListOf, AirOf, TwinOf, HeadOf,
               RemoveSteps
  <2>2. ASSUME NEW i \in Items, RemoveItem(p, i) PROVE Known
    <3>1. pc'[p] = "listForRemove" /\ reg'[p].item = i /\ status[i] = "PENDING"
      BY <2>2 DEF RemoveItem
    <3> QED BY <1>0, <3>1 DEF RowOf, PlaceOf, ListOf, AirOf, TwinOf, HeadOf, AddSteps
  <2>3. ASSUME (\E i \in Items : Advance(p, i)) \/ Skip(p) PROVE Known
    <3>1. Settled
      BY <2>3 DEF Advance, Skip, Unbound
    <3> QED BY <1>1, <3>1
  <2> QED BY <1>2, <2>1, <2>2, <2>3 DEF Begin
<1>3. CASE ReadMaxPosition(p)
  <2>1. /\ pc[p] = "maxPosition" /\ pc'[p] = "listForAdd" /\ reg'[p].item = reg[p].item
        /\ \A j \in Items : position[j] <= reg'[p].before
    BY <1>3 DEF ReadMaxPosition
  <2>2. since'[p] = since[p]
    BY <2>1 DEF Unbound
  <2> QED BY <1>0, <2>1, <2>2, SameNews DEF RowOf, PlaceOf, ListOf, AirOf, TwinOf, HeadOf,
             AddSteps, RemoveSteps
<1>4. CASE ListForAdd(p)
  <2>1. /\ pc[p] = "listForAdd" /\ pc'[p] = "insert" /\ reg'[p].item = reg[p].item
        /\ reg'[p].before = reg[p].before /\ reg'[p].rest = Pending
    BY <1>4 DEF ListForAdd
  <2>2. since'[p] = since[p]
    BY <2>1 DEF Unbound
  <2> QED BY <1>0, <2>1, <2>2, SameNews DEF RowOf, PlaceOf, ListOf, AirOf, TwinOf, HeadOf,
             AddSteps, RemoveSteps
<1>5. CASE ListForRemove(p)
  <2>1. /\ pc[p] = "listForRemove" /\ pc'[p] = "markRemoved" /\ reg'[p].item = reg[p].item
        /\ reg'[p].rest = Pending \ {reg[p].item}
    BY <1>5 DEF ListForRemove
  <2>2. since'[p] = since[p]
    BY <2>1 DEF Unbound
  <2> QED BY <1>0, <2>1, <2>2, SameNews DEF RowOf, PlaceOf, ListOf, AirOf, TwinOf, HeadOf,
             AddSteps, RemoveSteps
<1>6. CASE StartIfIdle(p)
  <2>1. pc'[p] = "return" \/ (pc'[p] = "findNext" /\ Playing = {})
    BY <1>6 DEF StartIfIdle
  <2> QED BY <1>0, <2>1 DEF RowOf, PlaceOf, ListOf, AirOf, TwinOf, HeadOf, AddSteps, RemoveSteps
<1>7. CASE FindPlaying(p)
  <2>1. CASE Playing = {} /\ pc'[p] = "findNext"
    BY <1>0, <2>1 DEF RowOf, PlaceOf, ListOf, AirOf, TwinOf, HeadOf, AddSteps, RemoveSteps
  <2>2. ASSUME NEW i \in Playing, pc'[p] = "finish", reg'[p].item = i PROVE Known
    <3>1. status'[i] = "PLAYING" /\ (AtMostOnePlaying => Playing = {i})
      BY <2>2 DEF Playing, AtMostOnePlaying
    <3> QED BY <1>0, <2>2, <3>1 DEF RowOf, PlaceOf, ListOf, AirOf, TwinOf, HeadOf, AddSteps, RemoveSteps
  <2> QED BY <1>7, <2>1, <2>2 DEF FindPlaying
<1>8. CASE ClearTuple(p) \/ CancelAdvance(p) \/ CancelFails(p)
  <2>1. pc[p] \in {"clear", "cancel"} /\ pc'[p] \in {"cancel", "findNext"}
    BY <1>8 DEF ClearTuple, CancelAdvance, CancelFails
  <2>2. since'[p] = since[p]
    BY <2>1 DEF Unbound
  <2> QED BY <1>0, <2>1, <2>2, SameNews DEF RowOf, PlaceOf, ListOf, AirOf, TwinOf, HeadOf,
             AddSteps, RemoveSteps
<1>9. CASE FindNextPending(p)
  <2>1. CASE pc'[p] = "return"
    BY <1>1, <2>1 DEF Unbound
  <2>2. ASSUME NEW i \in Pending, \A j \in Pending : position[i] <= position[j],
               pc[p] = "findNext", pc'[p] = "listNext", reg'[p].item = i
        PROVE  Known
    <3>1. status'[i] = "PENDING" /\ since'[p] = since[p]
      BY <2>2 DEF Pending, Unbound
    <3> QED BY <1>0, <2>2, <3>1, SameNews DEF RowOf, PlaceOf, ListOf, AirOf, TwinOf, HeadOf, AddSteps,
               RemoveSteps
  <2> QED BY <1>9, <2>1, <2>2 DEF FindNextPending, Pending
<1>10. CASE ListAfterNext(p)
  <2>1. /\ pc[p] = "listNext" /\ pc'[p] = "start" /\ reg'[p].item = reg[p].item
        /\ reg'[p].rest = Pending \ {reg[p].item}
    BY <1>10 DEF ListAfterNext
  <2>2. since'[p] = since[p]
    BY <2>1 DEF Unbound
  <2> QED BY <1>0, <2>1, <2>2, SameNews DEF RowOf, PlaceOf, ListOf, AirOf, TwinOf, HeadOf,
             AddSteps, RemoveSteps
<1>11. CASE SetTuple(p) \/ ScheduleAdvance(p) \/ Return(p) \/ CallFails(p)
  <2>1. Settled
    BY <1>11 DEF SetTuple, ScheduleAdvance, Return, CallFails, Unbound
  <2> QED BY <1>1, <2>1
<1> QED BY <1>2, <1>3, <1>4, <1>5, <1>6, <1>7, <1>8, <1>9, <1>10, <1>11 DEF Continue, Commits

\* A step that commits nothing keeps the invariant.
LEMMA QuietStep ==
  ASSUME TypeOK, ItemInHand, RaceInv, UNCHANGED database, NEW p \in Procs,
         Begin(p) \/ Continue(p) \/ CallFails(p) \/ CancelFails(p), ~Commits(p), Remember(p)
  PROVE  RaceInv'
<1>1. /\ races' = races
      /\ since' \in [Procs -> SUBSET [act : EventTypes, item : Items, step : Labels]]
      /\ \A q \in Procs : pc'[q] \notin Unbound => since'[q] = since[q]
  BY QuietHistory DEF database
<1>2. \A q \in Procs \ {p} : pc'[q] = pc[q] /\ reg'[q] = reg[q]
  BY OthersWait
<1>3. /\ Pending' = Pending /\ Playing' = Playing
      /\ UNCHANGED <<status, position, outbox, lastQueue>>
  BY DEF database, Pending, Playing
<1>4. ASSUME NEW q \in Procs
      PROVE  /\ RowOf(q)' /\ PlaceOf(q)' /\ ListOf(q)'
             /\ AtMostOnePlaying /\ AirOf(q) => AirOf(q)'
             /\ TwinOf(q) => TwinOf(q)'
             /\ HeadOf(q) => HeadOf(q)'
  <2>1. CASE q = p
    BY <1>1, <1>3, <2>1, MovedKnows
  <2>2. CASE q # p
    BY <1>1, <1>2, <2>2, UnmovedKnow DEF RaceInv
  <2> QED BY <2>1, <2>2
<1>5. "air" \notin races' => AtMostOnePlaying' /\ \A q \in Procs : AirOf(q)'
  BY <1>1, <1>3, <1>4 DEF RaceInv, AtMostOnePlaying
<1>6. "row" \notin races' => LivesOK'
  BY <1>1, <1>3 DEF RaceInv, LivesOK
<1>7. Without({"twin", "row"})' => NoDuplicateVideo' /\ \A q \in Procs : TwinOf(q)'
  BY <1>1, <1>3, <1>4 DEF RaceInv, Without, NoDuplicateVideo
<1>8. "list" \notin races' => LastQueueIsPending'
  BY <1>1, <1>3 DEF RaceInv, LastQueueIsPending
<1>9. "place" \notin races' => \A q \in Procs : HeadOf(q)'
  BY <1>1, <1>4 DEF RaceInv
<1> QED BY <1>1, <1>4, <1>5, <1>6, <1>7, <1>8, <1>9 DEF RaceInv

\* A commit that does not race finds the rows as its operation read them.
LEMMA CommitKnows ==
  ASSUME TypeOK, ItemInHand, IdsApart, RowsExist, RaceInv, NEW p \in Procs, Commits(p),
         NEW i \in Items, i = reg[p].item
  PROVE  /\ Insert(p) => status[i] = "ABSENT"
         /\ ~Races(p, "row") =>
              /\ MarkRemoved(p) \/ StartItem(p) => status[i] = "PENDING"
              /\ Finish(p) => status[i] = "PLAYING"
         /\ "air" \notin races /\ ~Races(p, "air") /\ StartItem(p) => Playing = {}
         /\ Without({"twin", "row"}) /\ ~Races(p, "twin") /\ Insert(p) =>
              ~HasPendingVideo(VideoOf[i])
         /\ ~Races(p, "place") /\ Insert(p) => \A j \in Items : position[j] <= reg[p].before
         /\ ~Races(p, "list") =>
              /\ Insert(p) => reg[p].rest = Pending
              /\ MarkRemoved(p) \/ StartItem(p) => reg[p].rest = Pending \ {i}
<1>1. /\ Insert(p) => pc[p] = "insert"
      /\ MarkRemoved(p) => pc[p] = "markRemoved"
      /\ StartItem(p) => pc[p] = "start"
      /\ Finish(p) => pc[p] = "finish"
  BY DEF Insert, MarkRemoved, StartItem, Finish, Goto
<1>2. RowOf(p) /\ PlaceOf(p) /\ ListOf(p)
  BY DEF RaceInv
<1>3. Insert(p) => status[i] = "ABSENT"
  BY <1>1 DEF IdsApart, AddSteps
<1>4. ASSUME ~Races(p, "row")
      PROVE  /\ MarkRemoved(p) \/ StartItem(p) => status[i] = "PENDING"
             /\ Finish(p) => status[i] = "PLAYING"
  <2>1. ~TakenOn(p)
    BY <1>4 DEF Races, TakenOn
  <2> QED BY <1>1, <1>2, <2>1 DEF RowOf, RemoveSteps
<1>5. ASSUME "air" \notin races, ~Races(p, "air"), StartItem(p) PROVE Playing = {}
  <2>1. Playing \subseteq Told(p, {"started"})
    BY <1>1, <1>5 DEF RaceInv, AirOf
  <2> QED BY <1>1, <1>5, <2>1 DEF Told, Races
<1>6. ASSUME Without({"twin", "row"}), ~Races(p, "twin"), Insert(p)
      PROVE  ~HasPendingVideo(VideoOf[i])
  <2>1. \A j \in Pending \cup Playing : VideoOf[j] = VideoOf[i] => j \in Told(p, {"added"})
    BY <1>1, <1>6 DEF RaceInv, TwinOf, AddSteps
  <2> QED BY <1>1, <1>6, <2>1 DEF Told, Races, HasPendingVideo
<1>7. ASSUME ~Races(p, "place"), Insert(p) PROVE \A j \in Items : position[j] <= reg[p].before
  <2>1. ~Joined(p)
    BY <1>1, <1>7 DEF Races, Joined
  <2> QED BY <1>1, <1>2, <1>7, <2>1 DEF PlaceOf
<1>8. ASSUME ~Races(p, "list")
      PROVE  /\ Insert(p) => reg[p].rest = Pending
             /\ MarkRemoved(p) \/ StartItem(p) => reg[p].rest = Pending \ {i}
  <2>1. pc[p] # "finish" => ~Stirred(p)
    BY <1>8 DEF Races, Stirred
  <2> QED BY <1>1, <1>2, <2>1 DEF ListOf
<1> QED BY <1>3, <1>4, <1>5, <1>6, <1>7, <1>8

\* What an operation knows stays current, but for what it is told, when p commits act t
\* of item i.
StillKnows(p, q, i, t) ==
  /\ RowOf(q)' /\ PlaceOf(q)' /\ ListOf(q)'
  /\ AirOf(q) => AirOf(q)'
  /\ (t = "started" => i \in Pending) /\ TwinOf(q) => TwinOf(q)'
  /\ (t = "added" => \A j \in Items : position[j] <= reg[p].before) /\ HeadOf(q) => HeadOf(q)'

\* What the others know when p has committed act t of item i.
LEMMA CommitIsNews ==
  ASSUME TypeOK, ItemInHand, IdsApart, RowsExist, RaceInv, NEW p \in Procs, NEW i \in Items, NEW t \in EventTypes,
         Commits(p), i = reg[p].item, status' = [status EXCEPT ![i] = StatusAfter(t)],
         t = "added" => pc[p] = "insert" /\ position' = [position EXCEPT ![i] = reg[p].before + 1],
         t # "added" => UNCHANGED position,
         t \in {"ended", "vote"} => pc[p] = "finish",
         NEW q \in Procs \ {p}, pc'[q] = pc[q], reg'[q] = reg[q],
         pc[q] \notin Unbound =>
           since'[q] = since[q] \cup {[act |-> t, item |-> i, step |-> pc[q]]}
  PROVE  StillKnows(p, q, i, t)
<1>0. RowOf(q) /\ PlaceOf(q) /\ ListOf(q)
  BY DEF RaceInv
<1>1. CASE pc[q] \in Unbound
  BY <1>1 DEF StillKnows, Unbound, RowOf, PlaceOf, ListOf, AirOf, TwinOf, HeadOf, AddSteps, RemoveSteps
<1>2. CASE pc[q] \notin Unbound
  <2>0. pc[q] \in RemoveSteps \cup {"finish", "listNext", "start"} => reg[q].item \in Items
    BY DEF ItemInHand, HoldingSteps
  <2>1. since'[q] = since[q] \cup {[act |-> t, item |-> i, step |-> pc[q]]}
    BY <1>2
  <2>2. /\ Pending' = IF t = "added" THEN Pending \cup {i} ELSE Pending \ {i}
        /\ Playing' = IF t = "started" THEN Playing \cup {i} ELSE Playing \ {i}
        /\ \A j \in Items \ {i} : status'[j] = status[j]
        /\ t = "added" => status'[i] = "PENDING"
    BY RowsAfter DEF StatusAfter, Statuses, EventTypes, SkipReasons, TypeOK
  <2>3. /\ TakenOn(q) \/ (i = reg[q].item /\ t # "added") => TakenOn(q)'
        /\ Joined(q) \/ (t = "added" /\ pc[q] \in {"listForAdd", "insert"}) => Joined(q)'
        /\ Stirred(q) \/ t \in {"added", "started", "removed"} => Stirred(q)'
    <3> DEFINE news == [act |-> t, item |-> i, step |-> pc[q]]
    <3>1. /\ news \in since'[q] /\ since[q] \subseteq since'[q]
          /\ news.act = t /\ news.item = i /\ news.step = pc[q]
      BY <2>1
    <3> HIDE DEF news
    <3>2. TakenOn(q) \/ (i = reg[q].item /\ t # "added") => TakenOn(q)'
      BY <3>1 DEF TakenOn
    <3>3. Joined(q) \/ (t = "added" /\ pc[q] \in {"listForAdd", "insert"}) => Joined(q)'
      BY <3>1 DEF Joined
    <3>4. Stirred(q) \/ t \in {"added", "started", "removed"} => Stirred(q)'
      BY <3>1 DEF Stirred
    <3> QED BY <3>2, <3>3, <3>4
  <2>4. /\ Told(q, {"started"})' = Told(q, {"started"}) \cup IF t = "started" THEN {i} ELSE {}
        /\ Told(q, {"added"})' = Told(q, {"added"}) \cup IF t = "added" THEN {i} ELSE {}
    <3> DEFINE news == [act |-> t, item |-> i, step |-> pc[q]]
    <3>1. /\ since'[q] = since[q] \cup {news}
          /\ news.act = t /\ news.item = i
      BY <2>1
    <3> HIDE DEF news
    <3> QED BY <3>1 DEF Told
  <2>5. t = "added" => /\ status[i] = "ABSENT"
                       /\ pc[q] \in AddSteps => reg[q].item # i
    BY DEF IdsApart, AddSteps
  <2>6. t = "added" /\ pc[q] \in RemoveSteps \cup {"finish", "listNext", "start"} => reg[q].item # i
    BY <2>5 DEF RowsExist
  <2>7. RowOf(q)'
    <3>1. CASE reg[q].item = i
      BY <2>3, <2>6, <3>1 DEF RowOf
    <3>2. CASE reg[q].item # i
      BY <1>0, <2>0, <2>2, <2>3, <3>2 DEF RowOf
    <3> QED BY <3>1, <3>2
  <2>8. PlaceOf(q)'
    BY <1>0, <2>3 DEF PlaceOf
  <2>9. ListOf(q)'
    <3>1. CASE t \in {"added", "started", "removed"}
      BY <2>3, <3>1 DEF ListOf
    <3>2. CASE t \in {"ended", "vote"}
      <4>1. Pending' = Pending
        BY <2>2, <3>2 DEF RowsExist, Pending
      <4> QED BY <1>0, <2>3, <4>1 DEF ListOf
    <3> QED BY <3>1, <3>2 DEF EventTypes, SkipReasons
  <2>10. AirOf(q) => AirOf(q)'
    BY <2>2, <2>4 DEF AirOf
  <2>11. ASSUME t = "started" => i \in Pending, TwinOf(q) PROVE TwinOf(q)'
    <3>1. Pending' \cup Playing' \subseteq Pending \cup Playing \cup {i}
      BY <2>2
    <3>2. t # "added" /\ i \in Pending' \cup Playing' => i \in Pending \cup Playing
      BY <2>2, <2>11
    <3> QED BY <2>4, <2>11, <3>1, <3>2 DEF TwinOf
  <2>12. ASSUME t = "added" => \A j \in Items : position[j] <= reg[p].before, HeadOf(q),
                pc[q] \in {"listNext", "start"}, ~TakenOn(q)', NEW j \in Pending'
         PROVE  position'[reg[q].item] <= position'[j]
    <3> DEFINE k == reg[q].item
    <3>1. k \in Items /\ \A l \in Pending : position[k] <= position[l]
      BY <2>0, <2>3, <2>12 DEF HeadOf
    <3>2. CASE t = "added"
      <4>1. k # i /\ position'[k] = position[k] /\ position[k] <= reg[p].before
        BY <2>6, <2>12, <3>1, <3>2 DEF TypeOK
      <4>2. CASE j = i
        <5>1. position'[j] = reg[p].before + 1 /\ reg[p].before \in Nat /\ position[k] \in Nat
          BY <3>1, <3>2, <4>2 DEF TypeOK, Registers
        <5> QED BY <4>1, <5>1
      <4>3. CASE j # i
        <5>1. j \in Pending /\ j \in Items
          BY <2>2, <3>2, <4>3 DEF Pending
        <5>2. position'[j] = position[j]
          BY <3>2, <4>3, <5>1 DEF TypeOK
        <5> QED BY <3>1, <4>1, <5>1, <5>2
      <4> QED BY <4>2, <4>3
    <3>3. CASE t # "added"
      BY <2>2, <2>12, <3>1, <3>3
    <3> QED BY <3>2, <3>3
  <2>13. (t = "added" => \A j \in Items : position[j] <= reg[p].before) /\ HeadOf(q) => HeadOf(q)'
    BY <2>12 DEF HeadOf
  <2> QED BY <2>7, <2>8, <2>9, <2>10, <2>11, <2>13 DEF StillKnows
<1> QED BY <1>1, <1>2

\* A commit keeps the invariant: it races in one of the ways, or it finds the rows
\* as its operation read them.
LEMMA CommitStep ==
  ASSUME TypeOK, ItemInHand, IdsApart, RowsExist, RaceInv, NEW p \in Procs, Commits(p), Remember(p)
  PROVE  RaceInv'
<1>1. PICK i \in Items, t \in EventTypes :
        /\ i = reg[p].item /\ Announce(i, t) /\ status' = [status EXCEPT ![i] = StatusAfter(t)]
        /\ pc[p] \in {"insert", "markRemoved", "finish", "start"}
        /\ pc' = [pc EXCEPT ![p] = pc'[p]] /\ \A q \in Procs \ {p} : reg'[q] = reg[q]
        /\ Insert(p) => t = "added" /\ pc[p] = "insert" /\ pc'[p] = "findIdle"
        /\ MarkRemoved(p) => t = "removed" /\ pc[p] = "markRemoved" /\ pc'[p] = "return"
        /\ Finish(p) => t \in {"ended", "vote"} /\ pc[p] = "finish" /\ pc'[p] = "clear"
        /\ StartItem(p) => t = "started" /\ pc[p] = "start" /\ pc'[p] = "set"
  BY CommitIs
<1>2. \A q \in Procs \ {p} : pc'[q] = pc[q] /\ reg'[q] = reg[q]
  BY <1>1 DEF TypeOK
<1>3. /\ since' \in [Procs -> SUBSET [act : EventTypes, item : Items, step : Labels]]
      /\ pc'[p] \notin Unbound => since'[p] = since[p]
      /\ \A q \in Procs \ {p} : pc[q] \notin Unbound =>
           since'[q] = since[q] \cup {[act |-> t, item |-> i, step |-> pc[q]]}
      /\ \A k \in RaceKinds \ {"list"} : k \notin races' => k \notin races /\ ~Races(p, k)
      /\ "list" \notin races' => IF pc[p] = "finish" THEN "list" \notin races ELSE ~Races(p, "list")
  BY <1>1, <1>2, CommitHistory
<1>4. /\ "air" \notin races' => "air" \notin races /\ ~Races(p, "air")
      /\ "row" \notin races' => "row" \notin races /\ ~Races(p, "row")
      /\ "twin" \notin races' => "twin" \notin races /\ ~Races(p, "twin")
      /\ "place" \notin races' => "place" \notin races /\ ~Races(p, "place")
  BY <1>3 DEF RaceKinds
<1>5. /\ Insert(p) => status[i] = "ABSENT"
      /\ ~Races(p, "row") =>
           /\ MarkRemoved(p) \/ StartItem(p) => status[i] = "PENDING"
           /\ Finish(p) => status[i] = "PLAYING"
      /\ "air" \notin races /\ ~Races(p, "air") /\ StartItem(p) => Playing = {}
      /\ Without({"twin", "row"}) /\ ~Races(p, "twin") /\ Insert(p) =>
           ~HasPendingVideo(VideoOf[i])
      /\ ~Races(p, "place") /\ Insert(p) => \A j \in Items : position[j] <= reg[p].before
      /\ ~Races(p, "list") =>
           /\ Insert(p) => reg[p].rest = Pending
           /\ MarkRemoved(p) \/ StartItem(p) => reg[p].rest = Pending \ {i}
  BY <1>1, CommitKnows
<1>6. /\ Insert(p) => t = "added" /\ Pending' = Pending \cup {i} /\ Playing' = Playing \ {i}
                      /\ position' = [position EXCEPT ![i] = reg[p].before + 1]
                      /\ lastQueue' = reg[p].rest \cup {i}
      /\ MarkRemoved(p) => t = "removed" /\ Pending' = Pending \ {i} /\ Playing' = Playing \ {i}
                           /\ position' = position /\ lastQueue' = reg[p].rest
      /\ Finish(p) => t \in {"ended", "vote"} /\ Pending' = Pending \ {i} /\ Playing' = Playing \ {i}
                      /\ position' = position /\ lastQueue' = lastQueue /\ status[i] # "PENDING"
      /\ StartItem(p) => t = "started" /\ Pending' = Pending \ {i} /\ Playing' = Playing \cup {i}
                         /\ position' = position /\ lastQueue' = reg[p].rest
  <2>1. /\ Pending' = IF t = "added" THEN Pending \cup {i} ELSE Pending \ {i}
        /\ Playing' = IF t = "started" THEN Playing \cup {i} ELSE Playing \ {i}
    BY <1>1, RowsAfter DEF StatusAfter, Statuses, EventTypes, SkipReasons
  <2>2. Finish(p) => status[i] # "PENDING"
    BY <1>1 DEF RowsExist
  <2> QED BY <1>1, <2>1, <2>2 DEF Insert, MarkRemoved, Finish, StartItem
<1>7. ASSUME NEW q \in Procs
      PROVE  /\ RowOf(q)' /\ PlaceOf(q)' /\ ListOf(q)'
             /\ AirOf(q) => AirOf(q)'
             /\ (t = "started" => i \in Pending) /\ TwinOf(q) => TwinOf(q)'
             /\ (t = "added" => \A j \in Items : position[j] <= reg[p].before) /\ HeadOf(q)
                  => HeadOf(q)'
  <2>1. CASE q = p
    <3>1. pc'[p] \in {"findIdle", "return", "set"} \/ (pc'[p] = "clear" /\ Finish(p))
      BY <1>1 DEF Commits
    <3>2. CASE pc'[p] \in {"findIdle", "return", "set"}
      BY <2>1, <3>2 DEF RowOf, PlaceOf, ListOf, AirOf, TwinOf, HeadOf, AddSteps, RemoveSteps
    <3>3. CASE pc'[p] = "clear" /\ Finish(p)
      <4>1. since'[p] = since[p] /\ pc[p] = "finish" /\ Playing' = Playing \ {i}
        BY <1>1, <1>3, <1>6, <3>3 DEF Unbound
      <4>2. AirOf(p) => AirOf(p)'
        BY <1>1, <3>3, <4>1 DEF AirOf, Told
      <4> QED BY <2>1, <3>3, <4>2 DEF RowOf, PlaceOf, ListOf, TwinOf, HeadOf, AddSteps, RemoveSteps
    <3> QED BY <3>1, <3>2, <3>3
  <2>2. CASE q # p
    <3>1. /\ t = "added" => pc[p] = "insert" /\ position' = [position EXCEPT ![i] = reg[p].before + 1]
          /\ t # "added" => UNCHANGED position
          /\ t \in {"ended", "vote"} => pc[p] = "finish"
      BY <1>1, <1>6 DEF Commits
    <3>2. /\ q \in Procs \ {p} /\ pc'[q] = pc[q] /\ reg'[q] = reg[q]
          /\ pc[q] \notin Unbound =>
               since'[q] = since[q] \cup {[act |-> t, item |-> i, step |-> pc[q]]}
      BY <1>2, <1>3, <2>2
    <3>3. i = reg[p].item /\ status' = [status EXCEPT ![i] = StatusAfter(t)]
      BY <1>1
    <3>4. StillKnows(p, q, i, t)
      BY <3>1, <3>2, <3>3, CommitIsNews
    <3> QED BY <3>4 DEF StillKnows
  <2> QED BY <2>1, <2>2
<1>8. ASSUME "air" \notin races' PROVE AtMostOnePlaying' /\ \A q \in Procs : AirOf(q)'
  <2>1. AtMostOnePlaying /\ \A q \in Procs : AirOf(q)
    BY <1>4, <1>8 DEF RaceInv
  <2>2. Playing' \subseteq Playing \/ Playing' = {i}
    BY <1>4, <1>5, <1>6, <1>8 DEF Commits
  <2> QED BY <1>7, <2>1, <2>2 DEF AtMostOnePlaying
<1>9. ASSUME "row" \notin races' PROVE LivesOK'
  <2>1. outbox[i] \in LivesUpTo(status[i]) /\ ~Races(p, "row")
    BY <1>4, <1>9 DEF RaceInv, LivesOK
  <2>2. outbox'[i] = Append(outbox[i], t) /\ status'[i] = StatusAfter(t)
    BY <1>1 DEF Announce, TypeOK
  <2>3. outbox'[i] \in LivesUpTo(status'[i])
    <3>1. CASE Insert(p)
      <4>1. status[i] = "ABSENT" /\ status'[i] = "PENDING" /\ outbox'[i] = Append(outbox[i], "added")
        BY <1>1, <1>5, <2>2, <3>1 DEF StatusAfter
      <4> QED BY <2>1, <4>1, LongerLives DEF LivesUpTo, EventTypes, SkipReasons
    <3>2. CASE MarkRemoved(p)
      <4>1. status[i] = "PENDING" /\ status'[i] = "SKIPPED" /\ outbox'[i] = Append(outbox[i], "removed")
        BY <1>1, <1>5, <2>1, <2>2, <3>2 DEF StatusAfter
      <4> QED BY <2>1, <4>1, LongerLives DEF LivesUpTo, EventTypes, SkipReasons
    <3>3. CASE Finish(p)
      <4>1. status[i] = "PLAYING" /\ t \in {"ended", "vote"} /\ status'[i] = StatusAfter(t)
            /\ outbox'[i] = Append(outbox[i], t)
        BY <1>1, <1>5, <2>1, <2>2, <3>3
      <4> QED BY <2>1, <4>1, LongerLives DEF LivesUpTo, StatusAfter
    <3>4. CASE StartItem(p)
      <4>1. status[i] = "PENDING" /\ status'[i] = "PLAYING" /\ outbox'[i] = Append(outbox[i], "started")
        BY <1>1, <1>5, <2>1, <2>2, <3>4 DEF StatusAfter
      <4> QED BY <2>1, <4>1, LongerLives DEF LivesUpTo, EventTypes, SkipReasons
    <3> QED BY <3>1, <3>2, <3>3, <3>4 DEF Commits
  <2>4. ASSUME NEW j \in Items, j # i PROVE outbox'[j] \in LivesUpTo(status'[j])
    <3>1. outbox'[j] = outbox[j] /\ status'[j] = status[j]
      BY <1>1, <2>4 DEF Announce, TypeOK
    <3> QED BY <1>4, <1>9, <3>1 DEF RaceInv, LivesOK
  <2> QED BY <2>3, <2>4 DEF LivesOK
<1>10. ASSUME Without({"twin", "row"})' PROVE NoDuplicateVideo' /\ \A q \in Procs : TwinOf(q)'
  <2>1. Without({"twin", "row"}) /\ ~Races(p, "twin") /\ ~Races(p, "row")
    BY <1>4, <1>10 DEF Without
  <2>2. NoDuplicateVideo /\ \A q \in Procs : TwinOf(q)
    BY <2>1 DEF RaceInv
  <2>3. StartItem(p) => i \in Pending
    BY <1>5, <2>1 DEF Pending
  <2>4. NoDuplicateVideo'
    <3>1. CASE Insert(p)
      <4>1. Pending' \cup Playing' \subseteq Pending \cup Playing \cup {i}
        BY <1>6, <3>1
      <4>2. \A j \in Pending \cup Playing : VideoOf[j] # VideoOf[i]
        BY <1>5, <2>1, <3>1 DEF HasPendingVideo
      <4> QED BY <2>2, <4>1, <4>2 DEF NoDuplicateVideo
    <3>2. CASE ~Insert(p)
      <4>1. Pending' \cup Playing' \subseteq Pending \cup Playing
        BY <1>6, <2>3, <3>2 DEF Commits
      <4> QED BY <2>2, <4>1 DEF NoDuplicateVideo
    <3> QED BY <3>1, <3>2
  <2>5. t = "started" => i \in Pending
    BY <1>6, <2>3 DEF Commits
  <2> QED BY <1>7, <2>2, <2>4, <2>5
<1>11. ASSUME "place" \notin races' PROVE \A q \in Procs : HeadOf(q)'
  <2>1. ~Races(p, "place") /\ \A q \in Procs : HeadOf(q)
    BY <1>4, <1>11 DEF RaceInv
  <2>2. t = "added" => \A j \in Items : position[j] <= reg[p].before
    BY <1>5, <1>6, <2>1 DEF Commits
  <2> QED BY <1>7, <2>1, <2>2
<1>12. ASSUME "list" \notin races' PROVE LastQueueIsPending'
  <2>1. CASE Finish(p)
    <3>1. LastQueueIsPending /\ Pending' = Pending
      BY <1>1, <1>3, <1>6, <1>12, <2>1 DEF RaceInv, Pending
    <3> QED BY <1>6, <2>1, <3>1 DEF LastQueueIsPending
  <2>2. CASE ~Finish(p)
    <3>1. ~Races(p, "list")
      BY <1>1, <1>3, <1>12, <2>2 DEF Commits
    <3> QED BY <1>5, <1>6, <2>2, <3>1 DEF LastQueueIsPending, Commits
  <2> QED BY <2>1, <2>2
<1> QED BY <1>3, <1>7, <1>8, <1>9, <1>10, <1>11, <1>12 DEF RaceInv

\* Every step keeps it.
LEMMA RaceStep ==
  ASSUME TypeOK, ItemInHand, IdsApart, RowsExist, RaceInv, [RaceNext]_raceVars
  PROVE  RaceInv'
<1>1. CASE UNCHANGED raceVars
  <2>1. /\ UNCHANGED <<status, position, outbox, lastQueue, pc, reg, since, races>>
        /\ Pending' = Pending /\ Playing' = Playing
    BY <1>1 DEF raceVars, vars, database, Pending, Playing
  <2>2. \A q \in Procs : /\ RowOf(q)' <=> RowOf(q)
                         /\ PlaceOf(q)' <=> PlaceOf(q)
                         /\ ListOf(q)' <=> ListOf(q)
                         /\ AirOf(q)' <=> AirOf(q)
                         /\ TwinOf(q)' <=> TwinOf(q)
                         /\ HeadOf(q)' <=> HeadOf(q)
    BY <2>1 DEF RowOf, PlaceOf, ListOf, AirOf, TwinOf, HeadOf, Told, TakenOn, Stirred, Joined
  <2> QED BY <2>1, <2>2 DEF RaceInv, Without, AtMostOnePlaying, LivesOK, NoDuplicateVideo,
             LastQueueIsPending
<1>2. CASE Crash /\ since' = [p \in Procs |-> {}] /\ UNCHANGED races
  <2>1. /\ UNCHANGED <<status, outbox, lastQueue, races>>
        /\ Pending' = Pending /\ Playing' = Playing
    BY <1>2 DEF Crash, database, Pending, Playing
  <2>2. \A q \in Procs : RowOf(q)' /\ PlaceOf(q)' /\ ListOf(q)' /\ AirOf(q)' /\ TwinOf(q)' /\ HeadOf(q)'
    BY <1>2 DEF Crash, RowOf, PlaceOf, ListOf, AirOf, TwinOf, HeadOf, AddSteps, RemoveSteps
  <2> QED BY <1>2, <2>1, <2>2 DEF RaceInv, Without, AtMostOnePlaying, LivesOK, NoDuplicateVideo,
             LastQueueIsPending
<1>3. ASSUME NEW p \in Procs, Begin(p) \/ Continue(p) \/ CallFails(p) \/ CancelFails(p), Remember(p)
      PROVE  RaceInv'
  <2>1. CASE Commits(p)
    BY <1>3, <2>1, CommitStep
  <2>2. CASE ~Commits(p)
    <3>1. UNCHANGED database
      BY <1>3, <2>2 DEF Commits, Begin, Continue, CallFails, CancelFails, AddVideo,
         RemoveItem, Advance, Skip, ReadMaxPosition, ListForAdd, StartIfIdle, ListForRemove,
         FindPlaying, ClearTuple, CancelAdvance, FindNextPending, ListAfterNext, SetTuple,
         ScheduleAdvance, Return
    <3> QED BY <1>3, <2>2, <3>1, QuietStep
  <2> QED BY <2>1, <2>2
<1> QED BY <1>1, <1>2, <1>3 DEF RaceNext

-------------------------------------------------------------------------------
(* The room, however its operations overlap *)

\* The history steers nothing.
LEMMA HistoryOnly == RaceSpec => Spec
<1>1. RaceInit => Init
  BY DEF RaceInit
<1>2. [RaceNext]_raceVars => [Next]_vars
  BY DEF RaceNext, Next, raceVars
<1> QED BY <1>1, <1>2, PTL DEF RaceSpec, Spec

\* Hence the invariant always holds.
LEMMA RaceAlways == RaceSpec => [](TypeOK /\ ItemInHand /\ IdsApart /\ RowsExist /\ RaceInv)
<1>1. RaceInit => IdsApart /\ RowsExist
  BY DEF RaceInit, Init, IdsApart, RowsExist, AddSteps, RemoveSteps
<1>2. RaceInit => RaceInv
  BY DEF RaceInit, Init, RaceInv, RowOf, PlaceOf, ListOf, AirOf, TwinOf, HeadOf, AddSteps, RemoveSteps,
     AtMostOnePlaying, LivesOK, LivesUpTo, NoDuplicateVideo, LastQueueIsPending, Pending, Playing
<1>3. [RaceNext]_raceVars => [Next]_vars
  BY DEF RaceNext, Next, raceVars
<1>4. TypeOK /\ ItemInHand /\ IdsApart /\ RowsExist /\ [Next]_vars => IdsApart' /\ RowsExist'
  BY RowsKept
<1>5. TypeOK /\ ItemInHand /\ IdsApart /\ RowsExist /\ RaceInv /\ [RaceNext]_raceVars => RaceInv'
  BY RaceStep
<1> QED BY <1>1, <1>2, <1>3, <1>4, <1>5, HistoryOnly, TypeCorrect, PTL DEF RaceSpec

\* However the operations of a room overlap, whatever call fails and whenever the
\* process dies: two items are on the air only after a start that came behind
\* another since its operation looked, and a video waits twice only after an insert
\* behind its twin or a change to a row that had been taken on.
THEOREM DoublesAreRaces == RaceSpec => []OnlyRacesDouble
<1>1. RaceInv => OnlyRacesDouble
  BY DEF RaceInv, OnlyRacesDouble, Without
<1> QED BY <1>1, RaceAlways, PTL

\* Consumers of the outbox hear each act of an item once and in its turn unless a
\* row was changed behind another operation's back; and the newest queue.updated
\* lists the waiting rows unless they changed since they were listed for it.
THEOREM MisinformingIsRacing == RaceSpec => []OnlyRacesMisinform
<1>1. TypeOK /\ LivesOK => EachActAnnouncedOnce
  BY DEF TypeOK, Statuses, LivesOK, LivesUpTo, EachActAnnouncedOnce
<1>2. TypeOK /\ RaceInv => OnlyRacesMisinform
  BY <1>1 DEF RaceInv, OnlyRacesMisinform, Without
<1> QED BY <1>2, RaceAlways, PTL

\* A commit that does not race is a step of the abstract channel.
LEMMA TimelineStep ==
  ASSUME TypeOK, ItemInHand, IdsApart, RowsExist, RaceInv, [RaceNext]_raceVars,
         races' \cap {"air", "row", "place"} = {}
  PROVE  [Timeline!Next]_(Timeline!timelineVars)
<1>1. CASE UNCHANGED database
  BY <1>1 DEF database, Timeline!timelineVars, Pending, Playing
<1>2. ASSUME NEW p \in Procs, Commits(p), Remember(p) PROVE Timeline!Next
  <2>0. PICK i \in Items, t \in EventTypes :
          i = reg[p].item /\ Announce(i, t) /\ pc' = [pc EXCEPT ![p] = pc'[p]]
    BY <1>2, CommitIs
  <2>1. /\ "air" \notin races /\ ~Races(p, "air") /\ ~Races(p, "row") /\ ~Races(p, "place")
        /\ "place" \notin races
    <3>1. \A q \in Procs \ {p} : pc'[q] = pc[q]
      BY <2>0 DEF TypeOK
    <3>2. \A k \in RaceKinds \ {"list"} : k \notin races' => k \notin races /\ ~Races(p, k)
      BY <1>2, <2>0, <3>1, CommitHistory
    <3> QED BY <3>2 DEF RaceKinds
  <2>2. /\ Insert(p) => status[i] = "ABSENT" /\ \A j \in Items : position[j] <= reg[p].before
        /\ MarkRemoved(p) => status[i] = "PENDING"
        /\ Finish(p) => status[i] = "PLAYING"
        /\ StartItem(p) => status[i] = "PENDING" /\ Playing = {}
    BY <1>2, <2>0, <2>1, CommitKnows
  <2> DEFINE Past == {j \in Items : status[j] \in {"DONE", "SKIPPED"}}
  <2>3. CASE Insert(p)
    <3>1. /\ Pending' = Pending \cup {i} /\ Playing' = Playing /\ Past' = Past
          /\ i \notin Pending \cup Playing \cup Past
      BY <2>0, <2>2, <2>3 DEF Insert, TypeOK, Pending, Playing
    <3>2. /\ position' = [position EXCEPT ![i] = reg[p].before + 1]
          /\ position'[i] = reg[p].before + 1 /\ reg[p].before \in Nat
          /\ \A j \in Items : position[j] \in Nat /\ position[j] <= reg[p].before
      BY <2>0, <2>2, <2>3 DEF Insert, TypeOK, Registers
    <3>3. position' = [position EXCEPT ![i] = position'[i]]
      BY <3>2, Zenon
    <3>4. position'[i] \in Nat /\ \A j \in Pending : position[j] < position'[i]
      BY <3>2 DEF Pending
    <3>5. Timeline!Enqueue(i)
      BY <3>1, <3>3, <3>4 DEF Timeline!Enqueue
    <3> QED BY <3>5 DEF Timeline!Next
  <2>4. CASE MarkRemoved(p)
    <3>1. /\ Pending' = Pending \ {i} /\ Playing' = Playing /\ Past' = Past \cup {i}
          /\ i \in Pending /\ position' = position
      BY <2>0, <2>2, <2>4 DEF MarkRemoved, TypeOK, Pending, Playing
    <3>2. Timeline!Withdraw(i)
      BY <3>1 DEF Timeline!Withdraw
    <3> QED BY <3>2 DEF Timeline!Next
  <2>5. CASE Finish(p)
    <3>1. /\ Pending' = Pending /\ Playing' = Playing \ {i} /\ Past' = Past \cup {i}
          /\ i \in Playing /\ position' = position
      BY <2>0, <2>2, <2>5 DEF Finish, TypeOK, Pending, Playing
    <3>2. Timeline!LeaveAir(i)
      BY <3>1 DEF Timeline!LeaveAir
    <3> QED BY <3>2 DEF Timeline!Next
  <2>6. CASE StartItem(p)
    <3>1. /\ Pending' = Pending \ {i} /\ Playing = {} /\ Playing' = {i} /\ Past' = Past
          /\ i \in Pending /\ position' = position
      BY <2>0, <2>2, <2>6 DEF StartItem, TypeOK, Pending, Playing
    <3>2. \A j \in Pending : position[i] <= position[j]
      <4>1. pc[p] = "start" /\ ~TakenOn(p) /\ HeadOf(p)
        BY <2>1, <2>6 DEF StartItem, Goto, RaceInv, Races, TakenOn
      <4> QED BY <2>0, <4>1 DEF HeadOf
    <3>3. Timeline!GoOnAir(i)
      BY <3>1, <3>2 DEF Timeline!GoOnAir
    <3> QED BY <3>3 DEF Timeline!Next
  <2> QED BY <1>2, <2>3, <2>4, <2>5, <2>6 DEF Commits
<1>3. UNCHANGED database \/ \E p \in Procs : Commits(p) /\ Remember(p)
  <2>1. CASE UNCHANGED raceVars \/ Crash
    BY <2>1 DEF raceVars, vars, Crash
  <2>2. ASSUME NEW p \in Procs, Begin(p) \/ Continue(p) \/ CallFails(p) \/ CancelFails(p), Remember(p)
        PROVE  UNCHANGED database \/ (Commits(p) /\ Remember(p))
    BY <2>2 DEF Commits, Begin, Continue, CallFails, CancelFails, AddVideo,
         RemoveItem, Advance, Skip, ReadMaxPosition, ListForAdd, StartIfIdle, ListForRemove,
         FindPlaying, ClearTuple, CancelAdvance, FindNextPending, ListAfterNext, SetTuple,
         ScheduleAdvance, Return
  <2> QED BY <2>1, <2>2 DEF RaceNext
<1> QED BY <1>1, <1>2, <1>3

\* Refinement: the service is the broadcast channel it promises to be (first come,
\* first served, one at a time, nothing comes back) in every step up to the first
\* race for the air, for a row or for a place in line.
THEOREM ChannelUpToARace == RaceSpec => OnlyRacesBreakTimeline
<1>1. TypeOK /\ ItemInHand /\ IdsApart /\ RowsExist /\ RaceInv /\ [RaceNext]_raceVars
        => [races' \cap {"air", "row", "place"} = {}
              => [Timeline!Next]_(Timeline!timelineVars)]_raceVars
  BY TimelineStep
<1> QED BY <1>1, RaceAlways, PTL DEF RaceSpec, OnlyRacesBreakTimeline
===============================================================================
