---------------------------- MODULE MessagingProofs ----------------------------
(***************************************************************************)
(* Theorems about the consumer's idempotency claim, for any number of      *)
(* events, of concurrent deliveries, of retries and of faults.             *)
(***************************************************************************)
EXTENDS Messaging, TLAPS

USE EventAssumption, SizeAssumption, FaultAssumption

-------------------------------------------------------------------------------
(* The inductive invariant *)

HoldingSteps == {"handle", "ack", "release"}

\* The consumer's part of the types; a run that is not free has an event.
RunsTyped ==
  /\ run \in [Runs -> RunStates]
  /\ \A r \in Runs : run[r].step # "free" => run[r].event \in Events
  /\ handled \in [Events -> Nat]
  /\ claimed \in SUBSET Events

\* A run between its claim and its end has the claim, and is the only one.
ClaimIsLock ==
  Never("expiry") =>
    /\ \A r \in Runs : run[r].step \in HoldingSteps => run[r].event \in claimed
    /\ OneRunAtATime

\* A run acknowledges only what was handled.
AckAfterHandling ==
  \A r \in Runs : run[r].step = "ack" => handled[run[r].event] > 0

\* With the channel the consumer keeps its right to acknowledge; an event without
\* a claim and an event a run may still handle have not been handled yet.
NotHandledYet ==
  Never("expiry") /\ Never("channel") =>
    /\ \A r \in Runs : run[r].step # "free" => run[r].live
    /\ \A e \in Events : e \notin claimed => handled[e] = 0
    /\ \A r \in Runs : run[r].step \in {"handle", "release"} => handled[run[r].event] = 0
    /\ HandledOnce

ConsumerInv ==
  RunsTyped /\ ClaimIsLock /\ AckAfterHandling /\ NotHandledYet /\ ClaimsAreEarned

\* A fresh deployment has no runs and no claims.
LEMMA ConsumerInit == MessagingInit => ConsumerInv
  BY DEF MessagingInit, NoCopies, FreeRun, ConsumerInv, RunsTyped, RunStates, Steps, ClaimIsLock,
         AckAfterHandling, NotHandledYet, ClaimsAreEarned, OneRunAtATime, HandledOnce, Holding,
         HoldingSteps, Never

\* Whatever happens on the way to the consumer, or to its messages, does not
\* concern the invariant.
LEMMA ConsumerUntouched ==
  ASSUME ConsumerInv, UNCHANGED <<run, handled, claimed>>, happened \subseteq happened'
  PROVE  ConsumerInv'
  BY DEF ConsumerInv, RunsTyped, ClaimIsLock, AckAfterHandling, NotHandledYet, ClaimsAreEarned,
         OneRunAtATime, HandledOnce, Holding, HoldingSteps, Never

\* A step of run r leaves the other runs alone; it may keep its delivery.
Others(r)       == run' \in [Runs -> RunStates] /\ \A q \in Runs \ {r} : run'[q] = run[q]
SameDelivery(r) == run'[r].event = run[r].event /\ run'[r].live = run[r].live

\* What a move, the end and a caught error do to the runs.
LEMMA RunsAfter ==
  ASSUME RunsTyped, NEW r \in Runs
  PROVE  /\ \A step \in Steps : Move(r, step) =>
              Others(r) /\ SameDelivery(r) /\ run'[r].step = step
         /\ Free(r) => Others(r) /\ run'[r] = FreeRun
         /\ Caught(r) =>
              Others(r) /\ SameDelivery(r) /\ run'[r].step \in {"handle", "release"}
<1> USE DEF RunsTyped, RunStates, Others, SameDelivery
<1>1. ASSUME NEW step \in Steps, Move(r, step)
      PROVE  Others(r) /\ SameDelivery(r) /\ run'[r].step = step
  BY <1>1 DEF Move
<1>2. ASSUME Free(r) PROVE Others(r) /\ run'[r] = FreeRun
  BY <1>2 DEF Free, FreeRun, Steps
<1>3. ASSUME Caught(r)
      PROVE  Others(r) /\ SameDelivery(r) /\ run'[r].step \in {"handle", "release"}
  BY <1>1, <1>3 DEF Caught, Steps
<1> QED BY <1>1, <1>2, <1>3

\* Run r keeps the lock if it gives up only a claim of its own and takes only an
\* event that nobody has claimed.
LEMMA LockKept ==
  ASSUME RunsTyped, ClaimIsLock, happened \subseteq happened', NEW r \in Runs, Others(r),
         run'[r].step \in HoldingSteps =>
           \/ Holding(r, run'[r].event) /\ claimed \subseteq claimed'
           \/ run'[r].event \in claimed' \ claimed,
         \A e \in claimed \ claimed' : Holding(r, e)
  PROVE  ClaimIsLock'
<1> SUFFICES ASSUME Never("expiry") PROVE ClaimIsLock'
  BY DEF ClaimIsLock, Never
<1> USE DEF HoldingSteps
<1>1. \A q \in Runs : run[q].step \in HoldingSteps => run[q].event \in claimed /\ run[q].event \in Events
  BY DEF ClaimIsLock, RunsTyped
<1>2. \A e \in Events, p, q \in Runs : Holding(p, e) /\ Holding(q, e) => p = q
  BY DEF ClaimIsLock, OneRunAtATime
<1>3. ASSUME NEW q \in Runs \ {r}, run'[q].step \in HoldingSteps
      PROVE  Holding(q, run'[q].event) /\ run'[q].event \in claimed'
  <2>1. run'[q] = run[q] /\ Holding(q, run[q].event)
    BY <1>3 DEF Others, Holding
  <2>2. run[q].event \in claimed /\ run[q].event \in Events
    BY <1>1, <1>3, <2>1
  <2>3. ~Holding(r, run[q].event)
    BY <1>2, <2>1, <2>2
  <2> QED BY <2>1, <2>2, <2>3
<1>4. \A q \in Runs : run'[q].step \in HoldingSteps => run'[q].event \in claimed'
  BY <1>1, <1>3 DEF Holding
<1>5. ASSUME NEW e \in Events, NEW p \in Runs, NEW q \in Runs, Holding(p, e)', Holding(q, e)'
      PROVE  p = q
  <2> SUFFICES ASSUME p # q PROVE FALSE
    OBVIOUS
  <2>1. ASSUME NEW s \in Runs \ {r}, Holding(s, e)' PROVE Holding(s, e) /\ e \in claimed
    BY <1>1, <1>3, <2>1 DEF Holding, Others
  <2>2. CASE p # r /\ q # r
    BY <1>2, <1>5, <2>1, <2>2
  <2>3. ASSUME NEW s \in Runs \ {r}, Holding(s, e)', Holding(r, e)' PROVE FALSE
    <3>1. Holding(s, e) /\ e \in claimed
      BY <2>1, <2>3
    <3>2. Holding(r, e)
      BY <2>3, <3>1 DEF Holding
    <3> QED BY <1>2, <3>1, <3>2
  <2> QED BY <1>5, <2>2, <2>3
<1> QED BY <1>4, <1>5 DEF ClaimIsLock, OneRunAtATime

\* Every step of the consumer keeps the invariant.
LEMMA ConsumerStep == ConsumerInv /\ [MessagingNext]_messageVars => ConsumerInv'
<1> SUFFICES ASSUME ConsumerInv, [MessagingNext]_messageVars PROVE ConsumerInv'
  OBVIOUS
<1> DEFINE Touching(r) ==
      \/ Claim(r) \/ HandlerCompletes(r) \/ Ack(r) \/ Release(r) \/ Requeue(r)
      \/ HandlerThrows(r) \/ StoreFails(r) \/ \E e \in Events : Deliver(r, e)
<1>1. CASE UNCHANGED <<run, handled, claimed>> /\ happened \subseteq happened'
  BY <1>1, ConsumerUntouched
<1>2. ASSUME NEW r \in Runs, Touching(r) PROVE ConsumerInv'
  <2>0. RunsTyped /\ \A e \in Events : e # 0
    BY DEF ConsumerInv
  <2> USE <2>0 DEF ConsumerInv, RunsTyped, Others, SameDelivery, FreeRun
  <2>1. CASE Claim(r)
    <3>0. /\ Others(r) /\ run[r].step = "claim" /\ run[r].event \in Events
          /\ \/ run[r].event \in claimed /\ run'[r] = FreeRun
             \/ run[r].event \notin claimed /\ SameDelivery(r) /\ run'[r].step = "handle"
          /\ claimed' = claimed \cup {run[r].event} /\ UNCHANGED <<handled, happened>>
      BY <2>1, RunsAfter DEF Claim, At, Steps, faultVars
    <3>1. RunsTyped'
      <4>1. run'[r].step # "free" => run'[r].event \in Events
        BY <3>0
      <4>2. claimed' \in SUBSET Events
        BY <3>0
      <4> QED BY <3>0, <4>1, <4>2
    <3>2. ClaimIsLock'
      <4>1. \A e \in claimed \ claimed' : Holding(r, e)
        BY <3>0 DEF Holding
      <4>2. run'[r].step \in HoldingSteps =>
              \/ Holding(r, run'[r].event) /\ claimed \subseteq claimed'
              \/ run'[r].event \in claimed' \ claimed
        BY <3>0 DEF Holding, HoldingSteps
      <4> QED BY <3>0, <4>1, <4>2, LockKept
    <3>3. AckAfterHandling'
      BY <3>0 DEF AckAfterHandling
    <3>4. NotHandledYet'
      <4>1. \A e \in Events : e \notin claimed' => e \notin claimed
        BY <3>0
      <4>2. \A q \in Runs : run'[q].step \in {"handle", "release"} =>
              \/ q # r /\ run'[q] = run[q]
              \/ q = r /\ run'[q].event = run[r].event /\ run[r].event \notin claimed
        BY <3>0
      <4>3. \A q \in Runs : run'[q].step # "free" => run[q].step # "free" /\ run'[q].live = run[q].live
        BY <3>0
      <4> QED BY <3>0, <4>1, <4>2, <4>3, ZenonT(40) DEF NotHandledYet, HandledOnce, Never
    <3>5. ClaimsAreEarned'
      BY <3>0 DEF ClaimsAreEarned, AckAfterHandling, Holding, Never
    <3> QED BY <3>1, <3>2, <3>3, <3>4, <3>5
  <2>2. CASE HandlerCompletes(r)
    <3>1. /\ Others(r) /\ run[r].step = "handle" /\ run[r].event \in Events
          /\ SameDelivery(r) /\ run'[r].step = "ack" /\ UNCHANGED <<claimed, happened>>
      BY <2>2, RunsAfter DEF HandlerCompletes, At, Steps, faultVars
    <3>2. handled' = [handled EXCEPT ![run[r].event] = @ + 1]
      BY <2>2 DEF HandlerCompletes
    <3>3. /\ handled' \in [Events -> Nat]
          /\ handled'[run[r].event] = handled[run[r].event] + 1
          /\ \A e \in Events : e # run[r].event => handled'[e] = handled[e]
          /\ handled'[run[r].event] > 0
      <4> DEFINE d == run[r].event
      <4>1. d \in Events
        BY <3>1
      <4>2. handled' = [handled EXCEPT ![d] = @ + 1]
        BY <3>2
      <4>3. handled \in [Events -> Nat]
        OBVIOUS
      <4> HIDE DEF d
      <4>4. /\ handled' \in [Events -> Nat] /\ handled'[d] = handled[d] + 1
            /\ \A e \in Events : e # d => handled'[e] = handled[e]
        BY <4>1, <4>2, <4>3
      <4>5. handled'[d] > 0
        BY <4>1, <4>3, <4>4
      <4> QED BY <4>4, <4>5 DEF d
    <3>4. RunsTyped'
      BY <3>1, <3>3
    <3>5. ClaimIsLock'
      <4>1. \A e \in claimed \ claimed' : Holding(r, e)
        BY <3>1 DEF Holding
      <4>2. run'[r].step \in HoldingSteps =>
              \/ Holding(r, run'[r].event) /\ claimed \subseteq claimed'
              \/ run'[r].event \in claimed' \ claimed
        BY <3>1 DEF Holding, HoldingSteps
      <4> QED BY <3>1, <4>1, <4>2, LockKept
    <3>6. AckAfterHandling'
      BY <3>1, <3>3, ZenonT(40) DEF AckAfterHandling
    <3>7. NotHandledYet'
      <4> SUFFICES ASSUME Never("expiry"), Never("channel") PROVE NotHandledYet'
        BY <3>1 DEF NotHandledYet, Never
      <4>1. run[r].event \in claimed /\ handled[run[r].event] = 0
        BY <3>1 DEF NotHandledYet, ClaimIsLock, HoldingSteps
      <4>2. \A q \in Runs : run'[q].step \in {"handle", "release"} =>
              q # r /\ run'[q] = run[q] /\ run[q].event # run[r].event
        BY <3>1 DEF ClaimIsLock, OneRunAtATime, Holding
      <4>3. \A e \in Events : e \notin claimed' => handled'[e] = 0
        BY <3>1, <3>3, <4>1 DEF NotHandledYet
      <4>4. \A q \in Runs : run'[q].step \in {"handle", "release"} => handled'[run'[q].event] = 0
        BY <3>3, <4>2, ZenonT(40) DEF NotHandledYet
      <4>5. HandledOnce'
        BY <3>3, <4>1 DEF NotHandledYet, HandledOnce
      <4>6. \A q \in Runs : run'[q].step # "free" => run'[q].live
        BY <3>1 DEF NotHandledYet
      <4> QED BY <4>3, <4>4, <4>5, <4>6 DEF NotHandledYet
    <3>8. ClaimsAreEarned'
      BY <3>1, <3>3 DEF ClaimsAreEarned, AckAfterHandling, Holding, Never
    <3> QED BY <3>4, <3>5, <3>6, <3>7, <3>8
  <2>3. CASE Ack(r)
    <3>0. /\ Others(r) /\ run[r].step = "ack" /\ run[r].event \in Events
          /\ \/ run'[r] = FreeRun
             \/ ~run[r].live /\ SameDelivery(r) /\ run'[r].step \in {"handle", "release"}
          /\ UNCHANGED <<handled, claimed, happened>>
      BY <2>3, RunsAfter DEF Ack, At, faultVars
    <3>1. RunsTyped'
      BY <3>0
    <3>2. ClaimIsLock'
      <4>1. \A e \in claimed \ claimed' : Holding(r, e)
        BY <3>0 DEF Holding
      <4>2. run'[r].step \in HoldingSteps =>
              \/ Holding(r, run'[r].event) /\ claimed \subseteq claimed'
              \/ run'[r].event \in claimed' \ claimed
        BY <3>0 DEF Holding, HoldingSteps
      <4> QED BY <3>0, <4>1, <4>2, LockKept
    <3>3. AckAfterHandling'
      BY <3>0 DEF AckAfterHandling
    <3>4. NotHandledYet'
      BY <3>0 DEF NotHandledYet, HandledOnce, ClaimIsLock, OneRunAtATime, Holding, HoldingSteps, Never
    <3>5. ClaimsAreEarned'
      BY <3>0 DEF ClaimsAreEarned, AckAfterHandling, Holding, Never
    <3> QED BY <3>1, <3>2, <3>3, <3>4, <3>5
  <2>4. CASE Release(r)
    <3>0. /\ Others(r) /\ run[r].step = "release" /\ run[r].event \in Events
          /\ \/ run'[r] = FreeRun
             \/ SameDelivery(r) /\ run'[r].step = "requeue"
          /\ UNCHANGED <<handled, happened>>
      <4>1. CASE run[r].live
        BY <2>4, <4>1, RunsAfter DEF Release, At, faultVars
      <4>2. CASE ~run[r].live
        BY <2>4, <4>2, RunsAfter DEF Release, At, faultVars, Steps
      <4> QED BY <4>1, <4>2
    <3>a. \A e \in Events : e \in claimed' <=> e \in claimed /\ e # run[r].event
      BY <2>4 DEF Release
    <3>1. RunsTyped'
      <4>1. claimed' \in SUBSET Events
        BY <2>4 DEF Release
      <4>2. run'[r].step # "free" => run'[r].event \in Events
        BY <3>0
      <4> QED BY <3>0, <4>1, <4>2
    <3>2. ClaimIsLock'
      <4>1. \A e \in claimed \ claimed' : Holding(r, e)
        BY <3>0, <3>a DEF Holding
      <4>2. run'[r].step \in HoldingSteps =>
              \/ Holding(r, run'[r].event) /\ claimed \subseteq claimed'
              \/ run'[r].event \in claimed' \ claimed
        BY <3>0, <3>a DEF Holding, HoldingSteps
      <4> QED BY <3>0, <3>a, <4>1, <4>2, LockKept
    <3>3. AckAfterHandling'
      BY <3>0, <3>a DEF AckAfterHandling
    <3>4. NotHandledYet'
      BY <3>0, <3>a DEF NotHandledYet, HandledOnce, ClaimIsLock, OneRunAtATime, Holding, HoldingSteps, Never
    <3>5. ClaimsAreEarned'
      <4> SUFFICES ASSUME Never("consumer"), Never("store"), NEW e \in claimed'
                   PROVE  handled'[e] > 0 \/ \E q \in Runs : Holding(q, e)'
        BY <3>0 DEF ClaimsAreEarned, Never
      <4>1. e \in claimed /\ e # run[r].event
        BY <2>4 DEF Release
      <4>2. \A q \in Runs : Holding(q, e) => Holding(q, e)'
        BY <3>0, <4>1 DEF Holding
      <4> QED BY <3>0, <4>1, <4>2 DEF ClaimsAreEarned
    <3> QED BY <3>1, <3>2, <3>3, <3>4, <3>5
  <2>5. CASE Requeue(r)
    <3>0. /\ Others(r) /\ run[r].step = "requeue" /\ run'[r] = FreeRun
          /\ UNCHANGED <<handled, claimed, happened>>
      BY <2>5, RunsAfter DEF Requeue, At, faultVars
    <3>1. RunsTyped'
      BY <3>0
    <3>2. ClaimIsLock'
      <4>1. \A e \in claimed \ claimed' : Holding(r, e)
        BY <3>0 DEF Holding
      <4>2. run'[r].step \in HoldingSteps =>
              \/ Holding(r, run'[r].event) /\ claimed \subseteq claimed'
              \/ run'[r].event \in claimed' \ claimed
        BY <3>0 DEF Holding, HoldingSteps
      <4> QED BY <3>0, <4>1, <4>2, LockKept
    <3>3. AckAfterHandling'
      BY <3>0 DEF AckAfterHandling
    <3>4. NotHandledYet'
      BY <3>0 DEF NotHandledYet, HandledOnce, ClaimIsLock, OneRunAtATime, Holding, HoldingSteps, Never
    <3>5. ClaimsAreEarned'
      BY <3>0 DEF ClaimsAreEarned, AckAfterHandling, Holding, Never
    <3> QED BY <3>1, <3>2, <3>3, <3>4, <3>5
  <2>6. CASE HandlerThrows(r)
    <3>0. /\ Others(r) /\ run[r].step = "handle" /\ run[r].event \in Events
          /\ SameDelivery(r) /\ run'[r].step \in {"handle", "release"}
          /\ happened' = happened \cup {"handler"} /\ UNCHANGED <<handled, claimed>>
      BY <2>6, RunsAfter DEF HandlerThrows, At
    <3>1. RunsTyped'
      BY <3>0
    <3>2. ClaimIsLock'
      <4>1. \A e \in claimed \ claimed' : Holding(r, e)
        BY <3>0 DEF Holding
      <4>2. run'[r].step \in HoldingSteps =>
              \/ Holding(r, run'[r].event) /\ claimed \subseteq claimed'
              \/ run'[r].event \in claimed' \ claimed
        BY <3>0 DEF Holding, HoldingSteps
      <4> QED BY <3>0, <4>1, <4>2, LockKept
    <3>3. AckAfterHandling'
      BY <3>0 DEF AckAfterHandling
    <3>4. NotHandledYet'
      BY <3>0 DEF NotHandledYet, HandledOnce, ClaimIsLock, OneRunAtATime, Holding, HoldingSteps, Never
    <3>5. ClaimsAreEarned'
      BY <3>0 DEF ClaimsAreEarned, AckAfterHandling, Holding, Never
    <3> QED BY <3>1, <3>2, <3>3, <3>4, <3>5
  <2>7. CASE StoreFails(r)
    <3>0. /\ Others(r) /\ run[r].step \in {"claim", "release"} /\ run[r].event \in Events
          /\ SameDelivery(r) /\ run'[r].step = "requeue"
          /\ happened' = happened \cup {"store"} /\ UNCHANGED handled
      BY <2>7, RunsAfter DEF StoreFails, Fault, At, Steps
    <3>a. /\ claimed' \in SUBSET Events
          /\ \A e \in Events : e # run[r].event => (e \in claimed' <=> e \in claimed)
          /\ run[r].event \in claimed' \/ run[r].event \notin claimed \/ run[r].step = "release"
      BY <2>7, <3>0 DEF StoreFails, At
    <3>1. RunsTyped'
      BY <3>0, <3>a
    <3>2. ClaimIsLock'
      <4>1. \A e \in claimed \ claimed' : Holding(r, e)
        BY <3>0, <3>a DEF Holding
      <4>2. run'[r].step \in HoldingSteps =>
              \/ Holding(r, run'[r].event) /\ claimed \subseteq claimed'
              \/ run'[r].event \in claimed' \ claimed
        BY <3>0, <3>a DEF Holding, HoldingSteps
      <4> QED BY <3>0, <3>a, <4>1, <4>2, LockKept
    <3>3. AckAfterHandling'
      BY <3>0 DEF AckAfterHandling
    <3>4. NotHandledYet'
      BY <3>0, <3>a DEF NotHandledYet, HandledOnce, Never
    <3>5. ClaimsAreEarned'
      BY <3>0 DEF ClaimsAreEarned, Never
    <3> QED BY <3>1, <3>2, <3>3, <3>4, <3>5
  <2>8. ASSUME NEW e \in Events, Deliver(r, e) PROVE ConsumerInv'
    BY <2>8 DEF Deliver, At, Steps, faultVars, RunStates, ClaimIsLock, AckAfterHandling, NotHandledYet,
       ClaimsAreEarned, OneRunAtATime, HandledOnce, Holding, HoldingSteps, Never
  <2> QED BY <1>2, <2>1, <2>2, <2>3, <2>4, <2>5, <2>6, <2>7, <2>8
<1>3. CASE ChannelLost
  <2>1. /\ \A r \in Runs : run'[r].step = run[r].step /\ run'[r].event = run[r].event
        /\ run' \in [Runs -> RunStates]
        /\ happened' = happened \cup {"channel"} /\ UNCHANGED <<handled, claimed>>
    BY <1>3 DEF ChannelLost, Fault, ConsumerInv, RunsTyped, RunStates
  <2> QED BY <2>1 DEF ConsumerInv, RunsTyped, ClaimIsLock, AckAfterHandling, NotHandledYet,
          ClaimsAreEarned, OneRunAtATime, HandledOnce, Holding, HoldingSteps, Never
<1>4. CASE ConsumerDies
  BY <1>4 DEF ConsumerDies, Fault, ConsumerInv, RunsTyped, RunStates, Steps, ClaimIsLock,
     AckAfterHandling, NotHandledYet, ClaimsAreEarned, OneRunAtATime, HandledOnce, Holding,
     HoldingSteps, Never, FreeRun
<1>5. ASSUME NEW e \in Events, ClaimExpires(e) PROVE ConsumerInv'
  BY <1>5 DEF ClaimExpires, Fault, ConsumerInv, RunsTyped, ClaimIsLock, AckAfterHandling,
     NotHandledYet, ClaimsAreEarned, OneRunAtATime, HandledOnce, Holding, HoldingSteps, Never
<1> QED
  BY <1>1, <1>2, <1>3, <1>4, <1>5 DEF MessagingNext, messageVars, consumerVars, faultVars, Relaying,
     Connecting, Consume, Faulty, Serving, Working, Replay, Commit, Tick, Publish, Buffer,
     MarkPublished, MarkFails, ConnectionLost, Open, Flush, Boot, PublisherDies, Arrive,
     RejectInvalid, Fault

\* Hence it always holds.
LEMMA ConsumerAlways == MessagingSpec => []ConsumerInv
  BY ConsumerInit, ConsumerStep, PTL DEF MessagingSpec

-------------------------------------------------------------------------------
(* What the claim guarantees *)

\* Mutual exclusion: unless a claim expires, the handler never runs for two
\* copies of one event at a time, through crashes, reconnects and replays.
THEOREM ClaimExcludes == MessagingSpec => []OneRunAtATime
<1>1. ConsumerInv => OneRunAtATime
  BY DEF ConsumerInv, ClaimIsLock, OneRunAtATime, Never
<1> QED BY <1>1, ConsumerAlways, PTL

\* Effectively-once: while the consumer keeps its channel and no claim expires,
\* the handler completes at most once per event.
THEOREM EffectivelyOnce == MessagingSpec => []HandledOnce
<1>1. ConsumerInv => HandledOnce
  BY DEF ConsumerInv, NotHandledYet, HandledOnce, Never
<1> QED BY <1>1, ConsumerAlways, PTL

\* Without a crash of the consumer or of Redis, a claim belongs to a run under
\* way or to an event that was handled: replayed dead letters are reprocessed.
THEOREM NoIdleClaims == MessagingSpec => []ClaimsAreEarned
<1>1. ConsumerInv => ClaimsAreEarned
  BY DEF ConsumerInv
<1> QED BY <1>1, ConsumerAlways, PTL
===============================================================================
