-------------------------------- MODULE Breaker -------------------------------
(* The circuit breaker in front of a foreign service, with the calls that pass *)
(* it: pictures from multiavatar (AvatarService), metadata from YouTube        *)
(* (YoutubeMetadataProvider behind AddVideoUseCase).                           *)
EXTENDS Integers, FiniteSets

CONSTANTS
  Callers,      \* requests that may be at the breaker at once
  Threshold,    \* failureThreshold
  OpenFor,      \* openMs
  FetchTimeout, \* AbortSignal.timeout of the call itself
  MaxInstant    \* bound: ticks

\* 3 s and 5 s of a cool-down of 30 s.
ASSUME BreakerAssumption ==
  /\ {OpenFor, FetchTimeout, MaxInstant} \subseteq Nat /\ Threshold \in Nat \ {0}
  /\ FetchTimeout < OpenFor

VARIABLES
  instant,
  caller,       \* [at, since, probes]
  breaker       \* [state, failures, openedAt, probe]

breakerVars == <<instant, caller, breaker>>

Instants == 0 .. MaxInstant
Idle     == [at |-> "idle", since |-> 0, probes |-> FALSE]

BreakerTypeOK ==
  /\ instant \in Instants
  /\ caller \in [Callers -> [at : {"idle", "missed", "fetching"}, since : Instants, probes : BOOLEAN]]
  /\ breaker \in [state : {"closed", "open", "half-open"}, failures : 0 .. Threshold - 1,
                  openedAt : Instants, probe : BOOLEAN]

BreakerInit ==
  /\ instant = 0
  /\ caller = [c \in Callers |-> Idle]
  /\ breaker = [state |-> "closed", failures |-> 0, openedAt |-> 0, probe |-> FALSE]

-------------------------------------------------------------------------------
Done(c) == caller' = [caller EXCEPT ![c] = Idle]

\* The cache (Redis, the table of videos) does not know the answer, or fails.
\* A hit never comes near the breaker.
Miss(c) ==
  /\ caller[c].at = "idle"
  /\ caller' = [caller EXCEPT ![c].at = "missed"]
  /\ UNCHANGED <<instant, breaker>>

Cooling == breaker.state = "open" /\ instant - breaker.openedAt < OpenFor
Probing == breaker.state = "half-open" /\ breaker.probe

\* execute refuses: the picture is drawn here, the video is refused.
FailFast(c) ==
  /\ caller[c].at = "missed"
  /\ Cooling \/ Probing
  /\ Done(c)
  /\ UNCHANGED <<instant, breaker>>

\* execute lets the call through, as a probe unless the circuit is closed.
Call(c) ==
  /\ caller[c].at = "missed"
  /\ ~Cooling /\ ~Probing
  /\ breaker' = IF breaker.state = "closed" THEN breaker
                ELSE [breaker EXCEPT !.state = "half-open", !.probe = TRUE]
  /\ caller' = [caller EXCEPT ![c] = [at |-> "fetching", since |-> instant,
                                      probes |-> breaker.state # "closed"]]
  /\ UNCHANGED instant

Trip == breaker' = [state |-> "open", failures |-> 0, openedAt |-> instant, probe |-> FALSE]

OnSuccess ==
  breaker' = [breaker EXCEPT !.state = "closed", !.failures = 0, !.probe = FALSE]

\* In half-open a failure is counted like any other.
CountFailure ==
  IF breaker.failures + 1 >= Threshold THEN Trip
  ELSE breaker' = [breaker EXCEPT !.failures = @ + 1]

OnFailure ==
  \/ breaker.state = "half-open" /\ Trip
  \/ /\ breaker.state # "half-open"
     /\ IF breaker.failures + 1 >= Threshold THEN Trip
        ELSE breaker' = [breaker EXCEPT !.failures = @ + 1]

\* The answer is there, also the answer that there is no such video.
FetchSucceeds(c) ==
  /\ caller[c].at = "fetching"
  /\ OnSuccess /\ Done(c)
  /\ UNCHANGED instant

\* An error status, something that is no picture or no video, or the timeout.
FetchFails(c) ==
  /\ caller[c].at = "fetching"
  /\ OnFailure /\ Done(c)
  /\ UNCHANGED instant

\* A fetch is aborted before its time is over.
MayTick == \A c \in Callers :
  caller[c].at = "fetching" => instant < caller[c].since + FetchTimeout

TimePasses ==
  /\ instant < MaxInstant
  /\ MayTick
  /\ instant' = instant + 1
  /\ UNCHANGED <<caller, breaker>>

BreakerNext ==
  \/ TimePasses
  \/ \E c \in Callers : Miss(c) \/ FailFast(c) \/ Call(c) \/ FetchSucceeds(c) \/ FetchFails(c)

BreakerSpec == BreakerInit /\ [][BreakerNext]_breakerVars
===============================================================================
