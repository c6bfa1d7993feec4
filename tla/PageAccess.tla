------------------------------ MODULE PageAccess ------------------------------
(* How one page keeps its access token fresh, and what the token opens: the    *)
(* session of AuthProvider, which lives in memory and is renewed by a timer,   *)
(* and the socket of the room page, which a token opens once.  (Session has    *)
(* what becomes of the refresh tokens.)                                        *)
EXTENDS Integers, FiniteSetsExt

CONSTANTS
  Lifetime,     \* of an access token
  Margin,       \* REFRESH_MARGIN_SEC
  Soonest,      \* the shortest delay of the timer
  OneWay,       \* bound: ticks a request and its answer take, while the page runs
  MaxClock,     \* bound: ticks
  MaxCuts       \* bound: connections cut, handshakes shed

\* 15 minutes, a minute, five seconds: a renewal fits into the margin twice.
ASSUME PageAccessAssumption ==
  /\ {Lifetime, Margin, Soonest, OneWay, MaxClock, MaxCuts} \subseteq Nat
  /\ 2 * OneWay < Margin /\ Soonest <= Lifetime - Margin

VARIABLES
  clock,
  awake,        \* FALSE: the laptop sleeps, and with it timers and answers
  status,       \* "loading", "authenticated", "anonymous"
  token,        \* the accessToken: the clock at which it expires, or None
  timer,        \* refreshTimer: when it fires, or None
  call,         \* the /auth request of each kind: [at, since, token]
  jar,          \* whether the browser has a refresh cookie that works
  link,         \* the socket: [at, token]
  cuts,
  late,         \* auxiliary: whether the page slept through a renewal
  leaving       \* auxiliary: whether the user has signed out, and nothing raced it

accountVars == <<status, token, timer, late>>
accessVars  == <<clock, awake, accountVars, call, jar, link, cuts, leaving>>

None     == 0
Calls    == {"refresh", "login", "logout"}
NoCall   == [at |-> "none", since |-> 0, token |-> None]
NoLink   == [at |-> "none", token |-> None]
Quiet(k) == call[k].at = "none"
Valid(t) == clock < t

Asking(k) == [call EXCEPT ![k] = [at |-> "asked", since |-> clock, token |-> None]]

AccessInit ==
  /\ clock = 1 /\ awake = TRUE
  /\ status = "loading" /\ token = None /\ timer = None
  /\ call = [k \in Calls |-> IF k = "refresh" THEN [NoCall EXCEPT !.at = "asked", !.since = 1]
                                              ELSE NoCall]
  /\ jar \in BOOLEAN /\ link = NoLink
  /\ cuts = 0 /\ late = FALSE /\ leaving = FALSE

-------------------------------------------------------------------------------
(* The session in memory *)

\* The effect of the room page: a token gone closes its socket, a new one opens one.
OpenSocket(t) == link' = IF t = None THEN NoLink ELSE [at |-> "connecting", token |-> t]

\* Mutant of Delay: the timer runs as long as the token.
DelayToTheEnd == Lifetime

Delay == Max({Soonest, Lifetime - Margin})

\* The timer counts from the answer, the token from when it was issued.
ApplySession(t) ==
  /\ status' = "authenticated" /\ token' = t /\ OpenSocket(t)
  /\ timer' = clock + Delay
  /\ late' = (t < clock + Lifetime - OneWay)

ClearSession ==
  /\ status' = "anonymous" /\ token' = None /\ OpenSocket(None)
  /\ timer' = None /\ late' = FALSE

\* The page loads: the token is gone, and the cookie is tried, unless a request
\* that is abandoned has used it up.
LoadPage ==
  /\ awake
  /\ status' = "loading" /\ token' = None /\ timer' = None /\ late' = FALSE /\ OpenSocket(None)
  /\ call' = [k \in Calls |-> IF k = "refresh" THEN Asking(k)[k] ELSE NoCall]
  /\ jar' \in IF \A k \in Calls : Quiet(k) THEN {jar} ELSE {jar, FALSE}
  /\ leaving' = (leaving /\ ~jar')
  /\ UNCHANGED <<clock, awake, cuts>>

RenewalDue ==
  /\ awake /\ timer # None /\ timer <= clock /\ Quiet("refresh")
  /\ call' = Asking("refresh") /\ timer' = None
  /\ UNCHANGED <<clock, awake, status, token, late, jar, link, cuts, leaving>>

\* Guests, and who clicks before the page has loaded its session.
AskIn ==
  /\ awake /\ status # "authenticated" /\ Quiet("login")
  /\ call' = Asking("login") /\ leaving' = FALSE
  /\ UNCHANGED <<clock, awake, accountVars, jar, link, cuts>>

AskOut ==
  /\ awake /\ status = "authenticated" /\ Quiet("logout")
  /\ call' = Asking("logout")
  /\ UNCHANGED <<clock, awake, accountVars, jar, link, cuts, leaving>>

\* Identity issues a token.
IssueAccess(k) ==
  /\ k # "logout" /\ call[k].at = "asked" /\ (k = "refresh" => jar)
  /\ call' = [call EXCEPT ![k].at = "answered", ![k].token = clock + Lifetime]
  /\ UNCHANGED <<clock, awake, accountVars, jar, link, cuts, leaving>>

\* The answer, and with it the cookie.
Granted(k) ==
  /\ awake /\ call[k].at = "answered"
  /\ ApplySession(call[k].token) /\ jar' = TRUE
  /\ call' = [call EXCEPT ![k] = NoCall]
  /\ UNCHANGED <<clock, awake, cuts, leaving>>

\* The catch of silentRefresh: a network error is no better than a refusal, only
\* that it leaves the cookie.
RefreshFails ==
  /\ awake /\ ~Quiet("refresh")
  /\ ClearSession
  /\ jar' \in {jar, FALSE}
  /\ call' = [call EXCEPT !["refresh"] = NoCall]
  /\ UNCHANGED <<clock, awake, cuts, leaving>>

\* The form shows why.
LoginFails ==
  /\ awake /\ ~Quiet("login")
  /\ call' = [call EXCEPT !["login"] = NoCall]
  /\ UNCHANGED <<clock, awake, accountVars, jar, link, cuts, leaving>>

\* The session is cleared whether the request succeeded or not.
SignedOut ==
  /\ awake /\ ~Quiet("logout")
  /\ ClearSession
  /\ jar' \in {jar, FALSE}
  /\ call' = [call EXCEPT !["logout"] = NoCall]
  /\ leaving' = (Quiet("refresh") /\ Quiet("login"))
  /\ UNCHANGED <<clock, awake, cuts>>

-------------------------------------------------------------------------------
(* The socket of the room page *)

Admit(at) ==
  /\ awake /\ link.at = "connecting" /\ link' = [link EXCEPT !.at = at]
  /\ UNCHANGED <<clock, awake, accountVars, call, jar, leaving>>

\* The middleware of the namespace, before the socket is accepted; afterwards
\* nobody looks at the token again.
Handshake == Admit(IF Valid(link.token) THEN "connected" ELSE "unauthorized") /\ UNCHANGED cuts

\* The namespace has its MAX_CONNECTIONS.
Shed == Admit("server_full") /\ cuts < MaxCuts /\ cuts' = cuts + 1

\* A cut is repaired with the same token; a refusal is final.
Cut ==
  /\ link.at = "connected" /\ link' = [link EXCEPT !.at = "connecting"]
  /\ cuts < MaxCuts /\ cuts' = cuts + 1
  /\ UNCHANGED <<clock, awake, accountVars, call, jar, leaving>>

-------------------------------------------------------------------------------
(* Time *)

Sleep ==
  /\ awake /\ awake' = FALSE
  /\ UNCHANGED <<clock, accountVars, call, jar, link, cuts, leaving>>

Wake ==
  /\ ~awake /\ awake' = TRUE
  /\ late' = (late \/ ~Quiet("refresh") \/ (timer # None /\ timer < clock))
  /\ UNCHANGED <<clock, status, token, timer, call, jar, link, cuts, leaving>>

Punctual ==
  /\ timer # None => clock < timer
  /\ \A k \in Calls : ~Quiet(k) => clock < call[k].since + OneWay

ClockTicks ==
  /\ clock < MaxClock /\ (awake => Punctual)
  /\ clock' = clock + 1
  /\ UNCHANGED <<awake, accountVars, call, jar, link, cuts, leaving>>

AccessNext ==
  \/ LoadPage \/ RenewalDue \/ AskIn \/ AskOut
  \/ \E k \in Calls : IssueAccess(k) \/ Granted(k)
  \/ RefreshFails \/ LoginFails \/ SignedOut
  \/ Handshake \/ Shed \/ Cut
  \/ Sleep \/ Wake \/ ClockTicks

AccessSpec == AccessInit /\ [][AccessNext]_accessVars
===============================================================================
