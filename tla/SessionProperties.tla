-------------------------- MODULE SessionProperties ---------------------------
(* What sign-in promises although nothing serialises the requests of a family, *)
(* and what a page does with the access tokens that come of it.                *)
EXTENDS Session, PageAccess

Usable(k) == ~tokens[k].rotated /\ tokens[k].dead # "revoked"

\* A refresh token is single-use: a family that no two requests worked on at
\* once never has two tokens that could still be presented.
OneUsableToken ==
  \A j, k \in DOMAIN tokens :
    (/\ tokens[j].family = tokens[k].family
     /\ tokens[j].family \notin raced
     /\ Usable(j) /\ Usable(k)) => j = k

\* Reuse and logout take the whole family down, never a part of it.
FamilyFallsTogether ==
  \A j, k \in DOMAIN tokens :
    (/\ tokens[j].family = tokens[k].family
     /\ tokens[j].family \notin raced
     /\ tokens[j].dead = "revoked") => tokens[k].dead = "revoked"

\* "Presenting an already-rotated token means it leaked (or a race) - the whole
\* family is revoked, forcing a fresh login on every device holding that chain":
\* a family that is down stays down, also when a request is under way in it.
RevokedForGood ==
  [][\A f \in 1 .. MaxTokens :
       (Members(f) # {} /\ \A k \in Members(f) : tokens[k].dead = "revoked")
         => \A k \in Members(f)' : tokens'[k].dead = "revoked"]_vars

\* Presenting a rotated token signs every device of the family out.  What the
\* jar holds between requests is therefore not rotated, however the answers of
\* two tabs overtook each other: only a lost answer or a failed call leaves the
\* browser with a token it must not use.
CookieIsFresh ==
  (/\ \A t \in Tabs : step[t] = "idle"
   /\ faults = 0
   /\ cookie # 0) => ~tokens[cookie].rotated

\* A page that runs never holds a token that has expired, although the timer
\* counts from the answer and the renewal takes its time: unless it slept through
\* one.
TokenIsFresh == awake /\ status = "authenticated" /\ ~late => Valid(token)

\* Whatever sign-ins, renewals and failures cross, a session always has a renewal
\* ahead of it: it ends in a new token or in "anonymous", never in silence.
RenewalIsComing == status = "authenticated" => timer # None \/ ~Quiet("refresh")

\* A socket is refused its token only after such a sleep; and by then the renewal
\* that will replace it is due or under way.
RefusalIsExplained == link.at = "unauthorized" => late /\ (timer # None \/ ~Quiet("refresh"))

\* Who signs out, while nothing else is under way, stays signed out: in this page
\* whatever becomes of the request, after a reload if it succeeded.
SignedOutStaysOut == leaving => status # "authenticated"

\* What a page that keeps its token in memory owes its user
\* (auth-context.tsx:41-42, :56-91, :106-109).
PageIsServed ==
  TokenIsFresh /\ RenewalIsComing /\ RefusalIsExplained /\ SignedOutStaysOut
===============================================================================
