------------------------------- MODULE RoomSearch ------------------------------
(* The search field in the header of every page: what is typed goes, after a   *)
(* pause of 300 ms, into the q of the home page's URL, and what is in the URL  *)
(* goes back into the field; the router takes its time over each navigation.   *)
EXTENDS Naturals

CONSTANTS
  Words,        \* what may be typed or linked to
  Padded,       \* the same with a space around: what the field says before trim
  MaxTyped      \* bound: changes of the field, and steps back

NoText == "none"

\* NoText is no text, and what has a space around is neither a word nor empty.
ASSUME RoomSearchAssumption ==
  /\ DOMAIN Padded = Words /\ MaxTyped \in Nat /\ NoText \notin Words
  /\ \A w \in Words : Padded[w] \notin Words \cup {"", NoText}

VARIABLES
  field,        \* value of SearchInput
  debounce,     \* the text its timer was set for, or NoText
  q,            \* the URL's q; "" without one
  atHome,       \* whether the page is the home page
  going,        \* the q that the router is on its way to, or NoText
  wanted,       \* auxiliary: the search that was asked for last and not given up
  stuck,        \* auxiliary: the field says what a navigation given up would have searched
  typed

searchVars == <<field, debounce, q, atHome, going, wanted, stuck, typed>>

Texts == {""} \cup Words \cup {Padded[w] : w \in Words}

Trim(text) == IF \E w \in Words : text = Padded[w]
              THEN CHOOSE w \in Words : text = Padded[w] ELSE text

\* Any page may be opened by a shared link, with a q or without.
SearchInit ==
  /\ atHome \in BOOLEAN
  /\ q \in {""} \cup Words /\ (~atHome => q = "")
  /\ field = q /\ wanted = q
  /\ debounce = NoText /\ going = NoText /\ stuck = FALSE /\ typed = 0

\* A new timer in place of the one that is running.
OnChange(text) ==
  /\ typed < MaxTyped /\ typed' = typed + 1
  /\ text # field /\ field' = text
  /\ debounce' = text
  /\ wanted' = Trim(text) /\ stuck' = FALSE
  /\ UNCHANGED <<q, atHome, going>>

\* router.replace or push: a navigation under way gives way to the new one.
DebounceEnds ==
  /\ debounce # NoText /\ debounce' = NoText
  /\ going' = Trim(debounce)
  /\ UNCHANGED <<field, q, atHome, wanted, stuck, typed>>

\* The user goes back or forward, or follows the wordmark home; a timer that is
\* running is let run, and wins if it ends in time.
GoElsewhere(text) ==
  /\ typed < MaxTyped /\ typed' = typed + 1
  /\ going' = text /\ wanted' = IF debounce = NoText THEN text ELSE wanted
  /\ UNCHANGED <<field, debounce, q, atHome, stuck>>

\* Another page mounts its own field, and the old one's timer is cleared; on the
\* home page the effect copies a q that has changed.
Arrive ==
  /\ going # NoText /\ going' = NoText
  /\ q' = going /\ atHome' = TRUE
  /\ field' = IF atHome /\ going = q THEN field ELSE going
  /\ debounce' = IF atHome THEN debounce ELSE NoText
  /\ wanted' = IF atHome \/ debounce = NoText THEN wanted ELSE going
  /\ stuck' = (atHome /\ going = q /\ debounce = NoText /\ Trim(field) # q)
  /\ UNCHANGED typed

SearchNext ==
  \/ \E text \in Texts : OnChange(text)
  \/ \E text \in {""} \cup Words : GoElsewhere(text)
  \/ DebounceEnds \/ Arrive

SearchSpec == SearchInit /\ [][SearchNext]_searchVars
===============================================================================
