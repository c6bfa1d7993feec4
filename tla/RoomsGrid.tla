------------------------------- MODULE RoomsGrid ------------------------------
(* The directory on the home page: an infinite query that walks the room cards *)
(* by keyset cursor, newest first, while rooms are created, and walks them     *)
(* again every 30 seconds.                                                     *)
EXTENDS Integers, FiniteSets, SequencesExt

CONSTANTS
  Rooms,        \* room ids, ordered as their uuids are
  Stamps,       \* values of created_at: clocks of several instances, so any order
  Limit,        \* cards on a page
  MaxPages      \* bound: pages the grid asks for

ASSUME RoomsGridAssumption ==
  Rooms \subseteq Nat /\ Stamps \subseteq Nat /\ {Limit, MaxPages} \subseteq Nat \ {0}

VARIABLES
  created,      \* room_cards.created_at of the rooms that exist
  pages,        \* query.data.pages: their items, how many, and the last one's nextCursor
  fetch,        \* the fetch under way: [kind, pages, known]
  failed,       \* query.isError
  known         \* auxiliary: rooms that existed when the first page was read

gridVars == <<created, pages, fetch, failed, known>>

End     == [at |-> -1, id |-> -1]
NoPages == [items |-> <<>>, count |-> 0, next |-> End]
NoFetch == [kind |-> "none", pages |-> NoPages, known |-> {}]
Listed  == DOMAIN created

GridTypeOK ==
  /\ Listed \subseteq Rooms /\ \A r \in Listed : created[r] \in Stamps
  /\ pages.count <= MaxPages /\ known \subseteq Listed /\ failed \in BOOLEAN
  /\ fetch.kind \in {"none", "all", "next"}

GridInit ==
  /\ created = [r \in {} |-> 0]
  /\ pages = NoPages /\ known = {} /\ failed = FALSE
  /\ fetch = [NoFetch EXCEPT !.kind = "all"]

-------------------------------------------------------------------------------
(* The rooms service *)

\* Room and card, born in one transaction that commits when it does.
CreateRoom(r) ==
  /\ r \notin Listed
  /\ \E t \in Stamps : created' = [q \in Listed \cup {r} |-> IF q = r THEN t ELSE created[q]]
  /\ UNCHANGED <<pages, fetch, failed, known>>

\* orderBy createdAt desc, roomId desc.
Before(a, b) == a.at > b.at \/ (a.at = b.at /\ a.id > b.id)
Key(r)       == [at |-> created[r], id |-> r]

\* A cursor of createdAt alone.
AfterStamp(r, cursor) == cursor = End \/ created[r] < cursor.at

\* where: strictly after the cursor, and everything where there is none.
After(r, cursor) == cursor = End \/ Before(cursor, Key(r))

\* The first rows of some rooms, in order.
FirstRows(some, n) ==
  {rows \in [1 .. n -> some] :
     /\ \A i, j \in 1 .. n : i < j => Before(Key(rows[i]), Key(rows[j]))
     /\ \A r \in some \ Range(rows) : \A i \in 1 .. n : Before(Key(rows[i]), Key(r))}

\* take limit + 1: one more, to know whether there is a next page.
NextPage(read) ==
  LET some == {r \in Listed : After(r, read.next)}
      more == Cardinality(some) > Limit
      n    == IF more THEN Limit ELSE Cardinality(some)
  IN {[items |-> read.items \o rows, count |-> read.count + 1,
       next  |-> IF more THEN Key(rows[n]) ELSE End] : rows \in FirstRows(some, n)}

-------------------------------------------------------------------------------
(* The grid *)

\* Refetching reads as many pages as there are, one after the other, each with
\* the cursor of the one before, and shows them all at once.
ReadPage ==
  LET seen == IF fetch.pages = NoPages THEN Listed ELSE fetch.known IN
  /\ fetch.kind = "all"
  /\ \E read \in NextPage(fetch.pages) :
       IF read.count < pages.count /\ read.next # End
       THEN /\ fetch' = [fetch EXCEPT !.pages = read, !.known = seen]
            /\ UNCHANGED <<pages, failed, known>>
       ELSE /\ pages' = read /\ known' = seen /\ failed' = FALSE
            /\ fetch' = NoFetch
  /\ UNCHANGED created

Refetch ==
  /\ fetch = NoFetch
  /\ fetch' = [NoFetch EXCEPT !.kind = "all"]
  /\ UNCHANGED <<created, pages, failed, known>>

\* The sentinel comes into view: a refetch that is under way is abandoned.
FetchNextPage ==
  /\ fetch.kind # "next" /\ ~failed
  /\ pages.next # End /\ pages.count < MaxPages
  /\ fetch' = [NoFetch EXCEPT !.kind = "next"]
  /\ UNCHANGED <<created, pages, failed, known>>

ReadNextPage ==
  /\ fetch.kind = "next"
  /\ pages' \in NextPage(pages)
  /\ fetch' = NoFetch /\ failed' = FALSE
  /\ UNCHANGED <<created, known>>

\* Both attempts fail: the grid gives way to "unreachable", the pages are kept.
FetchFails ==
  /\ fetch # NoFetch
  /\ fetch' = NoFetch /\ failed' = TRUE
  /\ UNCHANGED <<created, pages, known>>

GridNext ==
  \/ \E r \in Rooms : CreateRoom(r)
  \/ Refetch \/ ReadPage \/ FetchNextPage \/ ReadNextPage \/ FetchFails

GridSpec == GridInit /\ [][GridNext]_gridVars

-------------------------------------------------------------------------------
(* What it shows *)

Cards == pages.items

Screen ==
  CASE pages = NoPages /\ fetch # NoFetch -> "skeletons"
    [] failed                          -> "unreachable"
    [] ~failed /\ Cards = <<>>         -> "be the one who opens the first channel"
    [] OTHER                           -> "rooms"
===============================================================================
