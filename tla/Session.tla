------------------------------- MODULE Session --------------------------------
(* Accounts and sign-in sessions: the tabs of one browser, which share a       *)
(* cookie jar, the gateway's /auth routes, and the identity service with its   *)
(* users and its families of refresh tokens.  One step is one awaited call.    *)
(* The domain events identity writes with its rows travel as Messaging says.   *)
EXTENDS Integers, Sequences, FiniteSets

CONSTANTS
  Tabs,         \* pages of one browser
  Emails,       \* accounts, by normalised e-mail
  Nicknames,
  MaxTokens,    \* bound: refresh tokens ever issued
  MaxFaults     \* bound: failed calls, lost answers and tokens that expire

ASSUME SessionAssumption ==
  /\ MaxTokens \in Nat \ {0} /\ MaxFaults \in Nat
  /\ Emails \cap {"loading", "anonymous", "none"} = {}
  /\ "none" \notin Nicknames

VARIABLES
  users,    \* table users: rows [email, nickname]
  tokens,   \* table refresh_tokens: rows in the order of their creation
  cookie,   \* lilo_rt in the jar: a token's number, 0 for none
  page,     \* auth-context of a tab: loading, anonymous or the account signed in
  step,     \* where the tab's request is
  req,      \* what it carries
  faults,
  raced     \* auxiliary: families two requests worked on at once

vars == <<users, tokens, cookie, page, step, req, faults, raced>>

Steps == {"idle", "byEmail", "byNickname", "create", "update", "verify",
          "find", "revoke", "rotate", "issue", "answer"}
Rows  == [email : Emails, nickname : Nicknames]

\* expiresAt and revokedAt both end a token; only revocation is asked about.
Token == [owner : Emails, family : Nat, rotated : BOOLEAN, dead : {"no", "expired", "revoked"}]

\* carried: the cookie sent along; body: e-mail and nickname; made: the token
\* issued; outcome: what the answer says.
Request == [op : {"none", "register", "login", "refresh", "logout", "rename"},
            carried : 0 .. MaxTokens,
            body : [email : Emails \cup {"none"}, nickname : Nicknames \cup {"none"}],
            made : 0 .. MaxTokens, outcome : {"ok", "refused", "error"}]
NoRow == [email |-> "none", nickname |-> "none"]
Blank == [op |-> "none", carried |-> 0, body |-> NoRow, made |-> 0, outcome |-> "refused"]

SessionTypeOK ==
  /\ users \in SUBSET Rows
  /\ tokens \in Seq(Token)
  /\ Len(tokens) <= MaxTokens
  /\ cookie \in 0 .. MaxTokens
  /\ page \in [Tabs -> {"loading", "anonymous"} \cup Emails]
  /\ step \in [Tabs -> Steps]
  /\ req \in [Tabs -> Request]
  /\ faults \in 0 .. MaxFaults
  /\ raced \in SUBSET Nat

Init ==
  /\ users = {}
  /\ tokens = <<>>
  /\ cookie = 0
  /\ page = [t \in Tabs |-> "loading"]
  /\ step = [t \in Tabs |-> "idle"]
  /\ req = [t \in Tabs |-> Blank]
  /\ faults = 0
  /\ raced = {}

-------------------------------------------------------------------------------
(* Control of one request *)

Goto(t, here, there) == step[t] = here /\ step' = [step EXCEPT ![t] = there]

\* The service answers now, with this outcome.
Answers(t, here, outcome) ==
  /\ Goto(t, here, "answer")
  /\ req' = [req EXCEPT ![t] = [Blank EXCEPT !.op = req[t].op, !.outcome = outcome]]

Send(t, op, first, body) ==
  /\ Goto(t, "idle", first)
  /\ req' = [req EXCEPT ![t] = [Blank EXCEPT !.op = op, !.body = body, !.carried = cookie]]
  /\ UNCHANGED <<users, tokens, cookie, page, faults, raced>>

Carried(t)  == tokens[req[t].carried]
Body(t)     == req[t].body
Members(f)  == {k \in DOMAIN tokens : tokens[k].family = f}
OnFamily(f) == {t \in Tabs : /\ step[t] \in {"revoke", "rotate", "issue"}
                             /\ req[t].carried # 0 /\ Carried(t).family = f}

-------------------------------------------------------------------------------
(* What the page asks for *)

\* silentRefresh, on load and when the refresh timer fires.  Without a cookie
\* the gateway refuses by itself.
SilentRefresh(t) ==
  /\ page[t] # "anonymous"
  /\ Send(t, "refresh", IF cookie = 0 THEN "answer" ELSE "find", NoRow)

SignUp(t, body) == page[t] = "anonymous" /\ Send(t, "register", "byEmail", body)
SignIn(t, e) ==
  /\ page[t] = "anonymous"
  /\ Send(t, "login", "verify", [NoRow EXCEPT !.email = e])
SignOut(t) ==
  /\ page[t] \in Emails
  /\ Send(t, "logout", IF cookie = 0 THEN "answer" ELSE "find", NoRow)

\* PATCH /users/me: the account is the one in the access token.  Its present
\* nickname is a no-op.
Rename(t, n) ==
  /\ page[t] \in Emails
  /\ \E r \in users : r.email = page[t] /\ r.nickname # n
  /\ Send(t, "rename", "byNickname", [email |-> page[t], nickname |-> n])

\* A reload forgets the page; a request under way is no longer waited for.
Reload(t) ==
  /\ step[t] = "idle" /\ page[t] # "loading"
  /\ page' = [page EXCEPT ![t] = "loading"]
  /\ UNCHANGED <<users, tokens, cookie, step, req, faults, raced>>

-------------------------------------------------------------------------------
(* RegisterUseCase, LoginUseCase, UpdateNicknameUseCase *)

CheckEmail(t) ==
  /\ \/ /\ \E r \in users : r.email = Body(t).email
        /\ Answers(t, "byEmail", "refused")
     \/ /\ \A r \in users : r.email # Body(t).email
        /\ Goto(t, "byEmail", "byNickname") /\ UNCHANGED req
  /\ UNCHANGED <<users, tokens, cookie, page, faults, raced>>

Taken(t) == \E r \in users : r.nickname = Body(t).nickname /\ r.email # Body(t).email

CheckNickname(t) ==
  /\ \/ /\ Taken(t) /\ Answers(t, "byNickname", "refused")
     \/ /\ ~Taken(t) /\ UNCHANGED req
        /\ Goto(t, "byNickname", IF req[t].op = "rename" THEN "update" ELSE "create")
  /\ UNCHANGED <<users, tokens, cookie, page, faults, raced>>

\* The unique columns of table users, besides its key.
UniqueViolation(row, others) ==
  \E r \in others : r.email = row.email \/ r.nickname = row.nickname

CreateUser(t) ==
  /\ \/ /\ UniqueViolation(Body(t), users)
        /\ Answers(t, "create", "refused") /\ UNCHANGED users
     \/ /\ ~UniqueViolation(Body(t), users)
        /\ users' = users \cup {Body(t)}
        /\ Goto(t, "create", "issue") /\ UNCHANGED req
  /\ UNCHANGED <<tokens, cookie, page, faults, raced>>

UpdateUser(t) ==
  LET others == {r \in users : r.email # Body(t).email} IN
  /\ \/ /\ UniqueViolation(Body(t), others)
        /\ Answers(t, "update", "refused") /\ UNCHANGED users
     \/ /\ ~UniqueViolation(Body(t), others)
        /\ users' = others \cup {Body(t)}
        /\ Answers(t, "update", "ok")
  /\ UNCHANGED <<tokens, cookie, page, faults, raced>>

\* An unknown e-mail and a wrong password are refused alike.
Login(t) ==
  /\ \/ Answers(t, "verify", "refused")
     \/ /\ \E r \in users : r.email = Body(t).email
        /\ Goto(t, "verify", "issue") /\ UNCHANGED req
  /\ UNCHANGED <<users, tokens, cookie, page, faults, raced>>

-------------------------------------------------------------------------------
(* RefreshUseCase, LogoutUseCase, TokenIssuer *)

Race(t) ==
  raced' = IF OnFamily(Carried(t).family) \ {t} = {} THEN raced
           ELSE raced \cup {Carried(t).family}

\* findByTokenHash and the verdict on the record it returned.
FindToken(t) ==
  /\ step[t] = "find"
  /\ req[t].op = "refresh"
  /\ Race(t)
  /\ \/ /\ Carried(t).dead # "no"
        /\ Answers(t, "find", "refused")
     \/ /\ Carried(t).dead = "no"
        /\ Goto(t, "find", IF Carried(t).rotated THEN "revoke" ELSE "rotate")
        /\ UNCHANGED req
  /\ UNCHANGED <<users, tokens, cookie, page, faults>>

\* Only the rotation is asked about.
FindRotatedOnly(t) ==
  /\ step[t] = "find"
  /\ req[t].op = "refresh"
  /\ Race(t)
  /\ Goto(t, "find", IF Carried(t).rotated THEN "revoke" ELSE "rotate")
  /\ UNCHANGED <<users, tokens, cookie, page, req, faults>>

\* Logging out asks nothing of the token it finds.
FindForLogout(t) ==
  /\ req[t].op = "logout"
  /\ Goto(t, "find", "revoke")
  /\ Race(t)
  /\ UNCHANGED <<users, tokens, cookie, page, req, faults>>

\* Only the token that was presented.
RevokeOne(t) ==
  /\ Answers(t, "revoke", IF req[t].op = "logout" THEN "ok" ELSE "refused")
  /\ tokens' = [tokens EXCEPT ![req[t].carried].dead = "revoked"]
  /\ UNCHANGED <<users, cookie, page, faults, raced>>

RevokeFamily(t) ==
  /\ Answers(t, "revoke", IF req[t].op = "logout" THEN "ok" ELSE "refused")
  /\ tokens' = [k \in DOMAIN tokens |-> IF k \in Members(Carried(t).family)
                  THEN [tokens[k] EXCEPT !.dead = "revoked"] ELSE tokens[k]]
  /\ UNCHANGED <<users, cookie, page, faults, raced>>

\* The old token stays good for whoever still holds it.
KeepUnrotated(t) ==
  /\ Goto(t, "rotate", "issue")
  /\ UNCHANGED <<users, tokens, cookie, page, req, faults, raced>>

\* By id only: whatever the row has become, it is rotated now.
MarkRotated(t) ==
  /\ Goto(t, "rotate", "issue")
  /\ tokens' = [tokens EXCEPT ![req[t].carried].rotated = TRUE]
  /\ UNCHANGED <<users, cookie, page, req, faults, raced>>

\* issueInFamily for a refresh, issueNewFamily for a sign-in.
Issue(t) ==
  /\ Goto(t, "issue", "answer")
  /\ Len(tokens) < MaxTokens
  /\ tokens' = Append(tokens,
       [owner   |-> IF req[t].op = "refresh" THEN Carried(t).owner ELSE Body(t).email,
        family  |-> IF req[t].op = "refresh" THEN Carried(t).family ELSE Len(tokens) + 1,
        rotated |-> FALSE, dead |-> "no"])
  /\ req' = [req EXCEPT ![t] = [Blank EXCEPT !.op = req[t].op, !.made = Len(tokens) + 1,
                                             !.outcome = "ok"]]
  /\ UNCHANGED <<users, cookie, page, faults, raced>>

-------------------------------------------------------------------------------
(* The answer, through the gateway's AuthController, back to the page *)

Done(t, newCookie, newPage) ==
  /\ Goto(t, "answer", "idle")
  /\ cookie' = newCookie
  /\ page' = [page EXCEPT ![t] = newPage]
  /\ req' = [req EXCEPT ![t] = Blank]
  /\ UNCHANGED <<users, tokens, raced>>

SignedIn(t) == tokens[req[t].made].owner

\* A refresh answers with an access token and sets no cookie.
AnswerKeepingCookie(t) ==
  LET r == req[t] IN
  /\ UNCHANGED faults
  /\ \/ /\ r.op \in {"register", "login", "refresh"} /\ r.outcome = "ok"
        /\ Done(t, IF r.op = "refresh" THEN cookie ELSE r.made, SignedIn(t))
     \/ /\ r.op = "rename" \/ (r.op \in {"register", "login"} /\ r.outcome # "ok")
        /\ Done(t, cookie, page[t])
     \/ /\ r.op = "logout" \/ (r.op = "refresh" /\ r.outcome # "ok")
        /\ Done(t, 0, "anonymous")

Answer(t) ==
  LET r == req[t] IN
  /\ UNCHANGED faults
  /\ \/ /\ r.op \in {"register", "login", "refresh"} /\ r.outcome = "ok"
        /\ Done(t, r.made, SignedIn(t))
     \/ /\ r.op \in {"register", "login"} /\ r.outcome # "ok"
        /\ Done(t, cookie, page[t])
     \/ r.op = "refresh" /\ r.outcome # "ok" /\ Done(t, 0, "anonymous")
     \/ r.op = "logout" /\ Done(t, IF r.outcome = "error" THEN cookie ELSE 0, "anonymous")
     \/ r.op = "rename" /\ Done(t, cookie, page[t])

\* The answer never reaches the browser: no cookie is set or cleared.
AnswerLost(t) ==
  /\ faults < MaxFaults
  /\ faults' = faults + 1
  /\ Done(t, cookie, IF req[t].op \in {"refresh", "logout"} THEN "anonymous" ELSE page[t])

\* A database call of the identity service throws.
CallFails(t) ==
  /\ faults < MaxFaults
  /\ faults' = faults + 1
  /\ step[t] \notin {"idle", "answer"}
  /\ Answers(t, step[t], "error")
  /\ UNCHANGED <<users, tokens, cookie, page, raced>>

\* REFRESH_TOKEN_TTL_DAYS go by.
Expire(k) ==
  /\ k \in DOMAIN tokens
  /\ tokens[k].dead = "no"
  /\ faults < MaxFaults
  /\ faults' = faults + 1
  /\ tokens' = [tokens EXCEPT ![k].dead = "expired"]
  /\ UNCHANGED <<users, cookie, page, step, req, raced>>

-------------------------------------------------------------------------------
Continue(t) ==
  \/ CheckEmail(t) \/ CheckNickname(t) \/ CreateUser(t) \/ UpdateUser(t) \/ Login(t)
  \/ FindToken(t) \/ FindForLogout(t) \/ RevokeFamily(t) \/ MarkRotated(t) \/ Issue(t) \/ Answer(t)

Ask(t) ==
  \/ SilentRefresh(t) \/ SignOut(t) \/ Reload(t)
  \/ \E body \in Rows : SignUp(t, body)
  \/ \E e \in Emails : SignIn(t, e)
  \/ \E n \in Nicknames : Rename(t, n)

Next ==
  \/ \E t \in Tabs : Ask(t) \/ Continue(t) \/ AnswerLost(t) \/ CallFails(t)
  \/ \E k \in 1 .. MaxTokens : Expire(k)

Spec == Init /\ [][Next]_vars
===============================================================================
