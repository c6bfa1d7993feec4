----------------------------- MODULE SessionProofs ----------------------------
(* Proofs about sign-in: refresh tokens that are single-use and fall together  *)
(* while nobody races for their family, a cookie that is fresh whenever nothing *)
(* is under way, and a page that is never left without a valid access token.   *)
EXTENDS SessionProperties, TLAPS

-------------------------------------------------------------------------------
(* Types, and what a request is made of where it stands *)

\* What a tab at this step asks for.
Asks(s, r) ==
  /\ s \in {"byEmail", "create"} => r.op = "register"
  /\ s = "byNickname" => r.op \in {"register", "rename"}
  /\ s = "update" => r.op = "rename"
  /\ s = "verify" => r.op = "login"
  /\ s \in {"find", "revoke"} => r.op \in {"refresh", "logout"}
  /\ s = "rotate" => r.op = "refresh"
  /\ s = "issue" => r.op \in {"register", "login", "refresh"}

\* What it has in hand: a token that exists, or the row of an account.
Holds(s, r) ==
  /\ r.carried <= Len(tokens) /\ r.made <= Len(tokens)
  /\ s \in {"find", "revoke", "rotate"} => r.carried # 0
  /\ (s = "issue" /\ r.op = "refresh") => r.carried # 0
  /\ s # "answer" => r.made = 0
  /\ s = "answer" => r.carried = 0
  /\ (s = "answer" /\ r.op \in {"register", "login", "refresh"} /\ r.outcome = "ok") => r.made # 0
  /\ s \in {"byEmail", "byNickname", "create", "update"} => r.body \in Rows
  /\ (s = "verify" \/ (s = "issue" /\ r.op # "refresh")) => r.body.email \in Emails

\* A family is numbered after its first token.
Numbered == \A k \in DOMAIN tokens : tokens[k].family \in 1 .. k

SessionInv ==
  /\ SessionTypeOK
  /\ cookie <= Len(tokens)
  /\ Numbered
  /\ \A t \in Tabs : Asks(step[t], req[t]) /\ Holds(step[t], req[t])

-------------------------------------------------------------------------------
(* The invariants *)

Works(t) == step[t] \in {"revoke", "rotate", "issue"} /\ req[t].op \in {"refresh", "logout"}
Turns(t) == step[t] \in {"rotate", "issue"} /\ req[t].op = "refresh"

\* A family nobody raced for has one request at work on it.
WorksAlone ==
  \A t, u \in Tabs :
    (Works(t) /\ Works(u) /\ Carried(t).family = Carried(u).family
       /\ Carried(t).family \notin raced) => t = u

\* A request that rotates found its family whole, and one that issues has used up
\* the last token of it.
FoundWhole ==
  \A t \in Tabs :
    (Turns(t) /\ Carried(t).family \notin raced) =>
      /\ step[t] = "rotate" => ~Carried(t).rotated
      /\ \A k \in DOMAIN tokens : tokens[k].family = Carried(t).family =>
           tokens[k].dead # "revoked" /\ (step[t] = "issue" => tokens[k].rotated)

FamilyInv == WorksAlone /\ OneUsableToken /\ FamilyFallsTogether /\ FoundWhole

\* A token on its way to the browser is known to nobody else.
MadeIsNew ==
  \A t \in Tabs : req[t].made # 0 =>
    /\ ~tokens[req[t].made].rotated
    /\ cookie # req[t].made
    /\ \A u \in Tabs : req[u].carried # req[t].made
    /\ \A u \in Tabs : req[u].made = req[t].made => u = t

\* While nothing failed, a rotated token in the jar is about to be replaced.
Renews(t) == req[t].op = "refresh" /\ step[t] \in {"issue", "answer"}

RotatedIsReplaced ==
  (faults = 0 /\ cookie # 0 /\ tokens[cookie].rotated) => \E t \in Tabs : Renews(t)

CookieInv == MadeIsNew /\ RotatedIsReplaced

-------------------------------------------------------------------------------
(* Types *)

\* A row of the table may change: the table stays a table of as many rows.
LEMMA RowsChange ==
  ASSUME tokens \in Seq(Token), NEW F \in [DOMAIN tokens -> Token]
  PROVE  F \in Seq(Token) /\ Len(F) = Len(tokens) /\ DOMAIN F = DOMAIN tokens
<1>1. PICK n \in Nat : n = Len(tokens) /\ DOMAIN tokens = 1 .. n
  OBVIOUS
<1>2. F \in [1 .. n -> Token]
  BY <1>1
<1> QED BY <1>1, <1>2

\* A request built from the blank one, as the tabs build them, is a request.
LEMMA BlankTyped ==
  ASSUME NEW o \in {"none", "register", "login", "refresh", "logout", "rename"},
         NEW c \in 0 .. MaxTokens, NEW m \in 0 .. MaxTokens,
         NEW out \in {"ok", "refused", "error"},
         NEW b \in [email : Emails \cup {"none"}, nickname : Nicknames \cup {"none"}]
  PROVE  /\ Blank \in Request
         /\ [Blank EXCEPT !.op = o, !.outcome = out] \in Request
         /\ [Blank EXCEPT !.op = o, !.body = b, !.carried = c] \in Request
         /\ [Blank EXCEPT !.op = o, !.made = m, !.outcome = out] \in Request
<1>1. MaxTokens \in Nat /\ 0 \in 0 .. MaxTokens
  BY SessionAssumption
<1> QED BY <1>1 DEF Blank, NoRow, Request

\* One tab goes on: what the others have in hand stays theirs.
LEMMA OneMoves ==
  ASSUME SessionInv, NEW t \in Tabs, NEW s \in Steps, NEW r \in Request,
         step' = [step EXCEPT ![t] = s], req' = [req EXCEPT ![t] = r],
         tokens' \in Seq(Token), Len(tokens) <= Len(tokens'), Len(tokens') <= MaxTokens,
         Numbered', cookie' \in 0 .. MaxTokens, cookie' <= Len(tokens'),
         Asks(s, r), Holds(s, r)',
         users' \in SUBSET Rows, page' \in [Tabs -> {"loading", "anonymous"} \cup Emails],
         faults' \in 0 .. MaxFaults, raced' \in SUBSET Nat
  PROVE  SessionInv'
<1>1. step \in [Tabs -> Steps] /\ req \in [Tabs -> Request] /\ tokens \in Seq(Token)
  BY DEF SessionInv, SessionTypeOK
<1>2. SessionTypeOK'
  BY <1>1 DEF SessionTypeOK
<1>3. ASSUME NEW u \in Tabs PROVE Asks(step[u], req[u])' /\ Holds(step[u], req[u])'
  <2>1. CASE u = t BY <1>1, <2>1
  <2>2. CASE u # t
    <3>1. step'[u] = step[u] /\ req'[u] = req[u] /\ req[u] \in Request
      BY <1>1, <2>2
    <3>2. Asks(step[u], req[u]) /\ Holds(step[u], req[u])
      BY DEF SessionInv
    <3>3. req[u].carried \in Nat /\ req[u].made \in Nat /\ Len(tokens) \in Nat /\ Len(tokens') \in Nat
      BY <1>1, <3>1, SessionAssumption DEF Request
    <3>4. Asks(step[u], req[u])'
      BY <3>1, <3>2, Zenon DEF Asks
    <3>5. Holds(step[u], req[u])'
      BY <3>1, <3>2, <3>3 DEF Holds
    <3> QED BY <3>4, <3>5
  <2> QED BY <2>1, <2>2
<1> QED BY <1>2, <1>3 DEF SessionInv

\* What identity issues is a token.
LEMMA NewTyped ==
  ASSUME NEW o \in Emails, NEW f \in Nat
  PROVE  [owner |-> o, family |-> f, rotated |-> FALSE, dead |-> "no"] \in Token
<1>1. FALSE \in BOOLEAN /\ "no" \in {"no", "expired", "revoked"}
  OBVIOUS
<1> QED BY <1>1, Zenon DEF Token

\* One tab goes on, and no token changes.
LEMMA TokensRest ==
  ASSUME SessionInv, NEW t \in Tabs, NEW s \in Steps, NEW r \in Request,
         step' = [step EXCEPT ![t] = s], req' = [req EXCEPT ![t] = r],
         UNCHANGED tokens, cookie' \in 0 .. MaxTokens, cookie' <= Len(tokens),
         Asks(s, r), Holds(s, r),
         users' \in SUBSET Rows, page' \in [Tabs -> {"loading", "anonymous"} \cup Emails],
         faults' \in 0 .. MaxFaults, raced' \in SUBSET Nat
  PROVE  SessionInv'
<1>1. /\ tokens' \in Seq(Token) /\ Len(tokens) <= Len(tokens') /\ Len(tokens') <= MaxTokens
      /\ Numbered' /\ cookie' <= Len(tokens')
  BY SessionAssumption DEF SessionInv, SessionTypeOK, Numbered
<1>2. Holds(s, r)'
  BY DEF Holds
<1> QED BY <1>1, <1>2, OneMoves

\* What a request holds where it stands, read off the invariant.
LEMMA InHand ==
  ASSUME SessionInv, NEW t \in Tabs
  PROVE  /\ step[t] \in Steps /\ req[t] \in Request /\ page[t] \in {"loading", "anonymous"} \cup Emails
         /\ req[t].carried \in 0 .. MaxTokens /\ req[t].made \in 0 .. MaxTokens
         /\ Asks(step[t], req[t]) /\ Holds(step[t], req[t])
         /\ req[t].carried # 0 => req[t].carried \in DOMAIN tokens /\ Carried(t) \in Token
         /\ req[t].made # 0 => req[t].made \in DOMAIN tokens /\ tokens[req[t].made] \in Token
         /\ tokens \in Seq(Token) /\ Len(tokens) \in Nat /\ cookie \in 0 .. MaxTokens
         /\ cookie # 0 => cookie \in DOMAIN tokens
         /\ MaxTokens \in Nat
<1>1. step[t] \in Steps /\ req[t] \in Request /\ page[t] \in {"loading", "anonymous"} \cup Emails
  BY DEF SessionInv, SessionTypeOK
<1>2. req[t].carried \in 0 .. MaxTokens /\ req[t].made \in 0 .. MaxTokens /\ MaxTokens \in Nat
  BY <1>1, SessionAssumption DEF Request
<1>3. Asks(step[t], req[t]) /\ Holds(step[t], req[t])
  BY DEF SessionInv
<1>4. tokens \in Seq(Token) /\ Len(tokens) \in Nat /\ cookie \in 0 .. MaxTokens /\ cookie <= Len(tokens)
  BY DEF SessionInv, SessionTypeOK
<1>5. req[t].carried <= Len(tokens) /\ req[t].made <= Len(tokens)
  BY <1>3 DEF Holds
<1>6. /\ req[t].carried # 0 => req[t].carried \in DOMAIN tokens
      /\ req[t].made # 0 => req[t].made \in DOMAIN tokens
      /\ cookie # 0 => cookie \in DOMAIN tokens
  BY <1>2, <1>4, <1>5
<1>7. \A k \in DOMAIN tokens : tokens[k] \in Token
  BY <1>4
<1> QED BY <1>1, <1>2, <1>3, <1>4, <1>6, <1>7 DEF Carried

\* A tab sends a request: what it asks and holds is typed.
LEMMA SendTypes ==
  ASSUME SessionInv, NEW t \in Tabs,
         NEW o \in {"register", "login", "refresh", "logout", "rename"}, NEW s \in Steps,
         NEW b \in [email : Emails \cup {"none"}, nickname : Nicknames \cup {"none"}],
         Send(t, o, s, b),
         o = "register" => s = "byEmail" /\ b \in Rows,
         o = "login" => s = "verify" /\ b.email \in Emails,
         o = "rename" => s = "byNickname" /\ b \in Rows,
         o \in {"refresh", "logout"} => s = IF cookie = 0 THEN "answer" ELSE "find"
  PROVE  SessionInv'
<1> DEFINE c == cookie
<1>1. cookie \in 0 .. MaxTokens /\ cookie <= Len(tokens) /\ Len(tokens) \in Nat /\ step \in [Tabs -> Steps]
  BY DEF SessionInv, SessionTypeOK
<1>2. PICK r \in Request : r = [Blank EXCEPT !.op = o, !.body = b, !.carried = cookie]
  BY <1>1, BlankTyped, SessionAssumption
<1>3. /\ r.op = o /\ r.body = b /\ r.carried = cookie /\ r.made = 0 /\ r.outcome = "refused"
  BY <1>2 DEF Blank
<1>4. Asks(s, r) /\ Holds(s, r)
  <2>1. Asks(s, r) BY <1>3 DEF Asks
  <2>2. cookie = 0 \/ s # "answer"
    BY <1>1
  <2>3. Holds(s, r) BY <1>1, <1>3, <2>2 DEF Holds
  <2> QED BY <2>1, <2>3
<1>5. /\ users' \in SUBSET Rows /\ page' \in [Tabs -> {"loading", "anonymous"} \cup Emails]
      /\ faults' \in 0 .. MaxFaults /\ raced' \in SUBSET Nat
      /\ cookie' \in 0 .. MaxTokens /\ cookie' <= Len(tokens) /\ UNCHANGED tokens
  BY <1>1 DEF Send, SessionInv, SessionTypeOK
<1>6. step' = [step EXCEPT ![t] = s] /\ req' = [req EXCEPT ![t] = r]
  BY <1>2 DEF Send, Goto
<1> QED BY <1>4, <1>5, <1>6, TokensRest

\* The server answers a request: it stays typed.
LEMMA AnswersTypes ==
  ASSUME SessionInv, NEW t \in Tabs, NEW here, NEW out \in {"ok", "refused", "error"},
         Answers(t, here, out),
         out = "ok" => req[t].op \in {"logout", "rename"}
  PROVE  \E r \in Request :
           /\ step' = [step EXCEPT ![t] = "answer"] /\ req' = [req EXCEPT ![t] = r]
           /\ Asks("answer", r) /\ Holds("answer", r)
           /\ r.op = req[t].op /\ r.carried = 0 /\ r.made = 0 /\ r.outcome = out
<1>1. req[t] \in Request /\ Len(tokens) \in Nat
  BY InHand
<1>2. PICK r \in Request : r = [Blank EXCEPT !.op = req[t].op, !.outcome = out]
  <2>1. /\ req[t].op \in {"none", "register", "login", "refresh", "logout", "rename"}
        /\ 0 \in 0 .. MaxTokens
    BY <1>1, SessionAssumption DEF Request
  <2> QED BY <2>1 DEF Blank, NoRow, Request
<1>3. r.op = req[t].op /\ r.carried = 0 /\ r.made = 0 /\ r.outcome = out
  BY <1>2 DEF Blank
<1>4. Asks("answer", r)
  BY DEF Asks
<1>5. Holds("answer", r)
  BY <1>1, <1>3 DEF Holds
<1> QED BY <1>2, <1>3, <1>4, <1>5 DEF Answers, Goto

\* Every step keeps the types, and what a request holds where it stands.
LEMMA SessionStep ==
  ASSUME SessionInv, [Next]_vars PROVE SessionInv'
<1>1. /\ users \in SUBSET Rows /\ tokens \in Seq(Token) /\ Len(tokens) \in Nat
      /\ cookie \in 0 .. MaxTokens /\ cookie <= Len(tokens)
      /\ page \in [Tabs -> {"loading", "anonymous"} \cup Emails]
      /\ step \in [Tabs -> Steps] /\ req \in [Tabs -> Request]
      /\ faults \in 0 .. MaxFaults /\ raced \in SUBSET Nat /\ Numbered
      /\ MaxTokens \in Nat /\ MaxFaults \in Nat
  BY SessionAssumption DEF SessionInv, SessionTypeOK
<1>2. CASE UNCHANGED vars
  <2>1. SessionTypeOK' /\ Numbered' /\ cookie' <= Len(tokens')
    BY <1>2 DEF vars, SessionInv, SessionTypeOK, Numbered
  <2>2. \A t \in Tabs : (Asks(step[t], req[t]) /\ Holds(step[t], req[t]))'
    BY <1>2 DEF vars, SessionInv, Asks, Holds
  <2> QED BY <2>1, <2>2 DEF SessionInv
<1>3. ASSUME NEW t \in Tabs, Ask(t) PROVE SessionInv'
  <2>1. NoRow \in [email : Emails \cup {"none"}, nickname : Nicknames \cup {"none"}]
    BY DEF NoRow
  <2>2. CASE SilentRefresh(t)
    BY <2>1, <2>2, SendTypes DEF SilentRefresh, Steps
  <2>3. CASE SignOut(t)
    BY <2>1, <2>3, SendTypes DEF SignOut, Steps
  <2>4. CASE Reload(t)
    <3>1. page' \in [Tabs -> {"loading", "anonymous"} \cup Emails]
      BY <1>1, <2>4 DEF Reload
    <3>2. /\ step' = [step EXCEPT ![t] = step[t]] /\ req' = [req EXCEPT ![t] = req[t]]
          /\ UNCHANGED <<tokens, cookie, users, faults, raced>>
      BY <1>1, <2>4 DEF Reload
    <3>3. step[t] \in Steps /\ req[t] \in Request /\ Asks(step[t], req[t]) /\ Holds(step[t], req[t])
      BY InHand
    <3> QED BY <1>1, <3>1, <3>2, <3>3, TokensRest
  <2>5. ASSUME NEW body \in Rows, SignUp(t, body) PROVE SessionInv'
    <3>1. body \in [email : Emails \cup {"none"}, nickname : Nicknames \cup {"none"}]
      BY DEF Rows
    <3> QED BY <2>5, <3>1, SendTypes DEF SignUp, Steps
  <2>6. ASSUME NEW e \in Emails, SignIn(t, e) PROVE SessionInv'
    <3>1. /\ [NoRow EXCEPT !.email = e] \in
                [email : Emails \cup {"none"}, nickname : Nicknames \cup {"none"}]
          /\ [NoRow EXCEPT !.email = e].email \in Emails
      BY DEF NoRow
    <3> QED BY <2>6, <3>1, SendTypes DEF SignIn, Steps
  <2>7. ASSUME NEW n \in Nicknames, Rename(t, n) PROVE SessionInv'
    <3>1. page[t] \in Emails
      BY <2>7 DEF Rename
    <3>2. /\ [email |-> page[t], nickname |-> n] \in
                [email : Emails \cup {"none"}, nickname : Nicknames \cup {"none"}]
          /\ [email |-> page[t], nickname |-> n] \in Rows
      BY <3>1 DEF Rows
    <3> QED BY <2>7, <3>2, SendTypes DEF Rename, Steps
  <2> QED BY <1>3, <2>2, <2>3, <2>4, <2>5, <2>6, <2>7 DEF Ask
<1>4. ASSUME NEW t \in Tabs, AnswerLost(t) \/ CallFails(t) PROVE SessionInv'
  <2>1. CASE CallFails(t)
    <3>1. /\ faults' \in 0 .. MaxFaults /\ UNCHANGED <<users, tokens, cookie, page, raced>>
          /\ Answers(t, step[t], "error")
      BY <1>1, <2>1 DEF CallFails
    <3> QED BY <1>1, <3>1, AnswersTypes, TokensRest DEF Steps
  <2>2. CASE AnswerLost(t)
    <3>1. /\ faults' \in 0 .. MaxFaults /\ UNCHANGED <<users, tokens, cookie, raced>>
          /\ page' \in [Tabs -> {"loading", "anonymous"} \cup Emails]
          /\ step' = [step EXCEPT ![t] = "idle"] /\ req' = [req EXCEPT ![t] = Blank]
      BY <1>1, <2>2 DEF AnswerLost, Done, Goto
    <3>2. Blank \in Request /\ Asks("idle", Blank) /\ Holds("idle", Blank)
      BY <1>1 DEF Blank, NoRow, Request, Asks, Holds
    <3> QED BY <1>1, <3>1, <3>2, TokensRest DEF Steps
  <2> QED BY <1>4, <2>1, <2>2
<1>5. ASSUME NEW t \in Tabs,
             CheckEmail(t) \/ CheckNickname(t) \/ CreateUser(t) \/ UpdateUser(t) \/ Login(t)
      PROVE  SessionInv'
  <2>1. UNCHANGED <<tokens, cookie, page, faults, raced>>
    BY <1>5 DEF CheckEmail, CheckNickname, CreateUser, UpdateUser, Login
  <2>2. users' \in SUBSET Rows
    <3>1. CASE UNCHANGED users BY <1>1, <3>1
    <3>2. CASE CreateUser(t) \/ UpdateUser(t)
      <4>1. req[t].body \in Rows
        BY <3>2, InHand DEF CreateUser, UpdateUser, Goto, Answers, Holds
      <4> QED BY <1>1, <3>2, <4>1 DEF CreateUser, UpdateUser, Body
    <3> QED BY <1>5, <3>1, <3>2 DEF CheckEmail, CheckNickname, Login
  <2>3. ASSUME NEW here, NEW out \in {"ok", "refused"}, Answers(t, here, out),
               out = "ok" => req[t].op \in {"logout", "rename"}
        PROVE  SessionInv'
    <3>1. PICK r \in Request :
            /\ step' = [step EXCEPT ![t] = "answer"] /\ req' = [req EXCEPT ![t] = r]
            /\ Asks("answer", r) /\ Holds("answer", r)
      BY <2>3, AnswersTypes
    <3>2. /\ cookie' \in 0 .. MaxTokens /\ cookie' <= Len(tokens) /\ faults' \in 0 .. MaxFaults
          /\ page' \in [Tabs -> {"loading", "anonymous"} \cup Emails] /\ raced' \in SUBSET Nat
      BY <1>1, <2>1
    <3> QED BY <2>1, <2>2, <3>1, <3>2, TokensRest DEF Steps
  <2>4. ASSUME NEW here \in Steps, NEW s \in Steps, Goto(t, here, s), UNCHANGED req,
               Asks(s, req[t]), Holds(s, req[t])
        PROVE  SessionInv'
    <3>1. req' = [req EXCEPT ![t] = req[t]] /\ req[t] \in Request
      BY <1>1, <2>4
    <3> QED BY <1>1, <2>1, <2>2, <2>4, <3>1, TokensRest DEF Goto
  <2>5. Asks(step[t], req[t]) /\ Holds(step[t], req[t]) /\ req[t] \in Request
    BY InHand
  <2>6. CASE CheckEmail(t)
    <3>1. (Goto(t, "byEmail", "byNickname") /\ UNCHANGED req) => SessionInv'
      BY <2>4, <2>5 DEF Goto, Steps, Asks, Holds
    <3> QED BY <2>3, <2>6, <3>1 DEF CheckEmail
  <2>7. CASE CheckNickname(t)
    <3>1. (req[t].op = "rename" /\ Goto(t, "byNickname", "update") /\ UNCHANGED req) => SessionInv'
      BY <2>4, <2>5 DEF Goto, Steps, Asks, Holds
    <3>2. (req[t].op # "rename" /\ Goto(t, "byNickname", "create") /\ UNCHANGED req) => SessionInv'
      BY <2>4, <2>5 DEF Goto, Steps, Asks, Holds
    <3> QED BY <2>3, <2>7, <3>1, <3>2 DEF CheckNickname
  <2>8. CASE CreateUser(t)
    <3>1. (Goto(t, "create", "issue") /\ UNCHANGED req) => SessionInv'
      BY <2>4, <2>5 DEF Goto, Steps, Asks, Holds, Rows
    <3> QED BY <2>3, <2>8, <3>1 DEF CreateUser
  <2>9. CASE UpdateUser(t)
    <3>1. req[t].op = "rename"
      BY <2>5, <2>9 DEF UpdateUser, Answers, Goto, Asks
    <3> QED BY <2>3, <2>9, <3>1 DEF UpdateUser
  <2>10. CASE Login(t)
    <3>1. (Goto(t, "verify", "issue") /\ UNCHANGED req) => SessionInv'
      BY <2>4, <2>5 DEF Goto, Steps, Asks, Holds
    <3> QED BY <2>3, <2>10, <3>1 DEF Login
  <2> QED BY <1>5, <2>6, <2>7, <2>8, <2>9, <2>10
<1>6. ASSUME NEW t \in Tabs, FindToken(t) \/ FindForLogout(t) PROVE SessionInv'
  <2>1. /\ UNCHANGED <<users, tokens, cookie, page, faults>> /\ step[t] = "find" /\ Race(t)
        /\ req[t].op \in {"refresh", "logout"}
    BY <1>6 DEF FindToken, FindForLogout, Goto
  <2>2. /\ Asks(step[t], req[t]) /\ Holds(step[t], req[t]) /\ req[t] \in Request
        /\ req[t].carried # 0 /\ Carried(t) \in Token
    BY <2>1, InHand DEF Holds
  <2>3. raced' \in SUBSET Nat
    BY <1>1, <2>1, <2>2 DEF Race, Token
  <2>4. CASE ~Answers(t, "find", "refused")
    <3>0. UNCHANGED req
      BY <1>6, <2>4 DEF FindToken, FindForLogout
    <3>1. PICK s \in {"revoke", "rotate"} :
            step' = [step EXCEPT ![t] = s] /\ (s = "rotate" => req[t].op = "refresh")
      <4>1. CASE FindForLogout(t)
        BY <4>1 DEF FindForLogout, Goto
      <4>2. CASE Goto(t, "find", IF Carried(t).rotated THEN "revoke" ELSE "rotate")
                 /\ req[t].op = "refresh"
        BY <4>2 DEF Goto
      <4> QED BY <1>6, <2>4, <4>1, <4>2 DEF FindToken
    <3>2. Asks(s, req[t]) /\ Holds(s, req[t])
      BY <2>1, <2>2, <3>1 DEF Asks, Holds
    <3>3. req' = [req EXCEPT ![t] = req[t]]
      BY <1>1, <3>0
    <3>4. /\ cookie' \in 0 .. MaxTokens /\ cookie' <= Len(tokens) /\ faults' \in 0 .. MaxFaults
          /\ page' \in [Tabs -> {"loading", "anonymous"} \cup Emails] /\ users' \in SUBSET Rows
          /\ s \in Steps /\ UNCHANGED tokens
      BY <1>1, <2>1 DEF Steps
    <3> QED BY <2>2, <2>3, <3>4, <3>1, <3>2, <3>3, TokensRest DEF Steps
  <2>5. CASE Answers(t, "find", "refused")
    BY <1>1, <2>1, <2>3, <2>5, AnswersTypes, TokensRest DEF Steps
  <2> QED BY <1>6, <2>4, <2>5 DEF FindToken, FindForLogout
<1>7. ASSUME NEW t \in Tabs, RevokeFamily(t) \/ MarkRotated(t) PROVE SessionInv'
  <2>1. tokens' \in [DOMAIN tokens -> Token] /\ \A k \in DOMAIN tokens : tokens'[k].family = tokens[k].family
    <3>1. \A k \in DOMAIN tokens : tokens[k] \in Token
      BY <1>1
    <3>2. CASE RevokeFamily(t)
      BY <3>1, <3>2 DEF RevokeFamily, Token
    <3>3. CASE MarkRotated(t)
      BY <3>1, <3>3, <1>1 DEF MarkRotated, Token
    <3> QED BY <1>7, <3>2, <3>3
  <2>2. tokens' \in Seq(Token) /\ Len(tokens') = Len(tokens) /\ DOMAIN tokens' = DOMAIN tokens
    BY <1>1, <2>1, RowsChange
  <2>3. Numbered'
    BY <1>1, <2>1, <2>2 DEF Numbered
  <2>4. /\ UNCHANGED <<users, cookie, page, faults, raced>> /\ Len(tokens') <= MaxTokens
        /\ cookie' \in 0 .. MaxTokens /\ cookie' <= Len(tokens')
    BY <1>1, <1>7, <2>2 DEF RevokeFamily, MarkRotated, SessionInv, SessionTypeOK
  <2>5. req[t] \in Request /\ Asks(step[t], req[t]) /\ Holds(step[t], req[t])
    BY InHand
  <2>8. /\ users' \in SUBSET Rows /\ faults' \in 0 .. MaxFaults /\ raced' \in SUBSET Nat
        /\ page' \in [Tabs -> {"loading", "anonymous"} \cup Emails] /\ Len(tokens) <= Len(tokens')
    BY <1>1, <2>2, <2>4
  <2>6. CASE RevokeFamily(t)
    <3>1. PICK out \in {"ok", "refused"} :
            Answers(t, "revoke", out) /\ (out = "ok" => req[t].op = "logout")
      BY <2>6 DEF RevokeFamily
    <3>2. PICK r \in Request :
            /\ step' = [step EXCEPT ![t] = "answer"] /\ req' = [req EXCEPT ![t] = r]
            /\ Asks("answer", r) /\ Holds("answer", r)
      BY <3>1, AnswersTypes
    <3>3. Holds("answer", r)'
      BY <2>2, <3>2 DEF Holds
    <3> QED BY <2>2, <2>3, <2>4, <2>8, <3>2, <3>3, OneMoves DEF Steps
  <2>7. CASE MarkRotated(t)
    <3>1. PICK r \in Request : r = req[t]
      BY <2>5
    <3>2. step[t] = "rotate" /\ step' = [step EXCEPT ![t] = "issue"] /\ req' = [req EXCEPT ![t] = r]
      BY <1>1, <2>7, <3>1 DEF MarkRotated, Goto
    <3>3. Asks("issue", r) /\ Holds("issue", r)
      BY <2>5, <3>1, <3>2 DEF Asks, Holds
    <3>4. Holds("issue", r)'
      BY <2>2, <3>3 DEF Holds
    <3> QED BY <2>2, <2>3, <2>4, <2>8, <3>2, <3>3, <3>4, OneMoves DEF Steps
  <2> QED BY <1>7, <2>6, <2>7
<1>8. ASSUME NEW t \in Tabs, Issue(t) PROVE SessionInv'
  <2>1. /\ step[t] = "issue" /\ Len(tokens) < MaxTokens
        /\ UNCHANGED <<users, cookie, page, faults, raced>>
    BY <1>8 DEF Issue, Goto
  <2>2. /\ req[t] \in Request /\ Asks(step[t], req[t]) /\ Holds(step[t], req[t])
        /\ req[t].op = "refresh" => Carried(t) \in Token /\ req[t].carried \in DOMAIN tokens
    BY <2>1, InHand DEF Holds
  <2>3. PICK x \in Token :
          /\ tokens' = Append(tokens, x)
          /\ x.family \in 1 .. Len(tokens) + 1
    <3>1. CASE req[t].op = "refresh"
      <4>1. Carried(t).family \in 1 .. Len(tokens) + 1 /\ Carried(t).owner \in Emails
        BY <1>1, <2>2, <3>1 DEF Numbered, Carried, Token
      <4>2. PICK x \in Token : x = [owner |-> Carried(t).owner, family |-> Carried(t).family,
                                    rotated |-> FALSE, dead |-> "no"]
        <5>1. Carried(t).family \in Nat /\ Carried(t).owner \in Emails
          BY <1>1, <4>1
        <5> QED BY <5>1, NewTyped, Zenon
      <4> QED BY <1>8, <3>1, <4>1, <4>2 DEF Issue
    <3>2. CASE req[t].op # "refresh"
      <4>1. Body(t).email \in Emails
        BY <2>1, <2>2, <3>2 DEF Holds, Body
      <4>2. PICK x \in Token : x = [owner |-> Body(t).email, family |-> Len(tokens) + 1,
                                    rotated |-> FALSE, dead |-> "no"]
        <5>1. Len(tokens) + 1 \in Nat
          BY <1>1
        <5> QED BY <4>1, <5>1, NewTyped, Zenon
      <4>3. x.family \in 1 .. Len(tokens) + 1
        BY <1>1, <4>2
      <4> QED BY <1>8, <3>2, <4>2, <4>3 DEF Issue
    <3> QED BY <3>1, <3>2
  <2>4. /\ tokens' \in Seq(Token) /\ Len(tokens') = Len(tokens) + 1
        /\ DOMAIN tokens' = 1 .. Len(tokens) + 1 /\ tokens'[Len(tokens) + 1] = x
        /\ \A k \in DOMAIN tokens : tokens'[k] = tokens[k]
    BY <1>1, <2>3
  <2>5. Numbered'
    BY <1>1, <2>3, <2>4 DEF Numbered
  <2>6. PICK r \in Request :
          /\ r.op = req[t].op /\ r.carried = 0 /\ r.made = Len(tokens) + 1 /\ r.outcome = "ok"
          /\ req' = [req EXCEPT ![t] = r] /\ step' = [step EXCEPT ![t] = "answer"]
    <3>1. /\ req[t].op \in {"none", "register", "login", "refresh", "logout", "rename"}
          /\ 0 \in 0 .. MaxTokens /\ Len(tokens) + 1 \in 0 .. MaxTokens
      BY <1>1, <2>1, <2>2 DEF Request
    <3>2. PICK r \in Request :
            r = [Blank EXCEPT !.op = req[t].op, !.made = Len(tokens) + 1, !.outcome = "ok"]
      BY <3>1 DEF Blank, NoRow, Request
    <3>3. r.op = req[t].op /\ r.carried = 0 /\ r.made = Len(tokens) + 1 /\ r.outcome = "ok"
      BY <3>2 DEF Blank
    <3> QED BY <1>8, <3>2, <3>3 DEF Issue, Goto
  <2>7. Asks("answer", r)
    BY DEF Asks
  <2>8. Holds("answer", r)'
    BY <1>1, <2>4, <2>6 DEF Holds
  <2>9. Len(tokens) <= Len(tokens') /\ Len(tokens') <= MaxTokens /\ cookie' <= Len(tokens')
    BY <1>1, <2>1, <2>4
  <2> QED BY <1>1, <2>1, <2>4, <2>5, <2>6, <2>7, <2>8, <2>9, OneMoves DEF Steps
<1>9. ASSUME NEW t \in Tabs, Answer(t) PROVE SessionInv'
  <2>1. PICK c \in {0, cookie, req[t].made}, q \in {"anonymous", page[t], SignedIn(t)} :
          /\ Done(t, c, q) /\ UNCHANGED faults
          /\ q \in {"anonymous", page[t]} \/ (q = SignedIn(t) /\ req[t].made # 0)
    <3>1. step[t] = "answer" /\ Holds(step[t], req[t]) /\ UNCHANGED faults
      BY <1>9, InHand DEF Answer, Done, Goto
    <3>2. CASE req[t].op \in {"register", "login", "refresh"} /\ req[t].outcome = "ok"
               /\ Done(t, req[t].made, SignedIn(t))
      BY <3>1, <3>2 DEF Holds
    <3>3. CASE Done(t, cookie, page[t])
      BY <3>1, <3>3
    <3>4. CASE Done(t, 0, "anonymous")
      BY <3>1, <3>4
    <3>5. CASE Done(t, IF req[t].outcome = "error" THEN cookie ELSE 0, "anonymous")
      <4>1. CASE req[t].outcome = "error"
        <5>1. Done(t, cookie, "anonymous")
          BY <3>5, <4>1, Zenon
        <5> QED BY <3>1, <5>1
      <4>2. CASE req[t].outcome # "error"
        <5>1. Done(t, 0, "anonymous")
          BY <3>5, <4>2, Zenon
        <5> QED BY <3>1, <5>1
      <4> QED BY <4>1, <4>2
    <3> QED BY <1>9, <3>2, <3>3, <3>4, <3>5, Zenon DEF Answer
  <2>2. /\ step' = [step EXCEPT ![t] = "idle"] /\ req' = [req EXCEPT ![t] = Blank]
        /\ UNCHANGED <<users, tokens, raced, faults>> /\ cookie' = c /\ page' = [page EXCEPT ![t] = q]
    BY <2>1 DEF Done, Goto
  <2>3. c \in 0 .. MaxTokens /\ c <= Len(tokens)
    BY <1>1, <2>1, InHand DEF Holds
  <2>4. q \in {"loading", "anonymous"} \cup Emails
    BY <2>1, InHand DEF SignedIn, Token
  <2>5. Blank \in Request /\ Asks("idle", Blank) /\ Holds("idle", Blank)
    BY <1>1 DEF Blank, NoRow, Request, Asks, Holds
  <2> QED BY <1>1, <2>2, <2>3, <2>4, <2>5, TokensRest DEF Steps
<1>10. ASSUME NEW k \in 1 .. MaxTokens, Expire(k) PROVE SessionInv'
  <2>1. /\ k \in DOMAIN tokens /\ tokens' = [tokens EXCEPT ![k].dead = "expired"]
        /\ UNCHANGED <<users, cookie, page, step, req, raced>> /\ faults' \in 0 .. MaxFaults
    BY <1>1, <1>10 DEF Expire
  <2>2. /\ tokens' \in [DOMAIN tokens -> Token]
        /\ \A j \in DOMAIN tokens : tokens'[j].family = tokens[j].family
    <3>1. \A j \in DOMAIN tokens : tokens[j] \in Token
      BY <1>1
    <3> QED BY <1>1, <2>1, <3>1 DEF Token
  <2>3. tokens' \in Seq(Token) /\ Len(tokens') = Len(tokens) /\ DOMAIN tokens' = DOMAIN tokens
    BY <1>1, <2>2, RowsChange
  <2>4. Numbered'
    BY <1>1, <2>2, <2>3 DEF Numbered
  <2>5. \A t \in Tabs : (Asks(step[t], req[t]) /\ Holds(step[t], req[t]))'
    BY <2>1, <2>3 DEF SessionInv, Asks, Holds
  <2> QED BY <1>1, <2>1, <2>3, <2>4, <2>5 DEF SessionInv, SessionTypeOK
<1> QED
  BY <1>2, <1>3, <1>4, <1>5, <1>6, <1>7, <1>8, <1>9, <1>10 DEF Next, Continue

\* Nobody has signed in when it starts.
LEMMA SessionStart == Init => SessionInv
<1> SUFFICES ASSUME Init PROVE SessionInv
  OBVIOUS
<1>1. Blank \in Request /\ Asks("idle", Blank) /\ Len(<<>>) = 0 /\ MaxTokens \in Nat /\ MaxFaults \in Nat
  BY SessionAssumption DEF Blank, NoRow, Request, Asks
<1>2. tokens = <<>> /\ <<>> \in Seq(Token) /\ DOMAIN tokens = {}
  BY DEF Init
<1>3. SessionTypeOK
  BY <1>1, <1>2 DEF Init, SessionTypeOK, Steps
<1>4. \A t \in Tabs : Asks(step[t], req[t]) /\ Holds(step[t], req[t])
  BY <1>1, <1>2 DEF Init, Holds, Blank
<1> QED BY <1>1, <1>2, <1>3, <1>4 DEF Init, SessionInv, Numbered

\* Requests only ever hold tokens that exist and accounts that are well formed.
THEOREM SessionTypes == Spec => []SessionTypeOK
<1>1. SessionInv => SessionTypeOK
  BY DEF SessionInv
<1> QED BY <1>1, SessionStart, SessionStep, PTL DEF Spec

-------------------------------------------------------------------------------
(* Families *)

\* A request that does no work on a family disturbs none.
LEMMA FamilyRests ==
  ASSUME SessionInv, FamilyInv, NEW t \in Tabs, UNCHANGED <<tokens, raced>>, ~Works(t)',
         \A u \in Tabs \ {t} : step'[u] = step[u] /\ req'[u] = req[u]
  PROVE  FamilyInv'
<1>1. \A u \in Tabs : Works(u)' => Works(u) /\ u # t /\ Carried(u)' = Carried(u)
  BY DEF Works, Carried
<1>2. \A u \in Tabs : Turns(u)' => Turns(u) /\ step'[u] = step[u] /\ Carried(u)' = Carried(u)
  BY DEF Works, Turns, Carried
<1>3. WorksAlone'
  BY <1>1 DEF FamilyInv, WorksAlone
<1>4. OneUsableToken' /\ FamilyFallsTogether'
  BY DEF FamilyInv, OneUsableToken, Usable, FamilyFallsTogether
<1>5. FoundWhole'
  BY <1>2 DEF FamilyInv, FoundWhole
<1> QED BY <1>3, <1>4, <1>5 DEF FamilyInv

\* Finding a token: the family is the request's alone, or raced.
LEMMA FamilyFound ==
  ASSUME SessionInv, FamilyInv, NEW t \in Tabs, UNCHANGED <<tokens, req>>, step[t] = "find",
         Race(t), NEW s \in {"revoke", "rotate"}, step' = [step EXCEPT ![t] = s],
         s = "rotate" => Carried(t).dead # "revoked" /\ ~Carried(t).rotated
  PROVE  FamilyInv'
<1> DEFINE f == Carried(t).family
<1>1. step \in [Tabs -> Steps] /\ req[t].carried # 0 /\ req[t].carried \in DOMAIN tokens
  BY InHand DEF SessionInv, SessionTypeOK, Holds
<1>2. \A u \in Tabs : /\ Carried(u)' = Carried(u)
                      /\ u # t => step'[u] = step[u]
                      /\ step'[t] = s
  BY <1>1 DEF Carried
<1>3. raced \subseteq raced'
  BY DEF Race
<1>4. \A u \in Tabs \ {t} : f \notin raced' => ~(Works(u) /\ Carried(u).family = f)
  <2> SUFFICES ASSUME NEW u \in Tabs \ {t}, Works(u), Carried(u).family = f PROVE f \in raced'
    OBVIOUS
  <2>1. req[u].carried # 0
    BY InHand DEF Works, Asks, Holds
  <2>2. u \in OnFamily(f)
    BY <2>1 DEF OnFamily, Works
  <2> QED BY <2>2, Zenon DEF Race
<1>5. WorksAlone'
  <2> SUFFICES ASSUME NEW u \in Tabs, NEW v \in Tabs, Works(u)', Works(v)',
                      Carried(u).family = Carried(v).family, Carried(u).family \notin raced'
               PROVE  u = v
    BY <1>2, Zenon DEF WorksAlone
  <2>1. \A w \in Tabs \ {t} : Works(w)' => Works(w)
    BY <1>2 DEF Works
  <2>2. CASE u # t /\ v # t
    BY <1>3, <2>1, <2>2 DEF FamilyInv, WorksAlone
  <2>3. CASE u = t \/ v = t
    BY <1>4, <2>1, <2>3
  <2> QED BY <2>2, <2>3
<1>6. OneUsableToken' /\ FamilyFallsTogether'
  BY <1>3 DEF FamilyInv, OneUsableToken, Usable, FamilyFallsTogether
<1>7. FoundWhole'
  <2> SUFFICES ASSUME NEW u \in Tabs, Turns(u)', Carried(u).family \notin raced',
                      NEW k \in DOMAIN tokens, tokens[k].family = Carried(u).family
               PROVE  /\ step'[u] = "rotate" => ~Carried(u).rotated
                      /\ tokens[k].dead # "revoked" /\ (step'[u] = "issue" => tokens[k].rotated)
    <3>1. \A u \in Tabs : (Turns(u)' /\ Carried(u).family \notin raced') =>
            req[u].carried \in DOMAIN tokens
      BY <1>1, <1>2, InHand DEF Turns, Asks, Holds
    <3> QED BY <1>2, <3>1 DEF FoundWhole, Carried
  <2>1. CASE u = t
    <3>1. s = "rotate" /\ tokens[req[t].carried].dead # "revoked" /\ ~Carried(t).rotated
      BY <1>2, <2>1 DEF Turns, Carried
    <3> QED BY <1>1, <1>2, <1>3, <2>1, <3>1 DEF FamilyInv, FamilyFallsTogether, Carried
  <2>2. CASE u # t
    BY <1>2, <1>3, <2>2 DEF FamilyInv, FoundWhole, Turns
  <2> QED BY <2>1, <2>2
<1> QED BY <1>5, <1>6, <1>7 DEF FamilyInv

\* The same after the step.
LEMMA InHandNext ==
  ASSUME SessionInv', NEW t \in Tabs
  PROVE  /\ Asks(step[t], req[t])' /\ Holds(step[t], req[t])'
         /\ (req[t].carried # 0)' => (req[t].carried \in DOMAIN tokens)'
<1>1. Asks(step[t], req[t])' /\ Holds(step[t], req[t])'
  BY DEF SessionInv
<1>2. (req \in [Tabs -> Request])' /\ (tokens \in Seq(Token))'
  BY DEF SessionInv, SessionTypeOK
<1>3. (req[t].carried \in 0 .. MaxTokens)' /\ (req[t].carried <= Len(tokens))' /\ MaxTokens \in Nat
  BY <1>1, <1>2, SessionAssumption DEF Holds, Request
<1> QED BY <1>1, <1>2, <1>3

\* The request that rotates has its family to itself, or the family is raced.
LEMMA Alone ==
  ASSUME FamilyInv, NEW t \in Tabs, NEW u \in Tabs, u # t, Works(t), Works(u),
         Carried(u).family = Carried(t).family
  PROVE  Carried(t).family \in raced
  BY DEF FamilyInv, WorksAlone

\* Revoking: the whole family is down, and the others are as they were.
LEMMA FamilyRevoked ==
  ASSUME SessionInv, SessionInv', FamilyInv, NEW t \in Tabs, RevokeFamily(t)
  PROVE  FamilyInv'
<1> DEFINE f == Carried(t).family
<1>1. /\ step[t] = "revoke" /\ UNCHANGED raced /\ Works(t)
      /\ req[t].carried # 0 /\ req[t].carried \in DOMAIN tokens
  BY InHand DEF RevokeFamily, Answers, Goto, Asks, Holds, Works
<1>2. /\ step' = [step EXCEPT ![t] = "answer"] /\ step \in [Tabs -> Steps]
      /\ \A u \in Tabs \ {t} : step'[u] = step[u] /\ req'[u] = req[u]
  BY DEF RevokeFamily, Answers, Goto, SessionInv, SessionTypeOK
<1>3. /\ DOMAIN tokens' = DOMAIN tokens
      /\ \A k \in DOMAIN tokens :
           /\ tokens'[k].family = tokens[k].family /\ tokens'[k].rotated = tokens[k].rotated
           /\ tokens[k].family = f => tokens'[k].dead = "revoked"
           /\ tokens[k].family # f => tokens'[k].dead = tokens[k].dead
  <2>1. tokens' = [k \in DOMAIN tokens |-> IF tokens[k].family = f
                     THEN [tokens[k] EXCEPT !.dead = "revoked"] ELSE tokens[k]]
    BY DEF RevokeFamily, Members
  <2>2. \A k \in DOMAIN tokens : tokens[k] \in Token
    BY DEF SessionInv, SessionTypeOK
  <2> QED BY <2>1, <2>2 DEF Token
<1>4. ~Works(t)'
  BY <1>2 DEF Works
<1>5. ASSUME NEW u \in Tabs, Works(u)'
      PROVE  u # t /\ Works(u) /\ req'[u] = req[u] /\ Carried(u).family' = Carried(u).family
  <2>1. u # t /\ Works(u) /\ req'[u] = req[u]
    BY <1>2, <1>4, <1>5 DEF Works
  <2>2. req[u].carried \in DOMAIN tokens
    BY <2>1, InHand DEF Works, Asks, Holds
  <2> QED BY <1>3, <2>1, <2>2 DEF Carried
<1>6. WorksAlone'
  BY <1>1, <1>5 DEF FamilyInv, WorksAlone
<1>7. OneUsableToken'
  BY <1>1, <1>3 DEF FamilyInv, OneUsableToken, Usable
<1>8. FamilyFallsTogether'
  BY <1>1, <1>3 DEF FamilyInv, FamilyFallsTogether
<1>9. FoundWhole'
  <2> SUFFICES ASSUME NEW u \in Tabs, Turns(u)', Carried(u).family' \notin raced',
                      NEW k \in DOMAIN tokens, tokens'[k].family = Carried(u).family'
               PROVE  /\ step'[u] = "rotate" => ~Carried(u).rotated'
                      /\ tokens'[k].dead # "revoked" /\ (step'[u] = "issue" => tokens'[k].rotated)
    <3>1. \A u \in Tabs : Turns(u)' => req'[u].carried \in DOMAIN tokens
      BY <1>3, InHandNext DEF Turns, Asks, Holds
    <3> QED BY <1>3, <3>1 DEF FoundWhole, Carried
  <2>1. u # t /\ Works(u) /\ Carried(u).family' = Carried(u).family /\ Turns(u) /\ step'[u] = step[u]
    BY <1>2, <1>5 DEF Turns, Works
  <2>2. Carried(u).family # f
    BY <1>1, <2>1, Alone
  <2>3. req'[u] = req[u] /\ req[u].carried \in DOMAIN tokens
    <3>1. Works(u)'
      BY DEF Turns, Works
    <3>2. req[u].carried # 0
      BY <2>1, InHand DEF Turns, Asks, Holds
    <3> QED BY <1>5, <3>1, <3>2, InHand
  <2>4. Carried(u).rotated' = Carried(u).rotated
    BY <1>3, <2>3 DEF Carried
  <2> QED BY <1>1, <1>3, <2>1, <2>2, <2>4 DEF FamilyInv, FoundWhole
<1> QED BY <1>6, <1>7, <1>8, <1>9 DEF FamilyInv

\* Rotating: the family has no token left to present.
LEMMA FamilyRotated ==
  ASSUME SessionInv, SessionInv', FamilyInv, NEW t \in Tabs, MarkRotated(t)
  PROVE  FamilyInv'
<1> DEFINE f == Carried(t).family
<1>1. /\ step[t] = "rotate" /\ req[t].op = "refresh" /\ UNCHANGED <<raced, req>> /\ Works(t)
      /\ req[t].carried # 0 /\ req[t].carried \in DOMAIN tokens
  BY InHand DEF MarkRotated, Goto, Asks, Holds, Works
<1>2. /\ step' = [step EXCEPT ![t] = "issue"] /\ step \in [Tabs -> Steps]
      /\ \A u \in Tabs \ {t} : step'[u] = step[u]
  BY DEF MarkRotated, Goto, SessionInv, SessionTypeOK
<1>3. /\ DOMAIN tokens' = DOMAIN tokens
      /\ tokens'[req[t].carried].rotated
      /\ \A k \in DOMAIN tokens :
           /\ tokens'[k].family = tokens[k].family /\ tokens'[k].dead = tokens[k].dead
           /\ k # req[t].carried => tokens'[k].rotated = tokens[k].rotated
  <2>1. tokens' = [tokens EXCEPT ![req[t].carried].rotated = TRUE]
    BY DEF MarkRotated
  <2>2. \A k \in DOMAIN tokens : tokens[k] \in Token
    BY DEF SessionInv, SessionTypeOK
  <2> QED BY <1>1, <2>1, <2>2 DEF Token
<1>4. ASSUME NEW u \in Tabs, Works(u)'
      PROVE  Works(u) /\ Carried(u).family' = Carried(u).family
  <2>1. Works(u)
    BY <1>1, <1>2, <1>4 DEF Works
  <2>2. req[u].carried \in DOMAIN tokens
    BY <2>1, InHand DEF Works, Asks, Holds
  <2> QED BY <1>1, <1>3, <2>1, <2>2 DEF Carried
<1>5. WorksAlone'
  BY <1>1, <1>4 DEF FamilyInv, WorksAlone
<1>6. OneUsableToken'
  <2> SUFFICES ASSUME NEW j \in DOMAIN tokens, NEW k \in DOMAIN tokens,
                      tokens[j].family = tokens[k].family, tokens[j].family \notin raced,
                      ~tokens'[j].rotated, ~tokens'[k].rotated,
                      tokens[j].dead # "revoked", tokens[k].dead # "revoked"
               PROVE  j = k
    BY <1>1, <1>3 DEF OneUsableToken, Usable
  <2>1. j # req[t].carried /\ k # req[t].carried
    BY <1>3
  <2> QED BY <1>3, <2>1 DEF FamilyInv, OneUsableToken, Usable
<1>7. FamilyFallsTogether'
  BY <1>1, <1>3 DEF FamilyInv, FamilyFallsTogether
<1>8. FoundWhole'
  <2> SUFFICES ASSUME NEW u \in Tabs, Turns(u)', Carried(u).family' \notin raced',
                      NEW k \in DOMAIN tokens, tokens'[k].family = Carried(u).family'
               PROVE  /\ step'[u] = "rotate" => ~Carried(u).rotated'
                      /\ tokens'[k].dead # "revoked" /\ (step'[u] = "issue" => tokens'[k].rotated)
    <3>1. \A u \in Tabs : Turns(u)' => req'[u].carried \in DOMAIN tokens
      BY <1>3, InHandNext DEF Turns, Asks, Holds
    <3> QED BY <1>3, <3>1 DEF FoundWhole, Carried
  <2>1. Works(u) /\ Carried(u).family' = Carried(u).family /\ Turns(u) /\ tokens[k].family = Carried(u).family
        /\ Carried(u).family \notin raced
    BY <1>1, <1>2, <1>3, <1>4 DEF Turns, Works
  <2>2. tokens[k].dead # "revoked"
    BY <2>1 DEF FamilyInv, FoundWhole
  <2>3. CASE u = t
    <3>1. k # req[t].carried => tokens[k].rotated
      <4> SUFFICES ASSUME k # req[t].carried, ~tokens[k].rotated PROVE FALSE
        OBVIOUS
      <4>1. Turns(t) /\ f \notin raced /\ tokens[k].family = f
        BY <2>1, <2>3
      <4>2. tokens[req[t].carried].family = f /\ tokens[req[t].carried].dead # "revoked"
        BY <1>1, <4>1 DEF FamilyInv, FoundWhole, Carried
      <4>3. ~tokens[req[t].carried].rotated
        BY <1>1, <4>1 DEF FamilyInv, FoundWhole, Carried
      <4> QED BY <1>1, <2>2, <4>1, <4>2, <4>3 DEF FamilyInv, OneUsableToken, Usable
    <3> QED BY <1>2, <1>3, <2>2, <2>3, <3>1
  <2>4. CASE u # t
    <3>1. step'[u] = step[u]
      BY <1>2, <2>4
    <3>2. Carried(u).family # f
      BY <1>1, <2>1, <2>4, Alone
    <3>3. k # req[t].carried
      BY <2>1, <3>2 DEF Carried
    <3>4. req[u].carried \in DOMAIN tokens /\ req[u].carried # req[t].carried
      BY <2>1, <3>2, InHand DEF Works, Asks, Holds, Carried
    <3>5. Carried(u).rotated' = Carried(u).rotated
      BY <1>1, <1>3, <3>4 DEF Carried
    <3> QED BY <1>3, <2>1, <2>2, <3>1, <3>3, <3>5 DEF FamilyInv, FoundWhole
  <2> QED BY <2>3, <2>4
<1> QED BY <1>5, <1>6, <1>7, <1>8 DEF FamilyInv

\* Issuing: one token to present in a family that had none left, or a family of
\* its own.
LEMMA FamilyIssued ==
  ASSUME SessionInv, SessionInv', FamilyInv, NEW t \in Tabs, Issue(t)
  PROVE  FamilyInv'
<1> DEFINE n == Len(tokens) + 1
           f == IF req[t].op = "refresh" THEN Carried(t).family ELSE n
<1>1. /\ step[t] = "issue" /\ UNCHANGED raced /\ Len(tokens) \in Nat /\ tokens \in Seq(Token)
      /\ req[t].op = "refresh" => req[t].carried \in DOMAIN tokens
  BY InHand DEF Issue, Goto, Holds
<1>2. /\ step' = [step EXCEPT ![t] = "answer"] /\ step \in [Tabs -> Steps]
      /\ \A u \in Tabs \ {t} : step'[u] = step[u] /\ req'[u] = req[u]
  BY DEF Issue, Goto, SessionInv, SessionTypeOK
<1>3. PICK o : tokens' = Append(tokens, [owner |-> o, family |-> f, rotated |-> FALSE, dead |-> "no"])
  BY DEF Issue
<1>4. /\ DOMAIN tokens' = DOMAIN tokens \cup {n} /\ n \notin DOMAIN tokens
      /\ \A k \in DOMAIN tokens : tokens'[k] = tokens[k]
      /\ tokens'[n].family = f /\ tokens'[n].rotated = FALSE /\ tokens'[n].dead = "no"
  <2>1. Len(tokens') = n /\ DOMAIN tokens' = 1 .. n /\ tokens' \in Seq(Token)
    BY <1>1, <1>3 DEF SessionInv, SessionTypeOK
  <2>2. tokens'[n] = [owner |-> o, family |-> f, rotated |-> FALSE, dead |-> "no"]
        /\ \A k \in DOMAIN tokens : tokens'[k] = tokens[k]
    BY <1>1, <1>3
  <2> QED BY <1>1, <2>1, <2>2
<1>5. \A k \in DOMAIN tokens : tokens[k].family # n
  BY <1>1 DEF SessionInv, Numbered
<1>6. ~Works(t)'
  BY <1>2 DEF Works
<1>7. ASSUME NEW u \in Tabs, Works(u)'
      PROVE  u # t /\ Works(u) /\ step'[u] = step[u] /\ Carried(u)' = Carried(u)
             /\ req[u].carried \in DOMAIN tokens /\ (Turns(u)' => Turns(u))
  <2>1. u # t /\ Works(u) /\ req'[u] = req[u] /\ step'[u] = step[u]
    BY <1>2, <1>6, <1>7 DEF Works
  <2>2. req[u].carried \in DOMAIN tokens
    BY <2>1, InHand DEF Works, Asks, Holds
  <2> QED BY <1>4, <2>1, <2>2 DEF Carried, Turns
\* None of the family's tokens is revoked, and none can be presented any more.
<1>8. ASSUME f \notin raced, NEW k \in DOMAIN tokens, tokens[k].family = f
      PROVE  tokens[k].dead # "revoked" /\ tokens[k].rotated
  <2>1. req[t].op = "refresh"
    BY <1>5, <1>8
  <2>2. Turns(t)
    BY <1>1, <2>1 DEF Turns
  <2> QED BY <1>1, <1>8, <2>1, <2>2 DEF FamilyInv, FoundWhole
<1>9. WorksAlone'
  BY <1>1, <1>7 DEF FamilyInv, WorksAlone
<1>10. OneUsableToken'
  <2> SUFFICES ASSUME NEW j \in DOMAIN tokens', NEW k \in DOMAIN tokens',
                      tokens'[j].family = tokens'[k].family, tokens'[j].family \notin raced,
                      ~tokens'[j].rotated, ~tokens'[k].rotated,
                      tokens'[j].dead # "revoked", tokens'[k].dead # "revoked"
               PROVE  j = k
    BY <1>1 DEF OneUsableToken, Usable
  <2>1. CASE j \in DOMAIN tokens /\ k \in DOMAIN tokens
    BY <1>4, <2>1 DEF FamilyInv, OneUsableToken, Usable
  <2>2. CASE j = n \/ k = n
    BY <1>4, <1>8, <2>2
  <2> QED BY <1>4, <2>1, <2>2
<1>11. FamilyFallsTogether'
  <2> SUFFICES ASSUME NEW j \in DOMAIN tokens', NEW k \in DOMAIN tokens',
                      tokens'[j].family = tokens'[k].family, tokens'[j].family \notin raced,
                      tokens'[j].dead = "revoked"
               PROVE  tokens'[k].dead = "revoked"
    BY <1>1 DEF FamilyFallsTogether
  <2>1. j \in DOMAIN tokens /\ tokens[j].family # f
    BY <1>4, <1>8
  <2> QED BY <1>4, <2>1 DEF FamilyInv, FamilyFallsTogether
<1>12. FoundWhole'
  <2> SUFFICES ASSUME NEW u \in Tabs, Turns(u)', Carried(u).family' \notin raced'
               PROVE  /\ step'[u] = "rotate" => ~Carried(u).rotated'
                      /\ \A k \in DOMAIN tokens' : tokens'[k].family = Carried(u).family' =>
                           tokens'[k].dead # "revoked" /\ (step'[u] = "issue" => tokens'[k].rotated)
    BY Zenon DEF FoundWhole
  <2>1. Works(u)'
    BY DEF Turns, Works
  <2>2. u # t /\ Works(u) /\ Turns(u) /\ step'[u] = step[u] /\ Carried(u)' = Carried(u)
        /\ req[u].carried \in DOMAIN tokens
    BY <1>7, <2>1
  <2>3. Carried(u).family # f
    <3>1. CASE req[t].op = "refresh"
      BY <1>1, <2>2, <3>1, Alone DEF Works
    <3>2. CASE req[t].op # "refresh"
      BY <1>5, <2>2, <3>2 DEF Carried
    <3> QED BY <3>1, <3>2
  <2> QED BY <1>1, <1>4, <2>2, <2>3 DEF FamilyInv, FoundWhole
<1> QED BY <1>9, <1>10, <1>11, <1>12 DEF FamilyInv

\* A token that expires was not revoked.
LEMMA FamilyExpires ==
  ASSUME SessionInv, SessionInv', FamilyInv, NEW i \in 1 .. MaxTokens, Expire(i)
  PROVE  FamilyInv'
<1>1. UNCHANGED <<step, req, raced>> /\ tokens \in Seq(Token)
  BY DEF Expire, SessionInv, SessionTypeOK
<1>2. /\ DOMAIN tokens' = DOMAIN tokens
      /\ \A k \in DOMAIN tokens :
           /\ tokens'[k].family = tokens[k].family /\ tokens'[k].rotated = tokens[k].rotated
           /\ (tokens'[k].dead = "revoked") <=> (tokens[k].dead = "revoked")
  <2>1. \A k \in DOMAIN tokens : tokens[k] \in Token
    BY <1>1
  <2> QED BY <2>1 DEF Expire, Token
<1>3. \A u \in Tabs : Works(u) => req[u].carried \in DOMAIN tokens
  BY InHand DEF Works, Asks, Holds
<1>4. \A u \in Tabs : Works(u) => Carried(u).family' = Carried(u).family
                                  /\ Carried(u).rotated' = Carried(u).rotated
  BY <1>1, <1>2, <1>3 DEF Carried
<1>5. \A u \in Tabs : (Works(u)' <=> Works(u)) /\ (Turns(u)' <=> Turns(u)) /\ (Turns(u) => Works(u))
  BY <1>1 DEF Works, Turns
<1>6. WorksAlone'
  BY <1>1, <1>4, <1>5 DEF FamilyInv, WorksAlone
<1>7. OneUsableToken'
  BY <1>1, <1>2 DEF FamilyInv, OneUsableToken, Usable
<1>8. FamilyFallsTogether'
  BY <1>1, <1>2 DEF FamilyInv, FamilyFallsTogether
<1>9. FoundWhole'
  BY <1>1, <1>2, <1>4, <1>5 DEF FamilyInv, FoundWhole
<1> QED BY <1>6, <1>7, <1>8, <1>9 DEF FamilyInv

\* What a step may do to the requests and the families, in general: everything
\* but finding, revoking, rotating, issuing and expiring leaves tokens alone.
LEMMA StepKinds ==
  ASSUME SessionInv, Next
  PROVE  \/ \E t \in Tabs : \/ FindToken(t) \/ FindForLogout(t) \/ RevokeFamily(t)
                            \/ MarkRotated(t) \/ Issue(t)
         \/ \E i \in 1 .. MaxTokens : Expire(i)
         \/ \E t \in Tabs :
              /\ UNCHANGED <<tokens, raced>>
              /\ ~Works(t)'
              /\ \A u \in Tabs \ {t} : step'[u] = step[u] /\ req'[u] = req[u]
<1>1. step \in [Tabs -> Steps] /\ req \in [Tabs -> Request]
  BY DEF SessionInv, SessionTypeOK
<1> DEFINE Still(t) == /\ UNCHANGED <<tokens, raced>> /\ ~Works(t)'
                       /\ \A u \in Tabs \ {t} : step'[u] = step[u] /\ req'[u] = req[u]
<1>2. ASSUME NEW t \in Tabs, Ask(t) PROVE Still(t)
  <2>1. CASE Reload(t)
    BY <1>1, <2>1 DEF Reload, Works
  <2>2. ASSUME NEW o, NEW s \in {"byEmail", "byNickname", "verify", "find", "answer"}, NEW b,
               Send(t, o, s, b)
        PROVE  Still(t)
    BY <1>1, <2>2 DEF Send, Goto, Works
  <2>3. ASSUME NEW o, NEW b, Send(t, o, IF cookie = 0 THEN "answer" ELSE "find", b) PROVE Still(t)
    BY <2>2, <2>3
  <2> QED
    BY <1>2, <2>1, <2>2, <2>3 DEF Ask, SilentRefresh, SignOut, SignUp, SignIn, Rename
<1>3. ASSUME NEW t \in Tabs, AnswerLost(t) \/ Answer(t) PROVE Still(t)
  <2>1. PICK c, q : Done(t, c, q)
    BY <1>3 DEF AnswerLost, Answer
  <2>2. UNCHANGED <<tokens, raced>>
    BY <1>3 DEF AnswerLost, Answer, Done
  <2> QED BY <1>1, <2>1, <2>2 DEF Done, Goto, Works
<1>4. ASSUME NEW t \in Tabs, NEW here, NEW out, Answers(t, here, out), UNCHANGED <<tokens, raced>>
      PROVE  Still(t)
  BY <1>1, <1>4 DEF Answers, Goto, Works
<1>5. ASSUME NEW t \in Tabs, NEW here, NEW s \in Steps, Goto(t, here, s), UNCHANGED <<tokens, raced, req>>,
             s \in {"revoke", "rotate", "issue"} => req[t].op \notin {"refresh", "logout"}
      PROVE  Still(t)
  BY <1>1, <1>5 DEF Goto, Works
<1>6. ASSUME NEW t \in Tabs, CallFails(t) PROVE Still(t)
  BY <1>4, <1>6 DEF CallFails
<1>7. ASSUME NEW t \in Tabs, CheckEmail(t) \/ CheckNickname(t) PROVE Still(t)
  <2>1. UNCHANGED <<tokens, raced>>
    BY <1>7 DEF CheckEmail, CheckNickname
  <2>2. CASE \E here, out : Answers(t, here, out)
    BY <1>4, <2>1, <2>2
  <2>3. ASSUME NEW s \in {"byNickname", "update", "create"}, NEW here, Goto(t, here, s), UNCHANGED req
        PROVE  Still(t)
    BY <1>5, <2>1, <2>3 DEF Steps
  <2> QED BY <1>7, <2>2, <2>3 DEF CheckEmail, CheckNickname
<1>8. ASSUME NEW t \in Tabs, CreateUser(t) \/ UpdateUser(t) \/ Login(t) PROVE Still(t)
  <2>1. UNCHANGED <<tokens, raced>>
    BY <1>8 DEF CreateUser, UpdateUser, Login
  <2>2. CASE \E here, out : Answers(t, here, out)
    BY <1>4, <2>1, <2>2
  <2>3. ASSUME NEW here \in {"create", "verify"}, Goto(t, here, "issue"), UNCHANGED req
        PROVE  Still(t)
    <3>1. req[t].op \notin {"refresh", "logout"}
      BY <2>3, InHand DEF Goto, Asks
    <3> QED BY <1>5, <2>1, <2>3, <3>1 DEF Steps
  <2> QED BY <1>8, <2>2, <2>3 DEF CreateUser, UpdateUser, Login
<1> QED BY <1>2, <1>3, <1>6, <1>7, <1>8 DEF Next, Continue

\* Every step keeps the families of tokens whole.
LEMMA FamilyStep ==
  ASSUME SessionInv, FamilyInv, [Next]_vars PROVE FamilyInv'
<1>1. SessionInv'
  BY SessionStep
<1>2. CASE UNCHANGED vars
  BY <1>2 DEF vars, FamilyInv, WorksAlone, OneUsableToken, FamilyFallsTogether, FoundWhole,
     Works, Turns, Carried, Usable
<1>3. ASSUME NEW t \in Tabs, FindToken(t) \/ FindForLogout(t) PROVE FamilyInv'
  <2>1. /\ UNCHANGED tokens /\ step[t] = "find" /\ Race(t)
    BY <1>3 DEF FindToken, FindForLogout, Goto
  <2>2. ASSUME NEW s \in {"revoke", "rotate"}, Goto(t, "find", s), UNCHANGED req,
               s = "rotate" => Carried(t).dead # "revoked" /\ ~Carried(t).rotated
        PROVE  FamilyInv'
    BY <2>1, <2>2, FamilyFound DEF Goto
  <2>3. CASE FindForLogout(t)
    BY <2>2, <2>3 DEF FindForLogout
  <2>4. CASE FindToken(t) /\ UNCHANGED req /\ Carried(t).dead = "no"
             /\ Goto(t, "find", IF Carried(t).rotated THEN "revoke" ELSE "rotate")
    <3>1. CASE Carried(t).rotated
      BY <2>2, <2>4, <3>1
    <3>2. CASE ~Carried(t).rotated
      BY <2>2, <2>4, <3>2
    <3> QED BY <3>1, <3>2
  <2>5. CASE Answers(t, "find", "refused")
    <3>1. /\ step \in [Tabs -> Steps] /\ req \in [Tabs -> Request]
      BY DEF SessionInv, SessionTypeOK
    <3>2. ~Works(t)' /\ \A u \in Tabs \ {t} : step'[u] = step[u] /\ req'[u] = req[u]
      BY <2>5, <3>1 DEF Answers, Goto, Works
    <3>3. raced \subseteq raced'
      BY <2>1 DEF Race
    <3>4. \A u \in Tabs : Works(u)' => Works(u) /\ u # t /\ Carried(u)' = Carried(u)
      BY <2>1, <3>2 DEF Works, Carried
    <3>5. \A u \in Tabs : Turns(u)' => Turns(u) /\ step'[u] = step[u] /\ Carried(u)' = Carried(u)
      BY <2>1, <3>2 DEF Works, Turns, Carried
    <3>6. WorksAlone'
      BY <3>3, <3>4 DEF FamilyInv, WorksAlone
    <3>7. OneUsableToken' /\ FamilyFallsTogether'
      BY <2>1, <3>3 DEF FamilyInv, OneUsableToken, Usable, FamilyFallsTogether
    <3>8. FoundWhole'
      BY <2>1, <3>3, <3>5 DEF FamilyInv, FoundWhole
    <3> QED BY <3>6, <3>7, <3>8 DEF FamilyInv
  <2> QED BY <1>3, <2>3, <2>4, <2>5 DEF FindToken
<1> QED
  BY <1>1, <1>2, <1>3, StepKinds, FamilyRests, FamilyRevoked, FamilyRotated, FamilyIssued,
     FamilyExpires

\* The families are whole at every moment.
LEMMA FamilyAlways == Spec => [](SessionInv /\ FamilyInv)
<1>1. Init => FamilyInv
  <2> SUFFICES ASSUME Init PROVE FamilyInv
    OBVIOUS
  <2>1. DOMAIN tokens = {} /\ \A t \in Tabs : step[t] = "idle"
    BY DEF Init
  <2> QED
    BY <2>1 DEF FamilyInv, WorksAlone, OneUsableToken, FamilyFallsTogether, FoundWhole, Works, Turns
<1> QED BY <1>1, SessionStart, SessionStep, FamilyStep, PTL DEF Spec

\* However the requests of the tabs interleave, fail and expire: of a family no
\* two of them worked on at once, never two tokens can be presented
\* (refresh.usecase.ts, prisma-refresh-token.repository.ts).
THEOREM SingleUse == Spec => []OneUsableToken
<1>1. FamilyInv => OneUsableToken
  BY DEF FamilyInv
<1> QED BY <1>1, FamilyAlways, PTL

\* And such a family is never revoked in part: reuse and logout take all of it
\* down, and no rotation that was under way puts a live token into it.
THEOREM FallsTogether == Spec => []FamilyFallsTogether
<1>1. FamilyInv => FamilyFallsTogether
  BY DEF FamilyInv
<1> QED BY <1>1, FamilyAlways, PTL

-------------------------------------------------------------------------------
(* The cookie *)

\* One tab goes on, issuing nothing: what is on its way stays new.
LEMMA MadeKept ==
  ASSUME SessionInv, MadeIsNew, NEW t \in Tabs, NEW r \in Request, req' = [req EXCEPT ![t] = r],
         r.made = 0, r.carried \in {0, req[t].carried, cookie},
         cookie' \in {0, cookie, req[t].made},
         \A k \in DOMAIN tokens :
           (tokens'[k].rotated = tokens[k].rotated) \/ (\E u \in Tabs : req[u].carried = k)
  PROVE  MadeIsNew'
<1>1. req \in [Tabs -> Request]
  BY DEF SessionInv, SessionTypeOK
<1>2. req'[t] = r /\ \A u \in Tabs \ {t} : req'[u] = req[u]
  BY <1>1
<1> SUFFICES ASSUME NEW u \in Tabs, req'[u].made # 0
             PROVE  /\ ~tokens'[req'[u].made].rotated
                    /\ cookie' # req'[u].made
                    /\ \A v \in Tabs : req'[v].carried # req'[u].made
                    /\ \A v \in Tabs : req'[v].made = req'[u].made => v = u
  BY DEF MadeIsNew
<1> DEFINE m == req[u].made
<1>3. u # t /\ req'[u] = req[u] /\ m # 0 /\ m \in DOMAIN tokens
  BY <1>2, InHand
<1>4. /\ ~tokens[m].rotated /\ cookie # m /\ m # 0
      /\ \A v \in Tabs : req[v].carried # m
      /\ \A v \in Tabs : req[v].made = m => v = u
  BY <1>3 DEF MadeIsNew
<1>5. ~tokens'[m].rotated
  BY <1>3, <1>4
<1>6. cookie' # m
  BY <1>3, <1>4
<1>7. \A v \in Tabs : req'[v].carried # m
  BY <1>2, <1>4
<1>8. \A v \in Tabs : req'[v].made = m => v = u
  BY <1>2, <1>3, <1>4
<1> QED BY <1>3, <1>5, <1>6, <1>7, <1>8

\* And if it was not about to replace the cookie, the one that was still is.
LEMMA CookieKept ==
  ASSUME SessionInv, CookieInv, NEW t \in Tabs, NEW r \in Request, req' = [req EXCEPT ![t] = r],
         r.made = 0, r.carried \in {0, req[t].carried, cookie}, NEW s \in Steps,
         step' = [step EXCEPT ![t] = s],
         UNCHANGED cookie, faults \in Nat, faults' = faults \/ faults' = faults + 1,
         \A k \in DOMAIN tokens : tokens'[k].rotated = tokens[k].rotated,
         faults' = faults => ~Renews(t)
  PROVE  CookieInv'
<1>1. MadeIsNew'
  BY MadeKept DEF CookieInv
<1>2. req \in [Tabs -> Request] /\ step \in [Tabs -> Steps]
  BY DEF SessionInv, SessionTypeOK
<1>3. RotatedIsReplaced'
  <2> SUFFICES ASSUME faults' = 0, cookie # 0, tokens'[cookie].rotated PROVE \E u \in Tabs : Renews(u)'
    BY DEF RotatedIsReplaced
  <2>1. faults = 0 /\ tokens[cookie].rotated
    BY InHand
  <2>2. PICK u \in Tabs : Renews(u)
    BY <2>1 DEF CookieInv, RotatedIsReplaced
  <2>3. u # t /\ Renews(u)'
    BY <1>2, <2>1, <2>2 DEF Renews
  <2> QED BY <2>3
<1> QED BY <1>1, <1>3 DEF CookieInv

\* Every step keeps what is known of the cookie and the tokens requests carry.
LEMMA CookieStep ==
  ASSUME SessionInv, CookieInv, [Next]_vars PROVE CookieInv'
<1>1. /\ step \in [Tabs -> Steps] /\ req \in [Tabs -> Request] /\ faults \in Nat
      /\ tokens \in Seq(Token) /\ Len(tokens) \in Nat /\ cookie \in 0 .. MaxTokens
      /\ MaxTokens \in Nat
  BY SessionAssumption DEF SessionInv, SessionTypeOK
<1>2. Blank \in Request /\ Blank.made = 0 /\ Blank.carried = 0
  BY <1>1 DEF Blank, NoRow, Request
<1>3. CASE UNCHANGED vars
  BY <1>3 DEF vars, CookieInv, MadeIsNew, RotatedIsReplaced, Renews
<1>4. ASSUME NEW t \in Tabs, NEW o \in {"register", "login", "refresh", "logout", "rename"},
             NEW s \in Steps,
             NEW b \in [email : Emails \cup {"none"}, nickname : Nicknames \cup {"none"}],
             Send(t, o, s, b)
      PROVE  CookieInv'
  <2>1. PICK r \in Request : r = [Blank EXCEPT !.op = o, !.body = b, !.carried = cookie]
    BY <1>1, BlankTyped
  <2>2. r.made = 0 /\ r.carried = cookie
    BY <2>1 DEF Blank
  <2>3. /\ step[t] = "idle" /\ step' = [step EXCEPT ![t] = s] /\ req' = [req EXCEPT ![t] = r]
        /\ UNCHANGED <<tokens, cookie, faults>>
    BY <1>4, <2>1 DEF Send, Goto
  <2>4. ~Renews(t)
    BY <2>3 DEF Renews
  <2> QED BY <1>1, <2>2, <2>3, <2>4, CookieKept
<1>5. ASSUME NEW t \in Tabs, NEW here, NEW out \in {"ok", "refused", "error"}, Answers(t, here, out),
             UNCHANGED cookie, faults' = faults \/ faults' = faults + 1,
             \A k \in DOMAIN tokens : tokens'[k].rotated = tokens[k].rotated,
             faults' = faults => here \notin {"issue", "answer"}
      PROVE  CookieInv'
  <2>1. PICK r \in Request : /\ step' = [step EXCEPT ![t] = "answer"] /\ req' = [req EXCEPT ![t] = r]
                             /\ r.carried = 0 /\ r.made = 0
    <3>1. PICK r \in Request : r = [Blank EXCEPT !.op = req[t].op, !.outcome = out]
      <4>1. req[t].op \in {"none", "register", "login", "refresh", "logout", "rename"}
            /\ 0 \in 0 .. MaxTokens
        BY <1>1 DEF Request
      <4> QED BY <4>1 DEF Blank, NoRow, Request
    <3>2. r.carried = 0 /\ r.made = 0
      BY <3>1 DEF Blank
    <3> QED BY <1>5, <3>1, <3>2 DEF Answers, Goto
  <2>2. faults' = faults => ~Renews(t)
    BY <1>5 DEF Renews, Answers, Goto
  <2> QED BY <1>1, <1>5, <2>1, <2>2, CookieKept DEF Steps
<1>6. ASSUME NEW t \in Tabs, NEW here \in Steps \ {"issue", "answer"}, NEW s \in Steps, Goto(t, here, s),
             UNCHANGED <<req, tokens, cookie, faults>>
      PROVE  CookieInv'
  <2>1. req' = [req EXCEPT ![t] = req[t]] /\ req[t] \in Request /\ req[t].made = 0 /\ ~Renews(t)
    BY <1>1, <1>6, InHand DEF Goto, Holds, Renews
  <2> QED BY <1>1, <1>6, <2>1, CookieKept DEF Goto
<1>7. ASSUME NEW t \in Tabs, Ask(t) PROVE CookieInv'
  <2>1. NoRow \in [email : Emails \cup {"none"}, nickname : Nicknames \cup {"none"}]
    BY DEF NoRow
  <2>2. CASE SilentRefresh(t)
    BY <1>4, <2>1, <2>2 DEF SilentRefresh, Steps
  <2>3. CASE SignOut(t)
    BY <1>4, <2>1, <2>3 DEF SignOut, Steps
  <2>4. CASE Reload(t)
    BY <2>4 DEF Reload, CookieInv, MadeIsNew, RotatedIsReplaced, Renews
  <2>5. ASSUME NEW body \in Rows, SignUp(t, body) PROVE CookieInv'
    BY <1>4, <2>5 DEF SignUp, Steps, Rows
  <2>6. ASSUME NEW e \in Emails, SignIn(t, e) PROVE CookieInv'
    <3>1. [NoRow EXCEPT !.email = e] \in
                [email : Emails \cup {"none"}, nickname : Nicknames \cup {"none"}]
      BY DEF NoRow
    <3> QED BY <1>4, <2>6, <3>1 DEF SignIn, Steps
  <2>7. ASSUME NEW n \in Nicknames, Rename(t, n) PROVE CookieInv'
    <3>1. [email |-> page[t], nickname |-> n] \in
                [email : Emails \cup {"none"}, nickname : Nicknames \cup {"none"}]
      BY <2>7 DEF Rename
    <3> QED BY <1>4, <2>7, <3>1 DEF Rename, Steps
  <2> QED BY <1>7, <2>2, <2>3, <2>4, <2>5, <2>6, <2>7 DEF Ask
<1>8. ASSUME NEW t \in Tabs, CallFails(t) PROVE CookieInv'
  <2>1. /\ UNCHANGED <<tokens, cookie>> /\ faults' = faults + 1 /\ faults' # faults
        /\ Answers(t, step[t], "error")
    BY <1>1, <1>8 DEF CallFails
  <2> QED BY <1>5, <2>1
<1>9. ASSUME NEW t \in Tabs,
             CheckEmail(t) \/ CheckNickname(t) \/ CreateUser(t) \/ UpdateUser(t) \/ Login(t)
               \/ FindToken(t) \/ FindForLogout(t)
      PROVE  CookieInv'
  <2>1. UNCHANGED <<tokens, cookie, faults>>
    BY <1>9 DEF CheckEmail, CheckNickname, CreateUser, UpdateUser, Login, FindToken, FindForLogout
  <2>2. ASSUME NEW here \in Steps \ {"issue", "answer"}, NEW out \in {"ok", "refused"},
               Answers(t, here, out)
        PROVE  CookieInv'
    BY <1>5, <2>1, <2>2
  <2>3. ASSUME NEW here \in Steps \ {"issue", "answer"}, NEW s \in Steps, Goto(t, here, s), UNCHANGED req
        PROVE  CookieInv'
    BY <1>6, <2>1, <2>3
  <2>4. CASE CheckEmail(t) \/ CheckNickname(t)
    BY <2>2, <2>3, <2>4 DEF CheckEmail, CheckNickname, Steps
  <2>5. CASE CreateUser(t) \/ UpdateUser(t) \/ Login(t)
    BY <2>2, <2>3, <2>5 DEF CreateUser, UpdateUser, Login, Steps
  <2>6. CASE FindToken(t) \/ FindForLogout(t)
    BY <2>2, <2>3, <2>6 DEF FindToken, FindForLogout, Steps
  <2> QED BY <1>9, <2>4, <2>5, <2>6
<1>10. ASSUME NEW t \in Tabs, RevokeFamily(t) PROVE CookieInv'
  <2>1. \A k \in DOMAIN tokens : tokens'[k].rotated = tokens[k].rotated
    <3>1. \A k \in DOMAIN tokens : tokens[k] \in Token
      BY <1>1
    <3> QED BY <1>10, <3>1 DEF RevokeFamily, Token
  <2>2. UNCHANGED <<cookie, faults>> /\ \E out \in {"ok", "refused"} : Answers(t, "revoke", out)
    BY <1>10 DEF RevokeFamily
  <2> QED BY <1>5, <2>1, <2>2
<1>11. ASSUME NEW t \in Tabs, MarkRotated(t) PROVE CookieInv'
  <2>1. /\ step[t] = "rotate" /\ step'[t] = "issue" /\ req[t].op = "refresh" /\ req[t].made = 0
        /\ UNCHANGED <<req, cookie, faults>>
    BY <1>1, <1>11, InHand DEF MarkRotated, Goto, Asks, Holds
  <2>2. RotatedIsReplaced'
    BY <2>1 DEF RotatedIsReplaced, Renews
  <2>3. \A k \in DOMAIN tokens : tokens'[k].rotated = tokens[k].rotated \/ req[t].carried = k
    <3>1. \A k \in DOMAIN tokens : tokens[k] \in Token
      BY <1>1
    <3> QED BY <1>1, <1>11, <3>1 DEF MarkRotated
  <2>4. req' = [req EXCEPT ![t] = req[t]] /\ req[t] \in Request
    BY <1>1, <2>1
  <2>5. MadeIsNew'
    BY <2>1, <2>3, <2>4, MadeKept DEF CookieInv
  <2> QED BY <2>2, <2>5 DEF CookieInv
<1>12. ASSUME NEW t \in Tabs, Issue(t) PROVE CookieInv'
  <2> DEFINE n == Len(tokens) + 1
  <2>1. /\ step[t] = "issue" /\ step' = [step EXCEPT ![t] = "answer"] /\ UNCHANGED <<cookie, faults>>
        /\ req[t].made = 0
    BY <1>12, InHand DEF Issue, Goto, Holds
  <2>2. PICK r \in Request : r.op = req[t].op /\ r.carried = 0 /\ r.made = n
                             /\ req' = [req EXCEPT ![t] = r]
    <3>1. /\ req[t].op \in {"none", "register", "login", "refresh", "logout", "rename"}
          /\ 0 \in 0 .. MaxTokens /\ n \in 0 .. MaxTokens
      BY <1>1, <1>12 DEF Request, Issue
    <3>2. PICK r \in Request : r = [Blank EXCEPT !.op = req[t].op, !.made = n, !.outcome = "ok"]
      BY <3>1 DEF Blank, NoRow, Request
    <3>3. r.op = req[t].op /\ r.carried = 0 /\ r.made = n
      BY <3>2 DEF Blank
    <3> QED BY <1>12, <3>2, <3>3 DEF Issue
  <2>3. /\ \A k \in DOMAIN tokens : tokens'[k] = tokens[k]
        /\ tokens'[n].rotated = FALSE
    <3>1. PICK o, f : tokens' = Append(tokens, [owner |-> o, family |-> f, rotated |-> FALSE, dead |-> "no"])
      BY <1>12 DEF Issue
    <3>2. tokens'[n] = [owner |-> o, family |-> f, rotated |-> FALSE, dead |-> "no"]
          /\ \A k \in DOMAIN tokens : tokens'[k] = tokens[k]
      BY <1>1, <3>1
    <3> QED BY <3>2
  <2>4. \A u \in Tabs : req[u].made # n /\ req[u].carried # n
    BY <1>1, InHand DEF Holds
  <2>5. cookie # n
    BY <1>1 DEF SessionInv
  <2>6. req'[t] = r /\ \A u \in Tabs \ {t} : req'[u] = req[u]
    BY <1>1, <2>2
  <2>7. MadeIsNew'
    <3> SUFFICES ASSUME NEW u \in Tabs, req'[u].made # 0
                 PROVE  /\ ~tokens'[req'[u].made].rotated
                        /\ cookie' # req'[u].made
                        /\ \A v \in Tabs : req'[v].carried # req'[u].made
                        /\ \A v \in Tabs : req'[v].made = req'[u].made => v = u
      BY DEF MadeIsNew
    <3>1. CASE u = t
      <4>1. req'[u].made = n
        BY <2>2, <2>6, <3>1
      <4>2. \A v \in Tabs : req'[v].carried # n
        BY <1>1, <2>2, <2>4, <2>6
      <4>3. \A v \in Tabs : req'[v].made = n => v = u
        BY <2>4, <2>6, <3>1
      <4> QED BY <2>1, <2>3, <2>5, <4>1, <4>2, <4>3
    <3>2. CASE u # t
      <4> DEFINE m == req[u].made
      <4>1. req'[u] = req[u] /\ m # 0 /\ m \in DOMAIN tokens /\ m # n
        BY <2>4, <2>6, <3>2, InHand
      <4>2. /\ ~tokens[m].rotated /\ cookie # m
            /\ \A v \in Tabs : req[v].carried # m
            /\ \A v \in Tabs : req[v].made = m => v = u
        BY <4>1 DEF CookieInv, MadeIsNew
      <4>3. \A v \in Tabs : req'[v].carried # m
        BY <2>2, <2>6, <4>1, <4>2
      <4>4. \A v \in Tabs : req'[v].made = m => v = u
        BY <2>2, <2>6, <4>1, <4>2
      <4> QED BY <2>1, <2>3, <4>1, <4>2, <4>3, <4>4
    <3> QED BY <3>1, <3>2
  <2>8. RotatedIsReplaced'
    <3> SUFFICES ASSUME faults = 0, cookie # 0, tokens'[cookie].rotated PROVE \E u \in Tabs : Renews(u)'
      BY <2>1 DEF RotatedIsReplaced
    <3>1. tokens[cookie].rotated
      BY <2>3, InHand
    <3>2. PICK u \in Tabs : Renews(u)
      BY <3>1 DEF CookieInv, RotatedIsReplaced
    <3>3. Renews(u)'
      BY <1>1, <2>1, <2>2, <2>6, <3>2 DEF Renews
    <3> QED BY <3>3
  <2> QED BY <2>7, <2>8 DEF CookieInv
<1>13. ASSUME NEW t \in Tabs, AnswerLost(t) PROVE CookieInv'
  <2>1. /\ step' = [step EXCEPT ![t] = "idle"] /\ req' = [req EXCEPT ![t] = Blank]
        /\ UNCHANGED <<tokens, cookie>> /\ faults' = faults + 1 /\ faults' # faults
    BY <1>1, <1>13 DEF AnswerLost, Done, Goto
  <2> QED BY <1>1, <1>2, <2>1, CookieKept DEF Steps
<1>14. ASSUME NEW t \in Tabs, Answer(t) PROVE CookieInv'
  <2>1. /\ step[t] = "answer" /\ step' = [step EXCEPT ![t] = "idle"] /\ req' = [req EXCEPT ![t] = Blank]
        /\ UNCHANGED <<tokens, faults>> /\ cookie' \in {0, cookie, req[t].made}
        /\ (cookie' = cookie /\ req[t].op = "refresh") => cookie' \in {0, req[t].made}
    BY <1>14 DEF Answer, Done, Goto
  <2>2. CASE cookie' = cookie /\ ~Renews(t)
    BY <1>1, <1>2, <2>1, <2>2, CookieKept DEF Steps
  <2>3. CASE cookie' \in {0, req[t].made}
    <3>1. MadeIsNew'
      BY <1>2, <2>1, MadeKept DEF CookieInv
    <3>2. cookie' # 0 => ~tokens'[cookie'].rotated
      BY <2>1, <2>3 DEF CookieInv, MadeIsNew
    <3> QED BY <3>1, <3>2 DEF CookieInv, RotatedIsReplaced
  <2> QED BY <2>1, <2>2, <2>3 DEF Renews
<1>15. ASSUME NEW i \in 1 .. MaxTokens, Expire(i) PROVE CookieInv'
  <2>1. \A k \in DOMAIN tokens : tokens'[k].rotated = tokens[k].rotated
    <3>1. \A k \in DOMAIN tokens : tokens[k] \in Token
      BY <1>1
    <3> QED BY <1>15, <3>1 DEF Expire, Token
  <2>2. UNCHANGED <<req, cookie>> /\ faults' # 0
    BY <1>1, <1>15 DEF Expire
  <2>3. \A u \in Tabs : req[u].made # 0 => req[u].made \in DOMAIN tokens
    BY InHand
  <2>4. MadeIsNew'
    BY <2>1, <2>2, <2>3 DEF CookieInv, MadeIsNew
  <2> QED BY <2>2, <2>4 DEF CookieInv, RotatedIsReplaced
<1> QED
  BY <1>3, <1>7, <1>8, <1>9, <1>10, <1>11, <1>12, <1>13, <1>14, <1>15 DEF Next, Continue

\* However the answers of the tabs overtake each other: what the jar holds when
\* nothing is under way was never rotated, unless a call or an answer was lost
\* (auth.controller.ts).
THEOREM FreshCookie == Spec => []CookieIsFresh
<1>1. Init => CookieInv
  <2> SUFFICES ASSUME Init PROVE CookieInv
    OBVIOUS
  <2>1. cookie = 0 /\ \A t \in Tabs : req[t].made = 0
    BY DEF Init, Blank
  <2> QED BY <2>1 DEF CookieInv, MadeIsNew, RotatedIsReplaced
<1>2. CookieInv => CookieIsFresh
  BY DEF CookieInv, RotatedIsReplaced, CookieIsFresh, Renews
<1> QED BY <1>1, <1>2, SessionStart, SessionStep, CookieStep, PTL DEF Spec
-------------------------------------------------------------------------------
(* One page and its access tokens *)

AccessTypeOK ==
  /\ clock \in Nat /\ clock >= 1
  /\ awake \in BOOLEAN /\ jar \in BOOLEAN /\ late \in BOOLEAN /\ leaving \in BOOLEAN
  /\ status \in {"loading", "authenticated", "anonymous"}
  /\ token \in Nat /\ timer \in Nat
  /\ call \in [Calls -> [at : {"none", "asked", "answered"}, since : Nat, token : Nat]]
  /\ link \in [at : {"none", "connecting", "connected", "unauthorized", "server_full"},
               token : Nat]

\* The timer, or the renewal it started, is early enough for the token.
InTime ==
  (status = "authenticated" /\ ~late) =>
    /\ timer # None => timer + Margin <= token + OneWay
    /\ timer = None => call["refresh"].since + Margin <= token + OneWay
    /\ (awake /\ timer # None) => clock <= timer
    /\ (awake /\ timer = None) => clock <= call["refresh"].since + OneWay

\* The socket belongs to the session of the page.
LinkIsOurs == link.at # "none" => status = "authenticated" /\ link.token = token

\* Signing out earns no token.
OnlyAccess == call["logout"].at # "answered"

\* Nothing that is under way can bring the session back.
LeavingForGood ==
  leaving =>
    /\ status # "authenticated" /\ timer = None /\ Quiet("login")
    /\ Quiet("refresh") \/ (call["refresh"].at = "asked" /\ ~jar)

PageInv ==
  /\ AccessTypeOK
  /\ InTime
  /\ RenewalIsComing
  /\ LinkIsOurs /\ OnlyAccess
  /\ link.at = "unauthorized" => late
  /\ LeavingForGood
  /\ status # "authenticated" => timer = None

\* The renewal leaves the margin.
LEMMA DelayIs ==
  Delay = Lifetime - Margin /\ Delay \in Nat
<1> DEFINE D == {Soonest, Lifetime - Margin}
<1>1. Soonest \in Nat /\ Lifetime \in Nat /\ Margin \in Nat /\ Soonest <= Lifetime - Margin
  BY PageAccessAssumption
<1>2. Lifetime - Margin \in D /\ \A y \in D : Lifetime - Margin >= y
  BY <1>1
<1>3. PICK m \in D : m = Max(D) /\ \A y \in D : m >= y
  BY <1>2, Zenon DEF Max
<1>4. m = Lifetime - Margin
  BY <1>1, <1>2, <1>3
<1> QED BY <1>1, <1>3, <1>4 DEF Delay

\* Every step of the page keeps its types.
LEMMA AccessTypes ==
  ASSUME AccessTypeOK, AccessNext PROVE AccessTypeOK'
<1> USE DEF AccessTypeOK, None, Calls, NoCall, NoLink, accountVars
<1>0. Lifetime \in Nat BY PageAccessAssumption
<1>1. CASE LoadPage BY <1>1 DEF LoadPage, OpenSocket, Asking, Quiet
<1>2. CASE RenewalDue BY <1>2 DEF RenewalDue, Asking
<1>3. CASE AskIn BY <1>3 DEF AskIn, Asking
<1>4. CASE AskOut BY <1>4 DEF AskOut, Asking
<1>5. ASSUME NEW k \in Calls, IssueAccess(k) PROVE AccessTypeOK'
  BY <1>0, <1>5 DEF IssueAccess
<1>6. ASSUME NEW k \in Calls, Granted(k) PROVE AccessTypeOK'
  BY <1>0, <1>6, DelayIs, PageAccessAssumption DEF Granted, ApplySession, OpenSocket
<1>7. CASE RefreshFails BY <1>7 DEF RefreshFails, ClearSession, OpenSocket
<1>8. CASE LoginFails BY <1>8 DEF LoginFails
<1>9. CASE SignedOut BY <1>9 DEF SignedOut, ClearSession, OpenSocket, Quiet
<1>10. CASE Handshake BY <1>10 DEF Handshake, Admit
<1>11. CASE Shed BY <1>11 DEF Shed, Admit
<1>12. CASE Cut BY <1>12 DEF Cut
<1>13. CASE Sleep BY <1>13 DEF Sleep
<1>14. CASE Wake BY <1>14 DEF Wake
<1>15. CASE ClockTicks BY <1>15 DEF ClockTicks
<1> QED
  BY <1>1, <1>2, <1>3, <1>4, <1>5, <1>6, <1>7, <1>8, <1>9, <1>10, <1>11, <1>12, <1>13,
     <1>14, <1>15 DEF AccessNext

\* A renewal that is due, the margin behind it, and the answer: in time.
LEMMA FreshInTime ==
  ASSUME PageInv PROVE TokenIsFresh /\ RefusalIsExplained
<1>1. {OneWay, Margin} \subseteq Nat /\ 2 * OneWay < Margin
  BY PageAccessAssumption
<1>2. TokenIsFresh
  BY <1>1 DEF PageInv, AccessTypeOK, InTime, RenewalIsComing, TokenIsFresh, Valid, None, Calls
<1> QED BY <1>2 DEF PageInv, RefusalIsExplained, LinkIsOurs, RenewalIsComing

\* Every step of the page keeps its invariant.
LEMMA AccessStep ==
  ASSUME PageInv, AccessNext PROVE PageInv'
<1>1. AccessTypeOK /\ AccessTypeOK'
  BY AccessTypes DEF PageInv
<1>2. {Lifetime, Margin, OneWay} \subseteq Nat /\ 2 * OneWay < Margin
  BY PageAccessAssumption
<1> DEFINE Rest ==
      /\ InTime /\ RenewalIsComing /\ LinkIsOurs /\ OnlyAccess /\ (link.at = "unauthorized" => late)
      /\ LeavingForGood /\ (status # "authenticated" => timer = None)
<1> SUFFICES Rest' BY <1>1, Zenon DEF PageInv
<1> USE DEF PageInv, InTime, RenewalIsComing, LinkIsOurs, OnlyAccess, LeavingForGood,
        AccessTypeOK,
        None, Calls, NoCall, NoLink, accountVars, Quiet
<1>3. CASE LoadPage BY <1>1, <1>2, <1>3 DEF LoadPage, OpenSocket, Asking
<1>4. CASE RenewalDue BY <1>1, <1>2, <1>4 DEF RenewalDue, Asking
<1>5. CASE AskIn BY <1>1, <1>5 DEF AskIn, Asking
<1>6. CASE AskOut BY <1>1, <1>6 DEF AskOut, Asking
<1>7. ASSUME NEW k \in Calls, IssueAccess(k) PROVE Rest'
  BY <1>1, <1>7 DEF IssueAccess
<1>8. ASSUME NEW k \in Calls, Granted(k) PROVE Rest'
  <2>1. /\ timer' = clock + (Lifetime - Margin) /\ timer' # 0
        /\ token' = call[k].token /\ status' = "authenticated" /\ clock' = clock /\ awake
        /\ late' = (token' < clock + Lifetime - OneWay)
    BY <1>1, <1>2, <1>8, DelayIs DEF Granted, ApplySession
  <2>2. ~late' => ~(token' < clock + Lifetime - OneWay)
    BY <2>1, Zenon
  <2>5. InTime'
    <3>1. clock' <= timer' /\ token' \in Nat /\ timer' \in Nat
      BY <1>1, <1>2, <2>1, DelayIs
    <3>2. ~late' => timer' + Margin <= token' + OneWay
      BY <1>1, <1>2, <2>1, <2>2, <3>1
    <3> QED BY <2>1, <3>1, <3>2
  <2>3. /\ LinkIsOurs' /\ (link.at = "unauthorized" => late)' /\ RenewalIsComing'
        /\ (status # "authenticated" => timer = None)'
    BY <1>1, <1>8, <2>1 DEF Granted, ApplySession, OpenSocket
  <2>4. ~leaving /\ ~leaving' /\ OnlyAccess'
    BY <1>1, <1>8 DEF Granted
  <2> QED BY <2>5, <2>3, <2>4
<1>9. CASE RefreshFails BY <1>1, <1>9 DEF RefreshFails, ClearSession, OpenSocket
<1>10. CASE LoginFails BY <1>1, <1>10 DEF LoginFails
<1>11. CASE SignedOut BY <1>1, <1>11 DEF SignedOut, ClearSession, OpenSocket
<1>12. CASE Handshake
  BY <1>1, <1>12, FreshInTime DEF Handshake, Admit, TokenIsFresh, Valid
<1>13. CASE Shed BY <1>1, <1>13 DEF Shed, Admit
<1>14. CASE Cut BY <1>1, <1>14 DEF Cut
<1>15. CASE Sleep BY <1>1, <1>15 DEF Sleep
<1>16. CASE Wake
  <2>1. UNCHANGED <<clock, status, token, timer, call, jar, link, leaving>>
    BY <1>16 DEF Wake
  <2>2. late => late'
    BY <1>16, Zenon DEF Wake
  <2>3. ~late' => ~late /\ call["refresh"].at = "none" /\ ~(timer # 0 /\ timer < clock)
    BY <1>16, Zenon DEF Wake
  <2> QED BY <1>1, <1>2, <2>1, <2>2, <2>3
<1>17. CASE ClockTicks
  <2>1. /\ clock' = clock + 1
        /\ (awake /\ timer # 0) => clock < timer
        /\ (awake /\ ~Quiet("refresh")) => clock < call["refresh"].since + OneWay
    BY <1>17 DEF ClockTicks, Punctual
  <2> QED BY <1>1, <1>2, <1>17, <2>1 DEF ClockTicks
<1> QED
  BY <1>3, <1>4, <1>5, <1>6, <1>7, <1>8, <1>9, <1>10, <1>11, <1>12, <1>13,
     <1>14, <1>15, <1>16, <1>17 DEF AccessNext

\* Whatever sign-ins, renewals, failures and sleeps cross: a page that runs and
\* has not slept through its renewal never holds an expired token, a session
\* always has a renewal ahead of it, a socket is only refused after such a sleep,
\* and who signed out stays so - for every lifetime and margin that leave room
\* for a renewal (auth-context.tsx:41-42, :56-91, :106-109).
THEOREM PageServed == AccessSpec => []PageIsServed
<1>1. AccessInit => PageInv
  <2> SUFFICES ASSUME AccessInit PROVE PageInv
    OBVIOUS
  <2>1. call \in [Calls -> [at : {"none", "asked", "answered"}, since : Nat, token : Nat]]
    BY DEF AccessInit, Calls, NoCall, None
  <2>2. call["login"].at = "none" /\ call["logout"].at = "none" /\ link.at = "none"
    BY DEF AccessInit, Calls, NoCall, NoLink, None
  <2>3. /\ clock = 1 /\ awake = TRUE /\ jar \in BOOLEAN /\ late = FALSE /\ leaving = FALSE
        /\ status = "loading" /\ token = 0 /\ timer = 0 /\ link = [at |-> "none", token |-> 0]
    BY DEF AccessInit, NoLink, None
  <2>4. AccessTypeOK
    <3>1. awake \in BOOLEAN /\ jar \in BOOLEAN /\ late \in BOOLEAN /\ leaving \in BOOLEAN
      BY <2>3, Zenon
    <3>2. clock \in Nat /\ clock >= 1 /\ token \in Nat /\ timer \in Nat
      BY <2>3
    <3>3. link \in [at : {"none", "connecting", "connected", "unauthorized", "server_full"},
                    token : Nat]
      BY <2>3
    <3> QED BY <2>1, <2>3, <3>1, <3>2, <3>3, Zenon DEF AccessTypeOK
  <2>5. status # "authenticated" /\ link.at # "unauthorized" /\ ~leaving
    BY <2>2, <2>3
  <2> QED
    BY <2>2, <2>3, <2>4, <2>5, Zenon DEF PageInv, InTime, RenewalIsComing, LinkIsOurs, OnlyAccess,
      LeavingForGood, None, Quiet
<1>2. PageInv /\ [AccessNext]_accessVars => PageInv'
  <2> SUFFICES ASSUME PageInv, UNCHANGED accessVars PROVE PageInv'
    BY AccessStep
  <2> QED
    BY DEF PageInv, AccessTypeOK, InTime, RenewalIsComing, LinkIsOurs, OnlyAccess,
           LeavingForGood, accessVars, accountVars, Quiet
<1>3. PageInv => PageIsServed
  BY FreshInTime DEF PageInv, PageIsServed, LeavingForGood, SignedOutStaysOut
<1> QED BY <1>1, <1>2, <1>3, PTL DEF AccessSpec
==============================================================================
