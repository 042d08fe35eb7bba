---------------------------- MODULE WebSessionProofs ----------------------------
(***************************************************************************)
(* Proofs about WebSession, for every set of users, roles, pages and slots *)
(* and whatever the bounds: what one tab of a browser shows and sends      *)
(* while sessions change under the answers on their way to it.             *)
(***************************************************************************)
EXTENDS WebSession, TLAPS

OneTab == \E t : Tabs = {t}

SessionStates == [is : {"data"}, sid : Sids, failed : BOOLEAN]
                 \cup [is : {"null", "pending"}, failed : BOOLEAN]

WebTypeOK ==
  /\ account \in [Sids -> Users \cup {None}]
  /\ live \subseteq Sids
  /\ cookie \in Cookies
  /\ csrfToken \in [Tabs -> Cookies]
  /\ session \in [Tabs -> SessionStates]
  /\ data \in [Tabs -> Users \cup {None}]
  /\ page \in [Tabs -> Visited]
  /\ request \in [Slots -> Sent \cup Answers \cup {None}]
  /\ failures \in Nat

-----------------------------------------------------------------------------
(* The inductive invariant.                                                *)

Known == {s \in Sids : account[s] # None}
Signs(t) == session[t].is = "data"

Under(i) == request[i] # None
Query(r) == r.kind \in {"me", "list"}

(* The session a request is for, or its answer from.                       *)
Carried(r) == IF r.phase = "sent" THEN r.cookie ELSE r.sid

(* Every sid around is that of a session created.                          *)
SessionsKnown ==
  /\ live \subseteq Known
  /\ cookie \in Known \cup {None}
  /\ \A t \in Tabs : /\ csrfToken[t] \in Known \cup {None}
                     /\ Signs(t) => session[t].sid \in Known

(* What requests and answers hold.  A form whose token is its cookie's is  *)
(* its user's.                                                             *)
RequestFits(r) ==
  /\ Carried(r) \in Known \cup {None}
  /\ ~Query(r) => r.awaited
  /\ r.phase = "sent" /\ r.kind = "login" => r.by # None
  /\ r.phase = "sent" /\ r.kind = "write" /\ r.token = r.cookie /\ r.cookie # None =>
       account[r.cookie] = r.by
  /\ r.phase # "sent" /\ r.kind = "login" =>
       r.status = "ok" /\ r.sid # None /\ r.sets = {r.sid}
  /\ r.phase # "sent" /\ r.kind # "login" => r.sets \in {{}, {None}}
  /\ r.phase # "sent" /\ Query(r) /\ r.status = "ok" => r.sid # None

OneLogin ==
  \A i, j \in Slots :
    Under(i) /\ Under(j) /\ request[i].kind = "login" /\ request[j].kind = "login" => i = j

(* As long as the browser has not received the answer of a login, nothing  *)
(* else knows of its session.                                              *)
Fresh(t, i) ==
  /\ cookie # request[i].sid /\ csrfToken[t] # request[i].sid
  /\ Signs(t) => session[t].sid # request[i].sid
  /\ \A j \in Slots \ {i} : Under(j) => Carried(request[j]) # request[i].sid

(* From then on, and until the tab handles it, the new cookie may go with  *)
(* the old page; but the token of the new session comes with that session, *)
(* or after the old one is gone: a query the tab no longer waits for brings*)
(* the token alone.                                                        *)
Late(s) == \E j \in Slots : /\ Under(j) /\ request[j].kind = "me" /\ ~request[j].awaited
                            /\ Carried(request[j]) = s

HeldBack(t, s) ==
  /\ cookie \in {s, None}
  /\ csrfToken[t] = s \/ Late(s) => (Signs(t) => session[t].sid = s)
  /\ Late(s) => \A j \in Slots :
       Under(j) /\ request[j].kind = "me" /\ request[j].awaited =>
         Carried(request[j]) \in {s, None}

(* Otherwise the cookie, the page and whatever the tab waits for are of one*)
(* session, and the rows on the page are its user's.                       *)
Agrees(t, s) ==
  /\ cookie \in {s, None}
  /\ Signs(t) => session[t].sid = s
  /\ \A i \in Slots : Under(i) /\ Query(request[i]) /\ request[i].awaited =>
       Carried(request[i]) \in {s, None}
  /\ data[t] # None => data[t] = account[s]

LoginIs(i, phase) == Under(i) /\ request[i].kind = "login" /\ request[i].phase = phase

TabInv(t) ==
  /\ data[t] # None => Signs(t)
  /\ \A i \in Slots : Under(i) /\ request[i].kind = "list" /\ request[i].awaited => Signs(t)
  /\ \A i \in Slots : LoginIs(i, "served") => Fresh(t, i)
  /\ \A i \in Slots : LoginIs(i, "received") => HeldBack(t, request[i].sid)
  /\ (\A i \in Slots : ~LoginIs(i, "received")) => \E s \in Cookies : Agrees(t, s)

WebInv ==
  /\ WebTypeOK
  /\ SessionsKnown
  /\ \A i \in Slots : Under(i) => RequestFits(request[i])
  /\ OneLogin
  /\ \A t \in Tabs : TabInv(t)

-----------------------------------------------------------------------------
(* Requests.                                                               *)

LEMMA RequestTyped ==
  ASSUME WebTypeOK, NEW i \in Slots, Under(i)
  PROVE  /\ request[i] \in Sent \cup Answers
         /\ request[i].tab \in Tabs /\ request[i].kind \in Kinds /\ request[i].awaited \in BOOLEAN
         /\ request[i].phase = "sent" =>
              /\ request[i] \in Sent
              /\ request[i].by \in Users \cup {None}
              /\ request[i].cookie \in Cookies /\ request[i].token \in Cookies
         /\ request[i].phase # "sent" =>
              /\ request[i] \in Answers
              /\ request[i].phase \in {"served", "received"}
              /\ request[i].status \in {"ok", "unauthenticated", "refused"}
              /\ request[i].sid \in Cookies /\ request[i].sets \in SUBSET Cookies
<1>1. request[i] \in Sent \cup Answers
  BY DEF WebTypeOK, Under
<1>2. CASE request[i] \in Sent
  BY <1>2 DEF Sent
<1>3. CASE request[i] \in Answers
  BY <1>3 DEF Answers
<1> QED BY <1>1, <1>2, <1>3

LEMMA SessionTyped ==
  ASSUME WebTypeOK, NEW t \in Tabs
  PROVE  /\ session[t] \in SessionStates
         /\ session[t].is \in {"data", "null", "pending"}
         /\ Signs(t) => session[t].sid \in Sids
<1>1. session[t] \in SessionStates
  BY DEF WebTypeOK
<1> QED BY <1>1 DEF SessionStates, Signs

LEMMA NewStates ==
  /\ SignedOut \in SessionStates /\ SignedOut.is = "null"
  /\ \A s \in Sids : Signed(s) \in SessionStates /\ Signed(s).is = "data" /\ Signed(s).sid = s
  BY DEF SignedOut, Signed, SessionStates

LEMMA ReceivedTyped ==
  ASSUME NEW r \in Answers
  PROVE  LET q == [r EXCEPT !.phase = "received"] IN
         /\ q \in Answers /\ q.phase = "received" /\ q.tab = r.tab /\ q.kind = r.kind
         /\ q.awaited = r.awaited /\ q.status = r.status /\ q.sid = r.sid /\ q.sets = r.sets
  BY DEF Answers

LEMMA ForgottenTyped ==
  ASSUME NEW r \in Sent \cup Answers
  PROVE  LET q == [r EXCEPT !.awaited = FALSE] IN
         /\ q \in Sent \cup Answers /\ q.awaited = FALSE /\ q.phase = r.phase /\ q.tab = r.tab
         /\ q.kind = r.kind
         /\ r.phase = "sent" => q.by = r.by /\ q.cookie = r.cookie /\ q.token = r.token
         /\ r.phase # "sent" => q.status = r.status /\ q.sid = r.sid /\ q.sets = r.sets
<1>1. CASE r \in Sent
  BY <1>1, Zenon DEF Sent
<1>2. CASE r \in Answers
  BY <1>2, Zenon DEF Answers
<1> QED BY <1>1, <1>2

LEMMA AnsweredTyped ==
  ASSUME NEW r \in Sent, NEW status \in {"ok", "unauthenticated", "refused"},
         NEW sid \in Cookies, NEW sets \in SUBSET Cookies
  PROVE  LET q == Answered(r, status, sid, sets) IN
         /\ q \in Answers /\ q.phase = "served" /\ q.tab = r.tab /\ q.kind = r.kind
         /\ q.awaited = r.awaited /\ q.status = status /\ q.sid = sid /\ q.sets = sets
  BY DEF Answered, Answers, Sent

LEMMA FailedTyped ==
  ASSUME NEW x \in SessionStates
  PROVE  LET y == [x EXCEPT !.failed = TRUE] IN
         /\ y \in SessionStates /\ y.is = x.is
         /\ x.is = "data" => y.sid = x.sid
<1>1. CASE x \in [is : {"data"}, sid : Sids, failed : BOOLEAN]
  BY <1>1 DEF SessionStates
<1>2. CASE x \in [is : {"null", "pending"}, failed : BOOLEAN]
  BY <1>2 DEF SessionStates
<1> QED BY <1>1, <1>2 DEF SessionStates

(* A slot whose answer was handled, or whose query was cancelled.          *)
LEMMA CancelledTyped ==
  ASSUME WebTypeOK, NEW t \in Tabs, NEW i \in Slots
  PROVE  /\ Cancelled(t, i) \in [Slots -> Sent \cup Answers \cup {None}]
         /\ Cancelled(t, i)[i] = None
         /\ \A j \in Slots \ {i} :
              \/ /\ Cancelled(t, i)[j] = request[j]
                 /\ ~(Under(j) /\ request[j].tab = t /\ Query(request[j]))
              \/ /\ Under(j) /\ request[j].tab = t /\ Query(request[j])
                 /\ Cancelled(t, i)[j] = [request[j] EXCEPT !.awaited = FALSE]
                 /\ Cancelled(t, i)[j] \in Sent \cup Answers
<1>1. Cancelled(t, i)[i] = None
  BY DEF Cancelled
<1>2. ASSUME NEW j \in Slots \ {i}
      PROVE  \/ /\ Cancelled(t, i)[j] = request[j]
                /\ ~(Under(j) /\ request[j].tab = t /\ Query(request[j]))
             \/ /\ Under(j) /\ request[j].tab = t /\ Query(request[j])
                /\ Cancelled(t, i)[j] = [request[j] EXCEPT !.awaited = FALSE]
                /\ Cancelled(t, i)[j] \in Sent \cup Answers
  <2>1. CASE Under(j) /\ request[j].tab = t /\ Query(request[j])
    <3>1. Cancelled(t, i)[j] = [request[j] EXCEPT !.awaited = FALSE]
      BY <2>1 DEF Cancelled, Under, Query
    <3>2. [request[j] EXCEPT !.awaited = FALSE] \in Sent \cup Answers
      BY <2>1, RequestTyped, ForgottenTyped
    <3> QED BY <2>1, <3>1, <3>2
  <2>2. CASE ~(Under(j) /\ request[j].tab = t /\ Query(request[j]))
    BY <2>2 DEF Cancelled, Under, Query
  <2> QED BY <2>1, <2>2
<1>3. \A j \in Slots : Cancelled(t, i)[j] \in Sent \cup Answers \cup {None}
  BY <1>1, <1>2 DEF WebTypeOK
<1>4. Cancelled(t, i) = [j \in Slots |-> Cancelled(t, i)[j]]
  BY DEF Cancelled
<1> QED BY <1>1, <1>2, <1>3, <1>4

-----------------------------------------------------------------------------
(* What each action does to the slots.                                     *)

(* Slot i alone changes, to q.                                             *)
Puts(i, q) == /\ request' = [request EXCEPT ![i] = q]
              /\ request'[i] = q
              /\ \A j \in Slots \ {i} : request'[j] = request[j]

(* The tab has signed in or out: slot i is free, its queries are no longer *)
(* awaited.                                                                *)
Drops(t, i) ==
  /\ request' \in [Slots -> Sent \cup Answers \cup {None}]
  /\ ~Under(i)'
  /\ \A j \in Slots \ {i} :
       \/ request'[j] = request[j] /\ ~(Under(j) /\ request[j].tab = t /\ Query(request[j]))
       \/ /\ Under(j) /\ request[j].tab = t /\ Query(request[j]) /\ Under(j)'
          /\ request'[j] \in Sent \cup Answers
          /\ request'[j].awaited = FALSE /\ request'[j].phase = request[j].phase
          /\ request'[j].tab = t /\ request'[j].kind = request[j].kind
          /\ request[j].phase = "sent" =>
               /\ request'[j].by = request[j].by /\ request'[j].cookie = request[j].cookie
               /\ request'[j].token = request[j].token
          /\ request[j].phase # "sent" =>
               /\ request'[j].status = request[j].status /\ request'[j].sid = request[j].sid
               /\ request'[j].sets = request[j].sets

LEMMA PutsOne ==
  ASSUME WebTypeOK, NEW i \in Slots, NEW q, request' = [request EXCEPT ![i] = q]
  PROVE  Puts(i, q)
  BY DEF Puts, WebTypeOK

LEMMA CancelsDrop ==
  ASSUME WebTypeOK, NEW t \in Tabs, NEW i \in Slots, request' = Cancelled(t, i)
  PROVE  Drops(t, i)
<1>1. request' \in [Slots -> Sent \cup Answers \cup {None}] /\ request'[i] = None
  BY CancelledTyped
<1>2. ASSUME NEW j \in Slots \ {i}, Under(j), request[j].tab = t, Query(request[j])
      PROVE  /\ Under(j)' /\ request'[j] \in Sent \cup Answers
             /\ request'[j].awaited = FALSE /\ request'[j].phase = request[j].phase
             /\ request'[j].tab = t /\ request'[j].kind = request[j].kind
             /\ request[j].phase = "sent" =>
                  /\ request'[j].by = request[j].by /\ request'[j].cookie = request[j].cookie
                  /\ request'[j].token = request[j].token
             /\ request[j].phase # "sent" =>
                  /\ request'[j].status = request[j].status /\ request'[j].sid = request[j].sid
                  /\ request'[j].sets = request[j].sets
  <2>1. request'[j] = [request[j] EXCEPT !.awaited = FALSE] /\ request'[j] \in Sent \cup Answers
    BY <1>2, CancelledTyped
  <2>2. request[j] \in Sent \cup Answers
    BY <1>2, RequestTyped
  <2> QED BY <1>2, <2>1, <2>2, ForgottenTyped, WebSessionAssumption DEF Under
<1>3. ASSUME NEW j \in Slots \ {i}, ~(Under(j) /\ request[j].tab = t /\ Query(request[j]))
      PROVE  request'[j] = request[j]
  <2>1. Cancelled(t, i)[j] = request[j]
    BY <1>3 DEF Cancelled, Under, Query
  <2> QED BY <2>1
<1> QED BY <1>1, <1>2, <1>3 DEF Drops, Under

(* The API answers the request of slot i; a login, by a session that was   *)
(* not there.                                                              *)
Serves(i, q) ==
  /\ Puts(i, q) /\ q # None
  /\ q.phase = "served" /\ q.tab = request[i].tab
  /\ q.kind = request[i].kind /\ q.awaited = request[i].awaited
  /\ \/ /\ q.kind = "login" /\ q.status = "ok"
        /\ q.sid \in Sids \ Known /\ q.sets = {q.sid}
        /\ account' = [account EXCEPT ![q.sid] = request[i].by]
        /\ live' = live \cup {q.sid}
     \/ /\ q.kind # "login" /\ q.sets \in {{}, {None}}
        /\ q.sid = IF q.status = "ok" /\ q.kind # "logout" THEN request[i].cookie ELSE None
        /\ q.status = "ok" => /\ request[i].cookie \in live
                              /\ q.kind = "write" => request[i].token = request[i].cookie
        /\ account' = account /\ live' \subseteq live

(* The tab sends a request with the cookie and its token.                  *)
Sends(t, kind, by, i, q) ==
  /\ ~Under(i) /\ Puts(i, q) /\ q # None
  /\ q.tab = t /\ q.kind = kind /\ q.by = by /\ q.cookie = cookie
  /\ q.token = IF kind \in {"me", "list"} THEN None ELSE csrfToken[t]
  /\ q.awaited = TRUE /\ q.phase = "sent"

(* The browser receives the answer in slot i.                              *)
Receives(i, q) ==
  /\ Puts(i, q) /\ q # None /\ q.phase = "received"
  /\ q.tab = request[i].tab /\ q.kind = request[i].kind
  /\ q.awaited = request[i].awaited /\ q.status = request[i].status
  /\ q.sid = request[i].sid /\ q.sets = request[i].sets
  /\ IF q.sets = {} THEN cookie' = cookie ELSE cookie' \in q.sets

LEMMA ServeEffect ==
  ASSUME WebInv, NEW i \in Slots, Serve(i)
  PROVE  /\ Under(i) /\ request[i].phase = "sent"
         /\ UNCHANGED <<cookie, csrfToken, session, data, page, failures>>
         /\ \E q \in Answers : Serves(i, q)
<1> DEFINE r == request[i]
<1>1. Under(i) /\ r.phase = "sent"
  BY DEF Serve, Under
<1>2. r \in Sent /\ r.cookie \in Cookies /\ r.token \in Cookies /\ r.kind \in Kinds
  BY <1>1, RequestTyped DEF WebInv
<1>3. WebTypeOK
  BY DEF WebInv
<1>5. None \in Cookies /\ {} \in SUBSET Cookies /\ {None} \in SUBSET Cookies
  BY DEF Cookies
<1>6. CASE r.kind = "login"
  <2>1. PICK s \in Sids : /\ Created(s)
                          /\ account' = [account EXCEPT ![s] = r.by]
                          /\ live' = live \cup {s}
                          /\ request' = [request EXCEPT ![i] = Answered(r, "ok", s, {s})]
    BY <1>6 DEF Serve
  <2>2. s \in Cookies /\ {s} \in SUBSET Cookies /\ s \in Sids \ Known
    BY <2>1 DEF Cookies, Created, Known
  <2>3. PICK q : q = Answered(r, "ok", s, {s})
    OBVIOUS
  <2>4. Puts(i, q)
    BY <1>3, <2>1, <2>3, PutsOne
  <2>5. /\ q \in Answers /\ q.phase = "served" /\ q.tab = r.tab /\ q.kind = r.kind
        /\ q.awaited = r.awaited /\ q.status = "ok" /\ q.sid = s /\ q.sets = {s}
    BY <1>2, <2>2, <2>3, AnsweredTyped
  <2>6. q # None
    BY <2>5, WebSessionAssumption
  <2> QED BY <1>1, <1>6, <2>1, <2>2, <2>4, <2>5, <2>6 DEF Serve, Serves
<1>7. CASE r.kind # "login"
  <2>1. \E status \in {"ok", "unauthenticated", "refused"}, sid \in Cookies, sets \in {{}, {None}} :
          /\ request' = [request EXCEPT ![i] = Answered(r, status, sid, sets)]
          /\ sid = IF status = "ok" /\ r.kind # "logout" THEN r.cookie ELSE None
          /\ status = "ok" => r.cookie \in live /\ (r.kind = "write" => r.token = r.cookie)
          /\ account' = account /\ live' \subseteq live
    BY <1>2, <1>5, <1>7 DEF Serve, CsrfValid, Kinds
  <2>2. PICK status \in {"ok", "unauthenticated", "refused"}, sid \in Cookies, sets \in {{}, {None}} :
          /\ request' = [request EXCEPT ![i] = Answered(r, status, sid, sets)]
          /\ sid = IF status = "ok" /\ r.kind # "logout" THEN r.cookie ELSE None
          /\ status = "ok" => r.cookie \in live /\ (r.kind = "write" => r.token = r.cookie)
          /\ account' = account /\ live' \subseteq live
    BY <2>1
  <2>3. PICK q : q = Answered(r, status, sid, sets)
    OBVIOUS
  <2>4. Puts(i, q)
    BY <1>3, <2>2, <2>3, PutsOne
  <2>5. /\ q \in Answers /\ q.phase = "served" /\ q.tab = r.tab /\ q.kind = r.kind
        /\ q.awaited = r.awaited /\ q.status = status /\ q.sid = sid /\ q.sets = sets
    BY <1>2, <1>5, <2>3, AnsweredTyped
  <2>6. q # None
    BY <2>5, WebSessionAssumption
  <2> QED BY <1>1, <1>7, <2>2, <2>4, <2>5, <2>6 DEF Serve, Serves
<1> QED BY <1>6, <1>7

LEMMA SendEffect ==
  ASSUME WebInv, NEW t \in Tabs, NEW kind \in Kinds, NEW by \in Users \cup {None},
         Send(t, kind, by)
  PROVE  /\ UNCHANGED <<account, live, cookie, csrfToken, session, data, page, failures>>
         /\ ~Awaits(t, {kind})
         /\ \E i \in Slots, q \in Sent : Sends(t, kind, by, i, q)
<1>1. PICK i \in Slots :
        /\ Free(i)
        /\ request' = [request EXCEPT ![i] =
            [tab |-> t, kind |-> kind, by |-> by, cookie |-> cookie,
             token |-> IF kind \in {"me", "list"} THEN None ELSE csrfToken[t],
             awaited |-> TRUE, phase |-> "sent"]]
  BY DEF Send
<1>2. PICK q : q = [tab |-> t, kind |-> kind, by |-> by, cookie |-> cookie,
                    token |-> IF kind \in {"me", "list"} THEN None ELSE csrfToken[t],
                    awaited |-> TRUE, phase |-> "sent"]
  OBVIOUS
<1>3. Puts(i, q)
  BY <1>1, <1>2, PutsOne DEF WebInv
<1>4. csrfToken[t] \in Cookies /\ cookie \in Cookies /\ None \in Cookies
  BY DEF WebInv, WebTypeOK, Cookies
<1>5. /\ q \in Sent /\ q.tab = t /\ q.kind = kind /\ q.by = by /\ q.cookie = cookie
      /\ q.token = IF kind \in {"me", "list"} THEN None ELSE csrfToken[t]
      /\ q.awaited = TRUE /\ q.phase = "sent"
  BY <1>2, <1>4 DEF Sent
<1>6. q # None
  BY <1>5, WebSessionAssumption
<1>7. ~Under(i)
  BY <1>1 DEF Free, Under
<1> QED BY <1>3, <1>5, <1>6, <1>7 DEF Send, Sends

LEMMA ReceiveEffect ==
  ASSUME WebInv, NEW i \in Slots, Receive(i)
  PROVE  /\ Under(i) /\ request[i] \in Answers /\ request[i].phase = "served"
         /\ UNCHANGED <<account, live, csrfToken, session, data, page, failures>>
         /\ \E q \in Answers : Receives(i, q)
<1>1. Under(i) /\ request[i].phase = "served"
  BY DEF Receive, Under
<1>2. request[i] \in Answers
  BY <1>1, RequestTyped DEF WebInv
<1>3. PICK q : q = [request[i] EXCEPT !.phase = "received"]
  OBVIOUS
<1>4. request' = [request EXCEPT ![i] = q]
  BY <1>3 DEF Receive
<1>5. Puts(i, q)
  BY <1>4, PutsOne DEF WebInv
<1>6. /\ q \in Answers /\ q.phase = "received" /\ q.tab = request[i].tab
      /\ q.kind = request[i].kind /\ q.awaited = request[i].awaited
      /\ q.status = request[i].status /\ q.sid = request[i].sid /\ q.sets = request[i].sets
  BY <1>2, <1>3, ReceivedTyped
<1>7. q # None
  BY <1>6, WebSessionAssumption
<1> QED BY <1>1, <1>2, <1>5, <1>6, <1>7 DEF Receive, Receives

-----------------------------------------------------------------------------
(* The steps of a tab that handles an answer, or the lack of one.          *)

SignsOut(t, i) ==
  /\ Under(i) /\ request[i].tab = t /\ request[i].kind # "login" /\ Drops(t, i)
  /\ csrfToken' = [csrfToken EXCEPT ![t] = None]
  /\ session' = [session EXCEPT ![t] = SignedOut]
  /\ data' = [data EXCEPT ![t] = None]
  /\ UNCHANGED <<account, live, cookie, page>> /\ failures' \in Nat

SignsIn(t, i) ==
  /\ LoginIs(i, "received") /\ request[i].tab = t /\ Drops(t, i)
  /\ csrfToken' = [csrfToken EXCEPT ![t] = request[i].sid]
  /\ session' = [session EXCEPT ![t] = Signed(request[i].sid)]
  /\ data' = [data EXCEPT ![t] = None]
  /\ UNCHANGED <<account, live, cookie, page, failures>>

LearnsMe(t, i) ==
  /\ Under(i) /\ request[i].tab = t /\ request[i].kind = "me" /\ request[i].phase = "received"
  /\ request[i].status = "ok" /\ Puts(i, None)
  /\ csrfToken' = [csrfToken EXCEPT ![t] = request[i].sid]
  /\ session' = IF request[i].awaited THEN [session EXCEPT ![t] = Signed(request[i].sid)]
                ELSE session
  /\ UNCHANGED <<account, live, cookie, data, page, failures>>

LearnsList(t, i) ==
  /\ Under(i) /\ request[i].tab = t /\ request[i].kind = "list"
  /\ request[i].phase = "received" /\ request[i].status = "ok" /\ Puts(i, None)
  /\ data' = IF request[i].awaited THEN [data EXCEPT ![t] = account[request[i].sid]] ELSE data
  /\ UNCHANGED <<account, live, cookie, csrfToken, session, page, failures>>

(* The session query may have failed, and holds what it held.              *)
Frees(t, i) ==
  /\ Under(i) /\ request[i].tab = t /\ Puts(i, None) /\ ~LoginIs(i, "received")
  /\ session' \in [Tabs -> SessionStates]
  /\ \A u \in Tabs : /\ session'[u].is = session[u].is
                     /\ Signs(u) => session'[u].sid = session[u].sid
  /\ UNCHANGED <<account, live, cookie, csrfToken, data, page>> /\ failures' \in Nat

LEMMA HandleEffect ==
  ASSUME WebInv, NEW i \in Slots, Handle(i) \/ Lose(i)
  PROVE  \E t \in Tabs : SignsOut(t, i) \/ SignsIn(t, i) \/ LearnsMe(t, i) \/ LearnsList(t, i)
                         \/ Frees(t, i)
<1>1. Under(i)
  BY DEF Handle, HandleUnauthenticated, HandleMe, HandleList, HandleWrite, HandleLogin,
         HandleLogout, Lose, Under
<1>2. PICK t \in Tabs : t = request[i].tab
  BY <1>1, RequestTyped DEF WebInv
<1>3. WebTypeOK /\ RequestFits(request[i]) /\ failures \in Nat
  BY <1>1 DEF WebInv, WebTypeOK
<1>4. request' = Cancelled(t, i) => Drops(t, i)
  BY <1>3, CancelsDrop
<1>5. request' = [request EXCEPT ![i] = None] => Puts(i, None)
  BY <1>3, PutsOne
<1>6. CASE HandleUnauthenticated(i)
  <2>1. request[i].kind # "login"
    BY <1>3, <1>6 DEF HandleUnauthenticated, RequestFits
  <2>2. SignsOut(t, i)
    BY <1>1, <1>2, <1>3, <1>4, <1>6, <2>1
    DEF HandleUnauthenticated, unauthenticatedListeners, replaceSession, SignsOut
  <2> QED BY <2>2
<1>7. CASE HandleMe(i)
  <2>1. LearnsMe(t, i)
    BY <1>1, <1>2, <1>5, <1>7 DEF HandleMe, LearnsMe
  <2> QED BY <2>1
<1>8. CASE HandleList(i)
  <2>1. LearnsList(t, i)
    BY <1>1, <1>2, <1>5, <1>8 DEF HandleList, LearnsList
  <2> QED BY <2>1
<1>9. CASE HandleWrite(i)
  <2>1. Frees(t, i)
    BY <1>1, <1>2, <1>3, <1>5, <1>9 DEF HandleWrite, Frees, LoginIs, WebTypeOK
  <2> QED BY <2>1
<1>10. CASE HandleLogin(i)
  <2>1. SignsIn(t, i)
    BY <1>1, <1>2, <1>4, <1>10 DEF HandleLogin, replaceSession, SignsIn, LoginIs
  <2> QED BY <2>1
<1>11. CASE HandleLogout(i)
  <2>1. SignsOut(t, i)
    BY <1>1, <1>2, <1>3, <1>4, <1>11 DEF HandleLogout, replaceSession, SignsOut
  <2> QED BY <2>1
<1>12. CASE Lose(i)
  <2>1. failures' \in Nat /\ ~LoginIs(i, "received") /\ UNCHANGED <<account, live, cookie, page>>
    BY <1>3, <1>12 DEF Lose, LoginIs
  <2>2. CASE request[i].kind = "logout"
    <3>1. SignsOut(t, i)
      BY <1>1, <1>2, <1>4, <1>12, <2>1, <2>2 DEF Lose, replaceSession, SignsOut
    <3> QED BY <3>1
  <2>3. CASE request[i].kind = "me"
    <3>1. /\ request' = [request EXCEPT ![i] = None]
          /\ session' = IF request[i].awaited THEN [session EXCEPT ![t].failed = TRUE] ELSE session
          /\ UNCHANGED <<csrfToken, data>>
      BY <1>2, <1>12, <2>3 DEF Lose
    <3>2. PICK x : x = [session[t] EXCEPT !.failed = TRUE]
      OBVIOUS
    <3>3. x \in SessionStates /\ x.is = session[t].is /\ (Signs(t) => x.sid = session[t].sid)
      BY <1>3, <3>2, SessionTyped, FailedTyped DEF Signs
    <3>4. session' = [session EXCEPT ![t] = x] \/ session' = session
      BY <3>1, <3>2
    <3>5. /\ session' \in [Tabs -> SessionStates]
          /\ \A u \in Tabs : /\ session'[u].is = session[u].is
                             /\ Signs(u) => session'[u].sid = session[u].sid
      BY <1>3, <3>3, <3>4 DEF WebTypeOK
    <3>6. Frees(t, i)
      BY <1>1, <1>2, <1>5, <2>1, <3>1, <3>5 DEF Frees
    <3> QED BY <3>6
  <2>4. CASE request[i].kind \in {"list", "write", "login"}
    <3>1. Frees(t, i)
      BY <1>1, <1>2, <1>3, <1>5, <1>12, <2>1, <2>4 DEF Lose, Frees, WebTypeOK
    <3> QED BY <3>1
  <2> QED BY <1>1, <1>3, <2>2, <2>3, <2>4, RequestTyped DEF Kinds
<1> QED BY <1>6, <1>7, <1>8, <1>9, <1>10, <1>11, <1>12 DEF Handle

-----------------------------------------------------------------------------
(* Types, and what requests hold.                                          *)

Sound ==
  /\ WebTypeOK
  /\ SessionsKnown
  /\ \A i \in Slots : Under(i) => RequestFits(request[i])
  /\ OneLogin

LEMMA WebInvParts == WebInv <=> Sound /\ \A t \in Tabs : TabInv(t)
  BY DEF WebInv, Sound

(* Sessions are created, and keep their user.                              *)
LEMMA KnownGrows ==
  ASSUME account' = account \/ \E s \in Sids \ Known, u \in Users :
                                 account' = [account EXCEPT ![s] = u],
         WebTypeOK
  PROVE  /\ Known \subseteq Known'
         /\ \A s \in Known : account'[s] = account[s]
         /\ account' \in [Sids -> Users \cup {None}]
  BY WebSessionAssumption DEF Known, WebTypeOK

LEMMA FitsStays ==
  ASSUME NEW r, RequestFits(r), Known \subseteq Known', \A s \in Known : account'[s] = account[s]
  PROVE  RequestFits(r)'
  BY DEF RequestFits, Carried, Query

LEMMA ServeSound ==
  ASSUME WebInv, NEW i \in Slots, Serve(i)
  PROVE  Sound'
<1>1. /\ Under(i) /\ request[i].phase = "sent"
      /\ UNCHANGED <<cookie, csrfToken, session, data, page, failures>>
  BY ServeEffect
<1>2. PICK q \in Answers : Serves(i, q)
  BY ServeEffect
<1>3. WebTypeOK /\ SessionsKnown /\ RequestFits(request[i])
  BY <1>1 DEF WebInv
<1>4. request[i].by \in Users \cup {None} /\ request[i].cookie \in Cookies
  BY <1>1, <1>3, RequestTyped
<1>5. q.kind = "login" => request[i].by \in Users
  BY <1>1, <1>2, <1>3, <1>4 DEF Serves, RequestFits
<1>6. /\ Known \subseteq Known' /\ \A s \in Known : account'[s] = account[s]
      /\ account' \in [Sids -> Users \cup {None}]
  BY <1>2, <1>3, <1>5, KnownGrows DEF Serves
<1>7. q.kind = "login" => q.sid \in Known'
  BY <1>2, <1>3, <1>5, WebSessionAssumption DEF Serves, Known, WebTypeOK
<1>8. RequestFits(q)'
  <2>1. q.phase # "sent" /\ Known \subseteq Sids /\ None \notin Sids /\ live \subseteq Known
    BY <1>2, <1>3, WebSessionAssumption DEF Serves, Known, Sids, SessionsKnown
  <2>2. q.sid \in Known' \cup {None}
    BY <1>2, <1>3, <1>6, <1>7, <2>1 DEF Serves
  <2>3. ~Query(q) => q.awaited
    BY <1>2, <1>3 DEF Serves, RequestFits, Query
  <2> QED BY <1>2, <2>1, <2>2, <2>3 DEF Serves, RequestFits, Carried, Query, Sids
<1>9. WebTypeOK'
  <2>1. request' \in [Slots -> Sent \cup Answers \cup {None}]
    BY <1>2, <1>3 DEF Serves, Puts, WebTypeOK
  <2>2. live' \subseteq Sids
    BY <1>2, <1>3 DEF Serves, WebTypeOK
  <2> QED BY <1>1, <1>3, <1>6, <2>1, <2>2 DEF WebTypeOK
<1>10. SessionsKnown'
  <2>1. live' \subseteq Known'
    BY <1>2, <1>3, <1>6, <1>7 DEF Serves, SessionsKnown
  <2> QED BY <1>1, <1>3, <1>6, <2>1 DEF SessionsKnown, Signs
<1>11. ASSUME NEW j \in Slots, Under(j)' PROVE RequestFits(request[j])'
  <2>1. CASE j = i
    BY <1>2, <1>8, <2>1 DEF Serves, Puts, RequestFits, Carried, Query
  <2>2. CASE j # i
    <3>1. request'[j] = request[j] /\ RequestFits(request[j])
      BY <1>2, <1>11, <2>2 DEF Serves, Puts, Under, WebInv
    <3> QED BY <1>6, <3>1 DEF RequestFits, Carried, Query
  <2> QED BY <2>1, <2>2
<1>12. OneLogin'
  <2>1. \A j \in Slots : Under(j)' => Under(j) /\ request'[j].kind = request[j].kind
    BY <1>1, <1>2 DEF Serves, Puts, Under
  <2> QED BY <2>1 DEF OneLogin, WebInv
<1> QED BY <1>9, <1>10, <1>11, <1>12 DEF Sound

LEMMA SendSound ==
  ASSUME WebInv, NEW t \in Tabs, Tabs = {t}, NEW kind \in Kinds, NEW by \in Users \cup {None},
         kind = "login" => by # None,
         kind = "write" => by = Shows(t) /\ Signs(t),
         Send(t, kind, by)
  PROVE  Sound'
<1>1. /\ UNCHANGED <<account, live, cookie, csrfToken, session, data, page, failures>>
      /\ ~Awaits(t, {kind})
  BY SendEffect
<1>2. PICK i \in Slots, q \in Sent : Sends(t, kind, by, i, q)
  BY SendEffect
<1>4. WebTypeOK /\ SessionsKnown /\ OneLogin /\ TabInv(t)
  BY DEF WebInv
<1>5. WebTypeOK' /\ SessionsKnown'
  <2>1. request' \in [Slots -> Sent \cup Answers \cup {None}]
    BY <1>2, <1>4 DEF Sends, Puts, WebTypeOK
  <2> QED BY <1>1, <1>4, <2>1 DEF WebTypeOK, SessionsKnown, Known, Signs
<1>6. kind = "write" /\ csrfToken[t] = cookie /\ cookie # None => session[t].sid = cookie
  <2> SUFFICES ASSUME Signs(t), csrfToken[t] = cookie, cookie # None
               PROVE  session[t].sid = cookie
    OBVIOUS
  <2>1. CASE \E j \in Slots : LoginIs(j, "received")
    BY <1>4, <2>1 DEF TabInv, HeldBack
  <2>2. CASE \A j \in Slots : ~LoginIs(j, "received")
    BY <1>4, <2>2 DEF TabInv, Agrees
  <2> QED BY <2>1, <2>2
<1>7. kind = "write" /\ csrfToken[t] = cookie /\ cookie # None => account[cookie] = by
  BY <1>6 DEF Shows, Signs
<1>8. RequestFits(q)
  BY <1>2, <1>4, <1>7 DEF Sends, RequestFits, Carried, Query, SessionsKnown
<1>9. ASSUME NEW j \in Slots, Under(j)' PROVE RequestFits(request[j])'
  <2>1. \/ request'[j] = q
        \/ request'[j] = request[j] /\ Under(j)
    BY <1>2, <1>9 DEF Sends, Puts, Under
  <2>2. RequestFits(request'[j])
    BY <1>8, <2>1 DEF WebInv
  <2> QED BY <1>1, <2>2 DEF RequestFits, Carried, Query, Known
<1>10. OneLogin'
  <2>1. kind = "login" => \A j \in Slots : ~(Under(j) /\ request[j].kind = "login")
    <3> SUFFICES ASSUME kind = "login", NEW j \in Slots, Under(j), request[j].kind = "login"
                 PROVE  FALSE
      OBVIOUS
    <3>1. request[j].tab = t
      BY <1>4, RequestTyped
    <3>2. RequestFits(request[j])
      BY DEF WebInv
    <3>3. request[j].awaited
      BY <3>2 DEF RequestFits, Query
    <3> QED BY <1>1, <3>1, <3>3 DEF Awaits, Under
  <2>2. \A j \in Slots : Under(j)' => j = i \/ (Under(j) /\ request'[j] = request[j])
    BY <1>2 DEF Sends, Puts, Under
  <2> QED BY <1>2, <1>4, <2>1, <2>2 DEF Sends, OneLogin, Puts
<1> QED BY <1>5, <1>9, <1>10 DEF Sound

LEMMA ReceiveSound ==
  ASSUME WebInv, NEW i \in Slots, Receive(i)
  PROVE  Sound'
<1>1. /\ Under(i) /\ request[i] \in Answers /\ request[i].phase = "served"
      /\ UNCHANGED <<account, live, csrfToken, session, data, page, failures>>
  BY ReceiveEffect
<1>2. PICK q \in Answers : Receives(i, q)
  BY ReceiveEffect
<1>3. WebTypeOK /\ SessionsKnown /\ OneLogin /\ RequestFits(request[i])
  BY <1>1 DEF WebInv
<1>4. cookie' \in Known \cup {None} /\ Known' = Known
  BY <1>1, <1>2, <1>3 DEF Receives, RequestFits, Carried, SessionsKnown, Known
<1>5. WebTypeOK' /\ SessionsKnown'
  <2>1. request' \in [Slots -> Sent \cup Answers \cup {None}]
    BY <1>2, <1>3 DEF Receives, Puts, WebTypeOK
  <2>2. cookie' \in Cookies
    BY <1>4 DEF Known, Cookies
  <2> QED BY <1>1, <1>3, <1>4, <2>1, <2>2 DEF WebTypeOK, SessionsKnown, Signs
<1>6. RequestFits(q)
  BY <1>1, <1>2, <1>3 DEF Receives, RequestFits, Carried, Query
<1>7. ASSUME NEW j \in Slots, Under(j)' PROVE RequestFits(request[j])'
  <2>1. RequestFits(request'[j])
    BY <1>2, <1>6, <1>7 DEF Receives, Puts, Under, WebInv
  <2> QED BY <1>1, <1>4, <2>1 DEF RequestFits, Carried, Query
<1>8. OneLogin'
  <2>1. \A j \in Slots : Under(j)' => Under(j) /\ request'[j].kind = request[j].kind
    BY <1>1, <1>2 DEF Receives, Puts, Under
  <2> QED BY <1>3, <2>1 DEF OneLogin
<1> QED BY <1>5, <1>7, <1>8 DEF Sound

LEMMA DropsSound ==
  ASSUME WebInv, NEW t \in Tabs, NEW i \in Slots, Drops(t, i), account' = account
  PROVE  /\ \A j \in Slots : Under(j)' => RequestFits(request[j])'
         /\ OneLogin'
<1>1. ASSUME NEW j \in Slots, Under(j)'
      PROVE  /\ RequestFits(request[j])' /\ Under(j) /\ request'[j].kind = request[j].kind
  <2>1. CASE request'[j] = request[j]
    BY <1>1, <2>1 DEF WebInv, RequestFits, Carried, Query, Known, Under
  <2>2. CASE request'[j] # request[j]
    <3>1. j # i
      BY <1>1 DEF Drops
    <3>2. Under(j) /\ RequestFits(request[j])
      BY <2>2, <3>1 DEF Drops, WebInv
    <3>3. Query(request[j]) /\ request'[j].kind = request[j].kind /\ request'[j].phase = request[j].phase
      BY <2>2, <3>1 DEF Drops
    <3>4. /\ request[j].phase = "sent" =>
               /\ request'[j].by = request[j].by /\ request'[j].cookie = request[j].cookie
               /\ request'[j].token = request[j].token
          /\ request[j].phase # "sent" =>
               /\ request'[j].status = request[j].status /\ request'[j].sid = request[j].sid
               /\ request'[j].sets = request[j].sets
      BY <2>2, <3>1 DEF Drops
    <3> QED BY <3>2, <3>3, <3>4 DEF RequestFits, Carried, Query, Known
  <2> QED BY <2>1, <2>2
<1>2. OneLogin'
  BY <1>1 DEF OneLogin, WebInv
<1> QED BY <1>1, <1>2

LEMMA FreesSlot ==
  ASSUME WebInv, NEW i \in Slots, Puts(i, None), account' = account
  PROVE  /\ request' \in [Slots -> Sent \cup Answers \cup {None}]
         /\ \A j \in Slots : Under(j)' => j # i /\ Under(j) /\ request'[j] = request[j]
         /\ \A j \in Slots : Under(j)' => RequestFits(request[j])'
         /\ OneLogin'
<1>1. \A j \in Slots : Under(j)' => j # i /\ Under(j) /\ request'[j] = request[j]
  BY DEF Puts, Under
<1>2. request' \in [Slots -> Sent \cup Answers \cup {None}]
  BY DEF Puts, WebInv, WebTypeOK
<1>3. \A j \in Slots : Under(j)' => RequestFits(request[j])'
  BY <1>1 DEF WebInv, RequestFits, Carried, Query, Known
<1>4. OneLogin'
  BY <1>1 DEF OneLogin, WebInv
<1> QED BY <1>1, <1>2, <1>3, <1>4

LEMMA HandleSound ==
  ASSUME WebInv, NEW t \in Tabs, NEW i \in Slots,
         SignsOut(t, i) \/ SignsIn(t, i) \/ LearnsMe(t, i) \/ LearnsList(t, i) \/ Frees(t, i)
  PROVE  Sound'
<1>1. /\ WebTypeOK /\ SessionsKnown /\ None \notin Sids /\ None \in Cookies /\ Known \subseteq Sids
      /\ Sids \subseteq Cookies
  BY WebSessionAssumption DEF WebInv, Known, Sids, Cookies
<1>2. account' = account /\ live' = live /\ cookie' = cookie /\ Known' = Known /\ page' = page
      /\ failures' \in Nat
  BY <1>1 DEF SignsOut, SignsIn, LearnsMe, LearnsList, Frees, Known, WebTypeOK
<1>3. Under(i) /\ RequestFits(request[i])
  BY DEF SignsOut, SignsIn, LearnsMe, LearnsList, Frees, LoginIs, WebInv
<1>4. CASE SignsOut(t, i)
  <2>1. WebTypeOK'
    BY <1>1, <1>2, <1>4, NewStates DEF SignsOut, Drops, WebTypeOK
  <2>2. SessionsKnown'
    BY <1>1, <1>2, <1>4, NewStates DEF SignsOut, SessionsKnown, WebTypeOK, Signs
  <2> QED BY <1>2, <1>4, <2>1, <2>2, DropsSound DEF SignsOut, Sound
<1>5. CASE SignsIn(t, i)
  <2>1. request[i].sid \in Known
    BY <1>3, <1>5 DEF SignsIn, LoginIs, RequestFits, Carried
  <2>2. WebTypeOK'
    BY <1>1, <1>2, <1>5, <2>1, NewStates DEF SignsIn, Drops, WebTypeOK
  <2>3. SessionsKnown'
    BY <1>1, <1>2, <1>5, <2>1, NewStates DEF SignsIn, SessionsKnown, WebTypeOK, Signs
  <2> QED BY <1>2, <1>5, <2>2, <2>3, DropsSound DEF SignsIn, Sound
<1>6. CASE LearnsMe(t, i)
  <2>1. request[i].sid \in Known
    BY <1>3, <1>6 DEF LearnsMe, RequestFits, Carried, Query
  <2>2. request' \in [Slots -> Sent \cup Answers \cup {None}]
    BY <1>2, <1>6, FreesSlot DEF LearnsMe
  <2>3. WebTypeOK'
    BY <1>1, <1>2, <1>6, <2>1, <2>2, NewStates DEF LearnsMe, WebTypeOK
  <2>4. SessionsKnown'
    BY <1>1, <1>2, <1>6, <2>1, NewStates DEF LearnsMe, SessionsKnown, WebTypeOK, Signs
  <2> QED BY <1>2, <1>6, <2>3, <2>4, FreesSlot DEF LearnsMe, Sound
<1>7. CASE LearnsList(t, i)
  <2>1. request[i].sid \in Known
    BY <1>3, <1>7 DEF LearnsList, RequestFits, Carried, Query
  <2>2. request' \in [Slots -> Sent \cup Answers \cup {None}]
    BY <1>2, <1>7, FreesSlot DEF LearnsList
  <2>3. WebTypeOK'
    BY <1>1, <1>2, <1>7, <2>1, <2>2 DEF LearnsList, WebTypeOK
  <2>4. SessionsKnown'
    BY <1>1, <1>2, <1>7 DEF LearnsList, SessionsKnown, Signs
  <2> QED BY <1>2, <1>7, <2>3, <2>4, FreesSlot DEF LearnsList, Sound
<1>8. CASE Frees(t, i)
  <2>1. request' \in [Slots -> Sent \cup Answers \cup {None}]
    BY <1>2, <1>8, FreesSlot DEF Frees
  <2>2. WebTypeOK'
    BY <1>1, <1>2, <1>8, <2>1 DEF Frees, WebTypeOK
  <2>3. SessionsKnown'
    BY <1>1, <1>2, <1>8 DEF Frees, SessionsKnown, Signs
  <2> QED BY <1>2, <1>8, <2>2, <2>3, FreesSlot DEF Frees, Sound
<1> QED BY <1>4, <1>5, <1>6, <1>7, <1>8

-----------------------------------------------------------------------------
(* What the tab shows and waits for.                                       *)

(* Nothing new comes to the tab: it knows, waits for and shows at most     *)
(* what it did.                                                            *)
LEMMA QuietTab ==
  ASSUME WebInv, NEW t \in Tabs,
         cookie' \in {cookie, None}, csrfToken'[t] = csrfToken[t],
         session'[t].is = session[t].is, Signs(t) => session'[t].sid = session[t].sid,
         data'[t] = data[t], data[t] # None => account'[session[t].sid] = account[session[t].sid],
         \A j \in Slots : Under(j)' =>
           /\ Under(j) /\ request'[j].kind = request[j].kind
           /\ request'[j].awaited = request[j].awaited
           /\ Carried(request'[j]) \in {Carried(request[j]), None},
         \A j \in Slots : LoginIs(j, "served")' =>
           LoginIs(j, "served") /\ request'[j].sid = request[j].sid,
         \A j \in Slots : LoginIs(j, "received")' <=> LoginIs(j, "received"),
         \A j \in Slots : LoginIs(j, "received") => request'[j].sid = request[j].sid
  PROVE  TabInv(t)'
<1>1. TabInv(t) /\ None \in Cookies /\ (\A j \in Slots : Under(j) => RequestFits(request[j]))
  BY DEF WebInv, Cookies
<1>2. Signs(t)' <=> Signs(t)
  BY DEF Signs
<1>3. /\ data'[t] # None => Signs(t)'
      /\ \A j \in Slots : Under(j)' /\ request'[j].kind = "list" /\ request'[j].awaited => Signs(t)'
  BY <1>1, <1>2 DEF TabInv
<1>4. ASSUME NEW j \in Slots, LoginIs(j, "served")' PROVE Fresh(t, j)'
  <2>1. Fresh(t, j) /\ request'[j].sid = request[j].sid /\ request[j].sid # None
    BY <1>1, <1>4 DEF TabInv, LoginIs, RequestFits
  <2> QED BY <1>2, <2>1 DEF Fresh, Signs
<1>5. ASSUME NEW j \in Slots, LoginIs(j, "received")' PROVE HeldBack(t, request[j].sid)'
  <2>1. PICK s : s = request[j].sid
    OBVIOUS
  <2>2. HeldBack(t, s) /\ request'[j].sid = s /\ s # None
    BY <1>1, <1>5, <2>1 DEF TabInv, LoginIs, RequestFits
  <2>3. Late(s)' => Late(s)
    BY <2>2 DEF Late
  <2> QED BY <1>2, <2>2, <2>3 DEF HeldBack, Signs
<1>6. ASSUME \A j \in Slots : ~LoginIs(j, "received")' PROVE (\E s \in Cookies : Agrees(t, s))'
  <2>1. PICK s \in Cookies : Agrees(t, s)
    BY <1>1, <1>6 DEF TabInv
  <2>2. Agrees(t, s)'
    BY <1>1, <1>2, <2>1 DEF Agrees, Query, Signs, TabInv
  <2> QED BY <2>2 DEF Cookies
<1> QED BY <1>3, <1>4, <1>5, <1>6 DEF TabInv

LEMMA ServeTab ==
  ASSUME WebInv, NEW t \in Tabs, NEW i \in Slots, Serve(i)
  PROVE  TabInv(t)'
<1>1. /\ Under(i) /\ request[i].phase = "sent"
      /\ UNCHANGED <<cookie, csrfToken, session, data, page, failures>>
  BY ServeEffect
<1>2. PICK q \in Answers : Serves(i, q)
  BY ServeEffect
<1>3. /\ WebTypeOK /\ SessionsKnown /\ OneLogin /\ TabInv(t)
      /\ \A j \in Slots : Under(j) => RequestFits(request[j])
      /\ None \notin Sids
  BY WebSessionAssumption DEF WebInv, Sids
<1>4. /\ \A j \in Slots \ {i} : request'[j] = request[j]
      /\ request'[i] = q /\ q # None /\ q.phase = "served" /\ q.kind = request[i].kind
      /\ q.awaited = request[i].awaited
  BY <1>2 DEF Serves, Puts
<1>5. CASE q.kind = "login"
  <2>1. /\ q.sid \in Sids \ Known /\ account' = [account EXCEPT ![q.sid] = request[i].by]
    BY <1>2, <1>5 DEF Serves
  <2>2. \A j \in Slots \ {i} : Under(j) => request[j].kind # "login"
    BY <1>1, <1>3, <1>4, <1>5 DEF OneLogin
  <2>3. \A j \in Slots : LoginIs(j, "received") \/ LoginIs(j, "received")' => FALSE
    BY <1>1, <1>4, <2>2 DEF LoginIs, Under
  <2>4. PICK s \in Cookies : Agrees(t, s)
    BY <1>3, <2>3 DEF TabInv
  <2>5. Agrees(t, s)'
    <3>1. data[t] # None => account'[s] = account[s]
      BY <1>3, <2>1, <2>4 DEF TabInv, Agrees, SessionsKnown, WebTypeOK
    <3> QED BY <1>1, <1>4, <1>5, <2>4, <3>1 DEF Agrees, Query, Under, Signs
  <2>6. \A j \in Slots : LoginIs(j, "served")' => Fresh(t, j)'
    <3> SUFFICES ASSUME NEW j \in Slots, LoginIs(j, "served")' PROVE Fresh(t, j)'
      OBVIOUS
    <3>1. j = i
      BY <1>4, <2>2 DEF LoginIs, Under
    <3>2. \A l \in Slots \ {i} : Under(l) => Carried(request[l]) # q.sid
      BY <1>3, <2>1 DEF RequestFits
    <3> QED BY <1>1, <1>3, <1>4, <2>1, <3>1, <3>2 DEF Fresh, SessionsKnown, Signs, Under
  <2> QED BY <1>1, <1>3, <1>4, <1>5, <2>3, <2>5, <2>6 DEF TabInv, Signs, Under
<1>6. CASE q.kind # "login"
  <2>1. account' = account /\ q.sid \in {request[i].cookie, None}
    BY <1>2, <1>6 DEF Serves
  <2>2. Carried(q) \in {Carried(request[i]), None}
    BY <1>1, <1>4, <2>1 DEF Carried
  <2>3. \A j \in Slots : Under(j)' =>
           /\ Under(j) /\ request'[j].kind = request[j].kind
           /\ request'[j].awaited = request[j].awaited
           /\ Carried(request'[j]) \in {Carried(request[j]), None}
    BY <1>1, <1>4, <2>2 DEF Under
  <2>4. /\ \A j \in Slots : LoginIs(j, "served")' =>
             LoginIs(j, "served") /\ request'[j].sid = request[j].sid
        /\ \A j \in Slots : LoginIs(j, "received")' <=> LoginIs(j, "received")
        /\ \A j \in Slots : LoginIs(j, "received") => request'[j].sid = request[j].sid
    BY <1>1, <1>4, <1>6 DEF LoginIs, Under
  <2> QED BY <1>1, <2>1, <2>3, <2>4, QuietTab
<1> QED BY <1>5, <1>6

LEMMA SendTab ==
  ASSUME WebInv, NEW t \in Tabs, NEW kind \in Kinds, NEW by \in Users \cup {None},
         kind = "list" => Signs(t), Send(t, kind, by)
  PROVE  TabInv(t)'
<1>1. UNCHANGED <<account, live, cookie, csrfToken, session, data, page, failures>>
  BY SendEffect
<1>2. PICK i \in Slots, q \in Sent : Sends(t, kind, by, i, q)
  BY SendEffect
<1>3. TabInv(t)
  BY DEF WebInv
<1>4. /\ \A j \in Slots \ {i} : request'[j] = request[j]
      /\ request'[i] = q /\ ~Under(i) /\ q.phase = "sent" /\ q.kind = kind /\ q.awaited
      /\ Carried(q) = cookie
  BY <1>2 DEF Sends, Puts, Carried
<1>5. \A j \in Slots, phase \in {"served", "received"} :
        LoginIs(j, phase)' => j # i /\ LoginIs(j, phase) /\ request'[j] = request[j]
  BY <1>4 DEF LoginIs, Under
<1>6. /\ data'[t] # None => Signs(t)'
      /\ \A j \in Slots : Under(j)' /\ request'[j].kind = "list" /\ request'[j].awaited => Signs(t)'
  BY <1>1, <1>3, <1>4 DEF TabInv, Signs, Under
<1>7. ASSUME NEW j \in Slots, LoginIs(j, "served")' PROVE Fresh(t, j)'
  <2>1. Fresh(t, j) /\ j # i /\ request'[j] = request[j]
    BY <1>3, <1>5, <1>7 DEF TabInv
  <2> QED BY <1>1, <1>4, <2>1 DEF Fresh, Signs, Under
<1>8. ASSUME NEW j \in Slots, LoginIs(j, "received")' PROVE HeldBack(t, request[j].sid)'
  <2>1. PICK s : s = request[j].sid
    OBVIOUS
  <2>2. HeldBack(t, s) /\ request'[j].sid = s
    BY <1>3, <1>5, <1>8, <2>1 DEF TabInv
  <2>3. Late(s)' => Late(s)
    BY <1>4 DEF Late, Under
  <2>4. HeldBack(t, s)'
    BY <1>1, <1>4, <2>2, <2>3 DEF HeldBack, Signs, Under
  <2> QED BY <2>2, <2>4 DEF HeldBack, Late
<1>9. ASSUME \A j \in Slots : ~LoginIs(j, "received")' PROVE (\E s \in Cookies : Agrees(t, s))'
  <2>1. \A j \in Slots : ~LoginIs(j, "received")
    BY <1>4, <1>9 DEF LoginIs, Under
  <2>2. PICK s \in Cookies : Agrees(t, s)
    BY <1>3, <2>1 DEF TabInv
  <2>3. Agrees(t, s)'
    BY <1>1, <1>4, <2>2 DEF Agrees, Signs, Under
  <2> QED BY <2>3 DEF Cookies
<1> QED BY <1>6, <1>7, <1>8, <1>9 DEF TabInv

LEMMA ReceiveTab ==
  ASSUME WebInv, NEW t \in Tabs, NEW i \in Slots, Receive(i)
  PROVE  TabInv(t)'
<1>1. /\ Under(i) /\ request[i] \in Answers /\ request[i].phase = "served"
      /\ UNCHANGED <<account, live, csrfToken, session, data, page, failures>>
  BY ReceiveEffect
<1>2. PICK q \in Answers : Receives(i, q)
  BY ReceiveEffect
<1>3. OneLogin /\ TabInv(t) /\ RequestFits(request[i])
  BY <1>1 DEF WebInv
<1>4. /\ \A j \in Slots \ {i} : request'[j] = request[j]
      /\ request'[i] = q /\ q # None /\ q.phase = "received" /\ q.kind = request[i].kind
      /\ q.awaited = request[i].awaited /\ q.sid = request[i].sid
      /\ Carried(q) = Carried(request[i]) /\ Carried(q) = q.sid
  BY <1>1, <1>2 DEF Receives, Puts, Carried
<1>5. \A j \in Slots : Under(j)' =>
        /\ Under(j) /\ request'[j].kind = request[j].kind
        /\ request'[j].awaited = request[j].awaited
        /\ Carried(request'[j]) = Carried(request[j])
  BY <1>1, <1>4 DEF Under
<1>6. CASE q.kind = "login"
  <2>1. \A j \in Slots \ {i} : Under(j) => request[j].kind # "login"
    BY <1>1, <1>3, <1>4, <1>6 DEF OneLogin
  <2>2. \A j \in Slots : (LoginIs(j, "served")' => FALSE) /\ (LoginIs(j, "received")' <=> j = i)
    BY <1>1, <1>4, <1>6, <2>1 DEF LoginIs, Under
  <2>3. Fresh(t, i) /\ cookie' = q.sid
    BY <1>1, <1>2, <1>3, <1>4, <1>6 DEF TabInv, LoginIs, RequestFits, Receives
  <2>4. ~Late(q.sid)'
    BY <1>4, <1>5, <1>6, <2>3 DEF Late, Fresh
  <2>5. HeldBack(t, q.sid)'
    BY <1>1, <1>4, <2>3, <2>4 DEF HeldBack, Fresh, Signs
  <2>6. HeldBack(t, request[i].sid)'
    BY <1>4, <2>5 DEF HeldBack, Late
  <2> QED BY <1>1, <1>3, <1>5, <2>2, <2>6 DEF TabInv, Signs
<1>7. CASE q.kind # "login"
  <2>1. cookie' \in {cookie, None}
    BY <1>1, <1>2, <1>3, <1>4, <1>7 DEF Receives, RequestFits
  <2>2. /\ \A j \in Slots : LoginIs(j, "served")' =>
             LoginIs(j, "served") /\ request'[j].sid = request[j].sid
        /\ \A j \in Slots : LoginIs(j, "received")' <=> LoginIs(j, "received")
        /\ \A j \in Slots : LoginIs(j, "received") => request'[j].sid = request[j].sid
    BY <1>1, <1>4, <1>7 DEF LoginIs, Under
  <2> QED BY <1>1, <1>5, <2>1, <2>2, QuietTab
<1> QED BY <1>6, <1>7

LEMMA DropsTab ==
  ASSUME WebInv, NEW t \in Tabs, Tabs = {t}, NEW i \in Slots, Drops(t, i)
  PROVE  /\ \A j \in Slots : Under(j)' =>
              /\ j # i /\ Under(j) /\ request'[j].kind = request[j].kind
              /\ Query(request'[j]) => request'[j].awaited = FALSE
              /\ Carried(request'[j]) = Carried(request[j])
         /\ \A j \in Slots, phase \in {"served", "received"} :
              LoginIs(j, phase)' => j # i /\ LoginIs(j, phase) /\ request'[j] = request[j]
<1>1. ASSUME NEW j \in Slots, Under(j)'
      PROVE  /\ j # i /\ Under(j) /\ request'[j].kind = request[j].kind
             /\ Query(request'[j]) => request'[j].awaited = FALSE
             /\ Carried(request'[j]) = Carried(request[j])
             /\ request'[j].kind = "login" => request'[j] = request[j]
  <2>1. j # i
    BY <1>1 DEF Drops
  <2>2. CASE request'[j] = request[j] /\ ~(Under(j) /\ request[j].tab = t /\ Query(request[j]))
    <3>1. Under(j)
      BY <1>1, <2>2 DEF Under
    <3>2. request[j].tab = t
      BY <3>1, RequestTyped DEF WebInv
    <3> QED BY <2>1, <2>2, <3>1, <3>2
  <2>3. CASE ~(request'[j] = request[j] /\ ~(Under(j) /\ request[j].tab = t /\ Query(request[j])))
    <3>1. /\ Under(j) /\ Query(request[j]) /\ request'[j].awaited = FALSE
          /\ request'[j].phase = request[j].phase /\ request'[j].kind = request[j].kind
          /\ request[j].phase = "sent" => request'[j].cookie = request[j].cookie
          /\ request[j].phase # "sent" => request'[j].sid = request[j].sid
      BY <2>1, <2>3 DEF Drops
    <3> QED BY <2>1, <3>1 DEF Carried, Query
  <2> QED BY <2>2, <2>3
<1>2. ASSUME NEW j \in Slots, NEW phase \in {"served", "received"}, LoginIs(j, phase)'
      PROVE  j # i /\ LoginIs(j, phase) /\ request'[j] = request[j]
  <2>1. Under(j)' /\ request'[j].kind = "login"
    BY <1>2 DEF LoginIs
  <2> QED BY <1>1, <1>2, <2>1 DEF LoginIs
<1> QED BY <1>1, <1>2

LEMMA SignsOutTab ==
  ASSUME WebInv, NEW t \in Tabs, Tabs = {t}, NEW i \in Slots, SignsOut(t, i)
  PROVE  TabInv(t)'
<1>1. WebTypeOK /\ TabInv(t) /\ (\A j \in Slots : Under(j) => RequestFits(request[j]))
      /\ None \in Cookies
  BY DEF WebInv, Cookies
<1>2. Drops(t, i)
  BY DEF SignsOut
<1>3. ~Signs(t)' /\ csrfToken'[t] = None /\ data'[t] = None /\ cookie' = cookie
  BY <1>1, NewStates DEF SignsOut, WebTypeOK, Signs
<1>4. /\ \A j \in Slots : Under(j)' =>
              /\ j # i /\ Under(j) /\ request'[j].kind = request[j].kind
              /\ Query(request'[j]) => request'[j].awaited = FALSE
              /\ Carried(request'[j]) = Carried(request[j])
      /\ \A j \in Slots, phase \in {"served", "received"} :
              LoginIs(j, phase)' => j # i /\ LoginIs(j, phase) /\ request'[j] = request[j]
  BY <1>2, DropsTab
<1>5. ASSUME NEW j \in Slots, LoginIs(j, "served")' PROVE Fresh(t, j)'
  <2>1. /\ Fresh(t, j) /\ j # i /\ LoginIs(j, "served") /\ request'[j] = request[j]
        /\ request[j].sid # None
    BY <1>1, <1>4, <1>5 DEF TabInv, LoginIs, RequestFits
  <2> QED BY <1>3, <1>4, <2>1 DEF Fresh
<1>6. ASSUME NEW j \in Slots, LoginIs(j, "received")' PROVE HeldBack(t, request[j].sid)'
  <2>1. HeldBack(t, request[j].sid) /\ request'[j] = request[j]
    BY <1>1, <1>4, <1>6 DEF TabInv
  <2> QED BY <1>3, <1>4, <2>1 DEF HeldBack, Query
<1>7. Agrees(t, cookie)'
  BY <1>3, <1>4 DEF Agrees
<1>8. cookie' \in Cookies
  BY <1>1, <1>3 DEF WebTypeOK
<1>9. \A j \in Slots : Under(j)' /\ request'[j].kind = "list" /\ request'[j].awaited => Signs(t)'
  BY <1>4 DEF Query
<1> QED BY <1>3, <1>5, <1>6, <1>7, <1>8, <1>9 DEF TabInv

LEMMA SignsInTab ==
  ASSUME WebInv, NEW t \in Tabs, Tabs = {t}, NEW i \in Slots, SignsIn(t, i)
  PROVE  TabInv(t)'
<1>0. PICK s : s = request[i].sid
  OBVIOUS
<1>1. /\ WebTypeOK /\ TabInv(t) /\ OneLogin /\ RequestFits(request[i]) /\ s \in Sids
      /\ LoginIs(i, "received") /\ Drops(t, i)
  BY <1>0 DEF WebInv, SignsIn, LoginIs, RequestFits, Carried, Known
<1>2. Signs(t)' /\ session'[t].sid = s /\ data'[t] = None /\ cookie' = cookie
  BY <1>0, <1>1, NewStates DEF SignsIn, WebTypeOK, Signs
<1>3. cookie \in {s, None}
  BY <1>0, <1>1 DEF TabInv, HeldBack
<1>4. /\ \A j \in Slots : Under(j)' =>
              /\ j # i /\ Under(j) /\ request'[j].kind = request[j].kind
              /\ Query(request'[j]) => request'[j].awaited = FALSE
              /\ Carried(request'[j]) = Carried(request[j])
      /\ \A j \in Slots, phase \in {"served", "received"} :
              LoginIs(j, phase)' => j # i /\ LoginIs(j, phase) /\ request'[j] = request[j]
  BY <1>1, DropsTab
<1>5. \A j \in Slots, phase \in {"served", "received"} : ~LoginIs(j, phase)'
  BY <1>1, <1>4 DEF OneLogin, LoginIs
<1>6. Agrees(t, s)'
  BY <1>2, <1>3, <1>4 DEF Agrees
<1>7. \A j \in Slots : Under(j)' /\ request'[j].kind = "list" /\ request'[j].awaited => Signs(t)'
  BY <1>2
<1>8. s \in Cookies
  BY <1>1 DEF Cookies
<1> QED BY <1>2, <1>5, <1>6, <1>7, <1>8 DEF TabInv

LEMMA LearnsMeTab ==
  ASSUME WebInv, NEW t \in Tabs, NEW i \in Slots, LearnsMe(t, i)
  PROVE  TabInv(t)'
<1>1. PICK c : c = request[i].sid
  OBVIOUS
<1>2. /\ WebTypeOK /\ TabInv(t) /\ RequestFits(request[i]) /\ Under(i)
      /\ request[i].kind = "me" /\ request[i].phase = "received" /\ request[i].status = "ok"
      /\ Puts(i, None)
  BY DEF WebInv, LearnsMe
<1>3. /\ c # None /\ Carried(request[i]) = c /\ c \in Sids /\ request[i].awaited \in BOOLEAN
  BY <1>1, <1>2, RequestTyped DEF RequestFits, Carried, Query, Known
<1>4. /\ UNCHANGED <<account, cookie, data>> /\ csrfToken'[t] = c
      /\ request[i].awaited => Signs(t)' /\ session'[t].sid = c
      /\ ~request[i].awaited => session' = session
  BY <1>1, <1>2, <1>3, NewStates DEF LearnsMe, WebTypeOK, Signs
<1>5. \A j \in Slots : Under(j)' => j # i /\ Under(j) /\ request'[j] = request[j]
  BY <1>2 DEF Puts, Under
<1>6. \A j \in Slots, phase \in {"served", "received"} :
        LoginIs(j, phase)' <=> LoginIs(j, phase)
  BY <1>2 DEF Puts, LoginIs, Under
<1>7. Signs(t) => Signs(t)'
  BY <1>3, <1>4 DEF Signs
<1>8. ASSUME NEW j \in Slots, LoginIs(j, "served")' PROVE Fresh(t, j)'
  <2>1. Fresh(t, j) /\ j # i /\ request'[j] = request[j]
    BY <1>2, <1>5, <1>6, <1>8 DEF TabInv, LoginIs
  <2>2. c # request[j].sid
    BY <1>2, <1>3, <2>1 DEF Fresh
  <2> QED BY <1>3, <1>4, <1>5, <2>1, <2>2 DEF Fresh, Signs
<1>9. ASSUME NEW j \in Slots, LoginIs(j, "received")' PROVE HeldBack(t, request[j].sid)'
  <2>1. PICK s : s = request[j].sid
    OBVIOUS
  <2>2. HeldBack(t, s) /\ request'[j].sid = s
    BY <1>2, <1>5, <1>6, <1>9, <2>1 DEF TabInv, LoginIs
  <2>3. Late(s)' => Late(s)
    BY <1>5 DEF Late
  <2>4. CASE request[i].awaited
    <3>1. Late(s) => c = s
      BY <1>2, <1>3, <2>2, <2>4 DEF HeldBack
    <3> QED BY <1>4, <1>5, <2>2, <2>3, <2>4, <3>1 DEF HeldBack
  <2>5. CASE ~request[i].awaited
    <3>1. c = s => Late(s)
      BY <1>2, <1>3, <2>5 DEF Late
    <3> QED BY <1>4, <1>5, <2>2, <2>3, <2>5, <3>1 DEF HeldBack, Signs
  <2> QED BY <2>4, <2>5
<1>10. ASSUME \A j \in Slots : ~LoginIs(j, "received")' PROVE (\E s \in Cookies : Agrees(t, s))'
  <2>1. PICK s \in Cookies : Agrees(t, s)
    BY <1>2, <1>6, <1>10 DEF TabInv
  <2>2. request[i].awaited => c = s
    BY <1>2, <1>3, <2>1 DEF Agrees, Query
  <2>3. Agrees(t, s)'
    BY <1>3, <1>4, <1>5, <2>1, <2>2 DEF Agrees, Signs
  <2> QED BY <2>3 DEF Cookies
<1>11. /\ data'[t] # None => Signs(t)'
       /\ \A j \in Slots : Under(j)' /\ request'[j].kind = "list" /\ request'[j].awaited => Signs(t)'
  BY <1>2, <1>4, <1>5, <1>7 DEF TabInv
<1> QED BY <1>8, <1>9, <1>10, <1>11 DEF TabInv

LEMMA LearnsListTab ==
  ASSUME WebInv, NEW t \in Tabs, NEW i \in Slots, LearnsList(t, i)
  PROVE  TabInv(t)'
<1>1. /\ WebTypeOK /\ TabInv(t) /\ RequestFits(request[i]) /\ Under(i)
      /\ request[i].kind = "list" /\ request[i].phase = "received" /\ request[i].status = "ok"
      /\ Puts(i, None) /\ UNCHANGED <<account, cookie, csrfToken, session>>
  BY DEF WebInv, LearnsList
<1>2. \A j \in Slots : Under(j)' => j # i /\ Under(j) /\ request'[j] = request[j]
  BY <1>1 DEF Puts, Under
<1>3. \A j \in Slots, phase \in {"served", "received"} :
        LoginIs(j, phase)' <=> LoginIs(j, phase)
  BY <1>1 DEF Puts, LoginIs, Under
<1>4. CASE data'[t] = data[t]
  <2>1. /\ \A j \in Slots : LoginIs(j, "served")' =>
             LoginIs(j, "served") /\ request'[j].sid = request[j].sid
        /\ \A j \in Slots : LoginIs(j, "received") => request'[j].sid = request[j].sid
    BY <1>2, <1>3 DEF LoginIs
  <2> QED BY <1>1, <1>2, <1>3, <1>4, <2>1, QuietTab
<1>5. CASE data'[t] # data[t]
  <2>1. request[i].awaited /\ data'[t] = account[request[i].sid] /\ Signs(t) /\ Signs(t)'
    BY <1>1, <1>5 DEF LearnsList, WebTypeOK, TabInv, Signs
  <2>2. ASSUME NEW j \in Slots, LoginIs(j, "served")' PROVE Fresh(t, j)'
    <3>1. Fresh(t, j) /\ j # i /\ request'[j] = request[j]
      BY <1>1, <1>2, <1>3, <2>2 DEF TabInv, LoginIs
    <3> QED BY <1>1, <1>2, <3>1 DEF Fresh, Signs
  <2>3. ASSUME NEW j \in Slots, LoginIs(j, "received")' PROVE HeldBack(t, request[j].sid)'
    <3>1. PICK s : s = request[j].sid
      OBVIOUS
    <3>2. HeldBack(t, s) /\ request'[j].sid = s
      BY <1>1, <1>2, <1>3, <2>3, <3>1 DEF TabInv, LoginIs
    <3>3. Late(s)' => Late(s)
      BY <1>2 DEF Late
    <3> QED BY <1>1, <1>2, <3>2, <3>3 DEF HeldBack, Signs
  <2>4. ASSUME \A j \in Slots : ~LoginIs(j, "received")' PROVE (\E s \in Cookies : Agrees(t, s))'
    <3>1. PICK s \in Cookies : Agrees(t, s)
      BY <1>1, <1>3, <2>4 DEF TabInv
    <3>2. request[i].sid = s
      BY <1>1, <2>1, <3>1 DEF Agrees, RequestFits, Carried, Query
    <3>3. Agrees(t, s)'
      BY <1>1, <1>2, <2>1, <3>1, <3>2 DEF Agrees, Signs
    <3> QED BY <3>3 DEF Cookies
  <2> QED BY <2>1, <2>2, <2>3, <2>4 DEF TabInv
<1> QED BY <1>4, <1>5

LEMMA FreesTab ==
  ASSUME WebInv, NEW t \in Tabs, NEW u \in Tabs, NEW i \in Slots, Frees(u, i)
  PROVE  TabInv(t)'
<1>1. /\ Under(i) /\ Puts(i, None) /\ ~LoginIs(i, "received")
      /\ UNCHANGED <<account, cookie, csrfToken, data>>
      /\ session'[t].is = session[t].is /\ (Signs(t) => session'[t].sid = session[t].sid)
  BY DEF Frees
<1>2. \A j \in Slots : Under(j)' => j # i /\ Under(j) /\ request'[j] = request[j]
  BY <1>1 DEF Puts, Under
<1>3. /\ \A j \in Slots : LoginIs(j, "served")' =>
           LoginIs(j, "served") /\ request'[j].sid = request[j].sid
      /\ \A j \in Slots : LoginIs(j, "received")' <=> LoginIs(j, "received")
      /\ \A j \in Slots : LoginIs(j, "received") => request'[j].sid = request[j].sid
  BY <1>1 DEF Puts, LoginIs, Under
<1> QED BY <1>1, <1>2, <1>3, QuietTab

-----------------------------------------------------------------------------
(* The invariant.                                                          *)

LEMMA WebInvInit == Init => WebInv
<1> SUFFICES ASSUME Init PROVE WebInv
  OBVIOUS
<1>1. /\ None \in Cookies /\ None \notin Sids /\ None \notin Users
      /\ \A i \in Slots : ~Under(i)
      /\ \A t \in Tabs : csrfToken[t] = None /\ data[t] = None /\ ~Signs(t)
  BY WebSessionAssumption DEF Init, Cookies, Sids, Under, Signs
<1>2. /\ account \in [Sids -> Users \cup {None}] /\ live \subseteq Known
      /\ cookie \in Known \cup {None}
  <2>1. CASE account = [s \in Sids |-> None] /\ live = {} /\ cookie = None
    BY <2>1
  <2>2. CASE /\ \E u \in Users : account = [s \in Sids |-> IF s = 1 THEN u ELSE None]
             /\ live = {1} /\ cookie = 1
    <3>1. 1 \in Sids
      BY WebSessionAssumption DEF Sids
    <3> QED BY <1>1, <2>2, <3>1 DEF Known
  <2> QED BY <2>1, <2>2 DEF Init
<1>3. WebTypeOK
  <2>1. live \subseteq Sids /\ cookie \in Cookies
    BY <1>2 DEF Known, Cookies
  <2> QED BY <1>1, <1>2, <2>1 DEF Init, WebTypeOK, SessionStates
<1>4. SessionsKnown /\ OneLogin
  BY <1>1, <1>2 DEF SessionsKnown, OneLogin
<1>5. ASSUME NEW t \in Tabs PROVE TabInv(t)
  <2>1. Agrees(t, cookie) /\ cookie \in Cookies
    BY <1>1, <1>3 DEF Agrees, WebTypeOK
  <2> QED BY <1>1, <2>1 DEF TabInv, LoginIs
<1> QED BY <1>1, <1>3, <1>4, <1>5 DEF WebInv

LEMMA QuietStep ==
  ASSUME WebInv, NEW t \in Tabs, Tabs = {t},
         UNCHANGED <<account, cookie, csrfToken, session, data, request, failures>>,
         live' \subseteq live, page' \in [Tabs -> Visited]
  PROVE  WebInv'
<1>1. Sound'
  BY DEF WebInv, Sound, WebTypeOK, SessionsKnown, Known, Signs, Under, RequestFits, Carried,
         Query, OneLogin
<1>2. TabInv(t)'
  <2>1. \A j \in Slots, phase \in {"served", "received"} : LoginIs(j, phase)' <=> LoginIs(j, phase)
    BY DEF LoginIs, Under
  <2> QED BY <2>1, QuietTab DEF Under, LoginIs
<1> QED BY <1>1, <1>2 DEF WebInv, Sound

LEMMA SendStep ==
  ASSUME WebInv, NEW t \in Tabs, Tabs = {t},
         \/ FetchSession(t) \/ Poll(t) \/ Write(t) \/ Logout(t)
         \/ \E u \in Users : Login(t, u)
  PROVE  WebInv'
<1>1. \E kind \in Kinds, by \in Users \cup {None} :
        /\ Send(t, kind, by)
        /\ kind = "login" => by # None
        /\ kind = "write" => by = Shows(t) /\ Signs(t)
        /\ kind = "list" => Signs(t)
  <2>1. CASE FetchSession(t)
    BY <2>1 DEF FetchSession, Kinds
  <2>2. CASE Poll(t)
    BY <2>2 DEF Poll, InPage, Signs, Kinds
  <2>3. CASE Write(t)
    <3>1. Signs(t)
      BY <2>3 DEF Write, InPage, Signs
    <3>2. Shows(t) \in Users \cup {None}
      BY <3>1, SessionTyped DEF Shows, Signs, WebInv, WebTypeOK
    <3> QED BY <2>3, <3>1, <3>2 DEF Write, Kinds
  <2>4. CASE Logout(t)
    BY <2>4 DEF Logout, Kinds
  <2>5. CASE \E u \in Users : Login(t, u)
    BY <2>5, WebSessionAssumption DEF Login, Kinds
  <2> QED BY <2>1, <2>2, <2>3, <2>4, <2>5
<1>2. PICK kind \in Kinds, by \in Users \cup {None} :
        /\ Send(t, kind, by)
        /\ kind = "login" => by # None
        /\ kind = "write" => by = Shows(t) /\ Signs(t)
        /\ kind = "list" => Signs(t)
  BY <1>1
<1>3. Sound'
  BY <1>2, SendSound
<1>4. TabInv(t)'
  BY <1>2, SendTab
<1> QED BY <1>3, <1>4 DEF WebInv, Sound

LEMMA HandleStep ==
  ASSUME WebInv, NEW t \in Tabs, Tabs = {t}, NEW i \in Slots, Handle(i) \/ Lose(i)
  PROVE  WebInv'
<1>1. SignsOut(t, i) \/ SignsIn(t, i) \/ LearnsMe(t, i) \/ LearnsList(t, i) \/ Frees(t, i)
  BY HandleEffect
<1>2. Sound'
  BY <1>1, HandleSound
<1>3. TabInv(t)'
  BY <1>1, SignsOutTab, SignsInTab, LearnsMeTab, LearnsListTab, FreesTab
<1> QED BY <1>2, <1>3 DEF WebInv, Sound

LEMMA WebInvStep == OneTab /\ WebInv /\ [Next]_vars => WebInv'
<1> SUFFICES ASSUME OneTab, WebInv, [Next]_vars PROVE WebInv'
  OBVIOUS
<1>0. PICK t : Tabs = {t}
  BY DEF OneTab
<1>1. ASSUME NEW i \in Slots, Serve(i) PROVE WebInv'
  BY <1>0, <1>1, ServeSound, ServeTab DEF WebInv, Sound
<1>2. ASSUME NEW i \in Slots, Receive(i) PROVE WebInv'
  BY <1>0, <1>2, ReceiveSound, ReceiveTab DEF WebInv, Sound
<1>3. ASSUME NEW i \in Slots, Handle(i) \/ Lose(i) PROVE WebInv'
  BY <1>0, <1>3, HandleStep
<1>4. CASE \/ FetchSession(t) \/ Poll(t) \/ Write(t) \/ Logout(t)
           \/ \E u \in Users : Login(t, u)
  BY <1>0, <1>4, SendStep
<1>5. CASE End \/ (\E p \in Visited : Go(t, p)) \/ UNCHANGED vars
  <2>1. /\ UNCHANGED <<account, cookie, csrfToken, session, data, request, failures>>
        /\ live' \subseteq live /\ page' \in [Tabs -> Visited]
    BY <1>5 DEF End, Go, vars, WebInv, WebTypeOK
  <2> QED BY <1>0, <2>1, QuietStep
<1> QED BY <1>0, <1>1, <1>2, <1>3, <1>4, <1>5 DEF Next, Handle

(* With one tab, the invariant above holds whatever the network delays,    *)
(* loses or lets overtake, and whenever sessions end.                      *)
THEOREM WebInvHolds == ASSUME OneTab PROVE Spec => []WebInv
<1>1. WebInv /\ [Next]_vars => WebInv'
  BY OneTab, WebInvStep
<1> QED BY <1>1, WebInvInit, PTL DEF Spec

(* With one tab, no page shows rows that were read for another user than   *)
(* the one it names.                                                       *)
THEOREM ShowsOnlyOwnData == ASSUME OneTab PROVE Spec => []OnlyOwnData
<1>1. WebInv => OnlyOwnData
  <2> SUFFICES ASSUME WebInv, NEW t \in Tabs, InPage(t), Settled(t), data[t] # None
               PROVE  data[t] = Shows(t)
    BY DEF OnlyOwnData
  <2>0. Tabs = {t}
    BY OneTab DEF OneTab
  <2>1. Signs(t) /\ TabInv(t)
    BY DEF InPage, Signs, WebInv
  <2>2. ASSUME NEW i \in Slots, LoginIs(i, "received") PROVE FALSE
    <3>1. Under(i) /\ request[i].kind = "login" /\ RequestFits(request[i])
      BY <2>2 DEF LoginIs, WebInv
    <3>2. request[i].tab = t /\ request[i].awaited
      BY <2>0, <3>1, RequestTyped DEF WebInv, RequestFits, Query
    <3> QED BY <3>1, <3>2 DEF Settled, Awaits, Under
  <2>3. PICK s \in Cookies : Agrees(t, s)
    BY <2>1, <2>2 DEF TabInv
  <2> QED BY <2>1, <2>3 DEF Agrees, Shows, Signs
<1> QED BY <1>1, WebInvHolds, OneTab, PTL

(* With one tab, a form is done in the name of the user the page showed    *)
(* when it was sent, or not at all.                                        *)
THEOREM FormsAreTheirUsers == ASSUME OneTab PROVE Spec => WritesAsShown
<1>1. ASSUME WebInv, NEW i \in Slots, Serve(i), request[i].kind = "write",
             request'[i].status = "ok"
      PROVE  account[request[i].cookie] = request[i].by
  <2>1. Under(i) /\ request[i].phase = "sent"
    BY <1>1, ServeEffect
  <2>2. PICK q \in Answers : Serves(i, q)
    BY <1>1, ServeEffect
  <2>3. request[i].cookie \in live /\ request[i].token = request[i].cookie
    BY <1>1, <2>2 DEF Serves, Puts
  <2>4. RequestFits(request[i]) /\ request[i].cookie \in Known
    BY <1>1, <2>1, <2>3 DEF WebInv, SessionsKnown
  <2>5. request[i].cookie # None
    BY <2>4, WebSessionAssumption DEF Known, Sids
  <2> QED BY <1>1, <2>1, <2>3, <2>4, <2>5 DEF RequestFits
<1>2. WebInv => (\A i \in Slots :
                   Serve(i) /\ request[i].kind = "write" /\ request'[i].status = "ok"
                     => account[request[i].cookie] = request[i].by)
  BY <1>1
<1> QED BY <1>2, WebInvHolds, OneTab, PTL DEF WritesAsShown
====
