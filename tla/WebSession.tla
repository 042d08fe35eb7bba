------------------------------- MODULE WebSession -------------------------------
(***************************************************************************)
(* Sign-in as the web application lives it: the session query and the      *)
(* token of features/auth/session.ts, the requests of lib/api.ts, the      *)
(* guards of the routes, and what plugins/auth.ts answers them.  The tabs  *)
(* of one browser share its cookie.  A request carries the cookie and the  *)
(* token of the moment it is sent; the browser takes the cookie an answer  *)
(* brings when its headers arrive, and the page handles the answer later.  *)
(* A query that is cancelled no longer waits for its answer, but the       *)
(* request goes on, and what its function does with the answer still runs. *)
(*                                                                         *)
(* Sids number the sessions in the order they are created; a token         *)
(* (csrfTokenFor) is the sid it is derived from.  Permissions of the page  *)
(* in view are the ones of the role the session query brought.             *)
(***************************************************************************)
EXTENDS Permissions, Integers

CONSTANTS
  Tabs, Users, None,
  RoleOf,       \* role of each user
  Visited,      \* pages the users go to
  Slots,        \* bounds: requests under way at a time,
  MaxLogins,    \* sessions created,
  MaxFailures   \* requests or answers lost

Sids == 1..MaxLogins
Cookies == Sids \cup {None}

(* A request is of a tab and a kind, "sent" with a cookie and a token, then*)
(* "served" and "received" with a status, a sid and a cookie to set; by is *)
(* the user the page showed, awaited whether the tab still wants it.       *)
Kinds == {"me", "list", "write", "login", "logout"}
Sent == [tab : Tabs, kind : Kinds, by : Users \cup {None}, cookie : Cookies, token : Cookies,
         awaited : BOOLEAN, phase : {"sent"}]
Answers == [tab : Tabs, kind : Kinds, awaited : BOOLEAN, phase : {"served", "received"},
            status : {"ok", "unauthenticated", "refused"}, sid : Cookies,
            sets : SUBSET Cookies]

ASSUME WebSessionAssumption ==
  /\ RoleOf \in [Users -> ROLES]
  /\ Visited \subseteq Pages
  /\ None \notin Users \cup Pages \cup Nat
  /\ None \notin Sent /\ None \notin Answers
  /\ MaxLogins \in Nat \ {0} /\ MaxFailures \in Nat

\* sets: the cookie an answer brings, {} for none and {None} to clear it.
VARIABLES
  account,   \* API: the user of each session created
  live,      \* API: sessions that are neither over nor revoked
  cookie,    \* browser: the session of its cookie
  csrfToken, \* of each tab, lib/api.ts
  session,   \* of each tab: what the session query holds
  data,      \* of each tab: whose rows the list in the cache shows
  page,      \* of each tab: where the user wants to be
  request,   \* requests under way
  failures

vars == <<account, live, cookie, csrfToken, session, data, page, request, failures>>

(* The session query: nothing yet ("pending"), no session ("null"), or a   *)
(* session ("data", with its sid); failed when its last fetch found no     *)
(* network.                                                                *)
Signed(sid) == [is |-> "data", sid |-> sid, failed |-> FALSE]
SignedOut == [is |-> "null", failed |-> FALSE]

Shows(t) == IF session[t].is = "data" THEN account[session[t].sid] ELSE None

-----------------------------------------------------------------------------
(* The API.                                                                *)

(* Mutant: any token of the user's making will do.                         *)
CsrfUnchecked(r) == TRUE
CsrfValid(r) == r.kind \in {"write", "logout"} => r.token = r.cookie

(* authenticate, then the handler.  Only a login needs no session; it and  *)
(* its cookie are new.  A cookie that resolves to nothing is cleared.      *)
Created(s) == account[s] = None /\ \A z \in Sids : z < s => account[z] # None

Answered(r, status, sid, sets) ==
  [tab |-> r.tab, kind |-> r.kind, awaited |-> r.awaited, phase |-> "served",
   status |-> status, sid |-> sid, sets |-> sets]

Serve(i) ==
  LET r == request[i]
      Answer(status, sid, sets) ==
        request' = [request EXCEPT ![i] = Answered(r, status, sid, sets)]
  IN /\ r # None /\ r.phase = "sent"
     /\ \/ /\ r.kind = "login"
           /\ \E s \in Sids : /\ Created(s)
                             /\ account' = [account EXCEPT ![s] = r.by]
                             /\ live' = live \cup {s}
                             /\ Answer("ok", s, {s})
        \/ /\ r.kind # "login" /\ r.cookie \notin live
           /\ Answer("unauthenticated", None, IF r.cookie = None THEN {} ELSE {None})
           /\ UNCHANGED <<account, live>>
        \/ /\ r.kind # "login" /\ r.cookie \in live /\ ~CsrfValid(r)
           /\ Answer("refused", None, {})
           /\ UNCHANGED <<account, live>>
        \/ /\ r.kind = "logout" /\ r.cookie \in live /\ CsrfValid(r)
           /\ live' = live \ {r.cookie}
           /\ Answer("ok", None, {None})
           /\ UNCHANGED account
        \/ /\ r.kind \in {"me", "list", "write"} /\ r.cookie \in live /\ CsrfValid(r)
           /\ Answer("ok", r.cookie, {})
           /\ UNCHANGED <<account, live>>
     /\ UNCHANGED <<cookie, csrfToken, session, data, page, failures>>

(* A session ends: expiry, revocation, a user deactivated.                 *)
End == /\ \E s \in live : live' = live \ {s}
       /\ UNCHANGED <<account, cookie, csrfToken, session, data, page, request, failures>>

-----------------------------------------------------------------------------
(* Requests of a tab.                                                      *)

Free(i) == request[i] = None /\ \A j \in Slots : j < i => request[j] # None
Awaits(t, kinds) == \E i \in Slots : /\ request[i] # None /\ request[i].tab = t
                                     /\ request[i].kind \in kinds /\ request[i].awaited

Send(t, kind, by) ==
  /\ ~Awaits(t, {kind})
  /\ \E i \in Slots :
       /\ Free(i)
       /\ request' = [request EXCEPT ![i] =
            [tab |-> t, kind |-> kind, by |-> by, cookie |-> cookie,
             token |-> IF kind \in {"me", "list"} THEN None ELSE csrfToken[t],
             awaited |-> TRUE, phase |-> "sent"]]
  /\ UNCHANGED <<account, live, cookie, csrfToken, session, data, page, failures>>

(* The session query is fetched when the tab opens and whenever it is      *)
(* stale and something looks at it again.                                  *)
FetchSession(t) == Send(t, "me", None)

(* RequireAuth and RequirePermission: who does not pass sees no page.      *)
InPage(t) == /\ session[t].is = "data" /\ ~session[t].failed
             /\ Opens(RoleOf[Shows(t)], page[t])

(* The list of the page in view, on arrival and at each refetchInterval.   *)
Poll(t) == InPage(t) /\ page[t] = "alertas" /\ Send(t, "list", None)

(* A form of the page: the user acts as the one the page shows.            *)
Write(t) == InPage(t) /\ Send(t, "write", Shows(t))

Logout(t) == session[t].is = "data" /\ ~session[t].failed /\ Send(t, "logout", None)

(* LoginPage has its form as long as the query brings no session.          *)
Login(t, u) == session[t].is # "data" /\ Send(t, "login", u)

(* A link, or an address: the session decides whether the page opens.      *)
Go(t, p) == /\ p # page[t]
            /\ page' = [page EXCEPT ![t] = p]
            /\ UNCHANGED <<account, live, cookie, csrfToken, session, data, request, failures>>

-----------------------------------------------------------------------------
(* Answers.                                                                *)

(* The browser takes the cookie of an answer, whoever asked and whether or *)
(* not anybody still waits for it.                                         *)
Receive(i) ==
  LET r == request[i]
  IN /\ r # None /\ r.phase = "served"
     /\ request' = [request EXCEPT ![i].phase = "received"]
     /\ IF r.sets = {} THEN cookie' = cookie ELSE cookie' \in r.sets
     /\ UNCHANGED <<account, live, csrfToken, session, data, page, failures>>

(* Queries of the tab stop waiting; calls of mutations do not.             *)
Cancelled(t, i) ==
  [j \in Slots |-> IF j = i THEN None
                   ELSE IF request[j] # None /\ request[j].tab = t
                           /\ request[j].kind \in {"me", "list"}
                        THEN [request[j] EXCEPT !.awaited = FALSE]
                        ELSE request[j]]

(* Mutant: queries under way are left alone.                               *)
replaceSessionOnly(t, i, new) ==
  /\ session' = [session EXCEPT ![t] = new]
  /\ data' = [data EXCEPT ![t] = None]
  /\ request' = [request EXCEPT ![i] = None]

replaceSession(t, i, new) ==
  /\ session' = [session EXCEPT ![t] = new]
  /\ data' = [data EXCEPT ![t] = None]
  /\ request' = Cancelled(t, i)

(* Mutant: only the session query hears of it.                             *)
ListenersOfSession(t, i) ==
  IF request[i].kind \in {"me", "logout"}
  THEN /\ csrfToken' = [csrfToken EXCEPT ![t] = None]
       /\ replaceSession(t, i, SignedOut)
  ELSE /\ request' = [request EXCEPT ![i] = None]
       /\ UNCHANGED <<csrfToken, session, data>>

unauthenticatedListeners(t, i) ==
  /\ csrfToken' = [csrfToken EXCEPT ![t] = None]
  /\ replaceSession(t, i, SignedOut)

(* 401, whatever was asked: the listener takes the session away at once.   *)
HandleUnauthenticated(i) ==
  LET r == request[i]
  IN /\ r # None /\ r.phase = "received" /\ r.status = "unauthenticated"
     /\ unauthenticatedListeners(r.tab, i)
     /\ UNCHANGED <<account, live, cookie, page, failures>>

(* The function of the session query sets the token, awaited or not.       *)
HandleMe(i) ==
  LET r == request[i]
  IN /\ r # None /\ r.phase = "received" /\ r.status = "ok" /\ r.kind = "me"
     /\ csrfToken' = [csrfToken EXCEPT ![r.tab] = r.sid]
     /\ session' = IF r.awaited THEN [session EXCEPT ![r.tab] = Signed(r.sid)] ELSE session
     /\ request' = [request EXCEPT ![i] = None]
     /\ UNCHANGED <<account, live, cookie, data, page, failures>>

HandleList(i) ==
  LET r == request[i]
  IN /\ r # None /\ r.phase = "received" /\ r.status = "ok" /\ r.kind = "list"
     /\ data' = IF r.awaited THEN [data EXCEPT ![r.tab] = account[r.sid]] ELSE data
     /\ request' = [request EXCEPT ![i] = None]
     /\ UNCHANGED <<account, live, cookie, csrfToken, session, page, failures>>

(* A write that was accepted or refused: the form tells.                   *)
HandleWrite(i) ==
  LET r == request[i]
  IN /\ r # None /\ r.phase = "received" /\ r.status # "unauthenticated" /\ r.kind = "write"
     /\ request' = [request EXCEPT ![i] = None]
     /\ UNCHANGED <<account, live, cookie, csrfToken, session, data, page, failures>>

HandleLogin(i) ==
  LET r == request[i]
  IN /\ r # None /\ r.phase = "received" /\ r.kind = "login"
     /\ csrfToken' = [csrfToken EXCEPT ![r.tab] = r.sid]
     /\ replaceSession(r.tab, i, Signed(r.sid))
     /\ UNCHANGED <<account, live, cookie, page, failures>>

(* onSettled: also when the call was refused.                              *)
HandleLogout(i) ==
  LET r == request[i]
  IN /\ r # None /\ r.phase = "received" /\ r.status # "unauthenticated" /\ r.kind = "logout"
     /\ csrfToken' = [csrfToken EXCEPT ![r.tab] = None]
     /\ replaceSession(r.tab, i, SignedOut)
     /\ UNCHANGED <<account, live, cookie, page, failures>>

(* The network fails before the API is reached, or before its answer is:   *)
(* a query keeps what it has, a logout takes effect in the tab.            *)
Lose(i) ==
  LET r == request[i]
  IN /\ r # None /\ r.phase \in {"sent", "served"}
     /\ failures < MaxFailures
     /\ failures' = failures + 1
     /\ \/ /\ r.kind = "logout"
           /\ csrfToken' = [csrfToken EXCEPT ![r.tab] = None]
           /\ replaceSession(r.tab, i, SignedOut)
        \/ /\ r.kind = "me"
           /\ session' = IF r.awaited THEN [session EXCEPT ![r.tab].failed = TRUE] ELSE session
           /\ request' = [request EXCEPT ![i] = None]
           /\ UNCHANGED <<csrfToken, data>>
        \/ /\ r.kind \in {"list", "write", "login"}
           /\ request' = [request EXCEPT ![i] = None]
           /\ UNCHANGED <<csrfToken, session, data>>
     /\ UNCHANGED <<account, live, cookie, page>>

-----------------------------------------------------------------------------
(* The tabs are opened in a browser that may have the cookie of a session. *)
Init ==
  /\ \/ account = [s \in Sids |-> None] /\ live = {} /\ cookie = None
     \/ /\ \E u \in Users : account = [s \in Sids |-> IF s = 1 THEN u ELSE None]
        /\ live = {1} /\ cookie = 1
  /\ csrfToken = [t \in Tabs |-> None]
  /\ session = [t \in Tabs |-> [is |-> "pending", failed |-> FALSE]]
  /\ data = [t \in Tabs |-> None]
  /\ page \in [Tabs -> Visited]
  /\ request = [i \in Slots |-> None]
  /\ failures = 0

Next ==
  \/ \E i \in Slots : \/ Serve(i) \/ Receive(i) \/ Lose(i)
                      \/ HandleUnauthenticated(i) \/ HandleMe(i) \/ HandleList(i)
                      \/ HandleWrite(i) \/ HandleLogin(i) \/ HandleLogout(i)
  \/ \E t \in Tabs : \/ FetchSession(t) \/ Poll(t) \/ Write(t) \/ Logout(t)
                     \/ \E u \in Users : Login(t, u)
                     \/ \E p \in Visited : Go(t, p)
  \/ End

Spec == Init /\ [][Next]_vars

(* Requests are served and their answers handled; a page in view goes on   *)
(* asking for its list.  Strong fairness of Poll only because the bound on *)
(* the requests under way may hold it up.                                  *)
Handle(i) == \/ HandleUnauthenticated(i) \/ HandleMe(i) \/ HandleList(i)
             \/ HandleWrite(i) \/ HandleLogin(i) \/ HandleLogout(i)
Fairness == /\ \A i \in Slots : WF_vars(Serve(i)) /\ WF_vars(Receive(i)) /\ WF_vars(Handle(i))
            /\ \A t \in Tabs : SF_vars(Poll(t))
FairSpec == Spec /\ Fairness

-----------------------------------------------------------------------------
(* A page never shows rows that were read for another user than the one it *)
(* names ("dados de outro usuário nunca podem sobrar"): with one tab, and  *)
(* no login under way, no answer to an earlier user is left to come.       *)
Settled(t) == ~Awaits(t, {"login"})
OnlyOwnData ==
  \A t \in Tabs : InPage(t) /\ Settled(t) /\ data[t] # None => data[t] = Shows(t)

(* What the API does for a form is done in the name of the user the page   *)
(* showed when it was sent, also when the cookie had become another one:   *)
(* with one tab, the token holds back what the cookie would let pass.      *)
WritesAsShown ==
  [][\A i \in Slots :
       Serve(i) /\ request[i].kind = "write" /\ request'[i].status = "ok"
         => account[request[i].cookie] = request[i].by]_vars

(* "Sessão derrubada no servidor: reflete na hora": a tab with a page that *)
(* polls does not go on showing a session that is over.                    *)
ShowsEnded(t) == InPage(t) /\ page[t] = "alertas" /\ session[t].sid \notin live
EndedIsNoticed == \A t \in Tabs : ShowsEnded(t) ~> ~ShowsEnded(t)
=============================================================================
