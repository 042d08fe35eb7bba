----------------------------- MODULE SignInProofs ------------------------------
(***************************************************************************)
(* Proofs about Sessions and RateLimiter, for every set of users, sessions, *)
(* sign-ins, requests and processes, every policy and limit, and whatever  *)
(* the bounds: which sessions are open, and how often one may try.         *)
(***************************************************************************)
EXTENDS Sessions, RateLimiter, TLAPS

-----------------------------------------------------------------------------
(***************************************************************************)
(* Sessions                                                                *)
(* which a change of password leaves open                                  *)
(***************************************************************************)

(* OnlyKeptOrLate is inductive once the state is of its types.             *)
SessionsInv == SessionsTypeOK /\ OnlyKeptOrLate

(* A step that gives each session a row that is no more open than before,  *)
(* or is a login's or a kept one's, and leaves the passwords chosen alone. *)
Opened(row) == row.proof = chosen[row.owner] \/ row.kept \/ row.late

LEMMA RowShape ==
  ASSUME NEW row \in Row
  PROVE  /\ row.owner \in Users /\ row.expires \in Nat /\ row.seen \in Time
         /\ row.revoked \in Time \cup {Never} /\ row.proof \in Passwords
         /\ row.kept \in BOOLEAN /\ row.late \in BOOLEAN /\ row.used \in Time
  BY DEF Row

LEMMA RowsTyped ==
  ASSUME SessionsTypeOK, NEW s \in SessionIds, IsRow(s)
  PROVE  session[s] \in Row
  BY DEF SessionsTypeOK, IsRow

LEMMA InitInv == Init => SessionsInv
  BY SessionAssumption
  DEF Init, SessionsInv, SessionsTypeOK, OnlyKeptOrLate, IsRow, Time, Passwords, Account,
      NoLogin, LoginState, NoRequest, RequestState, RequestPcs

-----------------------------------------------------------------------------
(* A step that changes one row, or none, and no password chosen.           *)
LEMMA OneRowKeeps ==
  ASSUME SessionsInv, NEW s \in SessionIds, NEW row \in Row,
         session' = [session EXCEPT ![s] = row], chosen' = chosen,
         row.revoked = Never => Opened(row)
  PROVE  session' \in [SessionIds -> Row \cup {Unused, Purged}] /\ OnlyKeptOrLate'
<1>1. /\ session' \in [SessionIds -> Row \cup {Unused, Purged}]
      /\ session'[s] = row
      /\ \A x \in SessionIds : x # s => session'[x] = session[x]
  BY DEF SessionsInv, SessionsTypeOK
<1>2. ASSUME NEW x \in SessionIds, IsRow(x)', session'[x].revoked = Never
      PROVE  \/ session'[x].proof = chosen'[session'[x].owner]
             \/ session'[x].kept \/ session'[x].late
  <2>1. CASE x = s
    BY <1>1, <1>2, <2>1 DEF Opened
  <2>2. CASE x # s
    BY <1>1, <1>2, <2>2 DEF SessionsInv, OnlyKeptOrLate, IsRow
  <2> QED BY <2>1, <2>2
<1> QED BY <1>1, <1>2 DEF OnlyKeptOrLate

LEMMA SameRowsKeep ==
  ASSUME SessionsInv, UNCHANGED <<session, chosen>>
  PROVE  session' \in [SessionIds -> Row \cup {Unused, Purged}] /\ OnlyKeptOrLate'
  BY DEF SessionsInv, SessionsTypeOK, OnlyKeptOrLate, IsRow

(* revokeUserSessions, beside a new password or not: every session of the  *)
(* user that was open is revoked, or spared and so kept.                   *)
LEMMA RevokedKeeps ==
  ASSUME SessionsInv, NEW u \in Users, NEW spared \in SUBSET SessionIds,
         \A s \in spared : IsRow(s),
         session' = RevokedFor(u, spared),
         chosen' \in [Users -> Passwords],
         \A v \in Users : v # u => chosen'[v] = chosen[v]
  PROVE  session' \in [SessionIds -> Row \cup {Unused, Purged}] /\ OnlyKeptOrLate'
<1>1. clock \in Time /\ clock # Never
  BY SessionAssumption DEF SessionsInv, SessionsTypeOK, Time
<1>2. ASSUME NEW s \in SessionIds
      PROVE  session'[s] = IF s \in ToRevoke(u, spared) THEN [session[s] EXCEPT !.revoked = clock]
                           ELSE IF s \in spared THEN [session[s] EXCEPT !.kept = TRUE]
                           ELSE session[s]
  BY DEF RevokedFor
<1>3. ASSUME NEW s \in SessionIds, s \in ToRevoke(u, spared)
      PROVE  session'[s] \in Row /\ session'[s].revoked # Never
  <2>1. session[s] \in Row
    BY <1>3, RowsTyped DEF ToRevoke, SessionsInv
  <2>2. session'[s] = [session[s] EXCEPT !.revoked = clock]
    BY <1>2, <1>3
  <2> QED BY <1>1, <2>1, <2>2 DEF Row
<1>4. ASSUME NEW s \in SessionIds, s \notin ToRevoke(u, spared), s \in spared
      PROVE  session'[s] \in Row /\ session'[s].kept
  <2>1. session[s] \in Row
    BY <1>4, RowsTyped DEF SessionsInv
  <2>2. session'[s] = [session[s] EXCEPT !.kept = TRUE]
    BY <1>2, <1>4
  <2> QED BY <2>1, <2>2 DEF Row
<1>5. ASSUME NEW s \in SessionIds, s \notin ToRevoke(u, spared), s \notin spared
      PROVE  session'[s] = session[s]
  BY <1>2, <1>5
<1>6. session' \in [SessionIds -> Row \cup {Unused, Purged}]
  <2>1. \A s \in SessionIds : session'[s] \in Row \cup {Unused, Purged}
    BY <1>3, <1>4, <1>5 DEF SessionsInv, SessionsTypeOK
  <2> QED BY <2>1 DEF RevokedFor
<1>7. ASSUME NEW s \in SessionIds, IsRow(s)', session'[s].revoked = Never
      PROVE  \/ session'[s].proof = chosen'[session'[s].owner]
             \/ session'[s].kept \/ session'[s].late
  <2>1. s \notin ToRevoke(u, spared)
    BY <1>3, <1>7
  <2>2. CASE s \in spared
    BY <1>4, <2>1, <2>2
  <2>3. CASE s \notin spared
    <3>1. session'[s] = session[s] /\ IsRow(s) /\ session[s].revoked = Never
      BY <1>5, <1>7, <2>1, <2>3 DEF IsRow
    <3>2. session[s].owner \in Users
      BY <3>1, RowsTyped, RowShape DEF SessionsInv
    <3>3. session[s].owner # u
      BY <2>1, <2>3, <3>1 DEF ToRevoke
    <3> QED BY <3>1, <3>2, <3>3 DEF SessionsInv, OnlyKeptOrLate
  <2> QED BY <2>2, <2>3
<1> QED BY <1>6, <1>7 DEF OnlyKeptOrLate

-----------------------------------------------------------------------------
(* What a step leaves alone keeps its types.                               *)
LocalsTyped ==
  /\ login \in [Logins -> LoginState]
  /\ request \in [Requests -> RequestState]
  /\ \A l \in Logins : login[l].pc = "verified" => login[l].user \in Users
  /\ \A r \in Requests : request[r].pc # "idle" => request[r].session \in SessionIds

LEMMA LocalsKeep ==
  ASSUME SessionsInv, UNCHANGED <<login, request>>
  PROVE  LocalsTyped'
  BY DEF SessionsInv, SessionsTypeOK, LocalsTyped

LEMMA PartsMakeInv ==
  ASSUME clock' \in Time, account' \in [Users -> Account], chosen' \in [Users -> Passwords],
         session' \in [SessionIds -> Row \cup {Unused, Purged}], OnlyKeptOrLate',
         LocalsTyped'
  PROVE  SessionsInv'
  BY DEF SessionsInv, SessionsTypeOK, LocalsTyped

LEMMA LoginTyped ==
  ASSUME SessionsInv, NEW l \in Logins, NEW new \in LoginState,
         login' = [login EXCEPT ![l] = new], UNCHANGED request,
         new.pc = "verified" => new.user \in Users
  PROVE  LocalsTyped'
<1>1. /\ login' \in [Logins -> LoginState]
      /\ login'[l] = new
      /\ \A x \in Logins : x # l => login'[x] = login[x]
  BY DEF SessionsInv, SessionsTypeOK
<1> QED BY <1>1 DEF SessionsInv, SessionsTypeOK, LocalsTyped

LEMMA RequestTyped ==
  ASSUME SessionsInv, NEW r \in Requests, NEW new \in RequestState,
         request' = [request EXCEPT ![r] = new], UNCHANGED login,
         new.pc # "idle" => new.session \in SessionIds
  PROVE  LocalsTyped'
<1>1. /\ request' \in [Requests -> RequestState]
      /\ request'[r] = new
      /\ \A x \in Requests : x # r => request'[x] = request[x]
  BY DEF SessionsInv, SessionsTypeOK
<1> QED BY <1>1 DEF SessionsInv, SessionsTypeOK, LocalsTyped

LEMMA StoreTyped ==
  ASSUME SessionsInv, NEW u \in Users, NEW p \in Passwords
  PROVE  Store(u, p) \in [Users -> Account]
  BY DEF SessionsInv, SessionsTypeOK, Store, Account

LEMMA ChooseTyped ==
  ASSUME SessionsInv, NEW u \in Users, Choose(u)
  PROVE  /\ chosen' \in [Users -> Passwords] /\ account' \in [Users -> Account]
         /\ \A v \in Users : v # u => chosen'[v] = chosen[v]
<1>1. chosen[u] + 1 \in Passwords
  BY SessionAssumption DEF SessionsInv, SessionsTypeOK, Choose, Passwords
<1> QED BY <1>1, StoreTyped DEF SessionsInv, SessionsTypeOK, Choose

-----------------------------------------------------------------------------
(* Sign-ins.  A session stored with a password that is no longer the chosen *)
(* one is late.                                                            *)
LEMMA VerifyPasswordKeeps ==
  ASSUME SessionsInv, NEW l \in Logins, NEW u \in Users, NEW p \in Passwords,
         VerifyPassword(l, u, p)
  PROVE  SessionsInv'
<1> DEFINE new == [pc |-> "verified", user |-> u, proof |-> p,
                   rehash |-> account[u].outdated, at |-> clock]
<1>1. new \in LoginState
  BY DEF SessionsInv, SessionsTypeOK, LoginState, Account
<1>2. login' = [login EXCEPT ![l] = new] /\ UNCHANGED <<clock, tables, request>>
  BY DEF VerifyPassword
<1>3. new.user \in Users
  OBVIOUS
<1> HIDE DEF new
<1>4. LocalsTyped'
  BY <1>1, <1>2, <1>3, LoginTyped
<1> QED BY <1>2, <1>4, SameRowsKeep, PartsMakeInv
        DEF tables, SessionsInv, SessionsTypeOK

LEMMA StoreSessionKeeps ==
  ASSUME SessionsInv, NEW l \in Logins, NEW s \in SessionIds, StoreSession(l, s)
  PROVE  SessionsInv'
<1> DEFINE u == login[l].user
           p == login[l].proof
           row == NewSession(u, p, login[l].at)
<1>1. login[l] \in LoginState /\ u \in Users
  BY DEF SessionsInv, SessionsTypeOK, StoreSession
<1>2. p \in Passwords /\ login[l].at \in Time
  BY <1>1 DEF LoginState
<1>3. /\ account' = IF login[l].rehash THEN Store(u, p) ELSE account
      /\ session' = [session EXCEPT ![s] = row]
      /\ login' = [login EXCEPT ![l] = NoLogin]
      /\ UNCHANGED <<clock, chosen, request>>
  BY DEF StoreSession
<1>4. row \in Row /\ Opened(row)
  <2>1. row = [owner |-> u, expires |-> login[l].at + Absolute, seen |-> login[l].at,
               revoked |-> Never, proof |-> p, kept |-> FALSE, late |-> chosen[u] # p,
               used |-> login[l].at]
    BY DEF NewSession
  <2>2. login[l].at + Absolute \in Nat
    BY <1>2, SessionAssumption DEF Time
  <2> HIDE DEF u, p, row
  <2> QED BY <1>1, <1>2, <2>1, <2>2 DEF Row, Opened
<1> HIDE DEF row
<1>5. session' \in [SessionIds -> Row \cup {Unused, Purged}] /\ OnlyKeptOrLate'
  BY <1>3, <1>4, OneRowKeeps
<1>6. NoLogin \in LoginState /\ NoLogin.pc # "verified"
  BY SessionAssumption DEF NoLogin, LoginState, Passwords, Time
<1>7. LocalsTyped'
  BY <1>3, <1>6, LoginTyped
<1>8. account' \in [Users -> Account]
  BY <1>1, <1>2, <1>3, StoreTyped DEF SessionsInv, SessionsTypeOK
<1> QED BY <1>3, <1>5, <1>7, <1>8, PartsMakeInv DEF SessionsInv, SessionsTypeOK

-----------------------------------------------------------------------------
(* Requests.                                                               *)

LEMMA NoRequestTyped ==
  NoRequest \in RequestState /\ NoRequest.pc = "idle"
  BY SessionAssumption DEF NoRequest, RequestState, RequestPcs, Time, Passwords

(* A row that is as open as it was, and whose password is the same.        *)
LEMMA StillOpened ==
  ASSUME SessionsInv, NEW s \in SessionIds, IsRow(s), NEW row \in Row,
         row.owner = session[s].owner, row.proof = session[s].proof,
         row.kept = session[s].kept, row.late = session[s].late,
         row.revoked = Never => session[s].revoked = Never
  PROVE  row.revoked = Never => Opened(row)
  BY DEF SessionsInv, OnlyKeptOrLate, Opened

LEMMA ResolveKeeps ==
  ASSUME SessionsInv, NEW r \in Requests, NEW s \in SessionIds, Resolve(r, s)
  PROVE  SessionsInv'
<1> DEFINE row == [session[s] EXCEPT !.used = clock]
           new == [pc |-> IF NeedsTouch(s) THEN "touch" ELSE "admitted",
                   session |-> s, at |-> clock, proof |-> 0]
<1>1. IsRow(s) /\ session[s] \in Row /\ clock \in Time
  BY RowsTyped DEF Resolve, Usable, SessionsInv, SessionsTypeOK
<1>2. /\ session' = [session EXCEPT ![s] = row]
      /\ request' = [request EXCEPT ![r] = new]
      /\ UNCHANGED <<clock, account, chosen, login>>
  BY DEF Resolve
<1>3. /\ row \in Row /\ row.owner = session[s].owner /\ row.proof = session[s].proof
      /\ row.kept = session[s].kept /\ row.late = session[s].late
      /\ row.revoked = session[s].revoked
  BY <1>1 DEF Row
<1>4. new \in RequestState /\ new.session \in SessionIds
  BY <1>1, SessionAssumption DEF RequestState, RequestPcs, Passwords
<1> HIDE DEF row, new
<1>5. session' \in [SessionIds -> Row \cup {Unused, Purged}] /\ OnlyKeptOrLate'
  BY <1>1, <1>2, <1>3, StillOpened, OneRowKeeps
<1>6. LocalsTyped'
  BY <1>2, <1>4, RequestTyped
<1> QED BY <1>2, <1>5, <1>6, PartsMakeInv DEF SessionsInv, SessionsTypeOK

LEMMA TouchSessionKeeps ==
  ASSUME SessionsInv, NEW r \in Requests, TouchSession(r)
  PROVE  SessionsInv'
<1> DEFINE s == request[r].session
           row == [session[s] EXCEPT !.seen = request[r].at]
           new == [request[r] EXCEPT !.pc = "admitted"]
<1>1. request[r] \in RequestState /\ s \in SessionIds
  BY DEF TouchSession, SessionsInv, SessionsTypeOK
<1>2. /\ session' = IF IsRow(s) /\ session[s].revoked = Never
                    THEN [session EXCEPT ![s] = row] ELSE session
      /\ request' = [request EXCEPT ![r] = new]
      /\ UNCHANGED <<clock, account, chosen, login>>
  BY DEF TouchSession
<1>3. new \in RequestState /\ new.session \in SessionIds
  BY <1>1 DEF RequestState, RequestPcs
<1>4. LocalsTyped'
  <2> HIDE DEF new
  <2> QED BY <1>2, <1>3, RequestTyped
<1>5. session' \in [SessionIds -> Row \cup {Unused, Purged}] /\ OnlyKeptOrLate'
  <2>1. CASE IsRow(s) /\ session[s].revoked = Never
    <3>1. session[s] \in Row /\ request[r].at \in Time
      BY <1>1, <2>1, RowsTyped DEF SessionsInv, RequestState
    <3>2. /\ row \in Row /\ row.owner = session[s].owner /\ row.proof = session[s].proof
          /\ row.kept = session[s].kept /\ row.late = session[s].late
          /\ row.revoked = session[s].revoked
      BY <3>1 DEF Row
    <3> HIDE DEF row, s
    <3> QED BY <1>1, <1>2, <2>1, <3>2, StillOpened, OneRowKeeps
  <2>2. CASE ~(IsRow(s) /\ session[s].revoked = Never)
    BY <1>2, <2>2, SameRowsKeep
  <2> QED BY <2>1, <2>2
<1> QED BY <1>2, <1>4, <1>5, PartsMakeInv DEF SessionsInv, SessionsTypeOK

LEMMA AnswerKeeps ==
  ASSUME SessionsInv, NEW r \in Requests, Answer(r)
  PROVE  SessionsInv'
<1>1. LocalsTyped'
  BY NoRequestTyped, RequestTyped DEF Answer
<1> QED BY <1>1, SameRowsKeep, PartsMakeInv DEF Answer, tables, SessionsInv, SessionsTypeOK

LEMMA LogoutKeeps ==
  ASSUME SessionsInv, NEW r \in Requests, Logout(r)
  PROVE  SessionsInv'
<1> DEFINE s == request[r].session
           row == [session[s] EXCEPT !.revoked = clock]
<1>1. s \in SessionIds /\ clock \in Time /\ clock # Never
  BY SessionAssumption DEF Logout, SessionsInv, SessionsTypeOK, Time
<1>2. /\ session' = IF IsRow(s) /\ session[s].revoked = Never
                    THEN [session EXCEPT ![s] = row] ELSE session
      /\ request' = [request EXCEPT ![r] = NoRequest]
      /\ UNCHANGED <<clock, account, chosen, login>>
  BY DEF Logout
<1>3. LocalsTyped'
  BY <1>2, NoRequestTyped, RequestTyped
<1>4. session' \in [SessionIds -> Row \cup {Unused, Purged}] /\ OnlyKeptOrLate'
  <2>1. CASE IsRow(s) /\ session[s].revoked = Never
    <3>1. session[s] \in Row
      BY <1>1, <2>1, RowsTyped DEF SessionsInv
    <3>2. row \in Row /\ row.revoked # Never
      BY <1>1, <3>1 DEF Row
    <3> HIDE DEF row, s
    <3> QED BY <1>1, <1>2, <2>1, <3>2, OneRowKeeps
  <2>2. CASE ~(IsRow(s) /\ session[s].revoked = Never)
    BY <1>2, <2>2, SameRowsKeep
  <2> QED BY <2>1, <2>2
<1> QED BY <1>2, <1>3, <1>4, PartsMakeInv DEF SessionsInv, SessionsTypeOK

LEMMA VerifyCurrentKeeps ==
  ASSUME SessionsInv, NEW r \in Requests, VerifyCurrent(r)
  PROVE  SessionsInv'
<1> DEFINE s == request[r].session
           new == [request[r] EXCEPT !.pc = "proved",
                                     !.proof = account[session[s].owner].password]
<1>1. request[r] \in RequestState /\ s \in SessionIds
  BY DEF VerifyCurrent, SessionsInv, SessionsTypeOK
<1>2. account[session[s].owner].password \in Passwords
  <2>1. session[s].owner \in Users
    BY <1>1, RowsTyped, RowShape DEF VerifyCurrent, SessionsInv
  <2> QED BY <2>1 DEF SessionsInv, SessionsTypeOK, Account
<1>3. request' = [request EXCEPT ![r] = new]
  <2>1. request \in [Requests -> RequestState]
    BY DEF SessionsInv, SessionsTypeOK
  <2> QED BY <2>1 DEF VerifyCurrent
<1>4. new \in RequestState /\ new.session \in SessionIds
  BY <1>1, <1>2 DEF RequestState, RequestPcs
<1> HIDE DEF new
<1>5. LocalsTyped'
  BY <1>3, <1>4, RequestTyped DEF VerifyCurrent
<1> QED BY <1>5, SameRowsKeep, PartsMakeInv DEF VerifyCurrent, tables, SessionsInv, SessionsTypeOK

LEMMA ChangePasswordKeeps ==
  ASSUME SessionsInv, NEW r \in Requests, ChangePassword(r)
  PROVE  SessionsInv'
<1> DEFINE s == request[r].session
           u == session[s].owner
<1>1. s \in SessionIds /\ IsRow(s)
  BY DEF ChangePassword, SessionsInv, SessionsTypeOK
<1>2. u \in Users
  BY <1>1, RowsTyped, RowShape DEF SessionsInv
<1>3. /\ Choose(u) /\ session' = RevokedFor(u, {s})
      /\ request' = [request EXCEPT ![r] = NoRequest]
      /\ UNCHANGED <<clock, login>>
  BY DEF ChangePassword
<1> HIDE DEF s, u
<1>4. /\ chosen' \in [Users -> Passwords] /\ account' \in [Users -> Account]
      /\ \A v \in Users : v # u => chosen'[v] = chosen[v]
  BY <1>2, <1>3, ChooseTyped
<1>5. session' \in [SessionIds -> Row \cup {Unused, Purged}] /\ OnlyKeptOrLate'
  <2>1. {s} \in SUBSET SessionIds /\ \A x \in {s} : IsRow(x)
    BY <1>1
  <2> QED BY <1>2, <1>3, <1>4, <2>1, RevokedKeeps
<1>6. LocalsTyped'
  BY <1>3, NoRequestTyped, RequestTyped
<1> QED BY <1>3, <1>4, <1>5, <1>6, PartsMakeInv DEF SessionsInv, SessionsTypeOK

-----------------------------------------------------------------------------
(* The administrator, the purge and the clock.                             *)

LEMMA ResetPasswordKeeps ==
  ASSUME SessionsInv, NEW u \in Users, ResetPassword(u)
  PROVE  SessionsInv'
<1>1. Choose(u) /\ session' = RevokedFor(u, {}) /\ UNCHANGED <<clock, login, request>>
  BY DEF ResetPassword
<1>2. /\ chosen' \in [Users -> Passwords] /\ account' \in [Users -> Account]
      /\ \A v \in Users : v # u => chosen'[v] = chosen[v]
  BY <1>1, ChooseTyped
<1>3. session' \in [SessionIds -> Row \cup {Unused, Purged}] /\ OnlyKeptOrLate'
  <2>1. {} \in SUBSET SessionIds /\ \A x \in {} : IsRow(x)
    OBVIOUS
  <2> QED BY <1>1, <1>2, <2>1, RevokedKeeps
<1>4. LocalsTyped'
  BY <1>1, LocalsKeep
<1> QED BY <1>1, <1>2, <1>3, <1>4, PartsMakeInv DEF SessionsInv, SessionsTypeOK

LEMMA AccountKeeps ==
  ASSUME SessionsInv, NEW u \in Users, Deactivate(u) \/ Activate(u)
  PROVE  SessionsInv'
<1>1. /\ account' \in [Users -> Account]
      /\ UNCHANGED <<clock, chosen, login, request>>
  <2>1. PICK b \in BOOLEAN : account' = [account EXCEPT ![u].active = b]
    BY DEF Deactivate, Activate
  <2>2. account \in [Users -> Account]
    BY DEF SessionsInv, SessionsTypeOK
  <2>3. account' \in [Users -> Account]
    BY <2>1, <2>2 DEF Account
  <2> QED BY <2>3 DEF Deactivate, Activate
<1>2. chosen' \in [Users -> Passwords] /\ clock' \in Time /\ LocalsTyped'
  BY <1>1, LocalsKeep DEF SessionsInv, SessionsTypeOK
<1>3. session' \in [SessionIds -> Row \cup {Unused, Purged}] /\ OnlyKeptOrLate'
  <2>1. CASE Deactivate(u)
    <3>1. session' = RevokedFor(u, {})
      BY <2>1 DEF Deactivate
    <3>2. {} \in SUBSET SessionIds /\ \A x \in {} : IsRow(x)
      OBVIOUS
    <3>3. \A v \in Users : v # u => chosen'[v] = chosen[v]
      BY <1>1
    <3> QED BY <1>2, <3>1, <3>2, <3>3, RevokedKeeps
  <2>2. CASE Activate(u)
    BY <2>2, SameRowsKeep DEF Activate
  <2> QED BY <2>1, <2>2
<1> QED BY <1>1, <1>2, <1>3, PartsMakeInv

LEMMA PurgeKeeps ==
  ASSUME SessionsInv, Purge
  PROVE  SessionsInv'
<1>1. UNCHANGED <<clock, account, chosen, login, request>>
  BY DEF Purge
<1>2. /\ session' \in [SessionIds -> Row \cup {Unused, Purged}]
      /\ \A s \in SessionIds : session'[s] \in {Purged, session[s]}
  BY DEF Purge, SessionsInv, SessionsTypeOK
<1>3. OnlyKeptOrLate'
  BY <1>1, <1>2 DEF SessionsInv, OnlyKeptOrLate, IsRow
<1> QED BY <1>1, <1>2, <1>3, LocalsKeep, PartsMakeInv DEF SessionsInv, SessionsTypeOK

LEMMA TickKeeps ==
  ASSUME SessionsInv, Tick
  PROVE  SessionsInv'
<1>1. clock' \in Time /\ UNCHANGED <<tables, login, request>>
  BY SessionAssumption DEF Tick, SessionsInv, SessionsTypeOK, Time
<1> QED BY <1>1, LocalsKeep, SameRowsKeep, PartsMakeInv DEF tables, SessionsInv, SessionsTypeOK

-----------------------------------------------------------------------------
LEMMA NextKeepsInv ==
  ASSUME SessionsInv, [Next]_vars
  PROVE  SessionsInv'
<1>1. CASE \E l \in Logins, u \in Users, p \in Passwords : VerifyPassword(l, u, p)
  BY <1>1, VerifyPasswordKeeps
<1>2. CASE \E l \in Logins, s \in SessionIds : StoreSession(l, s)
  BY <1>2, StoreSessionKeeps
<1>3. CASE \E r \in Requests, s \in SessionIds : Resolve(r, s)
  BY <1>3, ResolveKeeps
<1>4. CASE \E r \in Requests :
             TouchSession(r) \/ Answer(r) \/ Logout(r) \/ VerifyCurrent(r) \/ ChangePassword(r)
  BY <1>4, TouchSessionKeeps, AnswerKeeps, LogoutKeeps, VerifyCurrentKeeps, ChangePasswordKeeps
<1>5. CASE \E u \in Users : Deactivate(u) \/ Activate(u) \/ ResetPassword(u)
  BY <1>5, AccountKeeps, ResetPasswordKeeps
<1>6. CASE Purge
  BY <1>6, PurgeKeeps
<1>7. CASE Tick
  BY <1>7, TickKeeps
<1>8. CASE UNCHANGED vars
  BY <1>8, LocalsKeep, SameRowsKeep, PartsMakeInv DEF vars, tables, SessionsInv, SessionsTypeOK
<1> QED BY <1>1, <1>2, <1>3, <1>4, <1>5, <1>6, <1>7, <1>8 DEF Next

(* The inductive invariant: the types, and which sessions are open.         *)
THEOREM SessionsInvariant == Spec => []SessionsInv
<1>1. Init => SessionsInv
  BY InitInv
<1>2. SessionsInv /\ [Next]_vars => SessionsInv'
  BY NextKeepsInv
<1> QED BY <1>1, <1>2, PTL DEF Spec

(* The rows of sessions and users, and the locals of sign-ins and requests, *)
(* keep their types.                                                        *)
THEOREM SessionsTypes == Spec => []SessionsTypeOK
<1>1. SessionsInv => SessionsTypeOK
  BY DEF SessionsInv
<1> QED BY <1>1, SessionsInvariant, PTL

(* changePassword and resetPassword: of the sessions opened with an older   *)
(* password, only the caller's own goes on, and one whose login had         *)
(* verified that password before and stored the session after.              *)
THEOREM SessionsOnlyKeptOrLate == Spec => []OnlyKeptOrLate
<1>1. SessionsInv => OnlyKeptOrLate
  BY DEF SessionsInv
<1> QED BY <1>1, SessionsInvariant, PTL

-----------------------------------------------------------------------------
(* Times.  A request under way is as old as RequestTime allows; a touch    *)
(* under way is of a session that was not idle too long when it was let in,*)
(* and other touches of it since are no older than it is by more than      *)
(* RequestTime: it always comes within Idle of last_seen_at.               *)

InTime ==
  /\ \A r \in Requests :
       request[r].pc # "idle" =>
         request[r].at <= clock /\ clock <= request[r].at + RequestTime
  /\ \A l \in Logins : login[l].pc # "idle" => login[l].at <= clock
  /\ \A s \in SessionIds : IsRow(s) => session[s].used <= clock

TouchesInTime ==
  \A r \in Requests :
    request[r].pc = "touch" =>
      /\ session[request[r].session] # Unused
      /\ IsRow(request[r].session) =>
           request[r].at < session[request[r].session].seen + Idle

TimesInv == InTime /\ TouchesInTime /\ StaysSignedIn

LEMMA InitTimes == Init => TimesInv
  BY DEF Init, TimesInv, InTime, TouchesInTime, StaysSignedIn, IsRow, NoRequest, NoLogin

LEMMA TimesAreIntegers ==
  ASSUME SessionsTypeOK
  PROVE  /\ clock \in Int
         /\ \A r \in Requests : request[r].at \in Int
         /\ \A l \in Logins : login[l].at \in Int
         /\ \A s \in SessionIds : IsRow(s) =>
              session[s].seen \in Int /\ session[s].used \in Int /\ session[s].expires \in Int
<1>1. clock \in Int /\ Time \subseteq Int
  BY SessionAssumption DEF SessionsTypeOK, Time
<1>2. \A r \in Requests : request[r].at \in Int
  BY <1>1 DEF SessionsTypeOK, RequestState
<1>3. \A l \in Logins : login[l].at \in Int
  BY <1>1 DEF SessionsTypeOK, LoginState
<1>4. \A s \in SessionIds : IsRow(s) =>
        session[s].seen \in Int /\ session[s].used \in Int /\ session[s].expires \in Int
  <2> SUFFICES ASSUME NEW s \in SessionIds, IsRow(s)
               PROVE  /\ session[s].seen \in Int /\ session[s].used \in Int
                      /\ session[s].expires \in Int
    OBVIOUS
  <2>1. session[s] \in Row
    BY RowsTyped
  <2>2. session[s].seen \in Time /\ session[s].used \in Time /\ session[s].expires \in Nat
    BY <2>1, RowShape
  <2>3. \A n \in Nat : n \in Int
    OBVIOUS
  <2> QED BY <1>1, <2>2, <2>3, Zenon
<1> QED BY <1>1, <1>2, <1>3, <1>4

(* A step that leaves the times of rows and the touches under way alone.   *)
QuietRows ==
  \A s \in SessionIds :
    /\ session[s] # Unused => session'[s] # Unused
    /\ IsRow(s)' =>
         /\ IsRow(s)
         /\ session'[s].seen = session[s].seen /\ session'[s].used = session[s].used
         /\ session'[s].expires = session[s].expires
         /\ session'[s].revoked = Never => session[s].revoked = Never

QuietRequests ==
  \A r \in Requests :
    /\ (request'[r].pc = "touch" \/ request[r].pc = "touch") => request'[r] = request[r]
    /\ request'[r].pc # "idle" => request[r].pc # "idle" /\ request'[r].at = request[r].at

LEMMA QuietKeepsTimes ==
  ASSUME SessionsInv, TimesInv, clock' = clock, QuietRows, QuietRequests,
         \A l \in Logins : login'[l].pc # "idle" => login'[l].at <= clock
  PROVE  TimesInv'
<1>1. InTime'
  BY DEF InTime, TimesInv, QuietRows, QuietRequests
<1>2. TouchesInTime'
  <2> SUFFICES ASSUME NEW r \in Requests, request'[r].pc = "touch"
               PROVE  /\ session'[request'[r].session] # Unused
                      /\ (IsRow(request[r].session))' =>
                           request'[r].at < session'[request'[r].session].seen + Idle
    BY DEF TouchesInTime
  <2>1. request'[r] = request[r] /\ request[r].pc = "touch"
    BY DEF QuietRequests
  <2>2. request[r].session \in SessionIds
    BY <2>1 DEF SessionsInv, SessionsTypeOK
  <2> DEFINE s == request[r].session
  <2>3. /\ session[s] # Unused
        /\ IsRow(s) => request[r].at < session[s].seen + Idle
    BY <2>1 DEF TimesInv, TouchesInTime
  <2>4. /\ session'[s] # Unused
        /\ session'[s] \notin {Unused, Purged} =>
             IsRow(s) /\ session'[s].seen = session[s].seen
    BY <2>2, <2>3 DEF QuietRows, IsRow
  <2> QED BY <2>1, <2>3, <2>4 DEF IsRow
<1>3. StaysSignedIn'
  BY DEF TimesInv, StaysSignedIn, QuietRows, QuietRequests
<1> QED BY <1>1, <1>2, <1>3 DEF TimesInv

LEMMA RequestQuiet ==
  ASSUME SessionsInv, NEW r \in Requests, request[r].pc \notin {"idle", "touch"},
         NEW new, request' = [request EXCEPT ![r] = new],
         new.pc # "touch", new.pc # "idle" => new.at = request[r].at
  PROVE  QuietRequests
<1>1. /\ request'[r] = new
      /\ \A x \in Requests : x # r => request'[x] = request[x]
  BY DEF SessionsInv, SessionsTypeOK
<1> QED BY <1>1 DEF QuietRequests

LEMMA RevokedQuiet ==
  ASSUME SessionsInv, NEW u, NEW spared \in SUBSET SessionIds, \A s \in spared : IsRow(s),
         session' = RevokedFor(u, spared)
  PROVE  QuietRows
<1> SUFFICES ASSUME NEW s \in SessionIds
             PROVE  /\ session[s] # Unused => session'[s] # Unused
                    /\ (IsRow(s))' =>
                         /\ IsRow(s)
                         /\ session'[s].seen = session[s].seen
                         /\ session'[s].used = session[s].used
                         /\ session'[s].expires = session[s].expires
                         /\ session'[s].revoked = Never => session[s].revoked = Never
  BY DEF QuietRows
<1>1. clock \in Time /\ clock # Never
  BY SessionAssumption DEF SessionsInv, SessionsTypeOK, Time
<1>2. session'[s] = IF s \in ToRevoke(u, spared) THEN [session[s] EXCEPT !.revoked = clock]
                    ELSE IF s \in spared THEN [session[s] EXCEPT !.kept = TRUE]
                    ELSE session[s]
  BY DEF RevokedFor
<1>3. CASE s \in ToRevoke(u, spared)
  <2>1. IsRow(s) /\ session[s] \in Row
    BY <1>3, RowsTyped DEF ToRevoke, SessionsInv
  <2>2. session'[s] = [session[s] EXCEPT !.revoked = clock]
    BY <1>2, <1>3
  <2>3. /\ session'[s] \in Row /\ session'[s].seen = session[s].seen
        /\ session'[s].used = session[s].used /\ session'[s].expires = session[s].expires
        /\ session'[s].revoked = clock
    BY <1>1, <2>1, <2>2 DEF Row
  <2>4. session'[s] # Unused
    BY <2>3, UnusedIsNoRow
  <2> QED BY <1>1, <2>1, <2>3, <2>4
<1>4. CASE s \notin ToRevoke(u, spared) /\ s \in spared
  <2>1. IsRow(s) /\ session[s] \in Row
    BY <1>4, RowsTyped DEF SessionsInv
  <2>2. session'[s] = [session[s] EXCEPT !.kept = TRUE]
    BY <1>2, <1>4
  <2>3. /\ session'[s] \in Row /\ session'[s].seen = session[s].seen
        /\ session'[s].used = session[s].used /\ session'[s].expires = session[s].expires
        /\ session'[s].revoked = session[s].revoked
    BY <2>1, <2>2 DEF Row
  <2>4. session'[s] # Unused
    BY <2>3, UnusedIsNoRow
  <2> QED BY <2>1, <2>3, <2>4
<1>5. CASE s \notin ToRevoke(u, spared) /\ s \notin spared
  BY <1>2, <1>5 DEF IsRow
<1> QED BY <1>3, <1>4, <1>5

(* The steps that are quiet, and start no request.                         *)
LEMMA QuietSteps ==
  ASSUME SessionsInv,
         \/ \E l \in Logins, u \in Users, p \in Passwords : VerifyPassword(l, u, p)
         \/ \E r \in Requests : Answer(r) \/ Logout(r) \/ VerifyCurrent(r) \/ ChangePassword(r)
         \/ \E u \in Users : Deactivate(u) \/ Activate(u) \/ ResetPassword(u)
         \/ Purge \/ UNCHANGED vars
  PROVE  clock' = clock /\ QuietRows /\ QuietRequests
<1>1. ASSUME UNCHANGED session
      PROVE  QuietRows
  BY <1>1 DEF QuietRows, IsRow
<1>2. ASSUME UNCHANGED request
      PROVE  QuietRequests
  BY <1>2 DEF QuietRequests
<1>3. NoRequest.pc = "idle"
  BY DEF NoRequest
<1>4. CASE \E l \in Logins, u \in Users, p \in Passwords : VerifyPassword(l, u, p)
  BY <1>1, <1>2, <1>4 DEF VerifyPassword, tables
<1>5. CASE \E r \in Requests : Answer(r)
  BY <1>1, <1>3, <1>5, RequestQuiet DEF Answer, tables
<1>6. ASSUME NEW r \in Requests, Logout(r)
      PROVE  clock' = clock /\ QuietRows /\ QuietRequests
  <2> DEFINE s == request[r].session
             row == [session[s] EXCEPT !.revoked = clock]
  <2>1. s \in SessionIds /\ clock \in Time /\ clock # Never
    BY <1>6, SessionAssumption DEF Logout, SessionsInv, SessionsTypeOK, Time
  <2>2. /\ session' = IF IsRow(s) /\ session[s].revoked = Never
                      THEN [session EXCEPT ![s] = row] ELSE session
        /\ request' = [request EXCEPT ![r] = NoRequest]
        /\ request[r].pc = "admitted" /\ clock' = clock
    BY <1>6 DEF Logout
  <2>3. QuietRequests
    BY <1>3, <2>2, RequestQuiet
  <2>4. CASE IsRow(s) /\ session[s].revoked = Never
    <3>1. session[s] \in Row
      BY <2>1, <2>4, RowsTyped DEF SessionsInv
    <3>2. /\ row \in Row /\ row.seen = session[s].seen /\ row.used = session[s].used
          /\ row.expires = session[s].expires /\ row.revoked # Never
      BY <2>1, <3>1 DEF Row
    <3>3. row # Unused
      BY <3>2, UnusedIsNoRow
    <3> HIDE DEF row, s
    <3>4. session'[s] = row /\ \A x \in SessionIds : x # s => session'[x] = session[x]
      BY <2>1, <2>2, <2>4 DEF SessionsInv, SessionsTypeOK
    <3> QED BY <2>2, <2>3, <2>4, <3>2, <3>3, <3>4 DEF QuietRows, IsRow
  <2>5. CASE ~(IsRow(s) /\ session[s].revoked = Never)
    BY <1>1, <2>2, <2>3, <2>5
  <2> QED BY <2>4, <2>5
<1>7. ASSUME NEW r \in Requests, VerifyCurrent(r)
      PROVE  clock' = clock /\ QuietRows /\ QuietRequests
  <2> DEFINE new == [request[r] EXCEPT !.pc = "proved",
                       !.proof = account[session[request[r].session].owner].password]
  <2>1. request[r] \in RequestState /\ request \in [Requests -> RequestState]
    BY DEF SessionsInv, SessionsTypeOK
  <2>2. new.pc = "proved" /\ new.at = request[r].at
    BY <2>1 DEF RequestState
  <2>3. request' = [request EXCEPT ![r] = new] /\ request[r].pc = "admitted"
    BY <1>7, <2>1 DEF VerifyCurrent
  <2> HIDE DEF new
  <2>4. QuietRequests
    BY <2>2, <2>3, RequestQuiet
  <2> QED BY <1>1, <1>7, <2>4 DEF VerifyCurrent, tables
<1>8. ASSUME NEW r \in Requests, ChangePassword(r)
      PROVE  clock' = clock /\ QuietRows /\ QuietRequests
  <2>1. request[r].session \in SessionIds /\ IsRow(request[r].session)
    BY <1>8 DEF ChangePassword, SessionsInv, SessionsTypeOK
  <2>2. session' = RevokedFor(session[request[r].session].owner, {request[r].session})
    BY <1>8 DEF ChangePassword
  <2>3. {request[r].session} \in SUBSET SessionIds /\ \A x \in {request[r].session} : IsRow(x)
    BY <2>1
  <2>4. QuietRows
    BY <2>2, <2>3, RevokedQuiet
  <2>5. QuietRequests
    BY <1>3, <1>8, RequestQuiet DEF ChangePassword
  <2> QED BY <1>8, <2>4, <2>5 DEF ChangePassword
<1>9. ASSUME NEW u \in Users, Deactivate(u) \/ ResetPassword(u)
      PROVE  clock' = clock /\ QuietRows /\ QuietRequests
  <2>1. {} \in SUBSET SessionIds /\ \A x \in {} : IsRow(x)
    OBVIOUS
  <2>2. session' = RevokedFor(u, {}) /\ UNCHANGED <<clock, request>>
    BY <1>9 DEF Deactivate, ResetPassword
  <2> QED BY <1>2, <2>1, <2>2, RevokedQuiet
<1>10. CASE \E u \in Users : Activate(u)
  BY <1>1, <1>2, <1>10 DEF Activate
<1>11. CASE Purge
  <2>1. /\ \A s \in SessionIds : session'[s] = Purged \/ session'[s] = session[s]
        /\ UNCHANGED <<clock, request>>
    BY <1>11 DEF Purge
  <2>2. QuietRows
    BY <2>1, SessionAssumption DEF QuietRows, IsRow
  <2> QED BY <1>2, <2>1, <2>2
<1>12. CASE UNCHANGED vars
  BY <1>1, <1>2, <1>12 DEF vars, tables
<1> QED BY <1>4, <1>5, <1>6, <1>7, <1>8, <1>9, <1>10, <1>11, <1>12

LEMMA LoginsInTime ==
  ASSUME SessionsInv, TimesInv,
         \/ UNCHANGED login
         \/ \E l \in Logins, u \in Users, p \in Passwords : VerifyPassword(l, u, p)
  PROVE  \A l \in Logins : login'[l].pc # "idle" => login'[l].at <= clock
<1>1. clock \in Int
  BY TimesAreIntegers DEF SessionsInv
<1>2. CASE UNCHANGED login
  BY <1>2 DEF TimesInv, InTime
<1>3. ASSUME NEW l \in Logins, NEW u \in Users, NEW p \in Passwords, VerifyPassword(l, u, p)
      PROVE  \A k \in Logins : login'[k].pc # "idle" => login'[k].at <= clock
  <2> DEFINE new == [pc |-> "verified", user |-> u, proof |-> p,
                     rehash |-> account[u].outdated, at |-> clock]
  <2>1. login' = [login EXCEPT ![l] = new] /\ new.at = clock
    BY <1>3 DEF VerifyPassword
  <2> HIDE DEF new
  <2>2. login'[l] = new /\ \A k \in Logins : k # l => login'[k] = login[k]
    BY <2>1 DEF SessionsInv, SessionsTypeOK
  <2> QED BY <1>1, <2>1, <2>2 DEF TimesInv, InTime
<1> QED BY <1>2, <1>3

(* A step that writes one row, and the requests whose touches stay in time. *)
LEMMA StoreSessionTimes ==
  ASSUME SessionsInv, TimesInv, NEW l \in Logins, NEW s \in SessionIds, StoreSession(l, s)
  PROVE  /\ TimesInv'
         /\ clock' = clock /\ session[s] = Unused
         /\ \A x \in SessionIds : x # s => session'[x] = session[x]
<1> DEFINE row == NewSession(login[l].user, login[l].proof, login[l].at)
<1>1. /\ login[l].pc = "verified" /\ session[s] = Unused
      /\ session' = [session EXCEPT ![s] = row]
      /\ login' = [login EXCEPT ![l] = NoLogin]
      /\ UNCHANGED <<clock, chosen, request>>
  BY DEF StoreSession
<1>2. row.seen = login[l].at /\ row.used = login[l].at
  BY DEF NewSession
<1>3. login[l].at <= clock /\ login[l].at \in Int /\ clock \in Int
  BY <1>1, TimesAreIntegers DEF TimesInv, InTime, SessionsInv
<1>4. NoLogin.pc = "idle"
  BY DEF NoLogin
<1>5. SessionsInv'
  BY StoreSessionKeeps
<1> HIDE DEF row
<1>6. session'[s] = row /\ \A x \in SessionIds : x # s => session'[x] = session[x]
  BY <1>1 DEF SessionsInv, SessionsTypeOK
<1>7. \A k \in Logins : login'[k].pc # "idle" => login'[k] = login[k]
  BY <1>1, <1>4 DEF SessionsInv, SessionsTypeOK
<1>8. InTime'
  BY <1>1, <1>2, <1>3, <1>6, <1>7 DEF InTime, TimesInv, IsRow
<1>9. TouchesInTime'
  <2> SUFFICES ASSUME NEW r \in Requests, request[r].pc = "touch"
               PROVE  /\ session'[request[r].session] # Unused
                      /\ (IsRow(request[r].session))' =>
                           request[r].at < session'[request[r].session].seen + Idle
    BY <1>1 DEF TouchesInTime
  <2>1. request[r].session \in SessionIds /\ session[request[r].session] # Unused
    BY DEF SessionsInv, SessionsTypeOK, TimesInv, TouchesInTime
  <2>2. session'[request[r].session] = session[request[r].session]
    BY <1>1, <1>6, <2>1
  <2> QED BY <1>1, <2>1, <2>2 DEF TimesInv, TouchesInTime, IsRow
<1>10. StaysSignedIn'
  <2>1. row.used - row.seen <= Touch + RequestTime
    BY <1>2, <1>3, SessionAssumption
  <2> QED BY <1>1, <1>6, <2>1 DEF TimesInv, StaysSignedIn, IsRow
<1> QED BY <1>1, <1>6, <1>8, <1>9, <1>10 DEF TimesInv

LEMMA ResolveTimes ==
  ASSUME SessionsInv, TimesInv, NEW r \in Requests, NEW s \in SessionIds, Resolve(r, s)
  PROVE  /\ TimesInv'
         /\ clock' = clock /\ ~Over(s)
         /\ \A x \in SessionIds : x # s => session'[x] = session[x]
<1> DEFINE row == [session[s] EXCEPT !.used = clock]
           new == [pc |-> IF NeedsTouch(s) THEN "touch" ELSE "admitted",
                   session |-> s, at |-> clock, proof |-> 0]
<1>1. /\ IsRow(s) /\ ~Over(s)
      /\ session' = [session EXCEPT ![s] = row]
      /\ request' = [request EXCEPT ![r] = new]
      /\ UNCHANGED <<clock, account, chosen, login>>
  BY DEF Resolve, Usable
<1>2. session[s] \in Row
  BY <1>1, RowsTyped DEF SessionsInv
<1>3. /\ row.seen = session[s].seen /\ row.used = clock
      /\ row.revoked = session[s].revoked
  BY <1>2 DEF Row
<1>4. /\ new.at = clock /\ new.session = s
      /\ new.pc # "touch" => clock - session[s].seen <= Touch
  <2>1. clock \in Int /\ session[s].seen \in Int /\ Touch \in Int
    BY <1>1, SessionAssumption, TimesAreIntegers DEF SessionsInv
  <2> QED BY <2>1 DEF NeedsTouch
<1>5. /\ clock \in Int /\ session[s].seen \in Int
      /\ clock < session[s].seen + Idle
  <2>1. clock \in Int /\ session[s].seen \in Int /\ Idle \in Int
    BY <1>1, SessionAssumption, TimesAreIntegers DEF SessionsInv
  <2> QED BY <1>1, <2>1 DEF Over
<1>6. row # Unused /\ row # Purged
  <2>1. row \in Row
    BY <1>2 DEF Row, SessionsInv, SessionsTypeOK
  <2> QED BY <2>1, UnusedIsNoRow
<1> HIDE DEF row, new
<1>7. session'[s] = row /\ \A x \in SessionIds : x # s => session'[x] = session[x]
  BY <1>1 DEF SessionsInv, SessionsTypeOK
<1>8. request'[r] = new /\ \A x \in Requests : x # r => request'[x] = request[x]
  BY <1>1 DEF SessionsInv, SessionsTypeOK
<1>9. InTime'
  <2>1. new.at <= clock /\ clock <= new.at + RequestTime /\ row.used <= clock
    BY <1>3, <1>4, <1>5, SessionAssumption
  <2> QED BY <1>1, <1>7, <1>8, <2>1 DEF InTime, TimesInv, IsRow
<1>10. TouchesInTime'
  <2> SUFFICES ASSUME NEW x \in Requests, request'[x].pc = "touch"
               PROVE  /\ session'[request'[x].session] # Unused
                      /\ (IsRow(request[x].session))' =>
                           request'[x].at < session'[request'[x].session].seen + Idle
    BY DEF TouchesInTime
  <2>1. CASE x = r
    BY <1>3, <1>4, <1>5, <1>6, <1>7, <1>8, <2>1
  <2>2. CASE x # r
    <3> DEFINE t == request[x].session
    <3>1. request'[x] = request[x] /\ request[x].pc = "touch"
      BY <1>8, <2>2
    <3>2. t \in SessionIds /\ session[t] # Unused
          /\ (IsRow(t) => request[x].at < session[t].seen + Idle)
      BY <3>1 DEF SessionsInv, SessionsTypeOK, TimesInv, TouchesInTime
    <3> HIDE DEF t
    <3>3. CASE t = s
      BY <1>1, <1>3, <1>6, <1>7, <3>1, <3>2, <3>3 DEF t
    <3>4. CASE t # s
      BY <1>7, <3>1, <3>2, <3>4 DEF IsRow, t
    <3> QED BY <3>3, <3>4
  <2> QED BY <2>1, <2>2
<1>11. StaysSignedIn'
  <2> SUFFICES ASSUME NEW x \in SessionIds, (IsRow(x))', session'[x].revoked = Never,
                      \A q \in Requests : request'[q].session = x => request'[q].pc # "touch"
               PROVE  session'[x].used - session'[x].seen <= Touch + RequestTime
    BY DEF StaysSignedIn
  <2>1. CASE x = s
    <3>1. clock - session[s].seen <= Touch
      BY <1>4, <1>8, <2>1
    <3> QED BY <1>3, <1>5, <1>7, <2>1, <3>1, SessionAssumption
  <2>2. CASE x # s
    <3>1. \A q \in Requests : request[q].session = x => request[q].pc # "touch"
      <4> SUFFICES ASSUME NEW q \in Requests, request[q].session = x, request[q].pc = "touch"
                   PROVE  FALSE
        OBVIOUS
      <4>1. q = r
        BY <1>8
      <4> QED BY <4>1 DEF Resolve
    <3> QED BY <1>7, <2>2, <3>1 DEF TimesInv, StaysSignedIn, IsRow
  <2> QED BY <2>1, <2>2
<1> QED BY <1>1, <1>7, <1>9, <1>10, <1>11 DEF TimesInv

LEMMA TouchSessionTimes ==
  ASSUME SessionsInv, TimesInv, NEW r \in Requests, TouchSession(r)
  PROVE  /\ TimesInv'
         /\ clock' = clock /\ request[r].pc = "touch"
         /\ \A x \in SessionIds : x # request[r].session => session'[x] = session[x]
<1> DEFINE s == request[r].session
           row == [session[s] EXCEPT !.seen = request[r].at]
           new == [request[r] EXCEPT !.pc = "admitted"]
<1>1. /\ request[r].pc = "touch"
      /\ session' = IF IsRow(s) /\ session[s].revoked = Never
                    THEN [session EXCEPT ![s] = row] ELSE session
      /\ request' = [request EXCEPT ![r] = new]
      /\ UNCHANGED <<clock, account, chosen, login>>
  BY DEF TouchSession
<1>2. /\ s \in SessionIds /\ request[r] \in RequestState
      /\ request[r].at \in Int /\ clock \in Int
      /\ request[r].at <= clock /\ clock <= request[r].at + RequestTime
  BY <1>1, TimesAreIntegers DEF SessionsInv, SessionsTypeOK, TimesInv, InTime
<1>3. /\ new.pc = "admitted" /\ new.at = request[r].at /\ new.session = s
  BY <1>2 DEF RequestState
<1>4. ASSUME IsRow(s)
      PROVE  /\ row.seen = request[r].at /\ row.used = session[s].used
             /\ row.revoked = session[s].revoked /\ row.expires = session[s].expires
             /\ row # Unused /\ row # Purged
  <2>1. session[s] \in Row
    BY <1>2, <1>4, RowsTyped DEF SessionsInv
  <2>2. request[r].at \in Time
    BY <1>2 DEF RequestState
  <2>3. row \in Row
    BY <2>1, <2>2 DEF Row
  <2>4. row # Unused /\ row # Purged
    BY <2>3, UnusedIsNoRow
  <2> QED BY <2>1, <2>4 DEF Row
<1> HIDE DEF row, new, s
<1>5. \A x \in SessionIds : x # s => session'[x] = session[x]
  BY <1>1 DEF SessionsInv, SessionsTypeOK
<1>6. IF IsRow(s) /\ session[s].revoked = Never
      THEN session'[s] = row ELSE session'[s] = session[s]
  BY <1>1, <1>2 DEF SessionsInv, SessionsTypeOK
<1>7. request'[r] = new /\ \A x \in Requests : x # r => request'[x] = request[x]
  BY <1>1 DEF SessionsInv, SessionsTypeOK
<1>8. \A x \in SessionIds :
        /\ session[x] # Unused => session'[x] # Unused
        /\ (IsRow(x))' => IsRow(x) /\ session'[x].used = session[x].used
                          /\ session'[x].revoked = session[x].revoked
  BY <1>4, <1>5, <1>6 DEF IsRow
<1>9. InTime'
  BY <1>1, <1>2, <1>3, <1>7, <1>8 DEF InTime, TimesInv
<1>10. TouchesInTime'
  <2> SUFFICES ASSUME NEW x \in Requests, request'[x].pc = "touch"
               PROVE  /\ session'[request'[x].session] # Unused
                      /\ (IsRow(request[x].session))' =>
                           request'[x].at < session'[request'[x].session].seen + Idle
    BY DEF TouchesInTime
  <2> DEFINE t == request[x].session
  <2>1. request'[x] = request[x] /\ request[x].pc = "touch"
    BY <1>3, <1>7
  <2>2. t \in SessionIds /\ session[t] # Unused
        /\ (IsRow(t) => request[x].at < session[t].seen + Idle)
    BY <2>1 DEF SessionsInv, SessionsTypeOK, TimesInv, TouchesInTime
  <2>3. request[x].at \in Int /\ request[x].at <= clock
    BY <2>1, TimesAreIntegers DEF SessionsInv, TimesInv, InTime
  <2>4. request[x].at < request[r].at + Idle
    BY <1>2, <2>3, SessionAssumption
  <2> HIDE DEF t
  <2>5. CASE t = s /\ IsRow(s) /\ session[s].revoked = Never
    BY <1>4, <1>6, <2>1, <2>4, <2>5 DEF t
  <2>6. CASE ~(t = s /\ IsRow(s) /\ session[s].revoked = Never)
    <3>1. session'[t] = session[t]
      BY <1>5, <1>6, <2>2, <2>6
    <3> QED BY <2>1, <2>2, <3>1 DEF IsRow, t
  <2> QED BY <2>5, <2>6
<1>11. StaysSignedIn'
  <2> SUFFICES ASSUME NEW x \in SessionIds, (IsRow(x))', session'[x].revoked = Never,
                      \A q \in Requests : request'[q].session = x => request'[q].pc # "touch"
               PROVE  session'[x].used - session'[x].seen <= Touch + RequestTime
    BY DEF StaysSignedIn
  <2>1. CASE x = s
    <3>1. IsRow(s) /\ session[s].revoked = Never /\ session'[s] = row
      BY <1>6, <1>8, <2>1
    <3>2. session[s].used \in Int /\ session[s].used <= clock
      BY <1>2, <3>1, TimesAreIntegers DEF TimesInv, InTime, SessionsInv
    <3>3. session[s].used - request[r].at <= Touch + RequestTime
      BY <1>2, <3>2, SessionAssumption
    <3> QED BY <1>4, <2>1, <3>1, <3>3
  <2>2. CASE x # s
    <3>1. \A q \in Requests : request[q].session = x => request[q].pc # "touch"
      BY <1>7, <2>2 DEF s
    <3> QED BY <1>5, <2>2, <3>1 DEF TimesInv, StaysSignedIn, IsRow
  <2> QED BY <2>1, <2>2
<1> QED BY <1>1, <1>5, <1>9, <1>10, <1>11 DEF TimesInv, s

LEMMA TickTimes ==
  ASSUME SessionsInv, TimesInv, Tick
  PROVE  TimesInv' /\ clock <= clock' /\ UNCHANGED session
<1>1. clock' = clock + 1 /\ UNCHANGED <<session, login, request>>
  BY DEF Tick, tables
<1>2. /\ clock \in Int
      /\ \A r \in Requests : request[r].at \in Int
      /\ \A l \in Logins : login[l].at \in Int
      /\ \A s \in SessionIds : IsRow(s) => session[s].used \in Int
  BY TimesAreIntegers DEF SessionsInv
<1>3. \A r \in Requests : request[r].pc # "idle" =>
         request[r].at <= clock + 1 /\ clock + 1 <= request[r].at + RequestTime
  BY <1>2, SessionAssumption DEF Tick, TimesInv, InTime
<1>4. \A l \in Logins : login[l].pc # "idle" => login[l].at <= clock + 1
  BY <1>2 DEF TimesInv, InTime
<1>5. \A s \in SessionIds : IsRow(s) => session[s].used <= clock + 1
  BY <1>2 DEF TimesInv, InTime
<1>6. InTime'
  BY <1>1, <1>3, <1>4, <1>5 DEF InTime, IsRow
<1>7. TouchesInTime' /\ StaysSignedIn'
  BY <1>1 DEF TimesInv, TouchesInTime, StaysSignedIn, IsRow
<1> QED BY <1>1, <1>2, <1>6, <1>7 DEF TimesInv

-----------------------------------------------------------------------------
(* The three kinds of steps, and what each does to a session that is over. *)
QuietStep ==
  \/ \E l \in Logins, u \in Users, p \in Passwords : VerifyPassword(l, u, p)
  \/ \E r \in Requests : Answer(r) \/ Logout(r) \/ VerifyCurrent(r) \/ ChangePassword(r)
  \/ \E u \in Users : Deactivate(u) \/ Activate(u) \/ ResetPassword(u)
  \/ Purge \/ UNCHANGED vars

LEMMA StepKinds ==
  ASSUME [Next]_vars
  PROVE  \/ QuietStep
         \/ \E l \in Logins, s \in SessionIds : StoreSession(l, s)
         \/ \E r \in Requests, s \in SessionIds : Resolve(r, s)
         \/ \E r \in Requests : TouchSession(r)
         \/ Tick
  BY DEF Next, QuietStep

LEMMA QuietStepTimes ==
  ASSUME SessionsInv, TimesInv, QuietStep
  PROVE  TimesInv' /\ clock' = clock /\ QuietRows
<1>1. clock' = clock /\ QuietRows /\ QuietRequests
  BY QuietSteps DEF QuietStep
<1>2. UNCHANGED login \/ \E l \in Logins, u \in Users, p \in Passwords : VerifyPassword(l, u, p)
  BY DEF QuietStep, Answer, Logout, VerifyCurrent, ChangePassword, Deactivate, Activate,
         ResetPassword, Purge, vars
<1>3. \A l \in Logins : login'[l].pc # "idle" => login'[l].at <= clock
  BY <1>2, LoginsInTime
<1> QED BY <1>1, <1>3, QuietKeepsTimes

LEMMA NextKeepsTimes ==
  ASSUME SessionsInv, TimesInv, [Next]_vars
  PROVE  TimesInv'
  BY StepKinds, QuietStepTimes, StoreSessionTimes, ResolveTimes, TouchSessionTimes, TickTimes

(* The rows of sessions, and the touches under way, keep their times.       *)
LEMMA SessionsTimes == Spec => [](SessionsInv /\ TimesInv)
<1>1. Init => SessionsInv /\ TimesInv
  BY InitInv, InitTimes
<1>2. SessionsInv /\ TimesInv /\ [Next]_vars => (SessionsInv /\ TimesInv)'
  BY NextKeepsInv, NextKeepsTimes
<1> QED BY <1>1, <1>2, PTL DEF Spec

(* touchSession writes seldom and its writes may arrive in any order: with *)
(* none in flight, last_seen_at is still no further behind the session's   *)
(* last request than the interval and the life of a request.               *)
THEOREM SessionsStaysSignedIn == Spec => []StaysSignedIn
<1>1. SessionsInv /\ TimesInv => StaysSignedIn
  BY DEF TimesInv
<1> QED BY <1>1, SessionsTimes, PTL

(* A row that keeps its times, and its revocation, stays over.             *)
LEMMA StaysOver ==
  ASSUME SessionsInv, NEW s \in SessionIds, IsRow(s), Over(s), clock <= clock', clock' \in Int,
         (IsRow(s))' => /\ session'[s].seen = session[s].seen
                        /\ session'[s].expires = session[s].expires
                        /\ session'[s].revoked = Never => session[s].revoked = Never
  PROVE  ~(Usable(s))'
<1>1. /\ clock \in Int /\ session[s].seen \in Int /\ session[s].expires \in Int
      /\ Idle \in Int
  BY TimesAreIntegers, SessionAssumption DEF SessionsInv
<1> QED BY <1>1 DEF Usable, Over, IsRow

LEMMA StepsEnd ==
  ASSUME SessionsInv, TimesInv, [Next]_vars,
         NEW s \in SessionIds, IsRow(s), Over(s),
         \A r \in Requests :
           request[r].session = s /\ request[r].pc = "touch"
           => request[r].at >= session[s].seen + Idle
  PROVE  ~(Usable(s))'
<1>1. /\ clock \in Int /\ session[s].seen \in Int /\ Idle \in Int
      /\ \A r \in Requests : request[r].at \in Int
  BY TimesAreIntegers, SessionAssumption DEF SessionsInv
<1>2. \A r \in Requests : request[r].session = s => request[r].pc # "touch"
  BY <1>1 DEF TimesInv, TouchesInTime
<1>3. clock' \in Int
  BY NextKeepsInv, SessionAssumption DEF SessionsInv, SessionsTypeOK, Time
<1>4. CASE QuietStep
  BY <1>1, <1>3, <1>4, QuietStepTimes, StaysOver DEF QuietRows
<1>5. CASE \E l \in Logins, x \in SessionIds : StoreSession(l, x)
  <2> PICK l \in Logins, x \in SessionIds : StoreSession(l, x)
    BY <1>5
  <2>1. session'[s] = session[s] /\ clock' = clock
    BY StoreSessionTimes DEF IsRow
  <2> QED BY <1>1, <1>3, <2>1, StaysOver
<1>6. CASE \E r \in Requests, x \in SessionIds : Resolve(r, x)
  <2> PICK r \in Requests, x \in SessionIds : Resolve(r, x)
    BY <1>6
  <2>1. session'[s] = session[s] /\ clock' = clock
    BY ResolveTimes
  <2> QED BY <1>1, <1>3, <2>1, StaysOver
<1>7. CASE \E r \in Requests : TouchSession(r)
  <2> PICK r \in Requests : TouchSession(r)
    BY <1>7
  <2>1. session'[s] = session[s] /\ clock' = clock
    BY <1>2, TouchSessionTimes
  <2> QED BY <1>1, <1>3, <2>1, StaysOver
<1>8. CASE Tick
  <2>1. session'[s] = session[s] /\ clock <= clock'
    BY <1>8, TickTimes
  <2> QED BY <1>3, <2>1, StaysOver
<1> QED BY <1>4, <1>5, <1>6, <1>7, <1>8, StepKinds

(* resolveSession's touch is the only way back for a session that is over, *)
(* and only of a request let in before the session had been idle too long. *)
THEOREM SessionsEndedForGood == Spec => EndedForGood
<1> DEFINE Ends == \A s \in SessionIds :
                     /\ IsRow(s) /\ Over(s)
                     /\ \A r \in Requests :
                          request[r].session = s /\ request[r].pc = "touch"
                          => request[r].at >= session[s].seen + Idle
                     => ~(Usable(s))'
<1>1. ASSUME SessionsInv, TimesInv, [Next]_vars
      PROVE  Ends
  BY <1>1, StepsEnd
<1>2. SessionsInv /\ TimesInv /\ [Next]_vars => [Ends]_vars
  BY <1>1
<1> QED BY <1>2, SessionsTimes, PTL DEF Spec, EndedForGood

-----------------------------------------------------------------------------
(***************************************************************************)
(* RateLimiter                                                             *)
(* what a stretch of time lets through                                     *)
(***************************************************************************)

Counter == [count : Nat, left : 0..Window]

-----------------------------------------------------------------------------
(* What a counter says of the past.  The window open now began             *)
(* Window - c.left ticks ago; the tries since then are in its count, and   *)
(* those of that tick or before it were let through by an earlier window,  *)
(* of which a stretch no longer than a window meets but one.  A counter    *)
(* without a window says as much: the last one is all that stretch meets.  *)

Counted(c, k) == IF c.count <= Limit[k] THEN c.count ELSE Limit[k]

Budget(c, k, i, j) ==
  IF c.left = 0 THEN Limit[k]
  ELSE (IF i + c.left <= Window THEN Counted(c, k) ELSE 0)
     + (IF Window <= j + c.left THEN Limit[k] ELSE 0)

(* Tries let through after the tick i ticks ago.                           *)
Since(s, k, i) == IF i = 0 THEN 0 ELSE passed[s][k][i - 1]

(* Of the tries between two ticks, what the windows do not allow is what   *)
(* the restarts have forgotten.                                            *)
Accounted(s, k) ==
  \A i, j \in Ages :
    i <= j => passed[s][k][j] <= Since(s, k, i) + Budget(counter[s][k], k, i, j)
                                 + Limit[k] * resets[s]

(* A window that refused a client ends no later than his wait, which only  *)
(* begins to run once he is answered.                                      *)
Awaited(r) ==
  \A w \in attempt[r].by : counter[w[1]][w[2]].left \in 1..attempt[r].wait

LimiterInv ==
  /\ LimiterTypeOK
  /\ \A s \in Stores, k \in Keys : Accounted(s, k)
  /\ \A r \in Clients : Awaited(r)

-----------------------------------------------------------------------------
(* Arithmetic of a counter.                                                *)

LEMMA BumpedTyped ==
  ASSUME NEW c \in Counter, NEW k \in Keys
  PROVE  Bumped(c, k) \in Counter
  BY LimiterAssumption DEF Bumped, Counter

LEMMA BudgetBounds ==
  ASSUME NEW c \in Counter, NEW k \in Keys, NEW i \in Ages, NEW j \in Ages
  PROVE  Budget(c, k, i, j) \in Nat /\ Budget(c, k, i, j) <= 2 * Limit[k]
<1>1. Limit[k] \in Nat /\ c.count \in Nat /\ c.left \in Nat /\ i \in Nat /\ j \in Nat /\ Window \in Nat
  BY LimiterAssumption DEF Counter, Ages
<1>2. Counted(c, k) \in Nat /\ Counted(c, k) <= Limit[k]
  BY <1>1 DEF Counted
<1> QED BY <1>1, <1>2 DEF Budget

(* A try is allowed for by the window it falls in.                         *)
LEMMA BumpAllowsForIt ==
  ASSUME NEW c \in Counter, NEW k \in Keys, NEW i \in Ages, NEW j \in Ages, i <= j
  PROVE  /\ Budget(c, k, i, j) <= Budget(Bumped(c, k), k, i, j)
         /\ i = 0 /\ Allowed(Bumped(c, k), k) =>
              Budget(c, k, i, j) + 1 <= Budget(Bumped(c, k), k, i, j)
<1>1. Limit[k] \in Nat \ {0} /\ Window \in Nat \ {0} /\ i \in Nat /\ j \in Nat /\ j < Window
  BY LimiterAssumption DEF Ages
<1>2. CASE c.left = 0
  BY <1>1, <1>2 DEF Bumped, Budget, Counted, Counter, Allowed
<1>3. CASE c.left # 0
  <2>1. PICK n \in Nat, l \in 0..Window : c = [count |-> n, left |-> l]
    BY DEF Counter
  <2>2. Bumped(c, k) = [count |-> IF n > Limit[k] THEN n ELSE n + 1, left |-> l]
    BY <1>3, <2>1 DEF Bumped
  <2> QED BY <1>1, <1>3, <2>1, <2>2 DEF Budget, Counted, Allowed
<1> QED BY <1>2, <1>3

(* A tick later the same stretch is a tick older.                          *)
LEMMA AgedAllowsTheSame ==
  ASSUME NEW c \in Counter, NEW s \in Stores, NEW k \in Keys, NEW i \in Ages, NEW j \in Ages,
         i <= j, j # 0
  PROVE  /\ Aged(s, c) \in Counter
         /\ Budget(c, k, IF i = 0 THEN 0 ELSE i - 1, j - 1) <= Budget(Aged(s, c), k, i, j)
<1>1. Limit[k] \in Nat \ {0} /\ Window \in Nat \ {0} /\ i \in Nat /\ j \in Nat /\ j < Window
  BY LimiterAssumption DEF Ages
<1>2. PICK n \in Nat, l \in 0..Window : c = [count |-> n, left |-> l]
  BY DEF Counter
<1>3. CASE l > 1
  <2>1. Aged(s, c) = [count |-> n, left |-> l - 1]
    BY <1>2, <1>3 DEF Aged
  <2> QED BY <1>1, <1>2, <1>3, <2>1 DEF Budget, Counted, Counter
<1>4. CASE l <= 1
  <2>1. Aged(s, c).left = 0 /\ Aged(s, c) \in Counter
    BY <1>1, <1>2, <1>4 DEF Aged, None, Counter
  <2> QED BY <1>1, <1>2, <1>4, <2>1 DEF Budget, Counted
<1> QED BY <1>1, <1>2, <1>3, <1>4

(* The sweep forgets no window.                                            *)
LEMMA SweptAllowsTheSame ==
  ASSUME NEW m \in [Keys -> Counter]
  PROVE  /\ Swept(m) \in [Keys -> Counter]
         /\ \A k \in Keys : \A i, j \in Ages :
              Budget(Swept(m)[k], k, i, j) = Budget(m[k], k, i, j)
<1>1. None \in Counter /\ None.left = 0
  BY LimiterAssumption DEF None, Counter
<1> QED BY <1>1 DEF Swept, Budget

-----------------------------------------------------------------------------
(* One step, for one store and key.                                        *)

LEMMA SinceTyped ==
  ASSUME LimiterTypeOK, NEW s \in Stores, NEW k \in Keys, NEW i \in Ages
  PROVE  /\ i \in Nat /\ (i # 0 => i - 1 \in Ages)
         /\ passed[s][k][i] \in Nat /\ Since(s, k, i) \in Nat
<1>1. i \in Nat /\ (i # 0 => i - 1 \in Ages)
  BY LimiterAssumption DEF Ages
<1> QED BY <1>1 DEF LimiterTypeOK, Since

(* A try, counted or not, let through or not.                              *)
LEMMA TryAccounts ==
  ASSUME LimiterInv, LimiterTypeOK', NEW s \in Stores, NEW k \in Keys, NEW c \in Counter,
         \A i, j \in Ages : Budget(c, k, i, j) = Budget(counter[s][k], k, i, j),
         resets'[s] = resets[s],
         \/ passed'[s][k] = passed[s][k] /\ counter'[s][k] \in {c, Bumped(c, k)}
         \/ /\ counter'[s][k] = Bumped(c, k)
            /\ passed'[s][k] = IF Allowed(Bumped(c, k), k)
                               THEN [a \in Ages |-> passed[s][k][a] + 1] ELSE passed[s][k]
  PROVE  Accounted(s, k)'
<1> SUFFICES ASSUME NEW i \in Ages, NEW j \in Ages, i <= j
             PROVE  passed'[s][k][j] <= Since(s, k, i)' + Budget(counter'[s][k], k, i, j)
                                        + Limit[k] * resets'[s]
  BY DEF Accounted
<1> DEFINE R == Limit[k] * resets[s]
<1>1. /\ R \in Nat /\ i \in Nat /\ j \in Nat
      /\ \A a \in Ages : passed[s][k][a] \in Nat
      /\ Since(s, k, i) \in Nat /\ (i # 0 => i - 1 \in Ages)
  <2>1. Limit[k] \in Nat /\ resets[s] \in Nat
    BY LimiterAssumption DEF LimiterInv, LimiterTypeOK
  <2>2. R \in Nat
    BY <2>1
  <2> QED BY <2>2, SinceTyped DEF LimiterInv
<1>2. /\ Budget(c, k, i, j) \in Nat /\ Budget(Bumped(c, k), k, i, j) \in Nat
      /\ passed[s][k][j] <= Since(s, k, i) + Budget(c, k, i, j) + R
  BY BudgetBounds, BumpedTyped DEF LimiterInv, Accounted
<1>3. /\ Budget(c, k, i, j) <= Budget(Bumped(c, k), k, i, j)
      /\ i = 0 /\ Allowed(Bumped(c, k), k) =>
           Budget(c, k, i, j) + 1 <= Budget(Bumped(c, k), k, i, j)
  BY BumpAllowsForIt
<1>4. Limit[k] * resets'[s] = R
  OBVIOUS
<1> HIDE DEF R
<1>5. CASE passed'[s][k] = passed[s][k] /\ counter'[s][k] \in {c, Bumped(c, k)}
  <2>1. Since(s, k, i)' = Since(s, k, i)
    BY <1>5 DEF Since
  <2> QED BY <1>1, <1>2, <1>3, <1>4, <1>5, <2>1
<1>6. CASE /\ counter'[s][k] = Bumped(c, k) /\ Allowed(Bumped(c, k), k)
           /\ passed'[s][k] = [a \in Ages |-> passed[s][k][a] + 1]
  <2>1. passed'[s][k][j] = passed[s][k][j] + 1
    BY <1>6
  <2>2. Since(s, k, i)' = IF i = 0 THEN 0 ELSE Since(s, k, i) + 1
    BY <1>1, <1>6 DEF Since
  <2>3. i = 0 => Since(s, k, i) = 0
    BY DEF Since
  <2> QED BY <1>1, <1>2, <1>3, <1>4, <1>6, <2>1, <2>2, <2>3
<1> QED BY <1>5, <1>6

LEMMA TickAccounts ==
  ASSUME LimiterInv, LimiterTypeOK', LimiterTick, NEW s \in Stores, NEW k \in Keys
  PROVE  Accounted(s, k)'
<1> SUFFICES ASSUME NEW i \in Ages, NEW j \in Ages, i <= j
             PROVE  passed'[s][k][j] <= Since(s, k, i)' + Budget(counter'[s][k], k, i, j)
                                        + Limit[k] * resets'[s]
  BY DEF Accounted
<1> DEFINE R == Limit[k] * resets[s]
           h == IF i = 0 THEN 0 ELSE i - 1
<1>1. /\ R \in Nat /\ i \in Nat /\ j \in Nat /\ (i # 0 => i - 1 \in Ages)
      /\ (j # 0 => j - 1 \in Ages /\ h \in Ages /\ h <= j - 1)
      /\ \A a \in Ages : passed[s][k][a] \in Nat /\ passed'[s][k][a] \in Nat
      /\ Since(s, k, i)' \in Nat /\ counter[s][k] \in Counter /\ counter'[s][k] \in Counter
  <2>1. Limit[k] \in Nat /\ resets[s] \in Nat
    BY LimiterAssumption DEF LimiterInv, LimiterTypeOK
  <2>2. R \in Nat
    BY <2>1
  <2>3. i \in Nat /\ j \in Nat /\ j < Window /\ Window \in Nat
    BY LimiterAssumption DEF Ages
  <2>4. i # 0 => i - 1 \in Ages
    BY <2>3 DEF Ages
  <2>5. j # 0 => j - 1 \in Ages /\ h \in Ages /\ h <= j - 1
    BY <2>3, LimiterAssumption DEF Ages
  <2>6. /\ \A a \in Ages : passed[s][k][a] \in Nat /\ passed'[s][k][a] \in Nat
        /\ counter[s][k] \in Counter /\ counter'[s][k] \in Counter
    BY DEF LimiterInv, LimiterTypeOK, Counter
  <2>7. Since(s, k, i)' \in Nat
    BY <2>4, <2>6 DEF Since
  <2> QED BY <2>2, <2>3, <2>4, <2>5, <2>6, <2>7
<1>2. /\ counter'[s][k] = Aged(s, counter[s][k])
      /\ \A a \in Ages : passed'[s][k][a] = IF a = 0 THEN 0 ELSE passed[s][k][a - 1]
      /\ Limit[k] * resets'[s] = R
  BY DEF LimiterTick
<1>3. Budget(counter'[s][k], k, i, j) \in Nat
  BY <1>1, BudgetBounds
<1> HIDE DEF R
<1>4. CASE j = 0
  BY <1>1, <1>2, <1>3, <1>4
<1>5. CASE j # 0
  <2>1. Budget(counter[s][k], k, h, j - 1) <= Budget(counter'[s][k], k, i, j)
    BY <1>1, <1>2, <1>5, AgedAllowsTheSame
  <2>2. passed[s][k][j - 1] <= Since(s, k, h) + Budget(counter[s][k], k, h, j - 1) + R
    BY <1>1, <1>5 DEF LimiterInv, Accounted, R
  <2>3. Since(s, k, i)' = Since(s, k, h)
    BY <1>1, <1>2 DEF Since
  <2>4. Budget(counter[s][k], k, h, j - 1) \in Nat /\ Since(s, k, h) \in Nat
    BY <1>1, <1>5, <2>3, BudgetBounds
  <2> HIDE DEF h
  <2> QED BY <1>1, <1>2, <1>3, <1>5, <2>1, <2>2, <2>3, <2>4
<1> QED BY <1>4, <1>5

(* What is forgotten costs at most one more window.                        *)
LEMMA RestartAccounts ==
  ASSUME LimiterInv, LimiterTypeOK', NEW s \in Stores, Restart(s), NEW k \in Keys
  PROVE  Accounted(s, k)'
<1> SUFFICES ASSUME NEW i \in Ages, NEW j \in Ages, i <= j
             PROVE  passed'[s][k][j] <= Since(s, k, i)' + Budget(counter'[s][k], k, i, j)
                                        + Limit[k] * resets'[s]
  BY DEF Accounted
<1> DEFINE R == Limit[k] * resets[s]
<1>1. /\ R \in Nat /\ Limit[k] \in Nat /\ passed[s][k][j] \in Nat /\ Since(s, k, i) \in Nat
      /\ counter[s][k] \in Counter /\ resets[s] \in Nat
  <2>1. Limit[k] \in Nat /\ resets[s] \in Nat /\ counter[s][k] \in Counter
    BY LimiterAssumption DEF LimiterInv, LimiterTypeOK, Counter
  <2>2. R \in Nat
    BY <2>1
  <2> QED BY <2>1, <2>2, SinceTyped DEF LimiterInv
<1>2. /\ passed' = passed /\ resets'[s] = resets[s] + 1
      /\ counter'[s][k] \in {None, counter[s][k]}
  BY DEF Restart, LimiterInv, LimiterTypeOK
<1>3. Limit[k] * resets'[s] = R + Limit[k]
  BY <1>1, <1>2
<1>4. Since(s, k, i)' = Since(s, k, i)
  BY <1>2 DEF Since
<1>5. /\ Budget(counter[s][k], k, i, j) \in Nat
      /\ Budget(counter[s][k], k, i, j) <= 2 * Limit[k]
      /\ passed[s][k][j] <= Since(s, k, i) + Budget(counter[s][k], k, i, j) + R
  BY <1>1, BudgetBounds DEF LimiterInv, Accounted
<1>6. Budget(None, k, i, j) = Limit[k]
  BY DEF Budget, None
<1> HIDE DEF R
<1> QED BY <1>1, <1>2, <1>3, <1>4, <1>5, <1>6

(* A store and key left alone, but perhaps for a bucket the sweep removes. *)
LEMMA UntouchedAccounts ==
  ASSUME LimiterInv, NEW s \in Stores, NEW k \in Keys,
         \A i, j \in Ages : Budget(counter'[s][k], k, i, j) = Budget(counter[s][k], k, i, j),
         passed'[s][k] = passed[s][k], resets'[s] = resets[s]
  PROVE  Accounted(s, k)'
<1>1. \A i \in Ages : Since(s, k, i)' = Since(s, k, i)
  BY DEF Since
<1> QED BY <1>1 DEF LimiterInv, Accounted

-----------------------------------------------------------------------------
LEMMA NoAttemptTyped == \A p \in Processes : NoAttempt(p) \in Attempt
  BY DEF NoAttempt, Attempt

(* What a client is told, of a counter just consumed.                      *)
LEMMA HearTyped ==
  ASSUME LimiterTypeOK, NEW r \in Clients, NEW s \in Stores, NEW k \in Keys,
         NEW c \in Counter, Consuming(r, k), Hear(r, s, k, c)
  PROVE  /\ attempt' \in [Clients -> Attempt]
         /\ c.left <= LongerWait(attempt[r].wait, c)
         /\ attempt[r].wait <= LongerWait(attempt[r].wait, c)
<1> DEFINE a == attempt[r]  b == Told(a, s, k, c)
<1>1. a \in Attempt /\ a.left \in Seq(Keys) /\ a.left # <<>> /\ a.wait \in Nat
  BY DEF LimiterTypeOK, Attempt, Consuming
<1>2. /\ LongerWait(a.wait, c) \in Nat
      /\ c.left <= LongerWait(a.wait, c) /\ a.wait <= LongerWait(a.wait, c)
  <2>1. c.left \in Nat /\ Second \in Nat \ {0}
    BY LimiterAssumption DEF Counter
  <2>2. \A n, d \in Nat : d # 0 => LET w == ((n + d - 1) \div d) * d IN w \in Nat /\ n <= w
    OBVIOUS
  <2>3. RetryAfterSeconds(c) * Second \in Nat /\ c.left <= RetryAfterSeconds(c) * Second
    BY <2>1, <2>2 DEF RetryAfterSeconds
  <2> QED BY <1>1, <2>1, <2>3 DEF LongerWait
<1>3. Tail(a.left) \in Seq(Keys)
  BY <1>1
<1>4. Allowed(c, k) \in BOOLEAN
  BY DEF Allowed
<1>5. b \in Attempt
  <2> DEFINE wait == LongerWait(a.wait, c)
             by == IF Allowed(c, k) THEN a.by ELSE a.by \cup {<<s, k>>}
             over == a.over \/ ~Allowed(c, k)
  <2>1. b = [a EXCEPT !.left = Tail(a.left), !.over = over, !.wait = wait, !.by = by]
    BY DEF Told
  <2>2. over \in BOOLEAN /\ by \subseteq Stores \X Keys /\ wait \in Nat
    <3>1. a.by \subseteq Stores \X Keys /\ <<s, k>> \in Stores \X Keys
      BY <1>1 DEF Attempt
    <3> QED BY <1>2, <3>1
  <2> HIDE DEF wait, by, over, a, b
  <2> QED BY <1>1, <1>3, <2>1, <2>2 DEF Attempt
<1>6. [b EXCEPT !.over = FALSE] \in Attempt /\ NoAttempt(b.at) \in Attempt
  <2> HIDE DEF b
  <2>1. b.at \in Processes
    BY <1>5 DEF Attempt
  <2>2. [b EXCEPT !.over = FALSE] \in Attempt
    BY <1>5 DEF Attempt
  <2> QED BY <2>1, <2>2, NoAttemptTyped
<1> QED BY <1>2, <1>5, <1>6 DEF Hear, LimiterTypeOK

LEMMA TypeStep == LimiterTypeOK /\ [LimiterNext]_limiterVars => LimiterTypeOK'
<1> SUFFICES ASSUME LimiterTypeOK, [LimiterNext]_limiterVars PROVE LimiterTypeOK'
  OBVIOUS
<1> USE LimiterAssumption
<1>1. \A s \in Stores, k \in Keys : counter[s][k] \in Counter
  BY DEF LimiterTypeOK, Counter
<1>2. \A c \in Counter, k \in Keys : Bumped(c, k) \in Counter
  BY BumpedTyped
<1>3. /\ None \in Counter /\ Redis \in Stores /\ Processes \subseteq Stores
      /\ counter \in [Stores -> [Keys -> Counter]]
  BY DEF None, Counter, Stores, LimiterTypeOK
<1>4. \A s \in Stores, k \in Keys : \A ok : Pass(s, k, ok) =>
        passed' \in [Stores -> [Keys -> [Ages -> Nat]]]
  <2> SUFFICES ASSUME NEW s \in Stores, NEW k \in Keys, NEW ok, Pass(s, k, ok)
               PROVE  passed' \in [Stores -> [Keys -> [Ages -> Nat]]]
    OBVIOUS
  <2>1. [a \in Ages |-> passed[s][k][a] + 1] \in [Ages -> Nat]
    BY DEF LimiterTypeOK
  <2> QED BY <2>1 DEF Pass, LimiterTypeOK
<1>5. ASSUME NEW r \in Clients, NEW k \in Keys, ConsumeInRedis(r, k) PROVE LimiterTypeOK'
  <2>1. counter' \in [Stores -> [Keys -> Counter]]
    BY <1>1, <1>2, <1>3, <1>5 DEF ConsumeInRedis
  <2>2. attempt' \in [Clients -> Attempt]
    <3>1. Bumped(counter[Redis][k], k) \in Counter
      BY <1>1, <1>2, <1>3
    <3> QED BY <1>3, <1>5, <3>1, HearTyped DEF ConsumeInRedis
  <2> QED BY <1>3, <1>4, <1>5, <2>1, <2>2 DEF ConsumeInRedis, LimiterTypeOK, Counter
<1>6. ASSUME NEW r \in Clients, NEW k \in Keys, ConsumeInMemory(r, k) PROVE LimiterTypeOK'
  <2> DEFINE p == attempt[r].at
  <2>0. p \in Processes
    BY DEF LimiterTypeOK, Attempt
  <2>1. Swept(counter[p]) \in [Keys -> Counter]
    BY <1>3, <2>0, SweptAllowsTheSame
  <2>2. counter' \in [Stores -> [Keys -> Counter]]
    <3>1. PICK shared \in Counter :
            counter' = [counter EXCEPT
              ![p] = [Swept(counter[p]) EXCEPT
                        ![k] = Bumped(Swept(counter[p])[k], k)],
              ![Redis][k] = shared]
      BY <1>1, <1>2, <1>3, <1>6, <2>0 DEF ConsumeInMemory
    <3>2. [Swept(counter[p]) EXCEPT ![k] = Bumped(Swept(counter[p])[k], k)] \in [Keys -> Counter]
      BY <1>2, <2>1
    <3> QED BY <1>3, <2>0, <3>1, <3>2
  <2>3. attempt' \in [Clients -> Attempt]
    <3>1. Bumped(Swept(counter[p])[k], k) \in Counter
      BY <1>2, <2>1
    <3> QED BY <1>3, <1>6, <2>0, <3>1, HearTyped DEF ConsumeInMemory
  <2> QED BY <1>3, <1>4, <1>6, <2>0, <2>2, <2>3 DEF ConsumeInMemory, LimiterTypeOK, Counter
<1>7. ASSUME NEW s \in Stores, Restart(s) PROVE LimiterTypeOK'
  <2>1. counter' \in [Stores -> [Keys -> Counter]]
    BY <1>1, <1>3, <1>7 DEF Restart
  <2>2. attempt' \in [Clients -> Attempt]
    <3> SUFFICES ASSUME NEW r \in Clients
                 PROVE  /\ attempt[r].at = s => NoAttempt(s) \in Attempt
                        /\ [attempt[r] EXCEPT !.by = StillRunning(@)] \in Attempt
      BY <1>7 DEF Restart
    <3>1. attempt[r] \in Attempt /\ StillRunning(attempt[r].by) \subseteq attempt[r].by
      BY DEF LimiterTypeOK, StillRunning
    <3>2. attempt[r].at \in Processes
      BY <3>1 DEF Attempt
    <3>3. [attempt[r] EXCEPT !.by = StillRunning(@)] \in Attempt
      BY <3>1 DEF Attempt
    <3> QED BY <3>2, <3>3, NoAttemptTyped
  <2> QED BY <1>7, <2>1, <2>2 DEF Restart, LimiterTypeOK, Counter
<1>8. CASE LimiterTick
  <2>1. \A s \in Stores, k \in Keys : Aged(s, counter[s][k]) \in Counter
    <3>1. ASSUME NEW s \in Stores, NEW c \in Counter
          PROVE  Aged(s, c) \in Counter
      <4>1. c.left \in 0..Window /\ c.count \in Nat /\ Window \in Nat /\ None \in Counter
        BY <1>3 DEF Counter
      <4> QED BY <4>1 DEF Aged, Counter
    <3> QED BY <1>1, <3>1
  <2>2. \A s \in Stores, k \in Keys, a \in Ages :
          (IF a = 0 THEN 0 ELSE passed[s][k][a - 1]) \in Nat
    <3>1. \A a \in Ages : a # 0 => a - 1 \in Ages
      BY DEF Ages
    <3> QED BY <3>1 DEF LimiterTypeOK
  <2>3. attempt' \in [Clients -> Attempt]
    <3> SUFFICES ASSUME NEW r \in Clients
                 PROVE  [attempt[r] EXCEPT !.wait = Waited(attempt[r]),
                                           !.by = StillRunning(@)] \in Attempt
      BY <1>8 DEF LimiterTick
    <3>1. attempt[r] \in Attempt /\ StillRunning(attempt[r].by) \subseteq attempt[r].by
      BY DEF LimiterTypeOK, StillRunning
    <3>2. Waited(attempt[r]) \in Nat
      BY <3>1 DEF Waited, Attempt
    <3> QED BY <3>1, <3>2 DEF Attempt
  <2> QED BY <1>8, <2>1, <2>2, <2>3 DEF LimiterTick, LimiterTypeOK, Counter
<1>9. ASSUME NEW r \in Clients, Begin(r) PROVE LimiterTypeOK'
  <2>1. PICK p \in Processes, keys \in Routes :
          attempt' = [attempt EXCEPT ![r] = [NoAttempt(p) EXCEPT !.left = keys]]
    BY <1>9 DEF Begin
  <2>2. [NoAttempt(p) EXCEPT !.left = keys] \in Attempt
    BY DEF NoAttempt, Attempt
  <2> QED BY <1>9, <2>1, <2>2 DEF Begin, LimiterTypeOK
<1> QED BY <1>5, <1>6, <1>7, <1>8, <1>9 DEF LimiterNext, limiterVars, LimiterTypeOK

LEMMA LimiterInvInit == LimiterInit => LimiterInv
<1> SUFFICES ASSUME LimiterInit PROVE LimiterInv
  OBVIOUS
<1> USE LimiterAssumption
<1>1. None \in [count : Nat, left : 0..Window]
  BY DEF None
<1>2. LimiterTypeOK
  <2>1. \A p \in Processes : NoAttempt(p) \in Attempt
    BY DEF NoAttempt, Attempt
  <2> QED BY <1>1, <2>1 DEF LimiterInit, LimiterTypeOK
<1>3. ASSUME NEW s \in Stores, NEW k \in Keys PROVE Accounted(s, k)
  <2> SUFFICES ASSUME NEW i \in Ages, NEW j \in Ages
               PROVE  0 <= Since(s, k, i) + Budget(None, k, i, j) + Limit[k] * resets[s]
    BY DEF Accounted, LimiterInit
  <2>1. Since(s, k, i) = 0 /\ Budget(None, k, i, j) = Limit[k] /\ resets[s] = 0
    BY DEF LimiterInit, Since, Ages, Budget, None
  <2> QED BY <2>1
<1>4. \A r \in Clients : attempt[r].by = {}
  BY DEF LimiterInit, NoAttempt
<1> QED BY <1>2, <1>3, <1>4 DEF LimiterInv, Awaited

LEMMA AccountedStep ==
  ASSUME LimiterInv, [LimiterNext]_limiterVars, NEW s \in Stores, NEW k \in Keys, LimiterTypeOK'
  PROVE  Accounted(s, k)'
<1>1. /\ counter \in [Stores -> [Keys -> Counter]] /\ Redis \in Stores
      /\ Processes \subseteq Stores /\ Redis \notin Processes
      /\ passed \in [Stores -> [Keys -> [Ages -> Nat]]] /\ resets \in [Stores -> Nat]
  BY LimiterAssumption DEF LimiterInv, LimiterTypeOK, Counter, Stores
<1>2. ASSUME NEW r \in Clients, NEW l \in Keys, ConsumeInRedis(r, l) PROVE Accounted(s, k)'
  <2>1. CASE s = Redis /\ l = k
    <3>1. /\ counter'[s][k] = Bumped(counter[s][k], k) /\ counter[s][k] \in Counter
          /\ passed'[s][k] = IF Allowed(Bumped(counter[s][k], k), k)
                             THEN [a \in Ages |-> passed[s][k][a] + 1] ELSE passed[s][k]
          /\ resets'[s] = resets[s]
      BY <1>1, <1>2, <2>1 DEF ConsumeInRedis, Pass
    <3> QED BY <3>1, TryAccounts
  <2>2. CASE s # Redis \/ l # k
    BY <1>1, <1>2, <2>2, UntouchedAccounts DEF ConsumeInRedis, Pass
  <2> QED BY <2>1, <2>2
<1>3. ASSUME NEW r \in Clients, NEW l \in Keys, ConsumeInMemory(r, l)
      PROVE  Accounted(s, k)'
  <2> DEFINE p == attempt[r].at  m == Swept(counter[p])
  <2>1. p \in Processes
    BY DEF LimiterInv, LimiterTypeOK, Attempt
  <2>0. /\ m \in [Keys -> Counter] 
        /\ \A i, j \in Ages : Budget(m[k], k, i, j) = Budget(counter[p][k], k, i, j)
    BY <1>1, <2>1, SweptAllowsTheSame
  <2>2. /\ \E shared \in {counter[Redis][l], Bumped(counter[Redis][l], l)} :
             counter' = [counter EXCEPT ![p] = [m EXCEPT ![l] = Bumped(m[l], l)],
                                        ![Redis][l] = shared]
        /\ passed' = IF Allowed(Bumped(m[l], l), l)
                     THEN [passed EXCEPT ![p][l] = [a \in Ages |-> @[a] + 1]] ELSE passed
        /\ resets' = resets
    BY <1>3 DEF ConsumeInMemory, Pass
  <2> HIDE DEF m, p
  <2>3. CASE s = p /\ l = k
    <3>1. counter'[s][k] = Bumped(m[k], k)
      BY <1>1, <2>1, <2>0, <2>2, <2>3
    <3>2. passed'[s][k] = IF Allowed(Bumped(m[k], k), k)
                          THEN [a \in Ages |-> passed[s][k][a] + 1] ELSE passed[s][k]
      BY <1>1, <2>1, <2>2, <2>3
    <3>3. m[k] \in Counter
      BY <2>0
    <3>4. resets'[s] = resets[s]
      BY <2>2
    <3> QED BY <2>0, <2>3, <3>1, <3>2, <3>3, <3>4, TryAccounts
  <2>4. CASE s = p /\ l # k
    <3>1. counter'[s][k] = m[k] /\ passed'[s][k] = passed[s][k]
      BY <1>1, <2>1, <2>0, <2>2, <2>4
    <3>2. \A i, j \in Ages : Budget(counter'[s][k], k, i, j) = Budget(counter[s][k], k, i, j)
      BY <2>0, <2>4, <3>1
    <3>3. resets'[s] = resets[s]
      BY <2>2
    <3> QED BY <3>1, <3>2, <3>3, UntouchedAccounts
  <2>5. CASE s = Redis /\ l = k
    <3>1. counter'[s][k] \in {counter[s][k], Bumped(counter[s][k], k)}
      BY <1>1, <2>1, <2>2, <2>5
    <3>2. passed'[s][k] = passed[s][k] /\ resets'[s] = resets[s]
      BY <1>1, <2>1, <2>2, <2>5
    <3> QED BY <1>1, <3>1, <3>2, TryAccounts
  <2>6. CASE s # p /\ (s # Redis \/ l # k)
    <3>1. counter'[s][k] = counter[s][k] /\ passed'[s][k] = passed[s][k]
      BY <1>1, <2>1, <2>2, <2>6
    <3> QED BY <2>2, <3>1, UntouchedAccounts
  <2> QED BY <1>1, <2>3, <2>4, <2>5, <2>6
<1>4. ASSUME NEW r \in Stores, Restart(r) PROVE Accounted(s, k)'
  <2>1. CASE r = s
    BY <1>4, <2>1, RestartAccounts
  <2>2. CASE r # s
    BY <1>1, <1>4, <2>2, UntouchedAccounts DEF Restart
  <2> QED BY <2>1, <2>2
<1>5. CASE LimiterTick
  BY <1>5, TickAccounts
<1>6. CASE UNCHANGED limiterVars
  BY <1>6, UntouchedAccounts DEF limiterVars
<1>7. ASSUME NEW r \in Clients, Begin(r) PROVE Accounted(s, k)'
  BY <1>7, UntouchedAccounts DEF Begin
<1> QED BY <1>2, <1>3, <1>4, <1>5, <1>6, <1>7 DEF LimiterNext

(* A window still open is not begun again by whoever tries.                *)
LEMMA OpenWindowStays ==
  ASSUME LimiterInv, NEW q \in Clients, NEW l \in Keys,
         ConsumeInRedis(q, l) \/ ConsumeInMemory(q, l),
         NEW s \in Stores, NEW k \in Keys, counter[s][k].left > 0
  PROVE  counter'[s][k].left = counter[s][k].left
<1>1. /\ counter \in [Stores -> [Keys -> Counter]] /\ Redis \in Stores
      /\ attempt[q].at \in Stores
  BY DEF LimiterInv, LimiterTypeOK, Counter, Stores, Attempt
<1>2. \A c \in Counter : c.left > 0 => Bumped(c, l).left = c.left
  BY DEF Bumped, Counter
<1>3. CASE ConsumeInRedis(q, l)
  BY <1>1, <1>2, <1>3 DEF ConsumeInRedis
<1>4. CASE ConsumeInMemory(q, l)
  <2> DEFINE p == attempt[q].at  m == Swept(counter[p])
  <2>1. /\ m \in [Keys -> Counter]
        /\ \A x \in Keys : counter[p][x].left > 0 => m[x] = counter[p][x]
    <3>1. m \in [Keys -> Counter]
      BY <1>1, SweptAllowsTheSame
    <3>2. \A x \in Keys : counter[p][x].left > 0 => m[x] = counter[p][x]
      BY <1>1 DEF Swept
    <3> QED BY <3>1, <3>2
  <2>2. PICK shared \in {counter[Redis][l], Bumped(counter[Redis][l], l)} :
          counter' = [counter EXCEPT ![p] = [m EXCEPT ![l] = Bumped(m[l], l)], ![Redis][l] = shared]
    BY <1>4 DEF ConsumeInMemory
  <2>3. p # Redis
    BY LimiterAssumption DEF LimiterInv, LimiterTypeOK, Attempt
  <2> HIDE DEF m, p
  <2>4. CASE s = p
    BY <1>1, <1>2, <2>1, <2>2, <2>3, <2>4
  <2>5. CASE s # p
    BY <1>1, <1>2, <2>2, <2>5
  <2> QED BY <2>4, <2>5
<1> QED BY <1>3, <1>4

(* Who is told by a store, and by whom else he was refused before.         *)
LEMMA HearAwaits ==
  ASSUME LimiterInv, NEW q \in Clients, NEW s \in Stores, NEW k \in Keys, NEW c \in Counter,
         Consuming(q, k), Hear(q, s, k, c), counter'[s][k] = c, c.left > 0,
         \A t \in Stores, x \in Keys :
           counter[t][x].left > 0 => counter'[t][x].left = counter[t][x].left,
         NEW r \in Clients
  PROVE  Awaited(r)'
<1>1. /\ attempt \in [Clients -> Attempt] /\ attempt[r] \in Attempt /\ attempt[q] \in Attempt
      /\ Awaited(r)
  BY DEF LimiterInv, LimiterTypeOK
<1>2. \A w \in attempt[r].by :
        /\ counter'[w[1]][w[2]].left = counter[w[1]][w[2]].left
        /\ counter'[w[1]][w[2]].left \in 1..attempt[r].wait
  <2> SUFFICES ASSUME NEW w \in attempt[r].by
               PROVE  /\ counter'[w[1]][w[2]].left = counter[w[1]][w[2]].left
                      /\ counter'[w[1]][w[2]].left \in 1..attempt[r].wait
    OBVIOUS
  <2>1. w[1] \in Stores /\ w[2] \in Keys
    BY <1>1 DEF Attempt
  <2>2. counter[w[1]][w[2]].left \in 1..attempt[r].wait
    BY <1>1 DEF Awaited
  <2> QED BY <2>1, <2>2
<1>3. CASE r # q
  <2>1. attempt'[r] = attempt[r]
    BY <1>1, <1>3 DEF Hear
  <2> QED BY <1>2, <2>1 DEF Awaited
<1>4. CASE r = q
  <2> DEFINE wait == LongerWait(attempt[q].wait, c)
             by == IF Allowed(c, k) THEN attempt[q].by ELSE attempt[q].by \cup {<<s, k>>}
  <2>1. /\ attempt'[q].by = {} \/ (attempt'[q].by = by /\ attempt'[q].wait = wait)
    <3>1. Told(attempt[q], s, k, c).by = by /\ Told(attempt[q], s, k, c).wait = wait
      BY <1>1 DEF Told, Attempt
    <3>2. Told(attempt[q], s, k, c) = [attempt[q] EXCEPT
             !.left = Tail(@), !.over = @ \/ ~Allowed(c, k), !.wait = wait, !.by = by]
      BY DEF Told
    <3>3. attempt'[q] \in {Told(attempt[q], s, k, c), [Told(attempt[q], s, k, c) EXCEPT !.over = FALSE],
                           NoAttempt(Told(attempt[q], s, k, c).at)}
      BY <1>1 DEF Hear
    <3>4. \A p : NoAttempt(p).by = {}
      BY DEF NoAttempt
    <3>5. /\ [Told(attempt[q], s, k, c) EXCEPT !.over = FALSE].by = by
          /\ [Told(attempt[q], s, k, c) EXCEPT !.over = FALSE].wait = wait
      BY <1>1, <3>1, <3>2 DEF Attempt
    <3> QED BY <3>1, <3>3, <3>4, <3>5
  <2>2. c.left <= wait /\ attempt[q].wait <= wait /\ wait \in Nat /\ c.left \in Nat
        /\ attempt[q].wait \in Nat
    <3>1. c.left <= wait /\ attempt[q].wait <= wait
      BY HearTyped DEF LimiterInv
    <3>2. attempt[q].wait \in Nat /\ c.left \in Nat /\ Second \in Nat \ {0}
      BY <1>1, LimiterAssumption DEF Attempt, Counter
    <3>3. \A n, d \in Nat : d # 0 => ((n + d - 1) \div d) * d \in Nat
      OBVIOUS
    <3>4. wait \in Nat
      BY <3>2, <3>3 DEF LongerWait, RetryAfterSeconds
    <3> QED BY <3>1, <3>2, <3>4
  <2> HIDE DEF wait
  <2>3. \A w \in by : counter'[w[1]][w[2]].left \in 1..wait
    BY <1>2, <1>4, <2>2
  <2> HIDE DEF by
  <2> QED BY <1>4, <2>1, <2>3 DEF Awaited
<1> QED BY <1>3, <1>4

LEMMA AwaitedStep ==
  ASSUME LimiterInv, [LimiterNext]_limiterVars, NEW r \in Clients
  PROVE  Awaited(r)'
<1>1. /\ counter \in [Stores -> [Keys -> Counter]] /\ Redis \in Stores
      /\ Processes \subseteq Stores /\ Redis \notin Processes
      /\ attempt \in [Clients -> Attempt] /\ attempt[r] \in Attempt
      /\ attempt[r].wait \in Nat /\ attempt[r].by \subseteq Stores \X Keys
  BY LimiterAssumption DEF LimiterInv, LimiterTypeOK, Counter, Stores, Attempt
<1>2. \A w \in attempt[r].by :
        /\ w[1] \in Stores /\ w[2] \in Keys
        /\ counter[w[1]][w[2]].left \in 1..attempt[r].wait
  BY <1>1 DEF LimiterInv, Awaited
<1>3. \A c \in Counter, k \in Keys : Bumped(c, k) \in Counter /\ Bumped(c, k).left > 0
  <2>1. Window > 0
    BY LimiterAssumption
  <2>2. \A c \in Counter, k \in Keys : Bumped(c, k).left > 0
    BY <2>1 DEF Bumped, Counter
  <2> QED BY <2>2, BumpedTyped
<1>4. ASSUME NEW q \in Clients, NEW k \in Keys, ConsumeInRedis(q, k)
      PROVE  Awaited(r)'
  <2> DEFINE c == Bumped(counter[Redis][k], k)
  <2>1. Consuming(q, k) /\ Hear(q, Redis, k, c) /\ counter' = [counter EXCEPT ![Redis][k] = c]
    BY <1>4 DEF ConsumeInRedis
  <2>2. counter'[Redis][k] = c /\ c \in Counter /\ c.left > 0
    BY <1>1, <1>3, <2>1
  <2> HIDE DEF c
  <2> QED BY <1>1, <1>4, <2>1, <2>2, OpenWindowStays, HearAwaits
<1>5. ASSUME NEW q \in Clients, NEW k \in Keys, ConsumeInMemory(q, k)
      PROVE  Awaited(r)'
  <2> DEFINE p == attempt[q].at  m == Swept(counter[p])  c == Bumped(m[k], k)
  <2>1. p \in Processes
    BY <1>1 DEF Attempt
  <2>2. m \in [Keys -> Counter]
    BY <1>1, <2>1, SweptAllowsTheSame
  <2>3. c \in Counter /\ c.left > 0
    BY <1>3, <2>2
  <2>4. /\ Consuming(q, k) /\ Hear(q, p, k, c)
        /\ \E shared : counter' = [counter EXCEPT ![p] = [m EXCEPT ![k] = c],
                                                  ![Redis][k] = shared]
    BY <1>5 DEF ConsumeInMemory
  <2> HIDE DEF c
  <2>5. counter'[p][k] = c
    BY <1>1, <2>1, <2>2, <2>4
  <2> HIDE DEF m, p
  <2> QED BY <1>1, <1>5, <2>1, <2>3, <2>4, <2>5, OpenWindowStays, HearAwaits
<1>6. ASSUME NEW s \in Stores, Restart(s)
      PROVE  Awaited(r)'
  <2>1. attempt'[r].by = {} \/ /\ attempt'[r].by = StillRunning(attempt[r].by)
                               /\ attempt'[r].wait = attempt[r].wait
    BY <1>1, <1>6 DEF Restart, NoAttempt, Attempt
  <2>2. \A t \in Stores, k \in Keys : counter'[t][k] \in {None, counter[t][k]}
    BY <1>1, <1>6 DEF Restart
  <2>3. \A w \in StillRunning(attempt[r].by) : counter'[w[1]][w[2]].left \in 1..attempt[r].wait
    BY <1>2, <2>2 DEF StillRunning, None
  <2> QED BY <2>1, <2>3 DEF Awaited
<1>7. CASE LimiterTick
  <2>1. /\ attempt'[r].by = StillRunning(attempt[r].by)
        /\ attempt'[r].wait = Waited(attempt[r])
    BY <1>1, <1>7 DEF LimiterTick, Attempt
  <2>2. ASSUME NEW w \in StillRunning(attempt[r].by)
        PROVE  counter'[w[1]][w[2]].left \in 1..Waited(attempt[r])
    <3>1. /\ w[1] \in Stores /\ w[2] \in Keys
          /\ counter[w[1]][w[2]].left \in 1..attempt[r].wait
          /\ counter'[w[1]][w[2]].left > 0
      BY <1>2 DEF StillRunning
    <3>2. counter'[w[1]][w[2]] = Aged(w[1], counter[w[1]][w[2]]) /\ counter[w[1]][w[2]] \in Counter
      BY <1>1, <1>7, <3>1 DEF LimiterTick
    <3>3. counter'[w[1]][w[2]].left = counter[w[1]][w[2]].left - 1
      BY <3>1, <3>2 DEF Aged, None, Counter
    <3>4. Waited(attempt[r]) \in {attempt[r].wait, attempt[r].wait - 1}
      BY DEF Waited
    <3> QED BY <1>1, <3>1, <3>3, <3>4
  <2> QED BY <2>1, <2>2 DEF Awaited
<1>8. ASSUME NEW q \in Clients, Begin(q)
      PROVE  Awaited(r)'
  <2>1. counter' = counter /\ (attempt'[r] = attempt[r] \/ attempt'[r].by = {})
    BY <1>1, <1>8 DEF Begin, NoAttempt
  <2> QED BY <1>2, <2>1 DEF Awaited
<1>9. CASE UNCHANGED limiterVars
  BY <1>2, <1>9 DEF limiterVars, Awaited
<1> QED BY <1>4, <1>5, <1>6, <1>7, <1>8, <1>9 DEF LimiterNext

LEMMA LimiterInvStep == LimiterInv /\ [LimiterNext]_limiterVars => LimiterInv'
<1>1. LimiterInv => LimiterTypeOK
  BY DEF LimiterInv
<1> QED BY <1>1, TypeStep, AccountedStep, AwaitedStep DEF LimiterInv

(* The inductive invariant: what a counter and the restarts of its store   *)
(* account for, and how long the windows that refused a client still run.  *)
THEOREM LimiterInvHolds == LimiterSpec => []LimiterInv
<1> QED BY LimiterInvInit, LimiterInvStep, PTL DEF LimiterSpec

(* The counters, the history and the restarts stay within their types.     *)
THEOREM LimiterTypes == LimiterSpec => []LimiterTypeOK
<1>1. LimiterInv => LimiterTypeOK
  BY DEF LimiterInv
<1> QED BY <1>1, LimiterInvHolds, PTL

(* No store lets through, in any stretch as long as a window, more than    *)
(* two windows allow and one more for each time it has restarted.          *)
THEOREM NeverWithoutLimit == LimiterSpec => []NeverUnlimited
<1>1. LimiterInv => NeverUnlimited
  <2> SUFFICES ASSUME LimiterInv, NEW s \in Stores, NEW k \in Keys
               PROVE  passed[s][k][Window - 1] <= Limit[k] * (2 + resets[s])
    BY DEF NeverUnlimited
  <2>1. /\ 0 \in Ages /\ Window - 1 \in Ages /\ counter[s][k] \in Counter
        /\ Limit[k] \in Nat /\ resets[s] \in Nat /\ passed[s][k][Window - 1] \in Nat
        /\ 0 <= Window - 1
    BY LimiterAssumption DEF LimiterInv, LimiterTypeOK, Ages, Counter
  <2> DEFINE B == Budget(counter[s][k], k, 0, Window - 1)
  <2>2. B \in Nat /\ B <= 2 * Limit[k]
    BY <2>1, BudgetBounds
  <2>3. passed[s][k][Window - 1] <= B + Limit[k] * resets[s]
    <3>1. Since(s, k, 0) = 0
      BY DEF Since
    <3>2. passed[s][k][Window - 1] <= Since(s, k, 0) + B + Limit[k] * resets[s]
      BY <2>1 DEF LimiterInv, Accounted
    <3> QED BY <2>1, <2>2, <3>1, <3>2
  <2>4. Limit[k] * (2 + resets[s]) = 2 * Limit[k] + Limit[k] * resets[s]
    BY <2>1
  <2>5. Limit[k] * resets[s] \in Nat
    BY <2>1
  <2> HIDE DEF B
  <2> QED BY <2>1, <2>2, <2>3, <2>4, <2>5
<1> QED BY <1>1, LimiterInvHolds, PTL

(* Whoever waits as long as the 429 of his route says finds every window   *)
(* that refused him over.                                                  *)
THEOREM WaitingSuffices == LimiterSpec => []RetryAfterSuffices
<1>1. LimiterInv => RetryAfterSuffices
  <2> SUFFICES ASSUME LimiterInv, NEW r \in Clients, attempt[r].wait = 0, NEW w \in attempt[r].by
               PROVE  FALSE
    BY DEF RetryAfterSuffices
  <2>1. counter[w[1]][w[2]].left \in 1..attempt[r].wait
    BY DEF LimiterInv, Awaited
  <2> QED BY <2>1
<1> QED BY <1>1, LimiterInvHolds, PTL
===============================================================================
