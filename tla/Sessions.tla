-------------------------------- MODULE Sessions --------------------------------
(***************************************************************************)
(* The sessions of the API: AuthService (apps/api/src/modules/auth), the   *)
(* purge job of the worker, and what an administrator does to an account.  *)
(*                                                                         *)
(* Verification and storing are apart in login and in changePassword: the  *)
(* account is read and an Argon2 hash computed before the transaction that *)
(* writes, which does not look again.  A request is let in on one read of  *)
(* its session and renews last_seen_at by a later statement.               *)
(*                                                                         *)
(* Passwords are versions: version n is the n-th one chosen for the user.  *)
(* A transaction here is one step: those on the same account meet in its   *)
(* row, so that they take effect in the order they reach it.               *)
(***************************************************************************)
EXTENDS Integers

CONSTANTS
  Users,
  SessionIds,
  Logins, Requests, \* sign-ins and requests that may be served at once
  Idle, Absolute,   \* SessionPolicy
  Touch,            \* TOUCH_INTERVAL_MS
  Retention,        \* retentionDays of the purge
  RequestTime,      \* a request is answered, and its touch or login made, within this
  Outdated,         \* users whose hash has other parameters than today's
  Unused, Purged, Never,
  MaxTime, MaxChanges \* bounds: the clock, passwords chosen for a user

ASSUME SessionAssumption ==
  /\ {Idle, Absolute, Touch, Retention, RequestTime, MaxTime, MaxChanges} \subseteq Nat
  /\ Idle > Touch + RequestTime
  /\ Outdated \subseteq Users
  /\ Unused # Purged
  /\ Never \notin Nat

VARIABLES
  clock,
  account, \* users: is_active, the password whose hash is stored, its age
  chosen,  \* history: the last password chosen for the user
  session, \* table sessions
  login,   \* sign-ins past the verification of the password
  request  \* requests past resolveSession

tables == <<account, chosen, session>>
vars == <<clock, tables, login, request>>

Time == 0..MaxTime
Passwords == 0..MaxChanges

(* proof is a history of the password the login verified, kept of the      *)
(* change that spared the session, late of a login whose password was no   *)
(* longer the chosen one when it stored the session; used of its last      *)
(* request.                                                                *)
Row == [owner : Users, expires : Nat, seen : Time, revoked : Time \cup {Never},
        proof : Passwords, kept : BOOLEAN, late : BOOLEAN, used : Time]
Account == [active : BOOLEAN, password : Passwords, outdated : BOOLEAN]
LoginState == [pc : {"idle", "verified"}, user : Users \cup {Never},
               proof : Passwords, rehash : BOOLEAN, at : Time]
RequestPcs == {"idle", "touch", "admitted", "proved"}
RequestState == [pc : RequestPcs, session : SessionIds \cup {Unused},
                 at : Time, proof : Passwords]

ASSUME UnusedIsNoRow == {Unused, Purged} \cap Row = {}

NoLogin == [pc |-> "idle", user |-> Never, proof |-> 0, rehash |-> FALSE, at |-> 0]
NoRequest == [pc |-> "idle", session |-> Unused, at |-> 0, proof |-> 0]

IsRow(s) == session[s] \notin {Unused, Purged}

SessionsTypeOK ==
  /\ clock \in Time
  /\ account \in [Users -> Account]
  /\ chosen \in [Users -> Passwords]
  /\ session \in [SessionIds -> Row \cup {Unused, Purged}]
  /\ login \in [Logins -> LoginState]
  /\ request \in [Requests -> RequestState]
  /\ \A l \in Logins : login[l].pc = "verified" => login[l].user \in Users
  /\ \A r \in Requests : request[r].pc # "idle" => request[r].session \in SessionIds

Init ==
  /\ clock = 0
  /\ account = [u \in Users |->
                  [active |-> TRUE, password |-> 0, outdated |-> u \in Outdated]]
  /\ chosen = [u \in Users |-> 0]
  /\ session = [s \in SessionIds |-> Unused]
  /\ login = [l \in Logins |-> NoLogin]
  /\ request = [r \in Requests |-> NoRequest]

-----------------------------------------------------------------------------
(* Over for good, whatever becomes of the account.                         *)
Over(s) ==
  \/ session[s].revoked # Never
  \/ session[s].expires <= clock
  \/ session[s].seen + Idle <= clock

Usable(s) == IsRow(s) /\ ~Over(s) /\ account[session[s].owner].active

(* revokeUserSessions: every session that is not revoked yet, but one that *)
(* may be spared (the first, wrong on purpose: but those seen lately).     *)
ToRevokeIfIdle(u, spared) ==
  {s \in SessionIds \ spared :
     IsRow(s) /\ session[s].owner = u /\ session[s].revoked = Never
     /\ session[s].seen < clock}
ToRevoke(u, spared) ==
  {s \in SessionIds \ spared :
     IsRow(s) /\ session[s].owner = u /\ session[s].revoked = Never}

RevokedFor(u, spared) ==
  [s \in SessionIds |->
     IF s \in ToRevoke(u, spared) THEN [session[s] EXCEPT !.revoked = clock]
     ELSE IF s \in spared THEN [session[s] EXCEPT !.kept = TRUE] ELSE session[s]]

(* insertSession (the first, wrong on purpose: two columns swapped).       *)
NewSessionSwapped(u, p, now) ==
  [owner |-> u, expires |-> now, seen |-> now + Absolute, revoked |-> Never,
   proof |-> p, kept |-> FALSE, late |-> FALSE, used |-> now]
NewSession(u, p, now) ==
  [owner |-> u, expires |-> now + Absolute, seen |-> now, revoked |-> Never,
   proof |-> p, kept |-> FALSE, late |-> chosen[u] # p, used |-> now]

(* updatePasswordHash with a hash of today's parameters.                   *)
Store(u, p) == [account EXCEPT ![u].password = p, ![u].outdated = FALSE]

(* A password never chosen before.                                         *)
Choose(u) ==
  /\ chosen[u] < MaxChanges
  /\ chosen' = [chosen EXCEPT ![u] = @ + 1]
  /\ account' = Store(u, chosen[u] + 1)

-----------------------------------------------------------------------------
(* login: the account is read and the given password verified against it.  *)
VerifyPassword(l, u, p) ==
  /\ login[l].pc = "idle"
  /\ p = account[u].password /\ account[u].active
  /\ login' = [login EXCEPT ![l] =
       [pc |-> "verified", user |-> u, proof |-> p, rehash |-> account[u].outdated, at |-> clock]]
  /\ UNCHANGED <<clock, tables, request>>

(* login: the transaction, with the time of the verification.  An outdated *)
(* hash is replaced by one of the password that was verified.              *)
StoreSession(l, s) ==
  LET u == login[l].user  p == login[l].proof IN
  /\ login[l].pc = "verified"
  /\ session[s] = Unused
  /\ account' = IF login[l].rehash THEN Store(u, p) ELSE account
  /\ session' = [session EXCEPT ![s] = NewSession(u, p, login[l].at)]
  /\ login' = [login EXCEPT ![l] = NoLogin]
  /\ UNCHANGED <<clock, chosen, request>>

-----------------------------------------------------------------------------
(* resolveSession; a session that is not usable is answered 401 and leaves *)
(* nothing.  (The second, wrong on purpose, touches before it decides, and *)
(* the first seldom touches.)                                              *)
NeedsTouchNearTheEnd(s) == clock - session[s].seen > Idle - 1
NeedsTouch(s) == clock - session[s].seen > Touch

ResolveOverOnes(r, s) ==
  /\ request[r].pc = "idle"
  /\ IsRow(s) /\ session[s].revoked = Never
  /\ request' = [request EXCEPT ![r] =
       [pc |-> "touch", session |-> s, at |-> clock, proof |-> 0]]
  /\ session' = [session EXCEPT ![s].used = clock]
  /\ UNCHANGED <<clock, account, chosen, login>>
Resolve(r, s) ==
  /\ request[r].pc = "idle"
  /\ Usable(s)
  /\ request' = [request EXCEPT ![r] =
       [pc |-> IF NeedsTouch(s) THEN "touch" ELSE "admitted",
        session |-> s, at |-> clock, proof |-> 0]]
  /\ session' = [session EXCEPT ![s].used = clock]
  /\ UNCHANGED <<clock, account, chosen, login>>

(* touchSession, with the time of resolveSession.                          *)
TouchSession(r) ==
  LET s == request[r].session IN
  /\ request[r].pc = "touch"
  /\ session' = IF IsRow(s) /\ session[s].revoked = Never
                THEN [session EXCEPT ![s].seen = request[r].at] ELSE session
  /\ request' = [request EXCEPT ![r].pc = "admitted"]
  /\ UNCHANGED <<clock, account, chosen, login>>

(* Whatever the request was for, it is answered.                           *)
Answer(r) ==
  /\ request[r].pc \in {"admitted", "proved"}
  /\ request' = [request EXCEPT ![r] = NoRequest]
  /\ UNCHANGED <<clock, tables, login>>

Logout(r) ==
  LET s == request[r].session IN
  /\ request[r].pc = "admitted"
  /\ session' = IF IsRow(s) /\ session[s].revoked = Never
                THEN [session EXCEPT ![s].revoked = clock] ELSE session
  /\ request' = [request EXCEPT ![r] = NoRequest]
  /\ UNCHANGED <<clock, account, chosen, login>>

(* changePassword: the current password, verified before the transaction.  *)
VerifyCurrent(r) ==
  LET s == request[r].session IN
  /\ request[r].pc = "admitted"
  /\ IsRow(s)
  /\ request' = [request EXCEPT ![r].pc = "proved",
                                ![r].proof = account[session[s].owner].password]
  /\ UNCHANGED <<clock, tables, login>>

(* changePassword: the transaction, which spares the caller's session.  It *)
(* has the time of the verification, which here is its own: only the purge *)
(* reads when a session was revoked.                                       *)
ChangePassword(r) ==
  LET s == request[r].session  u == session[s].owner IN
  /\ request[r].pc = "proved"
  /\ IsRow(s)
  /\ Choose(u)
  /\ session' = RevokedFor(u, {s})
  /\ request' = [request EXCEPT ![r] = NoRequest]
  /\ UNCHANGED <<clock, login>>

-----------------------------------------------------------------------------
(* UsersService.update and resetPassword, by an administrator.             *)
Deactivate(u) ==
  /\ account[u].active
  /\ account' = [account EXCEPT ![u].active = FALSE]
  /\ session' = RevokedFor(u, {})
  /\ UNCHANGED <<clock, chosen, login, request>>

Activate(u) ==
  /\ ~account[u].active
  /\ account' = [account EXCEPT ![u].active = TRUE]
  /\ UNCHANGED <<clock, chosen, session, login, request>>

ResetPassword(u) ==
  /\ Choose(u)
  /\ session' = RevokedFor(u, {})
  /\ UNCHANGED <<clock, login, request>>

(* purgeStaleSessions *)
Purge ==
  LET cutoff == clock - Retention
      stale  == {s \in SessionIds : IsRow(s) /\ (session[s].expires < cutoff
                   \/ (session[s].revoked # Never /\ session[s].revoked < cutoff))} IN
  /\ stale # {}
  /\ session' = [s \in SessionIds |-> IF s \in stale THEN Purged ELSE session[s]]
  /\ UNCHANGED <<clock, account, chosen, login, request>>

Tick ==
  /\ clock < MaxTime
  /\ \A r \in Requests : request[r].pc # "idle" => clock < request[r].at + RequestTime
  /\ \A l \in Logins : login[l].pc # "idle" => clock < login[l].at + RequestTime
  /\ clock' = clock + 1
  /\ UNCHANGED <<tables, login, request>>

Next ==
  \/ \E l \in Logins, u \in Users, p \in Passwords : VerifyPassword(l, u, p)
  \/ \E l \in Logins, s \in SessionIds : StoreSession(l, s)
  \/ \E r \in Requests, s \in SessionIds : Resolve(r, s)
  \/ \E r \in Requests :
       TouchSession(r) \/ Answer(r) \/ Logout(r) \/ VerifyCurrent(r) \/ ChangePassword(r)
  \/ \E u \in Users : Deactivate(u) \/ Activate(u) \/ ResetPassword(u)
  \/ Purge
  \/ Tick

Spec == Init /\ [][Next]_vars

-----------------------------------------------------------------------------
(* Properties *)

(* "Encerra as demais sessões": once a user's password is changed, reset   *)
(* or overtaken, a session opened with an older one goes on only if it is  *)
(* the one the change was asked from, or its login had verified the older  *)
(* password before and stored it after.                                    *)
OnlyKeptOrLate ==
  \A s \in SessionIds :
    IsRow(s) /\ session[s].revoked = Never =>
      \/ session[s].proof = chosen[session[s].owner]
      \/ session[s].kept
      \/ session[s].late

(* "Atualiza last_seen_at no máximo uma vez por minuto": saving the writes *)
(* costs nobody their session; with no touch in flight, last_seen_at is    *)
(* never further behind the last request than the interval and the life of *)
(* a request, although touches may arrive in another order than requests.  *)
StaysSignedIn ==
  \A s \in SessionIds :
    /\ IsRow(s) /\ session[s].revoked = Never
    /\ \A r \in Requests : request[r].session = s => request[r].pc # "touch"
    => session[s].used - session[s].seen <= Touch + RequestTime

(* A session that is over is never usable again: only a request that came  *)
(* before it had been idle for too long may, touching it late, bring it    *)
(* back.                                                                   *)
EndedForGood ==
  [][\A s \in SessionIds :
       /\ IsRow(s) /\ Over(s)
       /\ \A r \in Requests :
            request[r].session = s /\ request[r].pc = "touch"
            => request[r].at >= session[s].seen + Idle
       => ~Usable(s)']_vars

(* "Troca de senha encerra as demais sessões, mantém a atual e invalida a  *)
(* senha antiga": the hash stored is that of the password last chosen.     *)
OldPasswordInvalidated == \A u \in Users : account[u].password = chosen[u]
=============================================================================
