-------------------------- MODULE UserAdministration --------------------------
(***************************************************************************)
(* The users of one organization and the requests of its administrators:   *)
(* UsersService (apps/api/src/modules/users), with the sign-in of          *)
(* AuthService that gives an administrator the session a request needs.    *)
(*                                                                         *)
(* A request is authenticated first and runs its transaction later.  The   *)
(* transaction of update reads the user unlocked, locks the other active   *)
(* administrators one row after another (SELECT ... FOR UPDATE, each row   *)
(* looked at again once it is locked), updates the user, which locks that  *)
(* row too, and writes the audit row, whose foreign key to the caller      *)
(* waits for a FOR UPDATE lock but for no weaker one.  Locks are held, and *)
(* writes unseen, to the end; PostgreSQL breaks a circle of waiting        *)
(* transactions by aborting one of them.                                   *)
(***************************************************************************)
EXTENDS Naturals, FiniteSets

CONSTANTS
  Users,      \* accounts the table may hold
  Founders,   \* those that exist from the start, all active administrators
  Roles,      \* "ADMIN" and others
  Requests,   \* administrators' requests that may be served at once
  Bodies,     \* what the update requests ask for
  Free, NoUser, Keep,
  MaxSignIns, \* bound: sign-ins in progress at once
  MaxRequests \* bound: administrators' requests admitted

ASSUME UserAssumption ==
  /\ Founders \subseteq Users /\ Founders # {}
  /\ "ADMIN" \in Roles
  /\ Bodies \subseteq [role : Roles \cup {Keep}, active : BOOLEAN \cup {Keep}]
  /\ Free \notin Requests /\ NoUser \notin Users
  /\ {MaxSignIns, MaxRequests} \subseteq Nat

VARIABLES
  user,     \* table users: [exists, role, active]
  sessions, \* users with a session that is not revoked
  entering, \* users whose password was accepted, their session not yet stored
  lock,     \* the transaction that holds a user's row
  tx,       \* program counter and locals of the requests
  admitted  \* the bound

accountVars == <<user, sessions, entering>>
vars == <<accountVars, lock, tx, admitted>>

-----------------------------------------------------------------------------
IsActiveAdmin(u) == user[u].exists /\ user[u].active /\ user[u].role = "ADMIN"

(* An authenticated caller with the permission: resolveSession and the     *)
(* role it reads.                                                          *)
MayAdminister(u) == u \in sessions /\ IsActiveAdmin(u)

UserState == [exists : BOOLEAN, role : Roles, active : BOOLEAN]

TxPcs == {"idle", "admitted", "check", "count", "update", "audit"}
IdleTx == [pc |-> "idle", caller |-> NoUser, target |-> NoUser,
           body |-> [role |-> Keep, active |-> Keep],
           revokes |-> FALSE, todo |-> {}, want |-> NoUser, found |-> 0]
TxState == [pc : TxPcs, caller : Users \cup {NoUser}, target : Users \cup {NoUser},
            body : Bodies \cup {IdleTx.body}, revokes : BOOLEAN,
            todo : SUBSET Users, want : Users \cup {NoUser}, found : Nat]

TypeOK ==
  /\ user \in [Users -> UserState]
  /\ sessions \subseteq Users /\ entering \subseteq Users
  /\ lock \in [Users -> Requests \cup {Free}]
  /\ tx \in [Requests -> TxState]
  /\ \A u \in Users : lock[u] # Free => tx[lock[u]].pc \in {"count", "update", "audit"}
  /\ admitted \in 0..MaxRequests

Init ==
  /\ user = [u \in Users |-> [exists |-> u \in Founders, role |-> "ADMIN", active |-> TRUE]]
  /\ sessions = {} /\ entering = {}
  /\ lock = [u \in Users |-> Free]
  /\ tx = [r \in Requests |-> IdleTx]
  /\ admitted = 0

-----------------------------------------------------------------------------
(* Row locks *)

MayLock(r, u) == lock[u] \in {Free, r}

(* A foreign key to row u (FOR KEY SHARE) waits only for another's FOR     *)
(* UPDATE: of the rows a transaction holds, those it did not itself update.*)
MayRefer(r, u) == lock[u] \in {Free, r} \cup {q \in Requests : tx[q].target = u}

(* ROLLBACK or COMMIT: the locks go (the first, wrong on purpose: they do  *)
(* not).                                                                   *)
EndKeepingLocks(r) == tx' = [tx EXCEPT ![r] = IdleTx] /\ UNCHANGED lock
End(r) ==
  /\ tx' = [tx EXCEPT ![r] = IdleTx]
  /\ lock' = [u \in Users |-> IF lock[u] = r THEN Free ELSE lock[u]]

-----------------------------------------------------------------------------
(* Signing in and out *)

(* AuthService.login reads the account and verifies the password; storing  *)
(* the session and the row's last_login_at is a later transaction, which   *)
(* does not look at the account again.                                     *)
AcceptPassword(u) ==
  /\ user[u].exists /\ user[u].active
  /\ u \notin sessions
  /\ Cardinality(entering) < MaxSignIns
  /\ entering' = entering \cup {u}
  /\ UNCHANGED <<user, sessions, lock, tx, admitted>>

StoreSession(u) ==
  /\ u \in entering
  /\ lock[u] = Free
  /\ entering' = entering \ {u}
  /\ sessions' = sessions \cup {u}
  /\ UNCHANGED <<user, lock, tx, admitted>>

Logout(u) ==
  /\ u \in sessions
  /\ MayRefer(Free, u)
  /\ sessions' = sessions \ {u}
  /\ UNCHANGED <<user, entering, lock, tx, admitted>>

-----------------------------------------------------------------------------
(* A request of an administrator: authenticate and authorize, before any   *)
(* transaction.                                                            *)
Admit(r, caller) ==
  /\ tx[r].pc = "idle"
  /\ admitted < MaxRequests
  /\ MayAdminister(caller)
  /\ admitted' = admitted + 1
  /\ tx' = [tx EXCEPT ![r] = [IdleTx EXCEPT !.pc = "admitted", !.caller = caller]]
  /\ UNCHANGED <<accountVars, lock>>

(* UsersService.create; the e-mail of an existing user is refused by       *)
(* users_email_uidx.                                                       *)
CreateUser(r, u, role) ==
  /\ tx[r].pc = "admitted"
  /\ MayRefer(r, tx[r].caller)
  /\ user' = IF user[u].exists THEN user
             ELSE [user EXCEPT ![u] = [exists |-> TRUE, role |-> role, active |-> TRUE]]
  /\ End(r)
  /\ UNCHANGED <<sessions, entering, admitted>>

RevokeSessions(r, u) ==
  /\ tx[r].pc = "admitted"
  /\ user[u].exists
  /\ MayRefer(r, tx[r].caller)
  /\ sessions' = sessions \ {u}
  /\ End(r)
  /\ UNCHANGED <<user, entering, admitted>>

(* resetPassword updates the row (the hash, which nothing here reads)      *)
(* without reading it first.                                               *)
ResetPassword(r, u) ==
  /\ tx[r].pc = "admitted"
  /\ user[u].exists
  /\ tx' = [tx EXCEPT ![r] =
       [@ EXCEPT !.pc = "update", !.target = u, !.revokes = TRUE, !.want = u]]
  /\ UNCHANGED <<accountVars, lock, admitted>>

-----------------------------------------------------------------------------
(* UsersService.update *)

(* findUser, and what the handler concludes from that unlocked read.       *)
Begin(r, u, body) ==
  LET changes == \/ body.role \notin {Keep, user[u].role}
                 \/ body.active = FALSE /\ user[u].active
      removesAdmin == IsActiveAdmin(u) /\ changes IN
  /\ tx[r].pc = "admitted"
  /\ user[u].exists
  /\ \/ /\ tx[r].caller = u /\ changes \* one's own role or account: refused
        /\ End(r)
     \/ /\ ~(tx[r].caller = u /\ changes)
        /\ tx' = [tx EXCEPT ![r] =
             [@ EXCEPT !.pc = IF removesAdmin THEN "check" ELSE "update",
                       !.target = u, !.body = body, !.revokes = changes,
                       !.want = IF removesAdmin THEN NoUser ELSE u]]
        /\ UNCHANGED lock
  /\ UNCHANGED <<accountVars, admitted>>

(* countOtherActiveAdmins: the rows its statement sees when it starts; with*)
(* none, LAST_ADMIN.                                                       *)
StartCount(r) ==
  LET others == {u \in Users \ {tx[r].target} : IsActiveAdmin(u)} IN
  /\ tx[r].pc = "check"
  /\ \/ others = {} /\ End(r)
     \/ \E u \in others :
          /\ tx' = [tx EXCEPT ![r].pc = "count", ![r].todo = others, ![r].want = u]
          /\ UNCHANGED lock
  /\ UNCHANGED <<accountVars, admitted>>

(* A locked row is looked at again (the first, wrong on purpose: counted as*)
(* the statement first saw it).                                            *)
CountedAsSeen(u) == IF u \in Users THEN 1 ELSE 0
Counted(u) == IF IsActiveAdmin(u) THEN 1 ELSE 0

(* The next of those rows is locked, and counted if it is still an active  *)
(* administrator.                                                          *)
LockAdmin(r) ==
  LET u    == tx[r].want
      rest == tx[r].todo \ {u}
      n    == tx[r].found + Counted(u) IN
  /\ tx[r].pc = "count"
  /\ MayLock(r, u)
  /\ \/ /\ rest = {} /\ n = 0
        /\ End(r)
     \/ /\ rest = {} /\ n > 0
        /\ tx' = [tx EXCEPT ![r].pc = "update", ![r].todo = {}, ![r].found = n,
                            ![r].want = tx[r].target]
        /\ lock' = [lock EXCEPT ![u] = r]
     \/ \E v \in rest :
          /\ tx' = [tx EXCEPT ![r].todo = rest, ![r].found = n, ![r].want = v]
          /\ lock' = [lock EXCEPT ![u] = r]
  /\ UNCHANGED <<accountVars, admitted>>

(* updateUser, by id and whatever the row has become.                      *)
Update(r) ==
  LET u == tx[r].target IN
  /\ tx[r].pc = "update"
  /\ MayLock(r, u)
  /\ tx' = [tx EXCEPT ![r].pc = "audit", ![r].want = tx[r].caller]
  /\ lock' = [lock EXCEPT ![u] = r]
  /\ UNCHANGED <<accountVars, admitted>>

(* revokeUserSessions, the audit row and COMMIT, when others see all of it.*)
Commit(r) ==
  LET u == tx[r].target
      Set(field, value) == IF value = Keep THEN field ELSE value IN
  /\ tx[r].pc = "audit"
  /\ MayRefer(r, tx[r].caller)
  /\ user' = [user EXCEPT ![u].role = Set(@, tx[r].body.role),
                          ![u].active = Set(@, tx[r].body.active)]
  /\ sessions' = IF tx[r].revokes THEN sessions \ {u} ELSE sessions
  /\ End(r)
  /\ UNCHANGED <<entering, admitted>>

Blocked(r) ==
  \/ tx[r].pc \in {"count", "update"} /\ ~MayLock(r, tx[r].want)
  \/ tx[r].pc = "audit" /\ ~MayRefer(r, tx[r].want)
InCircle(r) ==
  \E waiting \in SUBSET {q \in Requests : Blocked(q)} :
    r \in waiting /\ {lock[tx[q].want] : q \in waiting} = waiting

DeadlockAbort(r) ==
  /\ InCircle(r)
  /\ End(r)
  /\ UNCHANGED <<accountVars, admitted>>

-----------------------------------------------------------------------------
Serve(r) ==
  \/ \E u \in Users, role \in Roles : CreateUser(r, u, role)
  \/ \E u \in Users : RevokeSessions(r, u) \/ ResetPassword(r, u)
  \/ \E u \in Users, body \in Bodies : Begin(r, u, body)
  \/ StartCount(r) \/ LockAdmin(r) \/ Update(r) \/ Commit(r)
  \/ DeadlockAbort(r)

Next ==
  \/ \E u \in Users : AcceptPassword(u) \/ StoreSession(u) \/ Logout(u)
  \/ \E r \in Requests, caller \in Users : Admit(r, caller)
  \/ \E r \in Requests : Serve(r)

(* The API and PostgreSQL carry on with what has begun.                    *)
Spec == Init /\ [][Next]_vars /\ \A r \in Requests : WF_vars(Serve(r))

-----------------------------------------------------------------------------
(* Properties *)

(* "Nunca deixa a organização sem administrador ativo": the last active    *)
(* administrator is neither demoted nor deactivated, whoever removes whom  *)
(* at the same time.                                                       *)
AlwaysAnAdmin == \E u \in Users : IsActiveAdmin(u)

(* "Sejam serializados (o segundo recontará e falhará)": administrators    *)
(* who remove each other wait for one another and count again; none of     *)
(* their requests is aborted in a deadlock.                                *)
SecondRecounts == [][\A r \in Requests : ~DeadlockAbort(r)]_vars

(* No request waits for a lock for ever: not for an administrator's row,   *)
(* not for the audit row's reference to its caller.                        *)
EveryRequestEnds == \A r \in Requests : tx[r].pc # "idle" ~> tx[r].pc = "idle"
=============================================================================
