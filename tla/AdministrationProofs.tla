------------------------- MODULE AdministrationProofs --------------------------
(***************************************************************************)
(* Proofs about what administrators do: UserAdministration, for every set  *)
(* of users, founders, roles and requests, and Registry, for every set of  *)
(* devices, sectors, keys, windows and gateways, whatever the bounds.      *)
(***************************************************************************)
EXTENDS UserAdministration, Registry, TLAPS

-----------------------------------------------------------------------------
(***************************************************************************)
(* UserAdministration: the types, that an update which counts leaves an    *)
(* administrator, and that requests which only take away never remove the  *)
(* last one.                                                               *)
(***************************************************************************)

(* Bodies that only take away: no promotion and no reactivation, so that   *)
(* an account that exists never becomes an active administrator.  (With    *)
(* the others AlwaysAnAdmin is false: the decision to count rests on an    *)
(* unlocked read.)                                                         *)
RemovalsOnly ==
  \A body \in Bodies :
    body.role \in {Keep} \cup (Roles \ {"ADMIN"}) /\ body.active \in {Keep, FALSE}

(* What a body takes from an active administrator.                         *)
Removes(body) == body.role \notin {Keep, "ADMIN"} \/ body.active \notin {Keep, TRUE}

Removing(r) ==
  tx[r].pc \in {"update", "audit"} /\ Removes(tx[r].body) /\ IsActiveAdmin(tx[r].target)

(* The transaction holds the row of an active administrator other than the *)
(* one it is about to change: nobody else can take that one away.          *)
HoldsAnother(r) ==
  \E w \in Users : w # tx[r].target /\ lock[w] = r /\ IsActiveAdmin(w)

(* What the place a request has reached says of it.                        *)
Progress(r) ==
  /\ tx[r].pc = "admitted" => tx[r].body = IdleTx.body
  /\ tx[r].pc \in {"admitted", "check"} => tx[r].found = 0
  /\ tx[r].pc \in {"check", "count", "update", "audit"} =>
       tx[r].target \in Users /\ user[tx[r].target].exists
  /\ tx[r].pc = "count" => tx[r].want \in tx[r].todo /\ tx[r].target \notin tx[r].todo
  /\ tx[r].pc = "audit" => lock[tx[r].target] = r
  /\ tx[r].pc \in {"count", "update", "audit"} /\ tx[r].found > 0 => HoldsAnother(r)

(* The right of an active administrator is taken only after a count: what  *)
(* RemovalsOnly is for.                                                    *)
Decided(r) == Removing(r) => tx[r].found > 0
Safe == RemovalsOnly => AlwaysAnAdmin /\ \A r \in Requests : Decided(r)

AdminInv == TypeOK /\ Safe /\ \A r \in Requests : Progress(r)

-----------------------------------------------------------------------------
(* Types *)

LEMMA IdleTyped ==
  /\ IdleTx \in TxState
  /\ IdleTx.pc = "idle" /\ IdleTx.found = 0
  /\ IdleTx.body = [role |-> Keep, active |-> Keep]
  BY DEF IdleTx, TxState, TxPcs

LEMMA StateTyped ==
  ASSUME TypeOK, NEW r \in Requests
  PROVE  /\ tx \in [Requests -> TxState] /\ lock \in [Users -> Requests \cup {Free}]
         /\ user \in [Users -> UserState]
         /\ tx[r].pc \in TxPcs /\ tx[r].found \in Nat /\ tx[r].todo \subseteq Users
         /\ tx[r].target \in Users \cup {NoUser} /\ tx[r].caller \in Users \cup {NoUser}
         /\ tx[r].body \in Bodies \cup {IdleTx.body}
  BY DEF TypeOK, TxState

(* What a request is given a row with: the rest of the table of locks keeps*)
(* its owners and they their places.                                       *)
LEMMA StepTyped ==
  ASSUME TypeOK, NEW r \in Requests, NEW t \in TxState,
         tx' = [tx EXCEPT ![r] = t],
         \/ UNCHANGED lock /\ (tx[r].pc \notin {"count", "update", "audit"}
                               \/ t.pc \in {"count", "update", "audit"})
         \/ \E u \in Users : lock' = [lock EXCEPT ![u] = r]
                             /\ t.pc \in {"count", "update", "audit"}
  PROVE  /\ tx' \in [Requests -> TxState]
         /\ lock' \in [Users -> Requests \cup {Free}]
         /\ \A u \in Users : lock'[u] # Free => tx'[lock'[u]].pc \in {"count", "update", "audit"}
<1>1. tx' \in [Requests -> TxState]
  BY DEF TypeOK
<1>2. tx'[r] = t /\ \A q \in Requests \ {r} : tx'[q] = tx[q]
  BY DEF TypeOK
<1>3. lock' \in [Users -> Requests \cup {Free}]
  BY DEF TypeOK
<1>4. ASSUME NEW u \in Users, lock'[u] # Free
      PROVE  tx'[lock'[u]].pc \in {"count", "update", "audit"}
  <2>1. CASE UNCHANGED lock
    <3>1. lock[u] \in Requests /\ tx[lock[u]].pc \in {"count", "update", "audit"}
      BY <1>4, <2>1 DEF TypeOK
    <3>2. CASE lock[u] = r /\ t.pc \in {"count", "update", "audit"}
      BY <1>2, <2>1, <3>2
    <3>3. CASE lock[u] # r
      BY <1>2, <2>1, <3>1, <3>3
    <3> QED BY <3>1, <3>2, <3>3, <2>1, UserAssumption
  <2>2. CASE \E v \in Users : lock' = [lock EXCEPT ![v] = r]
                             /\ t.pc \in {"count", "update", "audit"}
    <3>1. PICK v \in Users : lock' = [lock EXCEPT ![v] = r]
                            /\ t.pc \in {"count", "update", "audit"}
      BY <2>2
    <3>2. lock'[u] = r \/ (lock'[u] = lock[u] /\ lock[u] # r)
      BY <3>1 DEF TypeOK
    <3>3. CASE lock'[u] = r
      BY <1>2, <3>1, <3>3
    <3>4. CASE lock'[u] = lock[u] /\ lock[u] # r
      <4>1. lock[u] \in Requests /\ tx[lock[u]].pc \in {"count", "update", "audit"}
        BY <1>4, <3>4 DEF TypeOK
      <4> QED BY <1>2, <3>4, <4>1
    <3> QED BY <3>2, <3>3, <3>4
  <2> QED BY <2>1, <2>2
<1> QED BY <1>1, <1>3, <1>4

LEMMA EndTyped ==
  ASSUME TypeOK, NEW r \in Requests, End(r)
  PROVE  /\ tx' \in [Requests -> TxState]
         /\ lock' \in [Users -> Requests \cup {Free}]
         /\ tx'[r] = IdleTx /\ \A q \in Requests \ {r} : tx'[q] = tx[q]
         /\ \A u \in Users : lock'[u] = IF lock[u] = r THEN Free ELSE lock[u]
         /\ \A u \in Users : lock'[u] # Free => tx'[lock'[u]].pc \in {"count", "update", "audit"}
<1>1. /\ tx' \in [Requests -> TxState]
      /\ tx'[r] = IdleTx /\ \A q \in Requests \ {r} : tx'[q] = tx[q]
  BY IdleTyped DEF TypeOK, End
<1>2. /\ lock' \in [Users -> Requests \cup {Free}]
      /\ \A u \in Users : lock'[u] = IF lock[u] = r THEN Free ELSE lock[u]
  BY DEF TypeOK, End
<1>3. ASSUME NEW u \in Users, lock'[u] # Free
      PROVE  tx'[lock'[u]].pc \in {"count", "update", "audit"}
  <2>1. lock'[u] = lock[u] /\ lock[u] \in Requests \ {r}
    BY <1>2, <1>3 DEF TypeOK
  <2>2. tx[lock[u]].pc \in {"count", "update", "audit"}
    BY <1>3, <2>1 DEF TypeOK
  <2> QED BY <1>1, <2>1, <2>2
<1> QED BY <1>1, <1>2, <1>3

LEMMA InitTypeOK == Init => TypeOK
<1>1. \A u \in Users : [exists |-> u \in Founders, role |-> "ADMIN", active |-> TRUE] \in UserState
  BY UserAssumption DEF UserState
<1> QED BY <1>1, IdleTyped, UserAssumption DEF Init, TypeOK

(* The places and locals a request goes on with.                           *)
LEMMA ChangesTyped ==
  ASSUME NEW t \in TxState
  PROVE  /\ \A pc \in TxPcs, u \in Users, body \in Bodies, revokes \in BOOLEAN,
              want \in Users \cup {NoUser} :
              [t EXCEPT !.pc = pc, !.target = u, !.body = body, !.revokes = revokes,
                        !.want = want] \in TxState
         /\ \A u \in Users :
              [t EXCEPT !.pc = "update", !.target = u, !.revokes = TRUE, !.want = u] \in TxState
         /\ \A u \in Users, todo \in SUBSET Users :
              [t EXCEPT !.pc = "count", !.todo = todo, !.want = u] \in TxState
         /\ \A want \in Users \cup {NoUser} :
              /\ [t EXCEPT !.pc = "audit", !.want = want] \in TxState
              /\ [t EXCEPT !.pc = "audit", !.want = want].pc = "audit"
<1>1. ASSUME NEW pc \in TxPcs, NEW u \in Users, NEW body \in Bodies, NEW revokes \in BOOLEAN,
             NEW want \in Users \cup {NoUser}
      PROVE  [t EXCEPT !.pc = pc, !.target = u, !.body = body, !.revokes = revokes,
                       !.want = want] \in TxState
  BY Zenon DEF TxState
<1>2. ASSUME NEW u \in Users
      PROVE  [t EXCEPT !.pc = "update", !.target = u, !.revokes = TRUE, !.want = u] \in TxState
  BY Zenon DEF TxState, TxPcs
<1>3. ASSUME NEW u \in Users, NEW todo \in SUBSET Users
      PROVE  [t EXCEPT !.pc = "count", !.todo = todo, !.want = u] \in TxState
  BY Zenon DEF TxState, TxPcs
<1>4. ASSUME NEW want \in Users \cup {NoUser}
      PROVE  /\ [t EXCEPT !.pc = "audit", !.want = want] \in TxState
             /\ [t EXCEPT !.pc = "audit", !.want = want].pc = "audit"
  BY Zenon DEF TxState, TxPcs
<1> QED BY <1>1, <1>2, <1>3, <1>4

(* The row a committed update leaves.                                      *)
LEMMA CommitUser ==
  ASSUME TypeOK, NEW r \in Requests, Commit(r)
  PROVE  LET t == tx[r].target  body == tx[r].body IN
         /\ user' \in [Users -> UserState]
         /\ \A u \in Users \ {t} : user'[u] = user[u]
         /\ t \in Users =>
              /\ user'[t].exists = user[t].exists
              /\ user'[t].role = IF body.role = Keep THEN user[t].role ELSE body.role
              /\ user'[t].active = IF body.active = Keep THEN user[t].active ELSE body.active
<1> DEFINE t == tx[r].target
           body == tx[r].body
           role == IF body.role = Keep THEN user[t].role ELSE body.role
           active == IF body.active = Keep THEN user[t].active ELSE body.active
<1>1. user' = [user EXCEPT ![t] = [user[t] EXCEPT !.role = role, !.active = active]]
  <2>1. CASE t \in Users
    <3>1. user[t] \in UserState
      BY <2>1 DEF TypeOK
    <3>2. [user[t] EXCEPT !.role = role].active = user[t].active
      BY <3>1, Zenon DEF UserState
    <3> QED BY <2>1, <3>1, <3>2 DEF Commit, TypeOK, UserState
  <2>2. CASE t \notin Users
    BY <2>2 DEF Commit, TypeOK
  <2> QED BY <2>1, <2>2
<1>2. ASSUME t \in Users
      PROVE  /\ user[t] \in UserState
             /\ role \in Roles /\ active \in BOOLEAN
  <2>1. user[t] \in UserState
    BY <1>2 DEF TypeOK
  <2>2. user[t].role \in Roles /\ user[t].active \in BOOLEAN
    BY <2>1 DEF UserState
  <2>3. body \in Bodies \/ body = [role |-> Keep, active |-> Keep]
    BY StateTyped, IdleTyped
  <2>4. body.role \in Roles \cup {Keep} /\ body.active \in BOOLEAN \cup {Keep}
    BY <2>3, UserAssumption
  <2> QED BY <2>1, <2>2, <2>4
<1> HIDE DEF role, active
<1>3. ASSUME t \in Users
      PROVE  /\ [user[t] EXCEPT !.role = role, !.active = active] \in UserState
             /\ [user[t] EXCEPT !.role = role, !.active = active].exists = user[t].exists
             /\ [user[t] EXCEPT !.role = role, !.active = active].role = role
             /\ [user[t] EXCEPT !.role = role, !.active = active].active = active
  <2>1. user[t] \in UserState /\ role \in Roles /\ active \in BOOLEAN
    BY <1>2, <1>3
  <2> QED BY <2>1, Zenon DEF UserState
<1>4. /\ user' \in [Users -> UserState]
      /\ \A u \in Users \ {t} : user'[u] = user[u]
      /\ t \in Users => user'[t] = [user[t] EXCEPT !.role = role, !.active = active]
  BY <1>1, <1>3 DEF TypeOK
<1> QED BY <1>3, <1>4 DEF role, active

LEMMA NextTypeOK == TypeOK /\ [Next]_vars => TypeOK'
<1> SUFFICES ASSUME TypeOK, [Next]_vars
             PROVE  TypeOK'
  OBVIOUS
<1>1. ASSUME NEW u \in Users, AcceptPassword(u) \/ StoreSession(u) \/ Logout(u)
      PROVE  TypeOK'
  BY <1>1 DEF TypeOK, AcceptPassword, StoreSession, Logout
<1>2. ASSUME NEW r \in Requests, NEW caller \in Users, Admit(r, caller)
      PROVE  TypeOK'
  <2>1. [IdleTx EXCEPT !.pc = "admitted", !.caller = caller] \in TxState
    BY DEF IdleTx, TxState, TxPcs
  <2>2. tx[r].pc = "idle" /\ admitted < MaxRequests /\ admitted' = admitted + 1
    BY <1>2 DEF Admit
  <2>3. UNCHANGED <<accountVars, lock>>
        /\ tx' = [tx EXCEPT ![r] = [IdleTx EXCEPT !.pc = "admitted", !.caller = caller]]
    BY <1>2 DEF Admit
  <2>4. admitted' \in 0..MaxRequests
    BY <2>2, UserAssumption DEF TypeOK
  <2> QED BY <2>1, <2>2, <2>3, <2>4, StepTyped DEF TypeOK, accountVars
<1>3. ASSUME NEW r \in Requests, NEW u \in Users, NEW role \in Roles, CreateUser(r, u, role)
      PROVE  TypeOK'
  <2>1. user' \in [Users -> UserState]
    BY <1>3 DEF TypeOK, CreateUser, UserState
  <2> QED BY <1>3, <2>1, EndTyped DEF TypeOK, CreateUser
<1>4. ASSUME NEW r \in Requests, NEW u \in Users, RevokeSessions(r, u)
      PROVE  TypeOK'
  BY <1>4, EndTyped DEF TypeOK, RevokeSessions
<1>5. ASSUME NEW r \in Requests, NEW u \in Users, ResetPassword(r, u)
      PROVE  TypeOK'
  <2>1. [tx[r] EXCEPT !.pc = "update", !.target = u, !.revokes = TRUE, !.want = u] \in TxState
    BY ChangesTyped DEF TypeOK
  <2>2. /\ tx' = [tx EXCEPT ![r] =
                  [tx[r] EXCEPT !.pc = "update", !.target = u, !.revokes = TRUE, !.want = u]]
        /\ tx[r].pc = "admitted" /\ UNCHANGED <<accountVars, lock, admitted>>
    BY <1>5 DEF ResetPassword, TypeOK
  <2> QED BY <2>1, <2>2, StepTyped DEF TypeOK, accountVars
<1>6. ASSUME NEW r \in Requests, NEW u \in Users, NEW body \in Bodies, Begin(r, u, body)
      PROVE  TypeOK'
  <2>1. UNCHANGED <<accountVars, admitted>> /\ tx[r].pc = "admitted"
    BY <1>6 DEF Begin
  <2>2. CASE End(r)
    BY <2>1, <2>2, EndTyped DEF TypeOK, accountVars
  <2>3. CASE ~End(r)
    <3>1. PICK pc \in {"check", "update"}, revokes \in BOOLEAN, want \in {NoUser, u} :
            tx' = [tx EXCEPT ![r] = [tx[r] EXCEPT !.pc = pc, !.target = u, !.body = body,
                                                  !.revokes = revokes, !.want = want]]
      BY <1>6, <2>3 DEF Begin, TypeOK
    <3>2. [tx[r] EXCEPT !.pc = pc, !.target = u, !.body = body,
                        !.revokes = revokes, !.want = want] \in TxState
      <4>1. pc \in TxPcs /\ want \in Users \cup {NoUser} /\ tx[r] \in TxState
        BY DEF TypeOK, TxPcs
      <4> QED BY <4>1, ChangesTyped
    <3>3. UNCHANGED lock
      BY <1>6, <2>3 DEF Begin
    <3> QED BY <2>1, <3>1, <3>2, <3>3, StepTyped DEF TypeOK, accountVars
  <2> QED BY <2>2, <2>3
<1>7. ASSUME NEW r \in Requests, StartCount(r)
      PROVE  TypeOK'
  <2>1. UNCHANGED <<accountVars, admitted>> /\ tx[r].pc = "check"
    BY <1>7 DEF StartCount
  <2>2. CASE End(r)
    BY <2>1, <2>2, EndTyped DEF TypeOK, accountVars
  <2>3. CASE ~End(r)
    <3> DEFINE others == {u \in Users \ {tx[r].target} : IsActiveAdmin(u)}
    <3>1. PICK u \in others :
            tx' = [tx EXCEPT ![r].pc = "count", ![r].todo = others, ![r].want = u]
      BY <1>7, <2>3 DEF StartCount
    <3> HIDE DEF others
    <3>2. u \in Users /\ others \in SUBSET Users /\ tx[r] \in TxState
      BY DEF TypeOK, others
    <3>3. tx' = [tx EXCEPT ![r] = [tx[r] EXCEPT !.pc = "count", !.todo = others, !.want = u]]
      BY <3>1 DEF TypeOK
    <3>4. [tx[r] EXCEPT !.pc = "count", !.todo = others, !.want = u] \in TxState
      BY <3>2, ChangesTyped
    <3>5. UNCHANGED lock
      BY <1>7, <2>3 DEF StartCount
    <3> QED BY <2>1, <3>3, <3>4, <3>5, StepTyped DEF TypeOK, accountVars
  <2> QED BY <2>2, <2>3
<1>8. ASSUME NEW r \in Requests, LockAdmin(r)
      PROVE  TypeOK'
  <2>1. UNCHANGED <<accountVars, admitted>> /\ tx[r].pc = "count"
    BY <1>8 DEF LockAdmin
  <2>2. CASE End(r)
    BY <2>1, <2>2, EndTyped DEF TypeOK, accountVars
  <2>3. CASE ~End(r)
    <3>1. PICK pc \in {"count", "update"}, todo \in SUBSET Users, n \in Nat,
               want \in Users \cup {NoUser} :
            tx' = [tx EXCEPT ![r] = [tx[r] EXCEPT !.pc = pc, !.todo = todo, !.found = n,
                                                  !.want = want]]
      <4>1. tx[r].found + Counted(tx[r].want) \in Nat
        BY StateTyped DEF Counted
      <4>2. tx[r].todo \ {tx[r].want} \in SUBSET Users /\ {} \in SUBSET Users
        BY StateTyped
      <4>3. tx \in [Requests -> TxState]
            /\ tx[r].target \in Users \cup {NoUser}
        BY StateTyped
      <4>4. CASE tx' = [tx EXCEPT ![r].pc = "update", ![r].todo = {},
                                  ![r].found = tx[r].found + Counted(tx[r].want),
                                  ![r].want = tx[r].target]
        <5>1. tx' = [tx EXCEPT ![r] = [tx[r] EXCEPT !.pc = "update", !.todo = {},
                                  !.found = tx[r].found + Counted(tx[r].want),
                                  !.want = tx[r].target]]
          BY <4>3, <4>4
        <5> QED BY <4>1, <4>2, <4>3, <5>1
      <4>5. CASE \E v \in tx[r].todo \ {tx[r].want} :
                   tx' = [tx EXCEPT ![r].todo = tx[r].todo \ {tx[r].want},
                                    ![r].found = tx[r].found + Counted(tx[r].want),
                                    ![r].want = v]
        <5>1. PICK v \in tx[r].todo \ {tx[r].want} :
                   tx' = [tx EXCEPT ![r].todo = tx[r].todo \ {tx[r].want},
                                    ![r].found = tx[r].found + Counted(tx[r].want),
                                    ![r].want = v]
          BY <4>5
        <5>2. tx' = [tx EXCEPT ![r] = [tx[r] EXCEPT !.pc = "count",
                                    !.todo = tx[r].todo \ {tx[r].want},
                                    !.found = tx[r].found + Counted(tx[r].want),
                                    !.want = v]]
          BY <2>1, <4>3, <5>1 DEF TxState
        <5>3. v \in Users \cup {NoUser}
          BY <4>2, <5>1
        <5> QED BY <4>1, <4>2, <5>2, <5>3
      <4> QED BY <1>8, <2>3, <4>4, <4>5 DEF LockAdmin
    <3>2. /\ [tx[r] EXCEPT !.pc = pc, !.todo = todo, !.found = n, !.want = want] \in TxState
          /\ [tx[r] EXCEPT !.pc = pc, !.todo = todo, !.found = n, !.want = want].pc
               \in {"count", "update", "audit"}
      <4>1. pc \in TxPcs /\ tx[r] \in TxState
        BY DEF TypeOK, TxPcs
      <4> DEFINE t == [tx[r] EXCEPT !.pc = pc, !.todo = todo, !.found = n, !.want = want]
      <4>2. t \in TxState /\ t.pc = pc
        BY <4>1, Zenon DEF TxState
      <4> QED BY <4>2
    <3>4. UNCHANGED lock \/ \E u \in Users : lock' = [lock EXCEPT ![u] = r]
      BY <1>8, <2>3 DEF LockAdmin, TypeOK
    <3> QED BY <2>1, <3>1, <3>2, <3>4, StepTyped DEF TypeOK, accountVars
  <2> QED BY <2>2, <2>3
<1>9. ASSUME NEW r \in Requests, Update(r)
      PROVE  TypeOK'
  <2>1. /\ tx' = [tx EXCEPT ![r] = [tx[r] EXCEPT !.pc = "audit", !.want = tx[r].caller]]
        /\ lock' = [lock EXCEPT ![tx[r].target] = r]
        /\ tx[r].pc = "update" /\ UNCHANGED <<accountVars, admitted>>
    BY <1>9 DEF Update, TypeOK
  <2>2. /\ [tx[r] EXCEPT !.pc = "audit", !.want = tx[r].caller] \in TxState
        /\ [tx[r] EXCEPT !.pc = "audit", !.want = tx[r].caller].pc = "audit"
    <3>1. tx[r] \in TxState /\ tx[r].caller \in Users \cup {NoUser}
      BY StateTyped DEF TypeOK
    <3> QED BY <3>1, ChangesTyped, Zenon
  <2>4. lock' = lock \/ \E u \in Users : lock' = [lock EXCEPT ![u] = r]
    BY <2>1 DEF TypeOK
  <2> QED BY <2>1, <2>2, <2>4, StepTyped DEF TypeOK, accountVars
<1>10. ASSUME NEW r \in Requests, Commit(r)
       PROVE  TypeOK'
  BY <1>10, CommitUser, EndTyped DEF TypeOK, Commit
<1>11. ASSUME NEW r \in Requests, DeadlockAbort(r)
       PROVE  TypeOK'
  BY <1>11, EndTyped DEF TypeOK, DeadlockAbort, accountVars
<1>12. CASE UNCHANGED vars
  BY <1>12 DEF TypeOK, vars, accountVars
<1> QED
  BY <1>1, <1>2, <1>3, <1>4, <1>5, <1>6, <1>7, <1>8, <1>9, <1>10, <1>11, <1>12 DEF Next, Serve

(* Every variable keeps its type, and a lock belongs to a transaction that *)
(* has come as far as taking one.                                          *)
THEOREM UsersTypes == Spec => []TypeOK
  BY InitTypeOK, NextTypeOK, PTL DEF Spec

-----------------------------------------------------------------------------
(* The last administrator *)

LEMMA InitAdminInv == Init => AdminInv
<1> SUFFICES ASSUME Init
             PROVE  AdminInv
  OBVIOUS
<1>1. TypeOK
  BY InitTypeOK
<1>2. AlwaysAnAdmin
  BY UserAssumption DEF Init, AlwaysAnAdmin, IsActiveAdmin
<1>3. \A r \in Requests : tx[r].pc = "idle"
  BY IdleTyped DEF Init
<1>4. \A r \in Requests : Progress(r) /\ Decided(r)
  BY <1>3 DEF Progress, Decided, Removing
<1> QED BY <1>1, <1>2, <1>4 DEF AdminInv, Safe

(* A step of others leaves a request where it is, if it takes none of its  *)
(* locks and nobody it holds, and makes nobody it is about to change an    *)
(* administrator.                                                          *)
LEMMA OthersProgress ==
  ASSUME NEW q \in Requests, Progress(q), tx'[q] = tx[q],
         \A u \in Users : lock[u] = q => lock'[u] = q,
         \A u \in Users : user[u].exists => user'[u].exists,
         \A u \in Users : lock[u] = q /\ u # tx[q].target /\ IsActiveAdmin(u) => IsActiveAdmin(u)'
  PROVE  Progress(q)'
<1>1. HoldsAnother(q) => HoldsAnother(q)'
  BY DEF HoldsAnother
<1> QED BY <1>1 DEF Progress

LEMMA OthersDecided ==
  ASSUME NEW q \in Requests, Progress(q), Decided(q), tx'[q] = tx[q],
         \A u \in Users : user[u].exists => (IsActiveAdmin(u)' => IsActiveAdmin(u))
  PROVE  Decided(q)'
<1>1. Removing(q)' => Removing(q)
  BY DEF Removing, Progress, Removes
<1> QED BY <1>1 DEF Decided

(* In particular a step that touches no account, and only one request.     *)
LEMMA SameUsersProgress ==
  ASSUME AdminInv, NEW r \in Requests, UNCHANGED user,
         \A q \in Requests \ {r} :
           tx'[q] = tx[q] /\ \A u \in Users : lock[u] = q => lock'[u] = q,
         Progress(r)', RemovalsOnly => Decided(r)'
  PROVE  Safe' /\ \A q \in Requests : Progress(q)'
<1>1. \A u \in Users : IsActiveAdmin(u)' = IsActiveAdmin(u)
  BY DEF IsActiveAdmin
<1>2. ASSUME NEW q \in Requests \ {r}
      PROVE  Progress(q)'
  BY <1>1, <1>2, OthersProgress DEF AdminInv
<1>3. ASSUME RemovalsOnly
      PROVE  AlwaysAnAdmin' /\ \A q \in Requests : Decided(q)'
  <2>1. AlwaysAnAdmin'
    BY <1>1, <1>3 DEF AdminInv, Safe, AlwaysAnAdmin
  <2>2. ASSUME NEW q \in Requests \ {r}
        PROVE  Decided(q)'
    BY <1>1, <1>3, <2>2, OthersDecided DEF AdminInv, Safe
  <2> QED BY <1>3, <2>1, <2>2
<1> QED BY <1>2, <1>3 DEF Safe, RemovalsOnly

LEMMA IdleProgress ==
  ASSUME NEW r \in Requests, tx'[r] = IdleTx
  PROVE  Progress(r)' /\ Decided(r)'
<1>1. tx'[r].pc = "idle"
  BY IdleTyped
<1> QED BY <1>1 DEF Progress, Decided, Removing

LEMMA EndKeepsAdmin ==
  ASSUME AdminInv, NEW r \in Requests, UNCHANGED user, End(r)
  PROVE  Safe' /\ \A q \in Requests : Progress(q)'
<1>1. tx'[r] = IdleTx /\ \A q \in Requests \ {r} : tx'[q] = tx[q]
  BY EndTyped DEF AdminInv
<1>2. \A q \in Requests \ {r}, u \in Users : lock[u] = q => lock'[u] = q
  BY EndTyped DEF AdminInv
<1> QED BY <1>1, <1>2, IdleProgress, SameUsersProgress

(* A committed update makes nobody an administrator who was not, and takes *)
(* that away from the target alone.                                        *)
LEMMA CommitKeepsAdmin ==
  ASSUME AdminInv, NEW r \in Requests, Commit(r)
  PROVE  /\ Safe' /\ \A q \in Requests : Progress(q)'
         /\ tx[r].found > 0 => AlwaysAnAdmin'
<1>0. PICK t \in Users, body \in {tx[r].body} : t = tx[r].target /\ body = tx[r].body
  BY DEF Commit, AdminInv, Progress
<1>1. /\ tx[r].pc = "audit" /\ lock[t] = r /\ user[t].exists
      /\ user[t] \in UserState
  BY <1>0 DEF Commit, AdminInv, Progress, TypeOK
<1>2. /\ \A u \in Users \ {t} : user'[u] = user[u]
      /\ user'[t].exists = user[t].exists
      /\ user'[t].role = IF body.role = Keep THEN user[t].role ELSE body.role
      /\ user'[t].active = IF body.active = Keep THEN user[t].active ELSE body.active
  BY <1>0, CommitUser DEF AdminInv
<1>3. \A u \in Users \ {t} : IsActiveAdmin(u)' = IsActiveAdmin(u)
  BY <1>2 DEF IsActiveAdmin
<1>4. RemovalsOnly /\ IsActiveAdmin(t)' => IsActiveAdmin(t)
  <2> SUFFICES ASSUME RemovalsOnly
               PROVE  IsActiveAdmin(t)' => IsActiveAdmin(t)
    OBVIOUS
  <2>1. body \in Bodies \/ body = [role |-> Keep, active |-> Keep]
    BY <1>0, StateTyped, IdleTyped DEF AdminInv
  <2>2. body.role \in {Keep} \cup (Roles \ {"ADMIN"}) /\ body.active \in {Keep, FALSE}
    <3>1. CASE body \in Bodies
      BY <3>1 DEF RemovalsOnly
    <3>2. CASE body = [role |-> Keep, active |-> Keep]
      BY <3>2
    <3> QED BY <2>1, <3>1, <3>2
  <2>3. user'[t].role = "ADMIN" => user[t].role = "ADMIN"
    BY <1>2, <2>2
  <2>4. user'[t].active => user[t].active
    BY <1>2, <2>2
  <2> QED BY <1>1, <2>3, <2>4 DEF IsActiveAdmin
<1>5. IsActiveAdmin(t) /\ ~Removes(body) => IsActiveAdmin(t)'
  <2> SUFFICES ASSUME IsActiveAdmin(t), ~Removes(body)
               PROVE  IsActiveAdmin(t)'
    OBVIOUS
  <2>1. user'[t].role = "ADMIN"
    BY <1>2 DEF Removes, IsActiveAdmin
  <2>2. user'[t].active
    BY <1>2 DEF Removes, IsActiveAdmin
  <2> QED BY <1>2, <2>1, <2>2 DEF IsActiveAdmin
<1>6. tx[r].found > 0 => AlwaysAnAdmin'
  <2>1. tx[r].found > 0 => \E w \in Users : w # t /\ IsActiveAdmin(w)
    BY <1>0, <1>1 DEF AdminInv, Progress, HoldsAnother
  <2> QED BY <1>3, <2>1 DEF AlwaysAnAdmin
<1>7. ASSUME NEW q \in Requests \ {r}
      PROVE  Progress(q)'
  <2>1. /\ tx'[q] = tx[q]
        /\ \A u \in Users : lock[u] = q => lock'[u] = q
    BY EndTyped DEF Commit, AdminInv
  <2>2. \A u \in Users : user[u].exists => user'[u].exists
    BY <1>2
  <2>3. \A u \in Users : lock[u] = q /\ u # tx[q].target /\ IsActiveAdmin(u) => IsActiveAdmin(u)'
    BY <1>1, <1>3
  <2> QED BY <2>1, <2>2, <2>3, OthersProgress DEF AdminInv
<1>8. Progress(r)' /\ Decided(r)'
  BY EndTyped, IdleProgress DEF Commit, AdminInv
<1>9. ASSUME RemovalsOnly
      PROVE  AlwaysAnAdmin' /\ \A q \in Requests : Decided(q)'
  <2>1. ASSUME Removing(r)
        PROVE  AlwaysAnAdmin'
    BY <1>6, <1>9, <2>1 DEF AdminInv, Safe, Decided
  <2>2. ASSUME ~Removing(r)
        PROVE  AlwaysAnAdmin'
    <3>1. IsActiveAdmin(t) => IsActiveAdmin(t)'
      BY <1>0, <1>1, <1>5, <2>2 DEF Removing
    <3> QED BY <1>3, <1>9, <3>1 DEF AlwaysAnAdmin, AdminInv, Safe
  <2>3. ASSUME NEW q \in Requests \ {r}
        PROVE  Decided(q)'
    <3>1. tx'[q] = tx[q]
      BY EndTyped DEF Commit, AdminInv
    <3>2. \A u \in Users : user[u].exists => (IsActiveAdmin(u)' => IsActiveAdmin(u))
      BY <1>3, <1>4, <1>9
    <3> QED BY <1>9, <3>1, <3>2, OthersDecided DEF AdminInv, Safe
  <2>4. AlwaysAnAdmin'
    BY <2>1, <2>2
  <2> QED BY <1>8, <2>3, <2>4
<1> QED BY <1>6, <1>7, <1>8, <1>9 DEF Safe, RemovalsOnly

(* A new account may be an administrator, but nobody's transaction is      *)
(* about it yet.                                                           *)
LEMMA CreateKeepsAdmin ==
  ASSUME AdminInv, NEW r \in Requests, NEW u \in Users, NEW role \in Roles, CreateUser(r, u, role)
  PROVE  Safe' /\ \A q \in Requests : Progress(q)'
<1>1. \A v \in Users : user[v].exists => user'[v] = user[v]
  BY DEF CreateUser, AdminInv, TypeOK
<1>2. \A v \in Users : user[v].exists => IsActiveAdmin(v)' = IsActiveAdmin(v)
  BY <1>1 DEF IsActiveAdmin
<1>3. AlwaysAnAdmin => AlwaysAnAdmin'
  BY <1>2 DEF AlwaysAnAdmin, IsActiveAdmin
<1>4. ASSUME NEW q \in Requests \ {r}
      PROVE  Progress(q)' /\ (Decided(q) => Decided(q)')
  <2>1. /\ tx'[q] = tx[q]
        /\ \A v \in Users : lock[v] = q => lock'[v] = q
    BY EndTyped DEF CreateUser, AdminInv
  <2>2. \A v \in Users : user[v].exists =>
          user'[v].exists /\ (IsActiveAdmin(v)' => IsActiveAdmin(v))
    BY <1>1, <1>2
  <2>3. \A v \in Users : lock[v] = q /\ v # tx[q].target /\ IsActiveAdmin(v) => IsActiveAdmin(v)'
    BY <1>2 DEF IsActiveAdmin
  <2> QED BY <2>1, <2>2, <2>3, OthersProgress, OthersDecided DEF AdminInv
<1>5. Progress(r)' /\ Decided(r)'
  BY EndTyped, IdleProgress DEF CreateUser, AdminInv
<1> QED BY <1>3, <1>4, <1>5 DEF AdminInv, Safe, RemovalsOnly

LEMMA NextAdminInv == AdminInv /\ [Next]_vars => AdminInv'
<1> SUFFICES ASSUME AdminInv, [Next]_vars
             PROVE  Safe' /\ \A q \in Requests : Progress(q)'
  BY NextTypeOK DEF AdminInv
<1>1. ASSUME NEW u \in Users, AcceptPassword(u) \/ StoreSession(u) \/ Logout(u)
      PROVE  Safe' /\ \A q \in Requests : Progress(q)'
  <2>1. UNCHANGED <<user, lock, tx>>
    BY <1>1 DEF AcceptPassword, StoreSession, Logout
  <2> QED BY <2>1 DEF AdminInv, Safe, Decided, RemovalsOnly, AlwaysAnAdmin, IsActiveAdmin,
                     Progress, Removing, HoldsAnother
<1>2. ASSUME NEW r \in Requests, NEW caller \in Users, Admit(r, caller)
      PROVE  Safe' /\ \A q \in Requests : Progress(q)'
  <2>1. /\ UNCHANGED <<user, lock>> /\ tx \in [Requests -> TxState]
        /\ tx' = [tx EXCEPT ![r] = [IdleTx EXCEPT !.pc = "admitted", !.caller = caller]]
    BY <1>2 DEF Admit, accountVars, AdminInv, TypeOK
  <2>2. /\ tx'[r].pc = "admitted" /\ tx'[r].body = IdleTx.body /\ tx'[r].found = 0
        /\ \A q \in Requests \ {r} : tx'[q] = tx[q]
    BY <2>1 DEF IdleTx
  <2>3. Progress(r)' /\ Decided(r)'
    BY <2>2, IdleTyped DEF Progress, Decided, Removing, IdleTx
  <2> QED BY <2>1, <2>2, <2>3, SameUsersProgress
<1>3. ASSUME NEW r \in Requests, NEW u \in Users, NEW role \in Roles, CreateUser(r, u, role)
      PROVE  Safe' /\ \A q \in Requests : Progress(q)'
  BY <1>3, CreateKeepsAdmin
<1>4. ASSUME NEW r \in Requests, NEW u \in Users, RevokeSessions(r, u)
      PROVE  Safe' /\ \A q \in Requests : Progress(q)'
  BY <1>4, EndKeepsAdmin DEF RevokeSessions
<1>5. ASSUME NEW r \in Requests, NEW u \in Users, ResetPassword(r, u)
      PROVE  Safe' /\ \A q \in Requests : Progress(q)'
  <2>1. /\ UNCHANGED <<user, lock>> /\ tx \in [Requests -> TxState]
        /\ tx[r].pc = "admitted" /\ user[u].exists
        /\ tx' = [tx EXCEPT ![r] =
                  [@ EXCEPT !.pc = "update", !.target = u, !.revokes = TRUE, !.want = u]]
    BY <1>5 DEF ResetPassword, accountVars, AdminInv, TypeOK
  <2>2. /\ tx'[r].pc = "update" /\ tx'[r].body = tx[r].body /\ tx'[r].target = u
        /\ \A q \in Requests \ {r} : tx'[q] = tx[q]
    BY <2>1 DEF TxState
  <2>3. tx'[r].body = [role |-> Keep, active |-> Keep]
    BY <2>1, <2>2, IdleTyped DEF AdminInv, Progress
  <2>4. ~Removing(r)'
    BY <2>3 DEF Removing, Removes
  <2>5. tx'[r].found = 0
    BY <2>1 DEF AdminInv, Progress, TxState
  <2>6. Progress(r)' /\ Decided(r)'
    BY <2>1, <2>2, <2>4, <2>5 DEF Progress, Decided
  <2> QED BY <2>1, <2>2, <2>6, SameUsersProgress
<1>6. ASSUME NEW r \in Requests, NEW u \in Users, NEW body \in Bodies, Begin(r, u, body)
      PROVE  Safe' /\ \A q \in Requests : Progress(q)'
  <2>1. UNCHANGED user /\ tx[r].pc = "admitted" /\ user[u].exists
    BY <1>6 DEF Begin, accountVars
  <2>2. CASE End(r)
    BY <2>1, <2>2, EndKeepsAdmin
  <2>3. CASE ~End(r)
    <3> DEFINE changes == \/ body.role \notin {Keep, user[u].role}
                          \/ body.active = FALSE /\ user[u].active
               removesAdmin == IsActiveAdmin(u) /\ changes
    <3>1. /\ UNCHANGED lock /\ tx \in [Requests -> TxState]
          /\ tx' = [tx EXCEPT ![r] =
               [@ EXCEPT !.pc = IF removesAdmin THEN "check" ELSE "update",
                         !.target = u, !.body = body, !.revokes = changes,
                         !.want = IF removesAdmin THEN NoUser ELSE u]]
      BY <1>6, <2>3 DEF Begin, AdminInv, TypeOK
    <3>2. /\ tx'[r].pc = (IF removesAdmin THEN "check" ELSE "update")
          /\ tx'[r].body = body /\ tx'[r].target = u /\ tx'[r].found = tx[r].found
          /\ \A q \in Requests \ {r} : tx'[q] = tx[q]
      BY <3>1 DEF TxState
    <3>3. tx[r].found = 0
      BY <2>1 DEF AdminInv, Progress
    <3>4. IsActiveAdmin(u) /\ Removes(body) => changes
      BY UserAssumption DEF IsActiveAdmin, Removes
    <3>5. ~Removing(r)'
      <4>1. CASE removesAdmin
        BY <3>2, <4>1 DEF Removing
      <4>2. CASE ~removesAdmin
        <5>1. ~(IsActiveAdmin(u) /\ Removes(body))
          BY <3>4, <4>2
        <5>2. ~(IsActiveAdmin(u)' /\ Removes(body))
          BY <2>1, <5>1 DEF IsActiveAdmin
        <5> QED BY <3>2, <5>2 DEF Removing, IsActiveAdmin
      <4> QED BY <4>1, <4>2
    <3>6. Progress(r)' /\ Decided(r)'
      BY <2>1, <3>2, <3>3, <3>5 DEF Progress, Decided
    <3> QED BY <2>1, <3>1, <3>2, <3>6, SameUsersProgress
  <2> QED BY <2>2, <2>3
<1>7. ASSUME NEW r \in Requests, StartCount(r)
      PROVE  Safe' /\ \A q \in Requests : Progress(q)'
  <2>1. UNCHANGED user /\ tx[r].pc = "check"
    BY <1>7 DEF StartCount, accountVars
  <2>2. CASE End(r)
    BY <2>1, <2>2, EndKeepsAdmin
  <2>3. CASE ~End(r)
    <3> DEFINE others == {u \in Users \ {tx[r].target} : IsActiveAdmin(u)}
    <3>1. PICK u \in others :
            tx' = [tx EXCEPT ![r].pc = "count", ![r].todo = others, ![r].want = u]
      BY <1>7, <2>3 DEF StartCount
    <3>2. tx[r].target \notin others
      OBVIOUS
    <3> HIDE DEF others
    <3>3. /\ UNCHANGED lock /\ tx \in [Requests -> TxState]
      BY <1>7, <2>3 DEF StartCount, AdminInv, TypeOK
    <3>4. /\ tx'[r].pc = "count" /\ tx'[r].todo = others /\ tx'[r].want = u
          /\ tx'[r].target = tx[r].target /\ tx'[r].found = tx[r].found
          /\ \A q \in Requests \ {r} : tx'[q] = tx[q]
      BY <3>1, <3>3 DEF TxState
    <3>5. /\ tx[r].found = 0 /\ tx[r].target \in Users /\ user[tx[r].target].exists
      BY <2>1 DEF AdminInv, Progress
    <3>6. Progress(r)' /\ Decided(r)'
      BY <2>1, <3>1, <3>2, <3>4, <3>5 DEF Progress, Decided, Removing
    <3> QED BY <2>1, <3>3, <3>4, <3>6, SameUsersProgress
  <2> QED BY <2>2, <2>3
<1>8. ASSUME NEW r \in Requests, LockAdmin(r)
      PROVE  Safe' /\ \A q \in Requests : Progress(q)'
  <2>1. UNCHANGED user /\ tx[r].pc = "count" /\ MayLock(r, tx[r].want)
    BY <1>8 DEF LockAdmin, accountVars
  <2>2. CASE End(r)
    BY <2>1, <2>2, EndKeepsAdmin
  <2>3. CASE ~End(r)
    <3> DEFINE u == tx[r].want
               n == tx[r].found + Counted(u)
    <3>0. PICK w : w = tx[r].want
      OBVIOUS
    <3>1. /\ w \in tx[r].todo /\ w \in Users /\ w # tx[r].target
          /\ tx[r].target \in Users /\ user[tx[r].target].exists
          /\ tx[r].target \notin tx[r].todo /\ tx[r].found \in Nat
          /\ tx \in [Requests -> TxState] /\ lock \in [Users -> Requests \cup {Free}]
      BY <2>1, <3>0, StateTyped DEF AdminInv, Progress
    <3>2. lock' = [lock EXCEPT ![w] = r]
      BY <1>8, <2>3, <3>0 DEF LockAdmin
    <3>3. PICK pc \in {"count", "update"}, todo \in SUBSET tx[r].todo,
               want \in tx[r].todo \cup {tx[r].target} :
            /\ tx' = [tx EXCEPT ![r].pc = pc, ![r].todo = todo,
                                ![r].found = tx[r].found + Counted(w), ![r].want = want]
            /\ pc = "update" => tx[r].found + Counted(w) > 0
            /\ pc = "count" => want \in todo
      <4>1. CASE \E v \in tx[r].todo \ {w} :
              tx' = [tx EXCEPT ![r].todo = tx[r].todo \ {w}, ![r].found = tx[r].found + Counted(w),
                               ![r].want = v]
        <5>1. PICK v \in tx[r].todo \ {w} :
              tx' = [tx EXCEPT ![r].todo = tx[r].todo \ {w}, ![r].found = tx[r].found + Counted(w),
                               ![r].want = v]
          BY <4>1
        <5>2. tx' = [tx EXCEPT ![r].pc = "count", ![r].todo = tx[r].todo \ {w},
                               ![r].found = tx[r].found + Counted(w), ![r].want = v]
          BY <2>1, <3>1, <5>1 DEF TxState
        <5> QED BY <5>1, <5>2
      <4>2. CASE /\ tx[r].found + Counted(w) > 0
                 /\ tx' = [tx EXCEPT ![r].pc = "update", ![r].todo = {},
                                     ![r].found = tx[r].found + Counted(w),
                                     ![r].want = tx[r].target]
        BY <4>2
      <4> QED BY <1>8, <2>3, <3>0, <4>1, <4>2 DEF LockAdmin
    <3>4. /\ tx'[r].pc = pc /\ tx'[r].todo = todo /\ tx'[r].want = want
          /\ tx'[r].found = tx[r].found + Counted(w) /\ tx'[r].target = tx[r].target
          /\ \A q \in Requests \ {r} : tx'[q] = tx[q]
      BY <3>1, <3>3 DEF TxState
    <3>5. \A q \in Requests \ {r}, v \in Users : lock[v] = q => lock'[v] = q
      BY <2>1, <3>0, <3>1, <3>2, UserAssumption DEF MayLock
    <3>6. \A v \in Users : IsActiveAdmin(v)' = IsActiveAdmin(v)
      BY <2>1 DEF IsActiveAdmin
    <3>7. tx'[r].found > 0 => HoldsAnother(r)'
      <4>1. CASE tx[r].found > 0
        <5>1. PICK v \in Users : v # tx[r].target /\ lock[v] = r /\ IsActiveAdmin(v)
          BY <2>1, <4>1 DEF AdminInv, Progress, HoldsAnother
        <5>2. lock'[v] = r
          BY <3>1, <3>2, <5>1
        <5> QED BY <3>4, <3>6, <5>1, <5>2 DEF HoldsAnother
      <4>2. CASE IsActiveAdmin(w)
        <5>1. lock'[w] = r
          BY <3>1, <3>2
        <5> QED BY <3>1, <3>4, <3>6, <4>2, <5>1 DEF HoldsAnother
      <4>3. CASE tx[r].found = 0 /\ ~IsActiveAdmin(w)
        BY <3>4, <4>3 DEF Counted
      <4> QED BY <3>1, <4>1, <4>2, <4>3
    <3>8. Progress(r)' /\ Decided(r)'
      BY <2>1, <3>1, <3>3, <3>4, <3>7 DEF Progress, Decided, Removing
    <3> QED BY <2>1, <3>4, <3>5, <3>8, SameUsersProgress
  <2> QED BY <2>2, <2>3
<1>9. ASSUME NEW r \in Requests, Update(r)
      PROVE  Safe' /\ \A q \in Requests : Progress(q)'
  <2>0. PICK t : t = tx[r].target
    OBVIOUS
  <2>1. /\ UNCHANGED user /\ tx[r].pc = "update" /\ MayLock(r, t)
        /\ t \in Users /\ user[t].exists
        /\ tx \in [Requests -> TxState] /\ lock \in [Users -> Requests \cup {Free}]
        /\ lock' = [lock EXCEPT ![t] = r]
        /\ tx' = [tx EXCEPT ![r].pc = "audit", ![r].want = tx[r].caller]
    BY <1>9, <2>0 DEF Update, accountVars, AdminInv, Progress, TypeOK
  <2>2. /\ tx'[r].pc = "audit" /\ tx'[r].target = t /\ tx'[r].body = tx[r].body
        /\ \A q \in Requests \ {r} : tx'[q] = tx[q]
    BY <2>0, <2>1 DEF TxState
  <2>3. \A q \in Requests \ {r}, v \in Users : lock[v] = q => lock'[v] = q
    BY <2>1, UserAssumption DEF MayLock
  <2>4. (Removing(r)' => Removing(r)) /\ tx'[r].found = tx[r].found
    BY <2>0, <2>1, <2>2 DEF Removing, IsActiveAdmin, TxState
  <2>5. HoldsAnother(r) => HoldsAnother(r)'
    BY <2>0, <2>1, <2>2 DEF HoldsAnother, IsActiveAdmin
  <2>6. Progress(r)' /\ (Decided(r) => Decided(r)')
    BY <2>1, <2>2, <2>4, <2>5 DEF AdminInv, Progress, Decided
  <2> QED BY <2>1, <2>2, <2>3, <2>6, SameUsersProgress DEF AdminInv, Safe
<1>10. ASSUME NEW r \in Requests, Commit(r)
       PROVE  Safe' /\ \A q \in Requests : Progress(q)'
  BY <1>10, CommitKeepsAdmin
<1>11. ASSUME NEW r \in Requests, DeadlockAbort(r)
       PROVE  Safe' /\ \A q \in Requests : Progress(q)'
  BY <1>11, EndKeepsAdmin DEF DeadlockAbort, accountVars
<1>12. CASE UNCHANGED vars
  BY <1>12 DEF AdminInv, Safe, Decided, RemovalsOnly, AlwaysAnAdmin, IsActiveAdmin,
               Progress, Removing, HoldsAnother, vars, accountVars
<1> QED
  BY <1>1, <1>2, <1>3, <1>4, <1>5, <1>6, <1>7, <1>8, <1>9, <1>10, <1>11, <1>12 DEF Next, Serve

(* What countOtherActiveAdmins is for, whatever other requests ask, also   *)
(* to promote and to reactivate: an update that counted others leaves an   *)
(* active administrator when it commits, because it still holds the row of *)
(* one it counted.                                                         *)
CountedLeavesAnAdmin == [][\A r \in Requests : Commit(r) /\ tx[r].found > 0 => AlwaysAnAdmin']_vars

(* An update that counted the other active administrators leaves one.      *)
THEOREM CountAssures == Spec => CountedLeavesAnAdmin
<1>1. AdminInv /\ [Next]_vars
        => [\A r \in Requests : Commit(r) /\ tx[r].found > 0 => AlwaysAnAdmin']_vars
  BY CommitKeepsAdmin
<1>2. AdminInv /\ [Next]_vars => AdminInv'
  BY NextAdminInv
<1> QED BY <1>1, <1>2, InitAdminInv, PTL DEF Spec, CountedLeavesAnAdmin

(* As long as requests only take away, the organization keeps an active    *)
(* administrator, however many of them are served at once and in whatever  *)
(* order they lock: none takes the right from an active one uncounted.     *)
THEOREM AdminRemains ==
  ASSUME RemovalsOnly
  PROVE  Spec => []AlwaysAnAdmin
<1>1. AdminInv => AlwaysAnAdmin
  BY RemovalsOnly DEF AdminInv, Safe
<1>2. AdminInv /\ [Next]_vars => AdminInv'
  BY NextAdminInv
<1> QED BY <1>1, <1>2, InitAdminInv, PTL DEF Spec

-----------------------------------------------------------------------------
(***************************************************************************)
(* Registry: nothing is ended twice, a key that was revoked lets no        *)
(* telemetry in, and a key is shown when it is made.                       *)
(***************************************************************************)

-----------------------------------------------------------------------------
(* What the properties need to be inductive.  A key that a gateway named   *)
(* is there, is over when it was over as the request came, and once the    *)
(* lookup has found it, the request was not late; a key asked for by a     *)
(* page that was left counts as missed from then on.                       *)

LookupsKnowTheirKey ==
  \A g \in Gateways :
    ingest[g] # None =>
      /\ child[ingest[g].key] # None
      /\ ingest[g].late => child[ingest[g].key].over
      /\ ingest[g].phase \in {"found", "accepted"} => ~ingest[g].late

UnheededAreMissed ==
  \A s \in Slots : KeyAsked(s) /\ ~call[s].heeded => call[s].ask.child \in missed

RegistryInv ==
  /\ RegistryTypeOK
  /\ LookupsKnowTheirKey
  /\ UnheededAreMissed
  /\ EndsOnce
  /\ EveryKeyIsShown

(* What an ask of each kind carries.                                       *)
LEMMA AskShape ==
  ASSUME NEW ask \in Asks
  PROVE  /\ ask.op \in {"createDevice", "updateDevice", "createKey", "endKey"} => ask.of \in Devices
         /\ ask.op \in {"createSector", "createWindow"} => ask.of \in Sectors
         /\ ask.op \in {"createKey", "endKey"} => ask.child \in Keys
         /\ ask.op \in {"createWindow", "endWindow"} => ask.child \in Windows
         /\ ask.op \in {"createDevice", "updateDevice"} =>
              /\ ask.min \in Levels \cup {None}
              /\ ask.max \in Levels \cup {None}
         /\ ask.op = "createDevice" => ask.min \in Levels /\ ask.max \in Levels
         /\ ask.op = "updateDevice" => ask.status \in Statuses
  BY DEF Asks

LEMMA InitInv == RegistryInit => RegistryInv
  BY RegistryAssumption, NoneIsNoRecord
  DEF RegistryInit, RegistryInv, RegistryTypeOK, LookupsKnowTheirKey, UnheededAreMissed,
      KeyAsked, EndsOnce, EveryKeyIsShown, Children

-----------------------------------------------------------------------------
(* The tables.  A write of the API keeps every row of a child that is      *)
(* there, but that it may be over, and makes none but the one asked for;   *)
(* those facts are all that the requests of gateways and pages rest on.    *)

ChildrenStay ==
  \A c \in Children :
    child[c] # None => /\ child'[c] # None
                       /\ child'[c].of = child[c].of
                       /\ child[c].over => child'[c].over

NothingMade == \A c \in Children : child'[c] # None => child[c] # None

TablesTyped ==
  /\ device \in [Devices -> DeviceRow \cup {None}]
  /\ sector \subseteq Sectors
  /\ \A d \in Devices : device[d] # None => device[d].min < device[d].max
  /\ child \in [Children -> ChildRow \cup {None}]
  /\ \A k \in Keys : child[k] # None => child[k].of \in Devices /\ device[child[k].of] # None
  /\ \A w \in Windows : child[w] # None => child[w].of \in sector
  /\ audited \in [Children -> Nat]

LEMMA CreateDeviceKeeps ==
  ASSUME TablesTyped, EndsOnce,
         NEW ask \in Asks, ask.op = "createDevice", createDevice(ask)
  PROVE  TablesTyped' /\ EndsOnce' /\ ChildrenStay /\ NothingMade
<1>1. ask.of \in Devices /\ ask.min \in Levels /\ ask.max \in Levels
  BY AskShape
<1>2. DEFINE row == [status |-> "ACTIVE", min |-> ask.min, max |-> ask.max]
<1>3. row \in DeviceRow /\ row # None
  BY <1>1, NoneIsNoRecord DEF DeviceRow, Statuses
<1>4. row.min < row.max
  BY <1>1, RegistryAssumption DEF createDevice, RangeAdmitted
<1>5. device' = [device EXCEPT ![ask.of] = row] /\ UNCHANGED <<sector, child, audited>>
  BY DEF createDevice
<1> HIDE DEF row
<1>6. /\ device' \in [Devices -> DeviceRow \cup {None}]
      /\ \A d \in Devices : device'[d] # None => device'[d].min < device'[d].max
      /\ \A d \in Devices : device[d] # None => device'[d] # None
  BY <1>1, <1>3, <1>4, <1>5 DEF TablesTyped
<1> QED
  BY <1>5, <1>6 DEF TablesTyped, EndsOnce, ChildrenStay, NothingMade, Children

LEMMA UpdateDeviceKeeps ==
  ASSUME TablesTyped, EndsOnce,
         NEW ask, ask.of \in Devices, ask.status \in Statuses \cup {None},
         ask.min \in Levels \cup {None}, ask.max \in Levels \cup {None},
         updateDevice(ask)
  PROVE  TablesTyped' /\ EndsOnce' /\ ChildrenStay /\ NothingMade
<1>1. DEFINE row == Changed(ask)
<1>2. device[ask.of] \in DeviceRow
  BY DEF updateDevice, TablesTyped
<1>3. row \in DeviceRow
  BY <1>2 DEF Changed, Kept, DeviceRow
<1>4. row # None
  BY <1>3, NoneIsNoRecord
<1>5. row.min < row.max
  BY <1>3, RegistryAssumption DEF updateDevice, RangeAdmitted, DeviceRow
<1>6. device' = [device EXCEPT ![ask.of] = row] /\ UNCHANGED <<sector, child, audited>>
  BY DEF updateDevice
<1> HIDE DEF row
<1>7. /\ device' \in [Devices -> DeviceRow \cup {None}]
      /\ \A d \in Devices : device'[d] # None => device'[d].min < device'[d].max
      /\ \A d \in Devices : device[d] # None => device'[d] # None
  BY <1>3, <1>4, <1>5, <1>6 DEF TablesTyped
<1> QED
  BY <1>6, <1>7 DEF TablesTyped, EndsOnce, ChildrenStay, NothingMade, Children

LEMMA CreateSectorKeeps ==
  ASSUME TablesTyped, EndsOnce,
         NEW ask \in Asks, ask.op = "createSector", createSector(ask)
  PROVE  TablesTyped' /\ EndsOnce' /\ ChildrenStay /\ NothingMade
<1>1. ask.of \in Sectors
  BY AskShape
<1> QED
  BY <1>1 DEF createSector, TablesTyped, EndsOnce, ChildrenStay, NothingMade, Children

(* A child that was not there is not over, and nothing says it was ended.  *)
LEMMA CreateChildKeeps ==
  ASSUME TablesTyped, EndsOnce,
         NEW ask \in Asks, ask.op \in {"createKey", "createWindow"}, createChild(ask)
  PROVE  /\ TablesTyped' /\ EndsOnce' /\ ChildrenStay
         /\ \A c \in Children : child'[c] # None => child[c] # None \/ c = ask.child
<1>1. DEFINE row == [of |-> ask.of, over |-> FALSE]
<1>2. /\ ask.child \in Children
      /\ ask.of \in Devices \cup Sectors
      /\ ask.op = "createKey" => ask.child \in Keys /\ ask.of \in Devices /\ device[ask.of] # None
      /\ ask.op = "createWindow" => ask.child \in Windows /\ ask.of \in sector
  <2>1. ask.op = "createKey" => ask.child \in Keys /\ ask.of \in Devices
    BY AskShape
  <2>2. ask.op = "createWindow" => ask.child \in Windows
    BY AskShape
  <2>3. IF ask.op = "createKey" THEN device[ask.of] # None ELSE ask.of \in sector
    BY DEF createChild
  <2> QED BY <2>1, <2>2, <2>3 DEF Children, TablesTyped
<1>3. row \in ChildRow /\ row # None
  <2>1. row \in ChildRow
    BY <1>2 DEF ChildRow
  <2> QED BY <2>1, NoneIsNoRecord
<1>4. row.of = ask.of /\ row.over = FALSE
  OBVIOUS
<1>5. /\ child' = [child EXCEPT ![ask.child] = row]
      /\ child[ask.child] = None
      /\ UNCHANGED <<device, sector, audited>>
  BY DEF createChild
<1> HIDE DEF row
<1>6. /\ child' \in [Children -> ChildRow \cup {None}]
      /\ child'[ask.child] = row
      /\ \A c \in Children : c # ask.child => child'[c] = child[c]
  BY <1>2, <1>3, <1>5 DEF TablesTyped
<1>7. \A k \in Keys : child'[k] # None => child'[k].of \in Devices /\ device[child'[k].of] # None
  <2> SUFFICES ASSUME NEW k \in Keys, child'[k] # None
               PROVE  child'[k].of \in Devices /\ device[child'[k].of] # None
    OBVIOUS
  <2>1. CASE k = ask.child
    <3>1. ask.child \notin Windows
      BY <2>1, RegistryAssumption
    <3> QED BY <1>2, <1>4, <1>6, <2>1, <3>1
  <2>2. CASE k # ask.child
    BY <1>6, <2>2 DEF TablesTyped, Children
  <2> QED BY <2>1, <2>2
<1>8. \A w \in Windows : child'[w] # None => child'[w].of \in sector
  <2> SUFFICES ASSUME NEW w \in Windows, child'[w] # None
               PROVE  child'[w].of \in sector
    OBVIOUS
  <2>1. CASE w = ask.child
    <3>1. ask.child \notin Keys
      BY <2>1, RegistryAssumption
    <3> QED BY <1>2, <1>4, <1>6, <2>1, <3>1
  <2>2. CASE w # ask.child
    BY <1>6, <2>2 DEF TablesTyped, Children
  <2> QED BY <2>1, <2>2
<1>9. TablesTyped'
  BY <1>5, <1>6, <1>7, <1>8 DEF TablesTyped
<1>10. EndsOnce'
  BY <1>2, <1>4, <1>5, <1>6 DEF EndsOnce
<1>11. ChildrenStay
  BY <1>5, <1>6 DEF ChildrenStay
<1> QED
  BY <1>6, <1>9, <1>10, <1>11

(* A child is ended once: only one that is not over can be, and it is then. *)
LEMMA EndChildKeeps ==
  ASSUME TablesTyped, EndsOnce,
         NEW ask, ask.child \in Children, endChild(ask)
  PROVE  TablesTyped' /\ EndsOnce' /\ ChildrenStay /\ NothingMade
<1>1. DEFINE old == child[ask.child]
             row == [old EXCEPT !.over = TRUE]
<1>2. old \in ChildRow /\ ~old.over
  BY DEF endChild, Ends, TablesTyped
<1>3. row \in ChildRow /\ row.of = old.of /\ row.over = TRUE
  BY <1>2 DEF ChildRow
<1>4. row # None /\ old # None
  BY <1>2, <1>3, NoneIsNoRecord
<1>5. /\ child' = [child EXCEPT ![ask.child] = row]
      /\ audited' = [audited EXCEPT ![ask.child] = @ + 1]
      /\ UNCHANGED <<device, sector>>
  BY DEF endChild
<1>6. child[ask.child] = old
  OBVIOUS
<1> HIDE DEF old, row
<1>7. /\ child' \in [Children -> ChildRow \cup {None}]
      /\ child'[ask.child] = row
      /\ \A c \in Children : c # ask.child => child'[c] = child[c]
  BY <1>3, <1>5 DEF TablesTyped
<1>8. /\ audited' \in [Children -> Nat]
      /\ audited'[ask.child] = audited[ask.child] + 1
      /\ \A c \in Children : c # ask.child => audited'[c] = audited[c]
  BY <1>5 DEF TablesTyped
<1>9. \A c \in Children : (child'[c] # None <=> child[c] # None)
                          /\ (child[c] # None => child'[c].of = child[c].of)
  BY <1>3, <1>4, <1>6, <1>7
<1>10. TablesTyped'
  BY <1>5, <1>7, <1>8, <1>9 DEF TablesTyped, Children
<1>11. EndsOnce'
  <2>1. audited[ask.child] = 0
    BY <1>2, <1>6 DEF EndsOnce
  <2>2. audited'[ask.child] = 1
    BY <1>8, <2>1
  <2>3. child'[ask.child] # None /\ child'[ask.child].over
    BY <1>3, <1>4, <1>7
  <2> QED BY <1>7, <1>8, <2>2, <2>3 DEF EndsOnce
<1>12. ChildrenStay
  BY <1>3, <1>6, <1>7, <1>9 DEF ChildrenStay
<1> QED
  BY <1>9, <1>10, <1>11, <1>12 DEF NothingMade

-----------------------------------------------------------------------------
(* What a write of the tables leaves of the facts about requests.          *)

LEMMA LookupsKeepTheirKey ==
  ASSUME RegistryInv, ChildrenStay, ingest' = ingest
  PROVE  LookupsKnowTheirKey'
<1> SUFFICES ASSUME NEW g \in Gateways, ingest[g] # None
             PROVE  /\ child'[ingest[g].key] # None
                    /\ ingest[g].late => child'[ingest[g].key].over
                    /\ ingest[g].phase \in {"found", "accepted"} => ~ingest[g].late
  BY DEF LookupsKnowTheirKey
<1>1. ingest[g].key \in Children
  BY DEF RegistryInv, RegistryTypeOK, Ingests, Children
<1> QED BY <1>1 DEF RegistryInv, LookupsKnowTheirKey, ChildrenStay

(* A call that changes its phase and nothing else.                         *)
LEMMA PhaseTyped ==
  ASSUME RegistryTypeOK,
         NEW s \in Slots, call[s] # None,
         NEW p \in {"sent", "done", "refused"},
         call' = [call EXCEPT ![s].phase = p]
  PROVE  /\ call' \in [Slots -> Calls \cup {None}]
         /\ call'[s] # None
         /\ call'[s].ask = call[s].ask /\ call'[s].phase = p
         /\ call'[s].heeded = call[s].heeded
         /\ \A z \in Slots : z # s => call'[z] = call[z]
<1>1. DEFINE old == call[s]
             new == [old EXCEPT !.phase = p]
<1>2. old \in Calls
  BY DEF RegistryTypeOK
<1>3. /\ new \in Calls /\ new.ask = old.ask /\ new.phase = p
      /\ new.heeded = old.heeded
  BY <1>2 DEF Calls
<1>4. call' = [call EXCEPT ![s] = new] /\ old = call[s] /\ new # None
  BY <1>3, NoneIsNoRecord
<1> HIDE DEF old, new
<1>5. /\ call' \in [Slots -> Calls \cup {None}]
      /\ call'[s] = new
      /\ \A z \in Slots : z # s => call'[z] = call[z]
  BY <1>3, <1>4 DEF RegistryTypeOK
<1> QED BY <1>3, <1>4, <1>5

(* While no key is made, and the calls whose key was made stay or have it  *)
(* shown or missed, every key stays accounted for.                         *)
LEMMA KeysStayShown ==
  ASSUME EveryKeyIsShown,
         \A k \in Keys : child'[k] # None => child[k] # None,
         shown \subseteq shown', missed \subseteq missed',
         \A z \in Slots :
           KeyAsked(z) /\ call[z].phase = "done" =>
             \/ call[z].ask.child \in shown' \cup missed'
             \/ KeyAsked(z)' /\ call'[z].phase = "done" /\ call'[z].ask = call[z].ask
  PROVE  EveryKeyIsShown'
<1> SUFFICES ASSUME NEW k \in Keys, child'[k] # None, k \notin shown' \cup missed'
             PROVE  \E z \in Slots : /\ KeyAsked(z)' /\ call'[z].phase = "done"
                                     /\ call'[z].ask.child = k
  BY DEF EveryKeyIsShown
<1>1. PICK z \in Slots : KeyAsked(z) /\ call[z].phase = "done" /\ call[z].ask.child = k
  BY DEF EveryKeyIsShown
<1> QED BY <1>1

LEMMA ServeKeeps ==
  ASSUME RegistryInv, NEW s \in Slots, ServeCall(s)
  PROVE  RegistryInv'
<1>1. call[s] \in Calls /\ call[s].ask \in Asks
  BY DEF ServeCall, RegistryInv, RegistryTypeOK, Calls
<1>2. /\ call[s] # None /\ call[s].phase = "sent"
      /\ UNCHANGED <<ingest, page, panel, secret, shown, missed, failures>>
  BY DEF ServeCall, view
<1>3. TablesTyped /\ EndsOnce
  BY DEF RegistryInv, RegistryTypeOK, TablesTyped
<1>4. CASE Done(call[s].ask) /\ call' = [call EXCEPT ![s].phase = "done"]
  <2> DEFINE ask == call[s].ask
  <2>1. /\ call' \in [Slots -> Calls \cup {None}]
        /\ call'[s] # None
        /\ call'[s].ask = ask /\ call'[s].phase = "done"
        /\ call'[s].heeded = call[s].heeded
        /\ \A z \in Slots : z # s => call'[z] = call[z]
    BY <1>2, <1>4, PhaseTyped DEF RegistryInv
  <2>2. /\ TablesTyped' /\ EndsOnce' /\ ChildrenStay
        /\ \A k \in Keys : child'[k] # None =>
             child[k] # None \/ (ask.op = "createKey" /\ k = ask.child)
    <3> HIDE DEF ask
    <3>0. ask \in Asks
      BY <1>1 DEF ask
    <3>1. CASE ask.op = "createDevice" /\ createDevice(ask)
      BY <3>0, <3>1, <1>3, CreateDeviceKeeps DEF NothingMade, Children
    <3>2. CASE ask.op = "updateDevice" /\ updateDevice(ask)
      BY <3>0, <3>2, <1>3, AskShape, UpdateDeviceKeeps DEF NothingMade, Children
    <3>3. CASE ask.op = "createSector" /\ createSector(ask)
      BY <3>0, <3>3, <1>3, CreateSectorKeeps DEF NothingMade, Children
    <3>4. CASE ask.op \in {"createKey", "createWindow"} /\ createChild(ask)
      <4>1. ask.op = "createWindow" => ask.child \notin Keys
        BY <3>0, AskShape, RegistryAssumption
      <4> QED BY <4>1, <3>0, <3>4, <1>3, CreateChildKeeps DEF Children
    <3>5. CASE ask.op \in {"endKey", "endWindow"} /\ endChild(ask)
      <4>1. ask.child \in Children
        BY <3>0, <3>5, AskShape DEF Children
      <4> QED BY <4>1, <3>5, <1>3, EndChildKeeps DEF NothingMade, Children
    <3>6. Done(ask)
      BY <1>4 DEF ask
    <3> QED BY <3>1, <3>2, <3>3, <3>4, <3>5, <3>6 DEF Done
  <2>3. RegistryTypeOK'
    BY <1>2, <2>1, <2>2 DEF RegistryTypeOK, TablesTyped, RegistryInv
  <2>4. LookupsKnowTheirKey'
    BY <1>2, <2>2, LookupsKeepTheirKey
  <2>5. UnheededAreMissed'
    BY <1>2, <2>1 DEF RegistryInv, UnheededAreMissed, KeyAsked
  <2>6. EveryKeyIsShown'
    <3> SUFFICES ASSUME NEW k \in Keys, child'[k] # None
                 PROVE  \/ k \in shown \cup missed
                        \/ \E z \in Slots : /\ call'[z] # None /\ call'[z].ask.op = "createKey"
                                            /\ call'[z].phase = "done" /\ call'[z].ask.child = k
      BY <1>2 DEF EveryKeyIsShown, KeyAsked
    <3>1. CASE child[k] # None
      <4>1. CASE k \notin shown \cup missed
        <5>1. PICK z \in Slots : KeyAsked(z) /\ call[z].phase = "done" /\ call[z].ask.child = k
          BY <3>1, <4>1 DEF RegistryInv, EveryKeyIsShown
        <5>2. z # s
          BY <5>1, <1>2
        <5> QED BY <5>1, <5>2, <2>1 DEF KeyAsked
      <4> QED BY <4>1
    <3>2. CASE ask.op = "createKey" /\ k = ask.child
      BY <2>1, <3>2
    <3> QED BY <3>1, <3>2, <2>2
  <2> QED BY <2>2, <2>3, <2>4, <2>5, <2>6 DEF RegistryInv
<1>5. CASE UNCHANGED rows /\ call' = [call EXCEPT ![s].phase = "refused"]
  <2>1. /\ call' \in [Slots -> Calls \cup {None}]
        /\ call'[s] # None
        /\ call'[s].ask = call[s].ask /\ call'[s].heeded = call[s].heeded
        /\ \A z \in Slots : z # s => call'[z] = call[z]
    BY <1>2, <1>5, PhaseTyped DEF RegistryInv
  <2>2. UnheededAreMissed'
    BY <1>2, <2>1 DEF RegistryInv, UnheededAreMissed, KeyAsked
  <2>3. EveryKeyIsShown'
    <3>1. \A z \in Slots : z # s /\ KeyAsked(z) => KeyAsked(z)' /\ call'[z] = call[z]
      BY <2>1 DEF KeyAsked
    <3> QED BY <1>2, <1>5, <3>1, KeysStayShown DEF RegistryInv, rows
  <2> QED BY <1>2, <1>5, <2>1, <2>2, <2>3
          DEF RegistryInv, RegistryTypeOK, LookupsKnowTheirKey, EndsOnce, rows
<1> QED BY <1>4, <1>5 DEF ServeCall

LEMMA ElsewhereKeeps ==
  ASSUME RegistryInv, Elsewhere
  PROVE  RegistryInv'
<1>1. UNCHANGED <<ingest, call, page, panel, secret, shown, missed, failures>>
  BY DEF Elsewhere, view
<1>2. TablesTyped /\ EndsOnce
  BY DEF RegistryInv, RegistryTypeOK, TablesTyped
<1>3. TablesTyped' /\ EndsOnce' /\ ChildrenStay /\ NothingMade
  <2>1. CASE \E d \in Devices : \E v \in Levels :
               \E new \in {[lo |-> v, hi |-> None], [lo |-> None, hi |-> v]} :
                 updateDevice([op |-> "updateDevice", of |-> d, status |-> None,
                               min |-> new.lo, max |-> new.hi])
    <3>1. PICK d \in Devices, v \in Levels :
               \E new \in {[lo |-> v, hi |-> None], [lo |-> None, hi |-> v]} :
                 updateDevice([op |-> "updateDevice", of |-> d, status |-> None,
                               min |-> new.lo, max |-> new.hi])
      BY <2>1
    <3> PICK new \in {[lo |-> v, hi |-> None], [lo |-> None, hi |-> v]} :
               updateDevice([op |-> "updateDevice", of |-> d, status |-> None,
                             min |-> new.lo, max |-> new.hi])
      BY <3>1
    <3>2. new.lo \in Levels \cup {None} /\ new.hi \in Levels \cup {None}
      OBVIOUS
    <3> DEFINE ask == [op |-> "updateDevice", of |-> d, status |-> None,
                       min |-> new.lo, max |-> new.hi]
    <3>3. /\ ask.of \in Devices /\ ask.status \in Statuses \cup {None}
          /\ ask.min \in Levels \cup {None} /\ ask.max \in Levels \cup {None}
      BY <3>2
    <3>4. updateDevice(ask)
      OBVIOUS
    <3> HIDE DEF ask
    <3> QED BY <3>3, <3>4, <1>2, UpdateDeviceKeeps
  <2>2. CASE \E c \in Children :
               Ends(c) /\ endChild([op |-> IF c \in Keys THEN "endKey" ELSE "endWindow",
                                    of |-> child[c].of, child |-> c])
    <3>1. PICK c \in Children :
               endChild([op |-> IF c \in Keys THEN "endKey" ELSE "endWindow",
                         of |-> child[c].of, child |-> c])
      BY <2>2
    <3> DEFINE ask == [op |-> IF c \in Keys THEN "endKey" ELSE "endWindow",
                       of |-> child[c].of, child |-> c]
    <3>2. ask.child \in Children /\ endChild(ask)
      BY <3>1
    <3> HIDE DEF ask
    <3> QED BY <3>2, <1>2, EndChildKeeps
  <2> QED BY <2>1, <2>2 DEF Elsewhere
<1>4. RegistryTypeOK'
  BY <1>1, <1>3 DEF RegistryTypeOK, TablesTyped, RegistryInv
<1>5. LookupsKnowTheirKey'
  BY <1>1, <1>3, LookupsKeepTheirKey
<1>6. UnheededAreMissed' /\ EveryKeyIsShown'
  BY <1>1, <1>3 DEF RegistryInv, UnheededAreMissed, EveryKeyIsShown, KeyAsked, NothingMade, Children
<1> QED
  BY <1>1, <1>3, <1>4, <1>5, <1>6 DEF RegistryInv

-----------------------------------------------------------------------------
(* The requests of gateways.                                               *)

LEMMA IngestKeeps ==
  ASSUME RegistryInv, NEW g \in Gateways, UNCHANGED <<rows, call, view, missed, failures>>,
         ingest' \in [Gateways -> Ingests \cup {None}],
         \A h \in Gateways : h # g => ingest'[h] = ingest[h],
         ingest'[g] # None =>
           /\ child[ingest'[g].key] # None
           /\ ingest'[g].late => child[ingest'[g].key].over
           /\ ingest'[g].phase \in {"found", "accepted"} => ~ingest'[g].late
  PROVE  RegistryInv'
<1>1. LookupsKnowTheirKey'
  BY DEF RegistryInv, LookupsKnowTheirKey, rows
<1> QED
  BY <1>1 DEF RegistryInv, RegistryTypeOK, UnheededAreMissed, KeyAsked, EndsOnce,
              EveryKeyIsShown, rows, view

LEMMA SendKeeps ==
  ASSUME RegistryInv, NEW g \in Gateways, NEW k \in Keys, Send(g, k)
  PROVE  RegistryInv'
<1>1. DEFINE new == [key |-> k, phase |-> "sent", late |-> child[k].over]
<1>2. child[k] # None /\ child[k].over \in BOOLEAN
  <2>1. child[k] \in ChildRow
    BY DEF Send, RegistryInv, RegistryTypeOK, Children
  <2> QED BY <2>1 DEF Send, ChildRow
<1>3. /\ new \in Ingests
      /\ new.key = k /\ new.phase = "sent" /\ new.late = child[k].over
  BY <1>2 DEF Ingests
<1>4. ingest' = [ingest EXCEPT ![g] = new] /\ UNCHANGED <<rows, call, view, missed, failures>>
  BY DEF Send
<1> HIDE DEF new
<1>5. /\ ingest' \in [Gateways -> Ingests \cup {None}]
      /\ ingest'[g] = new
      /\ \A h \in Gateways : h # g => ingest'[h] = ingest[h]
  BY <1>3, <1>4 DEF RegistryInv, RegistryTypeOK
<1>6. /\ child[ingest'[g].key] # None
      /\ ingest'[g].late => child[ingest'[g].key].over
      /\ ingest'[g].phase \in {"found", "accepted"} => ~ingest'[g].late
  BY <1>2, <1>3, <1>5
<1> QED BY <1>4, <1>5, <1>6, IngestKeeps

(* A step of a request whose key is usable as it is found: it was not late. *)
LEMMA LookupKeeps ==
  ASSUME RegistryInv, NEW g \in Gateways, FindKey(g) \/ FindDevice(g) \/ EndIngest(g)
  PROVE  RegistryInv'
<1>1. DEFINE old == ingest[g]
<1>2. old \in Ingests /\ UNCHANGED <<rows, call, view, missed, failures>>
  BY DEF FindKey, FindDevice, EndIngest, RegistryInv, RegistryTypeOK
<1>3. /\ child[old.key] # None
      /\ old.late => child[old.key].over
      /\ old.phase \in {"found", "accepted"} => ~old.late
  BY DEF FindKey, FindDevice, EndIngest, RegistryInv, LookupsKnowTheirKey
<1>4. CASE ingest' = [ingest EXCEPT ![g] = None]
  <2>1. /\ ingest' \in [Gateways -> Ingests \cup {None}]
        /\ ingest'[g] = None
        /\ \A h \in Gateways : h # g => ingest'[h] = ingest[h]
    BY <1>4 DEF RegistryInv, RegistryTypeOK
  <2> QED BY <1>2, <2>1, IngestKeeps
<1>5. ASSUME NEW p \in {"found", "accepted"},
             ingest' = [ingest EXCEPT ![g] = [ingest[g] EXCEPT !.phase = p]],
             ~old.late
      PROVE  RegistryInv'
  <2>1. DEFINE new == [old EXCEPT !.phase = p]
  <2>2. new \in Ingests /\ new.key = old.key /\ new.phase = p /\ new.late = old.late
    BY <1>2 DEF Ingests
  <2>3. ingest' = [ingest EXCEPT ![g] = new]
    BY <1>5
  <2> HIDE DEF old, new
  <2>4. /\ ingest' \in [Gateways -> Ingests \cup {None}]
        /\ ingest'[g] = new
        /\ \A h \in Gateways : h # g => ingest'[h] = ingest[h]
    BY <2>2, <2>3 DEF RegistryInv, RegistryTypeOK
  <2>5. /\ child[ingest'[g].key] # None
        /\ ingest'[g].late => child[ingest'[g].key].over
        /\ ingest'[g].phase \in {"found", "accepted"} => ~ingest'[g].late
    BY <1>3, <1>5, <2>2, <2>4
  <2> QED BY <1>2, <2>4, <2>5, IngestKeeps
<1>6. CASE FindKey(g)
  <2>1. CASE UsableKey(ingest[g].key)
    <3>1. ~old.late
      BY <1>3, <2>1 DEF UsableKey
    <3>2. ingest' = [ingest EXCEPT ![g] = [ingest[g] EXCEPT !.phase = "found"]]
      BY <1>6, <2>1 DEF FindKey
    <3> QED BY <1>5, <3>1, <3>2
  <2>2. CASE ~UsableKey(ingest[g].key)
    BY <1>4, <1>6, <2>2 DEF FindKey
  <2> QED BY <2>1, <2>2
<1>7. CASE FindDevice(g)
  <2>1. ~old.late
    BY <1>3, <1>7 DEF FindDevice
  <2>2. CASE ingest' = [ingest EXCEPT ![g] = [ingest[g] EXCEPT !.phase = "accepted"]]
    BY <1>5, <2>1, <2>2
  <2> QED BY <1>4, <1>7, <2>2 DEF FindDevice
<1>8. CASE EndIngest(g)
  BY <1>4, <1>8 DEF EndIngest
<1> QED BY <1>6, <1>7, <1>8

-----------------------------------------------------------------------------
(* The pages.                                                              *)

LEMMA AskKeeps ==
  ASSUME RegistryInv, NEW ask \in Asks, Ask(ask)
  PROVE  RegistryInv'
<1>1. DEFINE new == [ask |-> ask, phase |-> "sent", heeded |-> TRUE]
<1>2. new \in Calls /\ new.phase = "sent" /\ new.heeded = TRUE
  BY DEF Calls
<1>3. PICK s \in Slots : call[s] = None /\ call' = [call EXCEPT ![s] = new]
  BY DEF Ask
<1>4. UNCHANGED <<rows, ingest, page, panel, secret, shown, missed, failures>>
  BY DEF Ask, view
<1> HIDE DEF new
<1>5. /\ call' \in [Slots -> Calls \cup {None}]
      /\ call'[s] = new
      /\ \A z \in Slots : z # s => call'[z] = call[z]
  BY <1>2, <1>3 DEF RegistryInv, RegistryTypeOK
<1>6. UnheededAreMissed'
  BY <1>2, <1>4, <1>5 DEF RegistryInv, UnheededAreMissed, KeyAsked
<1>7. EveryKeyIsShown'
  BY <1>3, <1>4, <1>5, KeysStayShown DEF RegistryInv, KeyAsked, rows
<1> QED
  BY <1>4, <1>5, <1>6, <1>7 DEF RegistryInv, RegistryTypeOK, LookupsKnowTheirKey, EndsOnce, rows

(* What each kind of dialog carries.                                       *)
LEMMA PanelShape ==
  ASSUME RegistryTypeOK, panel # None
  PROVE  /\ panel.kind = "device" => panel.of \in Devices /\ panel.status \in Statuses
         /\ panel.kind = "sector" => panel.of \in Sectors
  BY DEF RegistryTypeOK, Panels

LEMMA DeviceAsksKeep ==
  ASSUME RegistryInv,
         handleCreate \/ toggleStatus \/ CreateCredential \/ RevokeCredential
  PROVE  RegistryInv'
<1>1. CASE handleCreate
  <2>1. PICK d \in Devices, lo \in Levels, hi \in Levels :
          Ask([op |-> "createDevice", of |-> d, min |-> lo, max |-> hi])
    BY <1>1 DEF handleCreate
  <2>2. [op |-> "createDevice", of |-> d, min |-> lo, max |-> hi] \in Asks
    BY DEF Asks
  <2> QED BY <2>1, <2>2, AskKeeps
<1>2. CASE toggleStatus
  <2> DEFINE ask == [op |-> "updateDevice", of |-> panel.of,
                     status |-> Opposite(panel.status), min |-> None, max |-> None]
  <2>1. panel.of \in Devices
    BY <1>2, PanelShape DEF toggleStatus, At, RegistryInv
  <2>2. ask \in Asks
    BY <2>1 DEF Asks, Opposite, Statuses
  <2> QED BY <1>2, <2>2, AskKeeps DEF toggleStatus
<1>3. CASE CreateCredential
  <2>1. PICK k \in Keys :
          Ask([op |-> "createKey", of |-> panel.of, child |-> k])
    BY <1>3 DEF CreateCredential
  <2>2. panel.of \in Devices
    BY <1>3, PanelShape DEF CreateCredential, At, RegistryInv
  <2>3. [op |-> "createKey", of |-> panel.of, child |-> k] \in Asks
    BY <2>2 DEF Asks
  <2> QED BY <2>1, <2>3, AskKeeps
<1>4. CASE RevokeCredential
  <2>1. PICK k \in Keys :
          Ask([op |-> "endKey", of |-> panel.of, child |-> k])
    BY <1>4 DEF RevokeCredential
  <2>2. panel.of \in Devices
    BY <1>4, PanelShape DEF RevokeCredential, At, RegistryInv
  <2>3. [op |-> "endKey", of |-> panel.of, child |-> k] \in Asks
    BY <2>2 DEF Asks
  <2> QED BY <2>1, <2>3, AskKeeps
<1> QED BY <1>1, <1>2, <1>3, <1>4

LEMMA SectorAsksKeep ==
  ASSUME RegistryInv, handleCreateSector \/ handleScheduleMw \/ CancelWindow
  PROVE  RegistryInv'
<1>1. CASE handleCreateSector
  <2>1. PICK x \in Sectors : Ask([op |-> "createSector", of |-> x])
    BY <1>1 DEF handleCreateSector
  <2>2. [op |-> "createSector", of |-> x] \in Asks
    BY DEF Asks
  <2> QED BY <2>1, <2>2, AskKeeps
<1>2. CASE handleScheduleMw
  <2>1. PICK w \in Windows :
          Ask([op |-> "createWindow", of |-> panel.of, child |-> w])
    BY <1>2 DEF handleScheduleMw
  <2>2. panel.of \in Sectors
    BY <1>2, PanelShape DEF handleScheduleMw, At, RegistryInv
  <2>3. [op |-> "createWindow", of |-> panel.of, child |-> w] \in Asks
    BY <2>2 DEF Asks
  <2> QED BY <2>1, <2>3, AskKeeps
<1>3. CASE CancelWindow
  <2>1. PICK w \in Windows : Ask([op |-> "endWindow", child |-> w])
    BY <1>3 DEF CancelWindow
  <2>2. [op |-> "endWindow", child |-> w] \in Asks
    BY DEF Asks
  <2> QED BY <2>1, <2>2, AskKeeps
<1> QED BY <1>1, <1>2, <1>3

(* A dialog that opens or closes touches nothing that was asked.           *)
LEMMA DialogKeeps ==
  ASSUME RegistryInv, UNCHANGED <<rows, ingest, call, page, shown, missed, failures>>,
         panel' \in Panels \cup {None}, secret' \in {secret, None}
  PROVE  RegistryInv'
  BY DEF RegistryInv, RegistryTypeOK, LookupsKnowTheirKey, UnheededAreMissed, KeyAsked,
         EndsOnce, EveryKeyIsShown, rows

(* A page that is left misses the keys it asked for.                       *)
LEMMA LeaveKeeps ==
  ASSUME RegistryInv, Leave
  PROVE  RegistryInv'
<1>1. /\ UNCHANGED <<rows, ingest, shown, failures>>
      /\ page' \in {"devices", "sectors"} /\ panel' = None /\ secret' = None
      /\ missed' = missed \cup {call[s].ask.child : s \in {z \in Slots : KeyAsked(z)}}
  BY DEF Leave
<1>2. \A s \in Slots :
        /\ call[s] = None => call'[s] = None
        /\ call[s] # None => /\ call'[s] \in Calls /\ call'[s] # None
                             /\ call'[s].ask = call[s].ask
                             /\ call'[s].phase = call[s].phase
  <2> SUFFICES ASSUME NEW s \in Slots, call[s] # None
               PROVE  /\ call'[s] \in Calls /\ call'[s] # None
                      /\ call'[s].ask = call[s].ask
                      /\ call'[s].phase = call[s].phase
    BY DEF Leave
  <2>1. call[s] \in Calls
    BY DEF RegistryInv, RegistryTypeOK
  <2>2. call'[s] = [call[s] EXCEPT !.heeded = FALSE]
    BY DEF Leave
  <2>3. call'[s] \in Calls /\ call'[s].ask = call[s].ask /\ call'[s].phase = call[s].phase
    BY <2>1, <2>2 DEF Calls
  <2> QED BY <2>3, NoneIsNoRecord
<1>3. call' \in [Slots -> Calls \cup {None}]
  <2>1. call' = [s \in Slots |-> call'[s]]
    BY DEF Leave
  <2> QED BY <1>2, <2>1
<1>4. \A s \in Slots : KeyAsked(s) => call[s].ask.child \in Keys
  BY AskShape DEF KeyAsked, RegistryInv, RegistryTypeOK, Calls
<1>5. missed' \subseteq Keys
  BY <1>1, <1>4 DEF RegistryInv, RegistryTypeOK
<1>6. RegistryTypeOK'
  BY <1>1, <1>3, <1>5 DEF RegistryInv, RegistryTypeOK, rows
<1>7. UnheededAreMissed'
  BY <1>1, <1>2 DEF UnheededAreMissed, KeyAsked
<1>8. EveryKeyIsShown'
  BY <1>1, KeysStayShown DEF RegistryInv, rows
<1> QED
  BY <1>1, <1>6, <1>7, <1>8 DEF RegistryInv, LookupsKnowTheirKey, EndsOnce, rows

LEMMA PanelsKeep ==
  ASSUME RegistryInv,
         \/ \E d \in Devices : OpenDevice(d)
         \/ \E x \in Sectors : OpenSector(x)
         \/ OpenCreate \/ Close \/ CloseSecret \/ Leave
  PROVE  RegistryInv'
<1>1. ASSUME NEW p \in Panels, Show(p)
      PROVE  RegistryInv'
  BY <1>1, DialogKeeps DEF Show
<1>2. CASE \E d \in Devices : OpenDevice(d)
  <2>1. \A d \in Devices, st \in Statuses : [kind |-> "device", of |-> d, status |-> st] \in Panels
    BY DEF Panels
  <2> QED BY <1>1, <1>2, <2>1 DEF OpenDevice
<1>3. CASE \E x \in Sectors : OpenSector(x)
  <2>1. \A x \in Sectors : [kind |-> "sector", of |-> x] \in Panels
    BY DEF Panels
  <2> QED BY <1>1, <1>3, <2>1 DEF OpenSector
<1>4. CASE OpenCreate
  <2>1. \A k \in {"newDevice", "newSector"} : [kind |-> k] \in Panels
    BY DEF Panels
  <2> QED BY <1>1, <1>4, <2>1 DEF OpenCreate
<1>5. CASE Close
  BY <1>5, DialogKeeps DEF Close
<1>6. CASE CloseSecret
  BY <1>6, DialogKeeps DEF CloseSecret, RegistryInv, RegistryTypeOK
<1>7. CASE Leave
  BY <1>7, LeaveKeeps
<1> QED BY <1>2, <1>3, <1>4, <1>5, <1>6, <1>7

(* The page takes an answer: a key that was made is shown; one that nobody *)
(* heeds was missed already.                                               *)
LEMMA AnswerKeeps ==
  ASSUME RegistryInv, NEW s \in Slots, Answer(s)
  PROVE  RegistryInv'
<1>1. DEFINE ask == call[s].ask
             ok == call[s].phase = "done" /\ call[s].heeded
<1>2. ask \in Asks /\ call[s] # None
  BY DEF Answer, RegistryInv, RegistryTypeOK, Calls
<1>3. /\ call' = [call EXCEPT ![s] = None]
      /\ UNCHANGED <<rows, ingest, page, missed, failures>>
      /\ secret' = IF ok /\ ask.op = "createKey" THEN SecretOf(ask) ELSE secret
      /\ shown' = shown \cup ({secret'} \cap Keys)
      /\ panel' = IF ok /\ ask.op = "updateDevice" /\ panel # None /\ panel.kind = "device"
                  THEN [panel EXCEPT !.status = ask.status]
                  ELSE IF ok /\ panel # None
                          /\ <<ask.op, panel.kind>> \in {<<"createDevice", "newDevice">>,
                                                         <<"createSector", "newSector">>}
                       THEN None ELSE panel
  BY DEF Answer
<1>4. /\ call' \in [Slots -> Calls \cup {None}]
      /\ call'[s] = None
      /\ \A z \in Slots : z # s => call'[z] = call[z]
  BY <1>3 DEF RegistryInv, RegistryTypeOK
<1>5. secret' \in Keys \cup {None} /\ shown' \subseteq Keys
  <2>1. CASE ok /\ ask.op = "createKey"
    BY <1>2, <1>3, <2>1, AskShape DEF SecretOf, RegistryInv, RegistryTypeOK
  <2>2. CASE ~(ok /\ ask.op = "createKey")
    BY <1>3, <2>2 DEF RegistryInv, RegistryTypeOK
  <2> QED BY <2>1, <2>2
<1>6. panel' \in Panels \cup {None}
  <2>1. CASE ok /\ ask.op = "updateDevice" /\ panel # None /\ panel.kind = "device"
    <3>1. panel \in [kind : {"device"}, of : Devices, status : Statuses]
      BY <2>1 DEF RegistryInv, RegistryTypeOK, Panels
    <3>2. ask.status \in Statuses
      BY <1>2, <2>1, AskShape
    <3> QED BY <1>3, <2>1, <3>1, <3>2 DEF Panels
  <2>2. CASE ~(ok /\ ask.op = "updateDevice" /\ panel # None /\ panel.kind = "device")
    BY <1>3, <2>2 DEF RegistryInv, RegistryTypeOK
  <2> QED BY <2>1, <2>2
<1>7. UnheededAreMissed'
  BY <1>3, <1>4 DEF RegistryInv, UnheededAreMissed, KeyAsked
<1>8. EveryKeyIsShown'
  <2>1. KeyAsked(s) /\ call[s].phase = "done" => ask.child \in shown' \cup missed'
    <3> SUFFICES ASSUME KeyAsked(s), call[s].phase = "done"
                 PROVE  ask.child \in shown' \cup missed'
      OBVIOUS
    <3>1. CASE call[s].heeded
      <4>1. ask.child \in Keys /\ secret' = ask.child
        BY <1>2, <1>3, <3>1, AskShape DEF KeyAsked, SecretOf
      <4> QED BY <4>1, <1>3
    <3>2. CASE ~call[s].heeded
      BY <1>3, <3>2 DEF RegistryInv, UnheededAreMissed
    <3> QED BY <3>1, <3>2
  <2>2. \A z \in Slots : z # s /\ KeyAsked(z) => KeyAsked(z)' /\ call'[z] = call[z]
    BY <1>4 DEF KeyAsked
  <2> QED BY <1>3, <2>1, <2>2, KeysStayShown DEF RegistryInv, rows
<1> QED
  BY <1>3, <1>4, <1>5, <1>6, <1>7, <1>8
  DEF RegistryInv, RegistryTypeOK, LookupsKnowTheirKey, EndsOnce, rows

LEMMA LoseKeeps ==
  ASSUME RegistryInv, NEW s \in Slots, Lose(s)
  PROVE  RegistryInv'
<1>1. /\ call[s] # None /\ call' = [call EXCEPT ![s].phase = "refused"]
      /\ missed' = IF KeyAsked(s) THEN missed \cup {call[s].ask.child} ELSE missed
      /\ UNCHANGED <<rows, ingest, page, panel, secret, shown>>
  BY DEF Lose, view
<1>2. /\ call' \in [Slots -> Calls \cup {None}]
      /\ call'[s] # None
      /\ call'[s].ask = call[s].ask /\ call'[s].heeded = call[s].heeded
      /\ \A z \in Slots : z # s => call'[z] = call[z]
  BY <1>1, PhaseTyped DEF RegistryInv
<1>3. KeyAsked(s) => call[s].ask.child \in Keys
  BY AskShape DEF KeyAsked, RegistryInv, RegistryTypeOK, Calls
<1>4. RegistryTypeOK'
  BY <1>1, <1>2, <1>3 DEF RegistryInv, RegistryTypeOK, rows
<1>5. UnheededAreMissed'
  BY <1>1, <1>2 DEF RegistryInv, UnheededAreMissed, KeyAsked
<1>6. EveryKeyIsShown'
  <2>1. \A z \in Slots : z # s /\ KeyAsked(z) => KeyAsked(z)' /\ call'[z] = call[z]
    BY <1>2 DEF KeyAsked
  <2>2. KeyAsked(s) => call[s].ask.child \in missed'
    BY <1>1
  <2> QED BY <1>1, <2>1, <2>2, KeysStayShown DEF RegistryInv, rows
<1> QED
  BY <1>1, <1>4, <1>5, <1>6 DEF RegistryInv, LookupsKnowTheirKey, EndsOnce, rows

-----------------------------------------------------------------------------
LEMMA NextKeepsInv ==
  ASSUME RegistryInv, [RegistryNext]_registryVars
  PROVE  RegistryInv'
<1>1. CASE \E s \in Slots : ServeCall(s) \/ Answer(s) \/ Lose(s)
  BY <1>1, ServeKeeps, AnswerKeeps, LoseKeeps
<1>2. CASE \E g \in Gateways : \/ \E k \in Keys : Send(g, k)
                              \/ FindKey(g) \/ FindDevice(g) \/ EndIngest(g)
  BY <1>2, SendKeeps, LookupKeeps
<1>3. CASE \/ \E d \in Devices : OpenDevice(d)
           \/ \E x \in Sectors : OpenSector(x)
           \/ OpenCreate \/ Close \/ CloseSecret \/ Leave
  BY <1>3, PanelsKeep
<1>4. CASE handleCreate \/ toggleStatus \/ CreateCredential \/ RevokeCredential
  BY <1>4, DeviceAsksKeep
<1>5. CASE handleCreateSector \/ handleScheduleMw \/ CancelWindow
  BY <1>5, SectorAsksKeep
<1>6. CASE Elsewhere
  BY <1>6, ElsewhereKeeps
<1>7. CASE UNCHANGED registryVars
  BY <1>7 DEF RegistryInv, RegistryTypeOK, LookupsKnowTheirKey, UnheededAreMissed, KeyAsked,
              EndsOnce, EveryKeyIsShown, registryVars, rows, view
<1> QED BY <1>1, <1>2, <1>3, <1>4, <1>5, <1>6, <1>7 DEF RegistryNext

(* The inductive invariant of tables, calls, dialogs and lookups.           *)
THEOREM RegistryInvariant == RegistrySpec => []RegistryInv
<1>1. RegistryInit => RegistryInv
  BY InitInv
<1>2. RegistryInv /\ [RegistryNext]_registryVars => RegistryInv'
  BY NextKeepsInv
<1> QED BY <1>1, <1>2, PTL DEF RegistrySpec

(* The rows, requests and dialogs keep their types; a key or a window      *)
(* belongs to something that is there, and the limits of a device are in   *)
(* order, whatever updates follow one another.                             *)
THEOREM RegistryTypes == RegistrySpec => []RegistryTypeOK
<1>1. RegistryInv => RegistryTypeOK
  BY DEF RegistryInv
<1> QED BY <1>1, RegistryInvariant, PTL

(* revokeCredential and cancel end a key or a window once: their WHERE     *)
(* clause leaves one audit row, however many requests come.                *)
THEOREM RegistryEndsOnce == RegistrySpec => []EndsOnce
<1>1. RegistryInv => EndsOnce
  BY DEF RegistryInv
<1> QED BY <1>1, RegistryInvariant, PTL

(* findDeviceBySecretHash accepts no telemetry from a request that came    *)
(* after its key was revoked.                                              *)
THEOREM RegistryRevocation == RegistrySpec => []RevocationTakesHold
<1>1. RegistryInv => RevocationTakesHold
  BY DEF RegistryInv, LookupsKnowTheirKey, RevocationTakesHold
<1> QED BY <1>1, RegistryInvariant, PTL

(* A key that was made is shown, whatever was closed and opened on         *)
(* DevicesPage before its answer came, unless that answer was lost or the  *)
(* page was left.                                                          *)
THEOREM RegistryEveryKeyShown == RegistrySpec => []EveryKeyIsShown
<1>1. RegistryInv => EveryKeyIsShown
  BY DEF RegistryInv
<1> QED BY <1>1, RegistryInvariant, PTL
===============================================================================
