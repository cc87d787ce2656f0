-------------------------- MODULE WorkspacesProofs --------------------------
(***************************************************************************)
(* Proofs about Workspaces, for any set of workspaces, subjects, groups    *)
(* and requests: the types, and that no workspace loses its last           *)
(* administrator.                                                          *)
(***************************************************************************)
EXTENDS Workspaces, FiniteSetTheorems, TLAPS

(* A transaction holds the lock of the workspace it is about, so two       *)
(* transactions never are about one workspace.                             *)
Holds(r) ==
  /\ request[r].change \in Change
  /\ request[r].change.kind = "member"
  /\ request[r].change.workspace \in workspaces
  /\ lock[request[r].change.workspace] = r

Locking == \A r \in Requests : InTransaction(r) => Holds(r)

(* What a transaction has read stays true until it commits.                *)
CurrentRole(r) ==
  request[r].current = members[request[r].change.workspace][request[r].change.who]

Reading ==
  \A r \in Requests : request[r].stage \in {"loaded", "checked"} => CurrentRole(r)

(* A change that takes an administrator away has counted another one.      *)
AnotherAdmin(r) ==
  \E s \in Admins(request[r].change.workspace) : s # request[r].change.who

Counting ==
  \A r \in Requests :
    request[r].stage = "checked" /\ TakesAdmin(r) => AnotherAdmin(r)

(* A request has a change once it is authorized.                           *)
Asking == \A r \in Requests : request[r].stage # "idle" => request[r].change \in Change

IInv == TypeOK /\ Asking /\ Locking /\ Reading /\ Counting /\ AdminRemains

----------------------------------------------------------------------------

(* More than one member of a finite set means one other than any given.    *)
LEMMA AnotherMember ==
  ASSUME NEW S, IsFiniteSet(S), Cardinality(S) > 1, NEW x
  PROVE  \E y \in S : y # x
<1>1. SUFFICES ASSUME \A y \in S : y = x PROVE FALSE
  OBVIOUS
<1>2. S \subseteq {x}
  BY <1>1
<1>3. IsFiniteSet({x}) /\ Cardinality({x}) = 1
  BY FS_Singleton
<1>4. Cardinality(S) <= Cardinality({x})
  BY <1>2, <1>3, FS_Subset
<1>5. Cardinality(S) \in Nat
  BY FS_CardinalityType
<1> QED
  BY <1>3, <1>4, <1>5

LEMMA AdminsFinite == ASSUME NEW w PROVE IsFiniteSet(Admins(w))
<1>1. Admins(w) \subseteq Subjects
  BY DEF Admins
<1> QED
  BY <1>1, SubjectsAssumption, FS_Subset

LEMMA InitIInv == Init => IInv
  BY DEF Init, IInv, TypeOK, Asking, Locking, Reading, Counting, AdminRemains,
         Idle, Request, Stage, InTransaction

----------------------------------------------------------------------------
(* Steps that change no member and no lock: one request moves on.          *)

LEMMA CreateStep ==
  ASSUME IInv, NEW w \in AllWorkspaces, NEW s \in Subjects, CreateWorkspace(w, s)
  PROVE  IInv'
<1> USE DEF IInv, CreateWorkspace
<1>1. TypeOK'
  BY DEF TypeOK, Roles
<1>2. Asking' /\ Locking'
  BY DEF Asking, Locking, Holds, InTransaction
<1>3. \A v \in AllWorkspaces : v # w => members'[v] = members[v]
  BY DEF TypeOK
<1>4. \A r \in Requests : InTransaction(r) =>
        request[r].change.workspace \in workspaces
        /\ request[r].change.workspace # w
        /\ request[r].change.workspace \in AllWorkspaces
  BY DEF Locking, Holds, TypeOK
<1>5. Reading'
  BY <1>3, <1>4 DEF Reading, CurrentRole, InTransaction
<1>6. Counting'
  BY <1>3, <1>4 DEF Counting, TakesAdmin, AnotherAdmin, Admins, InTransaction
<1>7. AdminRemains'
  <2>1. SUFFICES ASSUME NEW v \in workspaces' PROVE (Admins(v) # {})'
    BY DEF AdminRemains
  <2>2. CASE v = w
    BY <2>2 DEF Admins, TypeOK
  <2>3. CASE v # w
    BY <2>1, <2>3, <1>3 DEF AdminRemains, Admins, TypeOK
  <2> QED
    BY <2>2, <2>3
<1> QED
  BY <1>1, <1>2, <1>5, <1>6, <1>7

LEMMA AuthorizeStep ==
  ASSUME IInv, NEW r \in Requests, NEW by \in Subjects, NEW c \in Change,
         Authorize(r, by, c)
  PROVE  IInv'
<1> USE DEF IInv, Authorize
<1>2. Authorized(c) \in Request
  BY DEF Authorized, Request, Stage
<1>3. /\ request'[r].stage = "authorized" /\ request'[r].change = c
      /\ \A o \in Requests : o # r => request'[o] = request[o]
  BY DEF TypeOK, Authorized
<1>4. TypeOK'
  BY <1>2 DEF TypeOK
<1>5. Asking' /\ Locking' /\ Reading'
  BY <1>3 DEF Asking, Locking, Holds, InTransaction, Reading, CurrentRole
<1>6. Counting' /\ AdminRemains'
  BY <1>3 DEF Counting, TakesAdmin, AnotherAdmin, Admins, AdminRemains
<1> QED
  BY <1>4, <1>5, <1>6

(* A request that goes on keeps its change and what it has loaded.         *)
LEMMA Moved ==
  ASSUME TypeOK, NEW r \in Requests, NEW stage \in Stage,
         request' = [request EXCEPT ![r].stage = stage]
  PROVE  /\ request' \in [Requests -> Request]
         /\ request'[r].stage = stage
         /\ request'[r].change = request[r].change
         /\ request'[r].current = request[r].current
         /\ \A o \in Requests : o # r => request'[o] = request[o]
<1> DEFINE q == [stage |-> stage, change |-> request[r].change,
                 current |-> request[r].current]
<1>1. request[r] \in Request
  BY DEF TypeOK
<1>2. q \in Request
  BY <1>1 DEF Request
<1>3. [request[r] EXCEPT !.stage = stage] = q
  BY <1>1 DEF Request
<1>4. request' = [request EXCEPT ![r] = q]
  BY <1>3
<1>5. /\ q.stage = stage /\ q.change = request[r].change
      /\ q.current = request[r].current
  OBVIOUS
<1> HIDE DEF q
<1> QED
  BY <1>2, <1>4, <1>5 DEF TypeOK

LEMMA LockStep ==
  ASSUME IInv, NEW r \in Requests, Lock(r) PROVE IInv'
<1> USE DEF IInv
<1>1. /\ request[r].stage = "authorized" /\ request[r].change \in Change
      /\ request[r].change.kind = "member"
      /\ request[r].change.workspace \in workspaces
      /\ lock[request[r].change.workspace] = None
      /\ UNCHANGED <<workspaces, members, groups>>
  BY DEF Lock, Asking
<1> DEFINE w == request[r].change.workspace
<1>2. /\ request' \in [Requests -> Request]
      /\ \A o \in Requests : o # r => request'[o] = request[o]
  BY Moved DEF Lock, Stage
<1>3. request'[r].stage = "locked" /\ request'[r].change = request[r].change
  BY Moved DEF Lock, Stage
<1>4. w \in AllWorkspaces
  BY <1>1 DEF Change
<1>5. /\ lock'[w] = r
      /\ \A v \in AllWorkspaces : v # w => lock'[v] = lock[v]
      /\ lock' \in [AllWorkspaces -> Requests \cup {None}]
  BY <1>4 DEF TypeOK, Lock
<1>6. TypeOK'
  BY <1>1, <1>2, <1>5 DEF TypeOK
<1>7. Asking'
  BY <1>1, <1>2, <1>3 DEF Asking
<1>8. Locking'
  <2>1. SUFFICES ASSUME NEW o \in Requests, InTransaction(o)' PROVE Holds(o)'
    BY DEF Locking
  <2>2. CASE o = r
    BY <2>2, <1>1, <1>3, <1>5 DEF Holds
  <2>3. CASE o # r
    <3>1. Holds(o)
      BY <2>1, <2>3, <1>2 DEF Locking, InTransaction
    <3>2. request[o].change.workspace # w
      BY <3>1, <1>1, RequestsAssumption DEF Holds
    <3>3. request[o].change.workspace \in AllWorkspaces
      BY <3>1 DEF Holds, TypeOK
    <3> QED
      BY <3>1, <3>2, <3>3, <1>1, <1>2, <1>5, <2>3 DEF Holds
  <2> QED
    BY <2>2, <2>3
<1>9. Reading'
  BY <1>1, <1>2, <1>3 DEF Reading, CurrentRole
<1>10. Counting' /\ AdminRemains'
  BY <1>1, <1>2, <1>3 DEF Counting, TakesAdmin, AnotherAdmin, Admins, AdminRemains
<1> QED
  BY <1>6, <1>7, <1>8, <1>9, <1>10

LEMMA LoadStep ==
  ASSUME IInv, NEW r \in Requests, Load(r) PROVE IInv'
<1> USE DEF IInv
<1>1. /\ Holds(r) /\ request[r].stage = "locked"
      /\ UNCHANGED <<workspaces, members, groups, lock>>
  BY DEF Load, Locking, InTransaction
<1> DEFINE role == members[request[r].change.workspace][request[r].change.who]
<1>2. role \in Roles \cup {None}
  BY <1>1 DEF Holds, Change, TypeOK
<1>3. request'[r] = [request[r] EXCEPT !.stage = "loaded", !.current = role]
  BY DEF TypeOK, Load
<1>4. \A o \in Requests : o # r => request'[o] = request[o]
  BY DEF TypeOK, Load
<1>5. role = members[request[r].change.workspace][request[r].change.who]
  OBVIOUS
<1>6. request' \in [Requests -> Request]
  <2>1. request' = [request EXCEPT ![r] =
          [request[r] EXCEPT !.stage = "loaded", !.current = role]]
    BY DEF Load, TypeOK
  <2>2. [request[r] EXCEPT !.stage = "loaded", !.current = role] \in Request
    BY <1>2 DEF TypeOK, Request, Stage
  <2> QED
    BY <2>1, <2>2 DEF TypeOK
<1> HIDE DEF role
<1>7. /\ request[r] \in Request
      /\ request'[r].stage = "loaded" /\ request'[r].change = request[r].change
      /\ request'[r].current = role
      /\ request'[r] \in Request
  BY <1>2, <1>3 DEF TypeOK, Request, Stage
<1>8. TypeOK'
  BY <1>1, <1>6 DEF TypeOK
<1>9. Asking' /\ Locking'
  BY <1>1, <1>7, <1>4 DEF Asking, Locking, Holds, InTransaction
<1>10. Reading'
  BY <1>1, <1>7, <1>4, <1>5 DEF Reading, CurrentRole
<1>11. Counting'
  BY <1>1, <1>7, <1>4 DEF Counting, TakesAdmin, AnotherAdmin, Admins
<1>12. AdminRemains'
  BY <1>1 DEF AdminRemains, Admins
<1> QED
  BY <1>8, <1>9, <1>10, <1>11, <1>12

LEMMA CountStep ==
  ASSUME IInv, NEW r \in Requests, Count(r) PROVE IInv'
<1> USE DEF IInv
<1>1. /\ Holds(r) /\ CurrentRole(r) /\ request[r].stage = "loaded"
      /\ UNCHANGED <<workspaces, members, groups, lock>>
  BY DEF Count, Locking, InTransaction, Reading
<1>2. /\ request' \in [Requests -> Request]
      /\ \A o \in Requests : o # r => request'[o] = request[o]
  BY Moved DEF Count, Stage
<1>3. /\ request'[r].stage = "checked" /\ request'[r].change = request[r].change
      /\ request'[r].current = request[r].current
  BY Moved DEF Count, Stage
<1>4. TypeOK'
  BY <1>1, <1>2 DEF TypeOK
<1>5. Asking' /\ Locking'
  BY <1>1, <1>2, <1>3 DEF Asking, Locking, Holds, InTransaction
<1>6. Reading' /\ AdminRemains'
  <2>1. Reading'
    BY <1>1, <1>2, <1>3 DEF Reading, CurrentRole
  <2> QED
    BY <2>1, <1>1 DEF Admins, AdminRemains
<1>7. TakesAdmin(r) => AnotherAdmin(r)
  BY AdminsFinite, AnotherMember DEF Count, AnotherAdmin
<1>8. Counting'
  BY <1>1, <1>2, <1>3, <1>7 DEF Counting, TakesAdmin, AnotherAdmin, Admins
<1> QED
  BY <1>4, <1>5, <1>6, <1>8

----------------------------------------------------------------------------
(* The end of a transaction.                                               *)

(* A request becomes idle and its lock is released.                        *)
LEMMA Ended ==
  ASSUME IInv, NEW r \in Requests, InTransaction(r),
         lock' = Unlock(r), request' = [request EXCEPT ![r] = Idle]
  PROVE  /\ Idle \in Request
         /\ lock' \in [AllWorkspaces -> Requests \cup {None}]
         /\ request' \in [Requests -> Request]
         /\ request'[r].stage = "idle"
         /\ \A o \in Requests : o # r => request'[o] = request[o]
         /\ \A o \in Requests : o # r /\ InTransaction(o) =>
              /\ request[o].change.workspace # request[r].change.workspace
              /\ lock'[request[o].change.workspace] = o
<1> USE DEF IInv
<1>1. Idle \in Request
  BY DEF Idle, Request, Stage
<1>2. request' \in [Requests -> Request] /\ request'[r] = Idle
      /\ \A o \in Requests : o # r => request'[o] = request[o]
  BY <1>1 DEF TypeOK
<1>3. lock' \in [AllWorkspaces -> Requests \cup {None}]
  BY DEF TypeOK, Unlock
<1>4. ASSUME NEW o \in Requests, o # r, InTransaction(o)
      PROVE  /\ request[o].change.workspace # request[r].change.workspace
             /\ lock'[request[o].change.workspace] = o
  <2>1. Holds(o) /\ Holds(r)
    BY <1>4 DEF Locking
  <2>2. request[o].change.workspace # request[r].change.workspace
    BY <2>1, <1>4 DEF Holds
  <2>3. request[o].change.workspace \in AllWorkspaces
    BY <2>1 DEF Holds, TypeOK
  <2> QED
    BY <2>1, <2>2, <2>3 DEF Unlock, Holds, TypeOK
<1> QED
  BY <1>1, <1>2, <1>3, <1>4 DEF Idle

LEMMA RollbackStep ==
  ASSUME IInv, NEW r \in Requests, Rollback(r) PROVE IInv'
<1> USE DEF IInv
<1>1. /\ InTransaction(r) /\ lock' = Unlock(r)
      /\ request' = [request EXCEPT ![r] = Idle]
      /\ UNCHANGED <<workspaces, members, groups>>
  BY DEF Rollback
<1>2. /\ lock' \in [AllWorkspaces -> Requests \cup {None}]
      /\ request' \in [Requests -> Request]
      /\ request'[r].stage = "idle"
      /\ \A o \in Requests : o # r => request'[o] = request[o]
      /\ \A o \in Requests : o # r /\ InTransaction(o) =>
           /\ request[o].change.workspace # request[r].change.workspace
           /\ lock'[request[o].change.workspace] = o
  <2>1. IInv
    OBVIOUS
  <2> HIDE DEF IInv
  <2> QED
    BY <1>1, <2>1, Ended, Zenon
<1>3. TypeOK'
  BY <1>1, <1>2 DEF TypeOK
<1>4. Asking' /\ Locking'
  <2>1. UNCHANGED <<workspaces, members, groups>>
    BY <1>1
  <2> QED
    BY <1>2, <2>1 DEF Asking, Locking, Holds, InTransaction
<1>5. Reading' /\ Counting' /\ AdminRemains'
  <2>1. UNCHANGED <<workspaces, members, groups>>
    BY <1>1
  <2>2. Reading'
    BY <1>2, <2>1 DEF Reading, CurrentRole
  <2>3. Counting'
    BY <1>2, <2>1 DEF Counting, TakesAdmin, AnotherAdmin, Admins
  <2>4. AdminRemains'
    BY <2>1 DEF Admins, AdminRemains
  <2> QED
    BY <2>2, <2>3, <2>4
<1> QED
  BY <1>3, <1>4, <1>5

LEMMA CommitStep ==
  ASSUME IInv, NEW r \in Requests, Commit(r) PROVE IInv'
<1> USE DEF IInv, Commit
<1> DEFINE c == request[r].change
<1>1. /\ lock' \in [AllWorkspaces -> Requests \cup {None}]
      /\ request' \in [Requests -> Request]
      /\ request'[r].stage = "idle"
      /\ \A o \in Requests : o # r => request'[o] = request[o]
      /\ \A o \in Requests : o # r /\ InTransaction(o) =>
           /\ request[o].change.workspace # c.workspace
           /\ lock'[request[o].change.workspace] = o
  BY Ended DEF InTransaction
<1>2. /\ Holds(r) /\ CurrentRole(r)
      /\ TakesAdmin(r) => AnotherAdmin(r)
  BY DEF InTransaction, Locking, Reading, Counting
<1>3. /\ c.workspace \in AllWorkspaces /\ c.workspace \in workspaces
      /\ c.who \in Subjects /\ c.role \in Roles \cup {None}
  BY <1>2 DEF Holds, Change
<1>4. /\ members' \in [AllWorkspaces -> [Subjects -> Roles \cup {None}]]
      /\ members'[c.workspace][c.who] = c.role
      /\ \A s \in Subjects : s # c.who =>
           members'[c.workspace][s] = members[c.workspace][s]
      /\ \A v \in AllWorkspaces : v # c.workspace => members'[v] = members[v]
  BY <1>3 DEF TypeOK
<1>5. TypeOK'
  BY <1>1, <1>4 DEF TypeOK
<1>6. Asking' /\ Locking'
  BY <1>1 DEF Asking, Locking, Holds, InTransaction
<1>7. \A o \in Requests : o # r /\ InTransaction(o) =>
        request[o].change.workspace \in AllWorkspaces
  BY DEF Locking, Holds, TypeOK
<1>8. Reading'
  <2>1. SUFFICES ASSUME NEW o \in Requests, request'[o].stage \in {"loaded", "checked"}
                 PROVE  CurrentRole(o)'
    BY DEF Reading
  <2>2. o # r /\ request'[o] = request[o]
    BY <2>1, <1>1
  <2>3. CurrentRole(o) /\ InTransaction(o)
    BY <2>1, <2>2 DEF Reading, InTransaction
  <2>4. members'[request[o].change.workspace] = members[request[o].change.workspace]
    BY <2>2, <2>3, <1>1, <1>4, <1>7
  <2> HIDE DEF Commit
  <2> QED
    BY <2>2, <2>3, <2>4 DEF CurrentRole
<1>9. Counting'
  <2>1. SUFFICES ASSUME NEW o \in Requests,
                        request'[o].stage = "checked", TakesAdmin(o)'
                 PROVE  AnotherAdmin(o)'
    BY DEF Counting
  <2>2. o # r /\ request'[o] = request[o]
    BY <2>1, <1>1
  <2>3. AnotherAdmin(o) /\ InTransaction(o)
    BY <2>1, <2>2 DEF Counting, TakesAdmin, InTransaction
  <2>4. members'[request[o].change.workspace] = members[request[o].change.workspace]
    BY <2>2, <2>3, <1>1, <1>4, <1>7
  <2> HIDE DEF Commit
  <2> QED
    BY <2>2, <2>3, <2>4 DEF AnotherAdmin, Admins
<1>10. AdminRemains'
  <2>1. SUFFICES ASSUME NEW v \in workspaces PROVE \E s \in Subjects : members'[v][s] = "admin"
    BY DEF AdminRemains, Admins
  <2>2. v \in AllWorkspaces /\ \E s \in Subjects : members[v][s] = "admin"
    BY DEF AdminRemains, Admins, TypeOK
  <2>3. CASE v # c.workspace
    BY <2>2, <2>3, <1>4
  <2>4. CASE v = c.workspace /\ c.role = "admin"
    BY <2>4, <1>3, <1>4
  <2>5. CASE v = c.workspace /\ c.role # "admin" /\ request[r].current = "admin"
    <3>1. PICK s \in Admins(c.workspace) : s # c.who
      BY <2>5, <1>2 DEF TakesAdmin, AnotherAdmin
    <3> QED
      BY <3>1, <2>5, <1>4 DEF Admins
  <2>6. CASE v = c.workspace /\ c.role # "admin" /\ request[r].current # "admin"
    <3>1. PICK s \in Subjects : members[v][s] = "admin"
      BY <2>2
    <3>2. s # c.who
      BY <3>1, <2>6, <1>2 DEF CurrentRole
    <3> QED
      BY <3>1, <3>2, <2>6, <1>4
  <2> QED
    BY <2>3, <2>4, <2>5, <2>6
<1> QED
  BY <1>5, <1>6, <1>8, <1>9, <1>10

LEMMA OutsideStep ==
  ASSUME IInv, NEW r \in Requests, ChangeGroup(r) \/ Drop(r) PROVE IInv'
<1> USE DEF IInv
<1>1. Idle \in Request /\ Idle.stage = "idle"
  BY DEF Idle, Request, Stage
<1>2. /\ request' \in [Requests -> Request]
      /\ request'[r].stage = "idle"
      /\ \A o \in Requests : o # r => request'[o] = request[o]
      /\ UNCHANGED <<workspaces, members, lock>>
  BY <1>1 DEF TypeOK, ChangeGroup, Drop
<1>3. groups' \in [AllWorkspaces -> [Groups -> Roles \cup {None}]]
  <2>1. CASE ChangeGroup(r)
    <3>1. request[r].change \in Change /\ request[r].change.kind = "group"
      BY <2>1 DEF Asking, ChangeGroup
    <3>2. /\ request[r].change.workspace \in AllWorkspaces
          /\ request[r].change.who \in Groups
          /\ request[r].change.role \in Roles \cup {None}
      BY <3>1 DEF Change
    <3> QED
      BY <2>1, <3>2 DEF TypeOK, ChangeGroup
  <2>2. CASE Drop(r)
    BY <2>2 DEF TypeOK, Drop
  <2> QED
    BY <2>1, <2>2
<1>4. TypeOK'
  BY <1>2, <1>3 DEF TypeOK
<1>5. Asking' /\ Locking'
  BY <1>2 DEF Asking, Locking, Holds, InTransaction
<1>6. Reading'
  BY <1>2 DEF Reading, CurrentRole
<1>7. Counting' /\ AdminRemains'
  BY <1>2 DEF Counting, TakesAdmin, AnotherAdmin, Admins, AdminRemains
<1> QED
  BY <1>4, <1>5, <1>6, <1>7

LEMMA NextIInv == IInv /\ [Next]_vars => IInv'
<1>1. SUFFICES ASSUME IInv, [Next]_vars PROVE IInv'
  OBVIOUS
<1>2. CASE \E w \in AllWorkspaces, s \in Subjects : CreateWorkspace(w, s)
  BY <1>1, <1>2, CreateStep
<1>3. CASE \E r \in Requests, by \in Subjects, c \in Change : Authorize(r, by, c)
  BY <1>1, <1>3, AuthorizeStep
<1>4. ASSUME NEW r \in Requests, Step(r) PROVE IInv'
  BY <1>1, <1>4, LockStep, LoadStep, CountStep, CommitStep, RollbackStep, OutsideStep
  DEF Step
<1>5. CASE UNCHANGED vars
  BY <1>1, <1>5
  DEF vars, IInv, TypeOK, Asking, Locking, Holds, InTransaction, Reading,
      CurrentRole, Counting, TakesAdmin, AnotherAdmin, Admins, AdminRemains
<1> QED
  BY <1>1, <1>2, <1>3, <1>4, <1>5 DEF Next

LEMMA Invariant == Spec => []IInv
  BY InitIInv, NextIInv, PTL DEF Spec

----------------------------------------------------------------------------

(* The tables, the locks and the requests keep their types.                *)
THEOREM WorkspacesTypeCorrect == Spec => []TypeOK
  BY Invariant, PTL DEF IInv

(* No sequence of overlapping demotions and removals takes the last        *)
(* administrator from a workspace, for any number of them.                 *)
THEOREM AdminAlwaysRemains == Spec => []AdminRemains
  BY Invariant, PTL DEF IInv
============================================================================
