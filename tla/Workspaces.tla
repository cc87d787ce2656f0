----------------------------- MODULE Workspaces -----------------------------
(***************************************************************************)
(* Workspaces, their members and the roles of identity-provider groups     *)
(* (backend/internal/auth/workspaces.go, workspace_http.go).               *)
(*                                                                         *)
(* A request is authorized by one query, outside any transaction, and then *)
(* carried out.  A change of a member is a PostgreSQL transaction that     *)
(* locks the workspace row, loads the member, counts the administrators    *)
(* when it takes the role away from one, writes and commits.  Transactions *)
(* read what is committed, and what one writes is seen at its commit.      *)
(***************************************************************************)
EXTENDS Naturals, FiniteSets

CONSTANTS
  AllWorkspaces,  \* ids workspaces may get
  Subjects,       \* people
  Groups,         \* groups of the identity provider
  GroupsOf,       \* the groups in the session of each subject
  Requests,       \* HTTP requests in progress
  None

ASSUME GroupsAssumption == GroupsOf \in [Subjects -> SUBSET Groups]

ASSUME RequestsAssumption == None \notin Requests

ASSUME SubjectsAssumption == IsFiniteSet(Subjects)

VARIABLES
  workspaces,  \* rows of auth_workspaces
  members,     \* rows of auth_workspace_members: a role or None
  groups,      \* rows of auth_workspace_group_roles: a role or None
  lock,        \* the request whose transaction locks the workspace row
  request      \* the requests

vars == <<workspaces, members, groups, lock, request>>

----------------------------------------------------------------------------

Roles == {"admin", "publisher", "editor", "viewer"}

(* What a request asks for: the new role of a member or a group, or None   *)
(* to remove it.                                                           *)
Change ==
  [workspace : AllWorkspaces, role : Roles \cup {None},
   kind : {"member"}, who : Subjects]
  \cup [workspace : AllWorkspaces, role : Roles \cup {None},
        kind : {"group"}, who : Groups]

(* current is the role the transaction loaded.                             *)
Stage == {"idle", "authorized", "locked", "loaded", "checked"}

Request ==
  [stage : Stage, change : Change \cup {None},
   current : Roles \cup {None}]

Idle == [stage |-> "idle", change |-> None, current |-> None]

Authorized(c) == [stage |-> "authorized", change |-> c, current |-> None]

TypeOK ==
  /\ workspaces \subseteq AllWorkspaces
  /\ members \in [AllWorkspaces -> [Subjects -> Roles \cup {None}]]
  /\ groups \in [AllWorkspaces -> [Groups -> Roles \cup {None}]]
  /\ lock \in [AllWorkspaces -> Requests \cup {None}]
  /\ request \in [Requests -> Request]

Init ==
  /\ workspaces = {}
  /\ members = [w \in AllWorkspaces |-> [s \in Subjects |-> None]]
  /\ groups = [w \in AllWorkspaces |-> [g \in Groups |-> None]]
  /\ lock = [w \in AllWorkspaces |-> None]
  /\ request = [r \in Requests |-> Idle]

Admins(w) == {s \in Subjects : members[w][s] = "admin"}

----------------------------------------------------------------------------
(* RoleForPrincipal: the best of a member's own role and its groups' roles *)
(* is admin exactly when one of them is.                                   *)
IsAdmin(w, s) ==
  \/ members[w][s] = "admin"
  \/ \E g \in GroupsOf[s] : groups[w][g] = "admin"

(* CreateWorkspace, and BootstrapWorkspace when the configured workspace   *)
(* is new: both rows are committed together.                               *)
CreateWorkspace(w, owner) ==
  /\ w \notin workspaces
  /\ workspaces' = workspaces \cup {w}
  /\ members' = [members EXCEPT ![w][owner] = "admin"]
  /\ UNCHANGED <<groups, lock, request>>

(* authorize, and the checks of the input.                                 *)
Authorize(r, by, change) ==
  /\ request[r].stage = "idle"
  /\ IsAdmin(change.workspace, by)
  /\ request' = [request EXCEPT ![r] = Authorized(change)]
  /\ UNCHANGED <<workspaces, members, groups, lock>>

----------------------------------------------------------------------------
(* PutMember and RemoveMember.                                             *)

(* Faulty variant: the workspace row is read without FOR UPDATE.           *)
LockNothing(r) ==
  /\ request[r].stage = "authorized"
  /\ request[r].change.kind = "member"
  /\ request' = [request EXCEPT ![r].stage = "locked"]
  /\ UNCHANGED <<workspaces, members, groups, lock>>

Lock(r) ==
  LET w == request[r].change.workspace IN
  /\ request[r].stage = "authorized"
  /\ request[r].change.kind = "member"
  /\ w \in workspaces
  /\ lock[w] = None
  /\ lock' = [lock EXCEPT ![w] = r]
  /\ request' = [request EXCEPT ![r].stage = "locked"]
  /\ UNCHANGED <<workspaces, members, groups>>

Load(r) ==
  LET c == request[r].change IN
  /\ request[r].stage = "locked"
  /\ ~(c.role = None /\ members[c.workspace][c.who] = None)
  /\ request' = [request EXCEPT ![r].stage = "loaded",
                                ![r].current = members[c.workspace][c.who]]
  /\ UNCHANGED <<workspaces, members, groups, lock>>

(* Faulty variant: only a removal counts as taking the role away.          *)
OnlyRemovals(r) ==
  request[r].current = "admin" /\ request[r].change.role = None

TakesAdmin(r) ==
  request[r].current = "admin" /\ request[r].change.role # "admin"

(* The administrators are counted when the change takes one away.          *)
Count(r) ==
  /\ request[r].stage = "loaded"
  /\ TakesAdmin(r) => Cardinality(Admins(request[r].change.workspace)) > 1
  /\ request' = [request EXCEPT ![r].stage = "checked"]
  /\ UNCHANGED <<workspaces, members, groups, lock>>

Unlock(r) == [lock EXCEPT ![request[r].change.workspace] = None]

(* The row is written and the transaction commits.                         *)
Commit(r) ==
  LET c == request[r].change IN
  /\ request[r].stage = "checked"
  /\ members' = [members EXCEPT ![c.workspace][c.who] = c.role]
  /\ lock' = Unlock(r)
  /\ request' = [request EXCEPT ![r] = Idle]
  /\ UNCHANGED <<workspaces, groups>>

InTransaction(r) == request[r].stage \in {"locked", "loaded", "checked"}

(* Faulty variant: a refused change returns without a rollback.            *)
RollbackForgotten(r) ==
  /\ InTransaction(r)
  /\ request' = [request EXCEPT ![r] = Idle]
  /\ UNCHANGED <<workspaces, members, groups, lock>>

(* A removal of nobody, the last administrator, a failed statement, a      *)
(* client that goes away or a server that stops: the deferred Rollback, or *)
(* the end of the connection, undoes the transaction.                      *)
Rollback(r) ==
  /\ InTransaction(r)
  /\ lock' = Unlock(r)
  /\ request' = [request EXCEPT ![r] = Idle]
  /\ UNCHANGED <<workspaces, members, groups>>

----------------------------------------------------------------------------
(* PutGroupRole and RemoveGroupRole: one statement.  A new row refers to   *)
(* the workspace, so inserting it waits for whoever locks that row.        *)
ChangeGroup(r) ==
  LET c == request[r].change IN
  /\ request[r].stage = "authorized"
  /\ c.kind = "group"
  /\ groups[c.workspace][c.who] = None /\ c.role # None =>
       c.workspace \in workspaces /\ lock[c.workspace] = None
  /\ groups' = [groups EXCEPT ![c.workspace][c.who] = c.role]
  /\ request' = [request EXCEPT ![r] = Idle]
  /\ UNCHANGED <<workspaces, members, lock>>

(* A request that fails before a transaction or a statement of its own.    *)
Drop(r) ==
  /\ request[r].stage = "authorized"
  /\ request' = [request EXCEPT ![r] = Idle]
  /\ UNCHANGED <<workspaces, members, groups, lock>>

----------------------------------------------------------------------------

Step(r) ==
  \/ Lock(r) \/ Load(r) \/ Count(r) \/ Commit(r) \/ Rollback(r)
  \/ ChangeGroup(r) \/ Drop(r)

Next ==
  \/ \E w \in AllWorkspaces, s \in Subjects : CreateWorkspace(w, s)
  \/ \E r \in Requests, by \in Subjects, c \in Change : Authorize(r, by, c)
  \/ \E r \in Requests : Step(r)

Spec == Init /\ [][Next]_vars

(* PostgreSQL grants a row lock in the order it was asked for, so a        *)
(* request whose turn keeps coming gets it; a transaction that holds the   *)
(* lock runs on.  Nothing needs to fail for a request to end, except that  *)
(* the handler ends one that a check refuses.                              *)
Refused(r) ==
  LET c == request[r].change IN
  \/ /\ request[r].stage = "locked"
     /\ c.role = None /\ members[c.workspace][c.who] = None
  \/ /\ request[r].stage = "loaded"
     /\ TakesAdmin(r) /\ Cardinality(Admins(c.workspace)) <= 1

FairSpec ==
  /\ Spec
  /\ \A r \in Requests :
       /\ SF_vars(Lock(r))
       /\ SF_vars(ChangeGroup(r))
       /\ WF_vars(Load(r) \/ Count(r) \/ Commit(r))
       /\ WF_vars(Refused(r) /\ Rollback(r))

----------------------------------------------------------------------------
(* Properties.                                                             *)

(* A workspace keeps at least one member who is its administrator, however *)
(* demotions and removals of several administrators overlap: two of them   *)
(* may demote each other, or leave, at the same time.                      *)
AdminRemains == \A w \in workspaces : Admins(w) # {}

(* Every change that was authorized ends: no transaction that was refused  *)
(* or failed leaves a workspace locked for the others.                     *)
EveryChangeEnds ==
  \A r \in Requests : request[r].stage = "authorized" ~> request[r].stage = "idle"
============================================================================
