----------------------------- MODULE ApiTokens -----------------------------
(***************************************************************************)
(* API tokens: creation, rotation, revocation and authentication           *)
(* (backend/internal/auth/api_tokens.go, token_http.go).                   *)
(*                                                                         *)
(* Creation reads the subject's role and then inserts a row.  Rotation is  *)
(* a transaction that locks the row of the old token, inserts the new one  *)
(* and revokes the old one.  Revocation is one statement, which waits for  *)
(* a transaction that locks the row and then looks at the row again.       *)
(* Authentication is a query that joins token and membership, followed by  *)
(* an update of last_used_at.                                              *)
(*                                                                         *)
(* Who may call the token routes is left out: any request may come in.     *)
(***************************************************************************)
EXTENDS Naturals

CONSTANTS
  Tokens,     \* rows auth_api_tokens may get
  Subjects,   \* holders of tokens
  Scopes,     \* scopes a token may have
  Needs,      \* tokenScopeRoles: the rank of the role a scope asks for
  Ranks,      \* ranks of roles, 0 for none
  Requests,   \* HTTP requests in progress
  MaxNow,     \* bound: clock ticks
  None

ASSUME RanksAssumption == Ranks \subseteq 0..4 /\ 0 \in Ranks

ASSUME NeedsAssumption == Needs \in [Scopes -> 1..4]

ASSUME NoneAssumption == None \notin Tokens /\ None \notin Requests

VARIABLES
  now,       \* the clock of server and database
  role,      \* rank of the role of each subject in the workspace, 0 if none
  token,     \* rows of auth_api_tokens
  lock,      \* the request whose transaction locks a row
  request,   \* the requests
  revoked    \* history: tokens whose revocation was acknowledged

vars == <<now, role, token, lock, request, revoked>>

----------------------------------------------------------------------------

(* parent is history: the token a token replaced.                          *)
Token ==
  [state : {"unused", "live", "revoked"}, subject : Subjects \cup {None},
   scopes : SUBSET Scopes, expires : Nat, parent : Tokens \cup {None}]

Unused == [state |-> "unused", subject |-> None, scopes |-> {},
           expires |-> 0, parent |-> None]

Live(s, scopes, expires, parent) ==
  [state |-> "live", subject |-> s, scopes |-> scopes, expires |-> expires,
   parent |-> parent]

(* seen is the rank a query returned, at the NOW() of a transaction.  dead *)
(* and best are history of an authentication: whether the token was        *)
(* revoked or expired when it began, and the best rank its subject had     *)
(* since then.                                                             *)
Request ==
  [stage : {"idle", "creating", "rotating", "locked", "asking", "found",
            "accepted"},
   token : Tokens \cup {None}, subject : Subjects \cup {None},
   scopes : SUBSET Scopes, seen : Ranks, at : Nat,
   dead : BOOLEAN, best : Ranks]

Idle == [stage |-> "idle", token |-> None, subject |-> None, scopes |-> {},
         seen |-> 0, at |-> 0, dead |-> FALSE, best |-> 0]

Creating(s, scopes) ==
  [stage |-> "creating", token |-> None, subject |-> s, scopes |-> scopes,
   seen |-> 0, at |-> 0, dead |-> FALSE, best |-> 0]

Rotating(t, at) ==
  [stage |-> "rotating", token |-> t, subject |-> None, scopes |-> {},
   seen |-> 0, at |-> at, dead |-> FALSE, best |-> 0]

Asking(t, dead, best) ==
  [stage |-> "asking", token |-> t, subject |-> None, scopes |-> {},
   seen |-> 0, at |-> 0, dead |-> dead, best |-> best]

TypeOK ==
  /\ now \in Nat
  /\ role \in [Subjects -> Ranks]
  /\ token \in [Tokens -> Token]
  /\ lock \in [Tokens -> Requests \cup {None}]
  /\ request \in [Requests -> Request]
  /\ revoked \subseteq Tokens

Init ==
  /\ now = 0
  /\ role = [s \in Subjects |-> 0]
  /\ token = [t \in Tokens |-> Unused]
  /\ lock = [t \in Tokens |-> None]
  /\ request = [r \in Requests |-> Idle]
  /\ revoked = {}

(* roleAllowsScopes, for scopes that are valid.                            *)
Allows(rank, scopes) == rank > 0 /\ \A s \in scopes : rank >= Needs[s]

(* The condition of the queries: expires_at > NOW() AND revoked_at IS NULL *)
Usable(t, at) == token[t].state = "live" /\ token[t].expires > at

Become(r, req) == request' = [request EXCEPT ![r] = req]

----------------------------------------------------------------------------
(* POST tokens: the role is read, then the row is inserted.                *)

ReadTarget(r, s, scopes) ==
  /\ request[r].stage = "idle"
  /\ scopes # {}
  /\ Allows(role[s], scopes)
  /\ Become(r, Creating(s, scopes))
  /\ UNCHANGED <<now, role, token, lock, revoked>>

Create(r, t, expires) ==
  /\ request[r].stage = "creating"
  /\ expires > now
  /\ token[t].state = "unused"
  /\ token' = [token EXCEPT ![t] =
                 Live(request[r].subject, request[r].scopes, expires, None)]
  /\ Become(r, Idle)
  /\ UNCHANGED <<now, role, lock, revoked>>

----------------------------------------------------------------------------
(* RotateWorkspace.                                                        *)

BeginRotation(r, t) ==
  /\ request[r].stage = "idle"
  /\ token[t].state # "unused"
  /\ Become(r, Rotating(t, now))
  /\ UNCHANGED <<now, role, token, lock, revoked>>

(* Faulty variant: the row is read without FOR UPDATE.                     *)
LoadWithoutLock(r) ==
  /\ request[r].stage = "rotating"
  /\ Usable(request[r].token, request[r].at)
  /\ request' = [request EXCEPT ![r].stage = "locked"]
  /\ UNCHANGED <<now, role, token, lock, revoked>>

(* SELECT ... FOR UPDATE waits, and then tests the row as it is.           *)
LockToken(r) ==
  LET t == request[r].token IN
  /\ request[r].stage = "rotating"
  /\ lock[t] = None
  /\ Usable(t, request[r].at)
  /\ lock' = [lock EXCEPT ![t] = r]
  /\ request' = [request EXCEPT ![r].stage = "locked"]
  /\ UNCHANGED <<now, role, token, revoked>>

(* create, with the name, the scopes and the expiry of the old token, the  *)
(* update of the old token, and the commit.                                *)
Rotate(r, u) ==
  LET t == request[r].token IN
  /\ request[r].stage = "locked"
  /\ token[t].expires > now
  /\ token[u].state = "unused"
  /\ token' = [token EXCEPT
       ![u] = Live(token[t].subject, token[t].scopes, token[t].expires, t),
       ![t].state = "revoked"]
  /\ lock' = [lock EXCEPT ![t] = None]
  /\ Become(r, Idle)
  /\ UNCHANGED <<now, role, revoked>>

----------------------------------------------------------------------------
(* RevokeWorkspace.                                                        *)

(* Faulty variant: the statement does not ask whether the row is revoked.  *)
RevokeAgain(t) ==
  /\ token[t].state # "unused"
  /\ lock[t] = None
  /\ token' = [token EXCEPT ![t].state = "revoked"]
  /\ revoked' = revoked \cup {t}
  /\ UNCHANGED <<now, role, lock, request>>

(* One row was updated; with none the answer is that there is no token.    *)
Revoke(t) ==
  /\ token[t].state = "live"
  /\ lock[t] = None
  /\ token' = [token EXCEPT ![t].state = "revoked"]
  /\ revoked' = revoked \cup {t}
  /\ UNCHANGED <<now, role, lock, request>>

----------------------------------------------------------------------------
(* Authenticate.                                                           *)

BeginAsking(r, t) ==
  /\ request[r].stage = "idle"
  /\ token[t].state # "unused"
  /\ Become(r, Asking(t, ~Usable(t, now), role[token[t].subject]))
  /\ UNCHANGED <<now, role, token, lock, revoked>>

(* Faulty variant: the query finds a token by its hash alone.              *)
LookupAny(r) ==
  LET t == request[r].token IN
  /\ request[r].stage = "asking"
  /\ role[token[t].subject] > 0
  /\ request' = [request EXCEPT ![r].stage = "found",
                                ![r].seen = role[token[t].subject]]
  /\ UNCHANGED <<now, role, token, lock, revoked>>

Lookup(r) ==
  LET t == request[r].token IN
  /\ request[r].stage = "asking"
  /\ Usable(t, now)
  /\ role[token[t].subject] > 0
  /\ request' = [request EXCEPT ![r].stage = "found",
                                ![r].seen = role[token[t].subject]]
  /\ UNCHANGED <<now, role, token, lock, revoked>>

(* Faulty variant: membership is enough, the role is not compared.         *)
AcceptMember(r) ==
  LET t == request[r].token IN
  /\ request[r].stage = "found"
  /\ lock[t] = None
  /\ request' = [request EXCEPT ![r].stage = "accepted"]
  /\ UNCHANGED <<now, role, token, lock, revoked>>

(* The checks on what was found; the update of last_used_at waits for a    *)
(* rotation that locks the row, and does not look at the row again.        *)
Accept(r) ==
  LET t == request[r].token IN
  /\ request[r].stage = "found"
  /\ Allows(request[r].seen, token[t].scopes)
  /\ lock[t] = None
  /\ request' = [request EXCEPT ![r].stage = "accepted"]
  /\ UNCHANGED <<now, role, token, lock, revoked>>

----------------------------------------------------------------------------

(* A request is refused, fails or is done; a transaction is rolled back.   *)
End(r) ==
  /\ request[r].stage # "idle"
  /\ lock' = IF request[r].stage = "locked"
               THEN [lock EXCEPT ![request[r].token] = None] ELSE lock
  /\ Become(r, Idle)
  /\ UNCHANGED <<now, role, token, revoked>>

(* PutMember and RemoveMember, committed at any time.                      *)
ChangeRole(s, rank) ==
  /\ role' = [role EXCEPT ![s] = rank]
  /\ request' = [r \in Requests |->
       IF /\ request[r].stage \in {"asking", "found"}
            /\ token[request[r].token].subject = s
            /\ request[r].best < rank
         THEN [request[r] EXCEPT !.best = rank]
         ELSE request[r]]
  /\ UNCHANGED <<now, token, lock, revoked>>

Tick ==
  /\ now < MaxNow
  /\ now' = now + 1
  /\ UNCHANGED <<role, token, lock, request, revoked>>

Step(r) ==
  \/ \E s \in Subjects, scopes \in SUBSET Scopes : ReadTarget(r, s, scopes)
  \/ \E t \in Tokens :
       \/ \E expires \in 1..MaxNow : Create(r, t, expires)
       \/ BeginRotation(r, t) \/ Rotate(r, t)
       \/ BeginAsking(r, t)
  \/ LockToken(r) \/ Lookup(r) \/ Accept(r) \/ End(r)

Next ==
  \/ \E r \in Requests : Step(r)
  \/ \E t \in Tokens : Revoke(t)
  \/ \E s \in Subjects, rank \in Ranks : ChangeRole(s, rank)
  \/ Tick

Spec == Init /\ [][Next]_vars

----------------------------------------------------------------------------
(* Properties.                                                             *)

(* However rotations of a token overlap, it is replaced by one token at    *)
(* most: rotating twice does not leave two tokens alive.                   *)
OneSuccessor ==
  \A u, v \in Tokens :
    token[u].parent # None /\ token[u].parent = token[v].parent => u = v

(* A token whose revocation was acknowledged has no successor: a rotation  *)
(* that overlaps with the revocation either came first, and then the       *)
(* revocation is refused, or is refused itself.                            *)
RevocationFinal ==
  \A t \in revoked : /\ token[t].state = "revoked"
                     /\ \A u \in Tokens : token[u].parent # t

(* A request is never let in with a token that was revoked, rotated or     *)
(* expired when the request came.                                          *)
DeadTokenRefused ==
  \A r \in Requests : request[r].stage = "accepted" => ~request[r].dead

(* A request is let in only with scopes that the role its subject had at   *)
(* some moment of the request allows: a demotion takes effect on tokens    *)
(* that exist, and on one that was being created when it happened.         *)
ScopesWithinRole ==
  \A r \in Requests : request[r].stage = "accepted" =>
    Allows(request[r].best, token[request[r].token].scopes)
============================================================================
