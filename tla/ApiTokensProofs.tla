-------------------------- MODULE ApiTokensProofs --------------------------
(***************************************************************************)
(* Proofs about ApiTokens, for any tokens, subjects, scopes, requests and  *)
(* any length of time: the types, that rotation and revocation of a token  *)
(* exclude each other, and what authentication lets in.                    *)
(***************************************************************************)
EXTENDS ApiTokens, TLAPS

(* A token that was issued has a holder.                                   *)
Held == \A t \in Tokens : token[t].state # "unused" => token[t].subject \in Subjects

(* A token that was replaced is revoked, but not by a revocation.          *)
Replaced ==
  \A t, u \in Tokens :
    token[u].parent = t => token[t].state = "revoked" /\ t \notin revoked

RevokedState == \A t \in revoked : token[t].state = "revoked"

About(r) == request[r].token

(* What is known of a request at each of its stages.                       *)
Issued(r) ==
  request[r].stage \in {"rotating", "locked", "asking", "found", "accepted"} =>
    About(r) \in Tokens /\ token[About(r)].state # "unused"

Creates(r) == request[r].stage = "creating" => request[r].subject \in Subjects

Locks(r) ==
  request[r].stage = "locked" =>
    lock[About(r)] = r /\ token[About(r)].state = "live"

DeadStaysDead(r) ==
  /\ request[r].stage = "asking" /\ request[r].dead => ~Usable(About(r), now)
  /\ request[r].stage \in {"found", "accepted"} => ~request[r].dead

BestRank(r) ==
  /\ request[r].stage = "asking" => request[r].best >= role[token[About(r)].subject]
  /\ request[r].stage = "found" => request[r].best >= request[r].seen
  /\ request[r].stage = "accepted" =>
       Allows(request[r].best, token[About(r)].scopes)

Sound(r) ==
  Issued(r) /\ Creates(r) /\ Locks(r) /\ DeadStaysDead(r) /\ BestRank(r)

IInv ==
  /\ TypeOK
  /\ Held /\ Replaced /\ RevokedState /\ OneSuccessor
  /\ \A r \in Requests : Sound(r)

----------------------------------------------------------------------------

(* What no step does to a token: it is not taken back, its holder, scopes  *)
(* and expiry are not changed, and it does not come to life again.         *)
Stable(t) ==
  token[t].state # "unused" =>
    /\ token'[t].state # "unused"
    /\ token'[t].state = "live" => token[t].state = "live"
    /\ token'[t].subject = token[t].subject
    /\ token'[t].scopes = token[t].scopes
    /\ token'[t].expires = token[t].expires

(* A request that a step leaves alone stays sound.                         *)
LEMMA Frame ==
  ASSUME IInv, NEW o \in Requests, request'[o] = request[o],
         \A t \in Tokens : Stable(t),
         role' = role, now' \in {now, now + 1},
         request[o].stage = "locked" =>
           lock'[About(o)] = o /\ token'[About(o)].state = "live"
  PROVE  Sound(o)'
<1> USE DEF About
<1>1. Sound(o) /\ now \in Nat
  BY DEF IInv, TypeOK
<1>2. Issued(o)' /\ Creates(o)' /\ Locks(o)'
  BY <1>1 DEF Sound, Issued, Creates, Locks, Stable
<1>3. \A t \in Tokens : token[t] \in Token
  BY DEF IInv, TypeOK
<1>4. ASSUME request[o].stage = "asking", request[o].dead
      PROVE  ~Usable(About(o), now)'
  <2>1. About(o) \in Tokens /\ token[About(o)].state # "unused" /\ ~Usable(About(o), now)
    BY <1>1, <1>4 DEF Sound, Issued, DeadStaysDead
  <2>2. /\ token'[About(o)].state = "live" => token[About(o)].state = "live"
        /\ token'[About(o)].expires = token[About(o)].expires
    BY <2>1 DEF Stable
  <2>3. token[About(o)].expires \in Nat
    BY <2>1, <1>3 DEF Token
  <2>4. CASE token[About(o)].state # "live"
    BY <2>2, <2>4 DEF Usable
  <2>5. CASE ~(token[About(o)].expires > now)
    <3>1. ~(token[About(o)].expires > now')
      BY <2>3, <2>5, <1>1
    <3> QED
      BY <3>1, <2>2 DEF Usable
  <2> QED
    BY <2>1, <2>4, <2>5 DEF Usable
<1>5. DeadStaysDead(o)'
  BY <1>1, <1>4 DEF Sound, DeadStaysDead
<1>6. BestRank(o)'
  BY <1>1 DEF Sound, BestRank, Issued, Stable
<1> QED
  BY <1>2, <1>5, <1>6 DEF Sound

(* A step that changes no token leaves them as they were.                  *)
LEMMA TokensKept ==
  ASSUME UNCHANGED <<token, revoked>>, Held, Replaced, RevokedState, OneSuccessor
  PROVE  /\ Held' /\ Replaced' /\ RevokedState' /\ OneSuccessor'
         /\ \A t \in Tokens : Stable(t)
BY DEF Held, Replaced, RevokedState, OneSuccessor, Stable

LEMMA InitIInv == Init => IInv
<1>1. SUFFICES ASSUME Init PROVE IInv
  OBVIOUS
<1>2. Unused \in Token /\ Idle \in Request
  BY RanksAssumption DEF Unused, Token, Idle, Request
<1>3. TypeOK
  BY <1>1, <1>2, RanksAssumption DEF Init, TypeOK
<1>4. Held /\ Replaced /\ RevokedState /\ OneSuccessor
  BY <1>1, NoneAssumption DEF Init, Held, Replaced, RevokedState, OneSuccessor, Unused
<1>5. \A r \in Requests : Sound(r)
  BY <1>1 DEF Init, Idle, Sound, Issued, Creates, Locks, DeadStaysDead, BestRank
<1> QED
  BY <1>3, <1>4, <1>5 DEF IInv

----------------------------------------------------------------------------
(* Steps of one request that change no row.                                *)

(* The request gets a new record, and the rest follows from Frame.         *)
LEMMA Advance ==
  ASSUME IInv, NEW r \in Requests, NEW q \in Request,
         request' = [request EXCEPT ![r] = q],
         UNCHANGED <<now, role, token, revoked>>,
         lock' \in [Tokens -> Requests \cup {None}],
         \A t \in Tokens : lock[t] \notin {r, None} => lock'[t] = lock[t],
         Sound(r)'
  PROVE  IInv'
<1>1. /\ request' \in [Requests -> Request]
      /\ \A o \in Requests : o # r => request'[o] = request[o]
  BY DEF IInv, TypeOK
<1>2. TypeOK'
  BY <1>1 DEF IInv, TypeOK
<1>3. /\ Held' /\ Replaced' /\ RevokedState' /\ OneSuccessor'
      /\ \A t \in Tokens : Stable(t)
  BY TokensKept DEF IInv
<1>4. ASSUME NEW o \in Requests PROVE Sound(o)'
  <2>1. CASE o = r
    BY <2>1
  <2>2. CASE o # r
    <3>1. request[o].stage = "locked" =>
            lock'[About(o)] = o /\ token'[About(o)].state = "live"
      BY <2>2, NoneAssumption DEF IInv, Sound, Issued, Locks
    <3> QED
      BY <3>1, <2>2, <1>1, <1>3, Frame
  <2> QED
    BY <2>1, <2>2
<1> QED
  BY <1>2, <1>3, <1>4 DEF IInv

LEMMA ReadTargetStep ==
  ASSUME IInv, NEW r \in Requests, NEW s \in Subjects, NEW scopes \in SUBSET Scopes,
         ReadTarget(r, s, scopes)
  PROVE  IInv'
<1> DEFINE q == Creating(s, scopes)
<1>1. q \in Request /\ q.stage = "creating" /\ q.subject = s
  BY RanksAssumption DEF Creating, Request
<1>2. request' = [request EXCEPT ![r] = q] /\ request'[r] = q
  BY DEF ReadTarget, Become, IInv, TypeOK
<1> HIDE DEF q
<1>3. Sound(r)'
  BY <1>1, <1>2 DEF Sound, Issued, Creates, Locks, DeadStaysDead, BestRank
<1> QED
  BY <1>1, <1>2, <1>3, Advance DEF ReadTarget, IInv, TypeOK

LEMMA BeginRotationStep ==
  ASSUME IInv, NEW r \in Requests, NEW t \in Tokens, BeginRotation(r, t)
  PROVE  IInv'
<1> DEFINE q == Rotating(t, now)
<1>1. q \in Request /\ q.stage = "rotating" /\ q.token = t
  BY RanksAssumption DEF Rotating, Request, IInv, TypeOK
<1>2. request' = [request EXCEPT ![r] = q] /\ request'[r] = q
  BY DEF BeginRotation, Become, IInv, TypeOK
<1> HIDE DEF q
<1>3. Sound(r)'
  BY <1>1, <1>2
  DEF Sound, Issued, Creates, Locks, DeadStaysDead, BestRank, About, BeginRotation
<1> QED
  BY <1>1, <1>2, <1>3, Advance DEF BeginRotation, IInv, TypeOK

LEMMA LockTokenStep ==
  ASSUME IInv, NEW r \in Requests, LockToken(r) PROVE IInv'
<1> DEFINE q == [request[r] EXCEPT !.stage = "locked"]
           t == request[r].token
<1>1. request[r] \in Request
  BY DEF IInv, TypeOK
<1>2. q \in Request /\ q.stage = "locked" /\ q.token = t
  BY <1>1 DEF Request
<1>3. request' = [request EXCEPT ![r] = q] /\ request'[r] = q
  BY DEF LockToken, IInv, TypeOK
<1>4. t \in Tokens /\ token[t].state = "live" /\ lock[t] = None
  BY DEF LockToken, IInv, Sound, Issued, About, Usable
<1>5. lock' = [lock EXCEPT ![t] = r]
  BY DEF LockToken
<1> HIDE DEF q, t
<1>6. /\ lock' \in [Tokens -> Requests \cup {None}] /\ lock'[t] = r
      /\ \A u \in Tokens : lock[u] \notin {r, None} => lock'[u] = lock[u]
  BY <1>4, <1>5 DEF IInv, TypeOK
<1>7. UNCHANGED <<now, role, token, revoked>>
  BY DEF LockToken
<1>8. Sound(r)'
  BY <1>2, <1>3, <1>4, <1>6, <1>7
  DEF Sound, Issued, Creates, Locks, DeadStaysDead, BestRank, About
<1> QED
  BY <1>2, <1>3, <1>6, <1>7, <1>8, Advance

LEMMA BeginAskingStep ==
  ASSUME IInv, NEW r \in Requests, NEW t \in Tokens, BeginAsking(r, t)
  PROVE  IInv'
<1> DEFINE dead == ~Usable(t, now)
           best == role[token[t].subject]
           q == Asking(t, dead, best)
<1>1. best \in Ranks /\ dead \in BOOLEAN
  BY DEF BeginAsking, IInv, TypeOK, Held, Usable
<1>2. request' = [request EXCEPT ![r] = q] /\ request'[r] = q
  BY DEF BeginAsking, Become, IInv, TypeOK
<1>3. /\ token[t].state # "unused"
      /\ UNCHANGED <<now, role, token, lock, revoked>>
  BY DEF BeginAsking
<1>4. (dead => ~Usable(t, now)) /\ best = role[token[t].subject]
  OBVIOUS
<1> HIDE DEF dead, best
<1>5. q \in Request /\ q.stage = "asking" /\ q.token = t /\ q.best = best
  BY <1>1, RanksAssumption DEF Asking, Request
<1>6. q.dead = dead
  BY DEF Asking
<1> HIDE DEF q
<1>7. request'[r].dead => ~Usable(t, now)'
  BY <1>2, <1>3, <1>4, <1>6 DEF Usable
<1>8. best >= best
  BY <1>1, RanksAssumption
<1>9. Sound(r)'
  BY <1>2, <1>3, <1>4, <1>5, <1>7, <1>8
  DEF Sound, Issued, Creates, Locks, DeadStaysDead, BestRank, About
<1> QED
  BY <1>2, <1>3, <1>5, <1>9, Advance DEF IInv, TypeOK

LEMMA LookupStep ==
  ASSUME IInv, NEW r \in Requests, Lookup(r) PROVE IInv'
<1> DEFINE seen == role[token[request[r].token].subject]
           q == [request[r] EXCEPT !.stage = "found", !.seen = seen]
<1>1. /\ request[r] \in Request /\ About(r) \in Tokens
      /\ token[About(r)].state # "unused"
      /\ request[r].best >= seen /\ ~request[r].dead
  BY DEF Lookup, IInv, TypeOK, Sound, Issued, DeadStaysDead, BestRank, About
<1>2. seen \in Ranks
  BY <1>1 DEF IInv, TypeOK, Held, About
<1>3. request' = [request EXCEPT ![r] = q] /\ request'[r] = q
  BY DEF Lookup, IInv, TypeOK
<1>4. UNCHANGED <<now, role, token, lock, revoked>>
  BY DEF Lookup
<1> HIDE DEF seen
<1>5. /\ q \in Request /\ q.stage = "found" /\ q.token = request[r].token
      /\ q.seen = seen /\ q.best = request[r].best /\ q.dead = request[r].dead
  BY <1>1, <1>2 DEF Request
<1> HIDE DEF q
<1>6. Sound(r)'
  BY <1>1, <1>3, <1>4, <1>5
  DEF Sound, Issued, Creates, Locks, DeadStaysDead, BestRank, About
<1> QED
  BY <1>3, <1>4, <1>5, <1>6, Advance DEF IInv, TypeOK

(* A better rank allows what a rank allows.                                *)
LEMMA AllowsMore ==
  ASSUME NEW a \in Ranks, NEW b \in Ranks, b >= a, NEW scopes \in SUBSET Scopes,
         Allows(a, scopes)
  PROVE  Allows(b, scopes)
<1>1. a \in 0..4 /\ b \in 0..4
  BY RanksAssumption
<1>2. \A s \in scopes : Needs[s] \in 1..4
  BY NeedsAssumption
<1> QED
  BY <1>1, <1>2 DEF Allows

LEMMA AcceptStep ==
  ASSUME IInv, NEW r \in Requests, Accept(r) PROVE IInv'
<1> DEFINE q == [request[r] EXCEPT !.stage = "accepted"]
<1>1. /\ request[r] \in Request /\ About(r) \in Tokens
      /\ token[About(r)].state # "unused"
      /\ request[r].best >= request[r].seen /\ ~request[r].dead
      /\ Allows(request[r].seen, token[About(r)].scopes)
  BY DEF Accept, IInv, TypeOK, Sound, Issued, DeadStaysDead, BestRank, About
<1>2. request' = [request EXCEPT ![r] = q] /\ request'[r] = q
  BY DEF Accept, IInv, TypeOK
<1>3. UNCHANGED <<now, role, token, lock, revoked>>
  BY DEF Accept
<1>4. /\ q \in Request /\ q.stage = "accepted" /\ q.token = request[r].token
      /\ q.best = request[r].best /\ q.dead = request[r].dead
      /\ request[r].seen \in Ranks /\ request[r].best \in Ranks
  BY <1>1 DEF Request
<1> HIDE DEF q
<1>5. token[About(r)].scopes \in SUBSET Scopes
  BY <1>1 DEF IInv, TypeOK, Token
<1>6. Allows(request[r].best, token[About(r)].scopes)
  BY <1>1, <1>4, <1>5, AllowsMore
<1>7. About(r)' = About(r) /\ request'[r].best = request[r].best
  BY <1>2, <1>4 DEF About
<1>8. Allows(request'[r].best, token'[About(r)'].scopes)
  BY <1>3, <1>6, <1>7
<1>9. Sound(r)'
  BY <1>1, <1>2, <1>3, <1>4, <1>7, <1>8
  DEF Sound, Issued, Creates, Locks, DeadStaysDead, BestRank
<1> QED
  BY <1>2, <1>3, <1>4, <1>9, Advance DEF IInv, TypeOK

LEMMA EndStep ==
  ASSUME IInv, NEW r \in Requests, End(r) PROVE IInv'
<1>1. Idle \in Request /\ Idle.stage = "idle"
  BY RanksAssumption DEF Idle, Request
<1>2. request' = [request EXCEPT ![r] = Idle] /\ request'[r] = Idle
  BY DEF End, Become, IInv, TypeOK
<1>3. UNCHANGED <<now, role, token, revoked>>
  BY DEF End
<1>4. lock' \in [Tokens -> Requests \cup {None}]
  BY DEF End, IInv, TypeOK
<1>5. \A t \in Tokens : lock[t] \notin {r, None} => lock'[t] = lock[t]
  <2>1. CASE request[r].stage = "locked"
    <3>1. request[r].token \in Tokens /\ lock[request[r].token] = r
      BY <2>1 DEF IInv, Sound, Locks, Issued, About
    <3>2. lock' = [lock EXCEPT ![request[r].token] = None]
      BY <2>1 DEF End
    <3> QED
      BY <3>1, <3>2 DEF IInv, TypeOK
  <2>2. CASE request[r].stage # "locked"
    BY <2>2 DEF End
  <2> QED
    BY <2>1, <2>2
<1>6. Sound(r)'
  BY <1>1, <1>2 DEF Sound, Issued, Creates, Locks, DeadStaysDead, BestRank
<1> QED
  BY <1>1, <1>2, <1>3, <1>4, <1>5, <1>6, Advance
----------------------------------------------------------------------------
(* Steps that change rows.                                                 *)

LEMMA CreateStep ==
  ASSUME IInv, NEW r \in Requests, NEW t \in Tokens, NEW expires \in 1..MaxNow,
         Create(r, t, expires)
  PROVE  IInv'
<1> DEFINE row == Live(request[r].subject, request[r].scopes, expires, None)
<1>1. request[r] \in Request /\ request[r].subject \in Subjects
  BY DEF Create, IInv, TypeOK, Sound, Creates
<1>2. /\ row \in Token /\ row.state = "live" /\ row.parent = None
      /\ row.subject \in Subjects
  BY <1>1 DEF Live, Token, Request
<1>3. Idle \in Request /\ Idle.stage = "idle"
  BY RanksAssumption DEF Idle, Request
<1>4. /\ token' = [token EXCEPT ![t] = row] /\ token[t].state = "unused"
      /\ request' = [request EXCEPT ![r] = Idle] /\ request[r].stage = "creating"
      /\ UNCHANGED <<now, role, lock, revoked>>
  BY DEF Create, Become
<1> HIDE DEF row
<1>5. /\ token' \in [Tokens -> Token] /\ request' \in [Requests -> Request]
      /\ token'[t] = row /\ \A u \in Tokens : u # t => token'[u] = token[u]
      /\ request'[r] = Idle
      /\ \A o \in Requests : o # r => request'[o] = request[o]
  BY <1>2, <1>3, <1>4 DEF IInv, TypeOK
<1>6. TypeOK'
  BY <1>4, <1>5 DEF IInv, TypeOK
<1>7. t \notin revoked
  BY <1>4 DEF IInv, RevokedState
<1>8. Held' /\ Replaced' /\ RevokedState' /\ OneSuccessor'
  BY <1>2, <1>4, <1>5, <1>7, NoneAssumption
  DEF IInv, Held, Replaced, RevokedState, OneSuccessor
<1>9. \A u \in Tokens : Stable(u)
  BY <1>4, <1>5 DEF Stable
<1>10. ASSUME NEW o \in Requests PROVE Sound(o)'
  <2>1. CASE o = r
    BY <2>1, <1>3, <1>5
    DEF Sound, Issued, Creates, Locks, DeadStaysDead, BestRank
  <2>2. CASE o # r
    <3>1. request[o].stage = "locked" =>
            lock'[About(o)] = o /\ token'[About(o)].state = "live"
      BY <1>4, <1>5 DEF IInv, Sound, Issued, Locks
    <3> QED
      BY <2>2, <3>1, <1>4, <1>5, <1>9, Frame
  <2> QED
    BY <2>1, <2>2
<1> QED
  BY <1>6, <1>8, <1>10 DEF IInv
LEMMA RotateStep ==
  ASSUME IInv, NEW r \in Requests, NEW u \in Tokens, Rotate(r, u)
  PROVE  IInv'
<1> DEFINE t == request[r].token
           new == Live(token[t].subject, token[t].scopes, token[t].expires, t)
           old == [token[t] EXCEPT !.state = "revoked"]
<1>1. /\ t \in Tokens /\ token[t] \in Token /\ token[t].state = "live"
      /\ lock[t] = r /\ token[t].subject \in Subjects
  BY DEF Rotate, IInv, TypeOK, Sound, Issued, Locks, Held, About
<1>2. token[u].state = "unused" /\ u # t
  BY <1>1 DEF Rotate
<1>3. /\ new \in Token /\ new.state = "live" /\ new.parent = t
      /\ new.subject \in Subjects
  BY <1>1 DEF Live, Token
<1>4. /\ old \in Token /\ old.state = "revoked" /\ old.parent = token[t].parent
      /\ old.subject = token[t].subject /\ old.scopes = token[t].scopes
      /\ old.expires = token[t].expires
  BY <1>1 DEF Token
<1>5. Idle \in Request /\ Idle.stage = "idle"
  BY RanksAssumption DEF Idle, Request
<1>6. token' = [token EXCEPT ![u] = new, ![t] = old]
  BY <1>2, <1>1 DEF Rotate, IInv, TypeOK
<1>7. /\ lock' = [lock EXCEPT ![t] = None]
      /\ request' = [request EXCEPT ![r] = Idle]
      /\ UNCHANGED <<now, role, revoked>>
  BY DEF Rotate, Become
<1> HIDE DEF new, old, t
<1>8. /\ token' \in [Tokens -> Token] /\ request' \in [Requests -> Request]
      /\ lock' \in [Tokens -> Requests \cup {None}]
      /\ token'[u] = new /\ token'[t] = old
      /\ \A v \in Tokens : v # u /\ v # t => token'[v] = token[v]
      /\ request'[r] = Idle
      /\ \A o \in Requests : o # r => request'[o] = request[o]
  BY <1>1, <1>2, <1>3, <1>4, <1>5, <1>6, <1>7 DEF IInv, TypeOK
<1>9. TypeOK'
  BY <1>7, <1>8 DEF IInv, TypeOK
<1>10. /\ t \notin revoked /\ u \notin revoked
       /\ \A v \in Tokens : token[v].parent # t /\ token[v].parent # u
  BY <1>1, <1>2 DEF IInv, RevokedState, Replaced
<1>11. Held' /\ RevokedState'
  BY <1>1, <1>3, <1>4, <1>7, <1>8, <1>10 DEF IInv, TypeOK, Held, RevokedState
<1>12. /\ token'[u].parent = t
       /\ \A v \in Tokens : v # u => token'[v].parent = token[v].parent
  BY <1>3, <1>4, <1>8
<1>13. OneSuccessor'
  BY <1>10, <1>12 DEF IInv, OneSuccessor
<1>14. Replaced'
  <2>1. SUFFICES ASSUME NEW v \in Tokens, NEW w \in Tokens, token'[w].parent = v
                 PROVE  token'[v].state = "revoked" /\ v \notin revoked
    BY <1>7 DEF Replaced
  <2>2. CASE w = u
    BY <2>1, <2>2, <1>4, <1>8, <1>10, <1>12
  <2>3. CASE w # u
    BY <2>1, <2>3, <1>8, <1>10, <1>12 DEF IInv, Replaced
  <2> QED
    BY <2>2, <2>3
<1>15. \A v \in Tokens : Stable(v)
  BY <1>1, <1>2, <1>4, <1>8 DEF Stable
<1>16. ASSUME NEW o \in Requests PROVE Sound(o)'
  <2>1. CASE o = r
    BY <2>1, <1>5, <1>8
    DEF Sound, Issued, Creates, Locks, DeadStaysDead, BestRank
  <2>2. CASE o # r
    <3>1. ASSUME request[o].stage = "locked"
          PROVE  lock'[About(o)] = o /\ token'[About(o)].state = "live"
      <4>1. /\ About(o) \in Tokens /\ lock[About(o)] = o
            /\ token[About(o)].state = "live"
        BY <3>1 DEF IInv, Sound, Issued, Locks
      <4>2. About(o) # t /\ About(o) # u
        BY <4>1, <2>2, <1>1, <1>2
      <4> QED
        BY <4>1, <4>2, <1>7, <1>8 DEF IInv, TypeOK
    <3> QED
      BY <3>1, <2>2, <1>7, <1>8, <1>15, Frame
  <2> QED
    BY <2>1, <2>2
<1> QED
  BY <1>9, <1>11, <1>13, <1>14, <1>16 DEF IInv

LEMMA RevokeStep ==
  ASSUME IInv, NEW t \in Tokens, Revoke(t) PROVE IInv'
<1> DEFINE old == [token[t] EXCEPT !.state = "revoked"]
<1>1. /\ token[t] \in Token /\ token[t].state = "live" /\ lock[t] = None
  BY DEF Revoke, IInv, TypeOK
<1>2. /\ old \in Token /\ old.state = "revoked" /\ old.parent = token[t].parent
      /\ old.subject = token[t].subject /\ old.scopes = token[t].scopes
      /\ old.expires = token[t].expires
  BY <1>1 DEF Token
<1>3. /\ token' = [token EXCEPT ![t] = old] /\ revoked' = revoked \cup {t}
      /\ UNCHANGED <<now, role, lock, request>>
  BY DEF Revoke
<1> HIDE DEF old
<1>4. /\ token' \in [Tokens -> Token] /\ token'[t] = old
      /\ \A u \in Tokens : u # t => token'[u] = token[u]
  BY <1>2, <1>3 DEF IInv, TypeOK
<1>5. TypeOK'
  BY <1>3, <1>4 DEF IInv, TypeOK
<1>6. \A u \in Tokens : token'[u].parent = token[u].parent /\ token[u].parent # t
  BY <1>1, <1>2, <1>4 DEF IInv, Replaced
<1>7. Held' /\ Replaced' /\ RevokedState' /\ OneSuccessor'
  BY <1>1, <1>2, <1>3, <1>4, <1>6
  DEF IInv, Held, Replaced, RevokedState, OneSuccessor
<1>8. \A u \in Tokens : Stable(u)
  BY <1>1, <1>2, <1>4 DEF Stable
<1>9. ASSUME NEW o \in Requests PROVE Sound(o)'
  <2>1. request[o].stage = "locked" =>
          lock'[About(o)] = o /\ token'[About(o)].state = "live"
    BY <1>1, <1>3, <1>4, NoneAssumption DEF IInv, Sound, Issued, Locks
  <2> QED
    BY <2>1, <1>3, <1>8, Frame
<1> QED
  BY <1>5, <1>7, <1>9 DEF IInv

----------------------------------------------------------------------------
(* The environment.                                                        *)

LEMMA ChangeRoleStep ==
  ASSUME IInv, NEW s \in Subjects, NEW rank \in Ranks, ChangeRole(s, rank)
  PROVE  IInv'
<1> USE DEF About
<1>1. /\ role' = [role EXCEPT ![s] = rank]
      /\ UNCHANGED <<now, token, lock, revoked>>
  BY DEF ChangeRole
<1> DEFINE Raised(o) == [request[o] EXCEPT !.best = rank]
<1>2. ASSUME NEW o \in Requests
      PROVE  /\ request'[o] \in Request
             /\ Sound(o)'
  <2>1. request[o] \in Request /\ Sound(o)
    BY DEF IInv, TypeOK
  <2>2. /\ Raised(o) \in Request /\ Raised(o).stage = request[o].stage
        /\ Raised(o).token = request[o].token
        /\ Raised(o).subject = request[o].subject
        /\ Raised(o).seen = request[o].seen
        /\ Raised(o).dead = request[o].dead /\ Raised(o).best = rank
    BY <2>1 DEF Request
  <2>3. rank \in 0..4 /\ request[o].best \in 0..4 /\ request[o].seen \in 0..4
    BY <2>1, RanksAssumption DEF Request
  <2>4. CASE /\ request[o].stage \in {"asking", "found"}
             /\ token[request[o].token].subject = s
             /\ request[o].best < rank
    <3>1. request'[o] = Raised(o)
      BY <2>4 DEF ChangeRole
    <3> HIDE DEF Raised
    <3>2. Issued(o)' /\ Creates(o)' /\ Locks(o)' /\ DeadStaysDead(o)'
      BY <3>1, <2>1, <2>2, <2>4, <1>1
      DEF Sound, Issued, Creates, Locks, DeadStaysDead, Usable
    <3>3. request[o].token \in Tokens /\ token[request[o].token].subject = s
      BY <2>1, <2>4 DEF Sound, Issued
    <3>4. role'[s] = rank
      BY <1>1 DEF IInv, TypeOK
    <3>5. rank >= rank
      BY <2>3
    <3>6. request[o].stage = "found" => request[o].best >= request[o].seen
      BY <2>1 DEF Sound, BestRank
    <3>7. request[o].stage = "found" => rank >= request[o].seen
      BY <3>6, <2>3, <2>4
    <3>8. BestRank(o)'
      BY <3>1, <3>3, <3>4, <3>5, <3>7, <2>2, <2>4, <1>1 DEF BestRank
    <3> QED
      BY <3>1, <3>2, <3>8, <2>2 DEF Sound
  <2>5. CASE ~(/\ request[o].stage \in {"asking", "found"}
               /\ token[request[o].token].subject = s
               /\ request[o].best < rank)
    <3>1. request'[o] = request[o]
      BY <2>5 DEF ChangeRole
    <3>2. Issued(o)' /\ Creates(o)' /\ Locks(o)' /\ DeadStaysDead(o)'
      BY <3>1, <2>1, <1>1
      DEF Sound, Issued, Creates, Locks, DeadStaysDead, Usable
    <3>3. ASSUME request[o].stage = "asking"
          PROVE  request[o].best >= role'[token[request[o].token].subject]
      <4>1. /\ request[o].token \in Tokens
            /\ token[request[o].token].subject \in Subjects
            /\ request[o].best >= role[token[request[o].token].subject]
        BY <3>3, <2>1 DEF Sound, Issued, BestRank, IInv, Held
      <4>2. CASE token[request[o].token].subject = s
        <5>1. ~(request[o].best < rank) /\ role'[s] = rank
          BY <4>2, <2>5, <3>3, <1>1 DEF IInv, TypeOK
        <5>2. request[o].best >= rank
          BY <5>1, <2>3
        <5> QED
          BY <5>1, <5>2, <4>2
      <4>3. CASE token[request[o].token].subject # s
        BY <4>1, <4>3, <1>1 DEF IInv, TypeOK
      <4> QED
        BY <4>2, <4>3
    <3>4. BestRank(o)'
      BY <3>1, <3>3, <2>1, <1>1 DEF Sound, BestRank
    <3> QED
      BY <3>1, <3>2, <3>4, <2>1 DEF Sound
  <2> QED
    BY <2>4, <2>5
<1>3. request' \in [Requests -> Request]
  <2>1. request' = [o \in Requests |-> request'[o]]
    BY DEF ChangeRole
  <2> QED
    BY <2>1, <1>2
<1>4. TypeOK'
  BY <1>1, <1>3 DEF IInv, TypeOK
<1>5. Held' /\ Replaced' /\ RevokedState' /\ OneSuccessor'
  BY <1>1, TokensKept DEF IInv
<1> QED
  BY <1>2, <1>4, <1>5 DEF IInv

LEMMA TickStep == ASSUME IInv, Tick PROVE IInv'
<1>1. now' = now + 1 /\ UNCHANGED <<role, token, lock, request, revoked>>
  BY DEF Tick
<1>2. TypeOK'
  BY <1>1 DEF IInv, TypeOK
<1>3. /\ Held' /\ Replaced' /\ RevokedState' /\ OneSuccessor'
      /\ \A t \in Tokens : Stable(t)
  BY <1>1, TokensKept DEF IInv
<1>4. ASSUME NEW o \in Requests PROVE Sound(o)'
  BY <1>1, <1>3, Frame DEF IInv, Sound, Locks
<1> QED
  BY <1>2, <1>3, <1>4 DEF IInv

LEMMA NextIInv == IInv /\ [Next]_vars => IInv'
<1>1. SUFFICES ASSUME IInv, [Next]_vars PROVE IInv'
  OBVIOUS
<1>2. ASSUME NEW r \in Requests, Step(r) PROVE IInv'
  <2>1. CASE \E s \in Subjects, scopes \in SUBSET Scopes : ReadTarget(r, s, scopes)
    BY <1>1, <2>1, ReadTargetStep
  <2>2. CASE \E t \in Tokens : \E expires \in 1..MaxNow : Create(r, t, expires)
    BY <1>1, <2>2, CreateStep
  <2>3. CASE \E t \in Tokens :
               BeginRotation(r, t) \/ Rotate(r, t) \/ BeginAsking(r, t)
    BY <1>1, <2>3, BeginRotationStep, RotateStep, BeginAskingStep
  <2>4. CASE LockToken(r) \/ Lookup(r) \/ Accept(r) \/ End(r)
    BY <1>1, <2>4, LockTokenStep, LookupStep, AcceptStep, EndStep
  <2> QED
    BY <1>2, <2>1, <2>2, <2>3, <2>4 DEF Step
<1>3. CASE \E t \in Tokens : Revoke(t)
  BY <1>1, <1>3, RevokeStep
<1>4. CASE \E s \in Subjects, rank \in Ranks : ChangeRole(s, rank)
  BY <1>1, <1>4, ChangeRoleStep
<1>5. CASE Tick
  BY <1>1, <1>5, TickStep
<1>6. CASE UNCHANGED vars
  <2>1. UNCHANGED <<now, role, token, lock, request, revoked>>
    BY <1>6 DEF vars
  <2>2. /\ Held' /\ Replaced' /\ RevokedState' /\ OneSuccessor'
        /\ \A t \in Tokens : Stable(t)
    BY <1>1, <2>1, TokensKept DEF IInv
  <2>3. ASSUME NEW o \in Requests PROVE Sound(o)'
    BY <1>1, <2>1, <2>2, Frame DEF IInv, Sound, Locks
  <2>4. TypeOK'
    BY <1>1, <2>1 DEF IInv, TypeOK
  <2> QED
    BY <2>2, <2>3, <2>4 DEF IInv
<1> QED
  BY <1>1, <1>2, <1>3, <1>4, <1>5, <1>6 DEF Next

LEMMA Invariant == Spec => []IInv
  BY InitIInv, NextIInv, PTL DEF Spec

----------------------------------------------------------------------------

(* Rows, locks and requests keep their types.                              *)
THEOREM TokensTypeCorrect == Spec => []TypeOK
  BY Invariant, PTL DEF IInv

(* Overlapping rotations of a token leave one successor.                   *)
THEOREM OneSuccessorAlways == Spec => []OneSuccessor
  BY Invariant, PTL DEF IInv

(* A token whose revocation was acknowledged stays revoked and has no      *)
(* successor.                                                              *)
THEOREM RevocationAlwaysFinal == Spec => []RevocationFinal
<1>1. IInv => RevocationFinal
  BY DEF IInv, TypeOK, RevokedState, Replaced, RevocationFinal
<1> QED
  BY <1>1, Invariant, PTL

(* A token that was dead when the request came is refused.                 *)
THEOREM DeadTokenAlwaysRefused == Spec => []DeadTokenRefused
<1>1. IInv => DeadTokenRefused
  BY DEF IInv, Sound, DeadStaysDead, DeadTokenRefused
<1> QED
  BY <1>1, Invariant, PTL

(* What a token lets a request do never exceeds the role of its subject.   *)
THEOREM ScopesAlwaysWithinRole == Spec => []ScopesWithinRole
<1>1. IInv => ScopesWithinRole
  BY DEF IInv, Sound, BestRank, ScopesWithinRole, About
<1> QED
  BY <1>1, Invariant, PTL
============================================================================
