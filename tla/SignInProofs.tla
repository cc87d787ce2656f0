---------------------------- MODULE SignInProofs ----------------------------
(***************************************************************************)
(* Proofs about SignIn, for any tabs, requests, flows, codes, sessions,    *)
(* lifetimes and any length of time: the types, what sessions come from,   *)
(* how long they last, and what a page believes.                           *)
(***************************************************************************)
EXTENDS SignIn, TLAPS

(* A request that holds the flow it took, until it has stored a session.   *)
Holding(r) == request[r].stage \in {"redeeming", "redeemed"}

(* The provider named u for flow f.                                        *)
Named(c, f, u) == code[c].spent /\ code[c].flow = f /\ code[c].subject = u

Known(s) == session[s].state # "unused"

(* What is known of a request at each of its stages.                       *)
Calls(r) ==
  request[r].stage = "returned" \/ Holding(r) =>
    /\ request[r].flow \in Flows /\ request[r].code \in Codes
    /\ code[request[r].code].flow # None

Holds(r) ==
  Holding(r) => /\ flow[request[r].flow].state = "taken"
                /\ \A s \in Sids : session[s].flow # request[r].flow

Redeemed(r) ==
  request[r].stage = "redeemed" =>
    Named(request[r].code, request[r].flow, request[r].subject)

Names(r) ==
  /\ request[r].stage = "stored" => request[r].sid # None
  /\ request[r].stage \in {"stored", "leaving", "asking"} /\ request[r].sid # None =>
       Known(request[r].sid)

DeadStaysDead(r) ==
  /\ request[r].stage = "asking" /\ request[r].dead => Over(request[r].sid)
  /\ request[r].stage = "accepted" => ~request[r].dead

Sound(r) == Calls(r) /\ Holds(r) /\ Redeemed(r) /\ Names(r) /\ DeadStaysDead(r)

(* Two requests never hold the same flow.                                  *)
HoldersApart ==
  \A r, o \in Requests :
    Holding(r) /\ Holding(o) /\ request[r].flow = request[o].flow => r = o

CodesNamed == \A c \in Codes : code[c].spent => code[c].flow # None

SessionSound(s) ==
  /\ ~Known(s) => session[s].flow = None
  /\ Known(s) => /\ session[s].flow \in Flows
                 /\ flow[session[s].flow].state = "taken"
                 /\ \E c \in Codes : Named(c, session[s].flow, session[s].subject)
  /\ session[s].state = "deleted" <=> s \in ended
  /\ s \in given \/ s = cookie => Known(s)

SessionsApart ==
  \A s, v \in Sids : Known(s) /\ session[v].flow = session[s].flow => v = s

IInv ==
  /\ TypeOK
  /\ \A r \in Requests : Sound(r)
  /\ HoldersApart /\ CodesNamed
  /\ \A s \in Sids : SessionSound(s)
  /\ SessionsApart

----------------------------------------------------------------------------
(* What requests become.                                                   *)

(* All of a request but the tab that waits for it.                         *)
Kept(o) ==
  /\ request'[o].stage = request[o].stage
  /\ request'[o].flow = request[o].flow
  /\ request'[o].code = request[o].code
  /\ request'[o].subject = request[o].subject
  /\ request'[o].sid = request[o].sid
  /\ request'[o].dead = request[o].dead
  /\ request'[o].use = request[o].use

LEMMA OrphanedKeeps ==
  ASSUME NEW t \in Tabs, request \in [Requests -> Request], NEW o \in Requests
  PROVE  /\ Orphaned(t) \in [Requests -> Request]
         /\ Orphaned(t)[o].stage = request[o].stage
         /\ Orphaned(t)[o].flow = request[o].flow
         /\ Orphaned(t)[o].code = request[o].code
         /\ Orphaned(t)[o].subject = request[o].subject
         /\ Orphaned(t)[o].sid = request[o].sid
         /\ Orphaned(t)[o].dead = request[o].dead
         /\ Orphaned(t)[o].use = request[o].use
         /\ Orphaned(t)[o].tab = IF request[o].tab = t THEN None ELSE request[o].tab
<1>1. ASSUME NEW p \in Requests PROVE Orphaned(t)[p] \in Request
  BY <1>1 DEF Orphaned, Request
<1>2. Orphaned(t) \in [Requests -> Request]
  BY <1>1 DEF Orphaned
<1> QED
  BY <1>2 DEF Orphaned, Request

Stages == {"idle", "returned", "redeeming", "redeemed", "stored",
           "asking", "accepted", "refused", "leaving", "left"}

(* The request gets a new stage.                                           *)
LEMMA NextStage ==
  ASSUME NEW r \in Requests, request \in [Requests -> Request],
         NEW stage \in Stages,
         request' = [request EXCEPT ![r].stage = stage]
  PROVE  /\ request' \in [Requests -> Request]
         /\ request'[r].stage = stage
         /\ request'[r].flow = request[r].flow
         /\ request'[r].code = request[r].code
         /\ request'[r].subject = request[r].subject
         /\ request'[r].sid = request[r].sid
         /\ request'[r].dead = request[r].dead
         /\ request'[r].use = request[r].use
         /\ request'[r].tab = request[r].tab
         /\ \A o \in Requests : o # r => request'[o] = request[o]
<1> DEFINE q == [request[r] EXCEPT !.stage = stage]
<1>1. /\ q \in Request /\ q.stage = stage
      /\ q.flow = request[r].flow /\ q.code = request[r].code
      /\ q.subject = request[r].subject /\ q.sid = request[r].sid
      /\ q.dead = request[r].dead /\ q.use = request[r].use /\ q.tab = request[r].tab
  BY DEF Request, Stages
<1>2. request' = [request EXCEPT ![r] = q]
  OBVIOUS
<1> HIDE DEF q
<1> QED
  BY <1>1, <1>2

----------------------------------------------------------------------------
(* What no step does: a flow is not given back, a code that was spent and  *)
(* a session do not change but for its deletion, and nothing is forgotten. *)
Grows ==
  /\ \A f \in Flows : flow[f].state = "taken" => flow'[f].state = "taken"
  /\ \A c \in Codes : /\ code[c].flow # None => code'[c].flow = code[c].flow
                      /\ code[c].spent => code'[c] = code[c]
  /\ \A s \in Sids : Known(s) => /\ Known(s)'
                                 /\ session'[s].flow = session[s].flow
                                 /\ session'[s].subject = session[s].subject
                                 /\ session'[s].expires = session[s].expires
  /\ ended \subseteq ended' /\ given \subseteq given'
  /\ now' \in Nat /\ now' >= now

(* A request that a step leaves alone stays sound.                         *)
LEMMA Frame ==
  ASSUME IInv, Grows, NEW o \in Requests, Kept(o),
         Holding(o) => \A s \in Sids : session'[s].flow # request[o].flow
  PROVE  Sound(o)'
<1> USE DEF Kept
<1>1. Sound(o) /\ request[o] \in Request
  BY DEF IInv, TypeOK
<1>2. request[o].sid \in Sids \cup {None} /\ request[o].code \in Codes \cup {None}
  BY <1>1 DEF Request
<1>3. Calls(o)'
  BY <1>1 DEF Sound, Calls, Holding, Grows
<1>4. Holds(o)'
  BY <1>1 DEF Sound, Calls, Holds, Holding, Grows
<1>5. Redeemed(o)'
  BY <1>1 DEF Sound, Calls, Redeemed, Holding, Named, Grows
<1>6. Names(o)'
  BY <1>1, <1>2 DEF Sound, Names, Grows
<1>7. ASSUME Over(request[o].sid), request[o].sid # None, Known(request[o].sid)
      PROVE  Over(request[o].sid)'
  <2>1. /\ session'[request[o].sid].expires = session[request[o].sid].expires
        /\ session[request[o].sid].expires \in Nat /\ now \in Nat
        /\ now' \in Nat /\ now' >= now /\ ended \subseteq ended'
    BY <1>2, <1>7 DEF Grows, IInv, TypeOK, Session
  <2> QED
    BY <1>7, <2>1 DEF Over
<1>8. DeadStaysDead(o)'
  BY <1>1, <1>7 DEF Sound, DeadStaysDead, Names, Over
<1> QED
  BY <1>3, <1>4, <1>5, <1>6, <1>8 DEF Sound

(* So does a session that a step does not change.                          *)
LEMMA SessionsKept ==
  ASSUME IInv, Grows, session' = session, ended' = ended,
         \A s \in Sids : s \in given' \/ s = cookie' =>
           s \in given \/ s = cookie \/ Known(s)
  PROVE  SessionsApart' /\ \A s \in Sids : SessionSound(s)'
<1>1. ASSUME NEW s \in Sids PROVE SessionSound(s)'
  <2>1. SessionSound(s)
    BY DEF IInv
  <2>2. ASSUME Known(s)
        PROVE  \E c \in Codes : Named(c, session[s].flow, session[s].subject)'
    BY <2>1, <2>2 DEF SessionSound, Named, Grows
  <2> QED
    BY <2>1, <2>2 DEF SessionSound, Grows, Known
<1> QED
  BY <1>1 DEF IInv, SessionsApart, Known

(* A step that leaves sessions and all requests but r alone.               *)
LEMMA Quiet ==
  ASSUME IInv, TypeOK', Grows, session' = session, ended' = ended,
         \A s \in Sids : s \in given' \/ s = cookie' =>
           s \in given \/ s = cookie \/ Known(s),
         CodesNamed', NEW r,
         \A o \in Requests : o # r => Kept(o),
         r \in Requests => Sound(r)',
         r \in Requests /\ Holding(r)' =>
           \A o \in Requests : o # r /\ Holding(o) =>
             request'[r].flow # request[o].flow
  PROVE  IInv'
<1>1. ASSUME NEW o \in Requests, o # r PROVE Sound(o)'
  BY <1>1, Frame DEF IInv, Sound, Holds
<1>2. HoldersApart'
  BY DEF IInv, HoldersApart, Holding, Kept
<1> QED
  BY <1>1, <1>2, SessionsKept DEF IInv

LEMMA AllQuiet ==
  ASSUME IInv, TypeOK', Grows, session' = session, ended' = ended,
         given' = given, cookie' = cookie, CodesNamed',
         \A o \in Requests : Kept(o)
  PROVE  IInv'
<1>1. None \notin Requests
  BY NoneAssumption
<1> QED
  BY <1>1, Quiet

(* A request that is idle, or has been answered, is always sound.          *)
LEMMA IdleSound ==
  ASSUME NEW r \in Requests, request'[r].stage \in {"idle", "refused", "left"}
  PROVE  Sound(r)' /\ ~Holding(r)'
BY DEF Sound, Calls, Holds, Redeemed, Names, DeadStaysDead, Holding

LEMMA IdleTyped == Idle \in Request
BY DEF Idle, Request

LEMMA GrowsQuietly ==
  ASSUME TypeOK, UNCHANGED <<now, flow, code, session, ended>>, given \subseteq given'
  PROVE  Grows
BY DEF TypeOK, Grows, Known

LEMMA InitIInv == Init => IInv
<1>1. SUFFICES ASSUME Init PROVE IInv
  OBVIOUS
<1>2. TypeOK
  BY <1>1, IdleTyped DEF Init, TypeOK, Flow, Code, Session, Page
<1>3. \A r \in Requests : Sound(r) /\ ~Holding(r)
  BY <1>1 DEF Init, Idle, Sound, Calls, Holds, Redeemed, Names, DeadStaysDead, Holding
<1>4. \A s \in Sids : ~Known(s) /\ SessionSound(s)
  BY <1>1, NoneAssumption DEF Init, Known, SessionSound
<1> QED
  BY <1>1, <1>2, <1>3, <1>4 DEF IInv, HoldersApart, SessionsApart, CodesNamed, Init

----------------------------------------------------------------------------
(* The steps of the browser.                                               *)

LEMMA OrphanedAll ==
  ASSUME NEW t \in Tabs, request \in [Requests -> Request], request' = Orphaned(t)
  PROVE  request' \in [Requests -> Request] /\ \A o \in Requests : Kept(o)
<1>1. ASSUME NEW o \in Requests PROVE Kept(o)
  BY OrphanedKeeps DEF Kept
<1>2. request' \in [Requests -> Request]
  BY DEF Orphaned, Request
<1> QED
  BY <1>1, <1>2

LEMMA VisitStep ==
  ASSUME IInv, NEW t \in Tabs, Visit(t)
  PROVE  IInv'
<1>1. request' \in [Requests -> Request] /\ \A o \in Requests : Kept(o)
  BY OrphanedAll DEF IInv, TypeOK, Visit
<1>2. TypeOK'
  BY <1>1 DEF IInv, TypeOK, Visit, Loaded, Page
<1>3. Grows
  BY GrowsQuietly DEF IInv, Visit
<1>4. CodesNamed'
  BY DEF IInv, CodesNamed, Visit
<1> QED
  BY <1>1, <1>2, <1>3, <1>4, AllQuiet DEF Visit

LEMMA AskingTyped ==
  ASSUME IInv, NEW t \in Tabs, NEW use \in BOOLEAN
  PROVE  /\ Asking(t, use) \in Request
         /\ Asking(t, use).stage = "asking" /\ Asking(t, use).tab = t
         /\ Asking(t, use).use = use /\ Asking(t, use).sid = cookie
         /\ Asking(t, use).dead = Over(cookie)
<1>1. cookie \in Sids \cup {None} /\ Over(cookie) \in BOOLEAN
  BY DEF IInv, TypeOK, Over
<1> QED
  BY <1>1 DEF Asking, Idle, Request

LEMMA AskingSound ==
  ASSUME IInv, NEW t \in Tabs, NEW r \in Requests, NEW use \in BOOLEAN,
         request' = [request EXCEPT ![r] = Asking(t, use)],
         UNCHANGED <<now, flow, code, session, cookie, given, ended>>,
         page' \in [Tabs -> Page]
  PROVE  IInv'
<1> DEFINE q == Asking(t, use)
<1>1. /\ q \in Request /\ q.stage = "asking" /\ q.sid = cookie
      /\ q.dead = Over(cookie)
  BY AskingTyped
<1>2. request' = [request EXCEPT ![r] = q]
  OBVIOUS
<1> HIDE DEF q
<1>3. request'[r] = q /\ \A o \in Requests : o # r => Kept(o)
  BY <1>2 DEF IInv, TypeOK, Kept
<1>4. TypeOK'
  BY <1>1, <1>2 DEF IInv, TypeOK
<1>5. Grows
  BY GrowsQuietly DEF IInv
<1>6. cookie # None => Known(cookie)
  BY DEF IInv, TypeOK, SessionSound
<1>7. Sound(r)' /\ ~Holding(r)'
  BY <1>1, <1>3, <1>6
     DEF Sound, Calls, Holds, Redeemed, Names, DeadStaysDead, Holding, Known, Over
<1>8. CodesNamed'
  BY DEF IInv, CodesNamed
<1> QED
  BY <1>3, <1>4, <1>5, <1>7, <1>8, Quiet

LEMMA InitializeStep ==
  ASSUME IInv, NEW t \in Tabs, NEW r \in Requests, Initialize(t, r)
  PROVE  IInv'
<1>1. page' \in [Tabs -> Page]
  <2> DEFINE p == [page[t] EXCEPT !.mounts = @ - 1]
  <2>1. page[t] \in Page /\ page[t].mounts > 0
    BY DEF IInv, TypeOK, Initialize
  <2>2. p \in Page
    BY <2>1 DEF Page
  <2>3. page' = [page EXCEPT ![t] = p]
    BY DEF Initialize
  <2> HIDE DEF p
  <2> QED
    BY <2>2, <2>3 DEF IInv, TypeOK
<1>2. CASE Looking(t)
  <2>1. TypeOK' /\ CodesNamed' /\ \A o \in Requests : Kept(o)
    BY <1>1, <1>2 DEF IInv, TypeOK, Initialize, CodesNamed, Kept
  <2>2. Grows
    BY GrowsQuietly DEF IInv, Initialize
  <2> QED
    BY <2>1, <2>2, AllQuiet DEF Initialize
<1>3. CASE ~Looking(t)
  BY <1>1, <1>3, AskingSound DEF Initialize, Become
<1> QED
  BY <1>2, <1>3

LEMMA UseStep ==
  ASSUME IInv, NEW t \in Tabs, NEW r \in Requests, Use(t, r)
  PROVE  IInv'
<1>1. page' \in [Tabs -> Page]
  BY DEF IInv, TypeOK, Use
<1> QED
  BY <1>1, AskingSound DEF Use, Become

LEMMA LoginStep ==
  ASSUME IInv, NEW t \in Tabs, NEW f \in Flows, Login(t, f)
  PROVE  IInv'
<1>1. request' \in [Requests -> Request] /\ \A o \in Requests : Kept(o)
  BY OrphanedAll DEF IInv, TypeOK, Login
<1>2. /\ flow' \in [Flows -> Flow]
      /\ \A g \in Flows : flow[g].state = "taken" => flow'[g] = flow[g]
  <2>1. [state |-> "open", expires |-> now + FlowTTL] \in Flow
    BY TTLAssumption DEF IInv, TypeOK, Flow
  <2> QED
    BY <2>1 DEF IInv, TypeOK, Login
<1>3. TypeOK'
  BY <1>1, <1>2 DEF IInv, TypeOK, Login, Show, Page
<1>4. Grows
  BY <1>2 DEF IInv, TypeOK, Login, Grows, Known
<1>5. CodesNamed'
  BY DEF IInv, CodesNamed, Login
<1> QED
  BY <1>1, <1>3, <1>4, <1>5, AllQuiet DEF Login

LEMMA ReturnStep ==
  ASSUME IInv, NEW t \in Tabs, NEW r \in Requests, NEW f \in Flows,
         NEW c \in Codes, Return(t, r, f, c)
  PROVE  IInv'
<1> DEFINE q == [Idle EXCEPT !.stage = "returned", !.tab = t, !.flow = f, !.code = c]
<1>1. q \in Request /\ q.stage = "returned" /\ q.flow = f /\ q.code = c
  BY DEF Idle, Request
<1>2. request' = [Orphaned(t) EXCEPT ![r] = q]
  BY DEF Return
<1> HIDE DEF q
<1>3. /\ request' \in [Requests -> Request] /\ request'[r] = q
      /\ \A o \in Requests : o # r => request'[o] = Orphaned(t)[o]
  <2>1. Orphaned(t) \in [Requests -> Request]
    BY OrphanedKeeps DEF IInv, TypeOK
  <2> QED
    BY <1>1, <1>2, <2>1
<1>4. \A o \in Requests : o # r => Kept(o)
  BY <1>3, OrphanedKeeps DEF IInv, TypeOK, Kept
<1>5. TypeOK'
  BY <1>3 DEF IInv, TypeOK, Return
<1>6. Grows
  BY GrowsQuietly DEF IInv, Return
<1>7. Sound(r)' /\ ~Holding(r)'
  BY <1>1, <1>3
     DEF Return, Sound, Calls, Holds, Redeemed, Names, DeadStaysDead, Holding
<1>8. CodesNamed'
  BY DEF IInv, CodesNamed, Return
<1> QED
  BY <1>4, <1>5, <1>6, <1>7, <1>8, Quiet DEF Return

(* Steps that answer, refuse or restart a request.                         *)
LEMMA Replaced ==
  ASSUME IInv, NEW r \in Requests, NEW q \in Request,
         q.stage \in {"idle", "refused", "left", "leaving"},
         q.stage = "leaving" => q.sid = cookie,
         request' = [request EXCEPT ![r] = q],
         UNCHANGED <<now, flow, code, session, given, ended>>,
         cookie' \in {cookie, None},
         page' \in [Tabs -> Page]
  PROVE  IInv'
<1>1. request'[r] = q /\ \A o \in Requests : o # r => Kept(o)
  BY DEF IInv, TypeOK, Kept
<1>2. TypeOK'
  BY DEF IInv, TypeOK
<1>3. Grows
  BY GrowsQuietly DEF IInv
<1>4. CodesNamed'
  BY DEF IInv, CodesNamed
<1>5. cookie # None => Known(cookie)
  BY DEF IInv, TypeOK, SessionSound
<1>6. Sound(r)' /\ ~Holding(r)'
  BY <1>1, <1>5
     DEF Sound, Calls, Holds, Redeemed, Names, DeadStaysDead, Holding, Known
<1> QED
  BY <1>1, <1>2, <1>3, <1>4, <1>6, Quiet, NoneAssumption

LEMMA LogoutStep ==
  ASSUME IInv, NEW t \in Tabs, NEW r \in Requests, Logout(t, r)
  PROVE  IInv'
<1> DEFINE q == [Idle EXCEPT !.stage = "leaving", !.tab = t, !.sid = cookie]
<1>1. q \in Request /\ q.stage = "leaving" /\ q.sid = cookie
  <2>1. cookie \in Sids \cup {None}
    BY DEF IInv, TypeOK
  <2> QED
    BY <2>1 DEF Idle, Request
<1>2. request' = [request EXCEPT ![r] = q]
  BY DEF Logout, Become
<1> HIDE DEF q
<1>3. page' \in [Tabs -> Page]
  BY DEF IInv, TypeOK, Logout
<1> QED
  BY <1>1, <1>2, <1>3, Replaced DEF Logout

LEMMA EndStep ==
  ASSUME IInv, NEW r \in Requests, Answer(r) \/ SignedOut(r) \/ Fail(r)
  PROVE  IInv'
<1>1. Idle.stage = "idle"
  BY DEF Idle
<1>2. request[r].tab \in Tabs \cup {None}
  BY DEF IInv, TypeOK, Request
<1>3. page' \in [Tabs -> Page]
  BY <1>2 DEF IInv, TypeOK, Answer, SignedOut, Fail, Show, Page
<1> QED
  BY <1>1, <1>3, IdleTyped, Replaced DEF Answer, SignedOut, Fail, Become

----------------------------------------------------------------------------
(* The steps of the server, of the provider and of time.                   *)

LEMMA LookupStep ==
  ASSUME IInv, NEW r \in Requests, Lookup(r)
  PROVE  IInv'
<1> DEFINE stage == IF Valid(request[r].sid) THEN "accepted" ELSE "refused"
<1>1. stage \in Stages /\ request' = [request EXCEPT ![r].stage = stage]
  BY DEF Stages, Lookup
<1>2. stage \in {"accepted", "refused"} /\ (stage = "accepted" => Valid(request[r].sid))
  OBVIOUS
<1> HIDE DEF stage
<1>3. /\ request' \in [Requests -> Request] /\ request'[r].stage = stage
      /\ request'[r].dead = request[r].dead
      /\ \A o \in Requests : o # r => Kept(o)
  BY <1>1, NextStage DEF IInv, TypeOK, Kept
<1>4. TypeOK'
  BY <1>3 DEF IInv, TypeOK, Lookup
<1>5. Grows
  BY GrowsQuietly DEF IInv, Lookup
<1>6. ASSUME Valid(request[r].sid) PROVE ~request[r].dead
  <2>1. request[r].sid \in Sids /\ ~(session[request[r].sid].state = "deleted")
    BY <1>6 DEF IInv, TypeOK, Request, Valid
  <2>2. session[request[r].sid].expires \in Nat /\ now \in Nat
    BY <2>1 DEF IInv, TypeOK, Session
  <2>3. ~Over(request[r].sid)
    BY <1>6, <2>1, <2>2 DEF IInv, SessionSound, Valid, Over
  <2> QED
    BY <2>3 DEF Lookup, IInv, Sound, DeadStaysDead
<1>7. Sound(r)' /\ ~Holding(r)'
  BY <1>2, <1>3, <1>6
     DEF Sound, Calls, Holds, Redeemed, Names, DeadStaysDead, Holding
<1>8. CodesNamed'
  BY DEF IInv, CodesNamed, Lookup
<1> QED
  BY <1>3, <1>4, <1>5, <1>7, <1>8, Quiet DEF Lookup

LEMMA TakeFlowStep ==
  ASSUME IInv, NEW r \in Requests, TakeFlow(r)
  PROVE  IInv'
<1> DEFINE f == request[r].flow
<1>1. f \in Flows /\ flow[f].state = "open" /\ request[r].stage = "returned"
  BY DEF IInv, Sound, Calls, TakeFlow
<1>2. /\ flow' \in [Flows -> Flow] /\ flow'[f].state = "taken"
      /\ \A g \in Flows : g # f => flow'[g] = flow[g]
  <2> DEFINE row == [flow[f] EXCEPT !.state = "taken"]
  <2>1. row \in Flow /\ row.state = "taken"
    BY <1>1 DEF IInv, TypeOK, Flow
  <2>2. flow' = [flow EXCEPT ![f] = row]
    BY DEF TakeFlow
  <2> HIDE DEF row
  <2> QED
    BY <1>1, <2>1, <2>2 DEF IInv, TypeOK
<1>3. /\ request' \in [Requests -> Request] /\ request'[r].stage = "redeeming"
      /\ request'[r].flow = f /\ request'[r].code = request[r].code
      /\ \A o \in Requests : o # r => Kept(o)
  <2>1. request' = [request EXCEPT ![r].stage = "redeeming"] /\ "redeeming" \in Stages
    BY DEF TakeFlow, Stages
  <2> QED
    BY <2>1, NextStage DEF IInv, TypeOK, Kept
<1>4. TypeOK'
  BY <1>2, <1>3 DEF IInv, TypeOK, TakeFlow
<1>5. Grows
  BY <1>2 DEF IInv, TypeOK, TakeFlow, Grows, Known
<1>6. \A s \in Sids : session[s].flow # f
  BY <1>1, NoneAssumption DEF IInv, SessionSound
<1>7. \A o \in Requests : Holding(o) => request[o].flow # f
  BY <1>1 DEF IInv, Sound, Holds
<1>8. Sound(r)'
  BY <1>1, <1>2, <1>3, <1>6
     DEF IInv, TakeFlow, Sound, Calls, Holds, Redeemed, Names, DeadStaysDead, Holding
<1>9. CodesNamed'
  BY DEF IInv, CodesNamed, TakeFlow
<1> QED
  BY <1>3, <1>4, <1>5, <1>7, <1>8, <1>9, Quiet DEF TakeFlow

LEMMA RedeemStep ==
  ASSUME IInv, NEW r \in Requests, Redeem(r)
  PROVE  IInv'
<1> DEFINE c == request[r].code
<1>1. /\ c \in Codes /\ code[c].flow # None /\ ~code[c].spent
      /\ Holding(r) /\ code[c] \in Code
  BY DEF IInv, TypeOK, Sound, Calls, Holding, Redeem
<1>2. /\ code' \in [Codes -> Code] /\ code'[c].spent
      /\ code'[c].flow = code[c].flow /\ code'[c].subject = code[c].subject
      /\ \A d \in Codes : d # c => code'[d] = code[d]
  <2> DEFINE spent == [code[c] EXCEPT !.spent = TRUE]
  <2>1. /\ spent \in Code /\ spent.spent
        /\ spent.flow = code[c].flow /\ spent.subject = code[c].subject
    BY <1>1 DEF Code
  <2>2. code' = [code EXCEPT ![c] = spent]
    BY DEF Redeem
  <2> HIDE DEF spent
  <2> QED
    BY <1>1, <2>1, <2>2 DEF IInv, TypeOK
<1>3. Grows
  BY <1>1, <1>2 DEF IInv, TypeOK, Redeem, Grows, Known
<1>4. CodesNamed'
  BY <1>1, <1>2 DEF IInv, CodesNamed
<1>5. CASE code[c].flow # request[r].flow
  <2>1. request' = [request EXCEPT ![r] = Idle]
    BY <1>5 DEF Redeem, Become
  <2>2. /\ request' \in [Requests -> Request] /\ request'[r].stage = "idle"
        /\ \A o \in Requests : o # r => Kept(o)
    BY <2>1, IdleTyped DEF IInv, TypeOK, Kept, Idle
  <2>3. TypeOK'
    BY <1>2, <2>2 DEF IInv, TypeOK, Redeem
  <2> QED
    BY <1>3, <1>4, <2>2, <2>3, IdleSound, Quiet DEF Redeem
<1>6. CASE code[c].flow = request[r].flow
  <2> DEFINE q == [request[r] EXCEPT !.stage = "redeemed", !.subject = code[c].subject]
  <2>1. /\ q \in Request /\ q.stage = "redeemed" /\ q.subject = code[c].subject
        /\ q.flow = request[r].flow /\ q.code = c
    <3>1. request[r] \in Request /\ code[c].subject \in Subjects \cup {None}
      BY <1>1 DEF IInv, TypeOK, Code
    <3> QED
      BY <3>1 DEF Request
  <2>2. request' = [request EXCEPT ![r] = q]
    BY <1>6 DEF Redeem
  <2> HIDE DEF q
  <2>3. /\ request' \in [Requests -> Request] /\ request'[r] = q
        /\ \A o \in Requests : o # r => Kept(o)
    BY <2>1, <2>2 DEF IInv, TypeOK, Kept
  <2>4. TypeOK'
    BY <1>2, <2>3 DEF IInv, TypeOK, Redeem
  <2>5. Redeemed(r)'
    BY <1>2, <1>6, <2>1, <2>3 DEF Redeemed, Named
  <2>6. Calls(r) /\ Holds(r)
    BY DEF IInv, Sound
  <2>7. Calls(r)' /\ Holds(r)'
    BY <1>1, <1>2, <2>1, <2>3, <2>6 DEF Calls, Holds, Holding, Redeem
  <2>8. Sound(r)'
    BY <2>1, <2>3, <2>5, <2>7 DEF Sound, Names, DeadStaysDead
  <2>9. \A o \in Requests : o # r /\ Holding(o) => request'[r].flow # request[o].flow
    BY <1>1, <2>1, <2>3 DEF IInv, HoldersApart
  <2> QED
    BY <1>3, <1>4, <2>3, <2>4, <2>8, <2>9, Quiet DEF Redeem
<1> QED
  BY <1>5, <1>6

LEMMA PutSessionStep ==
  ASSUME IInv, NEW r \in Requests, NEW s \in Sids, PutSession(r, s)
  PROVE  IInv'
<1> DEFINE f == request[r].flow
           c == request[r].code
           row == [state |-> "live", expires |-> now + SessionTTL,
                   subject |-> request[r].subject, flow |-> f]
           q == [request[r] EXCEPT !.stage = "stored", !.sid = s]
<1>1. /\ f \in Flows /\ c \in Codes /\ Holding(r) /\ ~Known(s)
      /\ flow[f].state = "taken" /\ Named(c, f, request[r].subject)
      /\ \A v \in Sids : session[v].flow # f
  BY DEF IInv, Sound, Calls, Holds, Redeemed, Holding, PutSession, Known
<1>2. row \in Session
  <2>1. now \in Nat /\ request[r].subject \in Subjects \cup {None}
    BY DEF IInv, TypeOK, Request
  <2> QED
    BY <1>1, <2>1, TTLAssumption DEF Session
<1>3. /\ q \in Request /\ q.stage = "stored" /\ q.sid = s
  BY DEF IInv, TypeOK, Request
<1>4. /\ session' = [session EXCEPT ![s] = row]
      /\ row.state = "live" /\ row.flow = f /\ row.subject = request[r].subject
  BY DEF PutSession
<1>5. request' = [request EXCEPT ![r] = q]
  BY DEF PutSession
<1> HIDE DEF q, row
<1>6. /\ session' \in [Sids -> Session] /\ session'[s] = row
      /\ \A v \in Sids : v # s => session'[v] = session[v]
  BY <1>2, <1>4 DEF IInv, TypeOK
<1>7. /\ request' \in [Requests -> Request] /\ request'[r] = q
      /\ \A o \in Requests : o # r => Kept(o)
  BY <1>3, <1>5 DEF IInv, TypeOK, Kept
<1>8. TypeOK'
  BY <1>6, <1>7 DEF IInv, TypeOK, PutSession
<1>9. Grows
  BY <1>1, <1>6 DEF IInv, TypeOK, PutSession, Grows, Known
<1>10. ASSUME NEW o \in Requests, o # r PROVE Sound(o)'
  <2>1. Holding(o) => request[o].flow # f
    BY <1>1, <1>10 DEF IInv, HoldersApart
  <2>2. Holding(o) => \A v \in Sids : session[v].flow # request[o].flow
    BY DEF IInv, Sound, Holds
  <2>3. Holding(o) => \A v \in Sids : session'[v].flow # request[o].flow
    BY <1>4, <1>6, <2>1, <2>2
  <2> QED
    BY <1>7, <1>9, <1>10, <2>3, Frame
<1>11. Sound(r)' /\ ~Holding(r)'
  BY <1>3, <1>4, <1>6, <1>7, NoneAssumption
     DEF Sound, Calls, Holds, Redeemed, Names, DeadStaysDead, Holding, Known
<1>12. HoldersApart' /\ CodesNamed'
  BY <1>7, <1>11 DEF IInv, HoldersApart, Holding, Kept, CodesNamed, PutSession
<1>13. ASSUME NEW v \in Sids PROVE SessionSound(v)'
  <2>1. CASE v = s
    <3>1. \E d \in Codes : Named(d, session[s].flow, session[s].subject)'
      BY <1>1, <1>4, <1>6 DEF Named, PutSession
    <3>2. s \notin ended
      BY <1>1 DEF IInv, SessionSound, Known
    <3>3. Known(s)' /\ session'[s].flow = f /\ session'[s].state = "live"
      BY <1>4, <1>6 DEF Known
    <3>4. flow' = flow /\ ended' = ended
      BY DEF PutSession
    <3> QED
      BY <1>1, <2>1, <3>1, <3>2, <3>3, <3>4 DEF SessionSound
  <2>2. CASE v # s
    <3>1. SessionSound(v) /\ session'[v] = session[v]
      BY <1>6, <2>2 DEF IInv
    <3> QED
      BY <3>1 DEF SessionSound, Known, Named, PutSession
  <2> QED
    BY <2>1, <2>2
<1>14. SessionsApart'
  <2>1. \A v \in Sids : ~Known(v) => session[v].flow = None
    BY DEF IInv, SessionSound
  <2> QED
    BY <1>1, <1>4, <1>6, <2>1, NoneAssumption DEF IInv, SessionsApart, Known
<1> QED
  BY <1>8, <1>10, <1>11, <1>12, <1>13, <1>14 DEF IInv

LEMMA SignedInStep ==
  ASSUME IInv, NEW r \in Requests, SignedIn(r)
  PROVE  IInv'
<1> DEFINE t == request[r].tab
           s == request[r].sid
<1>1. t \in Tabs /\ s \in Sids /\ Known(s)
  <2>1. request[r] \in Request /\ Names(r)
    BY DEF IInv, TypeOK, Sound
  <2> QED
    BY <2>1 DEF SignedIn, Names, Request
<1>2. Orphaned(t) \in [Requests -> Request]
  BY <1>1, OrphanedKeeps DEF IInv, TypeOK
<1>3. /\ request' \in [Requests -> Request] /\ request'[r] = Idle
      /\ \A o \in Requests : o # r => request'[o] = Orphaned(t)[o]
  BY <1>2, IdleTyped DEF SignedIn
<1>4. \A o \in Requests : o # r => Kept(o)
  BY <1>1, <1>3, OrphanedKeeps DEF IInv, TypeOK, Kept
<1>5. TypeOK'
  BY <1>1, <1>3 DEF IInv, TypeOK, SignedIn, Loaded, Page
<1>6. Grows
  BY GrowsQuietly DEF IInv, SignedIn
<1>7. Sound(r)' /\ ~Holding(r)'
  BY <1>3, IdleSound DEF Idle
<1>8. CodesNamed'
  BY DEF IInv, CodesNamed, SignedIn
<1>9. /\ session' = session /\ ended' = ended
      /\ \A v \in Sids : v \in given' \/ v = cookie' => v \in given \/ Known(v)
  BY <1>1 DEF SignedIn
<1> QED
  BY <1>4, <1>5, <1>6, <1>7, <1>8, <1>9, Quiet

LEMMA DeleteSessionStep ==
  ASSUME IInv, NEW r \in Requests, DeleteSession(r)
  PROVE  IInv'
<1> DEFINE s == request[r].sid
<1>1. /\ request' \in [Requests -> Request] /\ request'[r].stage = "left"
      /\ \A o \in Requests : o # r => Kept(o)
  <2>1. request' = [request EXCEPT ![r].stage = "left"] /\ "left" \in Stages
    BY DEF DeleteSession, Stages
  <2> QED
    BY <2>1, NextStage DEF IInv, TypeOK, Kept
<1>2. Sound(r)' /\ ~Holding(r)'
  BY <1>1, IdleSound
<1>3. CodesNamed'
  BY DEF IInv, CodesNamed, DeleteSession
<1>4. CASE s = None
  <2>1. UNCHANGED <<now, flow, code, session, cookie, page, given, ended>>
    BY <1>4 DEF DeleteSession
  <2>2. TypeOK' /\ Grows
    BY <1>1, <2>1, GrowsQuietly DEF IInv, TypeOK
  <2> QED
    BY <1>1, <1>2, <1>3, <2>1, <2>2, Quiet
<1>5. CASE s # None
  <2> DEFINE row == [session[s] EXCEPT !.state = "deleted"]
  <2>1. s \in Sids /\ session[s] \in Session /\ Known(s)
    <3>1. request[r] \in Request /\ Names(r)
      BY DEF IInv, TypeOK, Sound
    <3>2. s \in Sids /\ Known(s)
      BY <1>5, <3>1 DEF DeleteSession, Names, Request
    <3> QED
      BY <3>2 DEF IInv, TypeOK
  <2>2. /\ row \in Session /\ row.state = "deleted" /\ row.flow = session[s].flow
        /\ row.subject = session[s].subject /\ row.expires = session[s].expires
    BY <2>1 DEF Session
  <2>3. /\ session' = [session EXCEPT ![s] = row] /\ ended' = ended \cup {s}
        /\ UNCHANGED <<now, flow, code, cookie, page, given>>
    BY <1>5 DEF DeleteSession
  <2> HIDE DEF row
  <2>4. /\ session' \in [Sids -> Session] /\ session'[s] = row
        /\ \A v \in Sids : v # s => session'[v] = session[v]
    BY <2>1, <2>2, <2>3 DEF IInv, TypeOK
  <2>5. TypeOK'
    BY <1>1, <2>1, <2>3, <2>4 DEF IInv, TypeOK
  <2>6. \A v \in Sids : /\ Known(v)' <=> Known(v)
                        /\ session'[v].flow = session[v].flow
                        /\ session'[v].subject = session[v].subject
                        /\ session'[v].expires = session[v].expires
    BY <2>1, <2>2, <2>4 DEF Known
  <2>7. Grows
    BY <2>3, <2>6 DEF IInv, TypeOK, Grows
  <2>8. ASSUME NEW o \in Requests, o # r PROVE Sound(o)'
    <3>1. Holding(o) => \A v \in Sids : session'[v].flow # request[o].flow
      BY <2>6 DEF IInv, Sound, Holds
    <3> QED
      BY <1>1, <2>7, <2>8, <3>1, Frame
  <2>9. HoldersApart'
    BY <1>1, <1>2 DEF IInv, HoldersApart, Holding, Kept
  <2>10. ASSUME NEW v \in Sids PROVE SessionSound(v)'
    <3>1. SessionSound(v)
      BY DEF IInv
    <3>2. session'[v].state = "deleted" <=> v \in ended'
      BY <2>2, <2>3, <2>4, <3>1 DEF SessionSound
    <3>3. /\ session'[v].flow = session[v].flow
          /\ session'[v].subject = session[v].subject
          /\ Known(v)' <=> Known(v)
      BY <2>6
    <3>4. ASSUME Known(v)
          PROVE  \E c \in Codes : Named(c, session[v].flow, session[v].subject)'
      <4>1. PICK c \in Codes : Named(c, session[v].flow, session[v].subject)
        BY <3>1, <3>4 DEF SessionSound
      <4> QED
        BY <2>3, <3>3, <4>1 DEF Named
    <3>5. flow' = flow /\ cookie' = cookie /\ given' = given
      BY <2>3
    <3> QED
      BY <3>1, <3>2, <3>3, <3>4, <3>5 DEF SessionSound
  <2>11. SessionsApart'
    BY <2>6 DEF IInv, SessionsApart
  <2> QED
    BY <1>2, <1>3, <2>5, <2>8, <2>9, <2>10, <2>11 DEF IInv
<1> QED
  BY <1>4, <1>5

LEMMA AuthorizeStep ==
  ASSUME IInv, NEW f \in Flows, NEW u \in Subjects, NEW c \in Codes,
         Authorize(f, u, c)
  PROVE  IInv'
<1> DEFINE issued == [flow |-> f, subject |-> u, spent |-> FALSE]
<1>1. /\ issued \in Code /\ issued.flow = f /\ ~issued.spent
      /\ code' = [code EXCEPT ![c] = issued]
  BY DEF Code, Authorize
<1> HIDE DEF issued
<1>2. /\ code' \in [Codes -> Code] /\ code'[c] = issued
      /\ \A d \in Codes : d # c => code'[d] = code[d]
  BY <1>1 DEF IInv, TypeOK
<1>3. code[c].flow = None /\ ~code[c].spent
  BY DEF IInv, CodesNamed, Authorize
<1>4. TypeOK'
  BY <1>2 DEF IInv, TypeOK, Authorize
<1>5. Grows
  BY <1>2, <1>3 DEF IInv, TypeOK, Authorize, Grows, Known
<1>6. CodesNamed'
  BY <1>1, <1>2 DEF IInv, CodesNamed
<1>7. \A o \in Requests : Kept(o)
  BY DEF Authorize, Kept
<1> QED
  BY <1>4, <1>5, <1>6, <1>7, AllQuiet DEF Authorize

LEMMA TickStep ==
  ASSUME IInv, Tick
  PROVE  IInv'
<1>1. now \in Nat /\ now' = now + 1
  BY DEF IInv, TypeOK, Tick
<1>2. TypeOK'
  BY <1>1 DEF IInv, TypeOK, Tick
<1>3. Grows
  BY <1>1 DEF IInv, TypeOK, Tick, Grows, Known
<1>4. CodesNamed' /\ \A o \in Requests : Kept(o)
  BY DEF IInv, CodesNamed, Tick, Kept
<1> QED
  BY <1>2, <1>3, <1>4, AllQuiet DEF Tick

LEMMA StutterStep ==
  ASSUME IInv, UNCHANGED vars
  PROVE  IInv'
<1>1. TypeOK' /\ CodesNamed' /\ \A o \in Requests : Kept(o)
  BY DEF IInv, TypeOK, CodesNamed, Kept, vars
<1>2. Grows
  BY GrowsQuietly DEF IInv, vars
<1> QED
  BY <1>1, <1>2, AllQuiet DEF vars

LEMMA ServeStep ==
  ASSUME IInv, NEW r \in Requests, Serve(r)
  PROVE  IInv'
BY LookupStep, EndStep, TakeFlowStep, RedeemStep, SignedInStep,
   DeleteSessionStep, PutSessionStep DEF Serve

LEMMA BrowseStep ==
  ASSUME IInv, NEW t \in Tabs, Browse(t)
  PROVE  IInv'
BY VisitStep, LoginStep, InitializeStep, UseStep, LogoutStep, ReturnStep
   DEF Browse

LEMMA NextIInv == IInv /\ [Next]_vars => IInv'
BY BrowseStep, ServeStep, AuthorizeStep, TickStep, StutterStep DEF Next

LEMMA SpecIInv == Spec => []IInv
BY InitIInv, NextIInv, PTL DEF Spec

(* The variables of the flow, the sessions and the pages keep their types. *)
THEOREM SignInTypeCorrect == Spec => []TypeOK
<1>1. IInv => TypeOK
  BY DEF IInv
<1> QED
  BY <1>1, SpecIInv, PTL

(* Flows are consumed once: repeated and overlapping callbacks never open  *)
(* two sessions from one login, nor one for somebody else's login.         *)
THEOREM FlowsOpenOneSession == Spec => []SessionsFromFlows
<1>1. IInv => SessionsFromFlows
  BY DEF IInv, SessionsFromFlows, SessionsApart, SessionSound, Known, Named
<1> QED
  BY <1>1, SpecIInv, PTL

(* A session that the browser was given lasts until its own logout.        *)
THEOREM SignInAlwaysKept == Spec => []SignInKept
<1>1. IInv => SignInKept
  <2>1. SUFFICES ASSUME IInv, NEW s \in given, s \notin ended
                 PROVE  session[s].state = "live"
    BY DEF SignInKept
  <2>2. s \in Sids /\ SessionSound(s) /\ session[s] \in Session
    BY <2>1 DEF IInv, TypeOK
  <2> QED
    BY <2>1, <2>2 DEF SessionSound, Known, Session
<1> QED
  BY <1>1, SpecIInv, PTL

(* No request is served with a session that was over when it was sent.     *)
THEOREM DeadSessionAlwaysRefused == Spec => []DeadSessionRefused
<1>1. IInv => DeadSessionRefused
  BY DEF IInv, Sound, DeadStaysDead, DeadSessionRefused
<1> QED
  BY <1>1, SpecIInv, PTL

----------------------------------------------------------------------------
(* What a page believes.  A request that a page waits for is of a kind     *)
(* that fits what the page shows, and at most one of them is a lookup.     *)

LookingUp(r) ==
  request[r].stage \in {"asking", "accepted", "refused"} /\ ~request[r].use

Calling(r) == request[r].stage \in {"returned", "redeeming", "redeemed", "stored"}

Working(r) ==
  \/ request[r].stage \in {"asking", "accepted", "refused"} /\ request[r].use
  \/ request[r].stage \in {"leaving", "left"}

Waits(r) ==
  request[r].tab # None =>
    /\ Calling(r) => page[request[r].tab].status = "away"
    /\ LookingUp(r) => page[request[r].tab].status = "loading"
    /\ Working(r) => page[request[r].tab].status \in {"authenticated", "anonymous"}

OneLookup ==
  \A r, o \in Requests :
    /\ LookingUp(r) /\ LookingUp(o)
    /\ request[r].tab # None /\ request[r].tab = request[o].tab
    => r = o

MountsLoading == \A t \in Tabs : page[t].mounts > 0 => page[t].status = "loading"

PInv == (\A r \in Requests : Waits(r)) /\ OneLookup /\ MountsLoading

(* What a step makes of a request that it does not send.                   *)
Follows(o) ==
  \/ request'[o].stage = "idle"
  \/ request'[o].tab = None
  \/ /\ request'[o].tab = request[o].tab
     /\ Calling(o)' => Calling(o)
     /\ LookingUp(o)' => LookingUp(o)
     /\ Working(o)' => Working(o)

(* Pages stay, and so does what they wait for.                             *)
LEMMA PagesKept ==
  ASSUME PInv, page' = page, \A o \in Requests : Follows(o)
  PROVE  PInv'
<1>1. ASSUME NEW o \in Requests PROVE Waits(o)'
  BY DEF PInv, Waits, Follows, Calling, LookingUp, Working
<1>2. OneLookup'
  BY DEF PInv, OneLookup, Follows, LookingUp
<1>3. MountsLoading'
  BY DEF PInv, MountsLoading
<1> QED
  BY <1>1, <1>2, <1>3 DEF PInv

(* The page of a tab is replaced, and waits for nothing yet.               *)
LEMMA PageReplaced ==
  ASSUME PInv, NEW t \in Tabs, NEW p \in Page, page \in [Tabs -> Page],
         request \in [Requests -> Request],
         page' = [page EXCEPT ![t] = p], p.mounts > 0 => p.status = "loading",
         \A o \in Requests : Follows(o) /\
                              (request'[o].stage = "idle" \/ request'[o].tab # t)
  PROVE  PInv'
<1>1. ASSUME NEW o \in Requests PROVE Waits(o)'
  <2>1. request[o].tab \in Tabs \cup {None}
    BY DEF Request
  <2>2. CASE request'[o].stage = "idle" \/ request'[o].tab = None
    BY <2>2 DEF Waits, Calling, LookingUp, Working
  <2>3. CASE ~(request'[o].stage = "idle" \/ request'[o].tab = None)
    <3>1. request'[o].tab = request[o].tab /\ request[o].tab # t /\ Waits(o)
      BY <2>3 DEF Follows, PInv
    <3>2. page'[request[o].tab] = page[request[o].tab]
      BY <2>1, <2>3, <3>1
    <3> QED
      BY <2>3, <3>1, <3>2 DEF Waits, Follows
  <2> QED
    BY <2>2, <2>3
<1>2. OneLookup'
  BY DEF PInv, OneLookup, Follows, LookingUp
<1>3. MountsLoading'
  BY DEF PInv, MountsLoading
<1> QED
  BY <1>1, <1>2, <1>3 DEF PInv

(* A page learns that it is signed in or not, by the end of the request r. *)
LEMMA PageTold ==
  ASSUME PInv, IInv, NEW r \in Requests, NEW t \in Tabs, request[r].tab = t,
         LookingUp(r) \/ Working(r),
         NEW status \in {"authenticated", "anonymous"}, Show(t, status),
         request' = [request EXCEPT ![r] = Idle]
  PROVE  PInv'
<1> DEFINE p == [status |-> status, mounts |-> 0]
<1>1. /\ request'[r].stage = "idle"
      /\ \A o \in Requests : o # r => request'[o] = request[o]
  BY IdleTyped DEF IInv, TypeOK, Idle
<1>2. p.status = status /\ p.mounts = 0 /\ page' = [page EXCEPT ![t] = p]
  BY DEF Show
<1> HIDE DEF p
<1>3. page'[t] = p /\ \A u \in Tabs : u # t => page'[u] = page[u]
  BY <1>2 DEF IInv, TypeOK
<1>4. t # None
  BY NoneAssumption
<1>5. ASSUME NEW o \in Requests PROVE Waits(o)'
  <2>1. Waits(o) /\ request[o].tab \in Tabs \cup {None}
    BY DEF PInv, IInv, TypeOK, Request
  <2>2. CASE o = r
    BY <1>1, <2>2 DEF Waits, Calling, LookingUp, Working
  <2>3. CASE o # r /\ request[o].tab # t
    BY <1>1, <1>3, <2>1, <2>3 DEF Waits, Calling, LookingUp, Working
  <2>4. CASE o # r /\ request[o].tab = t
    <3>1. page[t].status \in {"loading", "authenticated", "anonymous"}
      BY <1>4 DEF PInv, Waits
    <3>2. ~LookingUp(o) /\ ~Calling(o)
      BY <1>4, <2>1, <2>4, <3>1 DEF PInv, OneLookup, Waits
    <3> QED
      BY <1>1, <1>2, <1>3, <2>4, <3>2 DEF Waits, Calling, LookingUp, Working
  <2> QED
    BY <2>2, <2>3, <2>4
<1>6. OneLookup'
  BY <1>1 DEF PInv, OneLookup, LookingUp
<1>7. MountsLoading'
  BY <1>2, <1>3 DEF PInv, MountsLoading
<1> QED
  BY <1>5, <1>6, <1>7 DEF PInv

(* A page sends a request that fits it.                                    *)
LEMMA PageAsks ==
  ASSUME PInv, IInv, NEW r \in Requests, NEW t \in Tabs, NEW q \in Request,
         q.tab = t, request' = [request EXCEPT ![r] = q],
         \A u \in Tabs : page'[u].status = page[u].status /\
                         page'[u].mounts <= page[u].mounts,
         page' \in [Tabs -> Page],
         \/ /\ q.stage = "asking" /\ ~q.use
            /\ page[t].status = "loading" /\ ~Looking(t)
         \/ /\ (q.stage = "asking" /\ q.use) \/ q.stage = "leaving"
            /\ page[t].status = "authenticated"
  PROVE  PInv'
<1>1. request'[r] = q /\ \A o \in Requests : o # r => request'[o] = request[o]
  BY DEF IInv, TypeOK
<1>2. ASSUME NEW o \in Requests PROVE Waits(o)'
  <2>1. CASE o = r
    BY <1>1, <2>1 DEF Waits, Calling, LookingUp, Working
  <2>2. CASE o # r
    <3>1. Waits(o) /\ request'[o] = request[o] /\ request[o].tab \in Tabs \cup {None}
      BY <1>1, <2>2 DEF PInv, IInv, TypeOK, Request
    <3> QED
      BY <3>1 DEF Waits, Calling, LookingUp, Working
  <2> QED
    BY <2>1, <2>2
<1>3. OneLookup'
  BY <1>1 DEF PInv, OneLookup, LookingUp, Looking
<1>4. MountsLoading'
  <2>1. ASSUME NEW u \in Tabs, page'[u].mounts > 0 PROVE page[u].mounts > 0
    <3>1. page[u].mounts \in 0..2 /\ page'[u].mounts \in 0..2
      BY DEF IInv, TypeOK, Page
    <3> QED
      BY <2>1, <3>1
  <2> QED
    BY <2>1 DEF PInv, MountsLoading
<1> QED
  BY <1>2, <1>3, <1>4 DEF PInv

LEMMA OrphanedFollow ==
  ASSUME NEW t \in Tabs, request \in [Requests -> Request], NEW o \in Requests,
         request'[o] = Orphaned(t)[o]
  PROVE  Follows(o) /\ request'[o].tab # t
<1>1. t # None
  BY NoneAssumption
<1> QED
  BY <1>1, OrphanedKeeps DEF Follows, Calling, LookingUp, Working

LEMMA BrowsePages ==
  ASSUME PInv, IInv, NEW t \in Tabs, Browse(t)
  PROVE  PInv'
<1>1. request \in [Requests -> Request] /\ page \in [Tabs -> Page]
  BY DEF IInv, TypeOK
<1>2. CASE Visit(t)
  <2>1. Loaded \in Page /\ (Loaded.mounts > 0 => Loaded.status = "loading")
    BY DEF Loaded, Page
  <2>2. page' = [page EXCEPT ![t] = Loaded] /\ request' = Orphaned(t)
    BY <1>2 DEF Visit
  <2> QED
    BY <1>1, <2>1, <2>2, OrphanedFollow, PageReplaced
<1>3. ASSUME NEW f \in Flows, Login(t, f) PROVE PInv'
  <2> DEFINE p == [status |-> "away", mounts |-> 0]
  <2>1. p \in Page /\ ~(p.mounts > 0)
    BY DEF Page
  <2>2. page' = [page EXCEPT ![t] = p] /\ request' = Orphaned(t)
    BY <1>3 DEF Login, Show
  <2> HIDE DEF p
  <2> QED
    BY <1>1, <2>1, <2>2, OrphanedFollow, PageReplaced
<1>4. ASSUME NEW r \in Requests, Initialize(t, r) PROVE PInv'
  <2> DEFINE p == [page[t] EXCEPT !.mounts = @ - 1]
  <2>1. page[t] \in Page /\ page[t].mounts > 0
    BY <1>1, <1>4 DEF Initialize
  <2>2. /\ p \in Page /\ p.status = page[t].status /\ p.mounts <= page[t].mounts
        /\ p.mounts > 0 => page[t].mounts > 0
    BY <2>1 DEF Page
  <2>3. page' = [page EXCEPT ![t] = p]
    BY <1>4 DEF Initialize
  <2> HIDE DEF p
  <2>4. /\ page' \in [Tabs -> Page] /\ page'[t] = p
        /\ \A u \in Tabs : u # t => page'[u] = page[u]
    BY <1>1, <2>2, <2>3
  <2>5. page[t].status = "loading"
    BY <2>1 DEF PInv, MountsLoading
  <2>6. CASE Looking(t)
    <3>1. request' = request
      BY <1>4, <2>6 DEF Initialize
    <3>2. ASSUME NEW o \in Requests PROVE Waits(o)'
      <4>1. Waits(o) /\ request[o].tab \in Tabs \cup {None}
        BY <1>1 DEF PInv, Request
      <4> QED
        BY <2>2, <2>4, <3>1, <4>1 DEF Waits, Calling, LookingUp, Working
    <3>3. OneLookup' /\ MountsLoading'
      BY <2>2, <2>4, <2>5, <3>1 DEF PInv, OneLookup, MountsLoading, LookingUp
    <3> QED
      BY <3>2, <3>3 DEF PInv
  <2>7. CASE ~Looking(t)
    <3> DEFINE q == Asking(t, FALSE)
    <3>1. q \in Request /\ q.tab = t /\ q.stage = "asking" /\ ~q.use
      BY AskingTyped
    <3>2. request' = [request EXCEPT ![r] = q]
      BY <1>4, <2>7 DEF Initialize, Become
    <3> HIDE DEF q
    <3>3. \A u \in Tabs : /\ page'[u].status = page[u].status
                          /\ page'[u].mounts <= page[u].mounts
      <4>1. \A u \in Tabs : page[u].mounts \in 0..2
        BY <1>1 DEF Page
      <4> QED
        BY <2>2, <2>4, <4>1
    <3> QED
      BY <2>4, <2>5, <2>7, <3>1, <3>2, <3>3, PageAsks
  <2> QED
    BY <2>6, <2>7
<1>5. ASSUME NEW u \in Tabs PROVE page[u].mounts <= page[u].mounts
  <2> DEFINE n == page[u].mounts
  <2>1. n \in Nat
    BY <1>1 DEF Page
  <2> HIDE DEF n
  <2>2. n <= n
    BY <2>1
  <2> QED
    BY <2>2 DEF n
<1>6. ASSUME NEW r \in Requests, Use(t, r) PROVE PInv'
  <2> DEFINE q == Asking(t, TRUE)
  <2>1. q \in Request /\ q.tab = t /\ q.stage = "asking" /\ q.use
    BY AskingTyped
  <2>2. /\ request' = [request EXCEPT ![r] = q] /\ page' = page
        /\ page[t].status = "authenticated"
    BY <1>6 DEF Use, Become
  <2> HIDE DEF q
  <2> QED
    BY <1>1, <1>5, <2>1, <2>2, PageAsks
<1>7. ASSUME NEW r \in Requests, Logout(t, r) PROVE PInv'
  <2> DEFINE q == [Idle EXCEPT !.stage = "leaving", !.tab = t, !.sid = cookie]
  <2>1. q \in Request /\ q.tab = t /\ q.stage = "leaving"
    <3>1. cookie \in Sids \cup {None}
      BY DEF IInv, TypeOK
    <3> QED
      BY <3>1 DEF Idle, Request
  <2>2. /\ request' = [request EXCEPT ![r] = q] /\ page' = page
        /\ page[t].status = "authenticated"
    BY <1>7 DEF Logout, Become
  <2> HIDE DEF q
  <2> QED
    BY <1>1, <1>5, <2>1, <2>2, PageAsks
<1>8. ASSUME NEW r \in Requests, NEW f \in Flows, NEW c \in Codes, Return(t, r, f, c)
      PROVE  PInv'
  <2> DEFINE q == [Idle EXCEPT !.stage = "returned", !.tab = t, !.flow = f, !.code = c]
  <2>1. q.stage = "returned" /\ q.tab = t
    BY DEF Idle
  <2>2. /\ request' = [Orphaned(t) EXCEPT ![r] = q] /\ page' = page
        /\ page[t].status = "away"
    BY <1>8 DEF Return
  <2> HIDE DEF q
  <2>3. /\ request'[r] = q
        /\ \A o \in Requests : o # r => request'[o] = Orphaned(t)[o]
    BY <2>2 DEF Orphaned
  <2>4. \A o \in Requests : o # r => Follows(o)
    BY <1>1, <2>3, OrphanedFollow
  <2>5. ASSUME NEW o \in Requests PROVE Waits(o)'
    BY <2>1, <2>2, <2>3, <2>4 DEF PInv, Waits, Follows, Calling, LookingUp, Working
  <2>6. OneLookup'
    BY <2>1, <2>3, <2>4 DEF PInv, OneLookup, Follows, LookingUp
  <2>7. MountsLoading'
    BY <2>2 DEF PInv, MountsLoading
  <2> QED
    BY <2>5, <2>6, <2>7 DEF PInv
<1> QED
  BY <1>2, <1>3, <1>4, <1>6, <1>7, <1>8 DEF Browse

(* A request moves on at the server, and the pages do not notice.          *)
LEMMA ServerPages ==
  ASSUME PInv, IInv, NEW r \in Requests, NEW q \in Request,
         request' = [request EXCEPT ![r] = q], page' = page,
         \/ q.stage = "idle"
         \/ /\ q.tab = request[r].tab /\ q.use = request[r].use
            /\ \/ Calling(r) /\ q.stage \in {"redeeming", "redeemed", "stored"}
               \/ request[r].stage = "asking" /\ q.stage \in {"accepted", "refused"}
               \/ request[r].stage = "leaving" /\ q.stage = "left"
  PROVE  PInv'
<1>1. request'[r] = q /\ \A o \in Requests : o # r => request'[o] = request[o]
  BY DEF IInv, TypeOK
<1>2. Follows(r)
  BY <1>1 DEF Follows, Calling, LookingUp, Working
<1>3. ASSUME NEW o \in Requests, o # r PROVE Follows(o)
  BY <1>1, <1>3 DEF Follows, Calling, LookingUp, Working
<1> QED
  BY <1>2, <1>3, PagesKept

LEMMA ServePages ==
  ASSUME PInv, IInv, NEW r \in Requests, Serve(r)
  PROVE  PInv'
<1> DEFINE t == request[r].tab
           At(stage) == [request[r] EXCEPT !.stage = stage]
<1>1. /\ request[r] \in Request /\ t \in Tabs \cup {None}
      /\ request \in [Requests -> Request] /\ page \in [Tabs -> Page]
  BY DEF IInv, TypeOK, Request
<1>2. ASSUME NEW stage \in Stages
      PROVE  /\ At(stage) \in Request /\ At(stage).stage = stage
             /\ At(stage).tab = t /\ At(stage).use = request[r].use
  BY <1>1 DEF Request, Stages
<1>3. Idle.stage = "idle"
  BY DEF Idle
<1> HIDE DEF At
<1>4. CASE Lookup(r)
  <2> DEFINE stage == IF Valid(request[r].sid) THEN "accepted" ELSE "refused"
  <2>1. stage \in Stages /\ stage \in {"accepted", "refused"}
    BY DEF Stages
  <2>2. /\ request' = [request EXCEPT ![r] = At(stage)] /\ page' = page
        /\ request[r].stage = "asking"
    BY <1>4 DEF Lookup, At
  <2> HIDE DEF stage
  <2> QED
    BY <1>2, <2>1, <2>2, ServerPages
<1>5. CASE TakeFlow(r)
  <2>1. /\ request' = [request EXCEPT ![r] = At("redeeming")] /\ page' = page
        /\ Calling(r) /\ "redeeming" \in Stages
    BY <1>5 DEF TakeFlow, At, Calling, Stages
  <2> QED
    BY <1>2, <2>1, ServerPages
<1>6. CASE Redeem(r)
  <2> DEFINE c == code[request[r].code]
             q == [request[r] EXCEPT !.stage = "redeemed", !.subject = c.subject]
  <2>1. c \in Code
    BY <1>6 DEF IInv, TypeOK, Sound, Calls, Holding, Redeem
  <2>2. c.subject \in Subjects \cup {None}
    BY <2>1 DEF Code
  <2> HIDE DEF c
  <2>3. /\ q \in Request /\ q.stage = "redeemed" /\ q.tab = t
        /\ q.use = request[r].use
    BY <1>1, <2>2 DEF Request
  <2>4. /\ page' = page /\ Calling(r)
        /\ request' = [request EXCEPT ![r] = Idle] \/ request' = [request EXCEPT ![r] = q]
    BY <1>6 DEF Redeem, Become, Calling, c
  <2> HIDE DEF q
  <2> QED
    BY <1>3, <2>3, <2>4, IdleTyped, ServerPages
<1>7. ASSUME NEW s \in Sids, PutSession(r, s) PROVE PInv'
  <2> DEFINE q == [request[r] EXCEPT !.stage = "stored", !.sid = s]
  <2>1. q \in Request /\ q.stage = "stored" /\ q.tab = t /\ q.use = request[r].use
    BY <1>1 DEF Request
  <2>2. request' = [request EXCEPT ![r] = q] /\ page' = page /\ Calling(r)
    BY <1>7 DEF PutSession, Calling
  <2> HIDE DEF q
  <2> QED
    BY <2>1, <2>2, ServerPages
<1>8. CASE DeleteSession(r)
  <2>1. /\ request' = [request EXCEPT ![r] = At("left")] /\ page' = page
        /\ request[r].stage = "leaving" /\ "left" \in Stages
    BY <1>8 DEF DeleteSession, At, Stages
  <2> QED
    BY <1>2, <2>1, ServerPages
<1>9. CASE SignedIn(r)
  <2>1. Loaded \in Page /\ (Loaded.mounts > 0 => Loaded.status = "loading")
    BY DEF Loaded, Page
  <2>2. /\ t \in Tabs /\ page' = [page EXCEPT ![t] = Loaded]
        /\ request' = [Orphaned(t) EXCEPT ![r] = Idle]
    BY <1>1, <1>9 DEF SignedIn
  <2>3. /\ request'[r] = Idle
        /\ \A o \in Requests : o # r => request'[o] = Orphaned(t)[o]
    BY <2>2 DEF Orphaned
  <2>4. Follows(r)
    BY <1>3, <2>3 DEF Follows
  <2>5. ASSUME NEW o \in Requests
        PROVE  Follows(o) /\ (request'[o].stage = "idle" \/ request'[o].tab # t)
    BY <1>1, <1>3, <2>2, <2>3, <2>4, OrphanedFollow
  <2> QED
    BY <1>1, <2>1, <2>2, <2>5, PageReplaced
<1>10. ASSUME request' = [request EXCEPT ![r] = Idle], page' = page PROVE PInv'
  BY <1>3, <1>10, IdleTyped, ServerPages
<1>11. ASSUME NEW status \in {"authenticated", "anonymous"}, Show(t, status),
              request' = [request EXCEPT ![r] = Idle], t # None,
              LookingUp(r) \/ Working(r)
       PROVE  PInv'
  BY <1>1, <1>11, PageTold
<1>12. CASE Answer(r)
  BY <1>10, <1>11, <1>12 DEF Answer, Become, LookingUp, Working
<1>13. CASE SignedOut(r)
  BY <1>10, <1>11, <1>13 DEF SignedOut, Become, Working
<1>14. CASE Fail(r)
  <2>1. CASE page' = page
    BY <1>10, <1>14, <2>1 DEF Fail, Become
  <2>2. CASE page' # page
    <3>1. /\ Show(t, "anonymous") /\ t # None /\ request' = [request EXCEPT ![r] = Idle]
          /\ request[r].stage \notin {"idle", "returned", "redeeming", "redeemed", "stored"}
      BY <1>14, <2>2 DEF Fail, Become
    <3>2. LookingUp(r) \/ Working(r)
      BY <1>1, <3>1 DEF Request, LookingUp, Working
    <3> QED
      BY <1>11, <3>1, <3>2
  <2> QED
    BY <2>1, <2>2
<1> QED
  BY <1>4, <1>5, <1>6, <1>7, <1>8, <1>9, <1>12, <1>13, <1>14 DEF Serve

LEMMA NextPages == PInv /\ IInv /\ [Next]_vars => PInv'
<1>1. SUFFICES ASSUME PInv, IInv, [Next]_vars PROVE PInv'
  OBVIOUS
<1>2. ASSUME page' = page, request' = request PROVE PInv'
  <2>1. \A o \in Requests : Follows(o)
    BY <1>2 DEF Follows, Calling, LookingUp, Working
  <2> QED
    BY <1>1, <1>2, <2>1, PagesKept
<1>3. CASE UNCHANGED vars \/ Tick
  BY <1>2, <1>3 DEF vars, Tick
<1>4. ASSUME NEW f \in Flows, NEW u \in Subjects, NEW c \in Codes, Authorize(f, u, c)
      PROVE  PInv'
  BY <1>2, <1>4 DEF Authorize
<1> QED
  BY <1>1, <1>3, <1>4, BrowsePages, ServePages DEF Next

LEMMA InitPages == Init => PInv
BY DEF Init, Idle, PInv, Waits, OneLookup, MountsLoading, Calling, LookingUp, Working

(* Only a lookup shows a page as signed in, and only from loading.         *)
LEMMA AnonymousStays ==
  ASSUME PInv, IInv, [Next]_vars, NEW t \in Tabs, page[t].status = "anonymous"
  PROVE  page'[t].status # "authenticated"
<1>1. page \in [Tabs -> Page]
  BY DEF IInv, TypeOK
<1>2. CASE page' = page
  BY <1>2
<1>3. ASSUME NEW r \in Requests, Answer(r) PROVE page'[t].status # "authenticated"
  <2>1. CASE request[r].tab = t /\ Show(t, "authenticated")
    <3>1. LookingUp(r) \/ page' = page \/ Show(t, "anonymous")
      BY <1>3, <2>1 DEF Answer, LookingUp
    <3>2. ~LookingUp(r)
      BY <2>1, NoneAssumption DEF PInv, Waits
    <3> QED
      BY <1>1, <3>1, <3>2 DEF Show
  <2>2. CASE ~(request[r].tab = t /\ Show(t, "authenticated"))
    BY <1>1, <1>3, <2>2 DEF Answer, Show
  <2> QED
    BY <2>1, <2>2
<1>4. ASSUME NEW u \in Tabs, NEW status \in {"away", "anonymous"}, Show(u, status)
      PROVE  page'[t].status # "authenticated"
  BY <1>1, <1>4 DEF Show
<1>5. ASSUME NEW u \in Tabs, page' = [page EXCEPT ![u] = Loaded]
      PROVE  page'[t].status # "authenticated"
  BY <1>1, <1>5 DEF Loaded
<1>6. ASSUME NEW u \in Tabs, page' = [page EXCEPT ![u].mounts = @ - 1]
      PROVE  page'[t].status # "authenticated"
  <2>1. page[u] \in Page
    BY <1>1
  <2>2. [page[u] EXCEPT !.mounts = @ - 1].status = page[u].status
    BY <2>1 DEF Page
  <2> QED
    BY <1>1, <1>6, <2>2
<1>7. ASSUME NEW r \in Requests, Serve(r) PROVE page'[t].status # "authenticated"
  <2>1. request[r].tab \in Tabs \cup {None}
    BY DEF IInv, TypeOK, Request
  <2>2. CASE SignedIn(r) \/ SignedOut(r) \/ Fail(r)
    BY <1>2, <1>4, <1>5, <2>1, <2>2 DEF SignedIn, SignedOut, Fail
  <2>3. CASE \/ Lookup(r) \/ TakeFlow(r) \/ Redeem(r) \/ DeleteSession(r)
             \/ \E s \in Sids : PutSession(r, s)
    BY <1>2, <2>3 DEF Lookup, TakeFlow, Redeem, DeleteSession, PutSession
  <2> QED
    BY <1>3, <1>7, <2>2, <2>3 DEF Serve
<1>8. ASSUME NEW u \in Tabs, Browse(u) PROVE page'[t].status # "authenticated"
  BY <1>2, <1>4, <1>5, <1>6, <1>8
     DEF Browse, Visit, Login, Initialize, Use, Logout, Return
<1>9. CASE UNCHANGED vars \/ Tick \/ \E f \in Flows, u \in Subjects, c \in Codes :
             Authorize(f, u, c)
  BY <1>2, <1>9 DEF vars, Tick, Authorize
<1> QED
  BY <1>7, <1>8, <1>9 DEF Next

(* No page comes to show a user again without being loaded anew.           *)
THEOREM AnonymousAlwaysSticks == Spec => AnonymousSticks
<1>1. PInv /\ IInv /\ [Next]_vars =>
        [\A t \in Tabs : page[t].status = "anonymous" =>
                           page'[t].status # "authenticated"]_vars
  BY AnonymousStays
<1> QED
  BY <1>1, InitPages, NextPages, SpecIInv, PTL DEF Spec, AnonymousSticks
=============================================================================
