------------------------------- MODULE SignIn -------------------------------
(***************************************************************************)
(* Signing in and out with a browser: the login flow with the identity     *)
(* provider, the sessions and flows in PostgreSQL, the cookie, and what    *)
(* the pages believe (backend/internal/auth/browser.go, flow_store.go,     *)
(* session_store.go, frontend/src/features/auth/store.ts).                 *)
(*                                                                         *)
(* The tabs are those of one browser and share its cookie.  The server     *)
(* keeps nothing in memory, so that any number of replicas and restarts    *)
(* look alike: a request is served step by step and may be lost anywhere.  *)
(***************************************************************************)
EXTENDS Naturals

CONSTANTS
  Tabs,        \* tabs of the browser
  Requests,    \* HTTP requests in progress
  Flows,       \* login attempts: a state and a nonce, both random
  Codes,       \* authorization codes the provider may hand out
  Sids,        \* random identifiers of sessions
  Subjects,    \* people
  FlowTTL,     \* lifetime of a flow
  SessionTTL,  \* lifetime of a session
  MaxNow,      \* bound: clock ticks
  None

ASSUME TTLAssumption == FlowTTL \in Nat \ {0} /\ SessionTTL \in Nat \ {0}

ASSUME NoneAssumption ==
  None \notin Tabs \cup Requests \cup Flows \cup Codes \cup Sids \cup Subjects

VARIABLES
  now,      \* the clock of server and database
  flow,     \* rows of auth_oidc_flows
  code,     \* what the provider knows of its codes
  session,  \* rows of auth_sessions
  cookie,   \* the session cookie of the browser
  page,     \* the auth store of the page in each tab
  request,  \* the requests
  given,    \* history: sessions whose cookie reached the browser
  ended     \* history: sessions whose logout succeeded

vars == <<now, flow, code, session, cookie, page, request, given, ended>>

----------------------------------------------------------------------------

Flow == [state : {"unused", "open", "taken"}, expires : Nat]

(* flow stands for the nonce in the ID token that the code is worth.       *)
Code == [flow : Flows \cup {None}, subject : Subjects \cup {None},
         spent : BOOLEAN]

(* flow is history: the flow that opened the session.                      *)
Session == [state : {"unused", "live", "deleted"}, expires : Nat,
            subject : Subjects \cup {None}, flow : Flows \cup {None}]

(* A tab is away while it shows the provider or an answer to a callback.   *)
(* mounts counts the calls of initialize that the mount of the page still  *)
(* makes: StrictMode mounts it twice.                                      *)
Page == [status : {"away", "loading", "authenticated", "anonymous"},
         mounts : 0..2]

(* tab is the page that waits for the answer, None once it has gone.  dead *)
(* is history: the session was over when the request was sent.             *)
Request ==
  [stage : {"idle", "returned", "redeeming", "redeemed", "stored",
            "asking", "accepted", "refused", "leaving", "left"},
   tab : Tabs \cup {None}, use : BOOLEAN,
   flow : Flows \cup {None}, code : Codes \cup {None},
   subject : Subjects \cup {None}, sid : Sids \cup {None}, dead : BOOLEAN]

Idle ==
  [stage |-> "idle", tab |-> None, use |-> FALSE, flow |-> None,
   code |-> None, subject |-> None, sid |-> None, dead |-> FALSE]

TypeOK ==
  /\ now \in Nat
  /\ flow \in [Flows -> Flow]
  /\ code \in [Codes -> Code]
  /\ session \in [Sids -> Session]
  /\ cookie \in Sids \cup {None}
  /\ page \in [Tabs -> Page]
  /\ request \in [Requests -> Request]
  /\ given \subseteq Sids /\ ended \subseteq Sids

Init ==
  /\ now = 0
  /\ flow = [f \in Flows |-> [state |-> "unused", expires |-> 0]]
  /\ code = [c \in Codes |-> [flow |-> None, subject |-> None, spent |-> FALSE]]
  /\ session = [s \in Sids |-> [state |-> "unused", expires |-> 0,
                                subject |-> None, flow |-> None]]
  /\ cookie = None
  /\ page = [t \in Tabs |-> [status |-> "away", mounts |-> 0]]
  /\ request = [r \in Requests |-> Idle]
  /\ given = {} /\ ended = {}

(* A page that is loaded anew.                                             *)
Loaded == [status |-> "loading", mounts |-> 2]

Show(t, status) == page' = [page EXCEPT ![t] = [status |-> status, mounts |-> 0]]

(* The page in tab t goes away, and nobody waits for its requests.         *)
Orphaned(t) ==
  [r \in Requests |-> IF request[r].tab = t
                        THEN [request[r] EXCEPT !.tab = None] ELSE request[r]]

Become(r, req) == request' = [request EXCEPT ![r] = req]

(* What PostgreSQLSessionStore.Get finds.                                  *)
Valid(s) == s # None /\ session[s].state = "live" /\ session[s].expires > now

Over(s) == s # None /\ (s \in ended \/ session[s].expires <= now)

(* The page has run the effects of its mount: its answers can come in.     *)
Settled(t) == page[t].mounts = 0

----------------------------------------------------------------------------
(* A page and GET /api/v1/auth/me.                                         *)

(* The user opens or reloads the application.                              *)
Visit(t) ==
  /\ page' = [page EXCEPT ![t] = Loaded]
  /\ request' = Orphaned(t)
  /\ UNCHANGED <<now, flow, code, session, cookie, given, ended>>

Asking(t, use) ==
  [Idle EXCEPT !.stage = "asking", !.tab = t, !.use = use, !.sid = cookie,
               !.dead = Over(cookie)]

Looking(t) ==
  \E r \in Requests : /\ request[r].tab = t
                      /\ request[r].stage \in {"asking", "accepted", "refused"}
                      /\ ~request[r].use

(* Faulty variant: every call of initialize starts a lookup.               *)
InitializeAgain(t, r) ==
  /\ page[t].mounts > 0
  /\ request[r].stage = "idle"
  /\ page' = [page EXCEPT ![t].mounts = @ - 1]
  /\ Become(r, Asking(t, FALSE))
  /\ UNCHANGED <<now, flow, code, session, cookie, given, ended>>

(* initialize: calls that overlap share one lookup.                        *)
Initialize(t, r) ==
  /\ page[t].mounts > 0
  /\ request[r].stage = "idle"
  /\ page' = [page EXCEPT ![t].mounts = @ - 1]
  /\ IF Looking(t) THEN UNCHANGED request ELSE Become(r, Asking(t, FALSE))
  /\ UNCHANGED <<now, flow, code, session, cookie, given, ended>>

(* A page that believes to be signed in calls the management API.          *)
Use(t, r) ==
  /\ page[t].status = "authenticated"
  /\ request[r].stage = "idle"
  /\ Become(r, Asking(t, TRUE))
  /\ UNCHANGED <<now, flow, code, session, cookie, page, given, ended>>

(* Faulty variant: the query does not look at expires_at.                  *)
LookupForever(r) ==
  LET s == request[r].sid IN
  /\ request[r].stage = "asking"
  /\ request' = [request EXCEPT ![r].stage =
       IF s # None /\ session[s].state = "live" THEN "accepted" ELSE "refused"]
  /\ UNCHANGED <<now, flow, code, session, cookie, page, given, ended>>

(* SessionAuthenticator, behind Middleware and Require.                    *)
Lookup(r) ==
  /\ request[r].stage = "asking"
  /\ request' = [request EXCEPT ![r].stage =
       IF Valid(request[r].sid) THEN "accepted" ELSE "refused"]
  /\ UNCHANGED <<now, flow, code, session, cookie, page, given, ended>>

(* The answer reaches the page: of a lookup it says who the user is, of    *)
(* another call only a refusal matters.                                    *)
Answer(r) ==
  LET t == request[r].tab IN
  /\ request[r].stage \in {"accepted", "refused"}
  /\ t # None
  /\ Settled(t)
  /\ \/ /\ request[r].stage = "refused"
        /\ Show(t, "anonymous")
     \/ /\ request[r].stage = "accepted" /\ ~request[r].use
        /\ Show(t, "authenticated")
     \/ /\ request[r].stage = "accepted" /\ request[r].use
        /\ UNCHANGED page
  /\ Become(r, Idle)
  /\ UNCHANGED <<now, flow, code, session, cookie, given, ended>>

----------------------------------------------------------------------------
(* GET /auth/login, the provider, and GET /auth/callback.                  *)

(* Login stores a flow and redirects the tab to the provider.              *)
Login(t, f) ==
  /\ page[t].status = "anonymous"
  /\ flow[f].state = "unused"
  /\ flow' = [flow EXCEPT ![f] = [state |-> "open", expires |-> now + FlowTTL]]
  /\ Show(t, "away")
  /\ request' = Orphaned(t)
  /\ UNCHANGED <<now, code, session, cookie, given, ended>>

(* Somebody signs in at the provider; the page may be used more than once. *)
Authorize(f, u, c) ==
  /\ flow[f].state # "unused"
  /\ code[c].flow = None
  /\ code' = [code EXCEPT ![c] = [flow |-> f, subject |-> u, spent |-> FALSE]]
  /\ UNCHANGED <<now, flow, session, cookie, page, request, given, ended>>

(* A callback comes with any state and any code that exist, and again when *)
(* the tab is reloaded before it has its answer.                           *)
Return(t, r, f, c) ==
  /\ page[t].status = "away"
  /\ request[r].stage = "idle"
  /\ flow[f].state # "unused"
  /\ code[c].flow # None
  /\ request' = [Orphaned(t) EXCEPT ![r] =
       [Idle EXCEPT !.stage = "returned", !.tab = t, !.flow = f, !.code = c]]
  /\ UNCHANGED <<now, flow, code, session, cookie, page, given, ended>>

(* Faulty variant: Take reads the row and leaves it.                       *)
PeekFlow(r) ==
  LET f == request[r].flow IN
  /\ request[r].stage = "returned"
  /\ flow[f].state = "open" /\ flow[f].expires > now
  /\ request' = [request EXCEPT ![r].stage = "redeeming"]
  /\ UNCHANGED <<now, flow, code, session, cookie, page, given, ended>>

(* DELETE ... RETURNING in one statement.                                  *)
TakeFlow(r) ==
  LET f == request[r].flow IN
  /\ request[r].stage = "returned"
  /\ flow[f].state = "open" /\ flow[f].expires > now
  /\ flow' = [flow EXCEPT ![f].state = "taken"]
  /\ request' = [request EXCEPT ![r].stage = "redeeming"]
  /\ UNCHANGED <<now, code, session, cookie, page, given, ended>>

(* Exchange, at a provider that honours a code once, and the comparison of *)
(* the nonces.                                                             *)
Redeem(r) ==
  LET c == code[request[r].code] IN
  /\ request[r].stage = "redeeming"
  /\ ~c.spent
  /\ code' = [code EXCEPT ![request[r].code].spent = TRUE]
  /\ IF c.flow = request[r].flow
       THEN request' = [request EXCEPT ![r].stage = "redeemed",
                                       ![r].subject = c.subject]
       ELSE Become(r, Idle)
  /\ UNCHANGED <<now, flow, session, cookie, page, given, ended>>

PutSession(r, s) ==
  /\ request[r].stage = "redeemed"
  /\ session[s].state = "unused"
  /\ session' = [session EXCEPT ![s] =
       [state |-> "live", expires |-> now + SessionTTL,
        subject |-> request[r].subject, flow |-> request[r].flow]]
  /\ request' = [request EXCEPT ![r].stage = "stored", ![r].sid = s]
  /\ UNCHANGED <<now, flow, code, cookie, page, given, ended>>

(* Faulty variant: the cookie is set although Put has failed.              *)
SignUnstored(r) ==
  LET t == request[r].tab IN
  \E s \in Sids :
    /\ request[r].stage = "redeemed"
    /\ t # None
    /\ session[s].state = "unused"
    /\ cookie' = s
    /\ given' = given \cup {s}
    /\ page' = [page EXCEPT ![t] = Loaded]
    /\ request' = [Orphaned(t) EXCEPT ![r] = Idle]
    /\ UNCHANGED <<now, flow, code, session, ended>>

(* Faulty variant: the cookie carries the state of the flow.               *)
SignFlow(r) ==
  LET t == request[r].tab IN
  /\ request[r].stage = "stored"
  /\ t # None
  /\ cookie' = request[r].flow
  /\ given' = given \cup {request[r].sid}
  /\ page' = [page EXCEPT ![t] = Loaded]
  /\ request' = [Orphaned(t) EXCEPT ![r] = Idle]
  /\ UNCHANGED <<now, flow, code, session, ended>>

(* The answer sets the cookie and loads the application.                   *)
SignedIn(r) ==
  LET t == request[r].tab IN
  /\ request[r].stage = "stored"
  /\ t # None
  /\ cookie' = request[r].sid
  /\ given' = given \cup {request[r].sid}
  /\ page' = [page EXCEPT ![t] = Loaded]
  /\ request' = [Orphaned(t) EXCEPT ![r] = Idle]
  /\ UNCHANGED <<now, flow, code, session, ended>>

----------------------------------------------------------------------------
(* POST /auth/logout.                                                      *)

Logout(t, r) ==
  /\ page[t].status = "authenticated"
  /\ request[r].stage = "idle"
  /\ Become(r, [Idle EXCEPT !.stage = "leaving", !.tab = t, !.sid = cookie])
  /\ UNCHANGED <<now, flow, code, session, cookie, page, given, ended>>

DeleteSession(r) ==
  LET s == request[r].sid IN
  /\ request[r].stage = "leaving"
  /\ IF s = None
       THEN UNCHANGED <<session, ended>>
       ELSE /\ session' = [session EXCEPT ![s].state = "deleted"]
            /\ ended' = ended \cup {s}
  /\ request' = [request EXCEPT ![r].stage = "left"]
  /\ UNCHANGED <<now, flow, code, cookie, page, given>>

(* The answer clears the cookie, whichever session it names by now.        *)
SignedOut(r) ==
  LET t == request[r].tab IN
  /\ request[r].stage = "left"
  /\ cookie' = None
  /\ IF t = None THEN UNCHANGED page ELSE Show(t, "anonymous")
  /\ Become(r, Idle)
  /\ UNCHANGED <<now, flow, code, session, given, ended>>

----------------------------------------------------------------------------

(* A request is refused or fails, or its answer is lost.  A page takes a   *)
(* failed lookup for an anonymous visit, and forgets the user after a      *)
(* logout even if it failed.                                               *)
Fail(r) ==
  LET t == request[r].tab IN
  /\ request[r].stage # "idle"
  /\ IF \/ t = None
        \/ request[r].stage \in {"returned", "redeeming", "redeemed", "stored"}
        \/ request[r].use
       THEN UNCHANGED page
       ELSE Settled(t) /\ Show(t, "anonymous")
  /\ Become(r, Idle)
  /\ UNCHANGED <<now, flow, code, session, cookie, given, ended>>

Tick ==
  /\ now < MaxNow
  /\ now' = now + 1
  /\ UNCHANGED <<flow, code, session, cookie, page, request, given, ended>>

Serve(r) ==
  \/ Lookup(r) \/ Answer(r)
  \/ TakeFlow(r) \/ Redeem(r) \/ SignedIn(r)
  \/ DeleteSession(r) \/ SignedOut(r) \/ Fail(r)
  \/ \E s \in Sids : PutSession(r, s)

Browse(t) ==
  \/ Visit(t)
  \/ \E f \in Flows : Login(t, f)
  \/ \E r \in Requests :
       \/ Initialize(t, r) \/ Use(t, r) \/ Logout(t, r)
       \/ \E f \in Flows, c \in Codes : Return(t, r, f, c)

Next ==
  \/ \E t \in Tabs : Browse(t)
  \/ \E r \in Requests : Serve(r)
  \/ \E f \in Flows, u \in Subjects, c \in Codes : Authorize(f, u, c)
  \/ Tick

Spec == Init /\ [][Next]_vars

----------------------------------------------------------------------------
(* Properties.                                                             *)

(* However often a callback is repeated and whichever state and code it    *)
(* brings, a flow opens one session at most, for somebody whom the         *)
(* provider named for that very flow.                                      *)
SessionsFromFlows ==
  \A s \in Sids : session[s].state # "unused" =>
    /\ \A v \in Sids : session[v].flow = session[s].flow => v = s
    /\ \E c \in Codes : /\ code[c].spent
                        /\ code[c].flow = session[s].flow
                        /\ code[c].subject = session[s].subject

(* A session whose cookie reached the browser stays, across restarts and   *)
(* whatever happens to other sessions, until its own logout.               *)
SignInKept ==
  \A s \in given : s \notin ended => session[s].state = "live"

(* A request that is sent when its session has expired or was logged out   *)
(* is not served as anybody, even if the page never heard of the logout.   *)
DeadSessionRefused ==
  \A r \in Requests : request[r].stage = "accepted" => ~request[r].dead

(* A page that has learnt that nobody is signed in does not come to        *)
(* believe the contrary from an answer that is late.                       *)
AnonymousSticks ==
  [][\A t \in Tabs : page[t].status = "anonymous" =>
                       page'[t].status # "authenticated"]_vars
============================================================================
