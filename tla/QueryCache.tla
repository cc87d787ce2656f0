---------------------------- MODULE QueryCache ----------------------------
(***************************************************************************)
(* The analytics query service of the backend: a result cache with a time  *)
(* to live, single-flight deduplication of identical queries, and a small  *)
(* pool of execution slots in front of the source database                 *)
(* (backend/internal/analytics/query_cache.go and query_routes.go).        *)
(*                                                                         *)
(* A caller is one HTTP request served by ExecuteScopedFresh.  Everything  *)
(* it does under cache.mu is one action.  A flight is the background       *)
(* goroutine that runs one query for all the callers that asked for it.    *)
(* A key stands for the SHA-256 digest of scope, compiled query and        *)
(* dataset revisions: two requests have the same key exactly when the code *)
(* lets them share a result.  The source database is a version counter     *)
(* that other programs advance; a result is the version it was read at.    *)
(***************************************************************************)
EXTENDS Naturals, FiniteSets

CONSTANTS
  Callers,            \* requests that go through the cache
  Keys,               \* digests of distinct queries
  Flights,            \* identities of queryFlight objects
  Previews,           \* preview and filter-option requests: slots, no cache
  queryCacheEntries,  \* most results kept (64 in the code)
  queryFlightLimit,   \* most registered flights (64 in the code)
  slotLimit,          \* executions at a time (4 in the code)
  ttl,                \* life of a cached result, in ticks
  MaxSource,          \* bound: versions of the source
  MaxNow,             \* bound: clock ticks
  None

ASSUME LimitsAssumption ==
  /\ queryCacheEntries \in Nat \ {0}
  /\ queryFlightLimit \in Nat \ {0}
  /\ slotLimit \in Nat \ {0}
  /\ ttl \in Nat \ {0}
  /\ MaxSource \in Nat
  /\ MaxNow \in Nat

ASSUME IdentitiesAssumption ==
  /\ IsFiniteSet(Callers) /\ IsFiniteSet(Keys)
  /\ IsFiniteSet(Flights) /\ IsFiniteSet(Previews)
  /\ None \notin Flights /\ None \notin Keys

VARIABLES
  source,   \* version of the source tables
  now,      \* cache.now()
  entries,  \* cache.entries
  flights,  \* cache.flights: the flight a new caller of a key would join
  flight,   \* the queryFlight objects and how far their goroutine is
  caller,   \* the requests
  preview,  \* the requests that call execute directly
  slots,    \* tokens in the slots channel
  newest    \* history: newest version ever cached for a key

vars == <<source, now, entries, flights, flight, caller, preview, slots, newest>>

----------------------------------------------------------------------------

Entry == [key : Keys, version : Nat, expires : Nat]

(* "queued" waits for a slot, "executing" holds one, "returned" has left   *)
(* execute and waits for cache.mu, "done" has closed the done channel.     *)
FlightStages == {"free", "queued", "executing", "returned", "done"}

(* A "large" result is longer than queryCacheEntryBytes.                   *)
Outcomes == {"ok", "large", "error"}

Flight == [stage : FlightStages, key : Keys \cup {None}, waiters : Nat,
           cancelled : BOOLEAN, outcome : Outcomes, version : Nat]

NoFlight == [stage |-> "free", key |-> None, waiters |-> 0,
             cancelled |-> FALSE, outcome |-> "error", version |-> 0]

NewFlight(k) == [stage |-> "queued", key |-> k, waiters |-> 1,
                 cancelled |-> FALSE, outcome |-> "error", version |-> 0]

(* floor and got are history: the newest version cached for the key when   *)
(* the request took cache.mu, and the version it was answered with.        *)
Caller == [pc : {"idle", "waiting", "answered", "failed"},
           flight : Flights \cup {None}, gone : BOOLEAN,
           floor : Nat, got : Nat]

Resting(pc, floor, got) ==
  [pc |-> pc, flight |-> None, gone |-> FALSE, floor |-> floor, got |-> got]

Waiting(f, floor) ==
  [pc |-> "waiting", flight |-> f, gone |-> FALSE, floor |-> floor, got |-> 0]

TypeOK ==
  /\ source \in Nat
  /\ now \in Nat
  /\ entries \subseteq Entry
  /\ flights \in [Keys -> Flights \cup {None}]
  /\ flight \in [Flights -> Flight]
  /\ caller \in [Callers -> Caller]
  /\ preview \in [Previews -> {"idle", "waiting", "executing"}]
  /\ slots \in Nat
  /\ newest \in [Keys -> Nat]

Init ==
  /\ source = 0
  /\ now = 0
  /\ entries = {}
  /\ flights = [k \in Keys |-> None]
  /\ flight = [f \in Flights |-> NoFlight]
  /\ caller = [c \in Callers |-> Resting("idle", 0, 0)]
  /\ preview = [p \in Previews |-> "idle"]
  /\ slots = 0
  /\ newest = [k \in Keys |-> 0]

----------------------------------------------------------------------------
(* The locked section at the start of a request.                           *)

Unexpired == {e \in entries : now < e.expires}

Hits(k) == {e \in Unexpired : e.key = k}

(* refresh stands for a Cache-Control: no-cache header.                    *)
Misses(k, refresh) == refresh \/ Hits(k) = {}

Registered == {k \in Keys : flights[k] # None}

Attached(f) == {c \in Callers : caller[c].pc = "waiting" /\ caller[c].flight = f}

(* An object nobody refers to any more; a new flight may take its place.   *)
Collectable(f) == flight[f].stage \in {"free", "done"} /\ Attached(f) = {}

Ready(c) == caller[c].pc # "waiting"

HitCache(c, k) ==
  /\ Ready(c)
  /\ entries' = Unexpired
  /\ \E e \in Hits(k) :
       caller' = [caller EXCEPT ![c] = Resting("answered", newest[k], e.version)]
  /\ UNCHANGED <<source, now, flights, flight, preview, slots, newest>>

JoinFlight(c, k, refresh) ==
  /\ Ready(c)
  /\ Misses(k, refresh)
  /\ flights[k] # None
  /\ entries' = Unexpired
  /\ flight' = [flight EXCEPT ![flights[k]].waiters = @ + 1]
  /\ caller' = [caller EXCEPT ![c] = Waiting(flights[k], newest[k])]
  /\ UNCHANGED <<source, now, flights, preview, slots, newest>>

StartFlight(c, k, refresh, f) ==
  /\ Ready(c)
  /\ Misses(k, refresh)
  /\ flights[k] = None
  /\ Cardinality(Registered) < queryFlightLimit
  /\ Collectable(f)
  /\ entries' = Unexpired
  /\ flights' = [flights EXCEPT ![k] = f]
  /\ flight' = [flight EXCEPT ![f] = NewFlight(k)]
  /\ caller' = [caller EXCEPT ![c] = Waiting(f, newest[k])]
  /\ UNCHANGED <<source, now, preview, slots, newest>>

(* "analytics query queue full".                                           *)
RejectFull(c, k, refresh) ==
  /\ Ready(c)
  /\ Misses(k, refresh)
  /\ flights[k] = None
  /\ Cardinality(Registered) >= queryFlightLimit
  /\ entries' = Unexpired
  /\ caller' = [caller EXCEPT ![c] = Resting("failed", 0, 0)]
  /\ UNCHANGED <<source, now, flights, flight, preview, slots, newest>>

----------------------------------------------------------------------------
(* The select at the end of a request.                                     *)

(* The client goes away: the request's context is done.                    *)
Disconnect(c) ==
  /\ caller[c].pc = "waiting"
  /\ ~caller[c].gone
  /\ caller' = [caller EXCEPT ![c].gone = TRUE]
  /\ UNCHANGED <<source, now, entries, flights, flight, preview, slots, newest>>

(* Faulty variant: every client that goes away cancels the shared work.    *)
AnyWaiter(f) == TRUE

LastWaiter(f) == flight[f].waiters = 1

(* Faulty variant: the key is deleted whatever flight it leads to.         *)
DeregisterKey(f) ==
  [k \in Keys |-> IF k = flight[f].key THEN None ELSE flights[k]]

(* delete(cache.flights, key), only while the key still leads to f.        *)
Deregister(f) ==
  [k \in Keys |-> IF k = flight[f].key /\ flights[k] = f THEN None ELSE flights[k]]

(* case <-ctx.Done()                                                       *)
Leave(c) ==
  LET f == caller[c].flight IN
  /\ caller[c].pc = "waiting"
  /\ caller[c].gone
  /\ flight' = [flight EXCEPT ![f].waiters = @ - 1,
                              ![f].cancelled = @ \/ LastWaiter(f)]
  /\ flights' = IF LastWaiter(f) THEN Deregister(f) ELSE flights
  /\ caller' = [caller EXCEPT ![c] = Resting("failed", 0, 0)]
  /\ UNCHANGED <<source, now, entries, preview, slots, newest>>

(* case <-flight.done: the flight's error, or the caller's own context's,  *)
(* or the data.  The waiter count is left alone.                           *)
Receive(c) ==
  LET f == caller[c].flight IN
  /\ caller[c].pc = "waiting"
  /\ flight[f].stage = "done"
  /\ caller' = [caller EXCEPT ![c] =
                  IF @.gone \/ flight[f].outcome = "error"
                    THEN Resting("failed", 0, 0)
                    ELSE Resting("answered", @.floor, flight[f].version)]
  /\ UNCHANGED <<source, now, entries, flights, flight, preview, slots, newest>>

----------------------------------------------------------------------------
(* The goroutine of a flight: runFlight and execute.                       *)

AcquireSlot(f) ==
  /\ flight[f].stage = "queued"
  /\ slots < slotLimit
  /\ slots' = slots + 1
  /\ flight' = [flight EXCEPT ![f].stage = "executing"]
  /\ UNCHANGED <<source, now, entries, flights, caller, preview, newest>>

(* Faulty variant: a flight that never got a slot gives one back.          *)
AbandonSlotAndRelease(f) ==
  /\ flight[f].stage = "queued"
  /\ flight' = [flight EXCEPT ![f].stage = "returned", ![f].outcome = "error"]
  /\ slots' = slots - 1
  /\ UNCHANGED <<source, now, entries, flights, caller, preview, newest>>

(* Faulty variant: no deadline while queueing, only cancellation.          *)
AbandonSlotIfCancelled(f) ==
  /\ flight[f].stage = "queued"
  /\ flight[f].cancelled
  /\ flight' = [flight EXCEPT ![f].stage = "returned", ![f].outcome = "error"]
  /\ UNCHANGED <<source, now, entries, flights, caller, preview, slots, newest>>

(* ctx.Done() while queueing: every waiter left, or twenty seconds passed. *)
AbandonSlot(f) ==
  /\ flight[f].stage = "queued"
  /\ flight' = [flight EXCEPT ![f].stage = "returned", ![f].outcome = "error"]
  /\ UNCHANGED <<source, now, entries, flights, caller, preview, slots, newest>>

(* ExecuteAnalytics reads a snapshot and returns; the slot is given back.  *)
(* A cancelled execution may still return the rows it had read.            *)
ExecuteOk(f) ==
  /\ flight[f].stage = "executing"
  /\ \E o \in {"ok", "large"} :
       flight' = [flight EXCEPT ![f].stage = "returned",
                                ![f].outcome = o, ![f].version = source]
  /\ slots' = slots - 1
  /\ UNCHANGED <<source, now, entries, flights, caller, preview, newest>>

(* Faulty variant: a failed execution keeps its slot.                      *)
ExecuteFailKeepingSlot(f) ==
  /\ flight[f].stage = "executing"
  /\ flight' = [flight EXCEPT ![f].stage = "returned", ![f].outcome = "error"]
  /\ UNCHANGED <<source, now, entries, flights, caller, preview, slots, newest>>

(* The source failed, the statement timed out or the work was cancelled.   *)
ExecuteFail(f) ==
  /\ flight[f].stage = "executing"
  /\ flight' = [flight EXCEPT ![f].stage = "returned", ![f].outcome = "error"]
  /\ slots' = slots - 1
  /\ UNCHANGED <<source, now, entries, flights, caller, preview, newest>>

(* Faulty variants: an abandoned flight stores its result, or an error is  *)
(* stored like a result.                                                   *)
MayStoreAnyFlight(f) == flight[f].outcome = "ok"

MayStoreErrors(f) ==
  /\ flights[flight[f].key] = f
  /\ flight[f].outcome # "large"
  /\ ~flight[f].cancelled

MayStore(f) ==
  /\ flights[flight[f].key] = f
  /\ flight[f].outcome = "ok"
  /\ ~flight[f].cancelled

Oldest == {e \in entries : \A d \in entries : e.expires <= d.expires}

(* Faulty variant: room is made one entry too late.                        *)
MakeRoomLate ==
  IF Cardinality(entries) > queryCacheEntries
    THEN {entries \ {e} : e \in Oldest}
    ELSE {entries}

(* Making room counts the entries as they are, expired or not, and even    *)
(* when the key already has an entry that is about to be overwritten.      *)
MakeRoom ==
  IF Cardinality(entries) >= queryCacheEntries
    THEN {entries \ {e} : e \in Oldest}
    ELSE {entries}

Store(f) ==
  LET k == flight[f].key IN
  /\ \E kept \in MakeRoom :
       entries' = {e \in kept : e.key # k}
                    \cup {[key |-> k, version |-> flight[f].version,
                           expires |-> now + ttl]}
  /\ newest' = [newest EXCEPT ![k] = flight[f].version]

(* Faulty variant: a flight that has been replaced does not finish.        *)
FinishRegistered(f) ==
  /\ flight[f].stage = "returned"
  /\ flights[flight[f].key] = f
  /\ flight' = [flight EXCEPT ![f].stage = "done"]
  /\ flights' = Deregister(f)
  /\ IF MayStore(f) THEN Store(f) ELSE UNCHANGED <<entries, newest>>
  /\ UNCHANGED <<source, now, caller, preview, slots>>

(* The locked end of runFlight.                                            *)
Finish(f) ==
  /\ flight[f].stage = "returned"
  /\ flight' = [flight EXCEPT ![f].stage = "done"]
  /\ flights' = Deregister(f)
  /\ IF MayStore(f) THEN Store(f) ELSE UNCHANGED <<entries, newest>>
  /\ UNCHANGED <<source, now, caller, preview, slots>>

----------------------------------------------------------------------------
(* Preview and filter-option requests call execute on their own context.   *)

PreviewAsk(p) ==
  /\ preview[p] = "idle"
  /\ preview' = [preview EXCEPT ![p] = "waiting"]
  /\ UNCHANGED <<source, now, entries, flights, flight, caller, slots, newest>>

PreviewStart(p) ==
  /\ preview[p] = "waiting"
  /\ slots < slotLimit
  /\ slots' = slots + 1
  /\ preview' = [preview EXCEPT ![p] = "executing"]
  /\ UNCHANGED <<source, now, entries, flights, flight, caller, newest>>

PreviewAbandon(p) ==
  /\ preview[p] = "waiting"
  /\ preview' = [preview EXCEPT ![p] = "idle"]
  /\ UNCHANGED <<source, now, entries, flights, flight, caller, slots, newest>>

PreviewEnd(p) ==
  /\ preview[p] = "executing"
  /\ slots' = slots - 1
  /\ preview' = [preview EXCEPT ![p] = "idle"]
  /\ UNCHANGED <<source, now, entries, flights, flight, caller, newest>>

----------------------------------------------------------------------------
(* The environment.                                                        *)

WriteSource ==
  /\ source < MaxSource
  /\ source' = source + 1
  /\ UNCHANGED <<now, entries, flights, flight, caller, preview, slots, newest>>

Tick ==
  /\ now < MaxNow
  /\ now' = now + 1
  /\ UNCHANGED <<source, entries, flights, flight, caller, preview, slots, newest>>

Request(c) ==
  \E k \in Keys :
    \/ HitCache(c, k)
    \/ \E refresh \in BOOLEAN :
         \/ JoinFlight(c, k, refresh)
         \/ RejectFull(c, k, refresh)
         \/ \E f \in Flights : StartFlight(c, k, refresh, f)

Next ==
  \/ \E c \in Callers : Request(c) \/ Disconnect(c) \/ Leave(c) \/ Receive(c)
  \/ \E f \in Flights :
       \/ AcquireSlot(f) \/ AbandonSlot(f)
       \/ ExecuteOk(f) \/ ExecuteFail(f) \/ Finish(f)
  \/ \E p \in Previews :
       PreviewAsk(p) \/ PreviewStart(p) \/ PreviewAbandon(p) \/ PreviewEnd(p)
  \/ WriteSource
  \/ Tick

Spec == Init /\ [][Next]_vars

(* The Go scheduler runs every goroutine that can run; a queued flight     *)
(* gives up after twenty seconds and an execution ends within its          *)
(* statement timeout, so each stage ends; a request whose select has a     *)
(* ready branch takes one.  Clients, writers and the clock are not fair.   *)
Fairness ==
  /\ \A f \in Flights :
       /\ WF_vars(AcquireSlot(f) \/ AbandonSlot(f))
       /\ WF_vars(ExecuteOk(f) \/ ExecuteFail(f))
       /\ WF_vars(Finish(f))
  /\ \A c \in Callers : WF_vars(Leave(c) \/ Receive(c))
  /\ \A p \in Previews : WF_vars(PreviewEnd(p))

FairSpec == Spec /\ Fairness

----------------------------------------------------------------------------
(* Safety.                                                                 *)

Running(f) == flight[f].stage \in {"queued", "executing", "returned"}

(* A flight somebody still waits for is never cancelled and stays the one  *)
(* that new callers of its query join: a client that goes away cannot make *)
(* the remaining ones fail, whatever the order of joins and departures.    *)
LiveWorkKept ==
  \A c \in Callers :
    LET f == caller[c].flight IN
    caller[c].pc = "waiting" /\ Running(f) =>
      /\ ~flight[f].cancelled
      /\ flights[flight[f].key] = f

(* Deduplication: of all the goroutines running one query at most one is   *)
(* still wanted; every other one has been cancelled.                       *)
OneFlightPerKey ==
  \A f, g \in Flights :
    /\ Running(f) /\ ~flight[f].cancelled
    /\ Running(g) /\ ~flight[g].cancelled
    /\ flight[f].key = flight[g].key
    => f = g

Executing ==
  {f \in Flights : flight[f].stage = "executing"}

Previewing == {p \in Previews : preview[p] = "executing"}

(* Every token in the slots channel belongs to one execution in progress,  *)
(* of a flight (cancelled or not) or of a preview, and there are never     *)
(* more than the pool allows: no path out of execute leaks a slot.         *)
SlotsAccounted ==
  /\ slots = Cardinality(Executing) + Cardinality(Previewing)
  /\ slots <= slotLimit

(* The maps stay within their limits, and a query has one cached result.   *)
CacheBounded ==
  /\ Cardinality(entries) <= queryCacheEntries
  /\ Cardinality(Registered) <= queryFlightLimit
  /\ \A d, e \in entries : d.key = e.key => d = e

(* A request is never answered with data older than a result that had been *)
(* cached for its query when it began, whether it hits the cache, starts a *)
(* flight or joins one, and whether or not older flights of the query that *)
(* everybody abandoned are still running.                                  *)
NoStaleAnswer ==
  \A c \in Callers : caller[c].pc = "answered" => caller[c].got >= caller[c].floor

(* The service implements the abstract promise.                            *)
Answers == INSTANCE QueryAnswers WITH
  request <- [c \in Callers |-> [state |-> caller[c].pc,
                                 floor |-> caller[c].floor,
                                 got |-> caller[c].got]]

ImplementsAnswers == Answers!Spec

----------------------------------------------------------------------------
(* Liveness.                                                               *)

(* Every request that waits for a flight ends, with data or an error, even *)
(* when the slots are taken over and over by other work.                   *)
EveryRequestEnds ==
  \A c \in Callers : caller[c].pc = "waiting" ~> caller[c].pc # "waiting"

(* The goroutine of an abandoned flight ends too.                          *)
AbandonedWorkEnds ==
  \A f \in Flights : flight[f].cancelled /\ Running(f) ~> ~Running(f)
============================================================================
